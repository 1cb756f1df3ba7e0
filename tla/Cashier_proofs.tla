---------------------------- MODULE Cashier_proofs ----------------------------
(***************************************************************************)
(* Theorems about Cashier, for any number of users, tables, handlers and    *)
(* operations, any amounts, and any faults of the scene.                    *)
(*                                                                         *)
(* Two invariants carry them. Control is about the handlers: what each      *)
(* holds while it is busy, so that a step of one leaves the work of the     *)
(* others alone (Frame). Ledger is about the money: it names, for each      *)
(* operation, whether New API has moved its cents (paid), and whether they  *)
(* have reached or left the table in memory (held) and as saved (kept). No  *)
(* variable of the model holds this: a step shows how the one before it is  *)
(* carried on.                                                             *)
(***************************************************************************)
EXTENDS Cashier, Sums_proofs

-----------------------------------------------------------------------------
(* What the handlers keep in order *)

\* Stages of buying in, with a join under way and an operation booked; of settling
\* players, and with an operation booked.
Joining  == {"scan", "reserve", "enter", "debit", "sit", "refund", "finish", "release"}
Buying   == {"debit", "sit", "refund", "finish"}
Settling == {"pay", "vacate", "credit", "leave", "close"}
Booked   == Buying \cup {"credit", "leave", "close", "adjust"}

\* A join under way is marked as one; who is at a table's money holds its lock, an
\* operation that is worked on is pending, and who is settled sits at the table
\* with what he is credited, between hands.
Doing(w) ==
  LET k == work[w]  i == k.op
  IN  /\ k.at \in Joining => k.user \in inFlight /\ k.table \in Tables
      /\ k.at \in Buying \cup Settling => k.table \in Tables /\ lock[k.table] = w
      /\ k.at \in Booked =>
           i \in DOMAIN ops /\ ops[i].status = "pending" /\ ~ops[i].doubtful
      /\ k.at \in Buying => ops[i].kind = "buy_in" /\ ops[i].user = k.user
      /\ k.at \in {"credit", "leave", "close"} => ops[i].kind = "cash_out"
      /\ k.at = "adjust" => ops[i].kind = "manual"
      /\ k.at \in Settling => ~Playing(memory[k.table])
      /\ k.at \in {"pay", "credit", "leave"} => k.rest \subseteq memory[k.table].seated
      /\ k.at \in {"credit", "leave"} =>
           ops[i].user \in k.rest /\ ops[i].cents = memory[k.table].chips[ops[i].user]
      /\ k.at = "close" => k.rest \ {ops[i].user} \subseteq memory[k.table].seated
      /\ k.at = "vacate" => k.user \in Users /\ k.rest \ {k.user} \subseteq memory[k.table].seated

\* No two handlers work for the same join or on the same operation.
Apart ==
  \A v, w \in Workers : v # w =>
    /\ work[v].at \in Joining /\ work[w].at \in Joining => work[v].user # work[w].user
    /\ work[v].at \in Booked /\ work[w].at \in Booked => work[v].op # work[w].op

\* Only who is seated plays and has chips.
Seated(t) ==
  /\ t.hand \subseteq t.seated
  /\ \A u \in Users \ t.seated : t.chips[u] = 0

Holding ==
  /\ \A t \in Tables : Seated(memory[t]) /\ Seated(disk[t])
  /\ \A i \in DOMAIN ops : ops[i].kind = "buy_in" => ops[i].cents <= 0

Control == (\A w \in Workers : Doing(w)) /\ Apart /\ Holding

-----------------------------------------------------------------------------
(* A handler's step leaves the others alone *)

\* What it leaves of them: their work and their joins, the tables they have locked,
\* and the operations they work on. What it takes up is nobody else's.
Frame(w) ==
  /\ \A v \in Workers \ {w} : work'[v] = work[v]
  /\ \/ inFlight \subseteq inFlight'
     \/ work[w].at \in Joining /\ inFlight \ {work[w].user} \subseteq inFlight'
  /\ \A t \in Tables :
       lock[t] \notin {Nobody, w} => lock'[t] = lock[t] /\ memory'[t] = memory[t]
  /\ \A i \in DOMAIN ops :
       /\ i \in DOMAIN ops'
       /\ ops'[i] = ops[i] \/ (work[w].at \in Booked /\ i = work[w].op)
  /\ work'[w].at \in Joining =>
       \/ work[w].at \in Joining /\ work'[w].user = work[w].user
       \/ work'[w].user \notin inFlight
  /\ work'[w].at \in Booked =>
       \/ work[w].at \in Booked /\ work'[w].op = work[w].op
       \/ work'[w].op \notin DOMAIN ops

\* So the others go on as they were, apart from this one.
LEMMA FrameKeeps ==
  ASSUME TypeOK, Control, NEW w \in Workers, Frame(w), Doing(w)'
  PROVE  (\A v \in Workers : Doing(v)') /\ Apart'
<1>1. ASSUME NEW v \in Workers, v # w  PROVE Doing(v)'
  <2>. DEFINE k == work[v]  i == k.op
  <2>1. work'[v] = k
    BY <1>1 DEF Frame
  <2>2. Doing(v) /\ Doing(w)
    BY DEF Control
  <2>3. k.at \in Joining => k.user \in inFlight'
    BY <1>1, <2>2 DEF Frame, Doing, Control, Apart
  <2>4. k.at \in Buying \cup Settling =>
          lock'[k.table] = v /\ memory'[k.table] = memory[k.table]
    <3>1. v \notin {Nobody, w}
      BY <1>1, CashierAssumption
    <3>. QED
      BY <2>2, <3>1 DEF Frame, Doing
  <2>5. k.at \in Booked => i \in DOMAIN ops' /\ ops'[i] = ops[i]
    <3>. SUFFICES ASSUME k.at \in Booked  PROVE i \in DOMAIN ops' /\ ops'[i] = ops[i]
      OBVIOUS
    <3>1. i \in DOMAIN ops
      BY <2>2 DEF Doing
    <3>2. work[w].at \in Booked => i # work[w].op
      BY <1>1 DEF Control, Apart
    <3>. QED
      BY <3>1, <3>2 DEF Frame
  <2>6. /\ Buying \subseteq Booked /\ {"credit", "leave", "close", "adjust"} \subseteq Booked
        /\ {"pay", "credit", "leave", "close", "vacate"} \subseteq Settling
    BY DEF Booked, Settling
  <2>. QED
    BY <2>1, <2>2, <2>3, <2>4, <2>5, <2>6 DEF Doing
<1>2. \A v \in Workers : Doing(v)'
  BY <1>1
<1>3. ASSUME NEW v \in Workers, v # w
      PROVE  /\ work'[v].at \in Joining /\ work'[w].at \in Joining => work'[v].user # work'[w].user
             /\ work'[v].at \in Booked /\ work'[w].at \in Booked => work'[v].op # work'[w].op
  <2>1. work'[v] = work[v] /\ Doing(v)
    BY <1>3 DEF Frame, Control
  <2>2. work[v].at \in Joining => work[v].user \in inFlight
    BY <2>1 DEF Doing
  <2>3. work[v].at \in Booked => work[v].op \in DOMAIN ops
    BY <2>1 DEF Doing
  <2>. QED
    BY <1>3, <2>1, <2>2, <2>3 DEF Frame, Control, Apart
<1>4. Apart'
  <2>. SUFFICES ASSUME NEW v \in Workers, NEW x \in Workers, v # x
       PROVE  /\ work'[v].at \in Joining /\ work'[x].at \in Joining => work'[v].user # work'[x].user
              /\ work'[v].at \in Booked /\ work'[x].at \in Booked => work'[v].op # work'[x].op
    BY DEF Apart
  <2>1. CASE v = w
    BY <1>3, <2>1
  <2>2. CASE x = w
    BY <1>3, <2>2
  <2>3. CASE v # w /\ x # w
    <3>1. work'[v] = work[v] /\ work'[x] = work[x]
      BY <2>3 DEF Frame
    <3>. QED
      BY <3>1 DEF Control, Apart
  <2>. QED
    BY <2>1, <2>2, <2>3
<1>. QED
  BY <1>2, <1>4

-----------------------------------------------------------------------------
(* Entries in the book of operations *)

\* book is ops, apart from what became of operation i.
Entry(book, i) ==
  /\ book \in Seq(Operation) /\ Len(book) = Len(ops) /\ DOMAIN book = DOMAIN ops
  /\ \A j \in DOMAIN ops \ {i} : book[j] = ops[j]
  /\ book[i].user = ops[i].user /\ book[i].kind = ops[i].kind
  /\ book[i].cents = ops[i].cents /\ book[i].status \in Statuses

\* An operation gets the status it is given or keeps its own.
LEMMA NoteEntry ==
  ASSUME ops \in Seq(Operation), NEW i \in DOMAIN ops, NEW status \in Statuses,
         NEW book \in Note(ops, i, status)
  PROVE  /\ Entry(book, i) /\ book[i].status \in {ops[i].status, status}
         /\ book[i].doubtful = ops[i].doubtful /\ book[i].unsure = ops[i].unsure
<1>. DEFINE o == [ops[i] EXCEPT !.status = status]
<1>1. ops[i] \in Operation
  OBVIOUS
<1>2. /\ o \in Operation /\ o.user = ops[i].user /\ o.kind = ops[i].kind
      /\ o.cents = ops[i].cents /\ o.status = status
      /\ o.doubtful = ops[i].doubtful /\ o.unsure = ops[i].unsure
  BY <1>1 DEF Operation
<1>3. ops[i].status \in Statuses
  BY <1>1 DEF Operation
<1>4. book = ops \/ book = [ops EXCEPT ![i] = o]
  BY DEF Note, OrNot
<1>. HIDE DEF o
<1>5. CASE book = ops
  BY <1>3, <1>5 DEF Entry
<1>6. CASE book = [ops EXCEPT ![i] = o]
  <2>1. book \in Seq(Operation) /\ DOMAIN book = DOMAIN ops /\ Len(book) = Len(ops) /\ book[i] = o
    BY <1>2, <1>6
  <2>2. \A j \in DOMAIN ops \ {i} : book[j] = ops[j]
    BY <1>6
  <2>. QED
    BY <1>2, <2>1, <2>2 DEF Entry
<1>. QED
  BY <1>4, <1>5, <1>6

\* New API did what it was told if it says so.
LEMMA AdjustOutcome ==
  ASSUME NEW adjust \in Adjusting
  PROVE  adjust.applied \in BOOLEAN /\ adjust.ok \in BOOLEAN /\ (adjust.ok => adjust.applied)
<1>1. \/ adjust = [applied |-> TRUE, ok |-> TRUE]
      \/ adjust = [applied |-> FALSE, ok |-> FALSE]
      \/ adjust = [applied |-> TRUE, ok |-> FALSE]
  BY DEF Adjusting
<1>2. CASE adjust = [applied |-> TRUE, ok |-> TRUE]
  BY <1>2
<1>3. CASE adjust = [applied |-> FALSE, ok |-> FALSE]
  BY <1>3
<1>4. CASE adjust = [applied |-> TRUE, ok |-> FALSE]
  BY <1>4
<1>. QED
  BY <1>1, <1>2, <1>3, <1>4

\* The same after a call to New API, whose answer may have been lost.
LEMMA MarkedEntry ==
  ASSUME ops \in Seq(Operation), NEW i \in DOMAIN ops, NEW status \in Statuses,
         NEW adjust \in Adjusting, NEW book \in Note(Marked(ops, i, adjust), i, status)
  PROVE  /\ Entry(book, i) /\ book[i].status \in {ops[i].status, status}
         /\ book[i].doubtful = (ops[i].doubtful \/ (adjust.applied /\ ~adjust.ok))
         /\ book[i].unsure = ops[i].unsure
<1>. DEFINE lost == adjust.applied /\ ~adjust.ok
            o == [ops[i] EXCEPT !.doubtful = ops[i].doubtful \/ lost]
            p == [o EXCEPT !.status = status]
            m == Marked(ops, i, adjust)
<1>1. adjust.applied \in BOOLEAN /\ adjust.ok \in BOOLEAN
  BY AdjustOutcome
<1>2. ops[i] \in Operation /\ ops[i].status \in Statuses
  <2>1. ops[i] \in Operation
    OBVIOUS
  <2>. QED
    BY <2>1 DEF Operation
<1>3. /\ o \in Operation /\ o.user = ops[i].user /\ o.kind = ops[i].kind
      /\ o.cents = ops[i].cents /\ o.status = ops[i].status
      /\ o.doubtful = (ops[i].doubtful \/ lost) /\ o.unsure = ops[i].unsure
  BY <1>1, <1>2 DEF Operation
<1>4. m = [ops EXCEPT ![i] = o]
  BY DEF Marked
<1>. HIDE DEF o
<1>5. /\ p \in Operation /\ p.user = o.user /\ p.kind = o.kind
      /\ p.cents = o.cents /\ p.status = status
      /\ p.doubtful = o.doubtful /\ p.unsure = o.unsure
  BY <1>3 DEF Operation
<1>. HIDE DEF p
<1>6. m \in Seq(Operation) /\ DOMAIN m = DOMAIN ops /\ Len(m) = Len(ops) /\ m[i] = o
  BY <1>3, <1>4
<1>. HIDE DEF m
<1>7. book = m \/ book = [m EXCEPT ![i] = p]
  BY <1>6 DEF Note, OrNot, m, p
<1>8. CASE book = m
  BY <1>2, <1>3, <1>4, <1>6, <1>8 DEF Entry
<1>9. CASE book = [m EXCEPT ![i] = p]
  <2>1. book \in Seq(Operation) /\ DOMAIN book = DOMAIN ops /\ Len(book) = Len(ops) /\ book[i] = p
    BY <1>5, <1>6, <1>9
  <2>2. \A j \in DOMAIN ops \ {i} : book[j] = ops[j]
    BY <1>4, <1>6, <1>9
  <2>. QED
    BY <1>3, <1>5, <2>1, <2>2 DEF Entry
<1>. QED
  BY <1>7, <1>8, <1>9

-----------------------------------------------------------------------------
(* Work records *)

\* The next stage, and nothing else.
LEMMA WorkAt ==
  ASSUME NEW k \in Work, NEW stage \in Stages
  PROVE  LET r == [k EXCEPT !.at = stage]
         IN  /\ r \in Work /\ r.at = stage /\ r.user = k.user /\ r.table = k.table
             /\ r.op = k.op /\ r.rest = k.rest
BY DEF Work

\* Nothing.
LEMMA IdleWork == Idle \in Work /\ Idle.at = "idle" /\ Idle.user = Nobody
BY DEF Idle, Work, Stages

\* What a step of a handler leaves in order.
Orderly(w) == TypeOK' /\ Frame(w) /\ Doing(w)' /\ Holding'

\* The work of a handler changes to k.
LEMMA WorkChanges ==
  ASSUME TypeOK, NEW w \in Workers, NEW k \in Work, work' = [work EXCEPT ![w] = k]
  PROVE  /\ work' \in [Workers -> Work] /\ work'[w] = k
         /\ \A v \in Workers \ {w} : work'[v] = work[v]
BY DEF TypeOK

-----------------------------------------------------------------------------
(* Buying in *)

\* A player asks to join, and no join of his is under way.
LEMMA RequestJoinOrderly ==
  ASSUME TypeOK, Control, NEW w \in Workers, NEW u \in Players, NEW t \in Tables,
         RequestJoin(w, u, t)
  PROVE  Orderly(w)
<1>. DEFINE k == [Idle EXCEPT !.at = "scan", !.user = u, !.table = t]
<1>1. u \in Users
  BY CashierAssumption DEF TypeOK, Players
<1>2. k \in Work /\ k.at = "scan" /\ k.user = u /\ k.table = t
  BY <1>1, IdleWork DEF Work, Stages
<1>. HIDE DEF k
<1>3. work' = [work EXCEPT ![w] = k]
  BY DEF RequestJoin, k
<1>4. work'[w] = k /\ work' \in [Workers -> Work] /\ \A v \in Workers \ {w} : work'[v] = work[v]
  BY <1>2, <1>3, WorkChanges
<1>5. TypeOK'
  BY <1>1, <1>4 DEF TypeOK, RequestJoin
<1>6. Frame(w)
  BY <1>2, <1>4 DEF Frame, RequestJoin, Booked, Buying
<1>7. Doing(w)'
  BY <1>2, <1>4 DEF Doing, RequestJoin, Joining, Buying, Settling, Booked
<1>8. Holding'
  BY DEF Holding, Seated, Control, RequestJoin
<1>. QED
  BY <1>5, <1>6, <1>7, <1>8 DEF Orderly

\* He is looked for at the saved tables.
LEMMA ScanOrderly ==
  ASSUME TypeOK, Control, NEW w \in Workers, Scan(w)
  PROVE  Orderly(w)
<1>. DEFINE u == work[w].user
<1>1. work[w] \in Work /\ work[w].at = "scan" /\ Doing(w)
  BY DEF Scan, TypeOK, Control
<1>2. u \in inFlight /\ work[w].table \in Tables
  BY <1>1 DEF Doing, Joining
<1>3. CASE work' = [work EXCEPT ![w] = Idle] /\ inFlight' = inFlight \ {u}
  <2>1. work'[w] = Idle /\ work' \in [Workers -> Work] /\ \A v \in Workers \ {w} : work'[v] = work[v]
    BY <1>3, IdleWork, WorkChanges
  <2>2. TypeOK'
    BY <1>3, <2>1 DEF TypeOK, Scan
  <2>3. Frame(w)
    BY <1>1, <1>3, <2>1, IdleWork DEF Frame, Scan, Booked, Buying, Joining
  <2>4. Doing(w)'
    BY <2>1, IdleWork DEF Doing, Joining, Buying, Settling, Booked
  <2>5. Holding'
    BY DEF Holding, Seated, Control, Scan
  <2>. QED
    BY <2>2, <2>3, <2>4, <2>5 DEF Orderly
<1>4. CASE work' = [work EXCEPT ![w].at = "reserve"] /\ inFlight' = inFlight
  <2>. DEFINE k == [work[w] EXCEPT !.at = "reserve"]
  <2>1. k \in Work /\ k.at = "reserve" /\ k.user = u /\ k.table = work[w].table
    BY <1>1, WorkAt, ZenonT(60) DEF Stages
  <2>. HIDE DEF k
  <2>2. work'[w] = k /\ work' \in [Workers -> Work] /\ \A v \in Workers \ {w} : work'[v] = work[v]
    BY <1>4, <2>1, WorkChanges DEF k
  <2>3. TypeOK'
    BY <1>4, <2>2 DEF TypeOK, Scan
  <2>4. Frame(w)
    BY <1>1, <1>4, <2>1, <2>2 DEF Frame, Scan, Booked, Buying, Joining
  <2>5. Doing(w)'
    BY <1>2, <1>4, <2>1, <2>2 DEF Doing, Joining, Buying, Settling, Booked
  <2>6. Holding'
    BY DEF Holding, Seated, Control, Scan
  <2>. QED
    BY <2>3, <2>4, <2>5, <2>6 DEF Orderly
<1>. QED
  BY <1>3, <1>4 DEF Scan

\* His seat row is reserved, or the join ends.
LEMMA ReserveOrderly ==
  ASSUME TypeOK, Control, NEW w \in Workers, Reserve(w)
  PROVE  Orderly(w)
<1>. DEFINE u == work[w].user
<1>1. work[w] \in Work /\ work[w].at = "reserve" /\ Doing(w)
  BY DEF Reserve, TypeOK, Control
<1>2. u \in inFlight /\ work[w].table \in Tables
  BY <1>1 DEF Doing, Joining
<1>3. CASE work' = [work EXCEPT ![w] = Idle] /\ inFlight' = inFlight \ {u} /\ row' = row
  <2>1. work'[w] = Idle /\ work' \in [Workers -> Work] /\ \A v \in Workers \ {w} : work'[v] = work[v]
    BY <1>3, IdleWork, WorkChanges
  <2>2. TypeOK'
    BY <1>3, <2>1 DEF TypeOK, Reserve
  <2>3. Frame(w)
    BY <1>1, <1>3, <2>1, IdleWork DEF Frame, Reserve, Booked, Buying, Joining
  <2>4. Doing(w)'
    BY <2>1, IdleWork DEF Doing, Joining, Buying, Settling, Booked
  <2>5. Holding'
    BY DEF Holding, Seated, Control, Reserve
  <2>. QED
    BY <2>2, <2>3, <2>4, <2>5 DEF Orderly
<1>4. CASE /\ row' = [row EXCEPT ![u] =
                [table |-> work[w].table, status |-> "pending", stale |-> FALSE]]
           /\ work' = [work EXCEPT ![w].at = "enter"] /\ inFlight' = inFlight
  <2>. DEFINE k == [work[w] EXCEPT !.at = "enter"]
  <2>1. k \in Work /\ k.at = "enter" /\ k.user = u /\ k.table = work[w].table
    BY <1>1, WorkAt, ZenonT(60) DEF Stages
  <2>. HIDE DEF k
  <2>2. work'[w] = k /\ work' \in [Workers -> Work] /\ \A v \in Workers \ {w} : work'[v] = work[v]
    BY <1>4, <2>1, WorkChanges DEF k
  <2>3. row' \in [Users -> Row]
    <3>1. [table |-> work[w].table, status |-> "pending", stale |-> FALSE] \in Row
      BY <1>2 DEF Row
    <3>. QED
      BY <1>4, <3>1 DEF TypeOK
  <2>4. TypeOK'
    BY <1>4, <2>2, <2>3 DEF TypeOK, Reserve
  <2>5. Frame(w)
    BY <1>1, <1>4, <2>1, <2>2 DEF Frame, Reserve, Booked, Buying, Joining
  <2>6. Doing(w)'
    BY <1>2, <1>4, <2>1, <2>2 DEF Doing, Joining, Buying, Settling, Booked
  <2>7. Holding'
    BY DEF Holding, Seated, Control, Reserve
  <2>. QED
    BY <2>4, <2>5, <2>6, <2>7 DEF Orderly
<1>. QED
  BY <1>3, <1>4 DEF Reserve

\* The join fails before anything is booked.
LEMMA RefuseOrderly ==
  ASSUME TypeOK, Control, NEW w \in Workers, Refuse(w)
  PROVE  Orderly(w)
<1>. DEFINE k == [work[w] EXCEPT !.at = "release"]
<1>1. work[w] \in Work /\ work[w].at = "enter" /\ Doing(w)
  BY DEF Refuse, TypeOK, Control
<1>2. work[w].user \in inFlight /\ work[w].table \in Tables
  BY <1>1 DEF Doing, Joining
<1>3. k \in Work /\ k.at = "release" /\ k.user = work[w].user /\ k.table = work[w].table
  BY <1>1, WorkAt DEF Stages
<1>. HIDE DEF k
<1>4. work'[w] = k /\ work' \in [Workers -> Work] /\ \A v \in Workers \ {w} : work'[v] = work[v]
  BY <1>3, WorkChanges DEF k, Refuse
<1>5. TypeOK'
  BY <1>4 DEF TypeOK, Refuse
<1>6. Frame(w)
  BY <1>1, <1>3, <1>4 DEF Frame, Refuse, Booked, Buying, Joining
<1>7. Doing(w)'
  BY <1>2, <1>3, <1>4 DEF Doing, Refuse, Joining, Buying, Settling, Booked
<1>8. Holding'
  BY DEF Holding, Seated, Control, Refuse
<1>. QED
  BY <1>5, <1>6, <1>7, <1>8 DEF Orderly

\* A new entry is the last one.
LEMMA AppendEntry ==
  ASSUME ops \in Seq(Operation), NEW o \in Operation, ops' = Append(ops, o)
  PROVE  /\ ops' \in Seq(Operation) /\ Len(ops') = Len(ops) + 1 /\ Len(ops) + 1 \in Nat
         /\ DOMAIN ops' = DOMAIN ops \cup {Len(ops) + 1} /\ Len(ops) + 1 \notin DOMAIN ops
         /\ \A i \in DOMAIN ops : ops'[i] = ops[i]
         /\ ops'[Len(ops) + 1] = o
  OBVIOUS

\* The purchase is booked with the table locked.
LEMMA BookBuyInOrderly ==
  ASSUME TypeOK, Control, NEW w \in Workers, NEW n \in BuyIns, BookBuyIn(w, n)
  PROVE  Orderly(w)
<1>. DEFINE u == work[w].user
            t == work[w].table
            o == [user |-> u, kind |-> "buy_in", cents |-> -n,
                  status |-> "pending", doubtful |-> FALSE, unsure |-> FALSE]
            k == [work[w] EXCEPT !.at = "debit", !.op = Len(ops')]
<1>1. work[w] \in Work /\ work[w].at = "enter" /\ Doing(w) /\ n \in Nat
  BY CashierAssumption DEF BookBuyIn, TypeOK, Control
<1>2. u \in inFlight /\ t \in Tables /\ inFlight \subseteq Users
  BY <1>1 DEF Doing, Joining, TypeOK
<1>3. /\ o \in Operation /\ o.user = u /\ o.kind = "buy_in" /\ o.cents = -n
      /\ o.status = "pending" /\ ~o.doubtful
  BY <1>1, <1>2 DEF Operation, Statuses
<1>4. ops \in Seq(Operation) /\ ops' = Append(ops, o)
  BY DEF BookBuyIn, TypeOK
<1>. HIDE DEF o
<1>5. /\ ops' \in Seq(Operation) /\ Len(ops') = Len(ops) + 1 /\ Len(ops) + 1 \in Nat
      /\ DOMAIN ops' = DOMAIN ops \cup {Len(ops) + 1} /\ Len(ops) + 1 \notin DOMAIN ops
      /\ \A i \in DOMAIN ops : ops'[i] = ops[i]
      /\ ops'[Len(ops) + 1] = o
  BY <1>3, <1>4, AppendEntry
<1>6. /\ k \in Work /\ k.at = "debit" /\ k.user = u /\ k.table = t /\ k.op = Len(ops) + 1
  <2>1. Len(ops') \in Nat /\ Len(ops') = Len(ops) + 1
    BY <1>5
  <2>. QED
    BY <1>1, <2>1, Zenon DEF Work, Stages
<1>. HIDE DEF k
<1>7. work'[w] = k /\ work' \in [Workers -> Work] /\ \A v \in Workers \ {w} : work'[v] = work[v]
  <2>1. work' = [work EXCEPT ![w] = k]
    BY DEF k, BookBuyIn, TypeOK
  <2>. QED
    BY <1>6, <2>1, WorkChanges
<1>8. /\ lock' = [lock EXCEPT ![t] = w] /\ lock[t] = Nobody
      /\ UNCHANGED <<scene, quota, memory, disk, row, inFlight, adjusting>>
  BY DEF BookBuyIn
<1>9. TypeOK'
  BY <1>5, <1>7, <1>8 DEF TypeOK
<1>10. Frame(w)
  <2>1. \A x \in Tables : lock[x] \notin {Nobody, w} => lock'[x] = lock[x]
    BY <1>8 DEF TypeOK
  <2>. QED
    BY <1>1, <1>5, <1>6, <1>7, <1>8, <2>1 DEF Frame, Joining
<1>11. Doing(w)'
  <2>1. lock'[t] = w
    BY <1>2, <1>8 DEF TypeOK
  <2>. QED
    BY <1>2, <1>3, <1>5, <1>6, <1>7, <1>8, <2>1 DEF Doing, Joining, Buying, Settling, Booked
<1>12. Holding'
  <2>1. \A i \in DOMAIN ops' : ops'[i].kind = "buy_in" => ops'[i].cents <= 0
    BY <1>1, <1>3, <1>5 DEF Control, Holding
  <2>. QED
    BY <1>8, <2>1 DEF Holding, Seated, Control
<1>. QED
  BY <1>9, <1>10, <1>11, <1>12 DEF Orderly

\* What a handler does to its own entry leaves the book in order.
LEMMA EntryFrame ==
  ASSUME TypeOK, Control, NEW i \in DOMAIN ops, Entry(ops', i)
  PROVE  /\ ops' \in Seq(Operation) /\ i \in DOMAIN ops'
         /\ \A j \in DOMAIN ops : j \in DOMAIN ops' /\ (ops'[j] = ops[j] \/ j = i)
         /\ \A j \in DOMAIN ops' : ops'[j].kind = "buy_in" => ops'[j].cents <= 0
<1>1. ASSUME NEW j \in DOMAIN ops'  PROVE ops'[j].kind = "buy_in" => ops'[j].cents <= 0
  <2>1. j \in DOMAIN ops /\ ops'[j].kind = ops[j].kind /\ ops'[j].cents = ops[j].cents
    BY DEF Entry
  <2>. QED
    BY <2>1 DEF Control, Holding
<1>. QED
  BY <1>1 DEF Entry

\* A handler that gives its lock back leaves the others locked.
LEMMA UnlockFrame ==
  ASSUME TypeOK, NEW w \in Workers, NEW t \in Tables, lock[t] = w,
         lock' = [lock EXCEPT ![t] = Nobody]
  PROVE  /\ lock' \in [Tables -> Workers \cup {Nobody}]
         /\ \A x \in Tables : lock[x] \notin {Nobody, w} => lock'[x] = lock[x]
BY DEF TypeOK

\* What is known of a handler that buys in.
LEMMA BuyingFacts ==
  ASSUME TypeOK, Control, NEW w \in Workers, work[w].at \in Buying
  PROVE  LET k == work[w]  o == ops[work[w].op]
         IN  /\ k \in Work /\ k.user \in inFlight /\ k.user \in Users
             /\ k.table \in Tables /\ lock[k.table] = w
             /\ k.op \in DOMAIN ops /\ o \in Operation /\ o.status = "pending" /\ ~o.doubtful
             /\ o.kind = "buy_in" /\ o.user = k.user /\ o.cents \in Int /\ o.cents <= 0
             /\ k.at \in Booked /\ k.at \in Joining
<1>1. work[w] \in Work /\ Doing(w) /\ inFlight \subseteq Users
  BY DEF TypeOK, Control
<1>2. work[w].at \in Booked /\ work[w].at \in Joining
  BY DEF Buying, Booked, Joining
<1>3. work[w].op \in DOMAIN ops /\ ops[work[w].op] \in Operation
  BY <1>1, <1>2 DEF Doing, TypeOK
<1>4. ops[work[w].op].cents \in Int
  BY <1>3 DEF Operation
<1>. QED
  BY <1>1, <1>2, <1>3, <1>4 DEF Doing, Control, Holding

\* The same for one that settles players.
LEMMA SettlingFacts ==
  ASSUME TypeOK, Control, NEW w \in Workers, work[w].at \in Settling
  PROVE  LET k == work[w]  o == ops[work[w].op]
         IN  /\ k \in Work /\ k.table \in Tables /\ lock[k.table] = w
             /\ memory[k.table] \in Table /\ ~Playing(memory[k.table])
             /\ k.rest \in SUBSET Users
             /\ k.at \in {"credit", "leave", "close"} =>
                  /\ k.at \in Booked /\ k.op \in DOMAIN ops /\ o \in Operation
                  /\ o.user \in Users /\ o.cents \in Int
                  /\ o.status = "pending" /\ ~o.doubtful /\ o.kind = "cash_out"
<1>1. work[w] \in Work /\ Doing(w)
  BY DEF TypeOK, Control
<1>2. work[w].table \in Tables
  BY <1>1 DEF Doing
<1>3. work[w].at \in {"credit", "leave", "close"} =>
        /\ work[w].at \in Booked /\ work[w].op \in DOMAIN ops /\ ops[work[w].op] \in Operation
  BY <1>1 DEF Doing, Booked, TypeOK
<1>4. \A o \in Operation : o.user \in Users /\ o.cents \in Int
  BY DEF Operation
<1>5. work[w].rest \in SUBSET Users
  BY <1>1 DEF Work
<1>. QED
  BY <1>1, <1>2, <1>3, <1>4, <1>5 DEF Doing, TypeOK

\* New API is told to debit; the lock is given back unless it did.
LEMMA DebitOrderly ==
  ASSUME TypeOK, Control, NEW w \in Workers, Debit(w)
  PROVE  Orderly(w)
<1>. DEFINE i == work[w].op
            t == work[w].table
            u == work[w].user
<1>1. work[w].at = "debit" /\ work[w].at \in Buying
  BY DEF Debit, Buying
<1>2. /\ work[w] \in Work /\ u \in inFlight /\ u \in Users /\ t \in Tables /\ lock[t] = w
      /\ i \in DOMAIN ops /\ ops[i].status = "pending" /\ ~ops[i].doubtful
      /\ ops[i].kind = "buy_in" /\ ops[i].user = u /\ ops[i].cents \in Int
      /\ work[w].at \in Booked /\ work[w].at \in Joining
  BY <1>1, BuyingFacts
<1>3. PICK adjust \in Adjusting :
        /\ quota' = IF adjust.applied THEN [quota EXCEPT ![u] = @ + ops[i].cents] ELSE quota
        /\ \/ adjust.ok /\ work' = [work EXCEPT ![w].at = "sit"] /\ UNCHANGED <<ops, lock>>
           \/ /\ ~adjust.ok
              /\ ops' \in Note(Marked(ops, i, adjust), i, "manual_review")
              /\ lock' = [lock EXCEPT ![t] = Nobody]
              /\ work' = [work EXCEPT ![w].at = "release"]
  BY DEF Debit
<1>4. quota' \in [Users -> Int]
  BY <1>2, <1>3 DEF TypeOK
<1>5. UNCHANGED <<scene, memory, disk, row, inFlight, adjusting>>
  BY DEF Debit
<1>6. CASE work' = [work EXCEPT ![w].at = "sit"] /\ ops' = ops /\ lock' = lock
  <2>. DEFINE k == [work[w] EXCEPT !.at = "sit"]
  <2>1. k \in Work /\ k.at = "sit" /\ k.user = u /\ k.table = t /\ k.op = i
    BY <1>2, WorkAt, ZenonT(60) DEF Stages
  <2>. HIDE DEF k
  <2>2. work'[w] = k /\ work' \in [Workers -> Work] /\ \A v \in Workers \ {w} : work'[v] = work[v]
    BY <1>6, <2>1, WorkChanges DEF k
  <2>3. TypeOK'
    BY <1>4, <1>5, <1>6, <2>2 DEF TypeOK
  <2>4. Frame(w)
    BY <1>1, <1>5, <1>6, <2>1, <2>2 DEF Frame, Booked, Buying, Joining
  <2>5. Doing(w)'
    BY <1>2, <1>5, <1>6, <2>1, <2>2 DEF Doing, Joining, Buying, Settling, Booked
  <2>6. Holding'
    BY <1>5, <1>6 DEF Holding, Seated, Control
  <2>. QED
    BY <2>3, <2>4, <2>5, <2>6 DEF Orderly
<1>7. CASE /\ ops' \in Note(Marked(ops, i, adjust), i, "manual_review")
           /\ lock' = [lock EXCEPT ![t] = Nobody]
           /\ work' = [work EXCEPT ![w].at = "release"]
  <2>. DEFINE k == [work[w] EXCEPT !.at = "release"]
  <2>1. k \in Work /\ k.at = "release" /\ k.user = u /\ k.table = t /\ k.op = i
    BY <1>2, WorkAt DEF Stages
  <2>. HIDE DEF k
  <2>2. work'[w] = k /\ work' \in [Workers -> Work] /\ \A v \in Workers \ {w} : work'[v] = work[v]
    BY <1>7, <2>1, WorkChanges DEF k
  <2>3. Entry(ops', i)
    BY <1>2, <1>7, MarkedEntry DEF TypeOK, Statuses
  <2>4. /\ ops' \in Seq(Operation)
        /\ \A j \in DOMAIN ops : j \in DOMAIN ops' /\ (ops'[j] = ops[j] \/ j = i)
        /\ \A j \in DOMAIN ops' : ops'[j].kind = "buy_in" => ops'[j].cents <= 0
    BY <1>2, <2>3, EntryFrame
  <2>5. /\ lock' \in [Tables -> Workers \cup {Nobody}]
        /\ \A x \in Tables : lock[x] \notin {Nobody, w} => lock'[x] = lock[x]
    BY <1>2, <1>7, UnlockFrame
  <2>6. TypeOK'
    BY <1>4, <1>5, <2>2, <2>4, <2>5 DEF TypeOK
  <2>7. Frame(w)
    BY <1>1, <1>5, <2>1, <2>2, <2>4, <2>5 DEF Frame, Booked, Buying, Joining
  <2>8. Doing(w)'
    BY <1>2, <1>5, <2>1, <2>2 DEF Doing, Joining, Buying, Settling, Booked
  <2>9. Holding'
    BY <1>5, <2>4 DEF Holding, Seated, Control
  <2>. QED
    BY <2>6, <2>7, <2>8, <2>9 DEF Orderly
<1>. QED
  BY <1>3, <1>6, <1>7

\* Saves report success only if they saved.
LEMMA SaveOutcome ==
  ASSUME NEW save \in Saving
  PROVE  save.saved \in BOOLEAN /\ save.ok \in BOOLEAN /\ (save.ok => save.saved)
<1>1. \/ save = [saved |-> TRUE, ok |-> TRUE]
      \/ save = [saved |-> FALSE, ok |-> FALSE]
      \/ save = [saved |-> TRUE, ok |-> FALSE]
  BY DEF Saving
<1>2. CASE save = [saved |-> TRUE, ok |-> TRUE]
  BY <1>2
<1>3. CASE save = [saved |-> FALSE, ok |-> FALSE]
  BY <1>3
<1>4. CASE save = [saved |-> TRUE, ok |-> FALSE]
  BY <1>4
<1>. QED
  BY <1>1, <1>2, <1>3, <1>4

\* Who sits down brings his chips.
LEMMA SitSeated ==
  ASSUME NEW t \in Table, Seated(t), NEW u \in Users, NEW n \in Nat
  PROVE  /\ Sit(t, u, n) \in Table /\ Seated(Sit(t, u, n))
         /\ Sit(t, u, n).seated = t.seated \cup {u} /\ Sit(t, u, n).hand = t.hand
         /\ Sit(t, u, n).chips = [t.chips EXCEPT ![u] = n]
BY DEF Sit, Table, Seated

\* Who stands up leaves no chips behind.
LEMMA StandUpSeated ==
  ASSUME NEW t \in Table, Seated(t), NEW u \in Users, ~Playing(t)
  PROVE  /\ StandUp(t, u) \in Table /\ Seated(StandUp(t, u)) /\ ~Playing(StandUp(t, u))
         /\ StandUp(t, u).seated = t.seated \ {u}
         /\ StandUp(t, u).chips = [t.chips EXCEPT ![u] = 0]
BY DEF StandUp, Table, Seated, Playing

\* A step on table t that its handler has locked.
LEMMA TableFrame ==
  ASSUME TypeOK, Control, NEW w \in Workers, NEW t \in Tables, lock[t] = w,
         NEW m \in Table, Seated(m), NEW d \in Table, Seated(d),
         memory' = [memory EXCEPT ![t] = m], disk' = [disk EXCEPT ![t] = d]
  PROVE  /\ memory' \in [Tables -> Table] /\ disk' \in [Tables -> Table]
         /\ memory'[t] = m /\ disk'[t] = d
         /\ \A x \in Tables \ {t} : memory'[x] = memory[x] /\ disk'[x] = disk[x]
         /\ \A x \in Tables : lock[x] \notin {Nobody, w} => memory'[x] = memory[x]
         /\ \A x \in Tables : Seated(memory'[x]) /\ Seated(disk'[x])
<1>1. /\ memory'[t] = m /\ disk'[t] = d
      /\ \A x \in Tables \ {t} : memory'[x] = memory[x] /\ disk'[x] = disk[x]
  BY DEF TypeOK
<1>2. \A x \in Tables : Seated(memory'[x]) /\ Seated(disk'[x])
  BY <1>1, Zenon DEF Control, Holding
<1>. QED
  BY <1>1, <1>2 DEF TypeOK

\* The player sits down and the table is saved, or nothing of it happens.
LEMMA SitDownOrderly ==
  ASSUME TypeOK, Control, NEW w \in Workers, SitDown(w)
  PROVE  Orderly(w)
<1>. DEFINE i == work[w].op
            t == work[w].table
            u == work[w].user
            sat == Sit(memory[t], u, -ops[i].cents)
<1>1. work[w].at = "sit" /\ work[w].at \in Buying
  BY DEF SitDown, Buying
<1>2. /\ work[w] \in Work /\ u \in inFlight /\ u \in Users /\ t \in Tables /\ lock[t] = w
      /\ i \in DOMAIN ops /\ ops[i] \in Operation /\ ops[i].status = "pending" /\ ~ops[i].doubtful
      /\ ops[i].kind = "buy_in" /\ ops[i].user = u /\ ops[i].cents \in Int /\ ops[i].cents <= 0
      /\ work[w].at \in Booked /\ work[w].at \in Joining
  BY <1>1, BuyingFacts
<1>3. UNCHANGED <<scene, quota, lock, row, inFlight, adjusting>>
  BY DEF SitDown
<1>4. CASE work' = [work EXCEPT ![w].at = "refund"] /\ UNCHANGED <<memory, disk, ops>>
  <2>. DEFINE k == [work[w] EXCEPT !.at = "refund"]
  <2>1. k \in Work /\ k.at = "refund" /\ k.user = u /\ k.table = t /\ k.op = i
    BY <1>2, WorkAt DEF Stages
  <2>. HIDE DEF k
  <2>2. work'[w] = k /\ work' \in [Workers -> Work] /\ \A v \in Workers \ {w} : work'[v] = work[v]
    BY <1>4, <2>1, WorkChanges DEF k
  <2>3. TypeOK'
    BY <1>3, <1>4, <2>2 DEF TypeOK
  <2>4. Frame(w)
    BY <1>2, <1>3, <1>4, <2>1, <2>2 DEF Frame
  <2>5. Doing(w)'
    BY <1>2, <1>3, <1>4, <2>1, <2>2 DEF Doing, Joining, Buying, Settling, Booked
  <2>6. Holding'
    BY <1>4 DEF Holding, Seated, Control
  <2>. QED
    BY <2>3, <2>4, <2>5, <2>6 DEF Orderly
<1>5. ASSUME NEW save \in Saving,
             disk' = IF save.saved THEN [disk EXCEPT ![t] = sat] ELSE disk,
             memory' = [memory EXCEPT ![t] =
               IF save.ok \/ Playing(sat) THEN sat ELSE StandUp(sat, u)],
             ops' = [ops EXCEPT ![i].unsure = save.saved /\ ~save.ok],
             work' = [work EXCEPT ![w].at = IF save.ok THEN "finish" ELSE "refund"]
      PROVE  Orderly(w)
  <2>. DEFINE stage == IF save.ok THEN "finish" ELSE "refund"
              k == [work[w] EXCEPT !.at = stage]
              m == IF save.ok \/ Playing(sat) THEN sat ELSE StandUp(sat, u)
              d == IF save.saved THEN sat ELSE disk[t]
              o == [ops[i] EXCEPT !.unsure = save.saved /\ ~save.ok]
  <2>1. stage \in {"finish", "refund"} /\ stage \in Stages
    BY DEF Stages
  <2>2. k \in Work /\ k.at = stage /\ k.user = u /\ k.table = t /\ k.op = i
    <3>. HIDE DEF stage
    <3>. QED
      BY <1>2, <2>1, WorkAt
  <2>. HIDE DEF k, stage
  <2>3. work'[w] = k /\ work' \in [Workers -> Work] /\ \A v \in Workers \ {w} : work'[v] = work[v]
    BY <1>5, <2>2, WorkChanges DEF k, stage
  <2>4. save.saved \in BOOLEAN /\ save.ok \in BOOLEAN
    BY SaveOutcome
  <2>5. memory[t] \in Table /\ Seated(memory[t]) /\ disk[t] \in Table /\ Seated(disk[t])
    BY <1>2 DEF TypeOK, Control, Holding
  <2>6. sat \in Table /\ Seated(sat)
    <3>1. -ops[i].cents \in Nat
      BY <1>2
    <3>. QED
      BY <1>2, <2>5, <3>1, SitSeated
  <2>7. m \in Table /\ Seated(m) /\ d \in Table /\ Seated(d)
    <3>. HIDE DEF sat
    <3>. QED
      BY <1>2, <2>5, <2>6, StandUpSeated
  <2>8. memory' = [memory EXCEPT ![t] = m] /\ disk' = [disk EXCEPT ![t] = d]
    <3>. HIDE DEF sat
    <3>1. save.saved => disk' = [disk EXCEPT ![t] = d]
      BY <1>5
    <3>2. ~save.saved => disk' = [disk EXCEPT ![t] = d]
      BY <1>2, <1>5 DEF TypeOK
    <3>. QED
      BY <1>5, <3>1, <3>2
  <2>. HIDE DEF m, d, sat
  <2>9. /\ memory' \in [Tables -> Table] /\ disk' \in [Tables -> Table]
        /\ \A x \in Tables : lock[x] \notin {Nobody, w} => memory'[x] = memory[x]
        /\ \A x \in Tables : Seated(memory'[x]) /\ Seated(disk'[x])
    BY <1>2, <2>7, <2>8, TableFrame
  <2>10. /\ o \in Operation /\ o.user = u /\ o.kind = "buy_in" /\ o.cents = ops[i].cents
         /\ o.status = "pending" /\ ~o.doubtful
    BY <1>2, <2>4 DEF Operation
  <2>. HIDE DEF o
  <2>11. ops' = [ops EXCEPT ![i] = o]
    BY <1>5 DEF o
  <2>12. Entry(ops', i) /\ ops'[i] = o
    BY <1>2, <2>10, <2>11 DEF Entry, TypeOK, Statuses
  <2>13. /\ ops' \in Seq(Operation) /\ i \in DOMAIN ops'
         /\ \A j \in DOMAIN ops : j \in DOMAIN ops' /\ (ops'[j] = ops[j] \/ j = i)
         /\ \A j \in DOMAIN ops' : ops'[j].kind = "buy_in" => ops'[j].cents <= 0
    BY <1>2, <2>12, EntryFrame
  <2>14. TypeOK'
    BY <1>3, <2>3, <2>9, <2>13 DEF TypeOK
  <2>15. Frame(w)
    BY <1>2, <1>3, <2>2, <2>3, <2>9, <2>13 DEF Frame
  <2>16. Doing(w)'
    BY <1>2, <1>3, <2>1, <2>2, <2>3, <2>10, <2>12, <2>13
       DEF Doing, Joining, Buying, Settling, Booked
  <2>17. Holding'
    BY <2>9, <2>13 DEF Holding
  <2>. QED
    BY <2>14, <2>15, <2>16, <2>17 DEF Orderly
<1>. QED
  BY <1>4, <1>5 DEF SitDown

\* New API is told to give the money back, and the lock is given back.
LEMMA RefundOrderly ==
  ASSUME TypeOK, Control, NEW w \in Workers, Refund(w)
  PROVE  Orderly(w)
<1>. DEFINE i == work[w].op
            t == work[w].table
            u == work[w].user
            k == [work[w] EXCEPT !.at = "release"]
<1>1. work[w].at = "refund" /\ work[w].at \in Buying
  BY DEF Refund, Buying
<1>2. /\ work[w] \in Work /\ u \in inFlight /\ u \in Users /\ t \in Tables /\ lock[t] = w
      /\ i \in DOMAIN ops /\ ops[i].cents \in Int
      /\ work[w].at \in Booked /\ work[w].at \in Joining
  BY <1>1, BuyingFacts
<1>3. PICK adjust \in Adjusting :
        /\ quota' = IF adjust.applied THEN [quota EXCEPT ![u] = @ - ops[i].cents] ELSE quota
        /\ ops' \in Note(Marked(ops, i, adjust), i,
                         IF adjust.ok THEN "compensated" ELSE "manual_review")
  BY DEF Refund
<1>4. /\ lock' = [lock EXCEPT ![t] = Nobody] /\ work' = [work EXCEPT ![w].at = "release"]
      /\ UNCHANGED <<scene, memory, disk, row, inFlight, adjusting>>
  BY DEF Refund
<1>5. quota' \in [Users -> Int]
  BY <1>2, <1>3 DEF TypeOK
<1>6. k \in Work /\ k.at = "release" /\ k.user = u /\ k.table = t /\ k.op = i
  BY <1>2, WorkAt DEF Stages
<1>. HIDE DEF k
<1>7. work'[w] = k /\ work' \in [Workers -> Work] /\ \A v \in Workers \ {w} : work'[v] = work[v]
  BY <1>4, <1>6, WorkChanges DEF k
<1>8. Entry(ops', i)
  <2>1. (IF adjust.ok THEN "compensated" ELSE "manual_review") \in Statuses
    BY DEF Statuses
  <2>. QED
    BY <1>2, <1>3, <2>1, MarkedEntry DEF TypeOK
<1>9. /\ ops' \in Seq(Operation)
      /\ \A j \in DOMAIN ops : j \in DOMAIN ops' /\ (ops'[j] = ops[j] \/ j = i)
      /\ \A j \in DOMAIN ops' : ops'[j].kind = "buy_in" => ops'[j].cents <= 0
  BY <1>2, <1>8, EntryFrame
<1>10. /\ lock' \in [Tables -> Workers \cup {Nobody}]
       /\ \A x \in Tables : lock[x] \notin {Nobody, w} => lock'[x] = lock[x]
  BY <1>2, <1>4, UnlockFrame
<1>11. TypeOK'
  BY <1>4, <1>5, <1>7, <1>9, <1>10 DEF TypeOK
<1>12. Frame(w)
  BY <1>1, <1>2, <1>4, <1>6, <1>7, <1>9, <1>10 DEF Frame, Booked, Buying
<1>13. Doing(w)'
  BY <1>2, <1>4, <1>6, <1>7 DEF Doing, Joining, Buying, Settling, Booked
<1>14. Holding'
  BY <1>4, <1>9 DEF Holding, Seated, Control
<1>. QED
  BY <1>11, <1>12, <1>13, <1>14 DEF Orderly

\* The purchase is complete, and the join over.
LEMMA FinishBuyInOrderly ==
  ASSUME TypeOK, Control, NEW w \in Workers, FinishBuyIn(w)
  PROVE  Orderly(w)
<1>. DEFINE i == work[w].op
            t == work[w].table
            u == work[w].user
            activated == IF row[u].table = t THEN [row EXCEPT ![u].status = "active"] ELSE row
<1>1. work[w].at = "finish" /\ work[w].at \in Buying
  BY DEF FinishBuyIn, Buying
<1>2. /\ work[w] \in Work /\ u \in inFlight /\ u \in Users /\ t \in Tables /\ lock[t] = w
      /\ i \in DOMAIN ops /\ work[w].at \in Booked /\ work[w].at \in Joining
  BY <1>1, BuyingFacts
<1>3. /\ row' \in OrNot("row", row, activated) /\ ops' \in Note(ops, i, "completed")
      /\ lock' = [lock EXCEPT ![t] = Nobody] /\ inFlight' = inFlight \ {u}
      /\ work' = [work EXCEPT ![w] = Idle]
      /\ UNCHANGED <<scene, quota, memory, disk, adjusting>>
  BY DEF FinishBuyIn
<1>4. row' \in [Users -> Row]
  <2>1. row \in [Users -> Row]
    BY DEF TypeOK
  <2>2. row[u].table = t => [row[u] EXCEPT !.status = "active"] \in Row
    <3>1. row[u] \in Row /\ NoRow.table = Nobody /\ t # Nobody
      BY <1>2, <2>1, CashierAssumption DEF NoRow
    <3>. QED
      BY <3>1 DEF Row
  <2>3. activated \in [Users -> Row]
    BY <1>2, <2>1, <2>2
  <2>. QED
    BY <1>3, <2>1, <2>3 DEF OrNot
<1>5. work'[w] = Idle /\ work' \in [Workers -> Work] /\ \A v \in Workers \ {w} : work'[v] = work[v]
  BY <1>3, IdleWork, WorkChanges
<1>6. Entry(ops', i)
  BY <1>2, <1>3, NoteEntry DEF TypeOK, Statuses
<1>7. /\ ops' \in Seq(Operation)
      /\ \A j \in DOMAIN ops : j \in DOMAIN ops' /\ (ops'[j] = ops[j] \/ j = i)
      /\ \A j \in DOMAIN ops' : ops'[j].kind = "buy_in" => ops'[j].cents <= 0
  BY <1>2, <1>6, EntryFrame
<1>8. /\ lock' \in [Tables -> Workers \cup {Nobody}]
      /\ \A x \in Tables : lock[x] \notin {Nobody, w} => lock'[x] = lock[x]
  BY <1>2, <1>3, UnlockFrame
<1>9. TypeOK'
  BY <1>3, <1>4, <1>5, <1>7, <1>8 DEF TypeOK
<1>10. Frame(w)
  BY <1>2, <1>3, <1>5, <1>7, <1>8, IdleWork DEF Frame, Joining, Booked, Buying
<1>11. Doing(w)'
  BY <1>5, IdleWork DEF Doing, Joining, Buying, Settling, Booked
<1>12. Holding'
  BY <1>3, <1>7 DEF Holding, Seated, Control
<1>. QED
  BY <1>9, <1>10, <1>11, <1>12 DEF Orderly

\* A seat row that is given back.
LEMMA ReleasedType ==
  ASSUME TypeOK, NEW u \in Users, NEW t, row' \in OrNot("row", row, Released(u, t))
  PROVE  row' \in [Users -> Row]
<1>1. NoRow \in Row /\ row \in [Users -> Row]
  BY DEF Row, TypeOK
<1>2. Released(u, t) \in [Users -> Row]
  BY <1>1 DEF Released
<1>. QED
  BY <1>1, <1>2 DEF OrNot

\* A join that failed gives its reservation back, and is over.
LEMMA ReleaseOrderly ==
  ASSUME TypeOK, Control, NEW w \in Workers, Release(w)
  PROVE  Orderly(w)
<1>1. work[w] \in Work /\ work[w].at = "release" /\ Doing(w) /\ inFlight \subseteq Users
  BY DEF Release, TypeOK, Control
<1>2. work[w].user \in inFlight /\ work[w].user \in Users
  BY <1>1 DEF Doing, Joining
<1>3. /\ row' \in OrNot("row", row, Released(work[w].user, work[w].table))
      /\ inFlight' = inFlight \ {work[w].user}
      /\ work' = [work EXCEPT ![w] = Idle]
      /\ UNCHANGED <<scene, quota, memory, disk, lock, ops, adjusting>>
  BY DEF Release
<1>4. row' \in [Users -> Row]
  BY <1>2, <1>3, ReleasedType
<1>5. work'[w] = Idle /\ work' \in [Workers -> Work] /\ \A v \in Workers \ {w} : work'[v] = work[v]
  BY <1>3, IdleWork, WorkChanges
<1>6. TypeOK'
  BY <1>3, <1>4, <1>5 DEF TypeOK
<1>7. Frame(w)
  BY <1>1, <1>3, <1>5, IdleWork DEF Frame, Joining, Booked, Buying
<1>8. Doing(w)'
  BY <1>5, IdleWork DEF Doing, Joining, Buying, Settling, Booked
<1>9. Holding'
  BY <1>3 DEF Holding, Seated, Control
<1>. QED
  BY <1>6, <1>7, <1>8, <1>9 DEF Orderly

-----------------------------------------------------------------------------
(* Cashing out *)

\* Players at an idle table are to be settled, with the table locked.
LEMMA BeginCashOutOrderly ==
  ASSUME TypeOK, Control, NEW w \in Workers, NEW t \in Tables, NEW leaving \in SUBSET Users,
         BeginCashOut(w, t, leaving)
  PROVE  Orderly(w)
<1>. DEFINE k == [Idle EXCEPT !.at = "pay", !.table = t, !.rest = leaving]
<1>1. k \in Work /\ k.at = "pay" /\ k.table = t /\ k.rest = leaving
  BY IdleWork DEF Work, Stages
<1>. HIDE DEF k
<1>2. /\ work' = [work EXCEPT ![w] = k] /\ lock' = [lock EXCEPT ![t] = w] /\ lock[t] = Nobody
      /\ ~Playing(memory[t]) /\ leaving \subseteq memory[t].seated
      /\ UNCHANGED <<scene, quota, memory, disk, row, inFlight, ops, adjusting>>
  BY DEF BeginCashOut, k
<1>3. work'[w] = k /\ work' \in [Workers -> Work] /\ \A v \in Workers \ {w} : work'[v] = work[v]
  BY <1>1, <1>2, WorkChanges
<1>4. /\ lock' \in [Tables -> Workers \cup {Nobody}] /\ lock'[t] = w
      /\ \A x \in Tables : lock[x] \notin {Nobody, w} => lock'[x] = lock[x]
  BY <1>2 DEF TypeOK
<1>5. TypeOK'
  BY <1>2, <1>3, <1>4 DEF TypeOK
<1>6. Frame(w)
  BY <1>1, <1>2, <1>3, <1>4 DEF Frame, Booked, Buying, Joining
<1>7. Doing(w)'
  BY <1>1, <1>2, <1>3, <1>4 DEF Doing, Joining, Buying, Settling, Booked
<1>8. Holding'
  BY <1>2 DEF Holding, Seated, Control
<1>. QED
  BY <1>5, <1>6, <1>7, <1>8 DEF Orderly

\* A handler that gives up has nothing to do and no lock.
LEMMA GiveUpFrame ==
  ASSUME TypeOK, Control, NEW w \in Workers, work[w].at \in Settling, GiveUp(w)
  PROVE  /\ work' \in [Workers -> Work] /\ work'[w] = Idle
         /\ \A v \in Workers \ {w} : work'[v] = work[v]
         /\ lock' \in [Tables -> Workers \cup {Nobody}]
         /\ \A x \in Tables : lock[x] \notin {Nobody, w} => lock'[x] = lock[x]
<1>1. work[w].table \in Tables /\ lock[work[w].table] = w
  BY SettlingFacts
<1>2. lock' = [lock EXCEPT ![work[w].table] = Nobody] /\ work' = [work EXCEPT ![w] = Idle]
  BY DEF GiveUp
<1>3. work'[w] = Idle /\ work' \in [Workers -> Work] /\ \A v \in Workers \ {w} : work'[v] = work[v]
  BY <1>2, IdleWork, WorkChanges
<1>. QED
  BY <1>1, <1>2, <1>3, UnlockFrame

\* One that has settled a player has nothing to do, or pays the next.
LEMMA OnwardFrame ==
  ASSUME TypeOK, Control, NEW w \in Workers, work[w].at \in Settling, NEW u, Onward(w, u)
  PROVE  /\ work' \in [Workers -> Work]
         /\ \/ work'[w] = Idle
            \/ /\ work'[w].at = "pay" /\ work'[w].table = work[w].table
               /\ work'[w].rest = work[w].rest \ {u} /\ lock'[work[w].table] = w
         /\ \A v \in Workers \ {w} : work'[v] = work[v]
         /\ lock' \in [Tables -> Workers \cup {Nobody}]
         /\ \A x \in Tables : lock[x] \notin {Nobody, w} => lock'[x] = lock[x]
<1>. DEFINE rest == work[w].rest \ {u}
            k == [work[w] EXCEPT !.at = "pay", !.user = Nobody, !.op = 0, !.rest = rest]
<1>1. work[w] \in Work /\ work[w].table \in Tables /\ lock[work[w].table] = w
  BY SettlingFacts
<1>2. CASE rest = {}
  <2>1. GiveUp(w)
    BY <1>2 DEF Onward, GiveUp
  <2>. QED
    BY <2>1, GiveUpFrame
<1>3. CASE rest # {}
  <2>1. k \in Work /\ k.at = "pay" /\ k.table = work[w].table /\ k.rest = rest
    BY <1>1 DEF Work, Stages
  <2>2. work' = [work EXCEPT ![w] = k] /\ lock' = lock
    BY <1>3 DEF Onward
  <2>. HIDE DEF k
  <2>3. work'[w] = k /\ work' \in [Workers -> Work] /\ \A v \in Workers \ {w} : work'[v] = work[v]
    BY <2>1, <2>2, WorkChanges
  <2>. QED
    BY <1>1, <2>1, <2>2, <2>3 DEF TypeOK
<1>. QED
  BY <1>2, <1>3

\* Settling stops before anything is booked.
LEMMA StopPayingOrderly ==
  ASSUME TypeOK, Control, NEW w \in Workers, StopPaying(w)
  PROVE  Orderly(w)
<1>1. work[w].at = "pay" /\ work[w].at \in Settling
  BY DEF StopPaying, Settling
<1>2. GiveUp(w) /\ UNCHANGED <<scene, quota, memory, disk, row, inFlight, ops, adjusting>>
  BY DEF StopPaying
<1>3. /\ work' \in [Workers -> Work] /\ work'[w] = Idle
      /\ \A v \in Workers \ {w} : work'[v] = work[v]
      /\ lock' \in [Tables -> Workers \cup {Nobody}]
      /\ \A x \in Tables : lock[x] \notin {Nobody, w} => lock'[x] = lock[x]
  BY <1>1, <1>2, GiveUpFrame
<1>4. TypeOK'
  BY <1>2, <1>3 DEF TypeOK
<1>5. Frame(w)
  BY <1>2, <1>3, IdleWork DEF Frame, Booked, Buying, Joining
<1>6. Doing(w)'
  BY <1>3, IdleWork DEF Doing, Joining, Buying, Settling, Booked
<1>7. Holding'
  BY <1>2 DEF Holding, Seated, Control
<1>. QED
  BY <1>4, <1>5, <1>6, <1>7 DEF Orderly

\* A player who leaves takes his chips off the table, saved or not.
LEMMA LeaveFrame ==
  ASSUME TypeOK, Control, NEW w \in Workers, work[w].at \in Settling, NEW u \in Users,
         NEW save \in Saving, LeaveAndSave(w, u, save)
  PROVE  LET t == work[w].table
         IN  /\ memory' \in [Tables -> Table] /\ disk' \in [Tables -> Table]
             /\ memory'[t] = StandUp(memory[t], u)
             /\ disk'[t] = IF save.saved THEN memory'[t] ELSE disk[t]
             /\ \A x \in Tables \ {t} : memory'[x] = memory[x] /\ disk'[x] = disk[x]
             /\ ~Playing(memory'[t]) /\ memory'[t].seated = memory[t].seated \ {u}
             /\ \A x \in Tables : lock[x] \notin {Nobody, w} => memory'[x] = memory[x]
             /\ \A x \in Tables : Seated(memory'[x]) /\ Seated(disk'[x])
<1>. DEFINE t == work[w].table
            m == StandUp(memory[t], u)
            d == IF save.saved THEN m ELSE disk[t]
<1>1. t \in Tables /\ lock[t] = w /\ ~Playing(memory[t])
  BY SettlingFacts
<1>2. memory[t] \in Table /\ Seated(memory[t]) /\ disk[t] \in Table /\ Seated(disk[t])
  BY <1>1 DEF TypeOK, Control, Holding
<1>3. m \in Table /\ Seated(m) /\ ~Playing(m) /\ m.seated = memory[t].seated \ {u}
  BY <1>1, <1>2, StandUpSeated
<1>4. d \in Table /\ Seated(d)
  BY <1>2, <1>3
<1>5. memory' = [memory EXCEPT ![t] = m] /\ disk' = [disk EXCEPT ![t] = d]
  <2>. HIDE DEF m
  <2>1. save.saved => disk' = [disk EXCEPT ![t] = d]
    BY DEF LeaveAndSave, m
  <2>2. ~save.saved => disk' = [disk EXCEPT ![t] = d]
    BY <1>1 DEF LeaveAndSave, TypeOK
  <2>. QED
    BY <2>1, <2>2 DEF LeaveAndSave, m
<1>. HIDE DEF m
<1>6. d = IF save.saved THEN m ELSE disk[t]
  OBVIOUS
<1>. HIDE DEF d
<1>7. /\ memory' \in [Tables -> Table] /\ disk' \in [Tables -> Table]
      /\ memory'[t] = m /\ disk'[t] = d
      /\ \A x \in Tables \ {t} : memory'[x] = memory[x] /\ disk'[x] = disk[x]
      /\ \A x \in Tables : lock[x] \notin {Nobody, w} => memory'[x] = memory[x]
      /\ \A x \in Tables : Seated(memory'[x]) /\ Seated(disk'[x])
  BY <1>1, <1>3, <1>4, <1>5, TableFrame
<1>. QED
  BY <1>3, <1>6, <1>7 DEF m

\* A player without chips leaves.
LEMMA LeaveBrokeOrderly ==
  ASSUME TypeOK, Control, NEW w \in Workers, NEW u \in Users, LeaveBroke(w, u)
  PROVE  Orderly(w)
<1>. DEFINE t == work[w].table
<1>1. work[w].at = "pay" /\ work[w].at \in Settling /\ u \in work[w].rest
  BY DEF LeaveBroke, Settling
<1>2. /\ work[w] \in Work /\ t \in Tables /\ lock[t] = w /\ Doing(w)
  BY <1>1, SettlingFacts DEF Control
<1>3. PICK save \in Saving :
        /\ LeaveAndSave(w, u, save)
        /\ \/ /\ save.ok
              /\ work' = [work EXCEPT ![w].at = "vacate", ![w].user = u]
              /\ UNCHANGED lock
           \/ ~save.ok /\ GiveUp(w)
  BY DEF LeaveBroke
<1>4. UNCHANGED <<scene, quota, row, inFlight, ops, adjusting>>
  BY DEF LeaveBroke
<1>5. /\ memory' \in [Tables -> Table] /\ disk' \in [Tables -> Table]
      /\ ~Playing(memory'[t]) /\ memory'[t].seated = memory[t].seated \ {u}
      /\ \A x \in Tables : lock[x] \notin {Nobody, w} => memory'[x] = memory[x]
      /\ \A x \in Tables : Seated(memory'[x]) /\ Seated(disk'[x])
  BY <1>1, <1>3, LeaveFrame
<1>6. Holding'
  BY <1>4, <1>5 DEF Holding, Control
<1>7. CASE GiveUp(w)
  <2>1. /\ work' \in [Workers -> Work] /\ work'[w] = Idle
        /\ \A v \in Workers \ {w} : work'[v] = work[v]
        /\ lock' \in [Tables -> Workers \cup {Nobody}]
        /\ \A x \in Tables : lock[x] \notin {Nobody, w} => lock'[x] = lock[x]
    BY <1>1, <1>7, GiveUpFrame
  <2>2. TypeOK'
    BY <1>4, <1>5, <2>1 DEF TypeOK
  <2>3. Frame(w)
    BY <1>4, <1>5, <2>1, IdleWork DEF Frame, Booked, Buying, Joining
  <2>4. Doing(w)'
    BY <2>1, IdleWork DEF Doing, Joining, Buying, Settling, Booked
  <2>. QED
    BY <1>6, <2>2, <2>3, <2>4 DEF Orderly
<1>8. CASE work' = [work EXCEPT ![w].at = "vacate", ![w].user = u] /\ lock' = lock
  <2>. DEFINE k == [work[w] EXCEPT !.at = "vacate", !.user = u]
  <2>1. k \in Work /\ k.at = "vacate" /\ k.user = u /\ k.table = t /\ k.rest = work[w].rest
    BY <1>2 DEF Work, Stages
  <2>2. work' = [work EXCEPT ![w] = k]
    BY <1>8 DEF TypeOK
  <2>. HIDE DEF k
  <2>3. work'[w] = k /\ work' \in [Workers -> Work] /\ \A v \in Workers \ {w} : work'[v] = work[v]
    BY <2>1, <2>2, WorkChanges
  <2>4. TypeOK'
    BY <1>4, <1>5, <1>8, <2>3 DEF TypeOK
  <2>5. Frame(w)
    BY <1>4, <1>5, <1>8, <2>1, <2>3 DEF Frame, Booked, Buying, Joining
  <2>6. work[w].rest \subseteq memory[t].seated
    BY <1>1, <1>2 DEF Doing
  <2>7. Doing(w)'
    BY <1>2, <1>5, <1>8, <2>1, <2>3, <2>6 DEF Doing, Joining, Buying, Settling, Booked
  <2>. QED
    BY <1>6, <2>4, <2>5, <2>7 DEF Orderly
<1>. QED
  BY <1>3, <1>7, <1>8

\* His seat row is released.
LEMMA VacateOrderly ==
  ASSUME TypeOK, Control, NEW w \in Workers, Vacate(w)
  PROVE  Orderly(w)
<1>. DEFINE u == work[w].user
            t == work[w].table
<1>1. work[w].at = "vacate" /\ work[w].at \in Settling
  BY DEF Vacate, Settling
<1>2. /\ work[w] \in Work /\ t \in Tables /\ lock[t] = w /\ ~Playing(memory[t]) /\ Doing(w)
  BY <1>1, SettlingFacts DEF Control
<1>3. u \in Users /\ work[w].rest \ {u} \subseteq memory[t].seated
  BY <1>1, <1>2 DEF Doing
<1>4. /\ row' \in OrNot("row", row, Released(u, t)) /\ Onward(w, u)
      /\ UNCHANGED <<scene, quota, memory, disk, inFlight, ops, adjusting>>
  BY DEF Vacate
<1>5. row' \in [Users -> Row]
  BY <1>3, <1>4, ReleasedType
<1>6. /\ work' \in [Workers -> Work]
      /\ \/ work'[w] = Idle
         \/ /\ work'[w].at = "pay" /\ work'[w].table = t
            /\ work'[w].rest = work[w].rest \ {u} /\ lock'[t] = w
      /\ \A v \in Workers \ {w} : work'[v] = work[v]
      /\ lock' \in [Tables -> Workers \cup {Nobody}]
      /\ \A x \in Tables : lock[x] \notin {Nobody, w} => lock'[x] = lock[x]
  BY <1>1, <1>4, OnwardFrame
<1>7. TypeOK'
  BY <1>4, <1>5, <1>6 DEF TypeOK
<1>8. Frame(w)
  BY <1>4, <1>6, IdleWork DEF Frame, Booked, Buying, Joining
<1>9. Doing(w)'
  BY <1>2, <1>3, <1>4, <1>6, IdleWork DEF Doing, Joining, Buying, Settling, Booked
<1>10. Holding'
  BY <1>4 DEF Holding, Seated, Control
<1>. QED
  BY <1>7, <1>8, <1>9, <1>10 DEF Orderly

\* The stack of a player who has chips is booked.
LEMMA BookCashOutOrderly ==
  ASSUME TypeOK, Control, NEW w \in Workers, NEW u \in Users, BookCashOut(w, u)
  PROVE  Orderly(w)
<1>. DEFINE t == work[w].table
            n == memory[t].chips[u]
            o == [user |-> u, kind |-> "cash_out", cents |-> n,
                  status |-> "pending", doubtful |-> FALSE, unsure |-> FALSE]
            k == [work[w] EXCEPT !.at = "credit", !.op = Len(ops')]
<1>1. work[w].at = "pay" /\ work[w].at \in Settling /\ u \in work[w].rest
  BY DEF BookCashOut, Settling
<1>2. /\ work[w] \in Work /\ t \in Tables /\ lock[t] = w /\ memory[t] \in Table
      /\ ~Playing(memory[t]) /\ Doing(w)
  BY <1>1, SettlingFacts DEF Control
<1>3. n \in Int
  BY <1>2 DEF Table
<1>4. /\ o \in Operation /\ o.user = u /\ o.kind = "cash_out" /\ o.cents = n
      /\ o.status = "pending" /\ ~o.doubtful
  BY <1>3 DEF Operation, Statuses
<1>5. ops \in Seq(Operation) /\ ops' = Append(ops, o)
  BY DEF BookCashOut, TypeOK
<1>. HIDE DEF o
<1>6. /\ ops' \in Seq(Operation) /\ Len(ops') = Len(ops) + 1 /\ Len(ops) + 1 \in Nat
      /\ DOMAIN ops' = DOMAIN ops \cup {Len(ops) + 1} /\ Len(ops) + 1 \notin DOMAIN ops
      /\ \A i \in DOMAIN ops : ops'[i] = ops[i]
      /\ ops'[Len(ops) + 1] = o
  BY <1>4, <1>5, AppendEntry
<1>7. /\ k \in Work /\ k.at = "credit" /\ k.table = t /\ k.op = Len(ops) + 1
      /\ k.rest = work[w].rest
  <2>1. Len(ops') \in Nat /\ Len(ops') = Len(ops) + 1
    BY <1>6
  <2>. QED
    BY <1>2, <2>1, Zenon DEF Work, Stages
<1>8. /\ work' = [work EXCEPT ![w] = k]
      /\ UNCHANGED <<scene, quota, memory, disk, lock, row, inFlight, adjusting>>
  BY DEF BookCashOut, TypeOK
<1>. HIDE DEF k
<1>9. work'[w] = k /\ work' \in [Workers -> Work] /\ \A v \in Workers \ {w} : work'[v] = work[v]
  BY <1>7, <1>8, WorkChanges
<1>10. TypeOK'
  BY <1>6, <1>8, <1>9 DEF TypeOK
<1>11. Frame(w)
  BY <1>6, <1>7, <1>8, <1>9 DEF Frame, Joining
<1>12. Doing(w)'
  <2>1. work[w].rest \subseteq memory[t].seated
    BY <1>1, <1>2 DEF Doing
  <2>. QED
    BY <1>1, <1>2, <1>4, <1>6, <1>7, <1>8, <1>9, <2>1 DEF Doing, Joining, Buying, Settling, Booked
<1>13. Holding'
  <2>1. \A i \in DOMAIN ops' : ops'[i].kind = "buy_in" => ops'[i].cents <= 0
    BY <1>4, <1>6 DEF Control, Holding
  <2>. QED
    BY <1>8, <2>1 DEF Holding, Seated, Control
<1>. QED
  BY <1>10, <1>11, <1>12, <1>13 DEF Orderly

\* New API is told to credit it; the lock is given back unless it did.
LEMMA CreditOrderly ==
  ASSUME TypeOK, Control, NEW w \in Workers, Credit(w)
  PROVE  Orderly(w)
<1>. DEFINE i == work[w].op
            t == work[w].table
<1>1. work[w].at = "credit" /\ work[w].at \in Settling
  BY DEF Credit, Settling
<1>2. /\ work[w] \in Work /\ t \in Tables /\ lock[t] = w /\ ~Playing(memory[t])
      /\ i \in DOMAIN ops /\ ops[i].user \in Users /\ ops[i].cents \in Int
      /\ work[w].at \in Booked /\ Doing(w)
  BY <1>1, SettlingFacts DEF Control
<1>3. PICK adjust \in Adjusting :
        /\ quota' = IF adjust.applied
                      THEN [quota EXCEPT ![ops[i].user] = @ + ops[i].cents] ELSE quota
        /\ \/ adjust.ok /\ work' = [work EXCEPT ![w].at = "leave"] /\ UNCHANGED <<ops, lock>>
           \/ /\ ~adjust.ok
              /\ ops' \in Note(Marked(ops, i, adjust), i, "manual_review")
              /\ GiveUp(w)
  BY DEF Credit
<1>4. quota' \in [Users -> Int]
  BY <1>2, <1>3 DEF TypeOK
<1>5. UNCHANGED <<scene, memory, disk, row, inFlight, adjusting>>
  BY DEF Credit
<1>6. CASE work' = [work EXCEPT ![w].at = "leave"] /\ ops' = ops /\ lock' = lock
  <2>. DEFINE k == [work[w] EXCEPT !.at = "leave"]
  <2>1. k \in Work /\ k.at = "leave" /\ k.table = t /\ k.op = i /\ k.rest = work[w].rest
    BY <1>2, WorkAt DEF Stages
  <2>. HIDE DEF k
  <2>2. work'[w] = k /\ work' \in [Workers -> Work] /\ \A v \in Workers \ {w} : work'[v] = work[v]
    BY <1>6, <2>1, WorkChanges DEF k
  <2>3. TypeOK'
    BY <1>4, <1>5, <1>6, <2>2 DEF TypeOK
  <2>4. Frame(w)
    BY <1>2, <1>5, <1>6, <2>1, <2>2 DEF Frame, Joining
  <2>5. Doing(w)'
    BY <1>1, <1>2, <1>5, <1>6, <2>1, <2>2 DEF Doing, Joining, Buying, Settling, Booked
  <2>6. Holding'
    BY <1>5, <1>6 DEF Holding, Seated, Control
  <2>. QED
    BY <2>3, <2>4, <2>5, <2>6 DEF Orderly
<1>7. CASE ops' \in Note(Marked(ops, i, adjust), i, "manual_review") /\ GiveUp(w)
  <2>1. /\ work' \in [Workers -> Work] /\ work'[w] = Idle
        /\ \A v \in Workers \ {w} : work'[v] = work[v]
        /\ lock' \in [Tables -> Workers \cup {Nobody}]
        /\ \A x \in Tables : lock[x] \notin {Nobody, w} => lock'[x] = lock[x]
    BY <1>1, <1>7, GiveUpFrame
  <2>2. Entry(ops', i)
    BY <1>2, <1>7, MarkedEntry DEF TypeOK, Statuses
  <2>3. /\ ops' \in Seq(Operation)
        /\ \A j \in DOMAIN ops : j \in DOMAIN ops' /\ (ops'[j] = ops[j] \/ j = i)
        /\ \A j \in DOMAIN ops' : ops'[j].kind = "buy_in" => ops'[j].cents <= 0
    BY <1>2, <2>2, EntryFrame
  <2>4. TypeOK'
    BY <1>4, <1>5, <2>1, <2>3 DEF TypeOK
  <2>5. Frame(w)
    BY <1>2, <1>5, <2>1, <2>3, IdleWork DEF Frame, Booked, Buying, Joining
  <2>6. Doing(w)'
    BY <2>1, IdleWork DEF Doing, Joining, Buying, Settling, Booked
  <2>7. Holding'
    BY <1>5, <2>3 DEF Holding, Seated, Control
  <2>. QED
    BY <2>4, <2>5, <2>6, <2>7 DEF Orderly
<1>. QED
  BY <1>3, <1>6, <1>7

\* The player leaves the table, which is saved.
LEMMA DepartOrderly ==
  ASSUME TypeOK, Control, NEW w \in Workers, Depart(w)
  PROVE  Orderly(w)
<1>. DEFINE i == work[w].op
            t == work[w].table
            u == ops[i].user
<1>1. work[w].at = "leave" /\ work[w].at \in Settling
  BY DEF Depart, Settling
<1>2. /\ work[w] \in Work /\ t \in Tables /\ lock[t] = w /\ u \in Users
      /\ i \in DOMAIN ops /\ ops[i].status = "pending" /\ ~ops[i].doubtful
      /\ ops[i].kind = "cash_out" /\ work[w].at \in Booked /\ Doing(w)
  BY <1>1, SettlingFacts DEF Control
<1>3. PICK save \in Saving :
        /\ LeaveAndSave(w, u, save)
        /\ \/ save.ok /\ work' = [work EXCEPT ![w].at = "close"] /\ UNCHANGED <<ops, lock>>
           \/ ~save.ok /\ ops' \in Note(ops, i, "manual_review") /\ GiveUp(w)
  BY DEF Depart
<1>4. UNCHANGED <<scene, quota, row, inFlight, adjusting>>
  BY DEF Depart
<1>5. /\ memory' \in [Tables -> Table] /\ disk' \in [Tables -> Table]
      /\ ~Playing(memory'[t]) /\ memory'[t].seated = memory[t].seated \ {u}
      /\ \A x \in Tables : lock[x] \notin {Nobody, w} => memory'[x] = memory[x]
      /\ \A x \in Tables : Seated(memory'[x]) /\ Seated(disk'[x])
  BY <1>1, <1>2, <1>3, LeaveFrame
<1>6. CASE work' = [work EXCEPT ![w].at = "close"] /\ ops' = ops /\ lock' = lock
  <2>. DEFINE k == [work[w] EXCEPT !.at = "close"]
  <2>1. k \in Work /\ k.at = "close" /\ k.table = t /\ k.op = i /\ k.rest = work[w].rest
    BY <1>2, WorkAt DEF Stages
  <2>. HIDE DEF k
  <2>2. work'[w] = k /\ work' \in [Workers -> Work] /\ \A v \in Workers \ {w} : work'[v] = work[v]
    BY <1>6, <2>1, WorkChanges DEF k
  <2>3. TypeOK'
    BY <1>4, <1>5, <1>6, <2>2 DEF TypeOK
  <2>4. Frame(w)
    BY <1>2, <1>4, <1>5, <1>6, <2>1, <2>2 DEF Frame, Joining
  <2>5. work[w].rest \subseteq memory[t].seated
    BY <1>1, <1>2 DEF Doing
  <2>6. Doing(w)'
    BY <1>2, <1>4, <1>5, <1>6, <2>1, <2>2, <2>5 DEF Doing, Joining, Buying, Settling, Booked
  <2>7. Holding'
    BY <1>5, <1>6 DEF Holding, Control
  <2>. QED
    BY <2>3, <2>4, <2>6, <2>7 DEF Orderly
<1>7. CASE ops' \in Note(ops, i, "manual_review") /\ GiveUp(w)
  <2>1. /\ work' \in [Workers -> Work] /\ work'[w] = Idle
        /\ \A v \in Workers \ {w} : work'[v] = work[v]
        /\ lock' \in [Tables -> Workers \cup {Nobody}]
        /\ \A x \in Tables : lock[x] \notin {Nobody, w} => lock'[x] = lock[x]
    BY <1>1, <1>7, GiveUpFrame
  <2>2. Entry(ops', i)
    BY <1>2, <1>7, NoteEntry DEF TypeOK, Statuses
  <2>3. /\ ops' \in Seq(Operation)
        /\ \A j \in DOMAIN ops : j \in DOMAIN ops' /\ (ops'[j] = ops[j] \/ j = i)
        /\ \A j \in DOMAIN ops' : ops'[j].kind = "buy_in" => ops'[j].cents <= 0
    BY <1>2, <2>2, EntryFrame
  <2>4. TypeOK'
    BY <1>4, <1>5, <2>1, <2>3 DEF TypeOK
  <2>5. Frame(w)
    BY <1>2, <1>4, <1>5, <2>1, <2>3, IdleWork DEF Frame, Booked, Buying, Joining
  <2>6. Doing(w)'
    BY <2>1, IdleWork DEF Doing, Joining, Buying, Settling, Booked
  <2>7. Holding'
    BY <1>5, <2>3 DEF Holding
  <2>. QED
    BY <2>4, <2>5, <2>6, <2>7 DEF Orderly
<1>. QED
  BY <1>3, <1>6, <1>7

\* The cash-out is complete.
LEMMA CloseOrderly ==
  ASSUME TypeOK, Control, NEW w \in Workers, Close(w)
  PROVE  Orderly(w)
<1>. DEFINE i == work[w].op
            t == work[w].table
            u == ops[i].user
            o == [ops[i] EXCEPT !.status = "completed"]
<1>1. work[w].at = "close" /\ work[w].at \in Settling
  BY DEF Close, Settling
<1>2. /\ work[w] \in Work /\ t \in Tables /\ lock[t] = w /\ u \in Users
      /\ ~Playing(memory[t]) /\ i \in DOMAIN ops /\ ops[i] \in Operation
      /\ work[w].at \in Booked /\ Doing(w)
  BY <1>1, SettlingFacts DEF Control
<1>3. work[w].rest \ {u} \subseteq memory[t].seated
  BY <1>1, <1>2 DEF Doing
<1>4. /\ \/ ops' = [ops EXCEPT ![i] = o] /\ row' = Released(u, t)
         \/ UNCHANGED <<ops, row>>
      /\ Onward(w, u) /\ UNCHANGED <<scene, quota, memory, disk, inFlight, adjusting>>
  BY DEF Close
<1>5. row' \in [Users -> Row]
  <2>1. NoRow \in Row
    BY DEF Row
  <2>. QED
    BY <1>4, <2>1 DEF TypeOK, Released
<1>6. o \in Operation /\ o.user = u /\ o.kind = ops[i].kind /\ o.cents = ops[i].cents
      /\ o.status = "completed"
  BY <1>2 DEF Operation, Statuses
<1>. HIDE DEF o
<1>7. Entry(ops', i)
  <2>1. ops[i].status \in Statuses /\ ops \in Seq(Operation)
    BY <1>2 DEF Operation, TypeOK
  <2>2. CASE ops' = ops
    BY <2>1, <2>2 DEF Entry
  <2>3. CASE ops' = [ops EXCEPT ![i] = o]
    <3>1. ops' \in Seq(Operation) /\ DOMAIN ops' = DOMAIN ops /\ Len(ops') = Len(ops) /\ ops'[i] = o
      BY <1>2, <1>6, <2>1, <2>3
    <3>2. \A j \in DOMAIN ops \ {i} : ops'[j] = ops[j]
      BY <2>3
    <3>. QED
      BY <1>6, <3>1, <3>2 DEF Entry, Statuses
  <2>. QED
    BY <1>4, <2>2, <2>3
<1>8. /\ ops' \in Seq(Operation)
      /\ \A j \in DOMAIN ops : j \in DOMAIN ops' /\ (ops'[j] = ops[j] \/ j = i)
      /\ \A j \in DOMAIN ops' : ops'[j].kind = "buy_in" => ops'[j].cents <= 0
  BY <1>2, <1>7, EntryFrame
<1>9. /\ work' \in [Workers -> Work]
      /\ \/ work'[w] = Idle
         \/ /\ work'[w].at = "pay" /\ work'[w].table = t
            /\ work'[w].rest = work[w].rest \ {u} /\ lock'[t] = w
      /\ \A v \in Workers \ {w} : work'[v] = work[v]
      /\ lock' \in [Tables -> Workers \cup {Nobody}]
      /\ \A x \in Tables : lock[x] \notin {Nobody, w} => lock'[x] = lock[x]
  BY <1>1, <1>4, OnwardFrame
<1>10. TypeOK'
  BY <1>4, <1>5, <1>8, <1>9 DEF TypeOK
<1>11. Frame(w)
  BY <1>2, <1>4, <1>8, <1>9, IdleWork DEF Frame, Booked, Buying, Joining
<1>12. Doing(w)'
  BY <1>2, <1>3, <1>4, <1>9, IdleWork DEF Doing, Joining, Buying, Settling, Booked
<1>13. Holding'
  BY <1>4, <1>8 DEF Holding, Seated, Control
<1>. QED
  BY <1>10, <1>11, <1>12, <1>13 DEF Orderly

-----------------------------------------------------------------------------
(* Manual adjustments *)

\* A manual adjustment is booked.
LEMMA BookAdjustmentOrderly ==
  ASSUME TypeOK, Control, NEW w \in Workers, NEW u \in Players,
         NEW n \in Scenes[scene].adjustments, BookAdjustment(w, u, n)
  PROVE  Orderly(w)
<1>. DEFINE o == [user |-> u, kind |-> "manual", cents |-> n,
                  status |-> "pending", doubtful |-> FALSE, unsure |-> FALSE]
            k == [Idle EXCEPT !.at = "adjust", !.op = Len(ops')]
<1>1. u \in Users /\ n \in Int
  BY CashierAssumption DEF TypeOK, Players
<1>2. /\ o \in Operation /\ o.kind = "manual" /\ o.status = "pending" /\ ~o.doubtful
  BY <1>1 DEF Operation, Statuses
<1>3. ops \in Seq(Operation) /\ ops' = Append(ops, o)
  BY DEF BookAdjustment, TypeOK
<1>. HIDE DEF o
<1>4. /\ ops' \in Seq(Operation) /\ Len(ops') = Len(ops) + 1 /\ Len(ops) + 1 \in Nat
      /\ DOMAIN ops' = DOMAIN ops \cup {Len(ops) + 1} /\ Len(ops) + 1 \notin DOMAIN ops
      /\ \A i \in DOMAIN ops : ops'[i] = ops[i]
      /\ ops'[Len(ops) + 1] = o
  BY <1>2, <1>3, AppendEntry
<1>5. k \in Work /\ k.at = "adjust" /\ k.op = Len(ops) + 1
  <2>1. Len(ops') \in Nat /\ Len(ops') = Len(ops) + 1
    BY <1>4
  <2>. QED
    BY <2>1, IdleWork, Zenon DEF Work, Stages
<1>6. /\ work' = [work EXCEPT ![w] = k] /\ adjusting' = w
      /\ UNCHANGED <<scene, quota, memory, disk, lock, row, inFlight>>
  BY DEF BookAdjustment
<1>. HIDE DEF k
<1>7. work'[w] = k /\ work' \in [Workers -> Work] /\ \A v \in Workers \ {w} : work'[v] = work[v]
  BY <1>5, <1>6, WorkChanges
<1>8. TypeOK'
  BY <1>4, <1>6, <1>7 DEF TypeOK
<1>9. Frame(w)
  BY <1>4, <1>5, <1>6, <1>7 DEF Frame, Joining
<1>10. Doing(w)'
  BY <1>2, <1>4, <1>5, <1>6, <1>7 DEF Doing, Joining, Buying, Settling, Booked
<1>11. Holding'
  <2>1. \A i \in DOMAIN ops' : ops'[i].kind = "buy_in" => ops'[i].cents <= 0
    BY <1>2, <1>4 DEF Control, Holding
  <2>. QED
    BY <1>6, <2>1 DEF Holding, Seated, Control
<1>. QED
  BY <1>8, <1>9, <1>10, <1>11 DEF Orderly

\* What is known of a handler that adjusts a balance.
LEMMA AdjustingFacts ==
  ASSUME TypeOK, Control, NEW w \in Workers, work[w].at = "adjust"
  PROVE  LET o == ops[work[w].op]
         IN  /\ work[w].at \in Booked /\ work[w].op \in DOMAIN ops
             /\ o.user \in Users /\ o.cents \in Int
             /\ o.status = "pending" /\ ~o.doubtful /\ o.kind = "manual"
<1>1. work[w].at \in Booked /\ Doing(w)
  BY DEF Booked, Control
<1>2. work[w].op \in DOMAIN ops /\ ops[work[w].op] \in Operation
  BY <1>1 DEF Doing, TypeOK
<1>3. \A o \in Operation : o.user \in Users /\ o.cents \in Int
  BY DEF Operation
<1>. QED
  BY <1>1, <1>2, <1>3 DEF Doing

\* New API is told to adjust it.
LEMMA AdjustOrderly ==
  ASSUME TypeOK, Control, NEW w \in Workers, Adjust(w)
  PROVE  Orderly(w)
<1>. DEFINE i == work[w].op
<1>1. work[w].at = "adjust"
  BY DEF Adjust
<1>2. /\ i \in DOMAIN ops /\ ops[i].user \in Users /\ ops[i].cents \in Int
      /\ work[w].at \in Booked
  BY <1>1, AdjustingFacts
<1>3. PICK adjust \in Adjusting :
        /\ quota' = IF adjust.applied
                      THEN [quota EXCEPT ![ops[i].user] = @ + ops[i].cents] ELSE quota
        /\ ops' \in Note(Marked(ops, i, adjust), i,
                         IF adjust.ok THEN "completed" ELSE "manual_review")
  BY DEF Adjust
<1>4. /\ adjusting' = Nobody /\ work' = [work EXCEPT ![w] = Idle]
      /\ UNCHANGED <<scene, memory, disk, lock, row, inFlight>>
  BY DEF Adjust
<1>5. quota' \in [Users -> Int]
  BY <1>2, <1>3 DEF TypeOK
<1>6. work'[w] = Idle /\ work' \in [Workers -> Work] /\ \A v \in Workers \ {w} : work'[v] = work[v]
  BY <1>4, IdleWork, WorkChanges
<1>7. Entry(ops', i)
  <2>1. (IF adjust.ok THEN "completed" ELSE "manual_review") \in Statuses
    BY DEF Statuses
  <2>. QED
    BY <1>2, <1>3, <2>1, MarkedEntry DEF TypeOK
<1>8. /\ ops' \in Seq(Operation)
      /\ \A j \in DOMAIN ops : j \in DOMAIN ops' /\ (ops'[j] = ops[j] \/ j = i)
      /\ \A j \in DOMAIN ops' : ops'[j].kind = "buy_in" => ops'[j].cents <= 0
  BY <1>2, <1>7, EntryFrame
<1>9. TypeOK'
  BY <1>4, <1>5, <1>6, <1>8 DEF TypeOK
<1>10. Frame(w)
  BY <1>2, <1>4, <1>6, <1>8, IdleWork DEF Frame, Booked, Buying, Joining
<1>11. Doing(w)'
  BY <1>6, IdleWork DEF Doing, Joining, Buying, Settling, Booked
<1>12. Holding'
  BY <1>4, <1>8 DEF Holding, Seated, Control
<1>. QED
  BY <1>9, <1>10, <1>11, <1>12 DEF Orderly

\* Every step of a handler.
LEMMA WorkStepOrderly ==
  ASSUME TypeOK, Control, NEW w \in Workers, WorkStep(w)
  PROVE  Orderly(w)
<1>1. CASE \/ \E u \in Players, t \in Tables : RequestJoin(w, u, t)
           \/ Scan(w) \/ Reserve(w) \/ Refuse(w)
           \/ \E n \in BuyIns : BookBuyIn(w, n)
  BY <1>1, RequestJoinOrderly, ScanOrderly, ReserveOrderly, RefuseOrderly, BookBuyInOrderly
<1>2. CASE Debit(w) \/ SitDown(w) \/ Refund(w) \/ FinishBuyIn(w) \/ Release(w)
  BY <1>2, DebitOrderly, SitDownOrderly, RefundOrderly, FinishBuyInOrderly, ReleaseOrderly
<1>3. CASE \/ \E t \in Tables, leaving \in SUBSET Users : BeginCashOut(w, t, leaving)
           \/ StopPaying(w)
           \/ \E u \in Users : LeaveBroke(w, u)
           \/ Vacate(w)
  BY <1>3, BeginCashOutOrderly, StopPayingOrderly, LeaveBrokeOrderly, VacateOrderly
<1>4. CASE \/ \E u \in Users : BookCashOut(w, u)
           \/ Credit(w) \/ Depart(w) \/ Close(w)
  BY <1>4, BookCashOutOrderly, CreditOrderly, DepartOrderly, CloseOrderly
<1>5. CASE \/ \E u \in Players, n \in Scenes[scene].adjustments : BookAdjustment(w, u, n)
           \/ Adjust(w)
  BY <1>5, BookAdjustmentOrderly, AdjustOrderly
<1>. QED
  BY <1>1, <1>2, <1>3, <1>4, <1>5 DEF WorkStep

-----------------------------------------------------------------------------
(* Games, time and restarts *)

\* A step of the game at a table nobody has locked.
LEMMA PlayedControl ==
  ASSUME TypeOK, Control, NEW t \in Tables, NEW after \in Table, Seated(after), Played(t, after)
  PROVE  /\ TypeOK' /\ Control' /\ memory'[t] = after
         /\ disk'[t] \in {after, disk[t]}
         /\ \A x \in Tables \ {t} : memory'[x] = memory[x] /\ disk'[x] = disk[x]
<1>1. PICK save \in Saving :
        disk' = IF save.saved THEN [disk EXCEPT ![t] = after] ELSE disk
  BY DEF Played
<1>2. /\ memory' = [memory EXCEPT ![t] = after] /\ lock[t] = Nobody
      /\ UNCHANGED <<scene, quota, lock, row, inFlight, ops, adjusting, work>>
  BY DEF Played
<1>3. /\ memory' \in [Tables -> Table] /\ disk' \in [Tables -> Table]
      /\ memory'[t] = after /\ disk'[t] \in {after, disk[t]}
      /\ \A x \in Tables \ {t} : memory'[x] = memory[x] /\ disk'[x] = disk[x]
  BY <1>1, <1>2 DEF TypeOK
<1>4. TypeOK'
  BY <1>2, <1>3 DEF TypeOK
<1>5. ASSUME NEW w \in Workers  PROVE Doing(w)'
  <2>1. Doing(w) /\ w # Nobody
    BY CashierAssumption DEF Control
  <2>2. work[w].at \in Buying \cup Settling => memory'[work[w].table] = memory[work[w].table]
    BY <1>2, <1>3, <2>1 DEF Doing
  <2>3. {"pay", "credit", "leave", "close", "vacate"} \subseteq Settling
    BY DEF Settling
  <2>. QED
    BY <1>2, <2>1, <2>2, <2>3 DEF Doing
<1>6. Apart'
  BY <1>2 DEF Control, Apart
<1>7. Holding'
  <2>1. \A x \in Tables : Seated(memory'[x]) /\ Seated(disk'[x])
    BY <1>3, Zenon DEF Control, Holding
  <2>. QED
    BY <1>2, <2>1 DEF Control, Holding
<1>. QED
  BY <1>3, <1>4, <1>5, <1>6, <1>7 DEF Control

\* A hand is dealt: who is seated stays so, and who has chips plays.
LEMMA DealControl ==
  ASSUME TypeOK, Control, NEW t \in Tables, Deal(t)
  PROVE  /\ TypeOK' /\ Control'
         /\ memory'[t].seated = memory[t].seated /\ memory'[t].chips = memory[t].chips
         /\ disk'[t] \in {memory'[t], disk[t]}
         /\ \A x \in Tables \ {t} : memory'[x] = memory[x] /\ disk'[x] = disk[x]
<1>. DEFINE funded == {u \in memory[t].seated : memory[t].chips[u] > 0}
            after == [memory[t] EXCEPT !.hand = funded]
<1>1. memory[t] \in Table /\ Seated(memory[t])
  BY DEF TypeOK, Control, Holding
<1>2. funded \subseteq memory[t].seated /\ funded \in SUBSET Users
  BY <1>1 DEF Table
<1>. HIDE DEF funded
<1>3. after \in Table /\ Seated(after) /\ after.seated = memory[t].seated
      /\ after.chips = memory[t].chips
  BY <1>1, <1>2 DEF Table, Seated
<1>4. Played(t, after)
  BY SMTT(60) DEF Deal, funded
<1>. HIDE DEF after
<1>. QED
  BY <1>3, <1>4, PlayedControl

\* A hand ends: one player's chips may have become another's.
LEMMA EndHandControl ==
  ASSUME TypeOK, Control, NEW t \in Tables, EndHand(t)
  PROVE  /\ TypeOK' /\ Control' /\ memory'[t].seated = memory[t].seated
         /\ \E winner, loser \in Users : \E n \in Int :
              /\ winner # loser
              /\ memory'[t].chips = [[memory[t].chips EXCEPT ![winner] = @ + n]
                                       EXCEPT ![loser] = @ - n]
         /\ disk'[t] \in {memory'[t], disk[t]}
         /\ \A x \in Tables \ {t} : memory'[x] = memory[x] /\ disk'[x] = disk[x]
<1>. DEFINE chips == memory[t].chips
<1>1. memory[t] \in Table /\ Seated(memory[t])
  BY DEF TypeOK, Control, Holding
<1>2. PICK winner \in memory[t].hand, loser \in memory[t].hand :
        \E n \in {0, memory[t].chips[loser]} :
          /\ winner # loser
          /\ Played(t, [memory[t] EXCEPT !.hand = {},
                          !.chips[winner] = @ + n, !.chips[loser] = @ - n])
  BY DEF EndHand
<1>n. PICK n \in {0, memory[t].chips[loser]} :
        /\ winner # loser
        /\ Played(t, [memory[t] EXCEPT !.hand = {},
                        !.chips[winner] = @ + n, !.chips[loser] = @ - n])
  BY <1>2
<1>. DEFINE paid == [[chips EXCEPT ![winner] = @ + n] EXCEPT ![loser] = @ - n]
            after == [memory[t] EXCEPT !.hand = {}, !.chips = paid]
<1>3. /\ memory[t].hand \subseteq memory[t].seated /\ memory[t].seated \subseteq Users
      /\ chips \in [Users -> Nat] /\ \A u \in Users \ memory[t].seated : chips[u] = 0
  BY <1>1 DEF Table, Seated
<1>4. /\ winner \in memory[t].seated /\ loser \in memory[t].seated
      /\ winner \in Users /\ loser \in Users
  BY <1>2, <1>3
<1>5. n \in Nat /\ n <= chips[loser]
  BY <1>n, <1>3, <1>4
<1>6. paid \in [Users -> Nat] /\ \A u \in Users \ memory[t].seated : paid[u] = 0
  <2>. DEFINE won == [chips EXCEPT ![winner] = @ + n]
  <2>. HIDE DEF chips
  <2>1. won \in [Users -> Nat] /\ won[loser] = chips[loser]
    BY <1>n, <1>3, <1>4, <1>5
  <2>2. \A u \in Users \ memory[t].seated : won[u] = 0
    BY <1>3, <1>4
  <2>3. paid = [won EXCEPT ![loser] = @ - n]
    OBVIOUS
  <2>. HIDE DEF won, paid
  <2>4. won[loser] - n \in Nat
    BY <2>1, <1>3, <1>4, <1>5
  <2>. QED
    BY <2>1, <2>2, <2>3, <2>4, <1>3, <1>4
<1>7. Played(t, after)
  BY <1>1, <1>n DEF Table
<1>. HIDE DEF paid
<1>8. /\ after \in Table /\ Seated(after) /\ after.seated = memory[t].seated
      /\ after.chips = paid
  BY <1>1, <1>6 DEF Table, Seated
<1>. HIDE DEF after
<1>9. /\ TypeOK' /\ Control' /\ memory'[t] = after
      /\ disk'[t] \in {after, disk[t]}
      /\ \A x \in Tables \ {t} : memory'[x] = memory[x] /\ disk'[x] = disk[x]
  BY <1>7, <1>8, PlayedControl
<1>10. n \in Int
  BY <1>5
<1>. QED
  BY <1>n, <1>4, <1>8, <1>9, <1>10, SMTT(60) DEF paid

\* A reservation gets old.
LEMMA ReservationAgesControl ==
  ASSUME TypeOK, Control, NEW u \in Users, ReservationAges(u)
  PROVE  TypeOK' /\ Control'
<1>1. /\ row[u].status = "pending" /\ row' = [row EXCEPT ![u].stale = TRUE]
      /\ UNCHANGED <<scene, quota, memory, disk, lock, inFlight, ops, adjusting, work>>
  BY DEF ReservationAges
<1>2. row[u] \in Row /\ row[u] # NoRow
  BY <1>1 DEF TypeOK, NoRow
<1>3. [row[u] EXCEPT !.stale = TRUE] \in Row
  BY <1>2 DEF Row
<1>4. TypeOK'
  BY <1>1, <1>3 DEF TypeOK
<1>5. Control'
  BY <1>1 DEF Control, Doing, Apart, Holding, Seated, Playing
<1>. QED
  BY <1>4, <1>5

\* After a restart no handler works and no table is locked.
LEMMA RestartControl ==
  ASSUME TypeOK, Control, Restart
  PROVE  TypeOK' /\ Control' /\ \A w \in Workers : work'[w] = Idle
<1>1. /\ memory' = disk /\ work' = [w \in Workers |-> Idle]
      /\ lock' = [t \in Tables |-> Nobody] /\ inFlight' = {} /\ adjusting' = Nobody
      /\ UNCHANGED <<scene, quota, disk, row, ops>>
  BY DEF Restart
<1>2. TypeOK'
  BY <1>1, IdleWork DEF TypeOK
<1>3. \A w \in Workers : Doing(w)'
  BY <1>1, IdleWork DEF Doing, Joining, Buying, Settling, Booked
<1>4. Apart'
  BY <1>1, IdleWork DEF Apart, Joining, Buying, Booked
<1>5. Holding'
  BY <1>1 DEF Control, Holding
<1>. QED
  BY <1>1, <1>2, <1>3, <1>4, <1>5 DEF Control

-----------------------------------------------------------------------------
(* The invariant *)

\* At first nobody does anything.
LEMMA InitControl == Init => TypeOK /\ Control
<1>. SUFFICES ASSUME Init  PROVE TypeOK /\ Control
  OBVIOUS
<1>1. scene \in DOMAIN Scenes /\ \A t \in Tables : SeatedAtFirst[t] \subseteq Users
  BY CashierAssumption DEF Init, SeatedAtFirst
<1>2. disk \in [Tables -> Table] /\ \A t \in Tables : Seated(disk[t])
  <2>1. StartChips \in Nat
    BY CashierAssumption
  <2>. SUFFICES ASSUME NEW t \in Tables
       PROVE  LET d == [seated |-> SeatedAtFirst[t], hand |-> {},
                        chips |-> [u \in Users |-> IF u \in SeatedAtFirst[t] THEN StartChips ELSE 0]]
              IN  d \in Table /\ Seated(d)
    BY DEF Init
  <2>. QED
    BY <1>1, <2>1 DEF Table, Seated
<1>3. row \in [Users -> Row]
  <2>. SUFFICES ASSUME NEW u \in Users, \E t \in Tables : u \in SeatedAtFirst[t]
       PROVE  [table |-> CHOOSE t \in Tables : u \in SeatedAtFirst[t],
               status |-> "active", stale |-> FALSE] \in Row
    BY DEF Init, Row
  <2>1. (CHOOSE t \in Tables : u \in SeatedAtFirst[t]) \in Tables
    OBVIOUS
  <2>. QED
    BY <2>1 DEF Row
<1>4. /\ quota \in [Users -> Int] /\ lock \in [Tables -> Workers \cup {Nobody}]
      /\ work \in [Workers -> Work] /\ \A w \in Workers : work[w] = Idle
  BY CashierAssumption, IdleWork DEF Init
<1>5. TypeOK
  <2>1. /\ memory = disk /\ inFlight = {} /\ adjusting = Nobody /\ ops \in Seq(Operation)
    BY DEF Init
  <2>. QED
    BY <1>1, <1>2, <1>3, <1>4, <2>1 DEF TypeOK
<1>6. \A w \in Workers : Doing(w)
  BY <1>4, IdleWork DEF Doing, Joining, Buying, Settling, Booked
<1>7. Apart
  BY <1>4, IdleWork DEF Apart, Joining, Buying, Booked
<1>8. Holding
  BY <1>2 DEF Holding, Init
<1>. QED
  BY <1>5, <1>6, <1>7, <1>8 DEF Control

\* Every step keeps the handlers in order.
LEMMA NextControl == TypeOK /\ Control /\ [Next]_vars => TypeOK' /\ Control'
<1>. SUFFICES ASSUME TypeOK, Control, [Next]_vars  PROVE TypeOK' /\ Control'
  OBVIOUS
<1>1. ASSUME NEW w \in Workers, WorkStep(w)  PROVE TypeOK' /\ Control'
  <2>1. TypeOK' /\ Frame(w) /\ Doing(w)' /\ Holding'
    BY <1>1, WorkStepOrderly DEF Orderly
  <2>2. (\A v \in Workers : Doing(v)') /\ Apart'
    BY <2>1, FrameKeeps
  <2>. QED
    BY <2>1, <2>2 DEF Control
<1>2. ASSUME NEW t \in Tables, Deal(t)  PROVE TypeOK' /\ Control'
  BY <1>2, DealControl
<1>3. ASSUME NEW t \in Tables, EndHand(t)  PROVE TypeOK' /\ Control'
  BY <1>3, EndHandControl
<1>4. ASSUME NEW u \in Users, ReservationAges(u)  PROVE TypeOK' /\ Control'
  BY <1>4, ReservationAgesControl
<1>5. CASE Restart
  BY <1>5, RestartControl
<1>6. CASE UNCHANGED vars
  BY <1>6 DEF vars, TypeOK, Control, Doing, Apart, Holding
<1>. QED
  BY <1>1, <1>2, <1>3, <1>4, <1>5, <1>6 DEF Next

\* In every reachable state, whatever fails and whenever the server restarts, the
\* state is of its type and the handlers of internal/app/table_handlers.go keep to
\* themselves: no two work for the same join or on the same operation, one that
\* moves money holds its table's lock, and an operation that is worked on is
\* pending.
THEOREM HandlersInOrder == Spec => [](TypeOK /\ Control)
<1>. QED
  BY InitControl, NextControl, PTL DEF Spec

\* A handler that credits a player has the lock, so that the stack it read is the stack
\* the player has.
LEMMA ControlCredit == TypeOK /\ Control => CreditIsStack
<1>. SUFFICES ASSUME TypeOK, Control, NEW w \in Workers, work[w].at \in {"credit", "leave"}
     PROVE  LET op == ops[work[w].op]  t == memory[work[w].table]
            IN  op.user \in t.seated /\ op.cents = t.chips[op.user] /\ ~Playing(t)
  BY DEF CreditIsStack
<1>1. Doing(w)
  BY DEF Control
<1>. QED
  BY <1>1 DEF Doing, Settling

\* CreditIsStack holds in every reachable state: what cashOutPlayerLocked tells New
\* API to credit is the stack the player then leaves the table with, and no hand is
\* played between reading the one and removing the other.
THEOREM CreditedIsStack == Spec => []CreditIsStack
BY HandlersInOrder, ControlCredit, PTL

-----------------------------------------------------------------------------
(* Lost answers *)

\* A step keeps doubtful operations open.
LEMMA DoubtfulKept ==
  ASSUME TypeOK, Control, DoubtfulStaysOpen, [Next]_vars
  PROVE  DoubtfulStaysOpen'
<1>0. ASSUME NEW i \in DOMAIN ops, Entry(ops', i), ops[i].doubtful \/ ops[i].status = "pending",
             ops'[i].doubtful => ops'[i].status \in {"pending", "manual_review"}
      PROVE  DoubtfulStaysOpen'
  BY <1>0 DEF Entry, DoubtfulStaysOpen
<1>1. ASSUME UNCHANGED ops  PROVE DoubtfulStaysOpen'
  BY <1>1 DEF DoubtfulStaysOpen
<1>2. ASSUME NEW o \in Operation, ~o.doubtful, ops' = Append(ops, o)
      PROVE  DoubtfulStaysOpen'
  BY <1>2, AppendEntry DEF DoubtfulStaysOpen, TypeOK
<1>3. ASSUME NEW w \in Workers, WorkStep(w)  PROVE DoubtfulStaysOpen'
  <2>1. ASSUME NEW n \in BuyIns, BookBuyIn(w, n)  PROVE DoubtfulStaysOpen'
    <3>. DEFINE o == [user |-> work[w].user, kind |-> "buy_in", cents |-> -n,
                      status |-> "pending", doubtful |-> FALSE, unsure |-> FALSE]
    <3>1. ops' = Append(ops, o) /\ o \in Operation
      <4>1. work[w].at = "enter" /\ Doing(w)
        BY <2>1 DEF BookBuyIn, Control
      <4>2. work[w].user \in Users
        BY <4>1 DEF Doing, Joining, TypeOK
      <4>3. -n \in Int
        BY CashierAssumption
      <4>. QED
        BY <2>1, <4>2, <4>3 DEF BookBuyIn, Operation, Statuses
    <3>2. ~o.doubtful
      OBVIOUS
    <3>. HIDE DEF o
    <3>. QED
      BY <1>2, <3>1, <3>2
  <2>2. ASSUME NEW u \in Users, BookCashOut(w, u)  PROVE DoubtfulStaysOpen'
    <3>. DEFINE o == [user |-> u, kind |-> "cash_out", cents |-> memory[work[w].table].chips[u],
                      status |-> "pending", doubtful |-> FALSE, unsure |-> FALSE]
    <3>1. ops' = Append(ops, o) /\ o \in Operation
      <4>1. work[w].at \in Settling
        BY <2>2 DEF BookCashOut, Settling
      <4>2. memory[work[w].table].chips[u] \in Int
        BY <4>1, SettlingFacts DEF Table
      <4>. QED
        BY <2>2, <4>2 DEF BookCashOut, Operation, Statuses
    <3>2. ~o.doubtful
      OBVIOUS
    <3>. HIDE DEF o
    <3>. QED
      BY <1>2, <3>1, <3>2
  <2>3. ASSUME NEW u \in Players, NEW n \in Scenes[scene].adjustments, BookAdjustment(w, u, n)
        PROVE  DoubtfulStaysOpen'
    <3>. DEFINE o == [user |-> u, kind |-> "manual", cents |-> n,
                      status |-> "pending", doubtful |-> FALSE, unsure |-> FALSE]
    <3>1. ops' = Append(ops, o) /\ o \in Operation
      <4>1. u \in Users /\ n \in Int
        BY CashierAssumption DEF TypeOK, Players
      <4>. QED
        BY <2>3, <4>1 DEF BookAdjustment, Operation, Statuses
    <3>2. ~o.doubtful
      OBVIOUS
    <3>. HIDE DEF o
    <3>. QED
      BY <1>2, <3>1, <3>2
  <2>. DEFINE i == work[w].op
  <2>4. ASSUME work[w].at \in Booked
        PROVE  /\ i \in DOMAIN ops /\ ops[i].status = "pending" /\ ~ops[i].doubtful
               /\ ops \in Seq(Operation)
    BY <2>4 DEF Control, Doing, TypeOK
  <2>5. ASSUME NEW adjust \in Adjusting, NEW status \in Statuses, work[w].at \in Booked,
               ops' \in Note(Marked(ops, i, adjust), i, status),
               ~adjust.ok => status \in {"pending", "manual_review"}
        PROVE  DoubtfulStaysOpen'
    <3>1. i \in DOMAIN ops /\ ops[i].status = "pending" /\ ~ops[i].doubtful
      BY <2>4, <2>5
    <3>2. /\ Entry(ops', i) /\ ops'[i].status \in {ops[i].status, status}
          /\ ops'[i].doubtful = (ops[i].doubtful \/ (adjust.applied /\ ~adjust.ok))
      <4>. HIDE DEF i
      <4>. QED
        BY <2>4, <2>5, <3>1, MarkedEntry
    <3>. HIDE DEF i
    <3>. QED
      BY <1>0, <2>5, <3>1, <3>2
  <2>6. ASSUME NEW status \in Statuses, work[w].at \in Booked, ops' \in Note(ops, i, status)
        PROVE  DoubtfulStaysOpen'
    <3>1. i \in DOMAIN ops /\ ops[i].status = "pending" /\ ~ops[i].doubtful
      BY <2>4, <2>6
    <3>2. Entry(ops', i) /\ ops'[i].doubtful = ops[i].doubtful
      <4>. HIDE DEF i
      <4>. QED
        BY <2>4, <2>6, <3>1, NoteEntry
    <3>. HIDE DEF i
    <3>. QED
      BY <1>0, <3>1, <3>2
  <2>7. Statuses = {"pending", "completed", "compensated", "manual_review"}
    BY DEF Statuses
  <2>8. ASSUME Debit(w)  PROVE DoubtfulStaysOpen'
    <3>1. work[w].at \in Booked
      BY <2>8 DEF Debit, Booked, Buying
    <3>2. PICK adjust \in Adjusting :
            UNCHANGED ops \/ ops' \in Note(Marked(ops, i, adjust), i, "manual_review")
      BY <2>8 DEF Debit
    <3>. HIDE DEF i
    <3>. QED
      BY <1>1, <2>5, <2>7, <3>1, <3>2
  <2>9. ASSUME SitDown(w)  PROVE DoubtfulStaysOpen'
    <3>1. work[w].at \in Booked
      BY <2>9 DEF SitDown, Booked, Buying
    <3>2. UNCHANGED ops \/ \E b : ops' = [ops EXCEPT ![i].unsure = b]
      BY <2>9 DEF SitDown
    <3>3. ASSUME NEW b, ops' = [ops EXCEPT ![i].unsure = b]  PROVE DoubtfulStaysOpen'
      <4>1. ops[i] \in Operation
        BY <2>4, <3>1
      <4>. DEFINE o == [ops[i] EXCEPT !.unsure = b]
      <4>2. o.doubtful = ops[i].doubtful /\ o.status = ops[i].status
        BY <4>1 DEF Operation
      <4>3. ops' = [ops EXCEPT ![i] = o]
        BY <3>3
      <4>. HIDE DEF o
      <4>. QED
        BY <2>4, <3>1, <4>2, <4>3 DEF DoubtfulStaysOpen
    <3>. QED
      BY <1>1, <3>2, <3>3
  <2>10. ASSUME Refund(w)  PROVE DoubtfulStaysOpen'
    <3>1. work[w].at \in Booked
      BY <2>10 DEF Refund, Booked, Buying
    <3>2. PICK adjust \in Adjusting :
            ops' \in Note(Marked(ops, i, adjust), i,
                          IF adjust.ok THEN "compensated" ELSE "manual_review")
      BY <2>10 DEF Refund
    <3>. HIDE DEF i
    <3>. QED
      BY <2>5, <2>7, <3>1, <3>2
  <2>11. ASSUME FinishBuyIn(w)  PROVE DoubtfulStaysOpen'
    BY <2>6, <2>7, <2>11 DEF FinishBuyIn, Booked, Buying
  <2>12. ASSUME Credit(w)  PROVE DoubtfulStaysOpen'
    <3>1. work[w].at \in Booked
      BY <2>12 DEF Credit, Booked
    <3>2. PICK adjust \in Adjusting :
            UNCHANGED ops \/ ops' \in Note(Marked(ops, i, adjust), i, "manual_review")
      BY <2>12 DEF Credit
    <3>. HIDE DEF i
    <3>. QED
      BY <1>1, <2>5, <2>7, <3>1, <3>2
  <2>13. ASSUME Depart(w)  PROVE DoubtfulStaysOpen'
    BY <1>1, <2>6, <2>7, <2>13 DEF Depart, Booked
  <2>14. ASSUME Close(w)  PROVE DoubtfulStaysOpen'
    <3>1. work[w].at \in Booked /\ (UNCHANGED ops \/ ops' = [ops EXCEPT ![i].status = "completed"])
      BY <2>14 DEF Close, Booked
    <3>2. UNCHANGED ops \/ ops' \in Note(ops, i, "completed")
      BY <3>1 DEF Note, OrNot
    <3>. HIDE DEF i
    <3>. QED
      BY <1>1, <2>6, <2>7, <3>1, <3>2
  <2>15. ASSUME Adjust(w)  PROVE DoubtfulStaysOpen'
    <3>1. work[w].at \in Booked
      BY <2>15, SMTT(60) DEF Adjust, Booked
    <3>2. PICK adjust \in Adjusting :
            ops' \in Note(Marked(ops, i, adjust), i,
                          IF adjust.ok THEN "completed" ELSE "manual_review")
      BY <2>15, SMTT(60) DEF Adjust
    <3>. HIDE DEF i
    <3>. QED
      BY <2>5, <2>7, <3>1, <3>2
  <2>16. ASSUME \/ \E u \in Players, t \in Tables : RequestJoin(w, u, t)
                \/ Scan(w) \/ Reserve(w) \/ Refuse(w) \/ Release(w)
                \/ \E t \in Tables, leaving \in SUBSET Users : BeginCashOut(w, t, leaving)
                \/ StopPaying(w) \/ Vacate(w)
                \/ \E u \in Users : LeaveBroke(w, u)
         PROVE  UNCHANGED ops
    BY <2>16, ZenonT(60) DEF RequestJoin, Scan, Reserve, Refuse, Release, BeginCashOut, StopPaying,
                 Vacate, LeaveBroke
  <2>. HIDE DEF i
  <2>. QED
    BY <1>1, <1>3, <2>1, <2>2, <2>3, <2>8, <2>9, <2>10, <2>11, <2>12, <2>13, <2>14, <2>15, <2>16
       DEF WorkStep
<1>4. ASSUME \/ \E t \in Tables : Deal(t) \/ EndHand(t)
             \/ \E u \in Users : ReservationAges(u)
             \/ Restart \/ UNCHANGED vars
      PROVE  UNCHANGED ops
  <2>1. \A t \in Tables : Deal(t) => UNCHANGED ops
    BY ZenonT(60) DEF Deal, Played
  <2>2. \A t \in Tables : EndHand(t) => UNCHANGED ops
    BY ZenonT(60) DEF EndHand, Played
  <2>3. \A u \in Users : ReservationAges(u) => UNCHANGED ops
    BY ZenonT(60) DEF ReservationAges
  <2>4. Restart => UNCHANGED ops
    BY ZenonT(60) DEF Restart
  <2>5. UNCHANGED vars => UNCHANGED ops
    BY ZenonT(60) DEF vars
  <2>. QED
    BY <1>4, <2>1, <2>2, <2>3, <2>4, <2>5
<1>. QED
  BY <1>1, <1>3, <1>4 DEF Next

\* DoubtfulStaysOpen holds in every reachable state: an operation for which an
\* answer of New API was lost is never taken as done or undone; it stays
\* pending or goes to manual review.
THEOREM LostAnswersStayOpen == Spec => []DoubtfulStaysOpen
<1>1. Init => DoubtfulStaysOpen
  BY DEF Init, DoubtfulStaysOpen
<1>2. TypeOK /\ Control /\ DoubtfulStaysOpen /\ [Next]_vars => DoubtfulStaysOpen'
  BY DoubtfulKept
<1>. QED
  BY <1>1, <1>2, HandlersInOrder, PTL DEF Spec

-----------------------------------------------------------------------------
(* One seat per player *)

\* A player whom the table could not be saved with can be made to leave again: saves
\* do not fail where players sit down during a hand.
UndoPossible == JoinMidHand => "save" \notin Faults

\* Stages of a join between the search for a seat and sitting down.
Entering == {"reserve", "enter", "debit", "sit"}

\* Who sits is saved as sitting, and who is about to sit down is saved nowhere.
SeatsSaved ==
  /\ \A t \in Tables : memory[t].seated \subseteq disk[t].seated
  /\ \A w \in Workers : work[w].at \in Entering =>
       \A t \in Tables : work[w].user \notin disk[t].seated

\* The scene is chosen once.
LEMMA SceneFixed ==
  ASSUME [Next]_vars
  PROVE  scene' = scene
<1>1. ASSUME NEW w \in Workers, WorkStep(w)  PROVE scene' = scene
  <2>1. ASSUME \/ \E u \in Players, t \in Tables : RequestJoin(w, u, t)
               \/ Scan(w) \/ Reserve(w) \/ Refuse(w)
               \/ \E n \in BuyIns : BookBuyIn(w, n)
               \/ Debit(w) \/ SitDown(w) \/ Refund(w) \/ FinishBuyIn(w) \/ Release(w)
        PROVE  scene' = scene
    BY <2>1, ZenonT(60) DEF RequestJoin, Scan, Reserve, Refuse, BookBuyIn, Debit, SitDown, Refund,
                FinishBuyIn, Release
  <2>2. ASSUME \/ \E t \in Tables, leaving \in SUBSET Users : BeginCashOut(w, t, leaving)
               \/ StopPaying(w) \/ Vacate(w) \/ Credit(w) \/ Depart(w) \/ Close(w)
               \/ \E u \in Users : LeaveBroke(w, u) \/ BookCashOut(w, u)
        PROVE  scene' = scene
    BY <2>2 DEF BeginCashOut, StopPaying, Vacate, Credit, Depart, Close, LeaveBroke, BookCashOut
  <2>3. ASSUME \/ \E u \in Players, n \in Scenes[scene].adjustments : BookAdjustment(w, u, n)
               \/ Adjust(w)
        PROVE  scene' = scene
    BY <2>3 DEF BookAdjustment, Adjust
  <2>. QED
    BY <1>1, <2>1, <2>2, <2>3, SMTT(60) DEF WorkStep
<1>2. ASSUME \/ \E t \in Tables : Deal(t) \/ EndHand(t)
             \/ \E u \in Users : ReservationAges(u)
             \/ Restart \/ UNCHANGED vars
      PROVE  scene' = scene
  <2>1. \A t \in Tables : Deal(t) => scene' = scene
    BY ZenonT(60) DEF Deal, Played
  <2>2. \A t \in Tables : EndHand(t) => scene' = scene
    BY ZenonT(60) DEF EndHand, Played
  <2>3. \A u \in Users : ReservationAges(u) => scene' = scene
    BY ZenonT(60) DEF ReservationAges
  <2>4. Restart => scene' = scene
    BY ZenonT(60) DEF Restart
  <2>5. UNCHANGED vars => scene' = scene
    BY ZenonT(60) DEF vars
  <2>. QED
    BY <1>2, <2>1, <2>2, <2>3, <2>4, <2>5
<1>. QED
  BY <1>1, <1>2 DEF Next

\* What sitting down does to the table and to its saved copy.
LEMMA SitDownEffect ==
  ASSUME TypeOK, Control, NEW w \in Workers, SitDown(w)
  PROVE  LET t == work[w].table  u == work[w].user  i == work[w].op
             n == -ops[i].cents  m == memory[t]
         IN  /\ t \in Tables /\ u \in Users /\ n \in Nat /\ i \in DOMAIN ops
             /\ \A x \in Tables \ {t} : memory'[x] = memory[x] /\ disk'[x] = disk[x]
             /\ \/ UNCHANGED <<memory, disk, ops>> /\ work'[w].at = "refund"
                \/ \E save \in Saving :
                     /\ work'[w].at = IF save.ok THEN "finish" ELSE "refund"
                     /\ u \notin m.seated /\ (JoinMidHand \/ ~Playing(m))
                     /\ ops' = [ops EXCEPT ![i].unsure = save.saved /\ ~save.ok]
                     /\ IF save.ok \/ Playing(m)
                          THEN /\ memory'[t].seated = m.seated \cup {u}
                               /\ memory'[t].chips = [m.chips EXCEPT ![u] = n]
                          ELSE memory'[t].seated = m.seated /\ memory'[t].chips = m.chips
                     /\ IF save.saved
                          THEN /\ disk'[t].seated = m.seated \cup {u}
                               /\ disk'[t].chips = [m.chips EXCEPT ![u] = n]
                          ELSE disk'[t] = disk[t]
<1>. DEFINE t == work[w].table
            u == work[w].user
            i == work[w].op
            n == -ops[i].cents
            m == memory[t]
            sat == Sit(m, u, n)
<1>1. work[w].at = "sit" /\ work[w].at \in Buying
  BY DEF SitDown, Buying
<1>2. /\ u \in Users /\ t \in Tables /\ i \in DOMAIN ops /\ n \in Nat /\ work[w] \in Work
  BY <1>1, BuyingFacts
<1>3. m \in Table /\ Seated(m) /\ memory \in [Tables -> Table] /\ disk \in [Tables -> Table]
  BY <1>2 DEF TypeOK, Control, Holding
<1>4. /\ sat \in Table /\ Seated(sat) /\ sat.seated = m.seated \cup {u} /\ sat.hand = m.hand
      /\ sat.chips = [m.chips EXCEPT ![u] = n]
  BY <1>2, <1>3, SitSeated
<1>5. CASE work' = [work EXCEPT ![w].at = "refund"] /\ UNCHANGED <<memory, disk, ops>>
  <2>1. work'[w].at = "refund"
    BY <1>2, <1>5, SMTT(60) DEF TypeOK, Work
  <2>. QED
    BY <1>2, <1>5, <2>1, SMTT(60)
<1>6. CASE /\ MaySit(m, u)
           /\ \E save \in Saving :
                /\ disk' = IF save.saved THEN [disk EXCEPT ![t] = sat] ELSE disk
                /\ memory' = [memory EXCEPT ![t] =
                     IF save.ok \/ Playing(sat) THEN sat ELSE StandUp(sat, u)]
                /\ ops' = [ops EXCEPT ![i].unsure = save.saved /\ ~save.ok]
                /\ work' = [work EXCEPT ![w].at = IF save.ok THEN "finish" ELSE "refund"]
  <2>1. PICK save \in Saving :
          /\ disk' = IF save.saved THEN [disk EXCEPT ![t] = sat] ELSE disk
          /\ memory' = [memory EXCEPT ![t] =
               IF save.ok \/ Playing(sat) THEN sat ELSE StandUp(sat, u)]
          /\ ops' = [ops EXCEPT ![i].unsure = save.saved /\ ~save.ok]
          /\ work' = [work EXCEPT ![w].at = IF save.ok THEN "finish" ELSE "refund"]
    BY <1>6
  <2>2. u \notin m.seated /\ (JoinMidHand \/ ~Playing(m))
    BY <1>6 DEF MaySit
  <2>3. work'[w].at = IF save.ok THEN "finish" ELSE "refund"
    BY <1>2, <2>1 DEF TypeOK, Work
  <2>4. ~Playing(m) => /\ StandUp(sat, u).seated = m.seated
                       /\ StandUp(sat, u).chips = m.chips
    <3>. SUFFICES ASSUME ~Playing(m)
         PROVE  StandUp(sat, u).seated = m.seated /\ StandUp(sat, u).chips = m.chips
      OBVIOUS
    <3>. HIDE DEF m, sat
    <3>1. StandUp(sat, u).seated = sat.seated \ {u}
          /\ StandUp(sat, u).chips = [sat.chips EXCEPT ![u] = 0]
      BY <1>2, <1>4, StandUpSeated DEF Playing
    <3>2. m.chips \in [Users -> Nat] /\ m.chips[u] = 0
      BY <1>2, <1>3, <2>2 DEF Table, Seated
    <3>3. [sat.chips EXCEPT ![u] = 0] = m.chips
      BY <1>2, <1>4, <3>2
    <3>. QED
      BY <1>4, <2>2, <3>1, <3>3
  <2>5. Playing(sat) = Playing(m)
    BY <1>4 DEF Playing
  <2>. HIDE DEF sat, m
  <2>6. /\ memory'[t] = IF save.ok \/ Playing(m) THEN sat ELSE StandUp(sat, u)
        /\ disk'[t] = IF save.saved THEN sat ELSE disk[t]
        /\ \A x \in Tables \ {t} : memory'[x] = memory[x] /\ disk'[x] = disk[x]
    BY <1>2, <1>3, <2>1, <2>5
  <2>7. IF save.ok \/ Playing(m)
          THEN memory'[t].seated = m.seated \cup {u} /\ memory'[t].chips = [m.chips EXCEPT ![u] = n]
          ELSE memory'[t].seated = m.seated /\ memory'[t].chips = m.chips
    BY <1>4, <2>4, <2>6
  <2>8. IF save.saved
          THEN disk'[t].seated = m.seated \cup {u} /\ disk'[t].chips = [m.chips EXCEPT ![u] = n]
          ELSE disk'[t] = disk[t]
    BY <1>4, <2>6
  <2>. QED
    BY <1>2, <2>1, <2>2, <2>3, <2>6, <2>7, <2>8 DEF m
<1>. QED
  BY <1>5, <1>6 DEF SitDown

\* What leaving does to them.
LEMMA LeaveEffect ==
  ASSUME TypeOK, Control, NEW w \in Workers, work[w].at \in Settling, NEW u \in Users,
         NEW save \in Saving, LeaveAndSave(w, u, save)
  PROVE  LET t == work[w].table
         IN  /\ t \in Tables
             /\ memory'[t].seated = memory[t].seated \ {u}
             /\ memory'[t].chips = [memory[t].chips EXCEPT ![u] = 0]
             /\ disk'[t] = IF save.saved THEN memory'[t] ELSE disk[t]
             /\ \A x \in Tables \ {t} : memory'[x] = memory[x] /\ disk'[x] = disk[x]
<1>. DEFINE t == work[w].table
<1>1. t \in Tables /\ memory[t] \in Table /\ ~Playing(memory[t])
  BY SettlingFacts
<1>2. Seated(memory[t])
  BY <1>1 DEF Control, Holding
<1>3. /\ StandUp(memory[t], u).seated = memory[t].seated \ {u}
      /\ StandUp(memory[t], u).chips = [memory[t].chips EXCEPT ![u] = 0]
  <2>. DEFINE m == memory[t]
  <2>. HIDE DEF m
  <2>1. StandUp(m, u).seated = m.seated \ {u} /\ StandUp(m, u).chips = [m.chips EXCEPT ![u] = 0]
    BY <1>1, <1>2, StandUpSeated DEF m
  <2>. QED
    BY <2>1 DEF m
<1>4. /\ memory'[t] = StandUp(memory[t], u)
      /\ disk'[t] = IF save.saved THEN memory'[t] ELSE disk[t]
      /\ \A x \in Tables \ {t} : memory'[x] = memory[x] /\ disk'[x] = disk[x]
  BY LeaveFrame
<1>. QED
  BY <1>1, <1>3, <1>4

\* A handler that is about to let a player sit down has been so before, or has just
\* found that he is saved at no table.
LEMMA EnteringStep ==
  ASSUME TypeOK, Control, NEW w \in Workers, WorkStep(w), work'[w].at \in Entering
  PROVE  \/ work[w].at \in Entering \ {"sit"} /\ work'[w].user = work[w].user
         \/ /\ work'[w].user = work[w].user /\ disk' = disk
            /\ \A t \in Tables : work[w].user \notin disk[t].seated
<1>1. work[w] \in Work /\ work \in [Workers -> Work] /\ Idle.at = "idle"
  BY IdleWork DEF TypeOK
<1>2. CASE Scan(w)
  BY <1>1, <1>2 DEF Scan, Work, Entering
<1>3. CASE Reserve(w)
  BY <1>1, <1>3 DEF Reserve, Work, Entering
<1>4. CASE \E n \in BuyIns : BookBuyIn(w, n)
  <2>1. PICK n \in BuyIns : BookBuyIn(w, n)
    BY <1>4
  <2>2. work[w].at = "enter" /\ work' = [work EXCEPT ![w].at = "debit", ![w].op = Len(ops')]
    BY <2>1 DEF BookBuyIn
  <2>3. work'[w].user = work[w].user
    BY <1>1, <2>2 DEF Work
  <2>. QED
    BY <2>2, <2>3 DEF Entering
<1>5. CASE Debit(w)
  BY <1>1, <1>5 DEF Debit, Work, Entering
<1>6. ASSUME Refuse(w) \/ Refund(w)  PROVE FALSE
  BY <1>1, <1>6 DEF Refuse, Refund, Work, Entering
<1>7. ASSUME SitDown(w)  PROVE FALSE
  BY <1>7, SitDownEffect DEF Entering
<1>8. ASSUME FinishBuyIn(w) \/ Release(w) \/ StopPaying(w) \/ Adjust(w)  PROVE FALSE
  BY <1>1, <1>8 DEF FinishBuyIn, Release, StopPaying, Adjust, GiveUp, Entering
<1>9. ASSUME \/ \E u \in Players, t \in Tables : RequestJoin(w, u, t)
             \/ \E t \in Tables, leaving \in SUBSET Users : BeginCashOut(w, t, leaving)
      PROVE  FALSE
  BY <1>1, <1>9, ZenonT(60) DEF RequestJoin, BeginCashOut, Idle, Entering
<1>10. ASSUME NEW u \in Players, NEW n \in Scenes[scene].adjustments, BookAdjustment(w, u, n)
       PROVE  FALSE
  <2>1. work'[w] = [Idle EXCEPT !.at = "adjust", !.op = Len(ops')]
    BY <1>1, <1>10 DEF BookAdjustment
  <2>. QED
    BY <2>1 DEF Idle, Entering
<1>11. ASSUME \E u \in Users : LeaveBroke(w, u)  PROVE FALSE
  <2>1. PICK u \in Users : LeaveBroke(w, u)
    BY <1>11
  <2>2. work' = [work EXCEPT ![w].at = "vacate", ![w].user = u] \/ GiveUp(w)
    BY <2>1 DEF LeaveBroke
  <2>. QED
    BY <1>1, <2>2 DEF GiveUp, Work, Entering
<1>12. ASSUME \E u : Onward(w, u), work[w].at \in Settling  PROVE FALSE
  BY <1>12, OnwardFrame, IdleWork DEF Entering
<1>13. ASSUME Vacate(w) \/ Close(w)  PROVE FALSE
  BY <1>12, <1>13 DEF Vacate, Close, Settling
<1>14. ASSUME \E u \in Users : BookCashOut(w, u)  PROVE FALSE
  <2>1. work' = [work EXCEPT ![w].at = "credit", ![w].op = Len(ops')]
    BY <1>14 DEF BookCashOut
  <2>. QED
    BY <1>1, <2>1 DEF Work, Entering
<1>15. ASSUME Credit(w) \/ Depart(w)  PROVE FALSE
  BY <1>1, <1>15 DEF Credit, Depart, GiveUp, Work, Entering
<1>. QED
  BY <1>2, <1>3, <1>4, <1>5, <1>6, <1>7, <1>8, <1>9, <1>10, <1>11, <1>13, <1>14, <1>15
     DEF WorkStep

\* A handler's step keeps seats saved and players at one table.
LEMMA WorkStepSeats ==
  ASSUME TypeOK, Control, UndoPossible, SeatsSaved, SeatedOnce, NEW w \in Workers, WorkStep(w)
  PROVE  SeatsSaved' /\ SeatedOnce'
<1>. DEFINE u == work[w].user
            a == work[w].table
<1>1. /\ \A v \in Workers \ {w} : work'[v] = work[v]
      /\ \A v \in Workers \ {w} : work[v].at \in Joining /\ work[w].at \in Joining =>
           work[v].user # u
  BY WorkStepOrderly DEF Orderly, Frame, Control, Apart
<1>2. Entering \subseteq Joining /\ "sit" \in Joining /\ "sit" \in Entering
  BY DEF Entering, Joining
<1>3. /\ \A t \in Tables : memory[t].seated \subseteq disk[t].seated
      /\ \A b, c \in Tables : \A p \in Users : p \in disk[b].seated /\ p \in disk[c].seated => b = c
      /\ \A t \in Tables : disk[t].seated \subseteq Users /\ memory[t].seated \subseteq Users
  BY DEF SeatsSaved, SeatedOnce, TypeOK, Table
<1>4. ASSUME \A t \in Tables : /\ memory'[t].seated \subseteq disk'[t].seated
                              /\ disk'[t].seated \subseteq disk[t].seated
      PROVE  SeatsSaved' /\ SeatedOnce'
  <2>1. ASSUME NEW v \in Workers, work'[v].at \in Entering, NEW t \in Tables
        PROVE  work'[v].user \notin disk'[t].seated
    <3>1. CASE v = w
      BY <1>4, <2>1, <3>1, EnteringStep DEF SeatsSaved
    <3>2. CASE v # w
      BY <1>1, <1>4, <2>1, <3>2 DEF SeatsSaved
    <3>. QED
      BY <3>1, <3>2
  <2>. QED
    BY <1>3, <1>4, <2>1 DEF SeatsSaved, SeatedOnce
<1>5. CASE SitDown(w)
  <2>1. work[w].at = "sit"
    BY <1>5 DEF SitDown
  <2>2. \A t \in Tables : u \notin disk[t].seated
    BY <1>2, <2>1 DEF SeatsSaved
  <2>3. /\ a \in Tables
        /\ \A x \in Tables \ {a} : memory'[x] = memory[x] /\ disk'[x] = disk[x]
        /\ \/ UNCHANGED <<memory, disk>>
           \/ \E save \in Saving :
                /\ JoinMidHand \/ ~Playing(memory[a])
                /\ IF save.ok \/ Playing(memory[a])
                     THEN memory'[a].seated = memory[a].seated \cup {u}
                     ELSE memory'[a].seated = memory[a].seated
                /\ IF save.saved
                     THEN disk'[a].seated = memory[a].seated \cup {u}
                     ELSE disk'[a] = disk[a]
    BY <1>5, SitDownEffect
  <2>4. CASE UNCHANGED <<memory, disk>>
    BY <1>3, <1>4, <2>4
  <2>5. CASE \E save \in Saving :
               /\ JoinMidHand \/ ~Playing(memory[a])
               /\ IF save.ok \/ Playing(memory[a])
                    THEN memory'[a].seated = memory[a].seated \cup {u}
                    ELSE memory'[a].seated = memory[a].seated
               /\ IF save.saved
                    THEN disk'[a].seated = memory[a].seated \cup {u}
                    ELSE disk'[a] = disk[a]
    <3>1. PICK save \in Saving :
               /\ JoinMidHand \/ ~Playing(memory[a])
               /\ IF save.ok \/ Playing(memory[a])
                    THEN memory'[a].seated = memory[a].seated \cup {u}
                    ELSE memory'[a].seated = memory[a].seated
               /\ IF save.saved
                    THEN disk'[a].seated = memory[a].seated \cup {u}
                    ELSE disk'[a] = disk[a]
      BY <2>5
    <3>2. JoinMidHand => save.saved
      BY DEF Saving, UndoPossible
    <3>3. save.ok => save.saved
      BY SaveOutcome
    <3>4. CASE save.saved
      <4>1. /\ memory'[a].seated \subseteq memory[a].seated \cup {u}
            /\ disk'[a].seated = memory[a].seated \cup {u}
        BY <3>1, <3>4
      <4>2. \A t \in Tables : memory'[t].seated \subseteq disk'[t].seated
        BY <1>3, <2>3, <4>1
      <4>3. \A t \in Tables : disk'[t].seated \subseteq disk[t].seated \cup (IF t = a THEN {u} ELSE {})
        BY <1>3, <2>3, <4>1
      <4>4. \A b, c \in Tables : \A p \in Users :
              p \in disk'[b].seated /\ p \in disk'[c].seated => b = c
        BY <1>3, <2>2, <4>3
      <4>5. ASSUME NEW v \in Workers, work'[v].at \in Entering, NEW t \in Tables
            PROVE  work'[v].user \notin disk'[t].seated
        <5>1. CASE v = w
          BY <1>5, <4>5, <5>1, SitDownEffect DEF Entering
        <5>2. CASE v # w
          <6>1. work[v].at \in Entering /\ work'[v].user = work[v].user /\ work[v].user # u
            BY <1>1, <1>2, <2>1, <4>5, <5>2
          <6>2. work[v].user \notin disk[t].seated
            BY <6>1 DEF SeatsSaved
          <6>. QED
            BY <4>3, <6>1, <6>2
        <5>. QED
          BY <5>1, <5>2
      <4>. QED
        BY <4>2, <4>4, <4>5 DEF SeatsSaved, SeatedOnce
    <3>5. CASE ~save.saved
      <4>1. ~save.ok /\ ~Playing(memory[a])
        BY <3>1, <3>2, <3>3, <3>5
      <4>2. memory'[a].seated = memory[a].seated /\ disk'[a] = disk[a]
        BY <3>1, <3>5, <4>1
      <4>. QED
        BY <1>3, <1>4, <2>3, <4>2
    <3>. QED
      BY <3>4, <3>5
  <2>. QED
    BY <2>3, <2>4, <2>5
<1>6. ASSUME NEW p \in Users, NEW save \in Saving, LeaveAndSave(w, p, save), work[w].at \in Settling
      PROVE  SeatsSaved' /\ SeatedOnce'
  <2>1. /\ a \in Tables
        /\ memory'[a].seated = memory[a].seated \ {p}
        /\ disk'[a] = IF save.saved THEN memory'[a] ELSE disk[a]
        /\ \A x \in Tables \ {a} : memory'[x] = memory[x] /\ disk'[x] = disk[x]
    BY <1>6, LeaveEffect, ZenonT(60)
  <2>. QED
    BY <1>3, <1>4, <2>1
<1>7. CASE \E p \in Users : LeaveBroke(w, p)
  BY <1>6, <1>7 DEF LeaveBroke, Settling
<1>8. CASE Depart(w)
  <2>1. work[w].at = "leave" /\ \E save \in Saving : LeaveAndSave(w, ops[work[w].op].user, save)
    BY <1>8 DEF Depart
  <2>2. work[w].at \in Settling /\ ops[work[w].op].user \in Users
    BY <2>1, SettlingFacts, SMTT(60) DEF Settling
  <2>. QED
    BY <1>6, <2>1, <2>2
<1>9. CASE UNCHANGED <<memory, disk>>
  BY <1>3, <1>4, <1>9
<1>10. SitDown(w) \/ Depart(w) \/ (\E p \in Users : LeaveBroke(w, p)) \/ UNCHANGED <<memory, disk>>
  <2>1. ASSUME \/ \E p \in Players, t \in Tables : RequestJoin(w, p, t)
               \/ Scan(w) \/ Reserve(w) \/ Refuse(w)
               \/ \E n \in BuyIns : BookBuyIn(w, n)
               \/ Debit(w) \/ Refund(w) \/ FinishBuyIn(w) \/ Release(w)
        PROVE  UNCHANGED <<memory, disk>>
    BY <2>1, ZenonT(60) DEF RequestJoin, Scan, Reserve, Refuse, BookBuyIn, Debit, Refund,
                FinishBuyIn, Release
  <2>2. ASSUME \/ \E t \in Tables, leaving \in SUBSET Users : BeginCashOut(w, t, leaving)
               \/ StopPaying(w) \/ Vacate(w) \/ Credit(w) \/ Close(w)
               \/ \E p \in Users : BookCashOut(w, p)
        PROVE  UNCHANGED <<memory, disk>>
    BY <2>2 DEF BeginCashOut, StopPaying, Vacate, Credit, Close, BookCashOut
  <2>3. ASSUME \/ \E p \in Players, n \in Scenes[scene].adjustments : BookAdjustment(w, p, n)
               \/ Adjust(w)
        PROVE  UNCHANGED <<memory, disk>>
    BY <2>3 DEF BookAdjustment, Adjust
  <2>. QED
    BY <2>1, <2>2, <2>3, SMTT(60) DEF WorkStep
<1>. QED
  BY <1>5, <1>7, <1>8, <1>9, <1>10

\* So does every step.
LEMMA NextSeats ==
  ASSUME TypeOK, Control, UndoPossible, SeatsSaved, SeatedOnce, [Next]_vars
  PROVE  SeatsSaved' /\ SeatedOnce'
<1>1. /\ \A t \in Tables : memory[t].seated \subseteq disk[t].seated
      /\ \A b, c \in Tables : \A p \in Users : p \in disk[b].seated /\ p \in disk[c].seated => b = c
      /\ \A t \in Tables : disk[t].seated \subseteq Users /\ memory[t].seated \subseteq Users
  BY DEF SeatsSaved, SeatedOnce, TypeOK, Table
<1>2. ASSUME \A t \in Tables : /\ memory'[t].seated \subseteq disk'[t].seated
                              /\ disk'[t].seated \subseteq disk[t].seated,
             \A w \in Workers : work'[w] \in {work[w], Idle}
      PROVE  SeatsSaved' /\ SeatedOnce'
  <2>1. \A w \in Workers : work'[w].at \in Entering => work'[w] = work[w]
    BY <1>2, IdleWork DEF Entering
  <2>. QED
    BY <1>1, <1>2, <2>1 DEF SeatsSaved, SeatedOnce
<1>3. ASSUME NEW t \in Tables, memory'[t].seated = memory[t].seated,
             disk'[t] \in {memory'[t], disk[t]}, work' = work,
             \A x \in Tables \ {t} : memory'[x] = memory[x] /\ disk'[x] = disk[x]
      PROVE  SeatsSaved' /\ SeatedOnce'
  BY <1>1, <1>2, <1>3
<1>4. ASSUME NEW w \in Workers, WorkStep(w)  PROVE SeatsSaved' /\ SeatedOnce'
  BY <1>4, WorkStepSeats
<1>5. ASSUME NEW t \in Tables, Deal(t)  PROVE SeatsSaved' /\ SeatedOnce'
  <2>1. work' = work
    BY <1>5 DEF Deal, Played
  <2>. QED
    BY <1>3, <1>5, <2>1, DealControl
<1>6. ASSUME NEW t \in Tables, EndHand(t)  PROVE SeatsSaved' /\ SeatedOnce'
  <2>1. work' = work
    BY <1>6 DEF EndHand, Played
  <2>. QED
    BY <1>3, <1>6, <2>1, EndHandControl
<1>7. CASE (\E u \in Users : ReservationAges(u)) \/ UNCHANGED vars
  BY <1>1, <1>2, <1>7 DEF ReservationAges, vars
<1>8. CASE Restart
  <2>1. \A w \in Workers : work'[w] = Idle
    BY <1>8, RestartControl
  <2>2. memory' = disk /\ disk' = disk
    BY <1>8 DEF Restart
  <2>. QED
    BY <1>2, <2>1, <2>2
<1>. QED
  BY <1>4, <1>5, <1>6, <1>7, <1>8 DEF Next

\* SeatedOnce holds in every reachable state, in memory and in what is saved, where
\* a player whose table could not be saved can be made to leave again. Where he
\* sits down during a hand and the save fails, the game refuses to let him leave
\* (handleTableJoin ignores that), and the run cashier_two_tables shows him
\* at two tables.
THEOREM OneSeatPerPlayer == Spec => [](UndoPossible => SeatedOnce)
<1>1. Init => SeatsSaved /\ SeatedOnce
  <2>. SUFFICES ASSUME Init  PROVE SeatsSaved /\ SeatedOnce
    OBVIOUS
  <2>1. \A w \in Workers : work[w].at = "idle"
    BY IdleWork DEF Init
  <2>2. memory = disk /\ \A t \in Tables : disk[t].seated = SeatedAtFirst[t]
    BY DEF Init
  <2>3. \A t, o \in Tables : t # o => SeatedAtFirst[t] \cap SeatedAtFirst[o] = {}
    BY CashierAssumption DEF Init, SeatedAtFirst
  <2>4. SeatsSaved
    BY <2>1, <2>2 DEF SeatsSaved, Entering
  <2>. QED
    BY <2>2, <2>3, <2>4 DEF SeatedOnce
<1>2. /\ TypeOK /\ Control /\ (UndoPossible => SeatsSaved /\ SeatedOnce) /\ [Next]_vars
      => (UndoPossible' => SeatsSaved' /\ SeatedOnce')
  BY NextSeats, SceneFixed DEF UndoPossible, JoinMidHand, Faults
<1>. QED
  BY <1>1, <1>2, HandlersInOrder, PTL DEF Spec

-----------------------------------------------------------------------------
(* The ledger *)

\* The ledger's operations at a table, and what the table began with.
AtTable(held, place, t) == {i \in held : place[i] = t}

Stakes(t) == StartChips * Cardinality(SeatedAtFirst[t])

\* What New API and the tables hold, told from the operations that reached them.
Bank(paid) == SumOf(quota, Users) = Cardinality(Users) * Quota + CentsOf(paid)

Floor(tables, held, place) ==
  \A t \in Tables : SumOf(tables[t].chips, Users) = Stakes(t) - CentsOf(AtTable(held, place, t))

\* An operation that is not open is settled: an adjustment is made, and the cents of
\* any other have left the one side and reached the other, or neither.
Settled(i, place, paid, held, kept) ==
  /\ i \in held \cup kept => ops[i].kind # "manual" /\ place[i] \in Tables
  /\ i \notin Open =>
       IF ops[i].kind = "manual" THEN i \in paid /\ ops[i].status = "completed"
       ELSE (i \in paid <=> i \in held) /\ (i \in held <=> i \in kept)

\* What a handler has done about its operation, by the stage it is at.
Progress(w, place, paid, held, kept) ==
  LET k == work[w]  i == k.op
  IN  /\ k.at \in {"debit", "credit", "adjust"} => i \notin paid /\ i \notin held /\ i \notin kept
      /\ k.at \in {"sit", "leave"} => i \in paid /\ i \notin held /\ i \notin kept
      /\ k.at \in {"finish", "close"} => i \in paid /\ i \in held /\ i \in kept
      /\ k.at = "refund" => i \in paid /\ (ops[i].unsure \/ (i \notin held /\ i \notin kept))
      /\ k.at \in Booked \ {"adjust"} => place[i] = k.table

\* The ledger: where each operation belongs, which of them New API has paid, and which
\* are part of what a table holds in memory and as saved.
Ledger(place, paid, held, kept) ==
  /\ place \in [DOMAIN ops -> Tables \cup {Nobody}]
  /\ paid \subseteq DOMAIN ops /\ held \subseteq DOMAIN ops /\ kept \subseteq DOMAIN ops
  /\ Bank(paid) /\ Floor(memory, held, place) /\ Floor(disk, kept, place)
  /\ \A i \in DOMAIN ops : Settled(i, place, paid, held, kept)
  /\ \A w \in Workers : Progress(w, place, paid, held, kept)

Accounted == \E place, paid, held, kept : Ledger(place, paid, held, kept)

-----------------------------------------------------------------------------
(* Sums of operations *)

\* There are finitely many operations, each of some cents.
LEMMA OpsFinite ==
  ASSUME ops \in Seq(Operation)
  PROVE  IsFiniteSet(DOMAIN ops) /\ \A i \in DOMAIN ops : ops[i].cents \in Int
<1>1. DOMAIN ops = 1..Len(ops) /\ Len(ops) \in Nat
  OBVIOUS
<1>2. IsFiniteSet(1..Len(ops))
  BY <1>1, FS_Interval
<1>3. \A i \in DOMAIN ops : ops[i] \in Operation
  OBVIOUS
<1>. QED
  BY <1>1, <1>2, <1>3 DEF Operation

\* Each operation adds its cents.
LEMMA CentsAdd ==
  ASSUME ops \in Seq(Operation), NEW S \in SUBSET DOMAIN ops, NEW i \in DOMAIN ops, i \notin S
  PROVE  CentsOf(S \cup {i}) = CentsOf(S) + ops[i].cents
<1>. DEFINE f == [j \in DOMAIN ops |-> ops[j].cents]
<1>1. IsFiniteSet(S)
  BY OpsFinite, FS_Subset
<1>2. \A j \in S \cup {i} : f[j] \in Int
  BY OpsFinite
<1>3. f[i] = ops[i].cents
  OBVIOUS
<1>. HIDE DEF f
<1>4. SumOf(f, S \cup {i}) = SumOf(f, S) + f[i]
  BY <1>1, <1>2, SumAdd
<1>. QED
  BY <1>3, <1>4 DEF CentsOf, f

\* The cents of some operations are a number.
LEMMA CentsType ==
  ASSUME ops \in Seq(Operation), NEW S \in SUBSET DOMAIN ops
  PROVE  CentsOf(S) \in Int
<1>. DEFINE f == [j \in DOMAIN ops |-> ops[j].cents]
<1>1. IsFiniteSet(S)
  BY OpsFinite, FS_Subset
<1>2. \A j \in S : f[j] \in Int
  BY OpsFinite
<1>. HIDE DEF f
<1>3. SumOf(f, S) \in Int
  BY <1>1, <1>2, SumType
<1>. QED
  BY <1>3 DEF CentsOf, f

\* Their sum stays the same as long as the operations keep their cents.
LEMMA CentsSame ==
  ASSUME ops \in Seq(Operation), NEW S \in SUBSET DOMAIN ops,
         \A i \in DOMAIN ops : i \in DOMAIN ops' /\ ops'[i].cents = ops[i].cents
  PROVE  CentsOf(S)' = CentsOf(S)
<1>. DEFINE f == [j \in DOMAIN ops |-> ops[j].cents]
            g == [j \in DOMAIN ops' |-> ops'[j].cents]
<1>1. IsFiniteSet(S)
  BY OpsFinite, FS_Subset
<1>2. \A j \in S : f[j] = g[j]
  OBVIOUS
<1>. HIDE DEF f, g
<1>3. SumOf(f, S) = SumOf(g, S)
  BY <1>1, <1>2, SumSame
<1>. QED
  BY <1>3 DEF CentsOf, f, g

\* No operation is lost or altered in its cents, and the scene stays.
Lasting ==
  /\ scene' = scene
  /\ \A i \in DOMAIN ops : i \in DOMAIN ops' /\ ops'[i].cents = ops[i].cents

\* No quota changes.
LEMMA BankSame ==
  ASSUME TypeOK, Lasting, NEW paid \in SUBSET DOMAIN ops, Bank(paid), quota' = quota
  PROVE  Bank(paid)'
<1>1. CentsOf(paid)' = CentsOf(paid)
  BY CentsSame DEF Lasting, TypeOK
<1>. QED
  BY <1>1 DEF Bank

\* New API has moved an operation's cents.
LEMMA BankPaid ==
  ASSUME TypeOK, Lasting, NEW paid \in SUBSET DOMAIN ops, Bank(paid),
         NEW i \in DOMAIN ops, i \notin paid, NEW u \in Users,
         quota' = [quota EXCEPT ![u] = @ + ops[i].cents]
  PROVE  Bank(paid \cup {i})'
<1>. DEFINE S == paid \cup {i}
            c == ops[i].cents
            q == quota'
            a == SumOf(quota, Users)
            b == SumOf(q, Users)
            m == CentsOf(paid)
            n == CentsOf(S)
            z == Cardinality(Users) * Quota
<1>1. n' = n /\ n = m + c /\ c \in Int /\ m \in Int
  BY CentsSame, CentsAdd, CentsType, OpsFinite DEF Lasting, TypeOK
<1>2. \A y \in Users : quota[y] \in Int /\ q[y] \in Int
  BY <1>1 DEF TypeOK
<1>3. q[u] = quota[u] + c /\ \A y \in Users \ {u} : q[y] = quota[y]
  BY DEF TypeOK
<1>4. IsFiniteSet(Users)
  BY CashierAssumption
<1>5. b = a + q[u] - quota[u]
  <2>. HIDE DEF q
  <2>. QED
    BY <1>2, <1>3, <1>4, SumChange
<1>6. a \in Int
  BY <1>2, <1>4, SumType
<1>7. z \in Int
  BY <1>4, CashierAssumption, FS_CardinalityType
<1>8. a = z + m
  BY DEF Bank
<1>9. quota[u] \in Int /\ q[u] = quota[u] + c
  BY <1>2, <1>3
<1>. HIDE DEF c, q, a, b, m, n, z
<1>10. b = a + c
  BY <1>1, <1>5, <1>6, <1>9
<1>11. b = z + n
  BY <1>1, <1>7, <1>8, <1>10
<1>12. (SumOf(quota, Users))' = b
  BY DEF b, q
<1>. QED
  BY <1>1, <1>11, <1>12 DEF Bank, z, n, S

\* It has moved them back.
LEMMA BankRefunded ==
  ASSUME TypeOK, Lasting, NEW paid \in SUBSET DOMAIN ops, Bank(paid),
         NEW i \in paid, NEW u \in Users,
         quota' = [quota EXCEPT ![u] = @ - ops[i].cents]
  PROVE  Bank(paid \ {i})'
<1>. DEFINE S == paid \ {i}
            c == ops[i].cents
            q == quota'
            a == SumOf(quota, Users)
            b == SumOf(q, Users)
            m == CentsOf(paid)
            n == CentsOf(S)
            z == Cardinality(Users) * Quota
<1>1. n' = n /\ m = n + c /\ c \in Int /\ n \in Int
  <2>1. S \cup {i} = paid /\ i \notin S /\ S \in SUBSET DOMAIN ops /\ i \in DOMAIN ops
    OBVIOUS
  <2>. HIDE DEF S
  <2>2. CentsOf(S \cup {i}) = CentsOf(S) + ops[i].cents
    BY <2>1, CentsAdd DEF TypeOK
  <2>. QED
    BY <2>1, <2>2, CentsSame, CentsType, OpsFinite DEF Lasting, TypeOK
<1>2. \A y \in Users : quota[y] \in Int /\ q[y] \in Int
  BY <1>1 DEF TypeOK
<1>3. q[u] = quota[u] - c /\ \A y \in Users \ {u} : q[y] = quota[y]
  BY DEF TypeOK
<1>4. IsFiniteSet(Users)
  BY CashierAssumption
<1>5. b = a + q[u] - quota[u]
  <2>. HIDE DEF q
  <2>. QED
    BY <1>2, <1>3, <1>4, SumChange
<1>6. a \in Int
  BY <1>2, <1>4, SumType
<1>7. z \in Int
  BY <1>4, CashierAssumption, FS_CardinalityType
<1>8. a = z + m
  BY DEF Bank
<1>9. quota[u] \in Int /\ q[u] = quota[u] - c
  BY <1>2, <1>3
<1>. HIDE DEF c, q, a, b, m, n, z
<1>10. b = a - c
  BY <1>1, <1>5, <1>6, <1>9
<1>11. b = z + n
  BY <1>1, <1>7, <1>8, <1>10
<1>12. (SumOf(quota, Users))' = b
  BY DEF b, q
<1>. QED
  BY <1>1, <1>11, <1>12 DEF Bank, z, n, S

\* The same as Floor after a step, for tables whose players then have these chips.
FloorNext(after, held, place) ==
  \A t \in Tables :
    SumOf(after[t].chips, Users) = Stakes(t)' - CentsOf(AtTable(held, place, t))'

\* That says the same of the tables after the step.
LEMMA FloorIsNext ==
  ASSUME NEW held, NEW place
  PROVE  /\ FloorNext(memory', held, place) => Floor(memory, held, place)'
         /\ FloorNext(disk', held, place) => Floor(disk, held, place)'
BY DEF FloorNext, Floor

\* Nothing moves at a table.
LEMMA EvenSame ==
  ASSUME TypeOK, Lasting, NEW t \in Tables, NEW S \in SUBSET DOMAIN ops, NEW n,
         n = Stakes(t) - CentsOf(S)
  PROVE  n = Stakes(t)' - CentsOf(S)'
<1>1. CentsOf(S)' = CentsOf(S)
  BY CentsSame DEF Lasting, TypeOK
<1>2. Stakes(t)' = Stakes(t)
  BY DEF Stakes, SeatedAtFirst, Lasting
<1>. QED
  BY <1>1, <1>2

\* The cents of an operation reach a table as chips or leave it.
LEMMA EvenMoved ==
  ASSUME TypeOK, Lasting, NEW t \in Tables, NEW S \in SUBSET DOMAIN ops,
         NEW i \in DOMAIN ops, i \notin S,
         NEW chips \in [Users -> Nat], NEW u \in Users, NEW n \in Int,
         n = chips[u] - ops[i].cents,
         SumOf(chips, Users) = Stakes(t) - CentsOf(S)
  PROVE  SumOf([chips EXCEPT ![u] = n], Users) = Stakes(t)' - CentsOf(S \cup {i})'
<1>. DEFINE R == S \cup {i}
            c == ops[i].cents
            q == [chips EXCEPT ![u] = n]
            a == SumOf(chips, Users)
            b == SumOf(q, Users)
            m == CentsOf(S)
            r == CentsOf(R)
            z == Stakes(t)
<1>1. r' = r /\ r = m + c /\ c \in Int /\ m \in Int
  BY CentsSame, CentsAdd, CentsType, OpsFinite DEF Lasting, TypeOK
<1>2. \A y \in Users : chips[y] \in Int /\ q[y] \in Int
  OBVIOUS
<1>3. q[u] = n /\ \A y \in Users \ {u} : q[y] = chips[y]
  OBVIOUS
<1>4. IsFiniteSet(Users)
  BY CashierAssumption
<1>5. b = a + q[u] - chips[u]
  <2>. HIDE DEF q
  <2>. QED
    BY <1>2, <1>3, <1>4, SumChange
<1>6. a \in Int
  BY <1>2, <1>4, SumType
<1>7. z \in Int /\ z' = z
  <2>1. SeatedAtFirst[t] \subseteq Users
    BY CashierAssumption DEF TypeOK, SeatedAtFirst
  <2>2. Cardinality(SeatedAtFirst[t]) \in Nat
    BY <1>4, <2>1, FS_Subset, FS_CardinalityType
  <2>3. Stakes(t)' = Stakes(t)
    BY DEF Stakes, SeatedAtFirst, Lasting
  <2>. QED
    BY <2>2, <2>3, CashierAssumption DEF Stakes
<1>8. a = z - m
  OBVIOUS
<1>9. chips[u] \in Int /\ q[u] = chips[u] - c
  BY <1>2, <1>3
<1>. HIDE DEF c, q, a, b, m, r, z
<1>10. b = a - c
  BY <1>1, <1>5, <1>6, <1>9
<1>11. b = z - r
  BY <1>1, <1>7, <1>8, <1>10
<1>. QED
  BY <1>1, <1>7, <1>11 DEF b, q, r, R, z

\* Nothing moves at any table, as far as sums go.
LEMMA FloorSame ==
  ASSUME TypeOK, Lasting, NEW held \in SUBSET DOMAIN ops, NEW place, NEW next,
         \A i \in DOMAIN ops : next[i] = place[i],
         NEW before, NEW after, Floor(before, held, place),
         \A t \in Tables : SumOf(after[t].chips, Users) = SumOf(before[t].chips, Users)
  PROVE  FloorNext(after, held, next)
<1>. SUFFICES ASSUME NEW t \in Tables
     PROVE  SumOf(after[t].chips, Users) = Stakes(t)' - CentsOf(AtTable(held, next, t))'
  BY DEF FloorNext
<1>. DEFINE S == AtTable(held, place, t)
            n == SumOf(after[t].chips, Users)
<1>1. S = AtTable(held, next, t) /\ S \in SUBSET DOMAIN ops
  BY DEF AtTable
<1>2. n = Stakes(t) - CentsOf(S)
  BY DEF Floor
<1>. HIDE DEF S, n
<1>3. n = Stakes(t)' - CentsOf(S)'
  BY <1>1, <1>2, EvenSame
<1>. QED
  BY <1>1, <1>3 DEF n

\* The cents of an operation move between a table and its player's quota.
LEMMA FloorMoved ==
  ASSUME TypeOK, Lasting, NEW held \in SUBSET DOMAIN ops, NEW place,
         NEW i \in DOMAIN ops, i \notin held, NEW t \in Tables, place[i] = t,
         NEW before, NEW after, Floor(before, held, place),
         before[t].chips \in [Users -> Nat], NEW u \in Users, NEW n \in Int,
         n = before[t].chips[u] - ops[i].cents,
         after[t].chips = [before[t].chips EXCEPT ![u] = n],
         \A x \in Tables \ {t} : after[x].chips = before[x].chips
  PROVE  FloorNext(after, held \cup {i}, place)
<1>. SUFFICES ASSUME NEW x \in Tables
     PROVE  SumOf(after[x].chips, Users) = Stakes(x)' - CentsOf(AtTable(held \cup {i}, place, x))'
  BY DEF FloorNext
<1>. DEFINE S == AtTable(held, place, x)
            R == AtTable(held \cup {i}, place, x)
<1>1. S \in SUBSET DOMAIN ops /\ SumOf(before[x].chips, Users) = Stakes(x) - CentsOf(S)
  BY DEF AtTable, Floor
<1>2. CASE x = t
  <2>1. R = S \cup {i} /\ i \notin S
    BY <1>2 DEF AtTable
  <2>. DEFINE chips == before[t].chips
  <2>2. SumOf(chips, Users) = Stakes(t) - CentsOf(S)
    BY <1>1, <1>2
  <2>. HIDE DEF S, R, chips
  <2>3. SumOf([chips EXCEPT ![u] = n], Users) = Stakes(t)' - CentsOf(S \cup {i})'
    BY <1>1, <2>1, <2>2, EvenMoved DEF chips
  <2>. QED
    BY <1>2, <2>1, <2>3 DEF chips, R
<1>3. CASE x # t
  <2>1. R = S
    BY <1>3 DEF AtTable
  <2>. DEFINE m == SumOf(after[x].chips, Users)
  <2>2. m = Stakes(x) - CentsOf(S)
    BY <1>1, <1>3
  <2>. HIDE DEF S, R, m
  <2>3. m = Stakes(x)' - CentsOf(S)'
    BY <1>1, <2>2, EvenSame
  <2>. QED
    BY <2>1, <2>3 DEF m, R
<1>. QED
  BY <1>2, <1>3

\* Table t is saved: what the saved table holds is what the table does.
Onto(kept, held, place, t) == {i \in kept : place[i] # t} \cup AtTable(held, place, t)

\* So the saved tables hold what follows.
LEMMA FloorSaved ==
  ASSUME TypeOK, Lasting, NEW kept \in SUBSET DOMAIN ops, NEW held, NEW place, NEW next,
         \A i \in DOMAIN ops : next[i] = place[i],
         NEW t \in Tables, NEW before, NEW after, NEW saved,
         Floor(before, kept, place), FloorNext(saved, held, next),
         after[t].chips = saved[t].chips,
         \A x \in Tables \ {t} : after[x].chips = before[x].chips
  PROVE  FloorNext(after, Onto(kept, held, next, t), next)
<1>. SUFFICES ASSUME NEW x \in Tables
     PROVE  SumOf(after[x].chips, Users)
              = Stakes(x)' - CentsOf(AtTable(Onto(kept, held, next, t), next, x))'
  BY DEF FloorNext
<1>. DEFINE R == AtTable(Onto(kept, held, next, t), next, x)
<1>1. CASE x = t
  <2>1. R = AtTable(held, next, t)
    BY <1>1 DEF AtTable, Onto
  <2>. HIDE DEF R
  <2>2. SumOf(after[t].chips, Users) = Stakes(t)' - CentsOf(R)'
    BY <2>1 DEF FloorNext
  <2>. QED
    BY <1>1, <2>2 DEF R
<1>2. CASE x # t
  <2>. DEFINE S == AtTable(kept, place, x)
              m == SumOf(after[x].chips, Users)
  <2>1. R = S
    BY <1>2 DEF AtTable, Onto
  <2>2. S \in SUBSET DOMAIN ops /\ m = Stakes(x) - CentsOf(S)
    BY <1>2 DEF AtTable, Floor
  <2>. HIDE DEF S, R, m
  <2>3. m = Stakes(x)' - CentsOf(S)'
    BY <2>2, EvenSame
  <2>. QED
    BY <2>1, <2>3 DEF m, R
<1>. QED
  BY <1>1, <1>2

-----------------------------------------------------------------------------
(* What a step of a handler does to the ledger *)

\* Nothing about operation i is told differently, except that the table may have been
\* saved whose lock is held by w.
Undisturbed(w, i, place, held, kept, paid1, held1, kept1, paid) ==
  /\ i \in paid1 <=> i \in paid
  /\ i \in held1 <=> i \in held
  /\ \/ i \in kept1 <=> i \in kept
     \/ (i \in kept1 <=> i \in held) /\ place[i] \in Tables /\ lock[place[i]] = w

\* What a step of a handler has to show for the ledger to go on: that the sums are
\* right, that its own operation and any new one are settled or open, and that it
\* disturbs no other operation.
LEMMA LedgerStep ==
  ASSUME TypeOK, TypeOK', Control, NEW w \in Workers, Frame(w),
         NEW place, NEW paid, NEW held, NEW kept, Ledger(place, paid, held, kept),
         NEW place1 \in [DOMAIN ops' -> Tables \cup {Nobody}],
         NEW paid1 \in SUBSET DOMAIN ops', NEW held1 \in SUBSET DOMAIN ops',
         NEW kept1 \in SUBSET DOMAIN ops',
         Bank(paid1)', FloorNext(memory', held1, place1), FloorNext(disk', kept1, place1),
         \A i \in DOMAIN ops : place1[i] = place[i],
         \A i \in DOMAIN ops :
           \/ work[w].at \in Booked /\ i = work[w].op
           \/ Undisturbed(w, i, place, held, kept, paid1, held1, kept1, paid),
         \A i \in DOMAIN ops :
           work[w].at \in Booked /\ i = work[w].op => Settled(i, place1, paid1, held1, kept1)',
         \A i \in DOMAIN ops' \ DOMAIN ops : Settled(i, place1, paid1, held1, kept1)',
         Progress(w, place1, paid1, held1, kept1)'
  PROVE  Ledger(place1, paid1, held1, kept1)'
<1>1. Floor(memory, held1, place1)' /\ Floor(disk, kept1, place1)'
  BY FloorIsNext
<1>2. ASSUME NEW i \in DOMAIN ops, ~(work[w].at \in Booked /\ i = work[w].op)
      PROVE  /\ Undisturbed(w, i, place, held, kept, paid1, held1, kept1, paid)
             /\ i \in DOMAIN ops' /\ ops'[i] = ops[i]
             /\ Settled(i, place, paid, held, kept)
  BY <1>2 DEF Frame, Ledger
<1>3. ASSUME NEW i \in DOMAIN ops'  PROVE Settled(i, place1, paid1, held1, kept1)'
  <2>1. CASE i \in DOMAIN ops /\ ~(work[w].at \in Booked /\ i = work[w].op)
    <3>1. i \in Open' <=> i \in Open
      BY <1>2, <2>1 DEF Open
    <3>. QED
      BY <1>2, <2>1, <3>1 DEF Settled, Undisturbed
  <2>2. CASE i \notin DOMAIN ops
    <3>1. i \in DOMAIN ops' \ DOMAIN ops
      BY <2>2
    <3>. QED
      BY <3>1 DEF Settled
  <2>3. CASE i \in DOMAIN ops /\ work[w].at \in Booked /\ i = work[w].op
    BY <2>3 DEF Settled
  <2>. QED
    BY <2>1, <2>2, <2>3
<1>4. ASSUME NEW v \in Workers  PROVE Progress(v, place1, paid1, held1, kept1)'
  <2>1. CASE v = w
    BY <2>1
  <2>2. CASE v # w
    <3>. DEFINE k == work[v]  i == work[v].op
    <3>1. work'[v] = k /\ Doing(v) /\ Progress(v, place, paid, held, kept)
      BY <2>2 DEF Frame, Control, Ledger
    <3>2. CASE k.at \in Booked
      <4>1. i \in DOMAIN ops /\ ~(work[w].at \in Booked /\ i = work[w].op)
        BY <2>2, <3>1, <3>2 DEF Doing, Control, Apart
      <4>2. /\ Undisturbed(w, i, place, held, kept, paid1, held1, kept1, paid)
            /\ ops'[i] = ops[i] /\ place1[i] = place[i] /\ Settled(i, place, paid, held, kept)
        BY <1>2, <4>1
      <4>3. k.at # "adjust" => place[i] = k.table /\ k.table \in Tables /\ lock[k.table] = v
        BY <3>1, <3>2 DEF Doing, Progress, Booked, Settling
      <4>4. k.at = "adjust" => i \notin held /\ i \notin kept
        BY <3>1 DEF Progress
      <4>5. i \in kept1 <=> i \in kept
        BY <2>2, <4>2, <4>3, <4>4 DEF Undisturbed
      <4>. HIDE DEF k, i
      <4>6. (i \in paid1 <=> i \in paid) /\ (i \in held1 <=> i \in held)
        BY <4>2 DEF Undisturbed
      <4>. QED
        BY <3>1, <4>2, <4>5, <4>6 DEF Progress, k, i
    <3>3. CASE k.at \notin Booked
      BY <3>1, <3>3 DEF Progress, Booked, Buying
    <3>. QED
      BY <3>2, <3>3
  <2>. QED
    BY <2>1, <2>2
<1>. QED
  BY <1>1, <1>3, <1>4 DEF Ledger

\* A handler that is not busy with an operation has nothing to answer for.
LEMMA NoProgress ==
  ASSUME NEW w, work[w].at \notin Booked, NEW place, NEW paid, NEW held, NEW kept
  PROVE  Progress(w, place, paid, held, kept)
BY DEF Progress, Booked, Buying

\* No money moves.
LEMMA LedgerStill ==
  ASSUME TypeOK, TypeOK', Control, NEW w \in Workers, Frame(w), Lasting,
         NEW place, NEW paid, NEW held, NEW kept, Ledger(place, paid, held, kept),
         UNCHANGED <<quota, memory, disk>>, DOMAIN ops' = DOMAIN ops,
         \A i \in DOMAIN ops :
           work[w].at \in Booked /\ i = work[w].op => Settled(i, place, paid, held, kept)',
         Progress(w, place, paid, held, kept)'
  PROVE  Accounted'
<1>1. /\ place \in [DOMAIN ops -> Tables \cup {Nobody}]
      /\ paid \subseteq DOMAIN ops /\ held \subseteq DOMAIN ops /\ kept \subseteq DOMAIN ops
      /\ Bank(paid) /\ Floor(memory, held, place) /\ Floor(disk, kept, place)
  BY DEF Ledger
<1>2. Bank(paid)'
  BY <1>1, BankSame
<1>3. FloorNext(memory', held, place) /\ FloorNext(disk', kept, place)
  BY <1>1, FloorSame
<1>4. \A i \in DOMAIN ops : Undisturbed(w, i, place, held, kept, paid, held, kept, paid)
  BY DEF Undisturbed
<1>5. Ledger(place, paid, held, kept)'
  BY <1>1, <1>2, <1>3, <1>4, LedgerStep
<1>. QED
  BY <1>5 DEF Accounted

\* No money moves, and no operation is worked on.
LEMMA LedgerAside ==
  ASSUME TypeOK, Control, NEW w \in Workers, WorkStep(w), Accounted, scene' = scene,
         UNCHANGED <<quota, memory, disk, ops>>,
         work[w].at \notin Booked, work'[w].at \notin Booked
  PROVE  Accounted'
<1>1. TypeOK' /\ Frame(w)
  BY WorkStepOrderly DEF Orderly
<1>2. PICK place, paid, held, kept : Ledger(place, paid, held, kept)
  BY DEF Accounted
<1>3. Progress(w, place, paid, held, kept)'
  BY NoProgress DEF Progress, Booked, Buying
<1>4. Lasting
  BY DEF Lasting
<1>. QED
  BY <1>1, <1>2, <1>3, <1>4, LedgerStill

\* An operation is booked: nobody has done anything about it yet.
LEMMA LedgerBooked ==
  ASSUME TypeOK, Control, NEW w \in Workers, WorkStep(w), Accounted, scene' = scene,
         UNCHANGED <<quota, memory, disk>>, work[w].at \notin Booked,
         NEW o \in Operation, ops' = Append(ops, o), o.status = "pending",
         work'[w].at \in {"debit", "credit", "adjust"}, work'[w].op = Len(ops) + 1,
         work'[w].at # "adjust" => work'[w].table \in Tables
  PROVE  Accounted'
<1>1. TypeOK' /\ Frame(w)
  BY WorkStepOrderly DEF Orderly
<1>2. PICK place, paid, held, kept : Ledger(place, paid, held, kept)
  BY DEF Accounted
<1>n. PICK n : n = Len(ops) + 1
  OBVIOUS
<1>p. PICK p \in Tables \cup {Nobody} :
        p = IF work'[w].at = "adjust" THEN Nobody ELSE work'[w].table
  OBVIOUS
<1>3. /\ DOMAIN ops' = DOMAIN ops \cup {n} /\ n \notin DOMAIN ops
      /\ \A i \in DOMAIN ops : ops'[i] = ops[i]
      /\ ops'[n] = o
  BY <1>n, AppendEntry DEF TypeOK
<1>4. /\ place \in [DOMAIN ops -> Tables \cup {Nobody}]
      /\ paid \subseteq DOMAIN ops /\ held \subseteq DOMAIN ops /\ kept \subseteq DOMAIN ops
      /\ Bank(paid) /\ Floor(memory, held, place) /\ Floor(disk, kept, place)
  BY <1>2 DEF Ledger
<1>6. PICK next \in [DOMAIN ops' -> Tables \cup {Nobody}] :
        next[n] = p /\ \A i \in DOMAIN ops : next[i] = place[i]
  <2>. DEFINE f == [i \in DOMAIN ops' |-> IF i = n THEN p ELSE place[i]]
  <2>1. /\ f \in [DOMAIN ops' -> Tables \cup {Nobody}] /\ f[n] = p
        /\ \A i \in DOMAIN ops : f[i] = place[i]
    BY <1>3, <1>4
  <2>. QED
    BY <2>1
<1>7. Lasting
  BY <1>3 DEF Lasting
<1>8. Bank(paid)'
  BY <1>4, <1>7, BankSame
<1>9. FloorNext(memory', held, next) /\ FloorNext(disk', kept, next)
  BY <1>4, <1>6, <1>7, FloorSame
<1>10. \A i \in DOMAIN ops : Undisturbed(w, i, place, held, kept, paid, held, kept, paid)
  BY DEF Undisturbed
<1>11. n \notin paid /\ n \notin held /\ n \notin kept
  BY <1>3, <1>4
<1>12. Settled(n, next, paid, held, kept)'
  BY <1>3, <1>11 DEF Settled, Open
<1>13. Progress(w, next, paid, held, kept)'
  BY <1>n, <1>p, <1>6, <1>11 DEF Progress
<1>14. \A i \in DOMAIN ops' \ DOMAIN ops : Settled(i, next, paid, held, kept)'
  BY <1>3, <1>12
<1>15. paid \in SUBSET DOMAIN ops' /\ held \in SUBSET DOMAIN ops' /\ kept \in SUBSET DOMAIN ops'
  BY <1>3, <1>4
<1>16. Ledger(next, paid, held, kept)'
  BY <1>1, <1>2, <1>6, <1>8, <1>9, <1>10, <1>13, <1>14, <1>15, LedgerStep
<1>. QED
  BY <1>16 DEF Accounted

\* New API is asked to move an operation's cents to or from the user's quota; no table
\* changes. paid1 is what New API has moved after that.
LEMMA LedgerAdjusted ==
  ASSUME TypeOK, Control, NEW w \in Workers, WorkStep(w), scene' = scene,
         UNCHANGED <<memory, disk>>, work[w].at \in Booked,
         NEW place, NEW paid, NEW held, NEW kept, Ledger(place, paid, held, kept),
         NEW i, i = work[w].op, Entry(ops', i),
         NEW paid1 \in SUBSET DOMAIN ops, paid1 \ {i} = paid \ {i}, Bank(paid1)',
         Settled(i, place, paid1, held, kept)', Progress(w, place, paid1, held, kept)'
  PROVE  Accounted'
<1>1. TypeOK' /\ Frame(w)
  BY WorkStepOrderly DEF Orderly
<1>2. /\ place \in [DOMAIN ops -> Tables \cup {Nobody}]
      /\ paid \subseteq DOMAIN ops /\ held \subseteq DOMAIN ops /\ kept \subseteq DOMAIN ops
      /\ Bank(paid) /\ Floor(memory, held, place) /\ Floor(disk, kept, place)
  BY DEF Ledger
<1>3. Lasting /\ DOMAIN ops' = DOMAIN ops
  BY DEF Lasting, Entry
<1>4. FloorNext(memory', held, place) /\ FloorNext(disk', kept, place)
  BY <1>2, <1>3, FloorSame
<1>5. \A j \in DOMAIN ops :
        j = i \/ Undisturbed(w, j, place, held, kept, paid1, held, kept, paid)
  BY DEF Undisturbed
<1>6. Ledger(place, paid1, held, kept)'
  BY <1>1, <1>2, <1>3, <1>4, <1>5, LedgerStep
<1>. QED
  BY <1>6 DEF Accounted

\* Steps that move no money and touch no operation.
LEMMA AsideSteps ==
  ASSUME TypeOK, Control, NEW w \in Workers, WorkStep(w), Accounted, scene' = scene,
         \/ \E u \in Players, t \in Tables : RequestJoin(w, u, t)
         \/ Scan(w) \/ Reserve(w) \/ Refuse(w) \/ Release(w)
         \/ \E t \in Tables, leaving \in SUBSET Users : BeginCashOut(w, t, leaving)
         \/ StopPaying(w) \/ Vacate(w)
  PROVE  Accounted'
<1>1. Booked = {"debit", "sit", "refund", "finish", "credit", "leave", "close", "adjust"}
  BY DEF Booked, Buying
<1>2. work[w] \in Work /\ work \in [Workers -> Work] /\ Idle.at = "idle"
  BY IdleWork DEF TypeOK
<1>3. UNCHANGED <<quota, memory, disk, ops>>
  BY DEF RequestJoin, Scan, Reserve, Refuse, Release, BeginCashOut, StopPaying, Vacate
<1>4. work[w].at \notin Booked
  BY <1>1, <1>2 DEF RequestJoin, Scan, Reserve, Refuse, Release, BeginCashOut, StopPaying, Vacate
<1>5. work'[w].at \notin Booked
  <2>1. CASE \/ \E u \in Players, t \in Tables : RequestJoin(w, u, t)
             \/ \E t \in Tables, leaving \in SUBSET Users : BeginCashOut(w, t, leaving)
    BY <1>1, <1>2, <2>1, ZenonT(60) DEF RequestJoin, BeginCashOut, Idle
  <2>2. CASE Scan(w) \/ Reserve(w) \/ Refuse(w)
    BY <1>1, <1>2, <2>2 DEF Scan, Reserve, Refuse, Work
  <2>3. CASE Release(w) \/ StopPaying(w)
    BY <1>1, <1>2, <2>3 DEF Release, StopPaying, GiveUp
  <2>4. CASE Vacate(w)
    <3>1. work[w].at \in Settling /\ \E u : Onward(w, u)
      BY <2>4 DEF Vacate, Settling
    <3>. QED
      BY <1>1, <1>2, <3>1, OnwardFrame
  <2>. QED
    BY <2>1, <2>2, <2>3, <2>4
<1>. QED
  BY <1>3, <1>4, <1>5, LedgerAside

\* A purchase is booked.
LEMMA BookBuyInAccounted ==
  ASSUME TypeOK, Control, NEW w \in Workers, WorkStep(w), Accounted, scene' = scene,
         NEW n \in BuyIns, BookBuyIn(w, n)
  PROVE  Accounted'
<1>. DEFINE o == [user |-> work[w].user, kind |-> "buy_in", cents |-> -n,
                  status |-> "pending", doubtful |-> FALSE, unsure |-> FALSE]
<1>1. work[w].at = "enter" /\ Doing(w) /\ work[w] \in Work
  BY DEF BookBuyIn, Control, TypeOK
<1>2. work[w].user \in Users /\ work[w].table \in Tables
  BY <1>1 DEF Doing, Joining, TypeOK
<1>3. -n \in Int
  BY CashierAssumption
<1>4. ops' = Append(ops, o) /\ o \in Operation /\ o.status = "pending"
  BY <1>2, <1>3 DEF BookBuyIn, Operation, Statuses
<1>. HIDE DEF o
<1>5. Len(ops') = Len(ops) + 1
  BY <1>4, AppendEntry DEF TypeOK
<1>6. work'[w].at = "debit" /\ work'[w].op = Len(ops) + 1 /\ work'[w].table = work[w].table
  <2>1. work' = [work EXCEPT ![w].at = "debit", ![w].op = Len(ops')]
    BY DEF BookBuyIn
  <2>. QED
    BY <1>1, <1>5, <2>1 DEF Work, TypeOK
<1>7. UNCHANGED <<quota, memory, disk>>
  BY DEF BookBuyIn
<1>8. work[w].at \notin Booked
  BY <1>1 DEF Booked, Buying
<1>. QED
  BY <1>2, <1>4, <1>6, <1>7, <1>8, LedgerBooked

\* A cash-out is booked.
LEMMA BookCashOutAccounted ==
  ASSUME TypeOK, Control, NEW w \in Workers, WorkStep(w), Accounted, scene' = scene,
         NEW u \in Users, BookCashOut(w, u)
  PROVE  Accounted'
<1>. DEFINE o == [user |-> u, kind |-> "cash_out", cents |-> memory[work[w].table].chips[u],
                  status |-> "pending", doubtful |-> FALSE, unsure |-> FALSE]
<1>1. work[w].at = "pay" /\ work[w].at \in Settling
  BY DEF BookCashOut, Settling
<1>2. memory[work[w].table].chips[u] \in Int /\ work[w].table \in Tables /\ work[w] \in Work
  BY <1>1, SettlingFacts DEF Table
<1>3. ops' = Append(ops, o) /\ o \in Operation /\ o.status = "pending"
  BY <1>2 DEF BookCashOut, Operation, Statuses
<1>. HIDE DEF o
<1>4. Len(ops') = Len(ops) + 1
  BY <1>3, AppendEntry DEF TypeOK
<1>5. work'[w].at = "credit" /\ work'[w].op = Len(ops) + 1 /\ work'[w].table = work[w].table
  <2>1. work' = [work EXCEPT ![w].at = "credit", ![w].op = Len(ops')]
    BY DEF BookCashOut
  <2>. QED
    BY <1>2, <1>4, <2>1 DEF Work, TypeOK
<1>6. UNCHANGED <<quota, memory, disk>>
  BY DEF BookCashOut
<1>7. work[w].at \notin Booked
  BY <1>1 DEF Booked, Buying
<1>. QED
  BY <1>2, <1>3, <1>5, <1>6, <1>7, LedgerBooked

\* A manual adjustment is booked.
LEMMA BookAdjustmentAccounted ==
  ASSUME TypeOK, Control, NEW w \in Workers, WorkStep(w), Accounted, scene' = scene,
         NEW u \in Players, NEW n \in Scenes[scene].adjustments, BookAdjustment(w, u, n)
  PROVE  Accounted'
<1>. DEFINE o == [user |-> u, kind |-> "manual", cents |-> n,
                  status |-> "pending", doubtful |-> FALSE, unsure |-> FALSE]
<1>1. u \in Users /\ n \in Int
  BY CashierAssumption DEF TypeOK, Players
<1>2. ops' = Append(ops, o) /\ o \in Operation /\ o.status = "pending"
  BY <1>1 DEF BookAdjustment, Operation, Statuses
<1>. HIDE DEF o
<1>3. Len(ops') = Len(ops) + 1
  BY <1>2, AppendEntry DEF TypeOK
<1>4. work'[w].at = "adjust" /\ work'[w].op = Len(ops) + 1
  <2>1. work' = [work EXCEPT ![w] = [Idle EXCEPT !.at = "adjust", !.op = Len(ops')]]
    BY DEF BookAdjustment
  <2>. QED
    BY <1>3, <2>1 DEF Idle, TypeOK
<1>5. UNCHANGED <<quota, memory, disk>>
  BY DEF BookAdjustment
<1>6. work[w].at \notin Booked
  BY IdleWork DEF BookAdjustment, Booked, Buying
<1>. QED
  BY <1>2, <1>4, <1>5, <1>6, LedgerBooked

\* What is known of a handler busy with an operation, and of the ledger's view of it.
LEMMA BookedFacts ==
  ASSUME TypeOK, Control, NEW w \in Workers, work[w].at \in Booked
  PROVE  LET i == work[w].op
         IN  /\ work[w] \in Work /\ work \in [Workers -> Work]
             /\ i \in DOMAIN ops /\ ops[i] \in Operation /\ ops[i].status = "pending"
             /\ ops[i].user \in Users /\ ops \in Seq(Operation)
             /\ work[w].at \in Buying => ops[i].kind = "buy_in" /\ ops[i].user = work[w].user
             /\ work[w].at \in {"credit", "leave", "close"} => ops[i].kind = "cash_out"
             /\ work[w].at = "adjust" => ops[i].kind = "manual"
<1>1. Doing(w) /\ ops \in Seq(Operation) /\ work[w] \in Work /\ work \in [Workers -> Work]
  BY DEF Control, TypeOK
<1>2. work[w].op \in DOMAIN ops /\ ops[work[w].op] \in Operation
  BY <1>1 DEF Doing
<1>. QED
  BY <1>1, <1>2 DEF Doing, Operation

\* The purchase of a player who sits down is completed, or left as it is.
LEMMA FinishAccounted ==
  ASSUME TypeOK, Control, NEW w \in Workers, WorkStep(w), Accounted, scene' = scene, FinishBuyIn(w)
  PROVE  Accounted'
<1>1. TypeOK' /\ Frame(w)
  BY WorkStepOrderly DEF Orderly
<1>2. PICK place, paid, held, kept : Ledger(place, paid, held, kept)
  BY DEF Accounted
<1>3. PICK i : i = work[w].op
  OBVIOUS
<1>4. work[w].at = "finish" /\ work[w].at \in Booked /\ work[w].at \in Buying
  BY DEF FinishBuyIn, Booked, Buying
<1>5. i \in DOMAIN ops /\ ops[i].kind = "buy_in" /\ ops \in Seq(Operation) /\ work \in [Workers -> Work]
  BY <1>3, <1>4, BookedFacts
<1>6. ops' \in Note(ops, i, "completed") /\ UNCHANGED <<quota, memory, disk>> /\ work'[w] = Idle
  BY <1>3, <1>5 DEF FinishBuyIn
<1>7. Entry(ops', i)
  BY <1>5, <1>6, NoteEntry DEF Statuses
<1>8. i \in paid /\ i \in held /\ i \in kept
  BY <1>2, <1>3, <1>4 DEF Ledger, Progress
<1>9. Settled(i, place, paid, held, kept)'
  BY <1>2, <1>5, <1>7, <1>8 DEF Ledger, Settled, Entry
<1>10. Progress(w, place, paid, held, kept)'
  BY <1>6, IdleWork DEF Progress, Booked, Buying
<1>11. Lasting /\ DOMAIN ops' = DOMAIN ops
  BY <1>7 DEF Lasting, Entry
<1>12. \A j \in DOMAIN ops :
         work[w].at \in Booked /\ j = work[w].op => Settled(j, place, paid, held, kept)'
  BY <1>3, <1>9
<1>. QED
  BY <1>1, <1>2, <1>6, <1>10, <1>11, <1>12, LedgerStill

\* So is the cash-out of one who left.
LEMMA CloseAccounted ==
  ASSUME TypeOK, Control, NEW w \in Workers, WorkStep(w), Accounted, scene' = scene, Close(w)
  PROVE  Accounted'
<1>1. TypeOK' /\ Frame(w)
  BY WorkStepOrderly DEF Orderly
<1>2. PICK place, paid, held, kept : Ledger(place, paid, held, kept)
  BY DEF Accounted
<1>3. PICK i : i = work[w].op
  OBVIOUS
<1>4. work[w].at = "close" /\ work[w].at \in Booked /\ work[w].at \in Settling
  BY DEF Close, Booked, Settling
<1>5. i \in DOMAIN ops /\ ops[i].kind = "cash_out" /\ ops \in Seq(Operation)
  BY <1>3, <1>4, BookedFacts
<1>6. Entry(ops', i)
  <2>1. ops' = ops \/ ops' = [ops EXCEPT ![i].status = "completed"]
    BY <1>3 DEF Close
  <2>2. ops[i] \in Operation /\ ops[i].status \in Statuses
    <3>1. ops[i] \in Operation
      BY <1>5
    <3>. QED
      BY <3>1 DEF Operation
  <2>3. CASE ops' = ops
    BY <1>5, <2>2, <2>3 DEF Entry
  <2>4. CASE ops' = [ops EXCEPT ![i].status = "completed"]
    <3>. DEFINE o == [ops[i] EXCEPT !.status = "completed"]
    <3>1. /\ o \in Operation /\ o.user = ops[i].user /\ o.kind = ops[i].kind
          /\ o.cents = ops[i].cents /\ o.status \in Statuses
      BY <2>2 DEF Operation, Statuses
    <3>2. ops' = [ops EXCEPT ![i] = o]
      BY <2>4
    <3>. HIDE DEF o
    <3>. QED
      BY <1>5, <3>1, <3>2 DEF Entry
  <2>. QED
    BY <2>1, <2>3, <2>4
<1>7. UNCHANGED <<quota, memory, disk>>
  BY DEF Close
<1>8. i \in paid /\ i \in held /\ i \in kept
  BY <1>2, <1>3, <1>4 DEF Ledger, Progress
<1>9. Settled(i, place, paid, held, kept)'
  BY <1>2, <1>5, <1>6, <1>8 DEF Ledger, Settled, Entry
<1>10. Progress(w, place, paid, held, kept)'
  <2>1. work'[w] = Idle \/ work'[w].at = "pay"
    BY <1>4, OnwardFrame DEF Close
  <2>. QED
    BY <2>1, IdleWork DEF Progress, Booked, Buying
<1>11. Lasting /\ DOMAIN ops' = DOMAIN ops
  BY <1>6 DEF Lasting, Entry
<1>12. \A j \in DOMAIN ops :
         work[w].at \in Booked /\ j = work[w].op => Settled(j, place, paid, held, kept)'
  BY <1>3, <1>9
<1>. QED
  BY <1>1, <1>2, <1>7, <1>10, <1>11, <1>12, LedgerStill

\* What the entry of a call to New API says when nothing changes in the book.
LEMMA SameEntry ==
  ASSUME ops \in Seq(Operation), NEW i \in DOMAIN ops, ops' = ops
  PROVE  Entry(ops', i)
<1>1. ops[i] \in Operation
  OBVIOUS
<1>. QED
  BY <1>1 DEF Entry, Operation

\* New API moves an operation's cents to the user's quota, or does not: by that, what
\* it has moved grows by the operation.
LEMMA BankCalled ==
  ASSUME TypeOK, Lasting, NEW paid \in SUBSET DOMAIN ops, Bank(paid),
         NEW i \in DOMAIN ops, i \notin paid, NEW u \in Users, NEW applied \in BOOLEAN,
         quota' = IF applied THEN [quota EXCEPT ![u] = @ + ops[i].cents] ELSE quota
  PROVE  \E paid1 \in SUBSET DOMAIN ops :
           Bank(paid1)' /\ paid1 \ {i} = paid \ {i} /\ (i \in paid1 <=> applied)
<1>1. CASE applied
  <2>1. Bank(paid \cup {i})'
    BY <1>1, BankPaid
  <2>. QED
    BY <1>1, <2>1
<1>2. CASE ~applied
  <2>1. Bank(paid)'
    BY <1>2, BankSame
  <2>. QED
    BY <1>2, <2>1
<1>. QED
  BY <1>1, <1>2

\* The same for moving them back.
LEMMA BankRecalled ==
  ASSUME TypeOK, Lasting, NEW paid \in SUBSET DOMAIN ops, Bank(paid),
         NEW i \in paid, NEW u \in Users, NEW applied \in BOOLEAN,
         quota' = IF applied THEN [quota EXCEPT ![u] = @ - ops[i].cents] ELSE quota
  PROVE  \E paid1 \in SUBSET DOMAIN ops :
           Bank(paid1)' /\ paid1 \ {i} = paid \ {i} /\ (i \in paid1 <=> ~applied)
<1>1. CASE applied
  <2>1. Bank(paid \ {i})'
    BY <1>1, BankRefunded
  <2>. QED
    BY <1>1, <2>1
<1>2. CASE ~applied
  <2>1. Bank(paid)'
    BY <1>2, BankSame
  <2>. QED
    BY <1>2, <2>1
<1>. QED
  BY <1>1, <1>2

\* New API is told to debit: it has moved the cents if it says so, and the operation
\* is open if it says nothing.
LEMMA DebitAccounted ==
  ASSUME TypeOK, Control, NEW w \in Workers, WorkStep(w), Accounted, scene' = scene, Debit(w)
  PROVE  Accounted'
<1>1. PICK place, paid, held, kept : Ledger(place, paid, held, kept)
  BY DEF Accounted
<1>2. PICK i : i = work[w].op
  OBVIOUS
<1>3. work[w].at = "debit" /\ work[w].at \in Booked /\ work[w].at \in Buying
  BY DEF Debit, Booked, Buying
<1>4. /\ i \in DOMAIN ops /\ ops[i].kind = "buy_in" /\ ops[i].status = "pending"
      /\ ops[i].user = work[w].user /\ ops[i].user \in Users
      /\ ops \in Seq(Operation) /\ work[w] \in Work /\ work \in [Workers -> Work]
  BY <1>2, <1>3, BookedFacts
<1>5. i \notin paid /\ i \notin held /\ i \notin kept /\ place[i] = work[w].table
  BY <1>1, <1>2, <1>3 DEF Ledger, Progress
<1>6. PICK adjust \in Adjusting :
        /\ quota' = IF adjust.applied
                      THEN [quota EXCEPT ![work[w].user] = @ + ops[i].cents] ELSE quota
        /\ \/ adjust.ok /\ work' = [work EXCEPT ![w].at = "sit"] /\ UNCHANGED <<ops, lock>>
           \/ /\ ~adjust.ok
              /\ ops' \in Note(Marked(ops, i, adjust), i, "manual_review")
              /\ work' = [work EXCEPT ![w].at = "release"]
  BY <1>2 DEF Debit
<1>7. adjust.applied \in BOOLEAN /\ adjust.ok \in BOOLEAN /\ (adjust.ok => adjust.applied)
  BY AdjustOutcome
<1>8. UNCHANGED <<memory, disk>>
  BY DEF Debit
<1>9. /\ Entry(ops', i) /\ ops'[i].status \in {"pending", "manual_review"}
      /\ adjust.ok => ops' = ops /\ work'[w].at = "sit" /\ work'[w].op = i /\ work'[w].table = work[w].table
      /\ ~adjust.ok => work'[w].at = "release"
  <2>1. CASE adjust.ok
    BY <1>2, <1>4, <1>6, <2>1, SameEntry DEF Work
  <2>2. CASE ~adjust.ok
    <3>1. Entry(ops', i) /\ ops'[i].status \in {"pending", "manual_review"}
      BY <1>4, <1>6, <2>2, MarkedEntry DEF Statuses
    <3>. QED
      BY <1>4, <1>6, <2>2, <3>1 DEF Work
  <2>. QED
    BY <2>1, <2>2
<1>10. Lasting /\ DOMAIN ops' = DOMAIN ops /\ ops'[i].kind = "buy_in"
  BY <1>4, <1>9 DEF Lasting, Entry
<1>11. PICK paid1 \in SUBSET DOMAIN ops :
         Bank(paid1)' /\ paid1 \ {i} = paid \ {i} /\ (i \in paid1 <=> adjust.applied)
  <2>1. paid \in SUBSET DOMAIN ops /\ Bank(paid)
    BY <1>1 DEF Ledger
  <2>2. PICK u \in Users : u = work[w].user
    BY <1>4
  <2>3. PICK applied \in BOOLEAN : applied = adjust.applied
    BY <1>7
  <2>4. quota' = IF applied THEN [quota EXCEPT ![u] = @ + ops[i].cents] ELSE quota
    BY <1>6, <2>2, <2>3
  <2>. QED
    BY <1>4, <1>5, <1>10, <2>1, <2>3, <2>4, BankCalled
<1>12. Settled(i, place, paid1, held, kept)'
  BY <1>4, <1>5, <1>9, <1>10 DEF Settled, Open
<1>13. Progress(w, place, paid1, held, kept)'
  <2>1. CASE adjust.ok
    BY <1>5, <1>7, <1>9, <1>11, <2>1 DEF Progress
  <2>2. CASE ~adjust.ok
    BY <1>9, <2>2 DEF Progress, Booked, Buying
  <2>. QED
    BY <2>1, <2>2
<1>. QED
  BY <1>1, <1>2, <1>3, <1>8, <1>9, <1>11, <1>12, <1>13, LedgerAdjusted

\* It is told to credit.
LEMMA CreditAccounted ==
  ASSUME TypeOK, Control, NEW w \in Workers, WorkStep(w), Accounted, scene' = scene, Credit(w)
  PROVE  Accounted'
<1>1. PICK place, paid, held, kept : Ledger(place, paid, held, kept)
  BY DEF Accounted
<1>2. PICK i : i = work[w].op
  OBVIOUS
<1>3. work[w].at = "credit" /\ work[w].at \in Booked
  BY DEF Credit, Booked
<1>4. /\ i \in DOMAIN ops /\ ops[i].kind = "cash_out" /\ ops[i].status = "pending"
      /\ ops[i].user \in Users
      /\ ops \in Seq(Operation) /\ work[w] \in Work /\ work \in [Workers -> Work]
  BY <1>2, <1>3, BookedFacts
<1>5. i \notin paid /\ i \notin held /\ i \notin kept /\ place[i] = work[w].table
  BY <1>1, <1>2, <1>3 DEF Ledger, Progress
<1>6. PICK adjust \in Adjusting :
        /\ quota' = IF adjust.applied
                      THEN [quota EXCEPT ![ops[i].user] = @ + ops[i].cents] ELSE quota
        /\ \/ adjust.ok /\ work' = [work EXCEPT ![w].at = "leave"] /\ UNCHANGED <<ops, lock>>
           \/ /\ ~adjust.ok
              /\ ops' \in Note(Marked(ops, i, adjust), i, "manual_review")
              /\ work' = [work EXCEPT ![w] = Idle]
  BY <1>2 DEF Credit, GiveUp
<1>7. adjust.applied \in BOOLEAN /\ adjust.ok \in BOOLEAN /\ (adjust.ok => adjust.applied)
  BY AdjustOutcome
<1>8. UNCHANGED <<memory, disk>>
  BY DEF Credit
<1>9. /\ Entry(ops', i) /\ ops'[i].status \in {"pending", "manual_review"}
      /\ adjust.ok => ops' = ops /\ work'[w].at = "leave" /\ work'[w].op = i /\ work'[w].table = work[w].table
      /\ ~adjust.ok => work'[w].at = "idle"
  <2>1. CASE adjust.ok
    BY <1>2, <1>4, <1>6, <2>1, SameEntry DEF Work
  <2>2. CASE ~adjust.ok
    <3>1. Entry(ops', i) /\ ops'[i].status \in {"pending", "manual_review"}
      BY <1>4, <1>6, <2>2, MarkedEntry DEF Statuses
    <3>. QED
      BY <1>4, <1>6, <2>2, <3>1, IdleWork
  <2>. QED
    BY <2>1, <2>2
<1>10. Lasting /\ DOMAIN ops' = DOMAIN ops /\ ops'[i].kind = "cash_out"
  BY <1>4, <1>9 DEF Lasting, Entry
<1>11. PICK paid1 \in SUBSET DOMAIN ops :
         Bank(paid1)' /\ paid1 \ {i} = paid \ {i} /\ (i \in paid1 <=> adjust.applied)
  <2>1. paid \in SUBSET DOMAIN ops /\ Bank(paid)
    BY <1>1 DEF Ledger
  <2>2. PICK u \in Users : u = ops[i].user
    BY <1>4
  <2>3. PICK applied \in BOOLEAN : applied = adjust.applied
    BY <1>7
  <2>4. quota' = IF applied THEN [quota EXCEPT ![u] = @ + ops[i].cents] ELSE quota
    BY <1>6, <2>2, <2>3
  <2>. QED
    BY <1>4, <1>5, <1>10, <2>1, <2>3, <2>4, BankCalled
<1>12. Settled(i, place, paid1, held, kept)'
  BY <1>4, <1>5, <1>9, <1>10 DEF Settled, Open
<1>13. Progress(w, place, paid1, held, kept)'
  <2>1. CASE adjust.ok
    BY <1>5, <1>7, <1>9, <1>11, <2>1 DEF Progress
  <2>2. CASE ~adjust.ok
    BY <1>9, <2>2 DEF Progress, Booked, Buying
  <2>. QED
    BY <2>1, <2>2
<1>. QED
  BY <1>1, <1>2, <1>3, <1>8, <1>9, <1>11, <1>12, <1>13, LedgerAdjusted

\* A refund that New API confirms leaves the operation compensated: its cents are at no
\* table either, unless the save of the table had no clear answer.
LEMMA RefundAccounted ==
  ASSUME TypeOK, Control, NEW w \in Workers, WorkStep(w), Accounted, scene' = scene, Refund(w)
  PROVE  Accounted'
<1>1. PICK place, paid, held, kept : Ledger(place, paid, held, kept)
  BY DEF Accounted
<1>2. PICK i : i = work[w].op
  OBVIOUS
<1>3. work[w].at = "refund" /\ work[w].at \in Booked /\ work[w].at \in Buying
  BY DEF Refund, Booked, Buying
<1>4. /\ i \in DOMAIN ops /\ ops[i].kind = "buy_in" /\ ops[i].status = "pending"
      /\ ops[i].user = work[w].user /\ ops[i].user \in Users
      /\ ops \in Seq(Operation) /\ work[w] \in Work /\ work \in [Workers -> Work]
  BY <1>2, <1>3, BookedFacts
<1>5. i \in paid /\ (ops[i].unsure \/ (i \notin held /\ i \notin kept))
  BY <1>1, <1>2, <1>3 DEF Ledger, Progress
<1>6. PICK adjust \in Adjusting :
        /\ quota' = IF adjust.applied
                      THEN [quota EXCEPT ![work[w].user] = @ - ops[i].cents] ELSE quota
        /\ ops' \in Note(Marked(ops, i, adjust), i,
                         IF adjust.ok THEN "compensated" ELSE "manual_review")
  BY <1>2 DEF Refund
<1>7. adjust.applied \in BOOLEAN /\ adjust.ok \in BOOLEAN /\ (adjust.ok => adjust.applied)
  BY AdjustOutcome
<1>8. UNCHANGED <<memory, disk>> /\ work'[w].at = "release"
  BY <1>4 DEF Refund, Work
<1>9. /\ Entry(ops', i) /\ ops'[i].unsure = ops[i].unsure
      /\ ~adjust.ok => ops'[i].status \in {"pending", "manual_review"}
  <2>. DEFINE status == IF adjust.ok THEN "compensated" ELSE "manual_review"
  <2>1. status \in Statuses
    BY DEF Statuses
  <2>2. ops' \in Note(Marked(ops, i, adjust), i, status)
    BY <1>6
  <2>3. ~adjust.ok => status = "manual_review"
    OBVIOUS
  <2>. HIDE DEF status
  <2>. QED
    BY <1>4, <2>1, <2>2, <2>3, MarkedEntry
<1>10. Lasting /\ DOMAIN ops' = DOMAIN ops /\ ops'[i].kind = "buy_in"
  BY <1>4, <1>9 DEF Lasting, Entry
<1>11. PICK paid1 \in SUBSET DOMAIN ops :
         Bank(paid1)' /\ paid1 \ {i} = paid \ {i} /\ (i \in paid1 <=> ~adjust.applied)
  <2>1. paid \in SUBSET DOMAIN ops /\ Bank(paid)
    BY <1>1 DEF Ledger
  <2>2. PICK u \in Users : u = work[w].user
    BY <1>4
  <2>3. PICK applied \in BOOLEAN : applied = adjust.applied
    BY <1>7
  <2>4. quota' = IF applied THEN [quota EXCEPT ![u] = @ - ops[i].cents] ELSE quota
    BY <1>6, <2>2, <2>3
  <2>. QED
    BY <1>4, <1>5, <1>10, <2>1, <2>3, <2>4, BankRecalled
<1>12. Settled(i, place, paid1, held, kept)'
  <2>1. i \in Open' \/ (i \notin paid1 /\ i \notin held /\ i \notin kept)
    BY <1>4, <1>5, <1>7, <1>9, <1>10, <1>11 DEF Open
  <2>. QED
    BY <1>1, <1>4, <1>10, <2>1 DEF Ledger, Settled
<1>13. Progress(w, place, paid1, held, kept)'
  BY <1>8 DEF Progress, Booked, Buying
<1>. QED
  BY <1>1, <1>2, <1>3, <1>8, <1>9, <1>11, <1>12, <1>13, LedgerAdjusted

\* It is told to adjust a balance.
LEMMA AdjustAccounted ==
  ASSUME TypeOK, Control, NEW w \in Workers, WorkStep(w), Accounted, scene' = scene, Adjust(w)
  PROVE  Accounted'
<1>1. PICK place, paid, held, kept : Ledger(place, paid, held, kept)
  BY DEF Accounted
<1>2. PICK i : i = work[w].op
  OBVIOUS
<1>3. work[w].at = "adjust" /\ work[w].at \in Booked
  BY DEF Adjust, Booked
<1>4. /\ i \in DOMAIN ops /\ ops[i].kind = "manual" /\ ops[i].status = "pending"
      /\ ops[i].user \in Users
      /\ ops \in Seq(Operation) /\ work[w] \in Work /\ work \in [Workers -> Work]
  BY <1>2, <1>3, BookedFacts
<1>5. i \notin paid /\ i \notin held /\ i \notin kept
  BY <1>1, <1>2, <1>3 DEF Ledger, Progress
<1>6. PICK adjust \in Adjusting :
        /\ quota' = IF adjust.applied
                      THEN [quota EXCEPT ![ops[i].user] = @ + ops[i].cents] ELSE quota
        /\ ops' \in Note(Marked(ops, i, adjust), i,
                         IF adjust.ok THEN "completed" ELSE "manual_review")
  BY <1>2 DEF Adjust
<1>7. adjust.applied \in BOOLEAN /\ adjust.ok \in BOOLEAN /\ (adjust.ok => adjust.applied)
  BY AdjustOutcome
<1>8. UNCHANGED <<memory, disk>> /\ work'[w].at = "idle"
  BY <1>4, IdleWork DEF Adjust
<1>9. /\ Entry(ops', i)
      /\ ops'[i].status \in {"pending", "manual_review"} \/ (adjust.ok /\ ops'[i].status = "completed")
  <2>. DEFINE status == IF adjust.ok THEN "completed" ELSE "manual_review"
  <2>1. status \in Statuses
    BY DEF Statuses
  <2>2. ops' \in Note(Marked(ops, i, adjust), i, status)
    BY <1>6
  <2>3. status = "manual_review" \/ (adjust.ok /\ status = "completed")
    OBVIOUS
  <2>. HIDE DEF status
  <2>4. Entry(ops', i) /\ ops'[i].status \in {ops[i].status, status}
    BY <1>4, <2>1, <2>2, MarkedEntry
  <2>. QED
    BY <1>4, <2>3, <2>4
<1>10. Lasting /\ DOMAIN ops' = DOMAIN ops /\ ops'[i].kind = "manual"
  BY <1>4, <1>9 DEF Lasting, Entry
<1>11. PICK paid1 \in SUBSET DOMAIN ops :
         Bank(paid1)' /\ paid1 \ {i} = paid \ {i} /\ (i \in paid1 <=> adjust.applied)
  <2>1. paid \in SUBSET DOMAIN ops /\ Bank(paid)
    BY <1>1 DEF Ledger
  <2>2. PICK u \in Users : u = ops[i].user
    BY <1>4
  <2>3. PICK applied \in BOOLEAN : applied = adjust.applied
    BY <1>7
  <2>4. quota' = IF applied THEN [quota EXCEPT ![u] = @ + ops[i].cents] ELSE quota
    BY <1>6, <2>2, <2>3
  <2>. QED
    BY <1>4, <1>5, <1>10, <2>1, <2>3, <2>4, BankCalled
<1>12. Settled(i, place, paid1, held, kept)'
  <2>1. i \in Open' \/ (i \in paid1 /\ ops'[i].status = "completed")
    BY <1>4, <1>7, <1>9, <1>10, <1>11 DEF Open
  <2>. QED
    BY <1>4, <1>5, <1>10, <2>1 DEF Settled
<1>13. Progress(w, place, paid1, held, kept)'
  BY <1>8 DEF Progress, Booked, Buying
<1>. QED
  BY <1>1, <1>2, <1>3, <1>8, <1>9, <1>11, <1>12, <1>13, LedgerAdjusted

\* What is said of an operation when the table it belongs to is saved, or not: as for
\* what is held, or as before; other tables' operations are left alone.
LEMMA OntoUndisturbed ==
  ASSUME NEW w, NEW t \in Tables, lock[t] = w, NEW place, NEW paid, NEW held, NEW kept,
         NEW held1, NEW kept1, NEW i, held1 \ {i} = held \ {i},
         kept1 \in {kept, Onto(kept, held1, place, t)}, NEW j, j # i
  PROVE  Undisturbed(w, j, place, held, kept, paid, held1, kept1, paid)
<1>1. j \in held1 <=> j \in held
  OBVIOUS
<1>2. \/ j \in kept1 <=> j \in kept
      \/ (j \in kept1 <=> j \in held) /\ place[j] = t
  BY <1>1 DEF Onto, AtTable
<1>. QED
  BY <1>1, <1>2 DEF Undisturbed

\* The player sits down with what he was debited, in memory and in what is saved, or
\* in neither; only a save without a clear answer leaves the two apart.
LEMMA SitDownAccounted ==
  ASSUME TypeOK, Control, UndoPossible, NEW w \in Workers, WorkStep(w), Accounted,
         scene' = scene, SitDown(w)
  PROVE  Accounted'
<1>1. TypeOK' /\ Frame(w)
  BY WorkStepOrderly DEF Orderly
<1>2. PICK place, paid, held, kept : Ledger(place, paid, held, kept)
  BY DEF Accounted
<1>3. PICK i, u, t : i = work[w].op /\ u = work[w].user /\ t = work[w].table
  OBVIOUS
<1>4. work[w].at = "sit" /\ work[w].at \in Booked /\ work[w].at \in Buying
  BY DEF SitDown, Booked, Buying
<1>5. /\ i \in DOMAIN ops /\ ops[i].kind = "buy_in" /\ ops[i].status = "pending"
      /\ ops[i] \in Operation /\ ops \in Seq(Operation)
      /\ work[w] \in Work /\ work \in [Workers -> Work]
  BY <1>3, <1>4, BookedFacts
<1>6. i \in paid /\ i \notin held /\ i \notin kept /\ place[i] = t
  BY <1>2, <1>3, <1>4 DEF Ledger, Progress
<1>7. t \in Tables /\ lock[t] = w /\ u \in Users
  BY <1>3, <1>4, BuyingFacts
<1>8. /\ place \in [DOMAIN ops -> Tables \cup {Nobody}]
      /\ paid \subseteq DOMAIN ops /\ held \subseteq DOMAIN ops /\ kept \subseteq DOMAIN ops
      /\ Bank(paid) /\ Floor(memory, held, place) /\ Floor(disk, kept, place)
  BY <1>2 DEF Ledger
<1>9. work'[w].op = i /\ work'[w].table = t
  BY <1>3, <1>5 DEF SitDown, Work
<1>. DEFINE m == memory[t]
            n == -ops[i].cents
<1>10. /\ \A x \in Tables \ {t} : memory'[x] = memory[x] /\ disk'[x] = disk[x]
       /\ n \in Nat
       /\ \/ UNCHANGED <<memory, disk, ops>> /\ work'[w].at = "refund"
          \/ \E save \in Saving :
               /\ work'[w].at = IF save.ok THEN "finish" ELSE "refund"
               /\ u \notin m.seated /\ (JoinMidHand \/ ~Playing(m))
               /\ ops' = [ops EXCEPT ![i].unsure = save.saved /\ ~save.ok]
               /\ IF save.ok \/ Playing(m)
                    THEN /\ memory'[t].seated = m.seated \cup {u}
                         /\ memory'[t].chips = [m.chips EXCEPT ![u] = n]
                    ELSE memory'[t].seated = m.seated /\ memory'[t].chips = m.chips
               /\ IF save.saved
                    THEN /\ disk'[t].seated = m.seated \cup {u}
                         /\ disk'[t].chips = [m.chips EXCEPT ![u] = n]
                    ELSE disk'[t] = disk[t]
  BY <1>3, SitDownEffect
<1>11. quota' = quota
  BY DEF SitDown
<1>12. CASE UNCHANGED <<memory, disk, ops>> /\ work'[w].at = "refund"
  <2>1. Settled(i, place, paid, held, kept)'
    BY <1>5, <1>6, <1>12 DEF Settled, Open
  <2>2. Progress(w, place, paid, held, kept)'
    BY <1>6, <1>9, <1>12 DEF Progress
  <2>3. Lasting /\ DOMAIN ops' = DOMAIN ops
    BY <1>12 DEF Lasting
  <2>4. \A j \in DOMAIN ops :
          work[w].at \in Booked /\ j = work[w].op => Settled(j, place, paid, held, kept)'
    BY <1>3, <2>1
  <2>. QED
    BY <1>1, <1>2, <1>11, <1>12, <2>2, <2>3, <2>4, LedgerStill
<1>13. ASSUME NEW save \in Saving,
              work'[w].at = IF save.ok THEN "finish" ELSE "refund",
              u \notin m.seated, JoinMidHand \/ ~Playing(m),
              ops' = [ops EXCEPT ![i].unsure = save.saved /\ ~save.ok],
              IF save.ok \/ Playing(m)
                THEN memory'[t].chips = [m.chips EXCEPT ![u] = n]
                ELSE memory'[t].chips = m.chips,
              IF save.saved
                THEN disk'[t].chips = [m.chips EXCEPT ![u] = n]
                ELSE disk'[t] = disk[t]
       PROVE  Accounted'
  <2>1. save.saved \in BOOLEAN /\ save.ok \in BOOLEAN /\ (save.ok => save.saved)
    BY SaveOutcome
  <2>2. ~save.saved => ~save.ok /\ ~Playing(m)
    BY <1>13, <2>1 DEF Saving, UndoPossible
  <2>3. /\ Entry(ops', i) /\ ops'[i].status = "pending"
        /\ ops'[i].unsure = (save.saved /\ ~save.ok)
    <3>. DEFINE b == save.saved /\ ~save.ok
                o == [ops[i] EXCEPT !.unsure = b]
    <3>1. b \in BOOLEAN
      BY <2>1
    <3>2. ops' = [ops EXCEPT ![i] = o]
      BY <1>13
    <3>. HIDE DEF b
    <3>3. /\ o \in Operation /\ o.user = ops[i].user /\ o.kind = ops[i].kind
          /\ o.cents = ops[i].cents /\ o.status = "pending" /\ o.unsure = b
      BY <1>5, <3>1 DEF Operation
    <3>. HIDE DEF o
    <3>4. Entry(ops', i) /\ ops'[i] = o
      BY <1>5, <3>2, <3>3 DEF Entry, Statuses
    <3>. QED
      BY <3>3, <3>4 DEF b
  <2>4. Lasting /\ DOMAIN ops' = DOMAIN ops
    BY <2>3 DEF Lasting, Entry
  <2>5. /\ memory[t].chips \in [Users -> Nat] /\ n \in Int
        /\ n = memory[t].chips[u] - ops[i].cents
    <3>1. memory[t] \in Table /\ Seated(memory[t])
      BY <1>7 DEF TypeOK, Control, Holding
    <3>2. memory[t].chips[u] = 0 /\ memory[t].chips \in [Users -> Nat]
      BY <1>7, <1>13, <3>1 DEF Table, Seated
    <3>3. ops[i].cents \in Int
      BY <1>5 DEF Operation
    <3>. QED
      BY <3>2, <3>3
  <2>. DEFINE more == held \cup {i}
  <2>6. PICK sat : /\ sat[t].chips = [memory[t].chips EXCEPT ![u] = n]
                   /\ \A x \in Tables \ {t} : sat[x].chips = memory[x].chips
    <3>. DEFINE f == [x \in Tables |-> IF x = t THEN [chips |-> [memory[t].chips EXCEPT ![u] = n]]
                                                ELSE memory[x]]
    <3>1. f[t].chips = [memory[t].chips EXCEPT ![u] = n] /\ \A x \in Tables \ {t} : f[x].chips = memory[x].chips
      BY <1>7
    <3>. QED
      BY <3>1
  <2>. HIDE DEF n
  <2>7. FloorNext(sat, more, place)
    <3>1. /\ held \in SUBSET DOMAIN ops /\ Floor(memory, held, place)
          /\ i \in DOMAIN ops /\ i \notin held /\ place[i] = t
      BY <1>5, <1>6, <1>8
    <3>2. FloorNext(sat, held \cup {i}, place)
      BY <1>7, <2>4, <2>5, <2>6, <3>1, FloorMoved
    <3>. QED
      BY <3>2
  <2>8. PICK held1 \in {held, more} :
          /\ FloorNext(memory', held1, place)
          /\ i \in held1 <=> save.ok \/ Playing(m)
    <3>1. CASE save.ok \/ Playing(m)
      <4>1. \A x \in Tables : memory'[x].chips = sat[x].chips
        BY <1>10, <1>13, <2>6, <3>1
      <4>2. FloorNext(memory', more, place)
        BY <2>7, <4>1 DEF FloorNext
      <4>. QED
        BY <3>1, <4>2
    <3>2. CASE ~(save.ok \/ Playing(m))
      <4>1. \A x \in Tables : memory'[x].chips = memory[x].chips
        BY <1>10, <1>13, <3>2
      <4>2. FloorNext(memory', held, place)
        BY <1>8, <2>4, <4>1, FloorSame
      <4>. QED
        BY <1>6, <3>2, <4>2
    <3>. QED
      BY <3>1, <3>2
  <2>9. PICK kept1 \in {kept, Onto(kept, more, place, t)} :
          /\ FloorNext(disk', kept1, place)
          /\ i \in kept1 <=> save.saved
    <3>1. CASE save.saved
      <4>1. disk'[t].chips = sat[t].chips
        BY <1>13, <2>6, <3>1
      <4>2. \A x \in Tables \ {t} : disk'[x].chips = disk[x].chips
        BY <1>10
      <4>3. FloorNext(disk', Onto(kept, more, place, t), place)
        BY <1>7, <1>8, <2>4, <2>7, <4>1, <4>2, FloorSaved
      <4>4. i \in Onto(kept, more, place, t)
        BY <1>6 DEF Onto, AtTable
      <4>. QED
        BY <3>1, <4>3, <4>4
    <3>2. CASE ~save.saved
      <4>1. \A x \in Tables : disk'[x].chips = disk[x].chips
        BY <1>10, <1>13, <3>2
      <4>2. FloorNext(disk', kept, place)
        BY <1>8, <2>4, <4>1, FloorSame
      <4>. QED
        BY <1>6, <3>2, <4>2
    <3>. QED
      BY <3>1, <3>2
  <2>10. Bank(paid)'
    BY <1>8, <1>11, <2>4, BankSame
  <2>11. held1 \in SUBSET DOMAIN ops' /\ kept1 \in SUBSET DOMAIN ops' /\ more \ {i} = held \ {i}
    BY <1>5, <1>8, <2>4 DEF Onto, AtTable
  <2>12. ASSUME NEW j \in DOMAIN ops, j # i
         PROVE  Undisturbed(w, j, place, held, kept, paid, held1, kept1, paid)
    <3>1. Undisturbed(w, j, place, held, kept, paid, more, kept1, paid)
      <4>. HIDE DEF more
      <4>. QED
        BY <1>7, <2>11, <2>12, OntoUndisturbed
    <3>. QED
      BY <2>12, <3>1 DEF Undisturbed
  <2>13. Settled(i, place, paid, held1, kept1)'
    <3>1. ops'[i].kind = "buy_in" /\ i \in Open'
      BY <1>5, <2>3, <2>4 DEF Entry, Open
    <3>. QED
      BY <1>6, <1>7, <3>1 DEF Settled
  <2>14. Progress(w, place, paid, held1, kept1)'
    <3>1. CASE save.ok
      BY <1>6, <1>9, <1>13, <2>1, <2>8, <2>9, <3>1 DEF Progress
    <3>2. CASE ~save.ok
      <4>1. ops'[i].unsure \/ (i \notin held1 /\ i \notin kept1)
        BY <2>1, <2>2, <2>3, <2>8, <2>9, <3>2
      <4>. QED
        BY <1>6, <1>9, <1>13, <3>2, <4>1 DEF Progress
    <3>. QED
      BY <3>1, <3>2
  <2>15. Ledger(place, paid, held1, kept1)'
    <3>1. \A j \in DOMAIN ops :
            \/ work[w].at \in Booked /\ j = work[w].op
            \/ Undisturbed(w, j, place, held, kept, paid, held1, kept1, paid)
      BY <1>3, <1>4, <2>12
    <3>2. \A j \in DOMAIN ops :
            work[w].at \in Booked /\ j = work[w].op => Settled(j, place, paid, held1, kept1)'
      BY <1>3, <2>13
    <3>3. place \in [DOMAIN ops' -> Tables \cup {Nobody}] /\ paid \in SUBSET DOMAIN ops'
      BY <1>8, <2>4
    <3>. HIDE DEF more
    <3>. QED
      BY <1>1, <1>2, <2>4, <2>8, <2>9, <2>10, <2>11, <2>14, <3>1, <3>2, <3>3, LedgerStep
  <2>. QED
    BY <2>15 DEF Accounted
<1>. QED
  BY <1>10, <1>12, <1>13

\* A player without chips takes none along.
LEMMA LeaveBrokeAccounted ==
  ASSUME TypeOK, Control, NEW w \in Workers, WorkStep(w), Accounted, scene' = scene,
         NEW p \in Users, LeaveBroke(w, p)
  PROVE  Accounted'
<1>1. TypeOK' /\ Frame(w)
  BY WorkStepOrderly DEF Orderly
<1>2. PICK place, paid, held, kept : Ledger(place, paid, held, kept)
  BY DEF Accounted
<1>3. PICK t : t = work[w].table
  OBVIOUS
<1>4. work[w].at = "pay" /\ work[w].at \notin Booked /\ work[w].at \in Settling
  BY DEF LeaveBroke, Booked, Buying, Settling
<1>5. t \in Tables /\ lock[t] = w /\ memory[t].chips[p] = 0 /\ memory[t].chips \in [Users -> Nat]
  <2>1. t \in Tables /\ lock[t] = w /\ memory[t] \in Table
    BY <1>3, <1>4, SettlingFacts
  <2>. QED
    BY <1>3, <2>1 DEF LeaveBroke, Table
<1>6. PICK save \in Saving :
        LeaveAndSave(w, p, save) /\ (work' = [work EXCEPT ![w].at = "vacate", ![w].user = p] \/ GiveUp(w))
  BY DEF LeaveBroke
<1>7. UNCHANGED <<quota, ops>>
  BY DEF LeaveBroke
<1>8. /\ memory'[t].chips = [memory[t].chips EXCEPT ![p] = 0]
      /\ disk'[t] = IF save.saved THEN memory'[t] ELSE disk[t]
      /\ \A x \in Tables \ {t} : memory'[x] = memory[x] /\ disk'[x] = disk[x]
  BY <1>3, <1>4, <1>6, LeaveEffect
<1>9. /\ place \in [DOMAIN ops -> Tables \cup {Nobody}]
      /\ paid \subseteq DOMAIN ops /\ held \subseteq DOMAIN ops /\ kept \subseteq DOMAIN ops
      /\ Bank(paid) /\ Floor(memory, held, place) /\ Floor(disk, kept, place)
  BY <1>2 DEF Ledger
<1>10. Lasting
  BY <1>7 DEF Lasting
<1>11. FloorNext(memory', held, place)
  <2>1. \A x \in Tables : memory'[x].chips = memory[x].chips
    BY <1>5, <1>8
  <2>. QED
    BY <1>9, <1>10, <2>1, FloorSame
<1>12. PICK kept1 \in {kept, Onto(kept, held, place, t)} : FloorNext(disk', kept1, place)
  <2>1. CASE save.saved
    <3>1. disk'[t].chips = memory'[t].chips /\ \A x \in Tables \ {t} : disk'[x].chips = disk[x].chips
      BY <1>8, <2>1
    <3>2. FloorNext(disk', Onto(kept, held, place, t), place)
      BY <1>5, <1>9, <1>10, <1>11, <3>1, FloorSaved
    <3>. QED
      BY <3>2
  <2>2. CASE ~save.saved
    <3>1. \A x \in Tables : disk'[x].chips = disk[x].chips
      BY <1>8, <2>2
    <3>2. FloorNext(disk', kept, place)
      BY <1>9, <1>10, <3>1, FloorSame
    <3>. QED
      BY <3>2
  <2>. QED
    BY <2>1, <2>2
<1>13. Bank(paid)'
  BY <1>7, <1>9, <1>10, BankSame
<1>14. kept1 \in SUBSET DOMAIN ops
  BY <1>9 DEF Onto, AtTable
<1>15. \A j \in DOMAIN ops : Undisturbed(w, j, place, held, kept, paid, held, kept1, paid)
  BY <1>5 DEF Undisturbed, Onto, AtTable
<1>16. Progress(w, place, paid, held, kept1)'
  <2>1. work[w] \in Work /\ work \in [Workers -> Work]
    BY DEF TypeOK
  <2>2. work'[w].at \in {"vacate", "idle"}
    BY <1>6, <2>1, IdleWork DEF GiveUp, Work
  <2>. QED
    BY <2>2 DEF Progress, Booked, Buying
<1>17. Ledger(place, paid, held, kept1)'
  BY <1>1, <1>2, <1>4, <1>7, <1>9, <1>11, <1>12, <1>13, <1>14, <1>15, <1>16, LedgerStep
<1>. QED
  BY <1>17 DEF Accounted

\* The player leaves with the chips New API has been told to credit.
LEMMA DepartAccounted ==
  ASSUME TypeOK, Control, NEW w \in Workers, WorkStep(w), Accounted, scene' = scene, Depart(w)
  PROVE  Accounted'
<1>1. TypeOK' /\ Frame(w)
  BY WorkStepOrderly DEF Orderly
<1>2. PICK place, paid, held, kept : Ledger(place, paid, held, kept)
  BY DEF Accounted
<1>3. PICK i, t, p : i = work[w].op /\ t = work[w].table /\ p = ops[i].user
  OBVIOUS
<1>4. work[w].at = "leave" /\ work[w].at \in Booked /\ work[w].at \in Settling
  BY DEF Depart, Booked, Settling
<1>5. /\ i \in DOMAIN ops /\ ops[i].kind = "cash_out" /\ ops[i].status = "pending"
      /\ ops[i] \in Operation /\ ops \in Seq(Operation) /\ p \in Users
      /\ work[w] \in Work /\ work \in [Workers -> Work]
  BY <1>3, <1>4, BookedFacts
<1>6. i \in paid /\ i \notin held /\ i \notin kept /\ place[i] = t
  BY <1>2, <1>3, <1>4 DEF Ledger, Progress
<1>7. /\ t \in Tables /\ lock[t] = w /\ memory[t].chips \in [Users -> Nat]
      /\ memory[t].chips[p] = ops[i].cents
  <2>1. t \in Tables /\ lock[t] = w /\ memory[t] \in Table
    BY <1>3, <1>4, SettlingFacts
  <2>2. Doing(w)
    BY DEF Control
  <2>. QED
    BY <1>3, <1>4, <2>1, <2>2 DEF Doing, Table
<1>8. PICK save \in Saving :
        /\ LeaveAndSave(w, p, save)
        /\ \/ save.ok /\ work' = [work EXCEPT ![w].at = "close"] /\ ops' = ops
           \/ ~save.ok /\ ops' \in Note(ops, i, "manual_review") /\ work' = [work EXCEPT ![w] = Idle]
  BY <1>3 DEF Depart, GiveUp
<1>9. quota' = quota
  BY DEF Depart
<1>10. /\ memory'[t].chips = [memory[t].chips EXCEPT ![p] = 0]
       /\ disk'[t] = IF save.saved THEN memory'[t] ELSE disk[t]
       /\ \A x \in Tables \ {t} : memory'[x] = memory[x] /\ disk'[x] = disk[x]
  BY <1>3, <1>4, <1>5, <1>8, LeaveEffect
<1>11. save.saved \in BOOLEAN /\ save.ok \in BOOLEAN /\ (save.ok => save.saved)
  BY SaveOutcome
<1>12. /\ Entry(ops', i) /\ ops'[i].status \in {"pending", "manual_review"}
       /\ IF save.ok THEN work'[w].at = "close" /\ work'[w].op = i /\ work'[w].table = t
                     ELSE work'[w].at = "idle"
  <2>1. CASE save.ok
    BY <1>3, <1>5, <1>8, <2>1, SameEntry DEF Work
  <2>2. CASE ~save.ok
    <3>1. Entry(ops', i) /\ ops'[i].status \in {"pending", "manual_review"}
      BY <1>5, <1>8, <2>2, NoteEntry DEF Statuses
    <3>. QED
      BY <1>5, <1>8, <2>2, <3>1, IdleWork
  <2>. QED
    BY <2>1, <2>2
<1>13. /\ place \in [DOMAIN ops -> Tables \cup {Nobody}]
       /\ paid \subseteq DOMAIN ops /\ held \subseteq DOMAIN ops /\ kept \subseteq DOMAIN ops
       /\ Bank(paid) /\ Floor(memory, held, place) /\ Floor(disk, kept, place)
  BY <1>2 DEF Ledger
<1>14. Lasting /\ DOMAIN ops' = DOMAIN ops
  BY <1>12 DEF Lasting, Entry
<1>15. PICK more \in SUBSET DOMAIN ops : more = held \cup {i}
  BY <1>5, <1>13
<1>16. FloorNext(memory', more, place)
  <2>1. /\ held \in SUBSET DOMAIN ops /\ Floor(memory, held, place)
        /\ i \in DOMAIN ops /\ i \notin held /\ place[i] = t
    BY <1>5, <1>6, <1>13
  <2>2. 0 \in Int /\ 0 = memory[t].chips[p] - ops[i].cents
    <3>1. ops[i].cents \in Int
      BY <1>5 DEF Operation
    <3>. QED
      BY <1>7, <3>1
  <2>3. \A x \in Tables \ {t} : memory'[x].chips = memory[x].chips
    BY <1>10
  <2>4. FloorNext(memory', held \cup {i}, place)
    BY <1>5, <1>7, <1>10, <1>14, <2>1, <2>2, <2>3, FloorMoved
  <2>. QED
    BY <1>15, <2>4
<1>17. PICK kept1 \in {kept, Onto(kept, more, place, t)} :
         FloorNext(disk', kept1, place) /\ (i \in kept1 <=> save.saved)
  <2>1. CASE save.saved
    <3>1. disk'[t].chips = memory'[t].chips /\ \A x \in Tables \ {t} : disk'[x].chips = disk[x].chips
      BY <1>10, <2>1
    <3>2. FloorNext(disk', Onto(kept, more, place, t), place)
      BY <1>7, <1>13, <1>14, <1>16, <3>1, FloorSaved
    <3>3. i \in Onto(kept, more, place, t)
      BY <1>6, <1>15 DEF Onto, AtTable
    <3>. QED
      BY <2>1, <3>2, <3>3
  <2>2. CASE ~save.saved
    <3>1. \A x \in Tables : disk'[x].chips = disk[x].chips
      BY <1>10, <2>2
    <3>2. FloorNext(disk', kept, place)
      BY <1>13, <1>14, <3>1, FloorSame
    <3>. QED
      BY <1>6, <2>2, <3>2
  <2>. QED
    BY <2>1, <2>2
<1>18. Bank(paid)'
  BY <1>9, <1>13, <1>14, BankSame
<1>19. kept1 \in SUBSET DOMAIN ops' /\ more \in SUBSET DOMAIN ops' /\ more \ {i} = held \ {i}
  BY <1>13, <1>14, <1>15 DEF Onto, AtTable
<1>20. \A j \in DOMAIN ops :
         \/ work[w].at \in Booked /\ j = work[w].op
         \/ Undisturbed(w, j, place, held, kept, paid, more, kept1, paid)
  <2>1. ASSUME NEW j \in DOMAIN ops, j # i
        PROVE  Undisturbed(w, j, place, held, kept, paid, more, kept1, paid)
    BY <1>7, <1>17, <1>19, <2>1, OntoUndisturbed
  <2>. QED
    BY <1>3, <1>4, <2>1
<1>21. Settled(i, place, paid, more, kept1)'
  <2>1. ops'[i].kind = "cash_out" /\ i \in Open'
    BY <1>5, <1>12, <1>14 DEF Entry, Open
  <2>. QED
    BY <1>6, <1>7, <2>1 DEF Settled
<1>22. Progress(w, place, paid, more, kept1)'
  <2>1. CASE save.ok
    BY <1>6, <1>11, <1>12, <1>15, <1>17, <2>1 DEF Progress
  <2>2. CASE ~save.ok
    BY <1>12, <2>2 DEF Progress, Booked, Buying
  <2>. QED
    BY <2>1, <2>2
<1>23. Ledger(place, paid, more, kept1)'
  <2>1. \A j \in DOMAIN ops :
          work[w].at \in Booked /\ j = work[w].op => Settled(j, place, paid, more, kept1)'
    BY <1>3, <1>21
  <2>2. place \in [DOMAIN ops' -> Tables \cup {Nobody}] /\ paid \in SUBSET DOMAIN ops'
    BY <1>13, <1>14
  <2>. QED
    BY <1>1, <1>2, <1>14, <1>16, <1>17, <1>18, <1>19, <1>20, <1>22, <2>1, <2>2, LedgerStep
<1>. QED
  BY <1>23 DEF Accounted

\* A step of a handler keeps the money accounted for.
LEMMA WorkStepAccounted ==
  ASSUME TypeOK, Control, UndoPossible, NEW w \in Workers, WorkStep(w), Accounted, scene' = scene
  PROVE  Accounted'
<1>1. \/ \/ \E u \in Players, t \in Tables : RequestJoin(w, u, t)
         \/ Scan(w) \/ Reserve(w) \/ Refuse(w) \/ Release(w)
         \/ \E t \in Tables, leaving \in SUBSET Users : BeginCashOut(w, t, leaving)
         \/ StopPaying(w) \/ Vacate(w)
      \/ \E n \in BuyIns : BookBuyIn(w, n)
      \/ \E u \in Users : BookCashOut(w, u)
      \/ \E u \in Players, n \in Scenes[scene].adjustments : BookAdjustment(w, u, n)
      \/ Debit(w) \/ SitDown(w) \/ Refund(w) \/ FinishBuyIn(w)
      \/ \E u \in Users : LeaveBroke(w, u)
      \/ Credit(w) \/ Depart(w) \/ Close(w) \/ Adjust(w)
  BY DEF WorkStep
<1>. QED
  BY <1>1, AsideSteps, BookBuyInAccounted, BookCashOutAccounted, BookAdjustmentAccounted,
     DebitAccounted, SitDownAccounted, RefundAccounted, FinishAccounted, LeaveBrokeAccounted,
     CreditAccounted, DepartAccounted, CloseAccounted, AdjustAccounted

\* Chips move between players of one table, whose lock is free, and it may be saved.
LEMMA GameAccounted ==
  ASSUME TypeOK, Control, Accounted, NEW t \in Tables, lock[t] = Nobody,
         UNCHANGED <<scene, quota, ops, work>>,
         SumOf(memory'[t].chips, Users) = SumOf(memory[t].chips, Users),
         disk'[t] \in {memory'[t], disk[t]},
         \A x \in Tables \ {t} : memory'[x] = memory[x] /\ disk'[x] = disk[x]
  PROVE  Accounted'
<1>1. PICK place, paid, held, kept : Ledger(place, paid, held, kept)
  BY DEF Accounted
<1>2. /\ place \in [DOMAIN ops -> Tables \cup {Nobody}]
      /\ paid \subseteq DOMAIN ops /\ held \subseteq DOMAIN ops /\ kept \subseteq DOMAIN ops
      /\ Bank(paid) /\ Floor(memory, held, place) /\ Floor(disk, kept, place)
      /\ \A i \in DOMAIN ops : Settled(i, place, paid, held, kept)
      /\ \A w \in Workers : Progress(w, place, paid, held, kept)
  BY <1>1 DEF Ledger
<1>3. Lasting
  BY DEF Lasting
<1>4. FloorNext(memory', held, place)
  <2>1. \A x \in Tables : SumOf(memory'[x].chips, Users) = SumOf(memory[x].chips, Users)
    OBVIOUS
  <2>. QED
    BY <1>2, <1>3, <2>1, FloorSame
<1>5. PICK kept1 \in {kept, Onto(kept, held, place, t)} : FloorNext(disk', kept1, place)
  <2>1. CASE disk'[t] = memory'[t]
    <3>1. disk'[t].chips = memory'[t].chips /\ \A x \in Tables \ {t} : disk'[x].chips = disk[x].chips
      BY <2>1
    <3>2. FloorNext(disk', Onto(kept, held, place, t), place)
      BY <1>2, <1>3, <1>4, <3>1, FloorSaved
    <3>. QED
      BY <3>2
  <2>2. CASE disk'[t] = disk[t]
    <3>1. \A x \in Tables : disk'[x].chips = disk[x].chips
      BY <2>2
    <3>2. FloorNext(disk', kept, place)
      BY <1>2, <1>3, <3>1, FloorSame
    <3>. QED
      BY <3>2
  <2>. QED
    BY <2>1, <2>2
<1>6. Bank(paid)'
  BY <1>2, <1>3, BankSame
<1>7. kept1 \in SUBSET DOMAIN ops
  BY <1>2 DEF Onto, AtTable
<1>8. \A i \in DOMAIN ops : \/ i \in kept1 <=> i \in kept
                            \/ place[i] = t /\ (i \in kept1 <=> i \in held)
  BY DEF Onto, AtTable
<1>9. ASSUME NEW i \in DOMAIN ops  PROVE Settled(i, place, paid, held, kept1)'
  <2>1. Settled(i, place, paid, held, kept) /\ (i \in Open' <=> i \in Open) /\ ops'[i] = ops[i]
    BY <1>2 DEF Open
  <2>. QED
    BY <1>8, <2>1 DEF Settled
<1>10. ASSUME NEW w \in Workers  PROVE Progress(w, place, paid, held, kept1)'
  <2>. DEFINE k == work[w]  i == work[w].op
  <2>1. Progress(w, place, paid, held, kept) /\ Doing(w) /\ work' = work /\ ops' = ops
    BY <1>2 DEF Control
  <2>2. CASE k.at \in Booked
    <3>1. i \in DOMAIN ops
      BY <2>1, <2>2 DEF Doing
    <3>2. k.at # "adjust" => place[i] = k.table /\ k.table \in Tables /\ lock[k.table] = w
      BY <2>1, <2>2 DEF Doing, Progress, Booked, Settling
    <3>3. w # Nobody
      BY CashierAssumption
    <3>4. k.at = "adjust" => i \notin held /\ i \notin kept
      BY <2>1 DEF Progress
    <3>5. i \in kept1 <=> i \in kept
      BY <1>8, <3>1, <3>2, <3>3, <3>4
    <3>. HIDE DEF k, i
    <3>. QED
      BY <2>1, <3>5 DEF Progress, k, i
  <2>3. CASE k.at \notin Booked
    BY <2>1, <2>3 DEF Progress, Booked, Buying
  <2>. QED
    BY <2>2, <2>3
<1>11. Floor(memory, held, place)' /\ Floor(disk, kept1, place)'
  BY <1>4, <1>5, FloorIsNext
<1>12. Ledger(place, paid, held, kept1)'
  BY <1>2, <1>6, <1>7, <1>9, <1>10, <1>11 DEF Ledger
<1>. QED
  BY <1>12 DEF Accounted

\* Dealing moves no chips.
LEMMA DealAccounted ==
  ASSUME TypeOK, Control, Accounted, NEW t \in Tables, Deal(t)
  PROVE  Accounted'
<1>1. lock[t] = Nobody /\ UNCHANGED <<scene, quota, ops, work>>
  BY DEF Deal, Played
<1>2. /\ memory'[t].chips = memory[t].chips
      /\ disk'[t] \in {memory'[t], disk[t]}
      /\ \A x \in Tables \ {t} : memory'[x] = memory[x] /\ disk'[x] = disk[x]
  BY DealControl
<1>. QED
  BY <1>1, <1>2, GameAccounted

\* What one player wins another loses.
LEMMA EndHandAccounted ==
  ASSUME TypeOK, Control, Accounted, NEW t \in Tables, EndHand(t)
  PROVE  Accounted'
<1>1. lock[t] = Nobody /\ UNCHANGED <<scene, quota, ops, work>>
  BY DEF EndHand, Played
<1>2. /\ \E winner, loser \in Users : \E n \in Int :
           /\ winner # loser
           /\ memory'[t].chips = [[memory[t].chips EXCEPT ![winner] = @ + n]
                                    EXCEPT ![loser] = @ - n]
      /\ disk'[t] \in {memory'[t], disk[t]}
      /\ \A x \in Tables \ {t} : memory'[x] = memory[x] /\ disk'[x] = disk[x]
  BY EndHandControl
<1>3. PICK winner \in Users, loser \in Users, n \in Int :
        /\ winner # loser
        /\ memory'[t].chips = [[memory[t].chips EXCEPT ![winner] = @ + n] EXCEPT ![loser] = @ - n]
  BY <1>2
<1>. DEFINE a == memory[t].chips
            b == [a EXCEPT ![winner] = @ + n]
            c == [b EXCEPT ![loser] = @ - n]
<1>4. a \in [Users -> Int]
  BY DEF TypeOK, Table
<1>. HIDE DEF a
<1>5. /\ b \in [Users -> Int] /\ b[winner] = a[winner] + n
      /\ \A y \in Users \ {winner} : b[y] = a[y]
  BY <1>4
<1>. HIDE DEF b
<1>6. /\ c \in [Users -> Int] /\ c[loser] = b[loser] - n
      /\ \A y \in Users \ {loser} : c[y] = b[y]
  BY <1>5
<1>. HIDE DEF c
<1>7. IsFiniteSet(Users)
  BY CashierAssumption
<1>8. /\ \A y \in Users : a[y] \in Int
      /\ \A y \in Users : b[y] \in Int
      /\ \A y \in Users : c[y] \in Int
  BY <1>4, <1>5, <1>6
<1>9. SumOf(b, Users) = SumOf(a, Users) + b[winner] - a[winner]
  BY <1>5, <1>7, <1>8, SumChange
<1>10. SumOf(c, Users) = SumOf(b, Users) + c[loser] - b[loser]
  BY <1>6, <1>7, <1>8, SumChange
<1>11. SumOf(a, Users) \in Int
  BY <1>7, <1>8, SumType
<1>. DEFINE x == SumOf(a, Users)  y == SumOf(b, Users)  z == SumOf(c, Users)
<1>12. z = x
  <2>. DEFINE aw == a[winner]  bw == b[winner]  bl == b[loser]  cl == c[loser]
  <2>1. /\ aw \in Int /\ bl \in Int /\ x \in Int /\ bw = aw + n /\ cl = bl - n
        /\ y = x + bw - aw /\ z = y + cl - bl
    BY <1>5, <1>6, <1>8, <1>9, <1>10, <1>11
  <2>. HIDE DEF aw, bw, bl, cl, x, y, z
  <2>. QED
    BY <2>1
<1>13. SumOf(memory'[t].chips, Users) = SumOf(memory[t].chips, Users)
  BY <1>3, <1>12 DEF a, b, c
<1>. QED
  BY <1>1, <1>2, <1>13, GameAccounted

\* After a restart the tables are what was saved of them.
LEMMA RestartAccounted ==
  ASSUME TypeOK, Control, Accounted, Restart
  PROVE  Accounted'
<1>1. PICK place, paid, held, kept : Ledger(place, paid, held, kept)
  BY DEF Accounted
<1>2. /\ place \in [DOMAIN ops -> Tables \cup {Nobody}]
      /\ paid \subseteq DOMAIN ops /\ held \subseteq DOMAIN ops /\ kept \subseteq DOMAIN ops
      /\ Bank(paid) /\ Floor(memory, held, place) /\ Floor(disk, kept, place)
      /\ \A i \in DOMAIN ops : Settled(i, place, paid, held, kept)
  BY <1>1 DEF Ledger
<1>3. UNCHANGED <<scene, quota, disk, ops>> /\ memory' = disk /\ \A w \in Workers : work'[w] = Idle
  BY RestartControl DEF Restart
<1>4. Lasting
  BY <1>3 DEF Lasting
<1>5. Bank(paid)'
  BY <1>2, <1>3, <1>4, BankSame
<1>6. FloorNext(memory', kept, place) /\ FloorNext(disk', kept, place)
  BY <1>2, <1>3, <1>4, FloorSame
<1>7. Floor(memory, kept, place)' /\ Floor(disk, kept, place)'
  BY <1>6, FloorIsNext
<1>8. ASSUME NEW i \in DOMAIN ops  PROVE Settled(i, place, paid, kept, kept)'
  <2>1. Settled(i, place, paid, held, kept) /\ (i \in Open' <=> i \in Open) /\ ops'[i] = ops[i]
    BY <1>2, <1>3 DEF Open
  <2>. QED
    BY <2>1 DEF Settled
<1>9. \A w \in Workers : Progress(w, place, paid, kept, kept)'
  BY <1>3, IdleWork DEF Progress, Booked, Buying
<1>10. Ledger(place, paid, kept, kept)'
  BY <1>2, <1>3, <1>5, <1>7, <1>8, <1>9 DEF Ledger
<1>. QED
  BY <1>10 DEF Accounted

\* Nothing of this changes.
LEMMA StillAccounted ==
  ASSUME TypeOK, Accounted, UNCHANGED <<scene, quota, memory, disk, ops, work>>
  PROVE  Accounted'
<1>1. PICK place, paid, held, kept : Ledger(place, paid, held, kept)
  BY DEF Accounted
<1>2. /\ place \in [DOMAIN ops -> Tables \cup {Nobody}]
      /\ paid \subseteq DOMAIN ops /\ held \subseteq DOMAIN ops /\ kept \subseteq DOMAIN ops
      /\ Bank(paid) /\ Floor(memory, held, place) /\ Floor(disk, kept, place)
      /\ \A i \in DOMAIN ops : Settled(i, place, paid, held, kept)
      /\ \A w \in Workers : Progress(w, place, paid, held, kept)
  BY <1>1 DEF Ledger
<1>3. Lasting
  BY DEF Lasting
<1>4. Bank(paid)'
  BY <1>2, <1>3, BankSame
<1>5. FloorNext(memory', held, place) /\ FloorNext(disk', kept, place)
  BY <1>2, <1>3, FloorSame
<1>6. Floor(memory, held, place)' /\ Floor(disk, kept, place)'
  BY <1>5, FloorIsNext
<1>7. \A i \in DOMAIN ops : Settled(i, place, paid, held, kept)'
  BY <1>2 DEF Settled, Open
<1>8. \A w \in Workers : Progress(w, place, paid, held, kept)'
  BY <1>2 DEF Progress
<1>9. Ledger(place, paid, held, kept)'
  BY <1>2, <1>4, <1>6, <1>7, <1>8 DEF Ledger
<1>. QED
  BY <1>9 DEF Accounted

\* Every step keeps the money accounted for.
LEMMA NextAccounted ==
  ASSUME TypeOK, Control, UndoPossible, Accounted, [Next]_vars
  PROVE  Accounted'
<1>1. scene' = scene
  BY SceneFixed
<1>2. CASE (\E u \in Users : ReservationAges(u)) \/ UNCHANGED vars
  <2>1. UNCHANGED <<scene, quota, memory, disk, ops, work>>
    BY <1>2 DEF ReservationAges, vars
  <2>. QED
    BY <2>1, StillAccounted
<1>. QED
  BY <1>1, <1>2, WorkStepAccounted, DealAccounted, EndHandAccounted, RestartAccounted DEF Next

\* At first nothing has moved.
LEMMA InitAccounted ==
  ASSUME Init
  PROVE  Accounted
<1>. DEFINE none == {}
<1>1. DOMAIN ops = {} /\ \A w \in Workers : work[w] = Idle
  BY DEF Init
<1>2. CentsOf({}) = 0
  <2>1. SumOf([i \in DOMAIN ops |-> ops[i].cents], {}) = 0
    BY FS_EmptySet, SumOfStep
  <2>. QED
    BY <2>1 DEF CentsOf
<1>3. IsFiniteSet(Users) /\ Quota \in Int /\ StartChips \in Int
  BY CashierAssumption
<1>4. Cardinality(Users) \in Nat /\ \A t \in Tables : SeatedAtFirst[t] \in SUBSET Users
  BY <1>3, FS_CardinalityType, CashierAssumption DEF Init, SeatedAtFirst
<1>5. SumOf(quota, Users) = Quota * Cardinality(Users)
  <2>1. \A u \in Users : quota[u] = IF u \in Users THEN Quota ELSE 0
    BY DEF Init
  <2>. QED
    BY <1>3, <2>1, SumShares
<1>6. Bank({})
  <2>. DEFINE z == Cardinality(Users)
  <2>1. z \in Int /\ Quota * z = z * Quota + 0
    BY <1>3, <1>4
  <2>. QED
    BY <1>2, <1>5, <2>1 DEF Bank
<1>7. ASSUME NEW t \in Tables
      PROVE  SumOf(disk[t].chips, Users) = Stakes(t) - CentsOf({}) /\ memory[t] = disk[t]
  <2>. DEFINE f == disk[t].chips  T == SeatedAtFirst[t]
  <2>1. \A u \in Users : f[u] = IF u \in T THEN StartChips ELSE 0
    BY DEF Init
  <2>2. T \in SUBSET Users /\ Cardinality(T) \in Nat
    BY <1>3, <1>4, FS_Subset, FS_CardinalityType
  <2>. HIDE DEF f, T
  <2>3. SumOf(f, Users) = StartChips * Cardinality(T)
    BY <1>3, <2>1, <2>2, SumShares
  <2>4. StartChips * Cardinality(T) \in Int
    BY <1>3, <2>2
  <2>5. memory[t] = disk[t]
    BY DEF Init
  <2>. QED
    BY <1>2, <2>3, <2>4, <2>5 DEF Stakes, f, T
<1>8. PICK place : place \in [DOMAIN ops -> Tables \cup {Nobody}]
  <2>1. [i \in DOMAIN ops |-> Nobody] \in [DOMAIN ops -> Tables \cup {Nobody}]
    OBVIOUS
  <2>. QED
    BY <2>1
<1>9. Floor(memory, {}, place) /\ Floor(disk, {}, place)
  <2>1. \A t \in Tables : AtTable({}, place, t) = {}
    BY DEF AtTable
  <2>. QED
    BY <1>7, <2>1 DEF Floor
<1>10. \A w \in Workers : Progress(w, place, {}, {}, {})
  BY <1>1, IdleWork DEF Progress, Booked, Buying
<1>11. Ledger(place, {}, {}, {})
  BY <1>1, <1>6, <1>8, <1>9, <1>10 DEF Ledger
<1>. QED
  BY <1>11 DEF Accounted

-----------------------------------------------------------------------------
(* What the ledger says of the money *)

\* Each operation at a table is at one.
LEMMA TablesShare ==
  ASSUME TypeOK, NEW place, NEW held \in SUBSET DOMAIN ops, \A i \in held : place[i] \in Tables
  PROVE  SumOf([t \in Tables |-> CentsOf(AtTable(held, place, t))], Tables) = CentsOf(held)
<1>. DEFINE sums(s) == [t \in Tables |-> CentsOf(AtTable(s, place, t))]
            P == {s \in SUBSET held : SumOf(sums(s), Tables) = CentsOf(s)}
<1>1. IsFiniteSet(Tables) /\ IsFiniteSet(held) /\ ops \in Seq(Operation)
      /\ \A i \in DOMAIN ops : ops[i].cents \in Int
  BY CashierAssumption, OpsFinite, FS_Subset DEF TypeOK
<1>2. \A s \in SUBSET held : \A t \in Tables : sums(s)[t] \in Int
  <2>. SUFFICES ASSUME NEW s \in SUBSET held, NEW t \in Tables
       PROVE  CentsOf(AtTable(s, place, t)) \in Int
    OBVIOUS
  <2>1. AtTable(s, place, t) \in SUBSET DOMAIN ops
    BY DEF AtTable
  <2>. QED
    BY <1>1, <2>1, CentsType
<1>3. {} \in P
  <2>1. CentsOf({}) = 0
    <3>1. SumOf([i \in DOMAIN ops |-> ops[i].cents], {}) = 0
      BY FS_EmptySet, SumOfStep
    <3>. QED
      BY <3>1 DEF CentsOf
  <2>. DEFINE f == sums({})
  <2>2. \A t \in Tables : f[t] = IF t \in {} THEN 1 ELSE 0
    <3>1. \A t \in Tables : AtTable({}, place, t) = {}
      BY DEF AtTable
    <3>. QED
      BY <2>1, <3>1
  <2>. HIDE DEF f
  <2>3. SumOf(f, Tables) = Cardinality({})
    BY <1>1, <2>2, SumConstant
  <2>4. Cardinality({}) = 0
    BY FS_EmptySet
  <2>. QED
    BY <2>1, <2>3, <2>4 DEF f
<1>4. ASSUME NEW s \in SUBSET held, s # {}, \A i \in s : s \ {i} \in P  PROVE s \in P
  <2>1. PICK i : i \in s
    BY <1>4
  <2>2. PICK t \in Tables : t = place[i]
    BY <2>1
  <2>. DEFINE r == s \ {i}  f == sums(r)  g == sums(s)  c == ops[i].cents
  <2>3. CentsOf(s) = CentsOf(r) + c /\ CentsOf(r) \in Int /\ c \in Int
    <3>1. r \cup {i} = s /\ i \notin r /\ r \in SUBSET DOMAIN ops /\ i \in DOMAIN ops
      BY <2>1
    <3>. HIDE DEF r
    <3>2. CentsOf(r \cup {i}) = CentsOf(r) + ops[i].cents
      BY <1>1, <3>1, CentsAdd
    <3>. QED
      BY <1>1, <3>1, <3>2, CentsType
  <2>4. g[t] = f[t] + c
    <3>. DEFINE A == AtTable(r, place, t)
    <3>1. AtTable(s, place, t) = A \cup {i} /\ i \notin A /\ A \in SUBSET DOMAIN ops /\ i \in DOMAIN ops
      BY <2>1, <2>2 DEF AtTable
    <3>. HIDE DEF A
    <3>2. CentsOf(A \cup {i}) = CentsOf(A) + ops[i].cents
      BY <1>1, <3>1, CentsAdd
    <3>. QED
      BY <3>1, <3>2 DEF A
  <2>5. \A x \in Tables \ {t} : g[x] = f[x]
    <3>. SUFFICES ASSUME NEW x \in Tables \ {t}  PROVE g[x] = f[x]
      OBVIOUS
    <3>1. AtTable(s, place, x) = AtTable(r, place, x)
      BY <2>2 DEF AtTable
    <3>. QED
      BY <3>1
  <2>6. \A x \in Tables : f[x] \in Int /\ g[x] \in Int
    <3>1. r \in SUBSET held
      OBVIOUS
    <3>. HIDE DEF r, sums
    <3>. QED
      BY <1>2, <3>1
  <2>7. SumOf(f, Tables) = CentsOf(r)
    BY <1>4, <2>1
  <2>. DEFINE ft == f[t]  gt == g[t]  m == CentsOf(r)  n == CentsOf(s)  y == SumOf(g, Tables)
  <2>8. y = SumOf(f, Tables) + gt - ft
    <3>. HIDE DEF f, g
    <3>. QED
      BY <1>1, <2>5, <2>6, SumChange
  <2>9. ft \in Int /\ gt = ft + c /\ y = m + gt - ft /\ n = m + c /\ m \in Int /\ c \in Int
    BY <2>3, <2>4, <2>6, <2>7, <2>8
  <2>10. y = n
    <3>. HIDE DEF ft, gt, m, n, y, c
    <3>. QED
      BY <2>9
  <2>. QED
    BY <2>10
<1>5. P = SUBSET held
  <2>1. P \in SUBSET (SUBSET held)
    OBVIOUS
  <2>. HIDE DEF P
  <2>. QED
    BY <1>1, <1>3, <1>4, <2>1, FiniteSetInduction
<1>. QED
  BY <1>5

\* What is at the tables, by what reached them.
LEMMA TablesTogether ==
  ASSUME TypeOK, NEW place, NEW held \in SUBSET DOMAIN ops, \A i \in held : place[i] \in Tables,
         Floor(memory, held, place)
  PROVE  SumOf([t \in Tables |-> SumOf(memory[t].chips, Users)], Tables)
           = StartChips * SumOf([t \in Tables |-> Cardinality(SeatedAtFirst[t])], Tables)
               - CentsOf(held)
<1>. DEFINE M == [t \in Tables |-> SumOf(memory[t].chips, Users)]
            H == [t \in Tables |-> CentsOf(AtTable(held, place, t))]
            K == [t \in Tables |-> Stakes(t)]
            C == [t \in Tables |-> Cardinality(SeatedAtFirst[t])]
<1>1. IsFiniteSet(Tables) /\ IsFiniteSet(Users) /\ StartChips \in Int
  BY CashierAssumption
<1>2. ASSUME NEW t \in Tables
      PROVE  C[t] \in Int /\ K[t] = StartChips * C[t] /\ K[t] \in Int
  <2>1. SeatedAtFirst[t] \in SUBSET Users
    BY CashierAssumption DEF TypeOK, SeatedAtFirst
  <2>2. Cardinality(SeatedAtFirst[t]) \in Nat
    BY <1>1, <2>1, FS_Subset, FS_CardinalityType
  <2>. QED
    BY <1>1, <2>2 DEF Stakes
<1>3. ASSUME NEW t \in Tables
      PROVE  H[t] \in Int /\ M[t] \in Int /\ M[t] = K[t] - H[t]
  <2>1. AtTable(held, place, t) \in SUBSET DOMAIN ops
    BY DEF AtTable
  <2>2. H[t] \in Int
    BY <2>1, CentsType DEF TypeOK
  <2>3. M[t] = K[t] - H[t]
    BY DEF Floor
  <2>. QED
    BY <1>2, <2>2, <2>3
<1>4. SumOf(H, Tables) = CentsOf(held)
  BY TablesShare
<1>. HIDE DEF M, H, K, C
<1>5. SumOf(K, Tables) = StartChips * SumOf(C, Tables)
  BY <1>1, <1>2, SumTimes
<1>6. SumOf(K, Tables) = SumOf(M, Tables) + SumOf(H, Tables)
  <2>1. \A t \in Tables : M[t] \in Int /\ H[t] \in Int /\ K[t] = M[t] + H[t]
    BY <1>2, <1>3
  <2>. QED
    BY <1>1, <2>1, SumPlus
<1>7. SumOf(M, Tables) \in Int /\ SumOf(H, Tables) \in Int
  BY <1>1, <1>3, SumType
<1>. DEFINE m == SumOf(M, Tables)  h == SumOf(H, Tables)  k == SumOf(K, Tables)
<1>8. m \in Int /\ h \in Int /\ k = m + h
  BY <1>6, <1>7
<1>9. m = k - h
  <2>. HIDE DEF m, h, k
  <2>. QED
    BY <1>8
<1>. QED
  BY <1>4, <1>5, <1>9 DEF M, C

\* Sums over a growing set, by membership.
LEMMA CentsWithin ==
  ASSUME ops \in Seq(Operation), NEW A \in SUBSET DOMAIN ops, NEW s \in SUBSET DOMAIN ops,
         NEW i \in s
  PROVE  /\ CentsOf(A \cap (s \ {i})) \in Int
         /\ i \in A => CentsOf(A \cap s) = CentsOf(A \cap (s \ {i})) + ops[i].cents
         /\ i \notin A => CentsOf(A \cap s) = CentsOf(A \cap (s \ {i}))
<1>. DEFINE r == A \cap (s \ {i})
<1>1. r \in SUBSET DOMAIN ops /\ i \notin r /\ i \in DOMAIN ops
      /\ A \cap s = IF i \in A THEN r \cup {i} ELSE r
  OBVIOUS
<1>. HIDE DEF r
<1>2. CentsOf(r) \in Int /\ CentsOf(r \cup {i}) = CentsOf(r) + ops[i].cents
  BY <1>1, CentsType, CentsAdd
<1>3. CASE i \in A
  BY <1>1, <1>2, <1>3 DEF r
<1>4. CASE i \notin A
  <2>1. CentsOf(A \cap s) = CentsOf(r)
    BY <1>1, <1>4
  <2>. QED
    BY <1>2, <1>4, <2>1 DEF r
<1>. QED
  BY <1>3, <1>4

\* The same for their sizes.
LEMMA SizesWithin ==
  ASSUME ops \in Seq(Operation), NEW A \in SUBSET DOMAIN ops, NEW s \in SUBSET DOMAIN ops,
         NEW i \in s
  PROVE  /\ SizeOf(A \cap (s \ {i})) \in Int
         /\ SizeOf(A \cap s) = SizeOf(A \cap (s \ {i})) + IF i \in A THEN Size(ops[i].cents) ELSE 0
<1>. DEFINE r == A \cap (s \ {i})
            f == [j \in DOMAIN ops |-> Size(ops[j].cents)]
<1>1. r \in SUBSET DOMAIN ops /\ i \notin r /\ i \in DOMAIN ops
      /\ A \cap s = IF i \in A THEN r \cup {i} ELSE r
  OBVIOUS
<1>2. IsFiniteSet(r)
  BY <1>1, OpsFinite, FS_Subset
<1>3. \A j \in DOMAIN ops : f[j] \in Int /\ f[j] = Size(ops[j].cents)
  BY OpsFinite DEF Size
<1>. HIDE DEF r, f
<1>4. SumOf(f, r) \in Int /\ SumOf(f, r \cup {i}) = SumOf(f, r) + f[i]
  <2>1. \A j \in r \cup {i} : f[j] \in Int
    BY <1>1, <1>3
  <2>. QED
    BY <1>1, <1>2, <2>1, SumType, SumAdd
<1>5. SizeOf(r) = SumOf(f, r) /\ SizeOf(r \cup {i}) = SumOf(f, r \cup {i})
  BY DEF SizeOf, f
<1>6. CASE i \in A
  BY <1>1, <1>3, <1>4, <1>5, <1>6 DEF r
<1>7. CASE i \notin A
  <2>1. SizeOf(A \cap s) = SizeOf(r)
    BY <1>1, <1>7
  <2>. QED
    BY <1>4, <1>5, <1>7, <2>1 DEF r
<1>. QED
  BY <1>6, <1>7

Adjusted == {i \in DOMAIN ops : ops[i].kind = "manual" /\ ops[i].status = "completed"}

\* What some operations moved and did not arrive is within the size of the open ones.
Explained(paid, held, s) ==
  LET gap == CentsOf(paid \cap s) - CentsOf(held \cap s) - CentsOf(Adjusted \cap s)
  IN  -SizeOf(Open \cap s) <= gap /\ gap <= SizeOf(Open \cap s)

\* One operation adds no more to the gap than it adds to the open ones.
LEMMA ExplainedStep ==
  ASSUME TypeOK, NEW paid \in SUBSET DOMAIN ops, NEW held \in SUBSET DOMAIN ops,
         NEW place, NEW kept, NEW s \in SUBSET DOMAIN ops, NEW i \in s,
         Settled(i, place, paid, held, kept), Explained(paid, held, s \ {i})
  PROVE  Explained(paid, held, s)
<1>0. ops \in Seq(Operation)
  BY DEF TypeOK
<1>a. /\ CentsOf(paid \cap (s \ {i})) \in Int
      /\ i \in paid => CentsOf(paid \cap s) = CentsOf(paid \cap (s \ {i})) + ops[i].cents
      /\ i \notin paid => CentsOf(paid \cap s) = CentsOf(paid \cap (s \ {i}))
  BY <1>0, CentsWithin
<1>b. /\ CentsOf(held \cap (s \ {i})) \in Int
      /\ i \in held => CentsOf(held \cap s) = CentsOf(held \cap (s \ {i})) + ops[i].cents
      /\ i \notin held => CentsOf(held \cap s) = CentsOf(held \cap (s \ {i}))
  BY <1>0, CentsWithin
<1>d. /\ CentsOf(Adjusted \cap (s \ {i})) \in Int
      /\ i \in Adjusted => CentsOf(Adjusted \cap s) = CentsOf(Adjusted \cap (s \ {i})) + ops[i].cents
      /\ i \notin Adjusted => CentsOf(Adjusted \cap s) = CentsOf(Adjusted \cap (s \ {i}))
  <2>1. Adjusted \in SUBSET DOMAIN ops
    BY DEF Adjusted
  <2>. QED
    BY <1>0, <2>1, CentsWithin
<1>. DEFINE c == ops[i].cents
            z == Size(c)
            dp == IF i \in paid THEN c ELSE 0
            dh == IF i \in held THEN c ELSE 0
            da == IF i \in Adjusted THEN c ELSE 0
            dz == IF i \in Open THEN z ELSE 0
            p0 == CentsOf(paid \cap (s \ {i}))
            h0 == CentsOf(held \cap (s \ {i}))
            a0 == CentsOf(Adjusted \cap (s \ {i}))
            z0 == SizeOf(Open \cap (s \ {i}))
            p1 == CentsOf(paid \cap s)
            h1 == CentsOf(held \cap s)
            a1 == CentsOf(Adjusted \cap s)
            z1 == SizeOf(Open \cap s)
<1>1. ops \in Seq(Operation) /\ Adjusted \in SUBSET DOMAIN ops /\ Open \in SUBSET DOMAIN ops
  BY DEF TypeOK, Adjusted, Open
<1>2. c \in Int /\ z \in Int /\ z >= 0 /\ -z <= c /\ c <= z
  <2>1. c \in Int
    BY <1>1, OpsFinite
  <2>. QED
    BY <2>1 DEF Size
<1>3. p0 \in Int /\ p1 = p0 + dp
  BY <1>2, <1>a
<1>4. h0 \in Int /\ h1 = h0 + dh
  BY <1>2, <1>b
<1>5. a0 \in Int /\ a1 = a0 + da
  BY <1>2, <1>d
<1>6. z0 \in Int /\ z1 = z0 + dz
  BY <1>1, SizesWithin
<1>7. -z0 <= p0 - h0 - a0 /\ p0 - h0 - a0 <= z0
  BY DEF Explained
<1>8. /\ dp \in {0, c} /\ dh \in {0, c} /\ da \in {0, c} /\ dz \in {0, z}
      /\ dz = 0 => z = 0 \/ dp - dh - da = 0
      /\ dh = 0 \/ da = 0
  <2>1. i \in held => i \notin Adjusted
    BY DEF Settled, Adjusted
  <2>2. i \notin Open => IF i \in Adjusted THEN i \in paid /\ i \notin held
                         ELSE i \in paid <=> i \in held
    BY <1>1, <2>1 DEF Settled, Adjusted
  <2>3. i \notin Open => dp - dh - da = 0
    <3>. HIDE DEF c
    <3>. QED
      BY <1>2, <2>2
  <2>4. dh = 0 \/ da = 0
    BY <2>1
  <2>. HIDE DEF c, z
  <2>. QED
    BY <2>3, <2>4
<1>. HIDE DEF c, z, dp, dh, da, dz, p0, h0, a0, z0, p1, h1, a1, z1
<1>9. -dz <= dp - dh - da /\ dp - dh - da <= dz
  BY <1>2, <1>8
<1>10. dp \in Int /\ dh \in Int /\ da \in Int /\ dz \in Int
  BY <1>2, <1>8
<1>11. -z1 <= p1 - h1 - a1 /\ p1 - h1 - a1 <= z1
  BY <1>3, <1>4, <1>5, <1>6, <1>7, <1>9, <1>10
<1>. QED
  BY <1>11 DEF Explained, p1, h1, a1, z1

\* So it is for all of them.
LEMMA AllExplained ==
  ASSUME TypeOK, NEW place, NEW paid, NEW held, NEW kept, Ledger(place, paid, held, kept)
  PROVE  Explained(paid, held, DOMAIN ops)
<1>. DEFINE P == {s \in SUBSET DOMAIN ops : Explained(paid, held, s)}
<1>1. paid \in SUBSET DOMAIN ops /\ held \in SUBSET DOMAIN ops
      /\ \A i \in DOMAIN ops : Settled(i, place, paid, held, kept)
  BY DEF Ledger
<1>2. {} \in P
  <2>1. CentsOf({}) = 0
    <3>1. SumOf([i \in DOMAIN ops |-> ops[i].cents], {}) = 0
      BY FS_EmptySet, SumOfStep
    <3>. QED
      BY <3>1 DEF CentsOf
  <2>2. SizeOf({}) = 0
    <3>1. SumOf([i \in DOMAIN ops |-> Size(ops[i].cents)], {}) = 0
      BY FS_EmptySet, SumOfStep
    <3>. QED
      BY <3>1 DEF SizeOf
  <2>3. paid \cap {} = {} /\ held \cap {} = {} /\ Adjusted \cap {} = {} /\ Open \cap {} = {}
    OBVIOUS
  <2>. QED
    BY <2>1, <2>2, <2>3 DEF Explained
<1>3. ASSUME NEW s \in SUBSET DOMAIN ops, s # {}, \A i \in s : s \ {i} \in P
      PROVE  s \in P
  <2>1. PICK i \in s : TRUE
    BY <1>3
  <2>2. Explained(paid, held, s \ {i}) /\ Settled(i, place, paid, held, kept)
    BY <1>1, <1>3, <2>1
  <2>3. Explained(paid, held, s)
    BY <1>1, <2>1, <2>2, ExplainedStep
  <2>. QED
    BY <2>3
<1>4. P = SUBSET DOMAIN ops
  <2>1. P \in SUBSET (SUBSET DOMAIN ops) /\ IsFiniteSet(DOMAIN ops)
    BY OpsFinite DEF TypeOK
  <2>. HIDE DEF P
  <2>. QED
    BY <1>2, <1>3, <2>1, FiniteSetInduction
<1>. QED
  BY <1>4

\* Where a ledger can be kept, no money is unexplained.
LEMMA LedgerAccounts ==
  ASSUME TypeOK, Accounted
  PROVE  MoneyAccounted
<1>1. PICK place, paid, held, kept : Ledger(place, paid, held, kept)
  BY DEF Accounted
<1>2. /\ paid \in SUBSET DOMAIN ops /\ held \in SUBSET DOMAIN ops
      /\ \A i \in held : place[i] \in Tables
      /\ Bank(paid) /\ Floor(memory, held, place)
  BY <1>1 DEF Ledger, Settled
<1>. DEFINE q == SumOf(quota, Users)
            f == SumOf([t \in Tables |-> SumOf(memory[t].chips, Users)], Tables)
            b == Cardinality(Users) * Quota
            g == StartChips * SumOf([t \in Tables |-> Cardinality(SeatedAtFirst[t])], Tables)
            p == CentsOf(paid)
            h == CentsOf(held)
            a == CentsOf(Adjusted)
            z == SizeOf(Open)
<1>3. q = b + p
  BY <1>2 DEF Bank
<1>4. f = g - h
  BY <1>2, TablesTogether
<1>5. ops \in Seq(Operation) /\ Adjusted \in SUBSET DOMAIN ops /\ Open \in SUBSET DOMAIN ops
  BY DEF TypeOK, Adjusted, Open
<1>6. p \in Int /\ h \in Int /\ a \in Int
  BY <1>2, <1>5, CentsType
<1>7. b \in Int
  BY CashierAssumption, FS_CardinalityType
<1>8. g \in Int
  <2>. DEFINE C == [t \in Tables |-> Cardinality(SeatedAtFirst[t])]
  <2>1. \A t \in Tables : C[t] \in Int
    <3>. SUFFICES ASSUME NEW t \in Tables  PROVE Cardinality(SeatedAtFirst[t]) \in Int
      OBVIOUS
    <3>1. SeatedAtFirst[t] \in SUBSET Users
      BY CashierAssumption DEF TypeOK, SeatedAtFirst
    <3>2. Cardinality(SeatedAtFirst[t]) \in Nat
      BY <3>1, CashierAssumption, FS_Subset, FS_CardinalityType
    <3>. QED
      BY <3>2
  <2>. HIDE DEF C
  <2>2. SumOf(C, Tables) \in Int
    BY <2>1, CashierAssumption, SumType
  <2>3. StartChips * SumOf(C, Tables) \in Int
    BY <2>2, CashierAssumption
  <2>. QED
    BY <2>3 DEF C
<1>9. -z <= p - h - a /\ p - h - a <= z
  <2>1. Explained(paid, held, DOMAIN ops)
    BY <1>1, AllExplained
  <2>2. /\ paid \cap DOMAIN ops = paid /\ held \cap DOMAIN ops = held
        /\ Adjusted \cap DOMAIN ops = Adjusted /\ Open \cap DOMAIN ops = Open
    BY <1>2, <1>5
  <2>. QED
    BY <2>1, <2>2 DEF Explained
<1>10. z \in Int
  <2>. DEFINE s == [i \in DOMAIN ops |-> Size(ops[i].cents)]
  <2>1. \A i \in Open : s[i] \in Int
    BY <1>5, OpsFinite DEF Size
  <2>2. IsFiniteSet(Open)
    BY <1>5, OpsFinite, FS_Subset
  <2>. HIDE DEF s
  <2>3. SumOf(s, Open) \in Int
    BY <2>1, <2>2, SumType
  <2>. QED
    BY <2>3 DEF SizeOf, s
<1>11. Money = q + f /\ MoneyAtFirst = b + g
  BY DEF Money, MoneyAtFirst
<1>. HIDE DEF q, f, b, g, p, h, a, z
<1>12. Money - MoneyAtFirst - a = p - h - a
  BY <1>3, <1>4, <1>6, <1>7, <1>8, <1>11
<1>13. Size(p - h - a) <= z
  BY <1>6, <1>9, <1>10 DEF Size
<1>14. Size(Money - MoneyAtFirst - a) <= z
  BY <1>12, <1>13
<1>. QED
  BY <1>14 DEF MoneyAccounted, Adjusted, a, z

\* MoneyAccounted holds in every reachable state, whatever fails and whenever the
\* server restarts, where a player whose table could not be saved can be made to
\* leave again (see OneSeatPerPlayer): quota and chips together differ from
\* what there was at first, and what was added by hand, by no more than the
\* operations that table_handlers.go and balance_handlers.go left pending or for
\* review.
THEOREM NoMoneyUnexplained == Spec => [](UndoPossible => MoneyAccounted)
<1>1. Init => Accounted
  BY InitAccounted
<1>2. /\ TypeOK /\ Control /\ (UndoPossible => Accounted) /\ [Next]_vars
      => (UndoPossible' => Accounted')
  BY NextAccounted, SceneFixed DEF UndoPossible, JoinMidHand, Faults
<1>3. TypeOK /\ (UndoPossible => Accounted) => (UndoPossible => MoneyAccounted)
  BY LedgerAccounts
<1>. QED
  BY <1>1, <1>2, <1>3, HandlersInOrder, PTL DEF Spec

===============================================================================
