----------------------- MODULE CallTransactions_proofs -----------------------
(***************************************************************************)
(* Theorems about CallTransactions, for every set of calls, commitments and *)
(* requests: however many requests overlap, statement by statement.        *)
(***************************************************************************)
EXTENDS CallTransactions, SumTheorems, TLAPS

-----------------------------------------------------------------------------
(* The inductive invariant of the locks: what a request has loaded, flushed *)
(* and locked at each of its stages.                                       *)

Orders == Seq(Commitments) \ {<<>>}
PayJobs == [op : {"pay"}, call : Calls, order : Orders, at : Nat, amount : Payments]
AddJobs == [op : {"add"}, call : Calls, order : Orders, at : Nat]
MoveJobs == [op : {"send", "cancel"}, call : Calls]
CronJobs == [op : {"cron"}]
JobType == PayJobs \cup AddJobs \cup MoveJobs \cup CronJobs \cup {NoJob}

\* The functions from some of S to T.
Partial(S, T) == UNION {[D -> T] : D \in SUBSET S}
Loaded == [status : C!CallStatus \cup {"none"}, paid : Nat,
           called : Partial(Commitments, Nat), total : Nat]
Flushed == [item : Partial(Commitments, Nat), total : Partial(Commitments, Nat),
            status : Partial(Calls, C!CallStatus)]

Rows == {Item(k, c) : k \in Calls, c \in Commitments}
          \cup {Total(c) : c \in Commitments} \cup {Call(k) : k \in Calls}

Stages == {"item", "load", "sum", "total", "status", "call", "commit"}
Summing == {"load", "sum", "total"}

RowTypes ==
  /\ status \in [Calls -> C!CallStatus]
  /\ items \in [Calls -> SUBSET Commitments]
  /\ paid \in [Calls -> [Commitments -> Nat]]
  /\ called \in [Commitments -> Nat]
  /\ announced \subseteq Calls

SessionTypes ==
  /\ pc \in [Requests -> Stages \cup {"new", "done"}]
  /\ job \in [Requests -> JobType]
  /\ saw \in [Requests -> Loaded]
  /\ wrote \in [Requests -> Flushed]
  /\ held \in [Requests -> SUBSET Rows]

Types == RowTypes /\ SessionTypes

\* The rows a request has flushed, or is to flush.
Items(r) == {Item(job[r].call, c) : c \in DOMAIN wrote[r].item}
Totals(r) == {Total(c) : c \in DOMAIN wrote[r].total}
CallRows(r) == {Call(k) : k \in DOMAIN wrote[r].status}

\* The commitments of its order a request has passed.
Passed(r) == {Order(r)[j] : j \in 1 .. job[r].at - 1}

\* A payment or an allocation.
Writer(r) ==
  /\ job[r] \in PayJobs \cup AddJobs
  /\ job[r].at \in 1 .. Len(Order(r))
  /\ job[r].op = "pay" => Len(Order(r)) = 1
  /\ pc[r] = "item" => /\ DOMAIN wrote[r].item \subseteq Passed(r)
                       /\ DOMAIN wrote[r].total = {}
  /\ pc[r] \in Summing => DOMAIN wrote[r].total \subseteq Passed(r)
  /\ pc[r] \in {"item", "status"} \cup Summing => DOMAIN wrote[r].status = {}
  /\ pc[r] = "call" => DOMAIN wrote[r].status = {job[r].call}
  /\ pc[r] = "commit" => DOMAIN wrote[r].status \subseteq {job[r].call}

\* A send, a cancel or the cron.
Mover(r) ==
  /\ job[r] \in MoveJobs \cup CronJobs
  /\ pc[r] \in {"call", "commit"}
  /\ DOMAIN wrote[r].item = {} /\ DOMAIN wrote[r].total = {}
  /\ job[r].op # "cron" => DOMAIN wrote[r].status = {job[r].call}

Working(r) ==
  /\ Writer(r) \/ Mover(r)
  /\ Items(r) \cup Totals(r) \subseteq held[r]
  /\ held[r] \subseteq Items(r) \cup Totals(r) \cup CallRows(r)
  /\ pc[r] = "call" /\ job[r].op # "cron" => CallRows(r) \cap held[r] = {}
  /\ pc[r] = "commit" => CallRows(r) \subseteq held[r]

Resting(r) ==
  /\ job[r] = NoJob /\ saw[r] = NotLoaded /\ wrote[r] = Nothing /\ held[r] = {}

Request(r) == IF pc[r] \in {"new", "done"} THEN Resting(r) ELSE Working(r)

Exclusive == \A r, q \in Requests : r # q => held[r] \cap held[q] = {}
OneCron == \A r, q \in Requests : job[r].op = "cron" /\ job[q].op = "cron" => r = q

LockInv == Types /\ (\A r \in Requests : Request(r)) /\ Exclusive /\ OneCron

-----------------------------------------------------------------------------
(* Rows, overlays and jobs.                                                *)

\* A row is one of three kinds, named by what it is the row of.
LEMMA RowsDiffer ==
  /\ \A k, j, c, b : Item(k, c) = Item(j, b) <=> k = j /\ c = b
  /\ \A c, b : Total(c) = Total(b) <=> c = b
  /\ \A k, j : Call(k) = Call(j) <=> k = j
  /\ \A k, c, b : Item(k, c) # Total(b)
  /\ \A k, c, j : Item(k, c) # Call(j)
  /\ \A c, k : Total(c) # Call(k)
BY DEF Item, Total, Call

\* What With returns, and that it stays a function on some of S to T.
LEMMA WithDomain ==
  ASSUME NEW f, NEW x, NEW v
  PROVE  /\ DOMAIN With(f, x, v) = {x} \cup DOMAIN f
         /\ With(f, x, v)[x] = v
         /\ \A y \in DOMAIN f : y # x => With(f, x, v)[y] = f[y]
BY DEF With

LEMMA WithType ==
  ASSUME NEW S, NEW T, NEW f \in Partial(S, T), NEW x \in S, NEW v \in T
  PROVE  With(f, x, v) \in Partial(S, T)
<1>1. PICK D \in SUBSET S : f \in [D -> T]
  BY DEF Partial
<1>2. With(f, x, v) \in [{x} \cup D -> T]
  BY <1>1 DEF With
<1> QED BY <1>2 DEF Partial

\* Nothing is a function on no row.
LEMMA NothingType ==
  /\ Nothing \in Flushed /\ NotLoaded \in Loaded
  /\ DOMAIN NotLoaded.called = {}
<1>1. \A S, T : <<>> \in Partial(S, T)
  <2> TAKE S, T
  <2>1. <<>> \in [{} -> T]
    OBVIOUS
  <2> QED BY <2>1 DEF Partial
<1> QED BY <1>1 DEF Nothing, Flushed, NotLoaded, Loaded

\* An overlay keeps the type of what it is laid over.
LEMMA OverType ==
  ASSUME NEW S, NEW T, NEW w \in Partial(S, T), NEW f \in [S -> T]
  PROVE  Over(w, f) \in [S -> T]
BY DEF Partial, Over

\* The order of a writer is a sequence of commitments and it is at one of them.
LEMMA WriterOrder ==
  ASSUME NEW r \in Requests, Writer(r)
  PROVE  /\ job[r].op \in {"pay", "add"} /\ job[r].call \in Calls
         /\ Order(r) \in Seq(Commitments) /\ Len(Order(r)) \in Nat
         /\ job[r].at \in 1 .. Len(Order(r))
         /\ Current(r) \in Commitments
         /\ job[r].op = "pay" => job[r].amount \in Payments /\ job[r].amount \in Nat
<1>1. /\ job[r].op \in {"pay", "add"} /\ job[r].call \in Calls
      /\ job[r].op = "pay" => job[r].amount \in Payments
  BY DEF Writer, PayJobs, AddJobs
<1>2. /\ Order(r) \in Seq(Commitments) /\ Len(Order(r)) \in Nat
      /\ job[r].at \in 1 .. Len(Order(r))
      /\ Current(r) \in Commitments
  BY DEF Writer, PayJobs, AddJobs, Orders, Order, Current
<1> QED BY <1>1, <1>2, DueAssumption

\* A payment has one commitment to work through.
LEMMA PaysFirst ==
  ASSUME NEW r \in Requests, Writer(r), job[r].op = "pay"
  PROVE  Len(Order(r)) = 1 /\ job[r].at = 1 /\ Current(r) = Order(r)[1]
<1>1. Len(Order(r)) = 1 /\ job[r].at \in 1 .. Len(Order(r))
  BY DEF Writer
<1>2. job[r].at = 1
  BY <1>1
<1> QED BY <1>1, <1>2 DEF Current

\* Advance moves the position and nothing else of the job.
LEMMA AdvanceJob ==
  ASSUME SessionTypes, NEW r \in Requests, Writer(r), NEW again, NEW next,
         Advance(r, again, next)
  PROVE  /\ job' = [job EXCEPT ![r] = job'[r]] /\ pc' = [pc EXCEPT ![r] = pc'[r]]
         /\ job'[r] \in PayJobs \cup AddJobs
         /\ job'[r].op = job[r].op /\ job'[r].call = job[r].call
         /\ job'[r].order = job[r].order
         /\ job'[r].op = "pay" => job'[r].amount = job[r].amount
         /\ \/ /\ pc'[r] = again /\ job'[r].at = job[r].at + 1
               /\ job'[r].at \in 1 .. Len(Order(r))
            \/ /\ pc'[r] = next /\ job'[r].at = 1
               /\ job[r].at = Len(Order(r))
<1>1. job[r].at \in 1 .. Len(Order(r)) /\ Len(Order(r)) \in Nat
  BY WriterOrder
<1>2. PICK n \in Nat : /\ job' = [job EXCEPT ![r].at = n]
                       /\ \/ /\ n = job[r].at + 1 /\ n <= Len(Order(r)) /\ pc' = [pc EXCEPT ![r] = again]
                          \/ /\ n = 1 /\ job[r].at = Len(Order(r)) /\ pc' = [pc EXCEPT ![r] = next]
  <2>1. CASE job[r].at < Len(Order(r))
    <3>1. job[r].at + 1 \in Nat /\ job[r].at + 1 <= Len(Order(r))
      BY <1>1, <2>1
    <3> QED BY <3>1, <2>1 DEF Advance
  <2>2. CASE ~ (job[r].at < Len(Order(r)))
    <3>1. job[r].at = Len(Order(r))
      BY <1>1, <2>2
    <3> QED BY <3>1, <2>2 DEF Advance
  <2> QED BY <2>1, <2>2
<1>3. job[r] \in PayJobs \cup AddJobs
  BY DEF Writer
<1>4. job'[r] = [job[r] EXCEPT !.at = n]
  BY <1>2 DEF SessionTypes
<1>5. /\ job'[r] \in PayJobs \cup AddJobs
      /\ job'[r].op = job[r].op /\ job'[r].call = job[r].call
      /\ job'[r].order = job[r].order /\ job'[r].at = n
      /\ job'[r].op = "pay" => job'[r].amount = job[r].amount
  <2>1. CASE job[r] \in PayJobs
    BY <2>1, <1>4 DEF PayJobs
  <2>2. CASE job[r] \in AddJobs
    BY <2>2, <1>4 DEF AddJobs
  <2> QED BY <1>3, <2>1, <2>2
<1>6. job' = [job EXCEPT ![r] = job'[r]] /\ pc' = [pc EXCEPT ![r] = pc'[r]]
  BY <1>2 DEF SessionTypes
<1> QED BY <1>1, <1>2, <1>5, <1>6 DEF SessionTypes

-----------------------------------------------------------------------------
(* Every step is a step of one request.                                    *)

\* What the other requests have stays as it is.
OnlyOf(r) ==
  /\ pc' = [pc EXCEPT ![r] = pc'[r]]
  /\ job' = [job EXCEPT ![r] = job'[r]]
  /\ saw' = [saw EXCEPT ![r] = saw'[r]]
  /\ wrote' = [wrote EXCEPT ![r] = wrote'[r]]
  /\ held' = [held EXCEPT ![r] = held'[r]]

\* The request's own part of LockInv after a step.
OwnTypes(r) ==
  /\ pc'[r] \in Stages \cup {"new", "done"}
  /\ job'[r] \in JobType /\ saw'[r] \in Loaded
  /\ wrote'[r] \in Flushed /\ held'[r] \subseteq Rows
  /\ \A q \in Requests : q # r => held'[r] \cap held[q] = {}
  /\ job'[r].op = "cron" =>
       job[r].op = "cron" \/ \A q \in Requests : job[q].op # "cron"

\* A step of one request that leaves its own part in order leaves all in order.
LEMMA OneStep ==
  ASSUME LockInv, NEW r \in Requests, OnlyOf(r), RowTypes', OwnTypes(r), Request(r)'
  PROVE  LockInv'
<1>1. SessionTypes'
  BY DEF LockInv, Types, SessionTypes, OnlyOf, OwnTypes
<1>2. ASSUME NEW q \in Requests, q # r
      PROVE  /\ pc'[q] = pc[q] /\ job'[q] = job[q] /\ saw'[q] = saw[q]
             /\ wrote'[q] = wrote[q] /\ held'[q] = held[q]
  BY <1>2 DEF LockInv, Types, SessionTypes, OnlyOf
<1>3. \A q \in Requests : Request(q)'
  <2>1. ASSUME NEW q \in Requests, q # r PROVE Request(q)'
    <3>1. Request(q)
      BY DEF LockInv
    <3> QED BY <1>2, <2>1, <3>1
            DEF Request, Resting, Working, Writer, Mover, Items, Totals, CallRows,
                Passed, Order
  <2> QED BY <2>1
<1>4. Exclusive'
  BY <1>2 DEF LockInv, Exclusive, OwnTypes
<1>5. OneCron'
  <2> SUFFICES ASSUME NEW p \in Requests, NEW q \in Requests, p # q,
                      job'[p].op = "cron", job'[q].op = "cron"
               PROVE  FALSE
    BY DEF OneCron
  <2>1. CASE p # r /\ q # r
    BY <1>2, <2>1 DEF LockInv, OneCron
  <2>2. CASE p = r
    BY <1>2, <2>2 DEF LockInv, OneCron, OwnTypes
  <2>3. CASE q = r
    BY <1>2, <2>3 DEF LockInv, OneCron, OwnTypes
  <2> QED BY <2>1, <2>2, <2>3
<1> QED BY <1>1, <1>3, <1>4, <1>5 DEF LockInv, Types

\* A row that is taken is nobody else's.
LEMMA TakeRow ==
  ASSUME LockInv, NEW r \in Requests, NEW row \in Rows, Take(r, row)
  PROVE  /\ held' = [held EXCEPT ![r] = held'[r]]
         /\ held'[r] = held[r] \cup {row} /\ held'[r] \subseteq Rows
         /\ \A q \in Requests : q # r => held'[r] \cap held[q] = {}
BY DEF Take, Free, LockInv, Types, SessionTypes, Exclusive

\* A rollback leaves nothing of the request.
LEMMA FailRests ==
  ASSUME LockInv, NEW r \in Requests, Fail(r)
  PROVE  LockInv'
<1>1. OnlyOf(r) /\ pc'[r] = "done" /\ Resting(r)'
  BY DEF Fail, OnlyOf, LockInv, Types, SessionTypes, Resting
<1>2. NoJob.op # "cron" /\ NoJob \in JobType /\ NotLoaded \in Loaded
  BY NothingType DEF NoJob, JobType
<1>3. OwnTypes(r)
  BY <1>1, <1>2, NothingType DEF OwnTypes, Resting
<1>4. Request(r)'
  BY <1>1 DEF Request
<1>5. RowTypes'
  BY DEF LockInv, Types, RowTypes, Fail, db
<1> QED BY <1>1, <1>3, <1>4, <1>5, OneStep

\* The statements before the commit leave the rows alone.
LEMMA SameRows ==
  ASSUME LockInv, UNCHANGED db
  PROVE  RowTypes'
BY DEF LockInv, Types, RowTypes, db

\* A request between its begin and its end.
LEMMA AtWork ==
  ASSUME LockInv, NEW r \in Requests, pc[r] \in Stages
  PROVE  Working(r) /\ (Writer(r) \/ Mover(r))
BY DEF LockInv, Request, Stages, Working

\* Only a payment or an allocation flushes items, sums and recomputes.
LEMMA WriterStage ==
  ASSUME LockInv, NEW r \in Requests, pc[r] \in {"item", "status"} \cup Summing
  PROVE  Working(r) /\ Writer(r)
<1>1. pc[r] \in Stages
  BY DEF Stages, Summing
<1> QED BY <1>1, AtWork DEF Mover, Summing

\* A request that begins holds nothing and has flushed nothing.
LEMMA Begins ==
  ASSUME LockInv, NEW r \in Requests, pc[r] = "new"
  PROVE  /\ job[r] = NoJob /\ wrote[r] = Nothing /\ held[r] = {}
         /\ DOMAIN wrote[r].item = {} /\ DOMAIN wrote[r].total = {}
         /\ DOMAIN wrote[r].status = {}
BY DEF LockInv, Request, Resting, Nothing

\* What the beginning of any request does.
LEMMA StartStep ==
  ASSUME LockInv, NEW r \in Requests, NEW request \in JobType,
         NEW loaded \in Loaded, NEW next \in Stages, Start(r, request, loaded, next),
         request.op = "cron" => \A q \in Requests : job[q].op # "cron",
         wrote' = [wrote EXCEPT ![r] = wrote'[r]], wrote'[r] \in Flushed
  PROVE  /\ OnlyOf(r) /\ OwnTypes(r) /\ RowTypes'
         /\ job'[r] = request /\ saw'[r] = loaded /\ pc'[r] = next
         /\ held'[r] = {} /\ pc[r] = "new"
<1>1. pc[r] = "new" /\ held' = held /\ db' = db
  BY DEF Start
<1>2. held[r] = {}
  BY <1>1, Begins
<1>3. OnlyOf(r) /\ job'[r] = request /\ saw'[r] = loaded /\ pc'[r] = next
  BY DEF Start, OnlyOf, LockInv, Types, SessionTypes
<1>4. RowTypes'
  BY <1>1, SameRows
<1> QED BY <1>1, <1>2, <1>3, <1>4 DEF OwnTypes

\* What a request has loaded when it begins.
LEMMA LoadedType ==
  ASSUME RowTypes, NEW k \in Calls
  PROVE  /\ [NotLoaded EXCEPT !.status = status[k]] \in Loaded
         /\ \A c \in Commitments :
              [NotLoaded EXCEPT !.status = status[k], !.paid = paid[k][c]] \in Loaded
         /\ \A S \in SUBSET Commitments :
              [NotLoaded EXCEPT !.status = status[k],
                                !.called = [c \in S |-> called[c]]] \in Loaded
<1>1. status[k] \in C!CallStatus /\ \A c \in Commitments : paid[k][c] \in Nat
  BY DEF RowTypes
<1>2. ASSUME NEW S \in SUBSET Commitments
      PROVE  [c \in S |-> called[c]] \in Partial(Commitments, Nat)
  <2>1. [c \in S |-> called[c]] \in [S -> Nat]
    BY DEF RowTypes
  <2> QED BY <2>1 DEF Partial
<1>3. NotLoaded \in Loaded
  BY NothingType
<1> QED BY <1>1, <1>2, <1>3 DEF Loaded

\* A PATCH begins.
LEMMA StartPayLocks ==
  ASSUME LockInv, NEW r \in Requests, NEW k \in Calls, NEW c \in Commitments,
         NEW p \in Payments, StartPay(r, k, c, p)
  PROVE  LockInv'
<1> DEFINE request == [op |-> "pay", call |-> k, order |-> <<c>>, at |-> 1, amount |-> p]
           loaded == [NotLoaded EXCEPT !.status = status[k], !.paid = paid[k][c]]
<1>1. request \in PayJobs
  <2>1. <<c>> \in Orders /\ p \in Nat
    BY DueAssumption DEF Orders
  <2> QED BY <2>1 DEF PayJobs
<1>2. loaded \in Loaded
  BY LoadedType DEF LockInv, Types
<1>3. Start(r, request, loaded, "item") /\ wrote' = wrote
  BY DEF StartPay
<1>4. wrote' = [wrote EXCEPT ![r] = wrote'[r]] /\ wrote'[r] \in Flushed
  BY <1>3 DEF LockInv, Types, SessionTypes
<1>5. request.op = "pay" /\ request.at = 1 /\ Len(request.order) = 1
  OBVIOUS
<1>6. request \in JobType /\ "item" \in Stages
  BY <1>1 DEF JobType, Stages
<1> HIDE DEF request, loaded
<1>7. /\ OnlyOf(r) /\ OwnTypes(r) /\ RowTypes' /\ pc[r] = "new"
      /\ job'[r] = request /\ pc'[r] = "item" /\ held'[r] = {}
  BY <1>2, <1>3, <1>4, <1>5, <1>6, StartStep
<1>8. /\ DOMAIN wrote'[r].item = {} /\ DOMAIN wrote'[r].total = {}
      /\ DOMAIN wrote'[r].status = {}
  BY <1>3, <1>7, Begins
<1>9. Writer(r)'
  BY <1>1, <1>5, <1>7, <1>8 DEF Writer, Order, Summing
<1>10. Working(r)'
  BY <1>7, <1>8, <1>9 DEF Working, Items, Totals, CallRows
<1> QED BY <1>7, <1>10, OneStep DEF Request

\* An allocation begins, in any order of some commitments.
LEMMA StartAddLocks ==
  ASSUME LockInv, NEW r \in Requests, NEW k \in Calls,
         NEW n \in Nat \ {0}, NEW order \in [1 .. n -> Commitments], StartAdd(r, k, order)
  PROVE  LockInv'
<1> DEFINE request == [op |-> "add", call |-> k, order |-> order, at |-> 1]
           loaded == [NotLoaded EXCEPT !.status = status[k],
                                       !.called = [c \in Range(order) |-> called[c]]]
<1>0. order \in Seq(Commitments) /\ order # <<>> /\ Len(order) = n
  <2>1. order \in Seq(Commitments) /\ Len(order) = n
    OBVIOUS
  <2>2. order # <<>>
    BY <2>1
  <2> QED BY <2>1, <2>2
<1>1. request \in AddJobs
  BY <1>0 DEF AddJobs, Orders
<1>2. loaded \in Loaded
  <2>1. Range(order) \in SUBSET Commitments
    BY DEF Range
  <2> QED BY <2>1, LoadedType DEF LockInv, Types
<1>3. Start(r, request, loaded, "item") /\ wrote' = wrote
  BY DEF StartAdd
<1>4. wrote' = [wrote EXCEPT ![r] = wrote'[r]] /\ wrote'[r] \in Flushed
  BY <1>3 DEF LockInv, Types, SessionTypes
<1>5. request.op = "add" /\ request.at = 1 /\ request.order = order
  OBVIOUS
<1>6. request \in JobType /\ "item" \in Stages
  BY <1>1 DEF JobType, Stages
<1> HIDE DEF request, loaded
<1>7. /\ OnlyOf(r) /\ OwnTypes(r) /\ RowTypes' /\ pc[r] = "new"
      /\ job'[r] = request /\ pc'[r] = "item" /\ held'[r] = {}
  BY <1>2, <1>3, <1>4, <1>5, <1>6, StartStep
<1>8. /\ DOMAIN wrote'[r].item = {} /\ DOMAIN wrote'[r].total = {}
      /\ DOMAIN wrote'[r].status = {}
  BY <1>3, <1>7, Begins
<1>9. Writer(r)'
  BY <1>0, <1>1, <1>5, <1>7, <1>8 DEF Writer, Order, Summing
<1>10. Working(r)'
  BY <1>7, <1>8, <1>9 DEF Working, Items, Totals, CallRows
<1> QED BY <1>7, <1>10, OneStep DEF Request

\* The request of a send or a cancel has the new status to write.
LEMMA StartMoveLocks ==
  ASSUME LockInv, NEW r \in Requests, NEW k \in Calls, NEW op \in {"send", "cancel"},
         NEW new \in C!CallStatus, StartMove(r, k, op, new)
  PROVE  LockInv'
<1> DEFINE request == [op |-> op, call |-> k]
           loaded == [NotLoaded EXCEPT !.status = status[k]]
<1>1. request \in MoveJobs
  BY DEF MoveJobs
<1>2. loaded \in Loaded
  BY LoadedType DEF LockInv, Types
<1>3. Start(r, request, loaded, "call")
  BY DEF StartMove
<1>4. request.op = op /\ request.call = k
  OBVIOUS
<1>5. request \in JobType /\ "call" \in Stages
  BY <1>1 DEF JobType, Stages
<1> HIDE DEF request, loaded
<1>6. pc[r] = "new"
  BY <1>3 DEF Start
<1>7. /\ wrote' = [wrote EXCEPT ![r] = wrote'[r]]
      /\ wrote'[r].item = wrote[r].item /\ wrote'[r].total = wrote[r].total
      /\ wrote'[r].status = With(wrote[r].status, k, new)
      /\ wrote'[r] \in Flushed
  <2>1. wrote[r] \in Flushed
    BY DEF LockInv, Types, SessionTypes
  <2>2. With(wrote[r].status, k, new) \in Partial(Calls, C!CallStatus)
    BY <2>1, WithType DEF Flushed
  <2>3. wrote' = [wrote EXCEPT ![r] = [wrote[r] EXCEPT !.status = With(wrote[r].status, k, new)]]
    BY DEF StartMove
  <2> QED BY <2>1, <2>2, <2>3 DEF LockInv, Types, SessionTypes, Flushed
<1>8. /\ DOMAIN wrote'[r].item = {} /\ DOMAIN wrote'[r].total = {}
      /\ DOMAIN wrote'[r].status = {k}
  <2>1. DOMAIN With(wrote[r].status, k, new) = {k} \cup DOMAIN wrote[r].status
    BY WithDomain
  <2> QED BY <2>1, <1>6, <1>7, Begins
<1>9. /\ OnlyOf(r) /\ OwnTypes(r) /\ RowTypes'
      /\ job'[r] = request /\ pc'[r] = "call" /\ held'[r] = {}
  BY <1>2, <1>3, <1>4, <1>5, <1>7, StartStep
<1>10. Mover(r)'
  BY <1>1, <1>4, <1>8, <1>9 DEF Mover
<1>11. Working(r)'
  BY <1>8, <1>9, <1>10 DEF Working, Items, Totals, CallRows
<1> QED BY <1>9, <1>11, OneStep DEF Request

\* The cron has the calls it found late to write, and is alone.
LEMMA StartCronLocks ==
  ASSUME LockInv, NEW r \in Requests, StartCron(r)
  PROVE  LockInv'
<1> DEFINE request == [op |-> "cron"]
           late == {k \in PastDue : C!CanMove(status[k], "overdue")}
           overdue == [k \in late |-> "overdue"]
<1>1. request \in CronJobs /\ request.op = "cron"
  BY DEF CronJobs
<1>2. NotLoaded \in Loaded
  BY NothingType
<1>3. Start(r, request, NotLoaded, "call") /\ \A q \in Requests : job[q].op # "cron"
  BY DEF StartCron
<1>5. request \in JobType /\ "call" \in Stages
  BY <1>1 DEF JobType, Stages
<1>6. pc[r] = "new"
  BY <1>3 DEF Start
<1>7. /\ wrote' = [wrote EXCEPT ![r] = wrote'[r]]
      /\ wrote'[r].item = wrote[r].item /\ wrote'[r].total = wrote[r].total
      /\ wrote'[r] \in Flushed
  <2>1. wrote[r] \in Flushed
    BY DEF LockInv, Types, SessionTypes
  <2>2. overdue \in Partial(Calls, C!CallStatus)
    <3>1. "overdue" \in C!CallStatus
      BY DEF C!CallStatus
    <3>2. late \in SUBSET Calls
      BY RowsAssumption
    <3> HIDE DEF late
    <3>3. overdue \in [late -> C!CallStatus]
      BY <3>1
    <3> QED BY <3>2, <3>3 DEF Partial
  <2>3. wrote' = [wrote EXCEPT ![r] = [wrote[r] EXCEPT !.status = overdue]]
    BY DEF StartCron
  <2> HIDE DEF overdue
  <2> QED BY <2>1, <2>2, <2>3 DEF LockInv, Types, SessionTypes, Flushed
<1> HIDE DEF request, late
<1>8. DOMAIN wrote'[r].item = {} /\ DOMAIN wrote'[r].total = {}
  BY <1>6, <1>7, Begins
<1>9. /\ OnlyOf(r) /\ OwnTypes(r) /\ RowTypes'
      /\ job'[r] = request /\ pc'[r] = "call" /\ held'[r] = {}
  BY <1>2, <1>3, <1>5, <1>7, StartStep
<1>10. Mover(r)'
  BY <1>1, <1>8, <1>9 DEF Mover
<1>11. Working(r)'
  BY <1>1, <1>8, <1>9, <1>10 DEF Working, Items, Totals, CallRows
<1> QED BY <1>9, <1>11, OneStep DEF Request

\* A statement that flushes an item or a total writes one row of one overlay.
LEMMA FlushItemType ==
  ASSUME SessionTypes, NEW r \in Requests, NEW c \in Commitments, NEW v \in Nat,
         wrote' = [wrote EXCEPT ![r].item = With(@, c, v)]
  PROVE  /\ wrote' = [wrote EXCEPT ![r] = wrote'[r]] /\ wrote'[r] \in Flushed
         /\ wrote'[r].item = With(wrote[r].item, c, v)
         /\ wrote'[r].total = wrote[r].total /\ wrote'[r].status = wrote[r].status
<1>1. wrote[r] \in Flushed
  BY DEF SessionTypes
<1>2. With(wrote[r].item, c, v) \in Partial(Commitments, Nat)
  BY <1>1, WithType DEF Flushed
<1> QED BY <1>1, <1>2 DEF SessionTypes, Flushed

LEMMA FlushTotalType ==
  ASSUME SessionTypes, NEW r \in Requests, NEW c \in Commitments, NEW v \in Nat,
         wrote' = [wrote EXCEPT ![r].total = With(@, c, v)]
  PROVE  /\ wrote' = [wrote EXCEPT ![r] = wrote'[r]] /\ wrote'[r] \in Flushed
         /\ wrote'[r].total = With(wrote[r].total, c, v)
         /\ wrote'[r].item = wrote[r].item /\ wrote'[r].status = wrote[r].status
<1>1. wrote[r] \in Flushed
  BY DEF SessionTypes
<1>2. With(wrote[r].total, c, v) \in Partial(Commitments, Nat)
  BY <1>1, WithType DEF Flushed
<1> QED BY <1>1, <1>2 DEF SessionTypes, Flushed

\* With another position in its order a request has passed the old one.
LEMMA PassedGrows ==
  ASSUME NEW r \in Requests, Writer(r), job'[r].order = job[r].order,
         job'[r].at = job[r].at + 1
  PROVE  Passed(r)' = Passed(r) \cup {Current(r)}
<1>1. job[r].at \in Nat \ {0}
  BY WriterOrder
<1>2. 1 .. job'[r].at - 1 = (1 .. job[r].at - 1) \cup {job[r].at}
  BY <1>1
<1> QED BY <1>2 DEF Passed, Order, Current

\* UPDATE of a payment.
LEMMA WritePaymentLocks ==
  ASSUME LockInv, NEW r \in Requests, WritePayment(r)
  PROVE  LockInv'
<1> DEFINE k == job[r].call
           c == Current(r)
<1>1. /\ pc[r] = "item" /\ job[r].op = "pay" /\ Working(r) /\ Writer(r)
      /\ saw' = saw /\ db' = db /\ Advance(r, "item", "load")
  BY WriterStage DEF WritePayment
<1>2. SessionTypes
  BY DEF LockInv, Types
<1>3. /\ k \in Calls /\ c \in Commitments /\ Item(k, c) \in Rows /\ job[r].amount \in Nat
      /\ Len(Order(r)) = 1 /\ job[r].at = 1
  <2>1. /\ k \in Calls /\ c \in Commitments /\ job[r].amount \in Nat
        /\ job[r].at \in 1 .. Len(Order(r))
    BY <1>1, WriterOrder
  <2>2. Len(Order(r)) = 1
    BY <1>1 DEF Writer
  <2>3. Item(k, c) \in Rows
    BY <2>1 DEF Rows
  <2> QED BY <2>1, <2>2, <2>3
<1>4. /\ job' = [job EXCEPT ![r] = job'[r]] /\ pc' = [pc EXCEPT ![r] = pc'[r]]
      /\ job'[r] \in PayJobs \cup AddJobs /\ job'[r].op = "pay"
      /\ job'[r].call = job[r].call /\ job'[r].order = job[r].order
      /\ pc'[r] = "load" /\ job'[r].at = 1
  <2>1. /\ job' = [job EXCEPT ![r] = job'[r]] /\ pc' = [pc EXCEPT ![r] = pc'[r]]
        /\ job'[r] \in PayJobs \cup AddJobs /\ job'[r].op = job[r].op
        /\ job'[r].call = job[r].call /\ job'[r].order = job[r].order
        /\ \/ job'[r].at = job[r].at + 1 /\ job'[r].at \in 1 .. Len(Order(r))
           \/ pc'[r] = "load" /\ job'[r].at = 1
    BY <1>1, <1>2, AdvanceJob
  <2> QED BY <2>1, <1>1, <1>3
<1>5. /\ DOMAIN wrote[r].item = {} /\ DOMAIN wrote[r].total = {}
      /\ DOMAIN wrote[r].status = {} /\ held[r] = {}
  <2>1. Passed(r) = {}
    BY <1>3 DEF Passed
  <2> QED BY <2>1, <1>1 DEF Writer, Working, Items, Totals, CallRows
<1>6. /\ wrote' = [wrote EXCEPT ![r] = wrote'[r]] /\ wrote'[r] \in Flushed
      /\ held' = [held EXCEPT ![r] = held'[r]] /\ held'[r] \subseteq Rows
      /\ \A q \in Requests : q # r => held'[r] \cap held[q] = {}
      /\ DOMAIN wrote'[r].total = {} /\ DOMAIN wrote'[r].status = {}
      /\ held'[r] = {Item(k, b) : b \in DOMAIN wrote'[r].item}
  <2>1. CASE job[r].amount = saw[r].paid
    <3>1. UNCHANGED <<held, wrote>>
      BY <2>1 DEF WritePayment
    <3> QED BY <1>5, <3>1 DEF LockInv, Types, SessionTypes
  <2>2. CASE job[r].amount # saw[r].paid
    <3>1. /\ Take(r, Item(k, c))
          /\ wrote' = [wrote EXCEPT ![r].item = With(@, c, job[r].amount)]
      BY <2>2 DEF WritePayment
    <3>2. /\ held' = [held EXCEPT ![r] = held'[r]]
          /\ held'[r] = held[r] \cup {Item(k, c)} /\ held'[r] \subseteq Rows
          /\ \A q \in Requests : q # r => held'[r] \cap held[q] = {}
      BY <1>3, <3>1, TakeRow
    <3>3. /\ wrote' = [wrote EXCEPT ![r] = wrote'[r]] /\ wrote'[r] \in Flushed
          /\ wrote'[r].item = With(wrote[r].item, c, job[r].amount)
          /\ wrote'[r].total = wrote[r].total /\ wrote'[r].status = wrote[r].status
      BY <1>2, <1>3, <3>1, FlushItemType
    <3>4. DOMAIN With(wrote[r].item, c, job[r].amount) = {c} \cup DOMAIN wrote[r].item
      BY WithDomain
    <3> QED BY <1>5, <3>2, <3>3, <3>4
  <2> QED BY <2>1, <2>2
<1>7. OnlyOf(r)
  BY <1>1, <1>4, <1>6 DEF OnlyOf, LockInv, Types, SessionTypes
<1>8. OwnTypes(r)
  BY <1>1, <1>4, <1>6 DEF OwnTypes, Stages, JobType, LockInv, Types, SessionTypes
<1>9. Writer(r)'
  <2>1. Order(r)' = Order(r)
    BY <1>4 DEF Order
  <2>2. Len(Order(r)') = 1 /\ job'[r].at \in 1 .. Len(Order(r)')
    BY <2>1, <1>3, <1>4
  <2> QED BY <2>2, <1>4, <1>6 DEF Writer, Summing
<1>10. Working(r)'
  BY <1>4, <1>6, <1>9 DEF Working, Items, Totals, CallRows
<1> QED BY <1>1, <1>4, <1>7, <1>8, <1>10, SameRows, OneStep DEF Request

\* INSERT of an item: the row is taken, or the request fails.
LEMMA InsertItemLocks ==
  ASSUME LockInv, NEW r \in Requests, InsertItem(r)
  PROVE  LockInv'
<1> DEFINE k == job[r].call
           c == Current(r)
<1>1. CASE c \in items[k]
  BY <1>1, FailRests DEF InsertItem
<1>2. CASE c \notin items[k]
  <2>1. /\ pc[r] = "item" /\ job[r].op = "add" /\ Working(r) /\ Writer(r)
        /\ saw' = saw /\ db' = db /\ Advance(r, "item", "load")
        /\ Take(r, Item(k, c))
        /\ wrote' = [wrote EXCEPT ![r].item = With(@, c, 0)]
    BY <1>2, WriterStage DEF InsertItem
  <2>2. SessionTypes
    BY DEF LockInv, Types
  <2>3. /\ k \in Calls /\ c \in Commitments /\ Item(k, c) \in Rows
        /\ Len(Order(r)) \in Nat /\ job[r].at \in 1 .. Len(Order(r))
    BY <2>1, WriterOrder DEF Rows
  <2>4. /\ job' = [job EXCEPT ![r] = job'[r]] /\ pc' = [pc EXCEPT ![r] = pc'[r]]
        /\ job'[r] \in PayJobs \cup AddJobs /\ job'[r].op = "add"
        /\ job'[r].call = job[r].call /\ job'[r].order = job[r].order
        /\ \/ /\ pc'[r] = "item" /\ job'[r].at = job[r].at + 1
              /\ job'[r].at \in 1 .. Len(Order(r))
           \/ pc'[r] = "load" /\ job'[r].at = 1
    BY <2>1, <2>2, AdvanceJob
  <2>5. /\ held' = [held EXCEPT ![r] = held'[r]]
        /\ held'[r] = held[r] \cup {Item(k, c)} /\ held'[r] \subseteq Rows
        /\ \A q \in Requests : q # r => held'[r] \cap held[q] = {}
    BY <2>1, <2>3, TakeRow
  <2>6. /\ wrote' = [wrote EXCEPT ![r] = wrote'[r]] /\ wrote'[r] \in Flushed
        /\ wrote'[r].item = With(wrote[r].item, c, 0)
        /\ wrote'[r].total = wrote[r].total /\ wrote'[r].status = wrote[r].status
    BY <2>1, <2>2, <2>3, FlushItemType
  <2>7. DOMAIN wrote'[r].item = {c} \cup DOMAIN wrote[r].item
    <3>1. DOMAIN With(wrote[r].item, c, 0) = {c} \cup DOMAIN wrote[r].item
      BY WithDomain
    <3> QED BY <3>1, <2>6
  <2>8. /\ DOMAIN wrote'[r].total = {} /\ DOMAIN wrote'[r].status = {}
        /\ DOMAIN wrote[r].item \subseteq Passed(r)
    BY <2>1, <2>6 DEF Writer
  <2>9. OnlyOf(r)
    BY <2>1, <2>4, <2>5, <2>6 DEF OnlyOf, LockInv, Types, SessionTypes
  <2>10. OwnTypes(r)
    BY <2>1, <2>4, <2>5, <2>6 DEF OwnTypes, Stages, JobType, LockInv, Types, SessionTypes
  <2>11. pc'[r] = "item" => DOMAIN wrote'[r].item \subseteq Passed(r)'
    <3> SUFFICES ASSUME pc'[r] = "item"
                 PROVE  DOMAIN wrote'[r].item \subseteq Passed(r)'
      OBVIOUS
    <3>1. Passed(r)' = Passed(r) \cup {Current(r)}
      BY <2>1, <2>4, PassedGrows
    <3> QED BY <3>1, <2>7, <2>8
  <2>12. Writer(r)'
    BY <2>3, <2>4, <2>8, <2>11 DEF Writer, Order, Summing
  <2>13. Items(r)' = Items(r) \cup {Item(k, c)} /\ Totals(r)' = Totals(r)
    BY <2>4, <2>6, <2>7 DEF Items, Totals
  <2>14. held[r] = Items(r) \cup Totals(r)
    BY <2>1 DEF Working, Writer, CallRows
  <2>15. Working(r)'
    BY <2>4, <2>5, <2>12, <2>13, <2>14 DEF Working
  <2> QED BY <2>1, <2>4, <2>9, <2>10, <2>15, SameRows, OneStep DEF Request
<1> QED BY <1>1, <1>2

\* What a session sees of the items of a call is of the types of the rows.
LEMMA SeenTypes ==
  ASSUME LockInv, NEW r \in Requests, NEW k \in Calls
  PROVE  PaidSeen(r, k) \in [Commitments -> Nat] /\ ItemsSeen(r, k) \in SUBSET Commitments
<1>1. /\ paid[k] \in [Commitments -> Nat] /\ items[k] \in SUBSET Commitments
      /\ wrote[r].item \in Partial(Commitments, Nat)
  BY DEF LockInv, Types, RowTypes, SessionTypes, Flushed
<1>2. DOMAIN wrote[r].item \in SUBSET Commitments
  BY <1>1 DEF Partial
<1>3. Over(wrote[r].item, paid[k]) \in [Commitments -> Nat]
  BY <1>1, OverType
<1> QED BY <1>1, <1>2, <1>3 DEF PaidSeen, ItemsSeen

\* The sum of a commitment's payments, as a session sees them.
LEMMA SumSeenType ==
  ASSUME LockInv, NEW r \in Requests, NEW c \in Commitments
  PROVE  SumFunction([k \in Calls |-> PaidSeen(r, k)[c]]) \in Nat
<1>1. \A k \in Calls : PaidSeen(r, k) \in [Commitments -> Nat]
  BY SeenTypes
<1>2. [k \in Calls |-> PaidSeen(r, k)[c]] \in [Calls -> Nat]
  BY <1>1
<1> QED BY <1>2, RowsAssumption, SumNat

\* A statement that reads changes what the session has loaded and the stage.
LEMMA ReadStep ==
  ASSUME LockInv, NEW r \in Requests, UNCHANGED <<db, job, wrote, held>>,
         Working(r), Writer(r),
         saw' = [saw EXCEPT ![r] = saw'[r]], saw'[r] \in Loaded,
         \/ pc[r] = "load" /\ pc' = [pc EXCEPT ![r] = "sum"]
         \/ pc[r] = "sum" /\ pc' = [pc EXCEPT ![r] = "total"]
         \/ pc[r] = "status" /\ pc' = [pc EXCEPT ![r] = "commit"]
  PROVE  LockInv'
<1>1. OnlyOf(r)
  BY DEF OnlyOf, LockInv, Types, SessionTypes
<1>2. OwnTypes(r)
  BY DEF OwnTypes, Stages, LockInv, Types, SessionTypes, Exclusive
<1>3. /\ job'[r] = job[r] /\ wrote'[r] = wrote[r] /\ held'[r] = held[r]
      /\ pc'[r] \in {"sum", "total", "commit"} /\ pc[r] \in {"status"} \cup Summing
      /\ pc'[r] \in Summing => pc[r] \in Summing
  BY DEF LockInv, Types, SessionTypes, Summing
<1>4. DOMAIN wrote[r].status = {}
  BY <1>3 DEF Writer
<1>5. Writer(r)'
  BY <1>3, <1>4 DEF Writer, Order, Passed
<1>6. Working(r)'
  BY <1>3, <1>4, <1>5 DEF Working, Items, Totals, CallRows
<1>7. Request(r)'
  BY <1>3, <1>6 DEF Request
<1>8. RowTypes'
  BY SameRows
<1> QED BY <1>1, <1>2, <1>7, <1>8, OneStep

LEMMA LoadCommitmentLocks ==
  ASSUME LockInv, NEW r \in Requests, LoadCommitment(r)
  PROVE  LockInv'
<1>1. Working(r) /\ Writer(r) /\ pc[r] = "load"
  BY WriterStage DEF LoadCommitment, Summing
<1> DEFINE now == IF Current(r) \in DOMAIN saw[r].called THEN saw[r].called
                  ELSE With(saw[r].called, Current(r), called[Current(r)])
<1>2. now \in Partial(Commitments, Nat)
  <2>1. Current(r) \in Commitments /\ called[Current(r)] \in Nat
    BY <1>1, WriterOrder DEF LockInv, Types, RowTypes
  <2>2. saw[r].called \in Partial(Commitments, Nat)
    BY DEF LockInv, Types, SessionTypes, Loaded
  <2> QED BY <2>1, <2>2, WithType
<1>3. saw' = [saw EXCEPT ![r] = saw'[r]] /\ saw'[r] \in Loaded
  <2>1. saw' = [saw EXCEPT ![r].called = now]
    BY DEF LoadCommitment, LockInv, Types, SessionTypes
  <2> HIDE DEF now
  <2> QED BY <1>2, <2>1 DEF LockInv, Types, SessionTypes, Loaded
<1> QED BY <1>1, <1>3, ReadStep DEF LoadCommitment

LEMMA SumPaymentsLocks ==
  ASSUME LockInv, NEW r \in Requests, SumPayments(r)
  PROVE  LockInv'
<1> DEFINE sum == SumFunction([k \in Calls |-> PaidSeen(r, k)[Current(r)]])
<1>1. Working(r) /\ Writer(r) /\ pc[r] = "sum"
  BY WriterStage DEF SumPayments, Summing
<1>2. sum \in Nat
  BY <1>1, WriterOrder, SumSeenType
<1>3. saw' = [saw EXCEPT ![r].total = sum]
  BY DEF SumPayments
<1> HIDE DEF sum
<1>4. saw' = [saw EXCEPT ![r] = saw'[r]] /\ saw'[r] \in Loaded
  BY <1>2, <1>3 DEF LockInv, Types, SessionTypes, Loaded
<1> QED BY <1>1, <1>4, ReadStep DEF SumPayments

\* UPDATE of a total.
LEMMA FlushCommitmentLocks ==
  ASSUME LockInv, NEW r \in Requests, FlushCommitment(r)
  PROVE  LockInv'
<1> DEFINE c == Current(r)
<1>1. /\ pc[r] = "total" /\ Working(r) /\ Writer(r)
      /\ saw' = saw /\ db' = db /\ Advance(r, "load", "status")
  BY WriterStage DEF FlushCommitment, Summing
<1>2. SessionTypes
  BY DEF LockInv, Types
<1>3. /\ c \in Commitments /\ Total(c) \in Rows /\ saw[r].total \in Nat
      /\ Len(Order(r)) \in Nat /\ job[r].at \in 1 .. Len(Order(r))
  <2>1. c \in Commitments /\ Len(Order(r)) \in Nat /\ job[r].at \in 1 .. Len(Order(r))
    BY <1>1, WriterOrder
  <2>2. saw[r].total \in Nat
    BY <1>2 DEF SessionTypes, Loaded
  <2> QED BY <2>1, <2>2 DEF Rows
<1>4. /\ job' = [job EXCEPT ![r] = job'[r]] /\ pc' = [pc EXCEPT ![r] = pc'[r]]
      /\ job'[r] \in PayJobs \cup AddJobs /\ job'[r].op = job[r].op
      /\ job'[r].call = job[r].call /\ job'[r].order = job[r].order
      /\ \/ /\ pc'[r] = "load" /\ job'[r].at = job[r].at + 1
            /\ job'[r].at \in 1 .. Len(Order(r))
         \/ pc'[r] = "status" /\ job'[r].at = 1
  BY <1>1, <1>2, AdvanceJob
<1>5. /\ DOMAIN wrote[r].total \subseteq Passed(r) /\ DOMAIN wrote[r].status = {}
      /\ held[r] = Items(r) \cup Totals(r)
  <2>1. DOMAIN wrote[r].total \subseteq Passed(r) /\ DOMAIN wrote[r].status = {}
    BY <1>1 DEF Writer, Summing
  <2> QED BY <2>1, <1>1 DEF Working, CallRows
<1>6. /\ wrote' = [wrote EXCEPT ![r] = wrote'[r]] /\ wrote'[r] \in Flushed
      /\ held' = [held EXCEPT ![r] = held'[r]] /\ held'[r] \subseteq Rows
      /\ \A q \in Requests : q # r => held'[r] \cap held[q] = {}
      /\ wrote'[r].item = wrote[r].item /\ DOMAIN wrote'[r].status = {}
      /\ DOMAIN wrote'[r].total \subseteq {c} \cup DOMAIN wrote[r].total
      /\ held'[r] = Items(r) \cup {Total(b) : b \in DOMAIN wrote'[r].total}
  <2>1. CASE saw[r].total = saw[r].called[Current(r)]
    <3>1. UNCHANGED <<held, wrote>>
      BY <2>1 DEF FlushCommitment
    <3> QED BY <1>5, <3>1 DEF LockInv, Types, SessionTypes, Exclusive, Totals
  <2>2. CASE saw[r].total # saw[r].called[Current(r)]
    <3>1. /\ Take(r, Total(c))
          /\ wrote' = [wrote EXCEPT ![r].total = With(@, c, saw[r].total)]
      BY <2>2 DEF FlushCommitment
    <3>2. /\ held' = [held EXCEPT ![r] = held'[r]]
          /\ held'[r] = held[r] \cup {Total(c)} /\ held'[r] \subseteq Rows
          /\ \A q \in Requests : q # r => held'[r] \cap held[q] = {}
      BY <1>3, <3>1, TakeRow
    <3>3. /\ wrote' = [wrote EXCEPT ![r] = wrote'[r]] /\ wrote'[r] \in Flushed
          /\ wrote'[r].total = With(wrote[r].total, c, saw[r].total)
          /\ wrote'[r].item = wrote[r].item /\ wrote'[r].status = wrote[r].status
      BY <1>2, <1>3, <3>1, FlushTotalType
    <3>4. DOMAIN With(wrote[r].total, c, saw[r].total) = {c} \cup DOMAIN wrote[r].total
      BY WithDomain
    <3>5. DOMAIN wrote'[r].total = {c} \cup DOMAIN wrote[r].total
      BY <3>3, <3>4
    <3>6. {Total(b) : b \in DOMAIN wrote'[r].total} = Totals(r) \cup {Total(c)}
      BY <3>5 DEF Totals
    <3> QED BY <1>5, <3>2, <3>3, <3>5, <3>6
  <2> QED BY <2>1, <2>2
<1>7. OnlyOf(r)
  BY <1>1, <1>4, <1>6 DEF OnlyOf, LockInv, Types, SessionTypes
<1>8. OwnTypes(r)
  BY <1>1, <1>4, <1>6 DEF OwnTypes, Stages, JobType, LockInv, Types, SessionTypes, PayJobs, AddJobs
<1>9. pc'[r] = "load" => DOMAIN wrote'[r].total \subseteq Passed(r)'
  <2> SUFFICES ASSUME pc'[r] = "load"
               PROVE  DOMAIN wrote'[r].total \subseteq Passed(r)'
    OBVIOUS
  <2>1. Passed(r)' = Passed(r) \cup {Current(r)}
    BY <1>1, <1>4, PassedGrows
  <2> QED BY <2>1, <1>5, <1>6
<1>10. Writer(r)'
  <2>1. Order(r)' = Order(r)
    BY <1>4 DEF Order
  <2>2. job'[r].at \in 1 .. Len(Order(r)')
    BY <2>1, <1>3, <1>4
  <2>3. job'[r].op = "pay" => Len(Order(r)') = 1
    BY <2>1, <1>1, <1>4 DEF Writer
  <2> QED BY <2>2, <2>3, <1>4, <1>6, <1>9 DEF Writer, Summing
<1>11. Working(r)'
  <2>1. Items(r)' = Items(r)
    BY <1>4, <1>6 DEF Items
  <2>2. held'[r] = Items(r)' \cup Totals(r)'
    BY <2>1, <1>6 DEF Totals
  <2> QED BY <2>2, <1>4, <1>10 DEF Working
<1> QED BY <1>1, <1>4, <1>7, <1>8, <1>11, SameRows, OneStep DEF Request

\* recompute_status: a new status is only put down for its UPDATE.
LEMMA RecomputeStatusLocks ==
  ASSUME LockInv, NEW r \in Requests, RecomputeStatus(r)
  PROVE  LockInv'
<1> DEFINE k == job[r].call
           new == C!Recomputed(saw[r].status, DueOf(k, ItemsSeen(r, k)),
                               PaidSeen(r, k), IF k \in PastDue THEN 0 ELSE 1, 1)
<1>1. Working(r) /\ Writer(r) /\ pc[r] = "status" /\ k \in Calls
  BY WriterStage, WriterOrder DEF RecomputeStatus
<1>2. \/ /\ pc' = [pc EXCEPT ![r] = "commit"]
         /\ UNCHANGED <<db, job, saw, wrote, held, clean>>
      \/ /\ C!CanMove(saw[r].status, new)
         /\ wrote' = [wrote EXCEPT ![r].status = With(@, k, new)]
         /\ pc' = [pc EXCEPT ![r] = "call"]
         /\ UNCHANGED <<db, job, saw, held, clean>>
  BY Zenon DEF RecomputeStatus
<1> HIDE DEF k, new
<1>3. CASE /\ pc' = [pc EXCEPT ![r] = "commit"]
           /\ UNCHANGED <<db, job, saw, wrote, held, clean>>
  <2>1. saw' = [saw EXCEPT ![r] = saw'[r]] /\ saw'[r] \in Loaded
    BY <1>3 DEF LockInv, Types, SessionTypes
  <2> QED BY <2>1, <1>1, <1>3, ReadStep
<1>4. CASE /\ C!CanMove(saw[r].status, new)
           /\ wrote' = [wrote EXCEPT ![r].status = With(@, k, new)]
           /\ pc' = [pc EXCEPT ![r] = "call"]
           /\ UNCHANGED <<db, job, saw, held, clean>>
  <2>1. new \in C!CallStatus
    BY <1>4 DEF C!CanMove, C!CallStatus
  <2>2. wrote[r] \in Flushed
    BY DEF LockInv, Types, SessionTypes
  <2>3. With(wrote[r].status, k, new) \in Partial(Calls, C!CallStatus)
    BY <1>1, <2>1, <2>2, WithType DEF Flushed
  <2>4. /\ wrote' = [wrote EXCEPT ![r] = wrote'[r]] /\ wrote'[r] \in Flushed
        /\ wrote'[r].item = wrote[r].item /\ wrote'[r].total = wrote[r].total
        /\ wrote'[r].status = With(wrote[r].status, k, new)
    BY <1>4, <2>2, <2>3 DEF LockInv, Types, SessionTypes, Flushed
  <2>5. DOMAIN With(wrote[r].status, k, new) = {k} \cup DOMAIN wrote[r].status
    BY WithDomain
  <2>6. DOMAIN wrote[r].status = {}
    BY <1>1 DEF Writer
  <2>7. OnlyOf(r) /\ OwnTypes(r)
    BY <1>4, <2>4 DEF OnlyOf, OwnTypes, LockInv, Types, SessionTypes, Exclusive, Stages
  <2>8. pc'[r] = "call" /\ job'[r] = job[r] /\ held'[r] = held[r]
    BY <1>4 DEF LockInv, Types, SessionTypes
  <2>9. DOMAIN wrote'[r].status = {job'[r].call}
    BY <2>4, <2>5, <2>6, <2>8 DEF k
  <2>10. Writer(r)'
    BY <1>1, <2>8, <2>9 DEF Writer, Order, Summing
  <2>11. Items(r)' = Items(r) /\ Totals(r)' = Totals(r) /\ CallRows(r) = {}
    BY <2>4, <2>6, <2>8 DEF Items, Totals, CallRows
  <2>12. held'[r] = Items(r)' \cup Totals(r)'
    BY <1>1, <2>8, <2>11 DEF Working
  <2>13. CallRows(r)' \cap held'[r] = {}
    BY <2>12, RowsDiffer DEF CallRows, Items, Totals
  <2>14. Working(r)'
    BY <2>8, <2>10, <2>12, <2>13 DEF Working
  <2> QED BY <2>7, <2>8, <2>14, <1>4, SameRows, OneStep DEF Request
<1> QED BY <1>2, <1>3, <1>4

\* A request at "call" has rows to write and goes on until the last is written.
LEMMA FlushCallLocks ==
  ASSUME LockInv, NEW r \in Requests, FlushCall(r)
  PROVE  LockInv'
<1> DEFINE D == DOMAIN wrote[r].status
           left == {k \in D : Call(k) \notin held[r]}
<1>1. Working(r) /\ (Writer(r) \/ Mover(r)) /\ pc[r] = "call" /\ pc[r] \in Stages
  BY AtWork DEF FlushCall, Stages
<1>2. PICK k \in left : Take(r, Call(k))
  BY DEF FlushCall
<1>3. /\ pc' = [pc EXCEPT ![r] = IF Cardinality(left) = 1 THEN "commit" ELSE "call"]
      /\ UNCHANGED <<db, job, saw, wrote, clean>>
  BY DEF FlushCall
<1>4. D \in SUBSET Calls
  <2>1. wrote[r].status \in Partial(Calls, C!CallStatus)
    BY DEF LockInv, Types, SessionTypes, Flushed
  <2> QED BY <2>1 DEF Partial
<1>5. IsFiniteSet(left)
  <2>1. left \subseteq Calls
    BY <1>4
  <2> QED BY <2>1, RowsAssumption, FS_Subset
<1>6. Call(k) \in Rows
  BY <1>2, <1>4 DEF Rows
<1>7. /\ held' = [held EXCEPT ![r] = held'[r]]
      /\ held'[r] = held[r] \cup {Call(k)} /\ held'[r] \subseteq Rows
      /\ \A q \in Requests : q # r => held'[r] \cap held[q] = {}
  BY <1>2, <1>6, TakeRow
<1>8. Cardinality(left) = 1 => \A j \in D : Call(j) \in held'[r]
  <2> SUFFICES ASSUME Cardinality(left) = 1 PROVE \A j \in D : Call(j) \in held'[r]
    OBVIOUS
  <2>1. \E j : left = {j}
    BY <1>5, FS_Singleton
  <2>2. left = {k}
    BY <1>2, <2>1
  <2> QED BY <1>7, <2>2
<1>9. job[r].op # "cron" => Cardinality(left) = 1
  <2> SUFFICES ASSUME job[r].op # "cron" PROVE Cardinality(left) = 1
    OBVIOUS
  <2>1. D = {job[r].call}
    BY <1>1 DEF Writer, Mover
  <2>2. left = {k}
    BY <1>2, <2>1
  <2>3. Cardinality({k}) = 1
    BY FS_Singleton
  <2> QED BY <2>2, <2>3
<1> HIDE DEF left
<1>10. /\ job'[r] = job[r] /\ wrote'[r] = wrote[r] /\ pc'[r] \in {"call", "commit"}
       /\ pc'[r] = "commit" => Cardinality(left) = 1
       /\ pc'[r] = "call" => job[r].op = "cron"
  BY <1>3, <1>9 DEF LockInv, Types, SessionTypes
<1>11. OnlyOf(r) /\ OwnTypes(r)
  BY <1>3, <1>7, <1>10 DEF OnlyOf, OwnTypes, LockInv, Types, SessionTypes, Stages
<1>12. Writer(r)' \/ Mover(r)'
  <2>1. CASE Writer(r)
    BY <2>1, <1>1, <1>10 DEF Writer, Order, Summing
  <2>2. CASE Mover(r)
    BY <2>2, <1>10 DEF Mover
  <2> QED BY <1>1, <2>1, <2>2
<1>13. Working(r)'
  <2>1. Items(r)' = Items(r) /\ Totals(r)' = Totals(r) /\ CallRows(r)' = CallRows(r)
    BY <1>10 DEF Items, Totals, CallRows
  <2>2. Call(k) \in CallRows(r)
    BY <1>2 DEF CallRows, left
  <2>3. pc'[r] = "commit" => CallRows(r) \subseteq held'[r]
    BY <1>8, <1>10 DEF CallRows
  <2> QED BY <2>1, <2>2, <2>3, <1>1, <1>7, <1>10, <1>12 DEF Working
<1> QED BY <1>3, <1>10, <1>11, <1>13, SameRows, OneStep DEF Request

\* A commit writes rows of the declared types and leaves nothing of the request.
LEMMA CommitLocks ==
  ASSUME LockInv, NEW r \in Requests, Commit(r)
  PROVE  LockInv'
<1>1. OnlyOf(r) /\ pc'[r] = "done" /\ Resting(r)'
  BY DEF Commit, OnlyOf, LockInv, Types, SessionTypes, Resting
<1>2. NoJob.op # "cron" /\ NoJob \in JobType /\ NotLoaded \in Loaded
  BY NothingType DEF NoJob, JobType
<1>3. OwnTypes(r)
  BY <1>1, <1>2, NothingType DEF OwnTypes, Resting
<1>4. Request(r)'
  BY <1>1 DEF Request
<1>5. wrote[r] \in Flushed
  BY DEF LockInv, Types, SessionTypes
<1>6. status' \in [Calls -> C!CallStatus]
  BY <1>5, OverType DEF Commit, Flushed, LockInv, Types, RowTypes
<1>7. called' \in [Commitments -> Nat]
  BY <1>5, OverType DEF Commit, Flushed, LockInv, Types, RowTypes
<1>8. paid' \in [Calls -> [Commitments -> Nat]] /\ items' \in [Calls -> SUBSET Commitments]
  BY SeenTypes DEF Commit
<1>9. announced' \subseteq Calls
  <2>1. pc[r] = "commit" /\ pc[r] \in Stages
    BY DEF Commit, Stages
  <2>2. job[r].op = "send" => job[r].call \in Calls
    BY <2>1, AtWork DEF Writer, Mover, PayJobs, AddJobs, MoveJobs, CronJobs
  <2> QED BY <2>2 DEF Commit, LockInv, Types, RowTypes
<1> QED BY <1>1, <1>3, <1>4, <1>6, <1>7, <1>8, <1>9, OneStep DEF RowTypes

-----------------------------------------------------------------------------
(* The invariant.                                                          *)

LEMMA LockInitially == Init => LockInv
<1> SUFFICES ASSUME Init PROVE LockInv
  OBVIOUS
<1>1. RowTypes
  BY DueAssumption DEF Init, RowTypes, C!CallStatus
<1>2. NoJob \in JobType /\ NotLoaded \in Loaded /\ NoJob.op # "cron"
  BY NothingType DEF NoJob, JobType
<1>3. SessionTypes
  BY <1>2, NothingType DEF Init, SessionTypes, Stages
<1>4. \A r \in Requests : Request(r)
  BY DEF Init, Request, Resting
<1>5. Exclusive /\ OneCron
  BY <1>2 DEF Init, Exclusive, OneCron
<1> QED BY <1>1, <1>3, <1>4, <1>5 DEF LockInv, Types

\* A beginning and a step of a request, by the request it is and the statement.
LEMMA BeginCases ==
  ASSUME NEW r \in Requests, Begin(r)
  PROVE  \/ \E k \in Calls, c \in Commitments, p \in Payments : StartPay(r, k, c, p)
         \/ \E k \in Calls, n \in Nat \ {0} : \E order \in [1 .. n -> Commitments] :
              StartAdd(r, k, order)
         \/ \E k \in Calls : StartSend(r, k)
         \/ \E k \in Calls : StartCancel(r, k)
         \/ StartCron(r)
<1>1. ASSUME NEW k \in Calls,
             NEW order \in UNION {[1 .. n -> Commitments] : n \in 1 .. Cardinality(Commitments)},
             StartAdd(r, k, order)
      PROVE  \E n \in Nat \ {0} : order \in [1 .. n -> Commitments]
  <2>1. Cardinality(Commitments) \in Nat
    BY RowsAssumption, FS_CardinalityType
  <2>2. PICK n \in 1 .. Cardinality(Commitments) : order \in [1 .. n -> Commitments]
    OBVIOUS
  <2> QED BY <2>1, <2>2
<1> QED BY <1>1 DEF Begin

LEMMA LockKept == LockInv /\ [Next]_vars => LockInv'
<1> SUFFICES ASSUME LockInv, [Next]_vars PROVE LockInv'
  OBVIOUS
<1>1. ASSUME NEW r \in Requests, Begin(r) PROVE LockInv'
  <2>1. "sent" \in C!CallStatus /\ "cancelled" \in C!CallStatus
    BY DEF C!CallStatus
  <2>2. ASSUME NEW k \in Calls, StartSend(r, k) \/ StartCancel(r, k) PROVE LockInv'
    BY <2>1, <2>2, StartMoveLocks DEF StartSend, StartCancel
  <2> QED BY <1>1, <2>2, BeginCases, StartPayLocks, StartAddLocks, StartCronLocks
<1>2. ASSUME NEW r \in Requests, Step(r) PROVE LockInv'
  BY <1>2, WritePaymentLocks, InsertItemLocks, LoadCommitmentLocks, SumPaymentsLocks,
     FlushCommitmentLocks, RecomputeStatusLocks, FlushCallLocks, CommitLocks, FailRests
  DEF Step, AbortVictim
<1>3. CASE UNCHANGED vars
  <2>1. UNCHANGED <<db, pc, job, saw, wrote, held>>
    BY <1>3 DEF vars
  <2>2. Types'
    BY <2>1 DEF db, LockInv, Types, RowTypes, SessionTypes
  <2>3. \A r \in Requests : Request(r)'
    BY <2>1 DEF LockInv, Request, Resting, Working, Writer, Mover, Items, Totals,
                CallRows, Passed, Order
  <2>4. Exclusive' /\ OneCron'
    BY <2>1 DEF LockInv, Exclusive, OneCron
  <2> QED BY <2>2, <2>3, <2>4 DEF LockInv
<1> QED BY <1>1, <1>2, <1>3 DEF Next, Idle

\* What the statements of the requests do to the rows and to each other's
\* sessions keeps to the locks.
LEMMA LockTheorem == Spec => []LockInv
BY LockInitially, LockKept, PTL DEF Spec

\* Types, for any number of overlapping requests; and a request that has ended,
\* by whatever path, leaves no lock, no flushed value and no loaded row behind.
THEOREM TypeCorrect == Spec => []TypeOK
<1>1. LockInv => TypeOK
  BY DEF LockInv, Types, RowTypes, SessionTypes, Request, Resting, TypeOK, Stages
<1> QED BY <1>1, LockTheorem, PTL

-----------------------------------------------------------------------------
(* What the statements do, in the terms of the request that makes them.    *)

\* A statement of r that neither begins nor ends it, nor puts a status down.
Statement(r) ==
  /\ OnlyOf(r) /\ UNCHANGED <<db, clean>>
  /\ job'[r].op = job[r].op /\ job'[r].call = job[r].call
  /\ job[r].op \in {"pay", "add"} => job'[r].order = job[r].order
  /\ job[r].op = "pay" => job'[r].amount = job[r].amount
  /\ saw'[r].status = saw[r].status /\ saw'[r].paid = saw[r].paid
  /\ wrote'[r].status = wrote[r].status

LEMMA StartPayDoes ==
  ASSUME LockInv, NEW r \in Requests, NEW k \in Calls, NEW c \in Commitments,
         NEW p \in Payments, StartPay(r, k, c, p)
  PROVE  /\ OnlyOf(r) /\ db' = db /\ clean' = clean \cup {r} /\ c \in items[k]
         /\ job'[r].op = "pay" /\ job'[r].call = k /\ job'[r].order = <<c>>
         /\ job'[r].at = 1 /\ job'[r].amount = p
         /\ saw'[r].status = status[k] /\ saw'[r].paid = paid[k][c]
         /\ DOMAIN saw'[r].called = {}
         /\ pc'[r] = "item" /\ wrote'[r] = wrote[r]
         /\ DOMAIN wrote'[r].item = {} /\ DOMAIN wrote'[r].total = {}
         /\ DOMAIN wrote'[r].status = {}
<1>1. /\ pc[r] = "new" /\ db' = db /\ clean' = clean \cup {r} /\ c \in items[k]
      /\ wrote' = wrote
  BY DEF StartPay, Start
<1>2. OnlyOf(r) /\ pc'[r] = "item" /\ wrote'[r] = wrote[r]
  BY DEF StartPay, Start, OnlyOf, LockInv, Types, SessionTypes
<1>3. job'[r] = [op |-> "pay", call |-> k, order |-> <<c>>, at |-> 1, amount |-> p]
  BY DEF StartPay, Start, LockInv, Types, SessionTypes
<1>4. saw'[r] = [NotLoaded EXCEPT !.status = status[k], !.paid = paid[k][c]]
  BY DEF StartPay, Start, LockInv, Types, SessionTypes
<1>5. /\ saw'[r].status = status[k] /\ saw'[r].paid = paid[k][c]
      /\ DOMAIN saw'[r].called = {}
  <2>1. NotLoaded \in Loaded /\ DOMAIN NotLoaded.called = {}
    BY NothingType
  <2> QED BY <1>4, <2>1 DEF Loaded
<1>6. /\ job'[r].op = "pay" /\ job'[r].call = k /\ job'[r].order = <<c>>
      /\ job'[r].at = 1 /\ job'[r].amount = p
  BY <1>3
<1> QED BY <1>1, <1>2, <1>5, <1>6, Begins

LEMMA StartAddDoes ==
  ASSUME LockInv, NEW r \in Requests, NEW k \in Calls, NEW order, StartAdd(r, k, order)
  PROVE  /\ OnlyOf(r) /\ db' = db /\ clean' = clean \cup {r}
         /\ status[k] \notin {"paid", "cancelled"} /\ Range(order) \cap items[k] = {}
         /\ job'[r].op = "add" /\ job'[r].call = k /\ job'[r].order = order
         /\ job'[r].at = 1
         /\ saw'[r].status = status[k] /\ pc'[r] = "item" /\ wrote'[r] = wrote[r]
         /\ \A c \in DOMAIN saw'[r].called : saw'[r].called[c] = called[c]
         /\ DOMAIN wrote'[r].item = {} /\ DOMAIN wrote'[r].total = {}
         /\ DOMAIN wrote'[r].status = {}
<1>1. /\ pc[r] = "new" /\ db' = db /\ clean' = clean \cup {r}
      /\ status[k] \notin {"paid", "cancelled"} /\ Range(order) \cap items[k] = {}
      /\ wrote' = wrote
  BY DEF StartAdd, Start
<1>2. OnlyOf(r) /\ pc'[r] = "item" /\ wrote'[r] = wrote[r]
  BY DEF StartAdd, Start, OnlyOf, LockInv, Types, SessionTypes
<1>3. job'[r] = [op |-> "add", call |-> k, order |-> order, at |-> 1]
  BY DEF StartAdd, Start, LockInv, Types, SessionTypes
<1>4. saw'[r] = [NotLoaded EXCEPT !.status = status[k],
                                  !.called = [c \in Range(order) |-> called[c]]]
  BY DEF StartAdd, Start, LockInv, Types, SessionTypes
<1>5. /\ saw'[r].status = status[k]
      /\ \A c \in DOMAIN saw'[r].called : saw'[r].called[c] = called[c]
  <2>1. NotLoaded \in Loaded
    BY NothingType
  <2> QED BY <1>4, <2>1 DEF Loaded
<1>6. /\ job'[r].op = "add" /\ job'[r].call = k /\ job'[r].order = order
      /\ job'[r].at = 1
  BY <1>3
<1> QED BY <1>1, <1>2, <1>5, <1>6, Begins

LEMMA StartMoveDoes ==
  ASSUME LockInv, NEW r \in Requests, NEW k \in Calls, NEW op, NEW new,
         StartMove(r, k, op, new)
  PROVE  /\ OnlyOf(r) /\ db' = db /\ clean' = clean \cup {r}
         /\ job'[r].op = op /\ job'[r].call = k /\ pc'[r] = "call"
         /\ DOMAIN wrote'[r].item = {} /\ DOMAIN wrote'[r].total = {}
         /\ DOMAIN wrote'[r].status = {k} /\ wrote'[r].status[k] = new
<1>1. Start(r, [op |-> op, call |-> k], [NotLoaded EXCEPT !.status = status[k]], "call")
  BY DEF StartMove
<1>2. pc[r] = "new" /\ db' = db /\ clean' = clean \cup {r}
  BY <1>1 DEF Start
<1>3. wrote[r] = Nothing /\ DOMAIN wrote[r].status = {}
  BY <1>2, Begins
<1>4. wrote' = [wrote EXCEPT ![r] = [wrote[r] EXCEPT !.status = With(wrote[r].status, k, new)]]
  BY DEF StartMove
<1>5. wrote'[r] = [Nothing EXCEPT !.status = With(wrote[r].status, k, new)]
  BY <1>3, <1>4 DEF LockInv, Types, SessionTypes
<1>6. /\ DOMAIN With(wrote[r].status, k, new) = {k} \cup DOMAIN wrote[r].status
      /\ With(wrote[r].status, k, new)[k] = new
  BY DEF With
<1>7. OnlyOf(r) /\ job'[r] = [op |-> op, call |-> k] /\ pc'[r] = "call"
  BY <1>1, <1>4 DEF Start, OnlyOf, LockInv, Types, SessionTypes
<1>8. DOMAIN wrote'[r].item = {} /\ DOMAIN wrote'[r].total = {}
      /\ wrote'[r].status = With(wrote[r].status, k, new)
  BY <1>5 DEF Nothing
<1> QED BY <1>2, <1>3, <1>6, <1>7, <1>8

\* The calls the cron finds late.
LateNow == {k \in PastDue : C!CanMove(status[k], "overdue")}

LEMMA StartCronDoes ==
  ASSUME LockInv, NEW r \in Requests, StartCron(r)
  PROVE  /\ OnlyOf(r) /\ db' = db /\ clean' = clean \cup {r}
         /\ job'[r].op = "cron" /\ pc'[r] = "call" /\ LateNow # {}
         /\ DOMAIN wrote'[r].item = {} /\ DOMAIN wrote'[r].total = {}
         /\ wrote'[r].status = [k \in LateNow |-> "overdue"]
<1>1. /\ Start(r, [op |-> "cron"], NotLoaded, "call") /\ LateNow # {}
      /\ wrote' = [wrote EXCEPT ![r] = [wrote[r] EXCEPT !.status = [k \in LateNow |-> "overdue"]]]
  BY DEF StartCron, LateNow
<1>2. pc[r] = "new" /\ db' = db /\ clean' = clean \cup {r}
  BY <1>1 DEF Start
<1>3. wrote[r] = Nothing
  BY <1>2, Begins
<1>4. wrote'[r] = [Nothing EXCEPT !.status = [k \in LateNow |-> "overdue"]]
  BY <1>1, <1>3 DEF LockInv, Types, SessionTypes
<1>5. OnlyOf(r) /\ job'[r] = [op |-> "cron"] /\ pc'[r] = "call"
  BY <1>1 DEF Start, OnlyOf, LockInv, Types, SessionTypes
<1>6. DOMAIN wrote'[r].item = {} /\ DOMAIN wrote'[r].total = {}
      /\ wrote'[r].status = [k \in LateNow |-> "overdue"]
  BY <1>4 DEF Nothing
<1> QED BY <1>1, <1>2, <1>5, <1>6

\* The position of a request that works through an order, after a statement:
\* the next one, or the first one of the next stage.
Moved(r, again, next) ==
  \/ /\ pc'[r] = again /\ job'[r].at = job[r].at + 1
     /\ job'[r].at \in 1 .. Len(Order(r))
  \/ pc'[r] = next /\ job'[r].at = 1 /\ job[r].at = Len(Order(r))

LEMMA AdvanceDoes ==
  ASSUME LockInv, NEW r \in Requests, Writer(r), NEW again, NEW next,
         Advance(r, again, next), UNCHANGED <<db, saw, clean>>,
         wrote' = [wrote EXCEPT ![r] = wrote'[r]], held' = [held EXCEPT ![r] = held'[r]],
         wrote'[r].status = wrote[r].status
  PROVE  Statement(r) /\ Moved(r, again, next)
<1>1. SessionTypes
  BY DEF LockInv, Types
<1>2. /\ job' = [job EXCEPT ![r] = job'[r]] /\ pc' = [pc EXCEPT ![r] = pc'[r]]
      /\ job'[r].op = job[r].op /\ job'[r].call = job[r].call
      /\ job'[r].order = job[r].order
      /\ job'[r].op = "pay" => job'[r].amount = job[r].amount
      /\ Moved(r, again, next)
  BY <1>1, AdvanceJob DEF Moved
<1>3. saw' = [saw EXCEPT ![r] = saw'[r]] /\ saw'[r] = saw[r]
  BY <1>1 DEF SessionTypes
<1> QED BY <1>2, <1>3 DEF Statement, OnlyOf

LEMMA WritePaymentDoes ==
  ASSUME LockInv, NEW r \in Requests, WritePayment(r)
  PROVE  /\ Statement(r) /\ Writer(r) /\ Moved(r, "item", "load")
         /\ pc[r] = "item" /\ job[r].op = "pay" /\ saw' = saw
         /\ wrote'[r].total = wrote[r].total
         /\ IF job[r].amount = saw[r].paid
            THEN wrote'[r].item = wrote[r].item
            ELSE wrote'[r].item = With(wrote[r].item, Current(r), job[r].amount)
<1>1. /\ pc[r] = "item" /\ job[r].op = "pay" /\ Writer(r)
      /\ UNCHANGED <<db, saw, clean>> /\ Advance(r, "item", "load")
  BY WriterStage DEF WritePayment
<1>2. SessionTypes /\ Current(r) \in Commitments /\ job[r].amount \in Nat
  BY <1>1, WriterOrder DEF LockInv, Types
<1>3. /\ wrote' = [wrote EXCEPT ![r] = wrote'[r]] /\ held' = [held EXCEPT ![r] = held'[r]]
      /\ wrote'[r].total = wrote[r].total /\ wrote'[r].status = wrote[r].status
      /\ IF job[r].amount = saw[r].paid
         THEN wrote'[r].item = wrote[r].item
         ELSE wrote'[r].item = With(wrote[r].item, Current(r), job[r].amount)
  <2>1. CASE job[r].amount = saw[r].paid
    BY <1>2, <2>1 DEF WritePayment, SessionTypes
  <2>2. CASE job[r].amount # saw[r].paid
    <3>1. /\ wrote' = [wrote EXCEPT ![r].item = With(@, Current(r), job[r].amount)]
          /\ Take(r, Item(job[r].call, Current(r)))
      BY <2>2 DEF WritePayment
    <3>2. held' = [held EXCEPT ![r] = held'[r]]
      BY <1>2, <3>1 DEF Take, SessionTypes
    <3> QED BY <1>2, <2>2, <3>1, <3>2, FlushItemType
  <2> QED BY <2>1, <2>2
<1> QED BY <1>1, <1>3, AdvanceDoes

LEMMA InsertItemDoes ==
  ASSUME LockInv, NEW r \in Requests, InsertItem(r)
  PROVE  \/ Fail(r)
         \/ /\ Statement(r) /\ Writer(r) /\ Moved(r, "item", "load")
            /\ pc[r] = "item" /\ job[r].op = "add" /\ saw' = saw
            /\ wrote'[r].total = wrote[r].total
            /\ Current(r) \notin items[job[r].call]
            /\ wrote'[r].item = With(wrote[r].item, Current(r), 0)
<1>1. CASE Current(r) \in items[job[r].call]
  BY <1>1 DEF InsertItem
<1>2. CASE Current(r) \notin items[job[r].call]
  <2>1. /\ pc[r] = "item" /\ job[r].op = "add" /\ Writer(r)
        /\ UNCHANGED <<db, saw, clean>> /\ Advance(r, "item", "load")
        /\ wrote' = [wrote EXCEPT ![r].item = With(@, Current(r), 0)]
        /\ Take(r, Item(job[r].call, Current(r)))
    BY <1>2, WriterStage DEF InsertItem
  <2>2. SessionTypes /\ Current(r) \in Commitments
    BY <2>1, WriterOrder DEF LockInv, Types
  <2>3. /\ wrote' = [wrote EXCEPT ![r] = wrote'[r]]
        /\ wrote'[r].total = wrote[r].total /\ wrote'[r].status = wrote[r].status
        /\ wrote'[r].item = With(wrote[r].item, Current(r), 0)
    BY <2>1, <2>2, FlushItemType
  <2>4. held' = [held EXCEPT ![r] = held'[r]]
    BY <2>1, <2>2 DEF Take, SessionTypes
  <2> QED BY <1>2, <2>1, <2>3, <2>4, AdvanceDoes
<1> QED BY <1>1, <1>2

LEMMA LoadCommitmentDoes ==
  ASSUME LockInv, NEW r \in Requests, LoadCommitment(r)
  PROVE  /\ Statement(r) /\ Writer(r) /\ pc[r] = "load" /\ pc'[r] = "sum"
         /\ job'[r] = job[r] /\ wrote'[r] = wrote[r]
         /\ Current(r) \in DOMAIN saw'[r].called
         /\ \A c \in DOMAIN saw'[r].called :
              \/ c \in DOMAIN saw[r].called /\ saw'[r].called[c] = saw[r].called[c]
              \/ saw'[r].called[c] = called[c]
<1> DEFINE now == IF Current(r) \in DOMAIN saw[r].called THEN saw[r].called
                  ELSE With(saw[r].called, Current(r), called[Current(r)])
<1>1. SessionTypes /\ Writer(r)
  BY WriterStage DEF LockInv, Types, LoadCommitment, Summing
<1>2. saw' = [saw EXCEPT ![r].called = now]
  BY <1>1 DEF LoadCommitment, SessionTypes
<1>3. /\ Current(r) \in DOMAIN now
      /\ \A c \in DOMAIN now : \/ c \in DOMAIN saw[r].called /\ now[c] = saw[r].called[c]
                             \/ now[c] = called[c]
  BY DEF With
<1> HIDE DEF now
<1>4. /\ OnlyOf(r) /\ pc'[r] = "sum" /\ job'[r] = job[r] /\ wrote'[r] = wrote[r]
      /\ saw'[r] = [saw[r] EXCEPT !.called = now]
  BY <1>1, <1>2 DEF LoadCommitment, OnlyOf, SessionTypes
<1>5. saw[r] \in Loaded
  BY <1>1 DEF SessionTypes
<1>6. /\ saw'[r].status = saw[r].status /\ saw'[r].paid = saw[r].paid
      /\ saw'[r].called = now
  BY <1>4, <1>5 DEF Loaded
<1> QED BY <1>1, <1>3, <1>4, <1>6 DEF LoadCommitment, Statement

LEMMA SumPaymentsDoes ==
  ASSUME LockInv, NEW r \in Requests, SumPayments(r)
  PROVE  /\ Statement(r) /\ Writer(r) /\ pc[r] = "sum" /\ pc'[r] = "total"
         /\ job'[r] = job[r] /\ wrote'[r] = wrote[r]
         /\ saw'[r].called = saw[r].called
         /\ saw'[r].total = SumFunction([k \in Calls |-> PaidSeen(r, k)[Current(r)]])
<1> DEFINE sum == SumFunction([k \in Calls |-> PaidSeen(r, k)[Current(r)]])
<1>1. SessionTypes /\ Writer(r)
  BY WriterStage DEF LockInv, Types, SumPayments, Summing
<1>2. /\ saw' = [saw EXCEPT ![r].total = sum]
      /\ pc[r] = "sum" /\ pc' = [pc EXCEPT ![r] = "total"]
      /\ UNCHANGED <<db, job, wrote, held, clean>>
  BY DEF SumPayments
<1> HIDE DEF sum
<1>3. /\ OnlyOf(r) /\ pc'[r] = "total" /\ job'[r] = job[r] /\ wrote'[r] = wrote[r]
      /\ saw'[r] = [saw[r] EXCEPT !.total = sum]
  BY <1>1, <1>2 DEF OnlyOf, SessionTypes
<1>4. saw[r] \in Loaded
  BY <1>1 DEF SessionTypes
<1>5. /\ saw'[r].status = saw[r].status /\ saw'[r].paid = saw[r].paid
      /\ saw'[r].called = saw[r].called /\ saw'[r].total = sum
  BY <1>3, <1>4 DEF Loaded
<1>6. Statement(r)
  BY <1>2, <1>3, <1>5 DEF Statement
<1> QED BY <1>1, <1>2, <1>3, <1>5, <1>6 DEF sum

LEMMA FlushCommitmentDoes ==
  ASSUME LockInv, NEW r \in Requests, FlushCommitment(r)
  PROVE  /\ Statement(r) /\ Writer(r) /\ Moved(r, "load", "status")
         /\ pc[r] = "total" /\ saw' = saw /\ wrote'[r].item = wrote[r].item
         /\ IF saw[r].total = saw[r].called[Current(r)]
            THEN wrote'[r].total = wrote[r].total
            ELSE wrote'[r].total = With(wrote[r].total, Current(r), saw[r].total)
<1>1. /\ pc[r] = "total" /\ Writer(r)
      /\ UNCHANGED <<db, saw, clean>> /\ Advance(r, "load", "status")
  BY WriterStage DEF FlushCommitment, Summing
<1>2. SessionTypes /\ Current(r) \in Commitments
  BY <1>1, WriterOrder DEF LockInv, Types
<1>3. saw[r].total \in Nat
  BY <1>2 DEF SessionTypes, Loaded
<1>4. /\ wrote' = [wrote EXCEPT ![r] = wrote'[r]] /\ held' = [held EXCEPT ![r] = held'[r]]
      /\ wrote'[r].item = wrote[r].item /\ wrote'[r].status = wrote[r].status
      /\ IF saw[r].total = saw[r].called[Current(r)]
         THEN wrote'[r].total = wrote[r].total
         ELSE wrote'[r].total = With(wrote[r].total, Current(r), saw[r].total)
  <2>1. CASE saw[r].total = saw[r].called[Current(r)]
    BY <1>2, <2>1 DEF FlushCommitment, SessionTypes
  <2>2. CASE saw[r].total # saw[r].called[Current(r)]
    <3>1. /\ wrote' = [wrote EXCEPT ![r].total = With(@, Current(r), saw[r].total)]
          /\ Take(r, Total(Current(r)))
      BY <2>2 DEF FlushCommitment
    <3>2. held' = [held EXCEPT ![r] = held'[r]]
      BY <1>2, <3>1 DEF Take, SessionTypes
    <3> QED BY <1>2, <1>3, <2>2, <3>1, <3>2, FlushTotalType
  <2> QED BY <2>1, <2>2
<1> QED BY <1>1, <1>4, AdvanceDoes

\* The status recompute_status computes for the call of r.
NewStatus(r) ==
  C!Recomputed(saw[r].status, DueOf(job[r].call, ItemsSeen(r, job[r].call)),
               PaidSeen(r, job[r].call), IF job[r].call \in PastDue THEN 0 ELSE 1, 1)

LEMMA RecomputeStatusDoes ==
  ASSUME LockInv, NEW r \in Requests, RecomputeStatus(r)
  PROVE  /\ OnlyOf(r) /\ UNCHANGED <<db, clean>> /\ Writer(r) /\ pc[r] = "status"
         /\ job'[r] = job[r] /\ saw'[r] = saw[r]
         /\ wrote'[r].item = wrote[r].item /\ wrote'[r].total = wrote[r].total
         /\ \/ /\ NewStatus(r) = saw[r].status /\ pc'[r] = "commit"
               /\ wrote'[r] = wrote[r] /\ DOMAIN wrote'[r].status = {}
            \/ /\ C!CanMove(saw[r].status, NewStatus(r)) /\ pc'[r] = "call"
               /\ DOMAIN wrote'[r].status = {job[r].call}
               /\ wrote'[r].status[job[r].call] = NewStatus(r)
<1> DEFINE k == job[r].call
<1>1. SessionTypes /\ Writer(r) /\ pc[r] = "status" /\ DOMAIN wrote[r].status = {}
  <2>1. pc[r] = "status"
    BY DEF RecomputeStatus
  <2>2. Writer(r)
    BY <2>1, WriterStage
  <2> QED BY <2>1, <2>2 DEF Writer, LockInv, Types
<1>2. /\ UNCHANGED <<db, clean, job, saw, held>>
      /\ \/ /\ NewStatus(r) = saw[r].status /\ wrote' = wrote
            /\ pc' = [pc EXCEPT ![r] = "commit"]
         \/ /\ C!CanMove(saw[r].status, NewStatus(r))
            /\ wrote' = [wrote EXCEPT ![r] = [wrote[r] EXCEPT
                           !.status = With(wrote[r].status, k, NewStatus(r))]]
            /\ pc' = [pc EXCEPT ![r] = "call"]
  BY Zenon DEF RecomputeStatus, NewStatus
<1>3. CASE /\ NewStatus(r) = saw[r].status /\ wrote' = wrote
           /\ pc' = [pc EXCEPT ![r] = "commit"]
  BY <1>1, <1>2, <1>3 DEF OnlyOf, SessionTypes
<1>4. CASE /\ C!CanMove(saw[r].status, NewStatus(r))
           /\ wrote' = [wrote EXCEPT ![r] = [wrote[r] EXCEPT
                          !.status = With(wrote[r].status, k, NewStatus(r))]]
           /\ pc' = [pc EXCEPT ![r] = "call"]
  <2>1. wrote[r] \in Flushed
    BY <1>1 DEF SessionTypes
  <2>2. OnlyOf(r) /\ pc'[r] = "call" /\ job'[r] = job[r] /\ saw'[r] = saw[r]
    BY <1>1, <1>2, <1>4 DEF OnlyOf, SessionTypes
  <2>3. /\ wrote'[r].item = wrote[r].item /\ wrote'[r].total = wrote[r].total
        /\ wrote'[r].status = With(wrote[r].status, k, NewStatus(r))
    BY <1>1, <1>4, <2>1 DEF SessionTypes, Flushed
  <2>4. /\ DOMAIN With(wrote[r].status, k, NewStatus(r)) = {k} \cup DOMAIN wrote[r].status
        /\ With(wrote[r].status, k, NewStatus(r))[k] = NewStatus(r)
    BY DEF With
  <2> HIDE DEF k
  <2>5. DOMAIN wrote'[r].status = {k} /\ wrote'[r].status[k] = NewStatus(r)
    BY <1>1, <2>3, <2>4
  <2> QED BY <1>1, <1>2, <1>4, <2>2, <2>3, <2>5 DEF k
<1> QED BY <1>2, <1>3, <1>4

LEMMA FlushCallDoes ==
  ASSUME LockInv, NEW r \in Requests, FlushCall(r)
  PROVE  /\ Statement(r) /\ pc[r] = "call" /\ pc'[r] \in {"call", "commit"}
         /\ job'[r] = job[r] /\ saw'[r] = saw[r] /\ wrote'[r] = wrote[r]
<1> DEFINE left == {k \in DOMAIN wrote[r].status : Call(k) \notin held[r]}
<1>1. /\ pc[r] = "call" /\ UNCHANGED <<db, job, saw, wrote, clean>>
      /\ pc' = [pc EXCEPT ![r] = IF Cardinality(left) = 1 THEN "commit" ELSE "call"]
      /\ \E k \in left : Take(r, Call(k))
  BY DEF FlushCall
<1>2. held' = [held EXCEPT ![r] = held'[r]]
  BY <1>1 DEF Take, LockInv, Types, SessionTypes
<1> HIDE DEF left
<1> QED BY <1>1, <1>2 DEF Statement, OnlyOf, LockInv, Types, SessionTypes

\* An end leaves nothing of the request.
LEMMA EndDoes ==
  ASSUME LockInv, NEW r \in Requests, Fail(r) \/ Commit(r)
  PROVE  /\ OnlyOf(r) /\ pc'[r] = "done" /\ job'[r].op = "none"
         /\ DOMAIN wrote'[r].status = {} /\ DOMAIN wrote'[r].item = {}
         /\ DOMAIN wrote'[r].total = {}
<1>1. OnlyOf(r) /\ pc'[r] = "done" /\ job'[r] = NoJob /\ wrote'[r] = Nothing
  BY DEF Fail, Commit, OnlyOf, LockInv, Types, SessionTypes
<1> QED BY <1>1 DEF NoJob, Nothing

\* The steps of a request that has begun.
LEMMA StepCases ==
  ASSUME LockInv, NEW r \in Requests, Step(r)
  PROVE  OnlyOf(r) /\ (Statement(r) \/ RecomputeStatus(r) \/ Commit(r) \/ Fail(r))
<1>1. CASE WritePayment(r)
  BY <1>1, WritePaymentDoes DEF Statement
<1>2. CASE InsertItem(r)
  BY <1>2, InsertItemDoes, EndDoes DEF Statement
<1>3. CASE LoadCommitment(r)
  BY <1>3, LoadCommitmentDoes DEF Statement
<1>4. CASE SumPayments(r)
  <2>1. Statement(r)
    BY <1>4, SumPaymentsDoes
  <2> QED BY <2>1 DEF Statement
<1>5. CASE FlushCommitment(r)
  BY <1>5, FlushCommitmentDoes DEF Statement
<1>6. CASE RecomputeStatus(r)
  BY <1>6, RecomputeStatusDoes
<1>7. CASE FlushCall(r)
  BY <1>7, FlushCallDoes DEF Statement
<1>8. CASE Commit(r) \/ Fail(r)
  BY <1>8, EndDoes
<1> QED BY <1>1, <1>2, <1>3, <1>4, <1>5, <1>6, <1>7, <1>8 DEF Step, AbortVictim

\* The other requests, as OnlyOf leaves them.
LEMMA OthersKeep ==
  ASSUME LockInv, NEW r \in Requests, OnlyOf(r), NEW q \in Requests, q # r
  PROVE  /\ pc'[q] = pc[q] /\ job'[q] = job[q] /\ saw'[q] = saw[q]
         /\ wrote'[q] = wrote[q] /\ held'[q] = held[q]
BY DEF OnlyOf, LockInv, Types, SessionTypes

-----------------------------------------------------------------------------
(* Statuses.                                                               *)

Shown(s) == s \notin C!LpHidden \cup {"none"}

\* What an investor can see was announced, and so was what a request in flight
\* goes on from or is about to write, a send's own call aside.
StatusInv ==
  /\ \A k \in Calls : Shown(status[k]) => k \in announced
  /\ \A r \in Requests :
       /\ job[r].op \in {"pay", "add"} /\ Shown(saw[r].status) => job[r].call \in announced
       /\ \A k \in DOMAIN wrote[r].status :
            Shown(wrote[r].status[k]) => k \in announced \/ (job[r].op = "send" /\ k = job[r].call)

\* The part of it a request answers for.
OwnStatus(r) ==
  /\ job'[r].op \in {"pay", "add"} /\ Shown(saw'[r].status) => job'[r].call \in announced'
  /\ \A k \in DOMAIN wrote'[r].status :
       Shown(wrote'[r].status[k]) =>
         k \in announced' \/ (job'[r].op = "send" /\ k = job'[r].call)

LEMMA StatusStep ==
  ASSUME LockInv, StatusInv, NEW r \in Requests, OnlyOf(r), announced \subseteq announced',
         \A k \in Calls : Shown(status'[k]) => k \in announced',
         OwnStatus(r)
  PROVE  StatusInv'
<1>1. ASSUME NEW q \in Requests
      PROVE  OwnStatus(q)
  <2>1. CASE q = r
    BY <2>1
  <2>2. CASE q # r
    BY <2>2, OthersKeep DEF OwnStatus, StatusInv
  <2> QED BY <2>1, <2>2
<1> QED BY <1>1 DEF StatusInv, OwnStatus

LEMMA StatusKept == LockInv /\ StatusInv /\ [Next]_vars => StatusInv'
<1> SUFFICES ASSUME LockInv, StatusInv, [Next]_vars PROVE StatusInv'
  OBVIOUS
<1>0. \A r \in Requests, k \in Calls : Shown(status[k]) => k \in announced
  BY DEF StatusInv
<1>1. ASSUME NEW r \in Requests, NEW k \in Calls, NEW c \in Commitments,
             NEW p \in Payments, StartPay(r, k, c, p)
      PROVE  StatusInv'
  <2>1. /\ OnlyOf(r) /\ status' = status /\ announced' = announced
        /\ job'[r].call = k /\ saw'[r].status = status[k] /\ DOMAIN wrote'[r].status = {}
    BY <1>1, StartPayDoes DEF db
  <2> QED BY <2>1, StatusStep DEF OwnStatus, StatusInv
<1>2. ASSUME NEW r \in Requests, NEW k \in Calls, NEW order, StartAdd(r, k, order)
      PROVE  StatusInv'
  <2>1. /\ OnlyOf(r) /\ status' = status /\ announced' = announced
        /\ job'[r].call = k /\ saw'[r].status = status[k] /\ DOMAIN wrote'[r].status = {}
    BY <1>2, StartAddDoes DEF db
  <2> QED BY <2>1, StatusStep DEF OwnStatus, StatusInv
<1>3. ASSUME NEW r \in Requests, NEW k \in Calls, StartSend(r, k) \/ StartCancel(r, k)
      PROVE  StatusInv'
  <2>1. PICK op \in {"send", "cancel"}, new \in {"sent", "cancelled"} :
          StartMove(r, k, op, new) /\ (new = "sent" => op = "send")
    BY <1>3 DEF StartSend, StartCancel
  <2>2. /\ OnlyOf(r) /\ status' = status /\ announced' = announced
        /\ job'[r].op = op /\ job'[r].call = k
        /\ DOMAIN wrote'[r].status = {k} /\ wrote'[r].status[k] = new
    BY <2>1, StartMoveDoes DEF db
  <2>3. ~Shown("cancelled")
    BY DEF Shown, C!LpHidden
  <2> QED BY <2>1, <2>2, <2>3, StatusStep DEF OwnStatus, StatusInv
<1>4. ASSUME NEW r \in Requests, StartCron(r)
      PROVE  StatusInv'
  <2>1. /\ OnlyOf(r) /\ status' = status /\ announced' = announced
        /\ job'[r].op = "cron"
        /\ wrote'[r].status = [k \in LateNow |-> "overdue"]
    BY <1>4, StartCronDoes DEF db
  <2>2. ASSUME NEW k \in LateNow PROVE k \in announced
    <3>1. k \in Calls /\ Shown(status[k])
      BY RowsAssumption DEF LateNow, C!CanMove, Shown, C!LpHidden, C!Sendable
    <3> QED BY <3>1 DEF StatusInv
  <2>3. OwnStatus(r)
    BY <2>1, <2>2 DEF OwnStatus
  <2> QED BY <2>1, <2>3, StatusStep DEF StatusInv
<1>5. ASSUME NEW r \in Requests, Statement(r)
      PROVE  StatusInv'
  <2>1. OnlyOf(r) /\ status' = status /\ announced' = announced /\ OwnStatus(r)
    BY <1>5 DEF Statement, StatusInv, OwnStatus, db
  <2> QED BY <2>1, StatusStep DEF StatusInv
<1>6. ASSUME NEW r \in Requests, RecomputeStatus(r)
      PROVE  StatusInv'
  <2>1. /\ OnlyOf(r) /\ status' = status /\ announced' = announced
        /\ job'[r] = job[r] /\ saw'[r] = saw[r] /\ job[r].op \in {"pay", "add"}
        /\ \/ DOMAIN wrote'[r].status = {}
           \/ /\ C!CanMove(saw[r].status, NewStatus(r))
              /\ DOMAIN wrote'[r].status = {job[r].call}
              /\ wrote'[r].status[job[r].call] = NewStatus(r)
    BY <1>6, RecomputeStatusDoes, WriterOrder DEF db
  <2>2. C!CanMove(saw[r].status, NewStatus(r)) => Shown(saw[r].status)
    BY DEF C!CanMove, NewStatus, C!Recomputed, C!Terminal, C!Sendable, Shown, C!LpHidden
  <2>3. Shown(saw[r].status) => job[r].call \in announced
    BY <2>1 DEF StatusInv
  <2>4. OwnStatus(r)
    BY <2>1, <2>2, <2>3 DEF OwnStatus
  <2> QED BY <2>1, <2>4, StatusStep DEF StatusInv
<1>7. ASSUME NEW r \in Requests, Commit(r)
      PROVE  StatusInv'
  <2>1. OnlyOf(r) /\ OwnStatus(r)
    BY <1>7, EndDoes DEF OwnStatus
  <2>2. /\ announced \subseteq announced'
        /\ job[r].op = "send" => job[r].call \in announced'
    BY <1>7 DEF Commit
  <2>3. ASSUME NEW k \in Calls, Shown(status'[k]) PROVE k \in announced'
    <3>1. status'[k] = IF k \in DOMAIN wrote[r].status THEN wrote[r].status[k] ELSE status[k]
      BY <1>7 DEF Commit, Over, LockInv, Types, RowTypes
    <3> QED BY <3>1, <2>2, <2>3 DEF StatusInv
  <2> QED BY <2>1, <2>2, <2>3, StatusStep
<1>8. ASSUME NEW r \in Requests, Fail(r)
      PROVE  StatusInv'
  <2>1. OnlyOf(r) /\ OwnStatus(r) /\ status' = status /\ announced' = announced
    BY <1>8, EndDoes DEF OwnStatus, Fail, db
  <2> QED BY <2>1, StatusStep DEF StatusInv
<1>9. CASE UNCHANGED vars
  BY <1>9 DEF StatusInv, vars, db
<1>10. ASSUME NEW r \in Requests, Begin(r) PROVE StatusInv'
  BY <1>1, <1>2, <1>3, <1>4, <1>10, BeginCases
<1>11. ASSUME NEW r \in Requests, Step(r) PROVE StatusInv'
  BY <1>5, <1>6, <1>7, <1>8, <1>11, StepCases
<1> QED BY <1>9, <1>10, <1>11 DEF Next, Idle

\* However requests overlap, a call that shows at an investor's was sent: a
\* request that goes on from a stale status goes on from one that was committed,
\* and recompute_status moves no draft.
THEOREM VisibilityTheorem == Spec => []NeverShownUnsent
<1>1. Init => StatusInv
  <2> SUFFICES ASSUME Init PROVE StatusInv
    OBVIOUS
  <2>1. \A k \in Calls : Shown(status[k]) => k \in announced
    BY DueAssumption DEF Init, Shown, C!LpHidden, C!Sendable
  <2>2. \A r \in Requests : job[r].op = "none" /\ DOMAIN wrote[r].status = {}
    BY DEF Init, NoJob, Nothing
  <2> QED BY <2>1, <2>2 DEF StatusInv
<1>2. StatusInv => NeverShownUnsent
  BY DEF StatusInv, NeverShownUnsent, C!NeverShownUnsent, C!Exists, Shown
<1> QED BY <1>1, <1>2, StatusKept, LockTheorem, PTL DEF Spec

-----------------------------------------------------------------------------
(* Items.                                                                  *)

\* The part of ItemInv about a request: an allocation has inserted items there
\* are none of, unpaid; a payment writes an item there is.
OwnItems(r) ==
  /\ job[r].op = "add" =>
       /\ DOMAIN wrote[r].item \cap items[job[r].call] = {}
       /\ \A c \in DOMAIN wrote[r].item : wrote[r].item[c] = 0
  /\ job[r].op = "pay" =>
       /\ Order(r)[1] \in items[job[r].call]
       /\ DOMAIN wrote[r].item \subseteq {Order(r)[1]}

\* Nothing is paid where there is no item.
ItemInv ==
  /\ \A k \in Calls : \A c \in Commitments \ items[k] : paid[k][c] = 0
  /\ \A r \in Requests : OwnItems(r)

LEMMA ItemStep ==
  ASSUME LockInv, ItemInv, NEW r \in Requests, OnlyOf(r), items' = items, paid' = paid,
         OwnItems(r)'
  PROVE  ItemInv'
<1>1. ASSUME NEW q \in Requests PROVE OwnItems(q)'
  <2>1. CASE q = r
    BY <2>1
  <2>2. CASE q # r
    BY <2>2, OthersKeep DEF OwnItems, ItemInv, Order
  <2> QED BY <2>1, <2>2
<1> QED BY <1>1 DEF ItemInv

\* What a commit does to the items and the payments of a call: a payment keeps
\* the items and changes what is paid on its own, an allocation adds items there
\* were none of, and any other request changes neither.
LEMMA CommitItems ==
  ASSUME LockInv, ItemInv, NEW r \in Requests, Commit(r), NEW k \in Calls
  PROVE  \/ items'[k] = items[k] /\ paid'[k] = paid[k]
         \/ /\ job[r].op = "pay" /\ job[r].call = k /\ items'[k] = items[k]
            /\ \A c \in Commitments \ items[k] : paid'[k][c] = paid[k][c]
         \/ /\ job[r].op = "add" /\ job[r].call = k
            /\ items'[k] = items[k] \cup DOMAIN wrote[r].item
            /\ paid'[k] = paid[k]
<1>1. paid'[k] = PaidSeen(r, k) /\ items'[k] = ItemsSeen(r, k)
  BY DEF Commit
<1>2. paid[k] \in [Commitments -> Nat] /\ items[k] \in SUBSET Commitments
  BY DEF LockInv, Types, RowTypes
<1>3. OwnItems(r) /\ \A c \in Commitments \ items[k] : paid[k][c] = 0
  BY DEF ItemInv
<1>4. CASE ~WritesItemsOf(r, k)
  BY <1>1, <1>4 DEF PaidSeen, ItemsSeen
<1>5. CASE WritesItemsOf(r, k) /\ job[r].op = "pay"
  <2>1. DOMAIN wrote[r].item \subseteq items[k]
    BY <1>3, <1>5 DEF OwnItems, WritesItemsOf
  <2>2. items'[k] = items[k]
    BY <1>1, <1>5, <2>1 DEF ItemsSeen
  <2>3. paid'[k] = Over(wrote[r].item, paid[k])
    BY <1>1, <1>5 DEF PaidSeen
  <2>4. \A c \in Commitments \ items[k] : paid'[k][c] = paid[k][c]
    BY <1>2, <2>1, <2>3 DEF Over
  <2> QED BY <1>5, <2>2, <2>4 DEF WritesItemsOf
<1>6. CASE WritesItemsOf(r, k) /\ job[r].op = "add"
  <2>1. /\ DOMAIN wrote[r].item \cap items[k] = {}
        /\ \A c \in DOMAIN wrote[r].item : wrote[r].item[c] = 0
    BY <1>3, <1>6 DEF OwnItems, WritesItemsOf
  <2>2. Over(wrote[r].item, paid[k]) = paid[k]
    BY <1>2, <1>3, <2>1 DEF Over
  <2> QED BY <1>1, <1>6, <2>2 DEF PaidSeen, ItemsSeen, WritesItemsOf
<1> QED BY <1>4, <1>5, <1>6 DEF WritesItemsOf

\* Two requests have not both flushed the item of a commitment to one call.
LEMMA ItemsApart ==
  ASSUME LockInv, NEW r \in Requests, NEW q \in Requests, q # r,
         pc[r] \in Stages, pc[q] \in Stages, job[r].call = job[q].call
  PROVE  DOMAIN wrote[r].item \cap DOMAIN wrote[q].item = {}
<1>1. Items(r) \subseteq held[r] /\ Items(q) \subseteq held[q]
  BY AtWork DEF Working
<1>2. held[r] \cap held[q] = {}
  BY DEF LockInv, Exclusive
<1> QED BY <1>1, <1>2 DEF Items

\* A request at rest has no job.
LEMMA AtRest ==
  ASSUME LockInv, NEW r \in Requests, job[r].op # "none"
  PROVE  pc[r] \in Stages
<1>1. pc[r] \in Stages \cup {"new", "done"} /\ Request(r)
  BY DEF LockInv, Types, SessionTypes
<1>2. NoJob.op = "none"
  BY DEF NoJob
<1> QED BY <1>1, <1>2 DEF Request, Resting

LEMMA ItemCommitKept ==
  ASSUME LockInv, ItemInv, NEW r \in Requests, Commit(r)
  PROVE  ItemInv'
<1>1. \A k \in Calls : \A c \in Commitments \ items'[k] : paid'[k][c] = 0
  <2> TAKE k \in Calls
  <2>1. \A c \in Commitments \ items[k] : paid[k][c] = 0
    BY DEF ItemInv
  <2>2. items[k] \subseteq items'[k]
    BY CommitItems
  <2> QED BY <2>1, <2>2, CommitItems
<1>2. OwnItems(r)'
  BY EndDoes DEF OwnItems
<1>3. ASSUME NEW q \in Requests, q # r PROVE OwnItems(q)'
  <2>1. /\ OwnItems(q) /\ pc[r] \in Stages
        /\ job'[q] = job[q] /\ wrote'[q] = wrote[q]
    BY <1>3, EndDoes, OthersKeep DEF ItemInv, Commit, Stages
  <2>2. CASE job[q].op \notin {"pay", "add"}
    BY <2>1, <2>2 DEF OwnItems
  <2>3. CASE job[q].op \in {"pay", "add"}
    <3>1. pc[q] \in Stages
      BY <2>3, AtRest
    <3>2. job[q].call \in Calls
      BY <2>3, <3>1, AtWork, WriterOrder DEF Mover, MoveJobs, CronJobs
    <3>3. items[job[q].call] \subseteq items'[job[q].call]
      BY <3>2, CommitItems
    <3>4. CASE job[q].op = "pay"
      BY <2>1, <3>3, <3>4 DEF OwnItems, Order
    <3>5. CASE job[q].op = "add"
      <4>1. DOMAIN wrote[q].item \cap items'[job[q].call] = {}
        <5>1. DOMAIN wrote[q].item \cap items[job[q].call] = {}
          BY <2>1, <3>5 DEF OwnItems
        <5>2. CASE job[r].call = job[q].call
          <6>1. DOMAIN wrote[r].item \cap DOMAIN wrote[q].item = {}
            BY <1>3, <2>1, <3>1, <5>2, ItemsApart
          <6> QED BY <3>2, <5>1, <6>1, CommitItems
        <5>3. CASE job[r].call # job[q].call
          BY <3>2, <5>1, <5>3, CommitItems
        <5> QED BY <5>2, <5>3
      <4> QED BY <2>1, <3>5, <4>1 DEF OwnItems
    <3> QED BY <2>3, <3>4, <3>5
  <2> QED BY <2>2, <2>3
<1> QED BY <1>1, <1>2, <1>3 DEF ItemInv

LEMMA ItemsKept == LockInv /\ ItemInv /\ [Next]_vars => ItemInv'
<1> SUFFICES ASSUME LockInv, ItemInv, [Next]_vars PROVE ItemInv'
  OBVIOUS
<1>1. ASSUME NEW r \in Requests, OnlyOf(r), db' = db, OwnItems(r)' PROVE ItemInv'
  BY <1>1, ItemStep DEF db
<1>2. ASSUME NEW r \in Requests, NEW k \in Calls, NEW c \in Commitments,
             NEW p \in Payments, StartPay(r, k, c, p)
      PROVE  ItemInv'
  <2>1. /\ OnlyOf(r) /\ db' = db /\ c \in items[k]
        /\ job'[r].op = "pay" /\ job'[r].call = k /\ job'[r].order = <<c>>
        /\ DOMAIN wrote'[r].item = {}
    BY <1>2, StartPayDoes
  <2>2. OwnItems(r)'
    BY <2>1 DEF OwnItems, Order, db
  <2> QED BY <1>1, <2>1, <2>2
<1>3. ASSUME NEW r \in Requests, NEW k \in Calls, NEW order, StartAdd(r, k, order)
      PROVE  ItemInv'
  <2>1. /\ OnlyOf(r) /\ db' = db /\ job'[r].op = "add" /\ DOMAIN wrote'[r].item = {}
    BY <1>3, StartAddDoes
  <2>2. OwnItems(r)'
    BY <2>1 DEF OwnItems
  <2> QED BY <1>1, <2>1, <2>2
<1>4. ASSUME NEW r \in Requests, NEW k \in Calls, StartSend(r, k) \/ StartCancel(r, k)
      PROVE  ItemInv'
  <2>1. OnlyOf(r) /\ db' = db /\ job'[r].op \in {"send", "cancel"}
    BY <1>4, StartMoveDoes DEF StartSend, StartCancel
  <2>2. OwnItems(r)'
    BY <2>1 DEF OwnItems
  <2> QED BY <1>1, <2>1, <2>2
<1>5. ASSUME NEW r \in Requests, StartCron(r)
      PROVE  ItemInv'
  <2>1. OnlyOf(r) /\ db' = db /\ job'[r].op = "cron"
    BY <1>5, StartCronDoes
  <2>2. OwnItems(r)'
    BY <2>1 DEF OwnItems
  <2> QED BY <1>1, <2>1, <2>2
<1>6. ASSUME NEW r \in Requests, Statement(r), wrote'[r].item = wrote[r].item
      PROVE  ItemInv'
  <2>1. OwnItems(r) /\ OnlyOf(r) /\ db' = db
    BY <1>6 DEF ItemInv, Statement
  <2>2. OwnItems(r)'
    BY <1>6, <2>1 DEF OwnItems, Statement, Order, db
  <2> QED BY <1>1, <2>1, <2>2
<1>7. ASSUME NEW r \in Requests, WritePayment(r)
      PROVE  ItemInv'
  <2>1. /\ Statement(r) /\ Writer(r) /\ job[r].op = "pay" /\ OwnItems(r)
        /\ \/ wrote'[r].item = wrote[r].item
           \/ wrote'[r].item = With(wrote[r].item, Current(r), job[r].amount)
    BY <1>7, WritePaymentDoes DEF ItemInv
  <2>2. Current(r) = Order(r)[1]
    BY <2>1, PaysFirst
  <2>3. DOMAIN With(wrote[r].item, Current(r), job[r].amount)
          = {Current(r)} \cup DOMAIN wrote[r].item
    BY WithDomain
  <2>4. DOMAIN wrote'[r].item \subseteq {Order(r)[1]}
    BY <2>1, <2>2, <2>3 DEF OwnItems
  <2>5. Order(r)' = Order(r) /\ db' = db /\ OnlyOf(r)
    BY <2>1 DEF Statement, Order
  <2>6. OwnItems(r)'
    BY <2>1, <2>4, <2>5 DEF OwnItems, Statement, db
  <2> QED BY <1>1, <2>5, <2>6
<1>8. ASSUME NEW r \in Requests, InsertItem(r), ~Fail(r)
      PROVE  ItemInv'
  <2>1. /\ Statement(r) /\ Writer(r) /\ job[r].op = "add" /\ OwnItems(r)
        /\ Current(r) \notin items[job[r].call]
        /\ wrote'[r].item = With(wrote[r].item, Current(r), 0)
    BY <1>8, InsertItemDoes DEF ItemInv
  <2>2. DOMAIN With(wrote[r].item, Current(r), 0) = {Current(r)} \cup DOMAIN wrote[r].item
    BY WithDomain
  <2>3. \A c \in DOMAIN wrote'[r].item : wrote'[r].item[c] = 0
    BY <2>1 DEF With, OwnItems
  <2>4. DOMAIN wrote'[r].item \cap items[job[r].call] = {}
    BY <2>1, <2>2 DEF OwnItems
  <2>5. db' = db /\ OnlyOf(r) /\ job'[r].op = "add" /\ job'[r].call = job[r].call
    BY <2>1 DEF Statement
  <2>6. OwnItems(r)'
    BY <2>3, <2>4, <2>5 DEF OwnItems, db
  <2> QED BY <1>1, <2>5, <2>6
<1>9. ASSUME NEW r \in Requests, RecomputeStatus(r)
      PROVE  ItemInv'
  <2>1. /\ OnlyOf(r) /\ db' = db /\ job'[r] = job[r]
        /\ wrote'[r].item = wrote[r].item /\ OwnItems(r)
    BY <1>9, RecomputeStatusDoes DEF ItemInv
  <2>2. OwnItems(r)'
    BY <2>1 DEF OwnItems, Order, db
  <2> QED BY <1>1, <2>1, <2>2
<1>10. ASSUME NEW r \in Requests, Fail(r)
       PROVE  ItemInv'
  <2>1. OnlyOf(r) /\ db' = db /\ job'[r].op = "none"
    BY <1>10, EndDoes DEF Fail
  <2>2. OwnItems(r)'
    BY <2>1 DEF OwnItems
  <2> QED BY <1>1, <2>1, <2>2
<1>11. ASSUME NEW r \in Requests, Begin(r) PROVE ItemInv'
  BY <1>2, <1>3, <1>4, <1>5, <1>11, BeginCases
<1>12. ASSUME NEW r \in Requests, Step(r) PROVE ItemInv'
  <2>1. CASE LoadCommitment(r)
    BY <2>1, <1>6, LoadCommitmentDoes
  <2>2. CASE SumPayments(r)
    <3>1. Statement(r) /\ wrote'[r] = wrote[r]
      BY <2>2, SumPaymentsDoes
    <3> QED BY <3>1, <1>6
  <2>3. CASE FlushCommitment(r)
    BY <2>3, <1>6, FlushCommitmentDoes
  <2>4. CASE FlushCall(r)
    BY <2>4, <1>6, FlushCallDoes
  <2> QED BY <1>12, <2>1, <2>2, <2>3, <2>4, <1>7, <1>8, <1>9, <1>10, ItemCommitKept
          DEF Step, AbortVictim
<1>13. CASE UNCHANGED vars
  BY <1>13 DEF ItemInv, OwnItems, Order, vars, db
<1> QED BY <1>11, <1>12, <1>13 DEF Next, Idle

LEMMA ItemTheorem == Spec => [](LockInv /\ ItemInv)
<1>1. Init => ItemInv
  <2> SUFFICES ASSUME Init PROVE ItemInv
    OBVIOUS
  <2>1. \A r \in Requests : job[r].op = "none"
    BY DEF Init, NoJob
  <2> QED BY <2>1 DEF Init, ItemInv, OwnItems
<1> QED BY <1>1, ItemsKept, LockTheorem, PTL DEF Spec

\* Only a payment changes what is paid on an item: an allocation that comes
\* second cannot insert the pair again, and what it has inserted itself was
\* nobody's to pay before it commits.
THEOREM PaymentsTheorem == Spec => PaymentsSurviveAllocations
<1>1. LockInv /\ ItemInv /\ [Next]_vars =>
        [\A k \in Calls : \A c \in items[k] : paid'[k][c] # paid[k][c]
            => \E r \in Requests : job[r].op = "pay" /\ pc'[r] = "done"]_vars
  <2> SUFFICES ASSUME LockInv, ItemInv, [Next]_vars, NEW k \in Calls, NEW c \in items[k],
                      paid'[k][c] # paid[k][c]
               PROVE  \E r \in Requests : job[r].op = "pay" /\ pc'[r] = "done"
    OBVIOUS
  <2>1. db' # db
    BY DEF db
  <2>2. ASSUME NEW r \in Requests, Begin(r) PROVE db' = db
    BY <2>2, BeginCases DEF StartPay, StartAdd, StartSend, StartCancel, StartMove,
                            StartCron, Start
  <2>3. ASSUME NEW r \in Requests, Step(r) PROVE Commit(r)
    BY <2>1, <2>3, StepCases, RecomputeStatusDoes DEF Statement, Fail
  <2>4. PICK r \in Requests : Commit(r)
    BY <2>1, <2>2, <2>3 DEF Next, Idle, vars
  <2> QED BY <2>4, CommitItems, EndDoes
<1> QED BY <1>1, ItemTheorem, PTL DEF Spec, PaymentsSurviveAllocations

-----------------------------------------------------------------------------
(* A request nobody's commit has come between.                             *)

\* The sum of a commitment's payments, as request r sees them.
SumSeen(r, c) == SumFunction([k \in Calls |-> PaidSeen(r, k)[c]])

\* The commitments whose totals r has dealt with.
Dealt(r) ==
  IF pc[r] = "item" THEN {}
  ELSE IF pc[r] \in Summing THEN Passed(r) ELSE Range(Order(r))

\* The totals r has loaded are the committed ones.
FreshTotals(r) == \A c \in DOMAIN saw[r].called : saw[r].called[c] = called[c]

\* A payment or an allocation goes on from the committed status and totals, sees the
\* committed items with its own flushed, and has each total it has dealt with
\* at the sum it sees; what it is about to leave as the status is recompute_status
\* of the committed one.
CleanWriter(r) ==
  LET k == job[r].call IN
  /\ saw[r].status = status[k]
  /\ job[r].op = "pay" =>
       /\ saw[r].paid = paid[k][Order(r)[1]]
       /\ pc[r] # "item" =>
            Over(wrote[r].item, paid[k]) = [paid[k] EXCEPT ![Order(r)[1]] = job[r].amount]
  /\ job[r].op = "add" =>
       /\ status[k] \notin {"paid", "cancelled"}
       /\ Range(Order(r)) \cap items[k] = {}
       /\ DOMAIN wrote[r].item = IF pc[r] = "item" THEN Passed(r) ELSE Range(Order(r))
  /\ FreshTotals(r)
  /\ pc[r] \in {"sum", "total"} => Current(r) \in DOMAIN saw[r].called
  /\ pc[r] = "total" => saw[r].total = SumSeen(r, Current(r))
  /\ DOMAIN wrote[r].total \subseteq Dealt(r)
  /\ \A c \in Dealt(r) : Over(wrote[r].total, called)[c] = SumSeen(r, c)
  /\ pc[r] \in {"call", "commit"} =>
       /\ NewStatus(r) = status[k] \/ C!CanMove(status[k], NewStatus(r))
       /\ Over(wrote[r].status, status)[k] = NewStatus(r)

CleanMover(r) ==
  LET k == job[r].call IN
  /\ job[r].op = "send" => status[k] \in C!Sendable /\ wrote[r].status[k] = "sent"
  /\ job[r].op = "cancel" =>
       C!CanMove(status[k], "cancelled") /\ wrote[r].status[k] = "cancelled"
  /\ job[r].op = "cron" => LateNow # {} /\ wrote[r].status = [j \in LateNow |-> "overdue"]

CleanOne(r) == IF job[r].op \in {"pay", "add"} THEN CleanWriter(r) ELSE CleanMover(r)

CleanInv ==
  /\ clean \subseteq Requests
  /\ \A r \in clean : pc[r] \in Stages /\ CleanOne(r)

\* What the session of r sees depends on its own items and the committed rows.
LEMMA SeenSame ==
  ASSUME NEW r \in Requests, db' = db, job'[r].op = job[r].op,
         job'[r].call = job[r].call, wrote'[r].item = wrote[r].item
  PROVE  /\ \A k : PaidSeen(r, k)' = PaidSeen(r, k) /\ ItemsSeen(r, k)' = ItemsSeen(r, k)
         /\ \A c : SumSeen(r, c)' = SumSeen(r, c)
         /\ saw'[r].status = saw[r].status => NewStatus(r)' = NewStatus(r)
<1>1. \A k : PaidSeen(r, k)' = PaidSeen(r, k) /\ ItemsSeen(r, k)' = ItemsSeen(r, k)
  BY DEF PaidSeen, ItemsSeen, WritesItemsOf, db
<1>2. \A c : SumSeen(r, c)' = SumSeen(r, c)
  BY <1>1 DEF SumSeen
<1>3. saw'[r].status = saw[r].status => NewStatus(r)' = NewStatus(r)
  BY <1>1 DEF NewStatus, DueOf
<1> QED BY <1>1, <1>2, <1>3

LEMMA TotalsSame ==
  ASSUME NEW r, db' = db, saw'[r].called = saw[r].called
  PROVE  FreshTotals(r)' = FreshTotals(r)
BY DEF FreshTotals, db

\* A request that is not the one whose step it is stays as clean as it was.
LEMMA CleanStep ==
  ASSUME LockInv, CleanInv, NEW r \in Requests, OnlyOf(r), db' = db,
         clean' \subseteq clean \cup {r},
         r \in clean' => pc'[r] \in Stages /\ CleanOne(r)'
  PROVE  CleanInv'
<1>1. ASSUME NEW q \in clean', q # r PROVE pc'[q] \in Stages /\ CleanOne(q)'
  <2>1. /\ q \in Requests /\ pc[q] \in Stages /\ CleanOne(q)
        /\ pc'[q] = pc[q] /\ job'[q] = job[q] /\ saw'[q] = saw[q] /\ wrote'[q] = wrote[q]
    BY <1>1, OthersKeep DEF CleanInv
  <2>2. /\ \A k : PaidSeen(q, k)' = PaidSeen(q, k) /\ ItemsSeen(q, k)' = ItemsSeen(q, k)
        /\ \A c : SumSeen(q, c)' = SumSeen(q, c)
        /\ NewStatus(q)' = NewStatus(q)
    BY <2>1, SeenSame
  <2>3. /\ Dealt(q)' = Dealt(q) /\ Passed(q)' = Passed(q) /\ Order(q)' = Order(q)
        /\ Current(q)' = Current(q) /\ LateNow' = LateNow
    BY <2>1 DEF Dealt, Passed, Order, Current, LateNow, db
  <2>4. UNCHANGED <<status, items, paid, called>>
    BY DEF db
  <2>5. ASSUME CleanWriter(q) PROVE CleanWriter(q)'
    <3>1. FreshTotals(q)'
      BY <2>1, <2>5, TotalsSame DEF CleanWriter
    <3> QED BY <2>1, <2>2, <2>3, <2>4, <2>5, <3>1 DEF CleanWriter, Over
  <2>6. ASSUME CleanMover(q) PROVE CleanMover(q)'
    BY <2>1, <2>3, <2>4, <2>6 DEF CleanMover
  <2> QED BY <2>1, <2>5, <2>6 DEF CleanOne
<1> QED BY <1>1 DEF CleanInv

\* At the end of its order a request has been through all of it.
LEMMA WholeOrder ==
  ASSUME NEW r \in Requests, Writer(r), job[r].at = Len(Order(r))
  PROVE  Range(Order(r)) = Passed(r) \cup {Current(r)}
<1>1. Order(r) \in Seq(Commitments) /\ Len(Order(r)) \in Nat /\ job[r].at \in 1 .. Len(Order(r))
  BY WriterOrder
<1>2. Range(Order(r)) = {Order(r)[j] : j \in 1 .. Len(Order(r))}
  BY <1>1 DEF Range
<1>3. 1 .. Len(Order(r)) = (1 .. job[r].at - 1) \cup {job[r].at}
  BY <1>1
<1> QED BY <1>2, <1>3 DEF Passed, Current

\* A writer's first position.
LEMMA FirstPosition ==
  ASSUME NEW r, job[r].at = 1
  PROVE  Passed(r) = {}
BY DEF Passed

LEMMA StartPayClean ==
  ASSUME LockInv, CleanInv, NEW r \in Requests, NEW k \in Calls,
         NEW c \in Commitments, NEW p \in Payments, StartPay(r, k, c, p)
  PROVE  CleanInv'
<1>1. /\ OnlyOf(r) /\ db' = db /\ clean' = clean \cup {r}
      /\ job'[r].op = "pay" /\ job'[r].call = k /\ job'[r].order = <<c>>
      /\ saw'[r].status = status[k] /\ saw'[r].paid = paid[k][c]
      /\ DOMAIN saw'[r].called = {}
      /\ pc'[r] = "item" /\ DOMAIN wrote'[r].total = {}
  BY StartPayDoes
<1>2. Dealt(r)' = {} /\ Order(r)'[1] = c
  <2>1. Order(r)' = <<c>>
    BY <1>1 DEF Order
  <2> QED BY <1>1, <2>1 DEF Dealt
<1>3. status' = status /\ paid' = paid
  BY <1>1 DEF db
<1>4. CleanWriter(r)'
  <2>1. FreshTotals(r)'
    BY <1>1 DEF FreshTotals
  <2> QED BY <1>1, <1>2, <1>3, <2>1 DEF CleanWriter
<1>5. CleanOne(r)' /\ "item" \in Stages
  BY <1>1, <1>4 DEF CleanOne, Stages
<1> QED BY <1>1, <1>5, CleanStep

LEMMA StartAddClean ==
  ASSUME LockInv, CleanInv, NEW r \in Requests, NEW k \in Calls, NEW order,
         StartAdd(r, k, order)
  PROVE  CleanInv'
<1>1. /\ OnlyOf(r) /\ db' = db /\ clean' = clean \cup {r}
      /\ status[k] \notin {"paid", "cancelled"} /\ Range(order) \cap items[k] = {}
      /\ job'[r].op = "add" /\ job'[r].call = k /\ job'[r].order = order
      /\ job'[r].at = 1 /\ saw'[r].status = status[k] /\ pc'[r] = "item"
      /\ \A c \in DOMAIN saw'[r].called : saw'[r].called[c] = called[c]
      /\ DOMAIN wrote'[r].item = {} /\ DOMAIN wrote'[r].total = {}
  BY StartAddDoes
<1>2. Dealt(r)' = {} /\ Order(r)' = order /\ Passed(r)' = {}
  BY <1>1 DEF Dealt, Order, Passed
<1>3. status' = status /\ paid' = paid /\ items' = items /\ called' = called
  BY <1>1 DEF db
<1>4. CleanWriter(r)'
  <2>1. FreshTotals(r)'
    BY <1>1, <1>3 DEF FreshTotals
  <2> QED BY <1>1, <1>2, <1>3, <2>1 DEF CleanWriter
<1>5. CleanOne(r)' /\ "item" \in Stages
  BY <1>1, <1>4 DEF CleanOne, Stages
<1> QED BY <1>1, <1>5, CleanStep

LEMMA StartMoveClean ==
  ASSUME LockInv, CleanInv, NEW r \in Requests, NEW k \in Calls,
         StartSend(r, k) \/ StartCancel(r, k)
  PROVE  CleanInv'
<1>1. PICK op \in {"send", "cancel"}, new \in {"sent", "cancelled"} :
        /\ StartMove(r, k, op, new)
        /\ op = "send" => new = "sent" /\ status[k] \in C!Sendable
        /\ op = "cancel" => new = "cancelled" /\ C!CanMove(status[k], "cancelled")
  BY DEF StartSend, StartCancel
<1>2. /\ OnlyOf(r) /\ db' = db /\ clean' = clean \cup {r}
      /\ job'[r].op = op /\ job'[r].call = k /\ pc'[r] = "call"
      /\ wrote'[r].status[k] = new
  BY <1>1, StartMoveDoes
<1>3. status' = status
  BY <1>2 DEF db
<1>4. CleanMover(r)'
  BY <1>1, <1>2, <1>3 DEF CleanMover
<1>5. CleanOne(r)' /\ "call" \in Stages
  BY <1>2, <1>4 DEF CleanOne, Stages
<1> QED BY <1>2, <1>5, CleanStep

LEMMA StartCronClean ==
  ASSUME LockInv, CleanInv, NEW r \in Requests, StartCron(r)
  PROVE  CleanInv'
<1>1. /\ OnlyOf(r) /\ db' = db /\ clean' = clean \cup {r}
      /\ job'[r].op = "cron" /\ pc'[r] = "call" /\ LateNow # {}
      /\ wrote'[r].status = [k \in LateNow |-> "overdue"]
  BY StartCronDoes
<1>2. LateNow' = LateNow
  BY <1>1 DEF LateNow, db
<1>3. CleanMover(r)'
  BY <1>1, <1>2 DEF CleanMover
<1>4. CleanOne(r)' /\ "call" \in Stages
  BY <1>1, <1>3 DEF CleanOne, Stages
<1> QED BY <1>1, <1>4, CleanStep

\* The cases a statement of a clean writer leaves to be shown.
LEMMA WriterClean ==
  ASSUME LockInv, CleanInv, NEW r \in Requests, Writer(r), OnlyOf(r), db' = db,
         clean' = clean, job'[r].op = job[r].op, pc'[r] \in Stages,
         CleanWriter(r) => CleanWriter(r)'
  PROVE  CleanInv'
<1>1. job[r].op \in {"pay", "add"}
  BY WriterOrder
<1>2. r \in clean => CleanOne(r)'
  BY <1>1 DEF CleanInv, CleanOne
<1> QED BY <1>2, CleanStep

LEMMA WritePaymentClean ==
  ASSUME LockInv, CleanInv, NEW r \in Requests, WritePayment(r)
  PROVE  CleanInv'
<1> DEFINE k == job[r].call
           c == Order(r)[1]
<1>1. /\ Statement(r) /\ Writer(r) /\ Moved(r, "item", "load")
      /\ pc[r] = "item" /\ job[r].op = "pay" /\ saw' = saw
      /\ wrote'[r].total = wrote[r].total
      /\ IF job[r].amount = saw[r].paid
         THEN wrote'[r].item = wrote[r].item
         ELSE wrote'[r].item = With(wrote[r].item, Current(r), job[r].amount)
  BY WritePaymentDoes
<1>2. Len(Order(r)) = 1 /\ job[r].at = 1 /\ Current(r) = c /\ k \in Calls /\ c \in Commitments
  BY <1>1, PaysFirst, WriterOrder
<1>3. pc'[r] = "load" /\ job'[r].at = 1
  BY <1>1, <1>2 DEF Moved
<1>4. /\ OnlyOf(r) /\ db' = db /\ clean' = clean /\ job'[r].op = "pay"
      /\ job'[r].call = k /\ Order(r)' = Order(r) /\ job'[r].amount = job[r].amount
      /\ saw'[r].status = saw[r].status
  BY <1>1 DEF Statement, Order
<1>5. DOMAIN wrote[r].item = {} /\ DOMAIN wrote[r].total = {}
  <2>1. Passed(r) = {}
    BY <1>2, FirstPosition
  <2> QED BY <1>1, <2>1 DEF Writer
<1>6. Dealt(r)' = {}
  BY <1>3 DEF Dealt, Summing, Passed
<1>7. /\ paid[k] \in [Commitments -> Nat] /\ status' = status /\ paid' = paid
  BY <1>2, <1>4 DEF LockInv, Types, RowTypes, db
<1>8. ASSUME CleanWriter(r) PROVE CleanWriter(r)'
  <2>1. saw[r].status = status[k] /\ saw[r].paid = paid[k][c]
    BY <1>1, <1>8 DEF CleanWriter
  <2>2. Over(wrote'[r].item, paid[k]) = [paid[k] EXCEPT ![c] = job[r].amount]
    <3>1. CASE job[r].amount = saw[r].paid
      <4>1. DOMAIN wrote'[r].item = {}
        BY <1>1, <1>5, <3>1
      <4>2. Over(wrote'[r].item, paid[k]) = paid[k]
        BY <1>7, <4>1 DEF Over
      <4> QED BY <1>7, <2>1, <3>1, <4>2
    <3>2. CASE job[r].amount # saw[r].paid
      <4>1. wrote'[r].item = With(wrote[r].item, c, job[r].amount)
        BY <1>1, <1>2, <3>2
      <4>2. DOMAIN wrote'[r].item = {c} /\ wrote'[r].item[c] = job[r].amount
        BY <1>5, <4>1 DEF With
      <4> HIDE DEF c
      <4> QED BY <1>2, <1>7, <4>2 DEF Over
    <3> QED BY <3>1, <3>2
  <2>3. FreshTotals(r)'
    BY <1>1, <1>4, <1>8, TotalsSame DEF CleanWriter
  <2> QED BY <1>1, <1>3, <1>4, <1>5, <1>6, <1>7, <2>1, <2>2, <2>3 DEF CleanWriter
<1> QED BY <1>1, <1>3, <1>4, <1>8, WriterClean DEF Stages

LEMMA InsertItemClean ==
  ASSUME LockInv, CleanInv, NEW r \in Requests, InsertItem(r), ~Fail(r)
  PROVE  CleanInv'
<1> DEFINE k == job[r].call
<1>1. /\ Statement(r) /\ Writer(r) /\ Moved(r, "item", "load")
      /\ pc[r] = "item" /\ job[r].op = "add" /\ saw' = saw
      /\ wrote'[r].total = wrote[r].total
      /\ wrote'[r].item = With(wrote[r].item, Current(r), 0)
  BY InsertItemDoes
<1>2. /\ OnlyOf(r) /\ db' = db /\ clean' = clean /\ job'[r].op = "add"
      /\ job'[r].call = k /\ job'[r].order = job[r].order /\ Order(r)' = Order(r)
      /\ saw'[r].status = saw[r].status
  BY <1>1 DEF Statement, Order
<1>3. DOMAIN wrote'[r].item = {Current(r)} \cup DOMAIN wrote[r].item /\ DOMAIN wrote'[r].total = {}
  <2>1. DOMAIN With(wrote[r].item, Current(r), 0) = {Current(r)} \cup DOMAIN wrote[r].item
    BY WithDomain
  <2>2. DOMAIN wrote[r].total = {}
    BY <1>1 DEF Writer
  <2> QED BY <1>1, <2>1, <2>2
<1>4. pc'[r] \in {"item", "load"} /\ Dealt(r)' = {}
  <2>1. CASE pc'[r] = "item"
    BY <2>1 DEF Dealt
  <2>2. CASE pc'[r] = "load" /\ job'[r].at = 1
    BY <2>2 DEF Dealt, Summing, Passed
  <2> QED BY <1>1, <2>1, <2>2 DEF Moved
<1>5. ASSUME CleanWriter(r) PROVE CleanWriter(r)'
  <2>1. /\ saw[r].status = status[k] /\ status[k] \notin {"paid", "cancelled"}
        /\ Range(Order(r)) \cap items[k] = {} /\ DOMAIN wrote[r].item = Passed(r)
    BY <1>1, <1>5 DEF CleanWriter
  <2>2. DOMAIN wrote'[r].item = IF pc'[r] = "item" THEN Passed(r)' ELSE Range(Order(r)')
    <3>1. CASE pc'[r] = "item" /\ job'[r].at = job[r].at + 1
      BY <1>1, <1>2, <1>3, <2>1, <3>1, PassedGrows
    <3>2. CASE pc'[r] = "load" /\ job[r].at = Len(Order(r))
      BY <1>1, <1>2, <1>3, <2>1, <3>2, WholeOrder
    <3> QED BY <1>1, <3>1, <3>2 DEF Moved
  <2>3. UNCHANGED <<status, items>>
    BY <1>2 DEF db
  <2>4. FreshTotals(r)'
    BY <1>1, <1>2, <1>5, TotalsSame DEF CleanWriter
  <2> QED BY <1>2, <1>3, <1>4, <2>1, <2>2, <2>3, <2>4 DEF CleanWriter
<1> QED BY <1>1, <1>2, <1>4, <1>5, WriterClean DEF Stages

LEMMA LoadCommitmentClean ==
  ASSUME LockInv, CleanInv, NEW r \in Requests, LoadCommitment(r)
  PROVE  CleanInv'
<1>1. /\ Statement(r) /\ Writer(r) /\ pc[r] = "load" /\ pc'[r] = "sum"
      /\ job'[r] = job[r] /\ wrote'[r] = wrote[r]
      /\ Current(r) \in DOMAIN saw'[r].called
      /\ \A c \in DOMAIN saw'[r].called :
           \/ c \in DOMAIN saw[r].called /\ saw'[r].called[c] = saw[r].called[c]
           \/ saw'[r].called[c] = called[c]
  BY LoadCommitmentDoes
<1>2. /\ OnlyOf(r) /\ db' = db /\ clean' = clean
      /\ saw'[r].status = saw[r].status /\ saw'[r].paid = saw[r].paid
  BY <1>1 DEF Statement
<1>3. /\ Dealt(r)' = Dealt(r) /\ Passed(r)' = Passed(r) /\ Order(r)' = Order(r)
      /\ Current(r)' = Current(r)
  BY <1>1 DEF Dealt, Summing, Passed, Order, Current
<1>4. \A c : SumSeen(r, c)' = SumSeen(r, c)
  BY <1>1, <1>2, SeenSame
<1>5. UNCHANGED <<status, items, paid, called>>
  BY <1>2 DEF db
<1>6. ASSUME CleanWriter(r) PROVE CleanWriter(r)'
  <2>1. FreshTotals(r)'
    BY <1>1, <1>5, <1>6 DEF CleanWriter, FreshTotals
  <2> QED BY <2>1, <1>1, <1>2, <1>3, <1>4, <1>5, <1>6 DEF CleanWriter, Over
<1> QED BY <1>1, <1>2, <1>6, WriterClean DEF Stages

LEMMA SumPaymentsClean ==
  ASSUME LockInv, CleanInv, NEW r \in Requests, SumPayments(r)
  PROVE  CleanInv'
<1>1. /\ Statement(r) /\ Writer(r) /\ pc[r] = "sum" /\ pc'[r] = "total"
      /\ job'[r] = job[r] /\ wrote'[r] = wrote[r] /\ saw'[r].called = saw[r].called
      /\ saw'[r].total = SumSeen(r, Current(r))
  BY SumPaymentsDoes DEF SumSeen
<1>2. /\ OnlyOf(r) /\ db' = db /\ clean' = clean
      /\ saw'[r].status = saw[r].status /\ saw'[r].paid = saw[r].paid
  BY <1>1 DEF Statement
<1>3. /\ Dealt(r)' = Dealt(r) /\ Passed(r)' = Passed(r) /\ Order(r)' = Order(r)
      /\ Current(r)' = Current(r)
  BY <1>1 DEF Dealt, Summing, Passed, Order, Current
<1>4. \A c : SumSeen(r, c)' = SumSeen(r, c)
  BY <1>1, <1>2, SeenSame
<1>5. UNCHANGED <<status, items, paid, called>>
  BY <1>2 DEF db
<1>6. ASSUME CleanWriter(r) PROVE CleanWriter(r)'
  <2>1. FreshTotals(r)' /\ Current(r) \in DOMAIN saw'[r].called
    BY <1>1, <1>2, <1>6, TotalsSame DEF CleanWriter
  <2> QED BY <2>1, <1>1, <1>2, <1>3, <1>4, <1>5, <1>6, SMTT(60) DEF CleanWriter
<1> QED BY <1>1, <1>2, <1>6, WriterClean DEF Stages

LEMMA FlushCommitmentClean ==
  ASSUME LockInv, CleanInv, NEW r \in Requests, FlushCommitment(r)
  PROVE  CleanInv'
<1> DEFINE c == Current(r)
<1>1. /\ Statement(r) /\ Writer(r) /\ Moved(r, "load", "status")
      /\ pc[r] = "total" /\ saw' = saw /\ wrote'[r].item = wrote[r].item
      /\ IF saw[r].total = saw[r].called[c]
         THEN wrote'[r].total = wrote[r].total
         ELSE wrote'[r].total = With(wrote[r].total, c, saw[r].total)
  BY FlushCommitmentDoes
<1>2. /\ OnlyOf(r) /\ db' = db /\ clean' = clean /\ job'[r].op = job[r].op
      /\ job'[r].call = job[r].call /\ Order(r)' = Order(r) /\ job'[r].order = job[r].order
      /\ job[r].op = "pay" => job'[r].amount = job[r].amount
      /\ saw'[r].status = saw[r].status /\ saw'[r].paid = saw[r].paid
      /\ pc'[r] \in {"load", "status"}
  BY <1>1, WriterOrder DEF Statement, Order, Moved
<1>3. Dealt(r) = Passed(r) /\ Dealt(r)' = Passed(r) \cup {c}
  <2>1. CASE pc'[r] = "load" /\ job'[r].at = job[r].at + 1
    BY <1>1, <1>2, <2>1, PassedGrows DEF Dealt, Summing
  <2>2. CASE pc'[r] = "status" /\ job[r].at = Len(Order(r))
    BY <1>1, <1>2, <2>2, WholeOrder DEF Dealt, Summing
  <2> QED BY <1>1, <2>1, <2>2 DEF Moved
<1>4. \A b : SumSeen(r, b)' = SumSeen(r, b)
  BY <1>1, <1>2, SeenSame
<1>5. UNCHANGED <<status, items, paid, called>>
  BY <1>2 DEF db
<1>6. c \in Commitments /\ Passed(r) \subseteq Commitments /\ DOMAIN called = Commitments
  <2>1. Order(r) \in Seq(Commitments) /\ job[r].at \in 1 .. Len(Order(r)) /\ c \in Commitments
    BY <1>1, WriterOrder
  <2>2. Passed(r) \subseteq Commitments
    BY <2>1 DEF Passed
  <2> QED BY <2>1, <2>2 DEF LockInv, Types, RowTypes
<1> HIDE DEF c
<1>7. ASSUME CleanWriter(r) PROVE CleanWriter(r)'
  <2>1. /\ DOMAIN wrote[r].total \subseteq Passed(r) /\ saw[r].called[c] = called[c]
        /\ saw[r].total = SumSeen(r, c)
        /\ \A b \in Passed(r) : Over(wrote[r].total, called)[b] = SumSeen(r, b)
    BY <1>1, <1>3, <1>7 DEF CleanWriter, FreshTotals, c
  <2>6. FreshTotals(r)'
    BY <1>1, <1>2, <1>7, TotalsSame DEF CleanWriter
  <2>2. DOMAIN With(wrote[r].total, c, saw[r].total) = {c} \cup DOMAIN wrote[r].total
    BY WithDomain
  <2>3. DOMAIN wrote'[r].total \subseteq Passed(r) \cup {c}
    BY <1>1, <2>1, <2>2
  <2>4. ASSUME NEW b \in Passed(r) \cup {c}
        PROVE  Over(wrote'[r].total, called)[b] = SumSeen(r, b)
    <3>1. CASE saw[r].total = saw[r].called[c]
      <4>1. wrote'[r].total = wrote[r].total
        BY <1>1, <3>1
      <4>2. CASE b \in Passed(r)
        BY <2>1, <4>1, <4>2
      <4>3. CASE b = c /\ c \notin Passed(r)
        BY <1>6, <2>1, <3>1, <4>1, <4>3 DEF Over
      <4> QED BY <4>2, <4>3
    <3>2. CASE saw[r].total # saw[r].called[c]
      <4>1. wrote'[r].total = With(wrote[r].total, c, saw[r].total)
        BY <1>1, <3>2
      <4>2. CASE b = c
        <5>1. c \in DOMAIN wrote'[r].total /\ wrote'[r].total[c] = saw[r].total
          BY <4>1 DEF With
        <5> QED BY <1>6, <2>1, <4>2, <5>1 DEF Over
      <4>3. CASE b # c
        <5>1. /\ b \in DOMAIN wrote'[r].total <=> b \in DOMAIN wrote[r].total
              /\ b \in DOMAIN wrote[r].total => wrote'[r].total[b] = wrote[r].total[b]
          BY <4>1, <4>3 DEF With
        <5>2. b \in Passed(r) /\ b \in Commitments
          BY <1>6, <4>3
        <5>3. Over(wrote[r].total, called)[b] = SumSeen(r, b)
          BY <2>1, <5>2
        <5> QED BY <1>6, <5>1, <5>2, <5>3 DEF Over
      <4> QED BY <4>2, <4>3
    <3> QED BY <3>1, <3>2
  <2>5. \A b \in Dealt(r)' : Over(wrote'[r].total, called')[b] = SumSeen(r, b)'
    BY <1>3, <1>4, <1>5, <2>4
  <2> QED BY <1>1, <1>2, <1>3, <1>5, <1>7, <2>3, <2>5, <2>6 DEF CleanWriter
<1> QED BY <1>1, <1>2, <1>7, WriterClean DEF Stages

LEMMA RecomputeStatusClean ==
  ASSUME LockInv, CleanInv, NEW r \in Requests, RecomputeStatus(r)
  PROVE  CleanInv'
<1> DEFINE k == job[r].call
<1>1. /\ OnlyOf(r) /\ db' = db /\ clean' = clean /\ Writer(r) /\ pc[r] = "status"
      /\ job'[r] = job[r] /\ saw'[r] = saw[r]
      /\ wrote'[r].item = wrote[r].item /\ wrote'[r].total = wrote[r].total
      /\ \/ /\ NewStatus(r) = saw[r].status /\ pc'[r] = "commit"
            /\ wrote'[r] = wrote[r] /\ DOMAIN wrote'[r].status = {}
         \/ /\ C!CanMove(saw[r].status, NewStatus(r)) /\ pc'[r] = "call"
            /\ DOMAIN wrote'[r].status = {k}
            /\ wrote'[r].status[k] = NewStatus(r)
  BY RecomputeStatusDoes
<1>2. k \in Calls /\ DOMAIN status = Calls
  BY <1>1, WriterOrder DEF LockInv, Types, RowTypes
<1>3. /\ Dealt(r)' = Dealt(r) /\ Passed(r)' = Passed(r) /\ Order(r)' = Order(r)
      /\ Current(r)' = Current(r)
  BY <1>1 DEF Dealt, Summing, Passed, Order, Current
<1>4. (\A c : SumSeen(r, c)' = SumSeen(r, c)) /\ NewStatus(r)' = NewStatus(r)
  BY <1>1, SeenSame
<1>5. UNCHANGED <<status, items, paid, called>>
  BY <1>1 DEF db
<1> HIDE DEF k
<1>6. ASSUME CleanWriter(r) PROVE CleanWriter(r)'
  <2>1. saw[r].status = status[k]
    BY <1>6 DEF CleanWriter, k
  <2>2. Over(wrote'[r].status, status)[k] = NewStatus(r)
    BY <1>1, <1>2, <2>1 DEF Over
  <2>3. NewStatus(r) = status[k] \/ C!CanMove(status[k], NewStatus(r))
    BY <1>1, <2>1
  <2>4. pc'[r] \in {"call", "commit"} /\ job'[r].call = k
    BY <1>1 DEF k
  <2>5. CleanWriter(r)' <=>
          /\ saw[r].status = status[k]
          /\ job[r].op = "pay" =>
               /\ saw[r].paid = paid[k][Order(r)[1]]
               /\ Over(wrote[r].item, paid[k]) = [paid[k] EXCEPT ![Order(r)[1]] = job[r].amount]
          /\ job[r].op = "add" =>
               /\ status[k] \notin {"paid", "cancelled"}
               /\ Range(Order(r)) \cap items[k] = {}
               /\ DOMAIN wrote[r].item = Range(Order(r))
          /\ FreshTotals(r)
          /\ DOMAIN wrote[r].total \subseteq Dealt(r)
          /\ \A c \in Dealt(r) : Over(wrote[r].total, called)[c] = SumSeen(r, c)
          /\ NewStatus(r) = status[k] \/ C!CanMove(status[k], NewStatus(r))
          /\ Over(wrote'[r].status, status)[k] = NewStatus(r)
    <3>1. FreshTotals(r)' = FreshTotals(r)
      BY <1>1, TotalsSame
    <3> QED BY <1>1, <1>3, <1>4, <1>5, <2>4, <3>1 DEF CleanWriter
  <2> QED BY <1>1, <1>6, <2>2, <2>3, <2>5 DEF CleanWriter, k
<1> QED BY <1>1, <1>6, WriterClean DEF Stages

LEMMA FlushCallClean ==
  ASSUME LockInv, CleanInv, NEW r \in Requests, FlushCall(r)
  PROVE  CleanInv'
<1>1. /\ Statement(r) /\ pc[r] = "call" /\ pc'[r] \in {"call", "commit"}
      /\ job'[r] = job[r] /\ saw'[r] = saw[r] /\ wrote'[r] = wrote[r]
  BY FlushCallDoes
<1>2. OnlyOf(r) /\ db' = db /\ clean' = clean /\ pc'[r] \in Stages
  BY <1>1 DEF Statement, Stages
<1>3. /\ Dealt(r)' = Dealt(r) /\ Passed(r)' = Passed(r) /\ Order(r)' = Order(r)
      /\ Current(r)' = Current(r) /\ LateNow' = LateNow
  BY <1>1, <1>2 DEF Dealt, Summing, Passed, Order, Current, LateNow, db
<1>4. (\A c : SumSeen(r, c)' = SumSeen(r, c)) /\ NewStatus(r)' = NewStatus(r)
  BY <1>1, <1>2, SeenSame
<1>5. UNCHANGED <<status, items, paid, called>>
  BY <1>2 DEF db
<1>6. CleanWriter(r) => CleanWriter(r)'
  <2>1. FreshTotals(r)' = FreshTotals(r)
    BY <1>1, <1>2, TotalsSame
  <2>2. pc[r] \in {"call", "commit"} /\ pc'[r] \in {"call", "commit"}
    BY <1>1
  <2> QED BY <1>1, <1>3, <1>4, <1>5, <2>1, <2>2, SMTT(60) DEF CleanWriter
<1>7. CleanMover(r) => CleanMover(r)'
  BY <1>1, <1>3, <1>5 DEF CleanMover
<1>8. r \in clean => CleanOne(r)'
  BY <1>1, <1>6, <1>7 DEF CleanInv, CleanOne
<1> QED BY <1>2, <1>8, CleanStep

LEMMA EndClean ==
  ASSUME LockInv, CleanInv, NEW r \in Requests, Fail(r) \/ Commit(r)
  PROVE  CleanInv'
<1>1. CASE db' = db
  <2>1. OnlyOf(r) /\ clean' \subseteq clean /\ r \notin clean'
    BY <1>1, EndDoes DEF Fail, Commit
  <2> QED BY <1>1, <2>1, CleanStep
<1>2. CASE db' # db
  BY <1>2 DEF Fail, Commit, CleanInv
<1> QED BY <1>1, <1>2

LEMMA CleanKept == LockInv /\ CleanInv /\ [Next]_vars => CleanInv'
<1> SUFFICES ASSUME LockInv, CleanInv, [Next]_vars PROVE CleanInv'
  OBVIOUS
<1>1. ASSUME NEW r \in Requests, Begin(r) PROVE CleanInv'
  BY <1>1, BeginCases, StartPayClean, StartAddClean, StartMoveClean, StartCronClean
<1>2. ASSUME NEW r \in Requests, Step(r) PROVE CleanInv'
  BY <1>2, WritePaymentClean, InsertItemClean, LoadCommitmentClean, SumPaymentsClean,
     FlushCommitmentClean, RecomputeStatusClean, FlushCallClean, EndClean
  DEF Step, AbortVictim
<1>3. CASE UNCHANGED vars
  <2>1. ASSUME NEW r \in clean PROVE CleanOne(r)'
    <3>1. /\ r \in Requests /\ db' = db /\ pc' = pc /\ job' = job /\ saw' = saw
          /\ wrote' = wrote
      BY <1>3 DEF vars, CleanInv
    <3>2. /\ Dealt(r)' = Dealt(r) /\ Passed(r)' = Passed(r) /\ Order(r)' = Order(r)
          /\ Current(r)' = Current(r) /\ LateNow' = LateNow
      BY <3>1 DEF Dealt, Passed, Order, Current, LateNow, db
    <3>3. (\A c : SumSeen(r, c)' = SumSeen(r, c)) /\ NewStatus(r)' = NewStatus(r)
      BY <3>1, SeenSame
    <3>4. UNCHANGED <<status, items, paid, called>>
      BY <3>1 DEF db
    <3>5. FreshTotals(r)' = FreshTotals(r)
      BY <3>1, TotalsSame
    <3>6. (CleanWriter(r) => CleanWriter(r)') /\ (CleanMover(r) => CleanMover(r)')
      BY <3>1, <3>2, <3>3, <3>4, <3>5 DEF CleanWriter, CleanMover, Over
    <3> QED BY <3>1, <3>6 DEF CleanInv, CleanOne
  <2> QED BY <1>3, <2>1 DEF CleanInv, vars
<1> QED BY <1>1, <1>2, <1>3 DEF Next, Idle

\* The sum the abstract module takes is the one the requests take.
LEMMA SameSum == ASSUME NEW f PROVE C!SumFunction(f) = SumFunction(f)
BY Zenon DEF SumFunction, SumFunctionOnSet, FoldFunctionOnSet, MapThenFoldSet,
             C!SumFunction, C!SumFunctionOnSet, C!FoldFunctionOnSet, C!MapThenFoldSet

\* The commit of a clean payment or allocation is the tail all item writes of
\* CapitalCalls share.
LEMMA WriterCommits ==
  ASSUME LockInv, CleanInv, NEW r \in clean, Writer(r), Commit(r)
  PROVE  /\ C!WriteItems(job[r].call, DueOf(job[r].call, ItemsSeen(r, job[r].call)),
                         PaidSeen(r, job[r].call), Range(Order(r)))
         /\ items' = [items EXCEPT ![job[r].call] = ItemsSeen(r, job[r].call)]
         /\ CleanWriter(r)
<1> DEFINE k == job[r].call
           T == Range(Order(r))
           new == NewStatus(r)
<1>1. /\ r \in Requests /\ pc[r] = "commit" /\ job[r].op \in {"pay", "add"}
      /\ k \in Calls /\ CleanWriter(r)
  BY WriterOrder DEF CleanInv, CleanOne, Commit
<1>2. /\ status' = Over(wrote[r].status, status)
      /\ called' = Over(wrote[r].total, called)
      /\ paid' = [j \in Calls |-> PaidSeen(r, j)]
      /\ items' = [j \in Calls |-> ItemsSeen(r, j)]
      /\ announced' = announced
  BY <1>1 DEF Commit, LockInv, Types, RowTypes
<1>3. RowTypes
  BY DEF LockInv, Types
<1>4. /\ saw[r].status = status[k]
      /\ new = status[k] \/ C!CanMove(status[k], new)
      /\ Over(wrote[r].status, status)[k] = new
      /\ DOMAIN wrote[r].total \subseteq T
      /\ \A c \in T : Over(wrote[r].total, called)[c] = SumSeen(r, c)
  BY <1>1 DEF CleanWriter, Dealt, Summing
<1>5. status' = [status EXCEPT ![k] = new]
  <2>1. DOMAIN wrote[r].status \subseteq {k}
    BY <1>1 DEF Writer
  <2>2. \A j \in Calls : j # k => Over(wrote[r].status, status)[j] = status[j]
    BY <1>3, <2>1 DEF Over, RowTypes
  <2>3. status' \in [Calls -> C!CallStatus] /\ status \in [Calls -> C!CallStatus]
    BY CommitLocks, <1>1, <1>3 DEF LockInv, Types, RowTypes
  <2> HIDE DEF k, new
  <2> QED BY <1>2, <1>4, <2>2, <2>3
<1>6. paid' = [paid EXCEPT ![k] = PaidSeen(r, k)]
  <2>1. \A j \in Calls : j # k => PaidSeen(r, j) = paid[j]
    BY DEF PaidSeen, WritesItemsOf
  <2> HIDE DEF k
  <2> QED BY <1>2, <1>3, <2>1 DEF RowTypes
<1>7. items' = [items EXCEPT ![k] = ItemsSeen(r, k)]
  <2>1. \A j \in Calls : j # k => ItemsSeen(r, j) = items[j]
    BY DEF ItemsSeen, WritesItemsOf
  <2> HIDE DEF k
  <2> QED BY <1>2, <1>3, <2>1 DEF RowTypes
<1>8. \A c : C!PaidTotal(paid', c) = SumSeen(r, c)
  <2>1. \A c : [j \in Calls |-> paid'[j][c]] = [j \in Calls |-> PaidSeen(r, j)[c]]
    BY <1>2
  <2>2. \A c : C!PaidTotal(paid', c) = SumFunction([j \in Calls |-> paid'[j][c]])
    BY SameSum DEF C!PaidTotal
  <2> QED BY <2>1, <2>2 DEF SumSeen
<1>9. called' = [c \in Commitments |->
                   IF c \in T THEN C!PaidTotal(paid', c) ELSE called[c]]
  <2>1. \A c \in Commitments \ T : Over(wrote[r].total, called)[c] = called[c]
    BY <1>3, <1>4 DEF Over, RowTypes
  <2>2. DOMAIN Over(wrote[r].total, called) = Commitments
    BY <1>3 DEF Over, RowTypes
  <2>3. Over(wrote[r].total, called) = [c \in DOMAIN called |-> Over(wrote[r].total, called)[c]]
    BY DEF Over
  <2> HIDE DEF T
  <2> QED BY <1>2, <1>3, <1>4, <1>8, <2>1, <2>2, <2>3 DEF RowTypes
<1>10. [j \in Calls |-> DueOf(j, items'[j])]
         = [[j \in Calls |-> DueOf(j, items[j])] EXCEPT ![k] = DueOf(k, ItemsSeen(r, k))]
  <2> HIDE DEF k
  <2>1. items'[k] = ItemsSeen(r, k) /\ \A j \in Calls : j # k => items'[j] = items[j]
    BY <1>1, <1>3, <1>7 DEF RowTypes, k
  <2> QED BY <2>1
<1>11. new = C!Recomputed(status[k], DueOf(k, ItemsSeen(r, k)), PaidSeen(r, k),
                          [j \in Calls |-> IF j \in PastDue THEN 0 ELSE 1][k], 1)
  BY <1>1, <1>4 DEF NewStatus
<1> HIDE DEF k, T, new
<1>12. C!WriteItems(k, DueOf(k, ItemsSeen(r, k)), PaidSeen(r, k), T)
  BY <1>2, <1>4, <1>5, <1>6, <1>9, <1>10, <1>11 DEF C!WriteItems
<1> QED BY <1>1, <1>7, <1>12 DEF k, T

\* Each request, all in one, is one of CapitalCalls: the PATCH of an item,
LEMMA PayIsAtomic ==
  ASSUME LockInv, ItemInv, CleanInv, NEW r \in clean, Commit(r), job[r].op = "pay"
  PROVE  C!Next
<1> DEFINE k == job[r].call
           c == Order(r)[1]
           p == job[r].amount
<1>1. r \in Requests /\ pc[r] = "commit" /\ pc[r] \in Stages /\ Writer(r)
  BY AtWork DEF CleanInv, Commit, Stages, Mover, MoveJobs, CronJobs
<1>2. k \in Calls /\ c \in Commitments /\ p \in Payments /\ c \in items[k]
  BY <1>1, WriterOrder, PaysFirst DEF ItemInv, OwnItems
<1>3. /\ C!WriteItems(k, DueOf(k, ItemsSeen(r, k)), PaidSeen(r, k), Range(Order(r)))
      /\ items' = [items EXCEPT ![k] = ItemsSeen(r, k)] /\ CleanWriter(r)
  BY <1>1, WriterCommits
<1>4. items[k] \in SUBSET Commitments
  BY <1>2 DEF LockInv, Types, RowTypes
<1>5. ItemsSeen(r, k) = items[k] /\ items' = items
  <2>1. DOMAIN wrote[r].item \subseteq items[k]
    BY <1>1, <1>2 DEF ItemInv, OwnItems
  <2>2. ItemsSeen(r, k) = items[k]
    BY <2>1 DEF ItemsSeen
  <2> HIDE DEF k
  <2> QED BY <1>3, <2>2 DEF LockInv, Types, RowTypes
<1>6. PaidSeen(r, k) = [paid[k] EXCEPT ![c] = p]
  BY <1>1, <1>3 DEF CleanWriter, PaidSeen, WritesItemsOf
<1>7. Range(Order(r)) = {c}
  <2>1. job[r].at = Len(Order(r)) /\ Current(r) = c /\ Passed(r) = {}
    BY <1>1, PaysFirst, FirstPosition
  <2> QED BY <1>1, <2>1, WholeOrder
<1>8. DueOf(k, items[k]) = [DueOf(k, items[k]) EXCEPT ![c] = DueOf(k, items[k])[c]]
  BY <1>2 DEF DueOf
<1> HIDE DEF k, c, p
<1>9. C!UpdateItem(k, c, [j \in Calls |-> DueOf(j, items[j])][k][c], p)
  <2>1. [j \in Calls |-> DueOf(j, items[j])][k] = DueOf(k, items[k])
    BY <1>2
  <2> QED BY <1>2, <1>3, <1>5, <1>6, <1>7, <1>8, <2>1 DEF C!UpdateItem
<1> QED BY <1>2, <1>9 DEF C!Next

\* the allocation by hand,
LEMMA AddIsAtomic ==
  ASSUME LockInv, ItemInv, CleanInv, NEW r \in clean, Commit(r), job[r].op = "add"
  PROVE  C!Next
<1> DEFINE k == job[r].call
           T == Range(Order(r))
           allocation == [c \in T |-> Due[k][c]]
<1>1. r \in Requests /\ pc[r] = "commit" /\ pc[r] \in Stages /\ Writer(r)
  BY AtWork DEF CleanInv, Commit, Stages, Mover, MoveJobs, CronJobs
<1>2. k \in Calls
  BY <1>1, WriterOrder
<1>3. /\ C!WriteItems(k, DueOf(k, ItemsSeen(r, k)), PaidSeen(r, k), T)
      /\ items' = [items EXCEPT ![k] = ItemsSeen(r, k)] /\ CleanWriter(r)
  BY <1>1, WriterCommits
<1>4. /\ status[k] \notin {"paid", "cancelled"} /\ T \cap items[k] = {}
      /\ DOMAIN wrote[r].item = T
  BY <1>1, <1>3 DEF CleanWriter
<1>5. T \subseteq Commitments /\ T # {}
  <2>1. Order(r) \in Seq(Commitments) /\ Len(Order(r)) \in Nat /\ job[r].at \in 1 .. Len(Order(r))
    BY <1>1, WriterOrder
  <2>2. Order(r)[1] \in Range(Order(r)) /\ Range(Order(r)) \subseteq Commitments
    BY <2>1 DEF Range
  <2> QED BY <2>2
<1>6. /\ status[k] \in C!CallStatus /\ items[k] \in SUBSET Commitments
      /\ paid[k] \in [Commitments -> Nat] /\ Due[k] \in [Commitments -> Nat]
  BY <1>2, DueAssumption DEF LockInv, Types, RowTypes
<1>7. ItemsSeen(r, k) = items[k] \cup T
  BY <1>4 DEF ItemsSeen, WritesItemsOf
<1>8. PaidSeen(r, k) = paid[k]
  <2>1. \A c \in DOMAIN wrote[r].item : wrote[r].item[c] = 0 /\ paid[k][c] = 0
    BY <1>1, <1>2, <1>4, <1>5 DEF ItemInv, OwnItems
  <2> HIDE DEF k, T
  <2>2. Over(wrote[r].item, paid[k]) = paid[k]
    BY <1>6, <2>1 DEF Over
  <2> QED BY <2>2 DEF PaidSeen
<1>9. DueOf(k, items[k] \cup T)
        = [c \in Commitments |-> IF c \in T THEN allocation[c]
                                 ELSE [j \in Calls |-> DueOf(j, items[j])][k][c]]
  <2> HIDE DEF k, T
  <2>1. [j \in Calls |-> DueOf(j, items[j])][k] = DueOf(k, items[k])
    BY <1>2
  <2> QED BY <2>1 DEF DueOf
<1>10. allocation \in [T -> UNION {Range(Due[j]) : j \in Calls}]
  <2>1. \A c \in T : Due[k][c] \in Range(Due[k])
    BY <1>5, <1>6 DEF Range
  <2> HIDE DEF k, T
  <2> QED BY <1>2, <2>1
<1>11. DOMAIN allocation = T
  OBVIOUS
<1> HIDE DEF k, T, allocation
<1>12. status[k] # "none"
  BY <1>6 DEF C!CallStatus
<1>13. C!AddItems(k, allocation)
  <2>1. \A c \in T : [b \in Commitments |-> 0][c] = [j \in Calls |-> 0][k]
    BY <1>2, <1>5
  <2>2. DueOf(k, items[k] \cup T)
          = [c \in Commitments |-> IF c \in DOMAIN allocation THEN allocation[c]
                                   ELSE [j \in Calls |-> DueOf(j, items[j])][k][c]]
    BY <1>9, <1>11, Zenon
  <2>3. C!WriteItems(k, [c \in Commitments |->
                           IF c \in DOMAIN allocation THEN allocation[c]
                           ELSE [j \in Calls |-> DueOf(j, items[j])][k][c]],
                     paid[k], DOMAIN allocation)
    BY <1>3, <1>7, <1>8, <1>11, <2>2
  <2>4. items' = [items EXCEPT ![k] = items[k] \cup DOMAIN allocation]
    BY <1>3, <1>7, <1>11
  <2>5. /\ DOMAIN allocation # {} /\ DOMAIN allocation \cap items[k] = {}
        /\ \A c \in DOMAIN allocation : [b \in Commitments |-> 0][c] = [j \in Calls |-> 0][k]
    BY <1>4, <1>5, <1>11, <2>1
  <2> QED BY <1>4, <1>12, <2>3, <2>4, <2>5, Zenon DEF C!AddItems, C!Exists
<1>14. C!AddItemsManual(k)
  BY <1>5, <1>10, <1>13 DEF C!AddItemsManual
<1> QED BY <1>2, <1>14 DEF C!Next

\* send, cancel and the cron.
LEMMA MoveIsAtomic ==
  ASSUME LockInv, ItemInv, CleanInv, NEW r \in clean, Commit(r),
         job[r].op \notin {"pay", "add"}
  PROVE  C!Next
<1> DEFINE k == job[r].call
<1>1. /\ r \in Requests /\ pc[r] = "commit" /\ pc[r] \in Stages /\ Mover(r)
      /\ CleanMover(r)
  BY AtWork, WriterOrder DEF CleanInv, CleanOne, Commit, Stages
<1>2. /\ status' = Over(wrote[r].status, status)
      /\ called' = Over(wrote[r].total, called)
      /\ paid' = [j \in Calls |-> PaidSeen(r, j)]
      /\ items' = [j \in Calls |-> ItemsSeen(r, j)]
      /\ announced' = announced \cup (IF job[r].op = "send" THEN {k} ELSE {})
  BY DEF Commit
<1>3. RowTypes
  BY DEF LockInv, Types
<1>4. \A j : PaidSeen(r, j) = paid[j] /\ ItemsSeen(r, j) = items[j]
  BY DEF PaidSeen, ItemsSeen, WritesItemsOf
<1>5. paid' = paid /\ items' = items
  BY <1>2, <1>3, <1>4 DEF RowTypes
<1>6. called' = called
  BY <1>1, <1>2, <1>3 DEF Mover, Over, RowTypes
<1>7. UNCHANGED <<[j \in Calls |-> 1], [j \in Calls |-> IF j \in PastDue THEN 0 ELSE 1],
                  items, [j \in Calls |-> DueOf(j, items[j])], paid, called, {}, 1>>
  BY <1>5, <1>6
<1>8. job[r].op \in {"send", "cancel", "cron"} /\ (job[r].op # "cron" => k \in Calls)
  BY <1>1 DEF Mover, MoveJobs, CronJobs
<1>9. ASSUME job[r].op # "cron"
      PROVE  status' = [status EXCEPT ![k] = wrote[r].status[k]]
  <2>1. DOMAIN wrote[r].status = {k} /\ k \in Calls
    BY <1>1, <1>8, <1>9 DEF Mover
  <2> HIDE DEF k
  <2> QED BY <1>2, <1>3, <2>1 DEF Over, RowTypes
<1>10. CASE job[r].op = "send"
  <2>1. status[k] \in C!Sendable /\ wrote[r].status[k] = "sent"
    BY <1>1, <1>10 DEF CleanMover
  <2>2. C!Send(k)
    BY <1>2, <1>7, <1>9, <1>10, <2>1 DEF C!Send
  <2> QED BY <1>8, <1>10, <2>2 DEF C!Next
<1>11. CASE job[r].op = "cancel"
  <2>1. /\ C!CanMove(status[k], "cancelled") /\ wrote[r].status[k] = "cancelled"
        /\ status[k] # "none"
    BY <1>1, <1>11 DEF CleanMover, C!CanMove
  <2>2. announced' = announced
    BY <1>2, <1>11
  <2>3. C!Cancel(k)
    BY <1>7, <1>9, <1>11, <2>1, <2>2 DEF C!Cancel, C!TransitionStatus, C!Exists
  <2> QED BY <1>8, <1>11, <2>3 DEF C!Next
<1>12. CASE job[r].op = "cron"
  <2>1. LateNow # {} /\ wrote[r].status = [j \in LateNow |-> "overdue"]
    BY <1>1, <1>12 DEF CleanMover
  <2>2. announced' = announced
    BY <1>2, <1>12
  <2>3. LateNow = {j \in Calls : /\ C!CanMove(status[j], "overdue")
                                 /\ [i \in Calls |-> IF i \in PastDue THEN 0 ELSE 1][j] < 1}
    BY RowsAssumption DEF LateNow
  <2>4. status' = [j \in Calls |-> IF j \in LateNow THEN "overdue" ELSE status[j]]
    BY <1>2, <1>3, <2>1 DEF Over, RowTypes
  <2>5. C!MarkOverdue
    BY <1>7, <2>1, <2>2, <2>3, <2>4 DEF C!MarkOverdue
  <2> QED BY <2>5 DEF C!Next
<1> QED BY <1>8, <1>10, <1>11, <1>12

LEMMA CleanTheorem == Spec => [](LockInv /\ ItemInv /\ CleanInv)
<1>1. Init => CleanInv
  BY DEF Init, CleanInv
<1> QED BY <1>1, CleanKept, ItemTheorem, PTL DEF Spec

\* A request nobody's commit has come between commits as one of the atomic
\* requests of CapitalCalls, for any number of other requests in flight and any
\* totals it finds: what it has read still holds, and it sums and recomputes
\* over the rows CapitalCalls sums and recomputes over.
THEOREM AtomicTheorem == Spec => OverlapFreeIsAtomic
<1>1. LockInv /\ ItemInv /\ CleanInv /\ [Next]_vars =>
        [\A r \in clean : pc[r] = "commit" /\ pc'[r] = "done"
            => [C!Next]_(C!vars)]_vars
  <2> SUFFICES ASSUME LockInv, ItemInv, CleanInv, Next, NEW r \in clean,
                      pc[r] = "commit", pc'[r] = "done"
               PROVE  [C!Next]_(C!vars)
    OBVIOUS
  <2>1. r \in Requests
    BY DEF CleanInv
  <2>2. ASSUME NEW q \in Requests, OnlyOf(q) PROVE q = r
    BY <2>1, <2>2, OthersKeep
  <2>3. ASSUME NEW q \in Requests, Begin(q) PROVE FALSE
    <3>1. pc[q] = "new" /\ OnlyOf(q)
      <4>1. OnlyOf(q)
        BY <2>3, BeginCases, StartPayDoes, StartAddDoes, StartMoveDoes, StartCronDoes
           DEF StartSend, StartCancel
      <4>2. pc[q] = "new"
        BY <2>3, BeginCases DEF StartPay, StartAdd, StartSend, StartCancel, StartMove,
                                StartCron, Start
      <4> QED BY <4>1, <4>2
    <3> QED BY <2>2, <3>1
  <2>4. ASSUME NEW q \in Requests, Step(q) PROVE q = r /\ (Commit(r) \/ Fail(r))
    <3>1. q = r
      BY <2>2, <2>4, StepCases
    <3>2. pc[r] = "commit" => Commit(r) \/ Fail(r)
      BY <2>4, <3>1 DEF Step, WritePayment, InsertItem, LoadCommitment, SumPayments,
                        FlushCommitment, RecomputeStatus, FlushCall, AbortVictim
    <3> QED BY <3>1, <3>2
  <2>5. Commit(r) \/ Fail(r)
    BY <2>3, <2>4 DEF Next, Idle, vars
  <2>6. CASE Commit(r)
    BY <2>6, PayIsAtomic, AddIsAtomic, MoveIsAtomic
  <2>7. CASE Fail(r)
    BY <2>7 DEF Fail, db, C!vars
  <2> QED BY <2>5, <2>6, <2>7
<1> QED BY <1>1, CleanTheorem, PTL DEF Spec, OverlapFreeIsAtomic

-----------------------------------------------------------------------------
(* Rings of requests that wait for one another.                            *)

\* A request that waits is at one of three statements and wants the rows of one
\* kind.
LEMMA WaiterStage ==
  ASSUME LockInv, NEW r \in Requests, NEW q \in Requests, Waits(r, q)
  PROVE  /\ pc[r] \in {"item", "total", "call"} /\ Working(r)
         /\ pc[r] = "item" => Wants(r) = {Item(job[r].call, Current(r))}
         /\ pc[r] = "total" => Wants(r) = {Total(Current(r))}
         /\ pc[r] = "call" => Wants(r) = CallRows(r)
<1>1. Wants(r) # {}
  BY DEF Waits
<1>2. pc[r] \in {"item", "total", "call"}
  BY <1>1 DEF Wants
<1>3. /\ pc[r] = "item" => Wants(r) = {Item(job[r].call, Current(r))}
      /\ pc[r] = "total" => Wants(r) = {Total(Current(r))}
      /\ pc[r] = "call" => Wants(r) = CallRows(r)
  BY <1>1 DEF Wants, CallRows
<1>4. pc[r] \in Stages
  BY <1>2 DEF Stages
<1> QED BY <1>2, <1>3, <1>4, AtWork

\* What a request at one of those statements holds.
LEMMA WaiterHolds ==
  ASSUME LockInv, NEW r \in Requests, Working(r)
  PROVE  /\ pc[r] = "item" => Writer(r) /\ held[r] = Items(r)
         /\ pc[r] = "total" => Writer(r) /\ held[r] = Items(r) \cup Totals(r)
         /\ pc[r] = "call" /\ job[r].op # "cron" => CallRows(r) \cap held[r] = {}
<1>1. pc[r] \in {"item", "total"} => Writer(r) /\ DOMAIN wrote[r].status = {}
  BY DEF Working, Mover, Writer, Summing
<1>2. pc[r] \in {"item", "total"} => held[r] = Items(r) \cup Totals(r)
  BY <1>1 DEF Working, CallRows
<1>3. pc[r] = "item" => Totals(r) = {}
  BY <1>1 DEF Writer, Totals
<1> QED BY <1>1, <1>2, <1>3 DEF Working

\* In a ring nobody waits for a call row: its holder would be the cron, which
\* would itself wait for another.
LEMMA RingStages ==
  ASSUME LockInv, NEW R \in SUBSET Requests, Ring(R), NEW r \in R
  PROVE  pc[r] \in {"item", "total"} /\ Working(r) /\ Writer(r)
<1>1. ASSUME NEW p \in R
      PROVE  /\ pc[p] \in {"item", "total", "call"} /\ Working(p)
             /\ \E q \in R : Waits(p, q)
  BY WaiterStage DEF Ring
<1>2. ASSUME NEW p \in R, NEW q \in R, Waits(p, q), pc[p] = "call"
      PROVE  pc[q] = "call" /\ job[q].op = "cron"
  <2>1. PICK k \in DOMAIN wrote[p].status : Call(k) \in held[q]
    BY <1>2, WaiterStage DEF Waits, CallRows
  <2>2. /\ pc[q] \in {"item", "total", "call"} /\ Working(q)
        /\ held[q] \subseteq Items(q) \cup Totals(q) \cup CallRows(q)
    BY <1>1 DEF Working
  <2>3. Call(k) \notin Items(q) \cup Totals(q)
    BY RowsDiffer DEF Items, Totals
  <2>4. Call(k) \in CallRows(q)
    BY <2>1, <2>2, <2>3
  <2>5. pc[q] = "call"
    BY <2>1, <2>2, <2>3, WaiterHolds
  <2> QED BY <2>1, <2>2, <2>4, <2>5, WaiterHolds
<1>3. ASSUME NEW p \in R PROVE pc[p] # "call"
  <2> SUFFICES ASSUME pc[p] = "call" PROVE FALSE
    OBVIOUS
  <2>1. PICK q \in R : Waits(p, q)
    BY <1>1
  <2>2. pc[q] = "call" /\ job[q].op = "cron"
    BY <1>2, <2>1
  <2>3. PICK s \in R : Waits(q, s)
    BY <1>1
  <2>4. job[s].op = "cron" /\ q # s
    BY <1>2, <2>2, <2>3 DEF Waits
  <2> QED BY <2>2, <2>4 DEF LockInv, OneCron
<1>4. pc[r] \in {"item", "total"} /\ Working(r)
  BY <1>1, <1>3
<1> QED BY <1>4, WaiterHolds

\* Who waits for a total waits for one who waits for a total as well: an item
\* is all that a request at its items holds.
LEMMA TotalWaiters ==
  ASSUME LockInv, NEW R \in SUBSET Requests, Ring(R), NEW r \in R, NEW q \in R,
         Waits(r, q), pc[r] = "total"
  PROVE  pc[q] = "total" /\ Totals(q) # {}
<1>1. Total(Current(r)) \in held[q]
  BY WaiterStage DEF Waits
<1>2. Total(Current(r)) \notin Items(q)
  BY RowsDiffer DEF Items
<1>3. pc[q] \in {"item", "total"} /\ Working(q)
  BY RingStages
<1> QED BY <1>1, <1>2, <1>3, WaiterHolds

\* A payment holds nothing before its item and no total before its total.
LEMMA PaysHold ==
  ASSUME LockInv, NEW r \in Requests, Working(r), Writer(r), job[r].op = "pay",
         pc[r] \in {"item", "total"}
  PROVE  Totals(r) = {} /\ (pc[r] = "item" => held[r] = {})
<1>1. Passed(r) = {}
  BY PaysFirst, FirstPosition
<1>2. DOMAIN wrote[r].total = {} /\ (pc[r] = "item" => DOMAIN wrote[r].item = {})
  BY <1>1 DEF Writer, Summing
<1> QED BY <1>2, WaiterHolds DEF Items, Totals

\* However many requests are in flight, a deadlock is one of allocations only.
\* A ring of finitely many requests each of which waits for one holder maps
\* onto itself, and so do the requests in it that wait for a total; a payment
\* among those would be waited for by another, and holds no total.
THEOREM DeadlockTheorem == Spec => []OnlyAddsDeadlock
<1>1. LockInv => OnlyAddsDeadlock
  <2> SUFFICES ASSUME LockInv, NEW R \in SUBSET Requests, Ring(R), NEW p \in R,
                      job[p].op = "pay"
               PROVE  FALSE
    BY RingStages, WriterOrder DEF OnlyAddsDeadlock
  <2>1. \A r \in R : pc[r] \in {"item", "total"} /\ Working(r) /\ Writer(r)
    BY RingStages
  <2>2. ASSUME NEW r \in R, NEW q \in R, NEW s \in R, Waits(r, q), Waits(r, s) PROVE q = s
    <3>1. PICK row : Wants(r) = {row}
      BY <2>1, <2>2, WaiterStage
    <3>2. row \in held[q] /\ row \in held[s]
      BY <2>2, <3>1 DEF Waits
    <3> QED BY <3>2 DEF LockInv, Exclusive
  <2> DEFINE f == [r \in R |-> CHOOSE q \in R : Waits(r, q)]
             T == {r \in R : pc[r] = "total"}
             g == [r \in T |-> f[r]]
  <2>3. \A r \in R : f[r] \in R /\ Waits(r, f[r])
    BY DEF Ring
  <2>4. \A q \in R : \E r \in R : f[r] = q
    <3> TAKE q \in R
    <3>1. PICK r \in R : Waits(r, q)
      BY DEF Ring
    <3>2. f[r] \in R /\ Waits(r, f[r])
      BY <2>3
    <3> HIDE DEF f
    <3> QED BY <2>2, <3>1, <3>2
  <2>5. DOMAIN f = R /\ f = [r \in R |-> f[r]]
    OBVIOUS
  <2> HIDE DEF f
  <2>6. f \in Injection(R, R)
    <3>1. f \in Surjection(R, R)
      BY <2>3, <2>4, <2>5 DEF Surjection
    <3>2. IsFiniteSet(R)
      BY RowsAssumption, FS_Subset
    <3> QED BY <3>1, <3>2, FS_Surjection
  <2>7. g \in Injection(T, T)
    <3>1. \A r \in T : f[r] \in T
      BY <2>3, TotalWaiters
    <3>2. \A r, q \in T : f[r] = f[q] => r = q
      BY <2>6 DEF Injection, IsInjective
    <3> QED BY <3>1, <3>2 DEF Injection, IsInjective
  <2>8. g \in Surjection(T, T)
    <3>1. IsFiniteSet(T)
      BY RowsAssumption, FS_Subset
    <3> HIDE DEF T, g
    <3> QED BY <2>7, <3>1, FS_Injection
  <2>9. pc[p] = "total"
    <3>1. held[p] # {}
      BY DEF Ring, Waits
    <3> QED BY <2>1, <3>1, PaysHold
  <2>10. PICK r \in T : f[r] = p
    BY <2>8, <2>9 DEF Surjection
  <2>11. Waits(r, p) /\ pc[r] = "total"
    BY <2>3, <2>10
  <2> QED BY <2>1, <2>9, <2>11, TotalWaiters, PaysHold
<1> QED BY <1>1, LockTheorem, PTL
=============================================================================
