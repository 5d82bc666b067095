-------------------------- MODULE CallTransactions --------------------------
(***************************************************************************)
(* The requests of CapitalCalls opened up into SQL statements.  Handlers   *)
(* run in a thread pool, each on a session of its own (READ COMMITTED, no  *)
(* autoflush, no SELECT ... FOR UPDATE, no version column), so requests and*)
(* the cron overlap statement by statement:                                *)
(*   - a row is loaded once per session: later queries return the loaded   *)
(*     attributes however the row has changed since;                       *)
(*   - the sums run over what is committed plus the session's own writes;  *)
(*   - a flush updates only columns that differ from the loaded value, and *)
(*     waits for the row's lock, which is kept until commit or rollback.   *)
(*                                                                         *)
(* Calls and commitments exist from the start and dates stand still.       *)
(***************************************************************************)
EXTENDS Integers, FiniteSets, Functions, Sequences, SequencesExt

CONSTANTS
  Calls, Commitments,
  Requests,     \* threads, each of which handles one request
  Due,          \* Due[k][c]: amount_due of the item of k for c, if it exists
  Payments,     \* amount_paid values a PATCH can carry
  PastDue,      \* the calls whose due date is past
  FirstItems,   \* what items calls have at first: maps from calls to commitments
  FirstStatus   \* the statuses calls have at first, nothing being paid

ASSUME RowsAssumption == /\ IsFiniteSet(Calls) /\ IsFiniteSet(Commitments)
                         /\ PastDue \subseteq Calls /\ IsFiniteSet(Requests)
ASSUME DueAssumption == /\ Due \in [Calls -> [Commitments -> Nat]]
                        /\ Payments \subseteq Nat
                        /\ FirstItems \subseteq [Calls -> SUBSET Commitments]
                        /\ FirstStatus \subseteq {"draft", "sent"}

VARIABLES
  status, items, paid, called, \* the committed rows
  announced,  \* history: calls a `send` was committed for
  pc,         \* pc[r]: what request r does next
  job,        \* job[r]: the request
  saw,        \* saw[r]: what its session has loaded
  wrote,      \* wrote[r]: what it has flushed and not committed
  held,       \* held[r]: the row locks it holds
  clean       \* history: requests nobody's commit has come between so far

db == <<status, items, paid, called, announced>>
vars == <<db, pc, job, saw, wrote, held, clean>>

NoJob == [op |-> "none"]
NotLoaded == [status |-> "none", paid |-> 0, called |-> <<>>, total |-> 0]
Nothing == [item |-> <<>>, total |-> <<>>, status |-> <<>>]

-----------------------------------------------------------------------------
(* What a session sees.                                                    *)

\* f with v for x.
With(f, x, v) == [y \in {x} \cup DOMAIN f |-> IF y = x THEN v ELSE f[y]]

\* An overlay: w (a function on some rows) over the committed values f.
Over(w, f) == [x \in DOMAIN f |-> IF x \in DOMAIN w THEN w[x] ELSE f[x]]

\* The payments and items of call k as the session of request r reads them.
WritesItemsOf(r, k) == job[r].op \in {"pay", "add"} /\ job[r].call = k
PaidSeen(r, k) ==
  IF WritesItemsOf(r, k) THEN Over(wrote[r].item, paid[k]) ELSE paid[k]
ItemsSeen(r, k) ==
  IF WritesItemsOf(r, k) THEN items[k] \cup DOMAIN wrote[r].item ELSE items[k]
DueOf(k, S) == [c \in Commitments |-> IF c \in S THEN Due[k][c] ELSE 0]

\* CapitalCalls over the committed rows, a day after the past-due dates.
Unallocated(total, S) == [c \in S |-> 0]
C == INSTANCE CapitalCalls WITH
  Funds <- {0}, CallFund <- [k \in Calls |-> 0],
  CommitmentFund <- [c \in Commitments |-> 0],
  CallAmounts <- {1}, Dues <- UNION {Range(Due[k]) : k \in Calls},
  LedgerAmounts <- {0}, DueDates <- {0, 1}, MaxDay <- 1, Shares <- Unallocated,
  amount <- [k \in Calls |-> 1],
  dueDate <- [k \in Calls |-> IF k \in PastDue THEN 0 ELSE 1], today <- 1,
  due <- [k \in Calls |-> DueOf(k, items[k])], manual <- {}

\* The commitments request r works through, in its order.
Order(r) == job[r].order
Current(r) == Order(r)[job[r].at]

\* Row locks.
Item(k, c) == <<"item", k, c>>
Total(c) == <<"commitment", c>>
Call(k) == <<"call", k>>
Free(row, r) == \A q \in Requests \ {r} : row \notin held[q]

-----------------------------------------------------------------------------
(* Requests.                                                               *)

Init ==
  /\ status \in [Calls -> FirstStatus]
  /\ items \in FirstItems
  /\ paid = [k \in Calls |-> [c \in Commitments |-> 0]]
  /\ called = [c \in Commitments |-> 0]
  /\ announced = {k \in Calls : status[k] = "sent"}
  /\ pc = [r \in Requests |-> "new"]
  /\ job = [r \in Requests |-> NoJob]
  /\ saw = [r \in Requests |-> NotLoaded]
  /\ wrote = [r \in Requests |-> Nothing]
  /\ held = [r \in Requests |-> {}]
  /\ clean = {}

\* The handler loads what it works on; the checks it makes on that follow here,
\* and a request they reject is no step.
Start(r, request, loaded, next) ==
  /\ pc[r] = "new"
  /\ job' = [job EXCEPT ![r] = request]
  /\ saw' = [saw EXCEPT ![r] = loaded]
  /\ pc' = [pc EXCEPT ![r] = next]
  /\ clean' = clean \cup {r}
  /\ UNCHANGED <<db, held>>

\* Mutant: the PATCH goes over the items of all commitments.
StartPayAll(r, k, c, p) ==
  /\ c \in items[k]
  /\ Start(r, [op |-> "pay", call |-> k,
               order |-> <<c>> \o SetToSeq(Commitments \ {c}), at |-> 1, amount |-> p],
           [NotLoaded EXCEPT !.status = status[k], !.paid = paid[k][c]], "item")
  /\ UNCHANGED wrote

\* PATCH of an item: the call is loaded with its items.
StartPay(r, k, c, p) ==
  /\ c \in items[k]
  /\ Start(r, [op |-> "pay", call |-> k, order |-> <<c>>, at |-> 1, amount |-> p],
           [NotLoaded EXCEPT !.status = status[k], !.paid = paid[k][c]], "item")
  /\ UNCHANGED wrote

\* POST of items for the commitments of `order`, which are loaded now.
StartAdd(r, k, order) ==
  /\ status[k] \notin {"paid", "cancelled"}
  /\ Range(order) \cap items[k] = {}
  /\ Start(r, [op |-> "add", call |-> k, order |-> order, at |-> 1],
           [NotLoaded EXCEPT !.status = status[k],
                             !.called = [c \in Range(order) |-> called[c]]], "item")
  /\ UNCHANGED wrote

\* send, cancel: the new status is assigned on the strength of the loaded one.
StartMove(r, k, op, new) ==
  /\ Start(r, [op |-> op, call |-> k], [NotLoaded EXCEPT !.status = status[k]], "call")
  /\ wrote' = [wrote EXCEPT ![r].status = With(@, k, new)]

StartSend(r, k) == status[k] \in C!Sendable /\ StartMove(r, k, "send", "sent")
StartCancel(r, k) ==
  C!CanMove(status[k], "cancelled") /\ StartMove(r, k, "cancel", "cancelled")

\* The cron loads every call it is to flip.
StartCron(r) ==
  LET late == {k \in PastDue : C!CanMove(status[k], "overdue")} IN
  /\ late # {}
  /\ \A q \in Requests : job[q].op # "cron"
  /\ Start(r, [op |-> "cron"], NotLoaded, "call")
  /\ wrote' = [wrote EXCEPT ![r].status = [k \in late |-> "overdue"]]

\* Step to `next`; with more commitments to work through, back to `again`.
Advance(r, again, next) ==
  IF job[r].at < Len(Order(r))
  THEN /\ job' = [job EXCEPT ![r].at = @ + 1]
       /\ pc' = [pc EXCEPT ![r] = again]
  ELSE /\ job' = [job EXCEPT ![r].at = 1]
       /\ pc' = [pc EXCEPT ![r] = next]

Take(r, row) == Free(row, r) /\ held' = [held EXCEPT ![r] = @ \cup {row}]

\* Mutant: the session is not closed.
FailOpen(r) ==
  /\ pc' = [pc EXCEPT ![r] = "done"]
  /\ wrote' = [wrote EXCEPT ![r] = Nothing]
  /\ saw' = [saw EXCEPT ![r] = NotLoaded]
  /\ job' = [job EXCEPT ![r] = NoJob]
  /\ clean' = clean \ {r}
  /\ UNCHANGED <<db, held>>

\* Rollback: the locks go, the database stays.
Fail(r) ==
  /\ pc' = [pc EXCEPT ![r] = "done"]
  /\ held' = [held EXCEPT ![r] = {}]
  /\ wrote' = [wrote EXCEPT ![r] = Nothing]
  /\ saw' = [saw EXCEPT ![r] = NotLoaded]
  /\ job' = [job EXCEPT ![r] = NoJob]
  /\ clean' = clean \ {r}
  /\ UNCHANGED db

\* Flush of the items: UPDATE of a payment that differs from the loaded one.
WritePayment(r) ==
  LET k == job[r].call c == Current(r) IN
  /\ pc[r] = "item" /\ job[r].op = "pay"
  /\ IF job[r].amount = saw[r].paid
     THEN UNCHANGED <<held, wrote>>
     ELSE /\ Take(r, Item(k, c))
          /\ wrote' = [wrote EXCEPT ![r].item = With(@, c, job[r].amount)]
  /\ Advance(r, "item", "load")
  /\ UNCHANGED <<db, saw, clean>>

\* Mutant: no unique constraint, the existing item is overwritten.
InsertItemUpsert(r) ==
  LET k == job[r].call c == Current(r) IN
  /\ pc[r] = "item" /\ job[r].op = "add"
  /\ Take(r, Item(k, c))
  /\ wrote' = [wrote EXCEPT ![r].item = With(@, c, 0)]
  /\ Advance(r, "item", "load")
  /\ UNCHANGED <<db, saw, clean>>

\* INSERT of the next item; the unique constraint on (call, commitment) waits
\* for another insert of the pair to be decided.
InsertItem(r) ==
  LET k == job[r].call c == Current(r) IN
  /\ pc[r] = "item" /\ job[r].op = "add"
  /\ Free(Item(k, c), r)
  /\ IF c \in items[k]
     THEN Fail(r)
     ELSE /\ Take(r, Item(k, c))
          /\ wrote' = [wrote EXCEPT ![r].item = With(@, c, 0)]
          /\ Advance(r, "item", "load")
          /\ UNCHANGED <<db, saw, clean>>

\* recompute_totals, three statements: load the commitment, if the session has
\* not loaded it already ...
LoadCommitment(r) ==
  LET c == Current(r) IN
  /\ pc[r] = "load"
  /\ saw' = [saw EXCEPT ![r].called = IF c \in DOMAIN @ THEN @ ELSE With(@, c, called[c])]
  /\ pc' = [pc EXCEPT ![r] = "sum"]
  /\ UNCHANGED <<db, job, wrote, held, clean>>

\* Mutant: the sum leaves the session's own item out.
SumCommitted(r) ==
  LET c == Current(r) IN
  /\ pc[r] = "sum"
  /\ saw' = [saw EXCEPT ![r].total = SumFunction([k \in Calls |-> paid[k][c]])]
  /\ pc' = [pc EXCEPT ![r] = "total"]
  /\ UNCHANGED <<db, job, wrote, held, clean>>

\* ... SELECT the sum of its payments ...
SumPayments(r) ==
  LET c == Current(r) IN
  /\ pc[r] = "sum"
  /\ saw' = [saw EXCEPT ![r].total = SumFunction([k \in Calls |-> PaidSeen(r, k)[c]])]
  /\ pc' = [pc EXCEPT ![r] = "total"]
  /\ UNCHANGED <<db, job, wrote, held, clean>>

\* ... and UPDATE called_amount if the sum is not what was loaded.
FlushCommitment(r) ==
  LET c == Current(r) IN
  /\ pc[r] = "total"
  /\ IF saw[r].total = saw[r].called[c]
     THEN UNCHANGED <<held, wrote>>
     ELSE /\ Take(r, Total(c))
          /\ wrote' = [wrote EXCEPT ![r].total = With(@, c, saw[r].total)]
  /\ Advance(r, "load", "status")
  /\ UNCHANGED <<db, saw, clean>>

\* Mutant: the status follows the money from any status.
RecomputeAnyStatus(r) ==
  LET k == job[r].call
      new == C!Recomputed("sent", DueOf(k, ItemsSeen(r, k)),
                          PaidSeen(r, k), IF k \in PastDue THEN 0 ELSE 1, 1) IN
  /\ pc[r] = "status"
  /\ wrote' = [wrote EXCEPT ![r].status = With(@, k, new)]
  /\ pc' = [pc EXCEPT ![r] = "call"]
  /\ UNCHANGED <<db, job, saw, held, clean>>

\* recompute_status: fresh sums, but the status loaded when the request began.
RecomputeStatus(r) ==
  LET k == job[r].call
      new == C!Recomputed(saw[r].status, DueOf(k, ItemsSeen(r, k)),
                          PaidSeen(r, k), IF k \in PastDue THEN 0 ELSE 1, 1) IN
  /\ pc[r] = "status"
  /\ \/ /\ new = saw[r].status
        /\ pc' = [pc EXCEPT ![r] = "commit"]
        /\ UNCHANGED <<db, job, saw, wrote, held, clean>>
     \/ /\ C!CanMove(saw[r].status, new)
        /\ wrote' = [wrote EXCEPT ![r].status = With(@, k, new)]
        /\ pc' = [pc EXCEPT ![r] = "call"]
        /\ UNCHANGED <<db, job, saw, held, clean>>

\* UPDATE of the status of the calls, one row after the other.
FlushCall(r) ==
  LET left == {k \in DOMAIN wrote[r].status : Call(k) \notin held[r]} IN
  /\ pc[r] = "call"
  /\ \E k \in left : Take(r, Call(k))
  /\ pc' = [pc EXCEPT ![r] = IF Cardinality(left) = 1 THEN "commit" ELSE "call"]
  /\ UNCHANGED <<db, job, saw, wrote, clean>>

Commit(r) ==
  /\ pc[r] = "commit"
  /\ status' = Over(wrote[r].status, status)
  /\ called' = Over(wrote[r].total, called)
  /\ paid' = [k \in Calls |-> PaidSeen(r, k)]
  /\ items' = [k \in Calls |-> ItemsSeen(r, k)]
  /\ announced' = announced \cup (IF job[r].op = "send" THEN {job[r].call} ELSE {})
  /\ pc' = [pc EXCEPT ![r] = "done"]
  /\ held' = [held EXCEPT ![r] = {}]
  /\ wrote' = [wrote EXCEPT ![r] = Nothing]
  /\ saw' = [saw EXCEPT ![r] = NotLoaded]
  /\ job' = [job EXCEPT ![r] = NoJob]
  /\ clean' = IF db' = db THEN clean \ {r} ELSE {}

\* Whom r waits for: the holder of the row its next statement writes.
Wants(r) ==
  CASE pc[r] = "item" ->
         IF job[r].op = "pay" /\ job[r].amount = saw[r].paid
         THEN {} ELSE {Item(job[r].call, Current(r))}
    [] pc[r] = "total" ->
         IF saw[r].total = saw[r].called[Current(r)] THEN {} ELSE {Total(Current(r))}
    [] pc[r] = "call" -> {Call(k) : k \in DOMAIN wrote[r].status}
    [] OTHER -> {}
Waits(r, q) == r # q /\ Wants(r) \cap held[q] # {}

\* A ring of requests that wait for one another.
Ring(R) ==
  /\ R # {}
  /\ \A r \in R : (\E q \in R : Waits(r, q)) /\ (\E q \in R : Waits(q, r))

\* PostgreSQL aborts one of a deadlock's transactions: the request gets a 500.
AbortVictim(r) ==
  /\ \E R \in SUBSET Requests : r \in R /\ Ring(R)
  /\ Fail(r)

Step(r) ==
  \/ WritePayment(r) \/ InsertItem(r)
  \/ LoadCommitment(r) \/ SumPayments(r) \/ FlushCommitment(r)
  \/ RecomputeStatus(r) \/ FlushCall(r) \/ Commit(r)
  \/ AbortVictim(r)

Begin(r) ==
  \/ \E k \in Calls :
       \/ \E c \in Commitments, p \in Payments : StartPay(r, k, c, p)
       \/ \E order \in UNION {[1 .. n -> Commitments] : n \in 1 .. Cardinality(Commitments)} :
            /\ IsInjective(order)
            /\ StartAdd(r, k, order)
       \/ StartSend(r, k) \/ StartCancel(r, k)
  \/ StartCron(r)

\* Nothing in flight; the requests that have not come need not come.
Idle == (\A r \in Requests : pc[r] \in {"new", "done"}) /\ UNCHANGED vars

Next ==
  \/ \E r \in Requests : Begin(r) \/ Step(r)
  \/ Idle

\* A thread that has begun keeps running, and a lock that is free is granted.
Spec == Init /\ [][Next]_vars /\ \A r \in Requests : WF_vars(Step(r))

-----------------------------------------------------------------------------
(* Properties.                                                             *)

\* Types; and a request that has ended, be it by its commit, a rollback or an
\* abort, leaves nothing behind: no row lock, nothing flushed or loaded.
TypeOK ==
  /\ status \in [Calls -> C!CallStatus]
  /\ items \in [Calls -> SUBSET Commitments]
  /\ paid \in [Calls -> [Commitments -> Nat]]
  /\ called \in [Commitments -> Nat]
  /\ announced \subseteq Calls
  /\ pc \in [Requests -> {"new", "item", "load", "sum", "total", "status",
                          "call", "commit", "done"}]
  /\ \A r \in Requests : pc[r] \in {"new", "done"} =>
       /\ job[r] = NoJob /\ saw[r] = NotLoaded
       /\ wrote[r] = Nothing /\ held[r] = {}

\* A request whose whole run no other commit falls into changes the database as
\* one of the atomic requests of CapitalCalls does, whatever else is in flight
\* and however stale the total it finds: it repairs what an overlap has left.
OverlapFreeIsAtomic ==
  [][\A r \in clean : pc[r] = "commit" /\ pc'[r] = "done"
        => [C!Next]_(C!vars)]_vars

\* However requests overlap, stale statuses included, no call shows up at an
\* investor's that was not sent.
NeverShownUnsent == C!NeverShownUnsent

\* Of the requests that wait for one another in a ring every one is a bulk
\* allocation: a PATCH, a send, a cancel and the cron take their locks in one
\* order and are never a deadlock's victim.
OnlyAddsDeadlock ==
  \A R \in SUBSET Requests : Ring(R) => \A r \in R : job[r].op = "add"

\* An allocation that loses the race for a (call, commitment) pair does not
\* wipe the payment the winner's item has received since.
PaymentsSurviveAllocations ==
  [][\A k \in Calls : \A c \in items[k] : paid'[k][c] # paid[k][c]
        => \E r \in Requests : job[r].op = "pay" /\ pc'[r] = "done"]_vars

\* Every request that has begun comes to an end: locks are released on all paths
\* and a ring is broken by the abort.  (A thread begins one request at most.)
RequestsFinish == <>[](\A r \in Requests : pc[r] \in {"new", "done"})

\* "keeps commitments.called_amount ... in sync as items are paid": once no
\* request is in flight the total is right.  Two calls' items can be paid at
\* once, each request summing before the other commits.
TotalsSettle ==
  (\A r \in Requests : pc[r] \in {"new", "done"}) => C!CalledInSync
=============================================================================
