---------------------------- MODULE CapitalCalls ----------------------------
(***************************************************************************)
(* Capital calls, their allocation items and the running called_amount of  *)
(* the commitments: CapitalCallRepository, the part of CommitmentRepository*)
(* it calls, and the daily overdue cron.  Every action is one request (one *)
(* database transaction, committed as a whole); CallTransactions opens the *)
(* transactions up and lets them overlap.                                  *)
(*                                                                         *)
(* A rejected request (400/404/409, rolled back) changes nothing and is    *)
(* not a step.  Titles, notes and call_date are left out.                  *)
(***************************************************************************)
EXTENDS Integers, FiniteSets, Functions

CONSTANTS
  Calls,         \* identities capital calls can be created with
  Commitments,   \* commitment rows, present from the start
  Funds,
  CallFund,      \* the fund each call is created for
  CommitmentFund,\* the fund of each commitment
  CallAmounts,   \* amounts a call can be created with or edited to
  Dues,          \* amount_due values a manual allocation can carry
  Payments,      \* amount_paid values a request can carry
  LedgerAmounts, \* called_amount values a commitment create/PATCH can carry
  DueDates,      \* due dates, as day numbers
  MaxDay,        \* bound: the last day the calendar reaches
  Shares(_, _)   \* allocate_pro_rata: Shares(total, S)[c], c \in S

ASSUME RowsAssumption == IsFiniteSet(Calls) /\ IsFiniteSet(Commitments)
ASSUME FundsAssumption ==
  /\ CallFund \in [Calls -> Funds]
  /\ CommitmentFund \in [Commitments -> Funds]
ASSUME AmountsAssumption ==
  /\ CallAmounts \subseteq Nat \ {0}
  /\ Dues \subseteq Nat
  /\ Payments \subseteq Nat
  /\ LedgerAmounts \subseteq Nat
ASSUME DaysAssumption == DueDates \subseteq Nat /\ MaxDay \in Nat
\* A share is a whole number of cents; nothing says it is not negative.
ASSUME SharesAssumption ==
  \A total \in CallAmounts : \A S \in SUBSET Commitments :
    Shares(total, S) \in [S -> Int]

VARIABLES
  status,    \* status[k]: the call's status, "none" while the row is absent
  amount,    \* amount[k]: the call's headline amount
  dueDate,   \* dueDate[k]
  items,     \* items[k]: the commitments the call has an item for
  due, paid, \* due[k][c], paid[k][c]: the item's amounts, 0 without an item
  called,    \* called[c]: commitments.called_amount
  manual,    \* history: commitments whose called_amount was typed in last
  announced, \* history: calls `send` has put in front of investors
  today      \* date.today()

vars == <<status, amount, dueDate, items, due, paid, called, manual,
          announced, today>>

-----------------------------------------------------------------------------
(* The status machine.                                                     *)

Sendable == {"draft", "scheduled"}
LpHidden == Sendable \cup {"cancelled"}
Terminal == {"cancelled"}
CallStatus == {"draft", "scheduled", "sent", "partially_paid", "paid",
               "overdue", "cancelled"}

\* Mutant: a corrected payment cannot unwind partially_paid.
CanMoveNoUnwind(s, t) ==
  \/ s = "draft"          /\ t \in {"scheduled", "sent", "cancelled"}
  \/ s = "scheduled"      /\ t \in {"sent", "cancelled"}
  \/ s = "sent"           /\ t \in {"partially_paid", "paid", "overdue", "cancelled"}
  \/ s = "partially_paid" /\ t \in {"paid", "overdue", "cancelled"}
  \/ s = "overdue"        /\ t \in {"partially_paid", "paid", "cancelled", "sent"}
  \/ s = "paid"           /\ t \in {"partially_paid", "sent", "overdue"}

\* <<s, t>> is in the table of allowed transitions.
CanMove(s, t) ==
  \/ s = "draft"          /\ t \in {"scheduled", "sent", "cancelled"}
  \/ s = "scheduled"      /\ t \in {"sent", "cancelled"}
  \/ s = "sent"           /\ t \in {"partially_paid", "paid", "overdue", "cancelled"}
  \/ s = "partially_paid" /\ t \in {"paid", "overdue", "cancelled", "sent"}
  \/ s = "overdue"        /\ t \in {"partially_paid", "paid", "cancelled", "sent"}
  \/ s = "paid"           /\ t \in {"partially_paid", "sent", "overdue"}

\* What the items of one call say of it: d and p map commitments to amounts.
Settled(d, p) == SumFunction(d) > 0 /\ SumFunction(p) >= SumFunction(d)

\* Mutant: payments promote a draft.
RecomputedPromotes(s, d, p, date, day) ==
  IF s \in Terminal              THEN s
  ELSE IF Settled(d, p)          THEN "paid"
  ELSE IF SumFunction(p) > 0     THEN "partially_paid"
  ELSE IF date < day             THEN "overdue"
                                 ELSE "sent"

\* recompute_status: the status a call in s with these items is moved to.
Recomputed(s, d, p, date, day) ==
  IF s \in Terminal \cup Sendable THEN s
  ELSE IF Settled(d, p)           THEN "paid"
  ELSE IF SumFunction(p) > 0      THEN "partially_paid"
  ELSE IF date < day              THEN "overdue"
                                  ELSE "sent"

\* recompute_totals: the column of commitment c in the items of all calls.  (It
\* writes distributed_amount as well, the same sum over other rows.)
PaidTotal(p, c) == SumFunction([k \in Calls |-> p[k][c]])

Exists(k) == status[k] # "none"

-----------------------------------------------------------------------------
(* Requests.                                                               *)

Init ==
  /\ status = [k \in Calls |-> "none"]
  /\ amount = [k \in Calls |-> 0]
  /\ dueDate = [k \in Calls |-> 0]
  /\ items = [k \in Calls |-> {}]
  /\ due = [k \in Calls |-> [c \in Commitments |-> 0]]
  /\ paid = [k \in Calls |-> [c \in Commitments |-> 0]]
  /\ called \in [Commitments -> LedgerAmounts]
  /\ manual = Commitments
  /\ announced = {}
  /\ today = 0

CreateDraft(k, a, date) ==
  /\ ~Exists(k)
  /\ status' = [status EXCEPT ![k] = "draft"]
  /\ amount' = [amount EXCEPT ![k] = a]
  /\ dueDate' = [dueDate EXCEPT ![k] = date]
  /\ UNCHANGED <<items, due, paid, called, manual, announced, today>>

\* PATCH of a call: any status, and neither items nor status follow.
Update(k, a, date) ==
  /\ Exists(k)
  /\ amount' = [amount EXCEPT ![k] = a]
  /\ dueDate' = [dueDate EXCEPT ![k] = date]
  /\ UNCHANGED <<status, items, due, paid, called, manual, announced, today>>

\* Mutant: the sums are read before the items are flushed.
WriteItemsUnflushed(k, d, p, touched) ==
  LET new == Recomputed(status[k], due[k], paid[k], dueDate[k], today) IN
  /\ new = status[k] \/ CanMove(status[k], new)
  /\ due' = [due EXCEPT ![k] = d]
  /\ paid' = [paid EXCEPT ![k] = p]
  /\ called' = [c \in Commitments |->
                  IF c \in touched THEN PaidTotal(paid, c) ELSE called[c]]
  /\ manual' = manual \ touched
  /\ status' = [status EXCEPT ![k] = new]
  /\ UNCHANGED <<amount, dueDate, announced, today>>

\* The tail every item write shares, in the same transaction: the items of
\* call k become d and p, the totals of the touched commitments and the status
\* of the call are recomputed.  A move outside the table raises: no step.
WriteItems(k, d, p, touched) ==
  LET new == Recomputed(status[k], d, p, dueDate[k], today) IN
  /\ new = status[k] \/ CanMove(status[k], new)
  /\ due' = [due EXCEPT ![k] = d]
  /\ paid' = [paid EXCEPT ![k] = p]
  /\ called' = [c \in Commitments |->
                  IF c \in touched THEN PaidTotal(paid', c) ELSE called[c]]
  /\ manual' = manual \ touched
  /\ status' = [status EXCEPT ![k] = new]
  /\ UNCHANGED <<amount, dueDate, announced, today>>

AddItems(k, allocation) ==
  LET new == DOMAIN allocation IN
  /\ Exists(k)
  /\ status[k] \notin {"paid", "cancelled"}
  /\ new # {}
  /\ \A c \in new : CommitmentFund[c] = CallFund[k]
  /\ new \cap items[k] = {}
  /\ items' = [items EXCEPT ![k] = @ \cup new]
  /\ WriteItems(k,
                [c \in Commitments |-> IF c \in new THEN allocation[c] ELSE due[k][c]],
                paid[k], new)

AddItemsManual(k) ==
  \E S \in SUBSET Commitments : \E allocation \in [S -> Dues] :
    AddItems(k, allocation)

\* mode=pro-rata: the commitments of the fund that are approved right now are
\* any set of them here.
AddItemsProRata(k) ==
  \E approved \in SUBSET {c \in Commitments : CommitmentFund[c] = CallFund[k]} :
    AddItems(k, Shares(amount[k], approved))

\* Mutant: the item is not looked up among the items of the call.
UpdateItemAnyRow(k, c, d, p) ==
  /\ Exists(k)
  /\ WriteItems(k, [due[k] EXCEPT ![c] = d], [paid[k] EXCEPT ![c] = p], {c})
  /\ UNCHANGED items

\* PATCH of an item, whatever the status of its call; an amount it leaves out
\* stays.
UpdateItem(k, c, d, p) ==
  /\ c \in items[k]
  /\ WriteItems(k, [due[k] EXCEPT ![c] = d], [paid[k] EXCEPT ![c] = p], {c})
  /\ UNCHANGED items

\* The bank import's write.
SetItemPayment(k, c, p) ==
  /\ c \in items[k]
  /\ WriteItems(k, due[k], [paid[k] EXCEPT ![c] = p], {c})
  /\ UNCHANGED items

\* Mutant: `send` does not check the status.
SendUnchecked(k) ==
  /\ Exists(k)
  /\ status' = [status EXCEPT ![k] = "sent"]
  /\ announced' = announced \cup {k}
  /\ UNCHANGED <<amount, dueDate, items, due, paid, called, manual, today>>

Send(k) ==
  /\ status[k] \in Sendable
  /\ status' = [status EXCEPT ![k] = "sent"]
  /\ announced' = announced \cup {k}
  /\ UNCHANGED <<amount, dueDate, items, due, paid, called, manual, today>>

TransitionStatus(k, new) ==
  /\ Exists(k)
  /\ CanMove(status[k], new)
  /\ status' = [status EXCEPT ![k] = new]
  /\ UNCHANGED <<amount, dueDate, items, due, paid, called, manual, announced, today>>

Cancel(k) == TransitionStatus(k, "cancelled")

\* Only the demo seed asks for it.
Schedule(k) == TransitionStatus(k, "scheduled")

\* Mutant: one more day of grace than the calendar has.
MarkOverdueLate ==
  LET late == {k \in Calls : CanMove(status[k], "overdue") /\ dueDate[k] < today - 1} IN
  /\ late # {}
  /\ status' = [k \in Calls |-> IF k \in late THEN "overdue" ELSE status[k]]
  /\ UNCHANGED <<amount, dueDate, items, due, paid, called, manual, announced, today>>

\* The daily cron: every status the table lets move to overdue is eligible.
MarkOverdue ==
  LET late == {k \in Calls : CanMove(status[k], "overdue") /\ dueDate[k] < today} IN
  /\ late # {}
  /\ status' = [k \in Calls |-> IF k \in late THEN "overdue" ELSE status[k]]
  /\ UNCHANGED <<amount, dueDate, items, due, paid, called, manual, announced, today>>

\* PATCH of a commitment may carry called_amount.
UpdateCommitment(c, v) ==
  /\ called' = [called EXCEPT ![c] = v]
  /\ manual' = manual \cup {c}
  /\ UNCHANGED <<status, amount, dueDate, items, due, paid, announced, today>>

\* Midnight.  MaxDay bounds the calendar.
NextDay ==
  /\ today < MaxDay
  /\ today' = today + 1
  /\ UNCHANGED <<status, amount, dueDate, items, due, paid, called, manual, announced>>

Next ==
  \/ \E k \in Calls :
       \/ \E a \in CallAmounts, date \in DueDates :
            CreateDraft(k, a, date) \/ Update(k, a, date)
       \/ AddItemsManual(k)
       \/ AddItemsProRata(k)
       \/ \E c \in Commitments :
            \/ \E d \in Dues \cup {due[k][c]}, p \in Payments \cup {paid[k][c]} :
                 UpdateItem(k, c, d, p)
            \/ \E p \in Payments : SetItemPayment(k, c, p)
       \/ Send(k) \/ Cancel(k) \/ Schedule(k)
  \/ MarkOverdue
  \/ \E c \in Commitments, v \in LedgerAmounts : UpdateCommitment(c, v)
  \/ NextDay

Spec == Init /\ [][Next]_vars

\* arq's cron runs once a day, so a call that stays eligible gets its run.
FairSpec == Spec /\ WF_vars(MarkOverdue)

-----------------------------------------------------------------------------
(* Properties.                                                             *)

\* Types.  A call that does not exist has no items, one that does has a
\* positive amount, and amounts are 0 where there is no item to hold them.
TypeOK ==
  /\ status \in [Calls -> CallStatus \cup {"none"}]
  /\ amount \in [Calls -> CallAmounts \cup {0}]
  /\ dueDate \in [Calls -> Nat]
  /\ items \in [Calls -> SUBSET Commitments]
  /\ due \in [Calls -> [Commitments -> Int]]
  /\ paid \in [Calls -> [Commitments -> Nat]]
  /\ called \in [Commitments -> Nat]
  /\ manual \subseteq Commitments
  /\ announced \subseteq Calls
  /\ today \in Nat
  /\ \A k \in Calls :
       /\ IF Exists(k) THEN amount[k] \in CallAmounts ELSE items[k] = {}
       /\ \A c \in Commitments \ items[k] : due[k][c] = 0 /\ paid[k][c] = 0

\* What a call says about money is true of its items: "paid" only when they
\* are fully paid, "partially_paid" only when something but not everything is.
\* Every path that can change an item, or add one, has to recompute the status.
StatusMatchesMoney ==
  \A k \in Calls :
    /\ status[k] = "paid" => Settled(due[k], paid[k])
    /\ status[k] = "partially_paid" =>
         SumFunction(paid[k]) > 0 /\ ~Settled(due[k], paid[k])

\* called_amount is the sum of the payments on the commitment's items over all
\* calls, from the first item write on and until somebody types in another one.
CalledInSync ==
  \A c \in Commitments \ manual : called[c] = PaidTotal(paid, c)

\* An investor never sees a call that was not sent: whatever order payments,
\* allocations, edits and the cron come in, they do not promote a draft.
NeverShownUnsent ==
  \A k \in Calls : Exists(k) /\ status[k] \notin LpHidden => k \in announced

\* Whatever amounts a correction of an item of a call carries, recompute_status
\* can perform the move it computes: the correction is never refused for the
\* status the call happens to be in (the ValueError has no handler on the PATCH).
CorrectionsNeverRefused ==
  \A k \in Calls : \A c \in items[k] : \A d \in Dues, p \in Payments :
    LET new == Recomputed(status[k], [due[k] EXCEPT ![c] = d],
                          [paid[k] EXCEPT ![c] = p], dueDate[k], today)
    IN  new = status[k] \/ CanMove(status[k], new)

\* Whoever writes the status, cron and `send` included, which assign it
\* directly, moves it along the table; a cancelled call stays cancelled.
StatusFollowsTable ==
  [][\A k \in Calls : Exists(k) /\ status'[k] # status[k]
        => CanMove(status[k], status'[k])]_vars

\* A sent call that is past due does not stay "sent" for ever, unless its due
\* date is edited.
PastDueIsMarked ==
  \A k \in Calls :
    status[k] = "sent" /\ dueDate[k] < today
      ~> status[k] # "sent" \/ dueDate[k] >= today

\* "draft/scheduled/paid/cancelled calls are untouched" by mark_overdue: a call
\* stops being paid only because its money changed.  The code violates it.
PaidLeavesOnlyByCorrection ==
  [][\A k \in Calls : status[k] = "paid" /\ status'[k] # "paid"
        => ~Settled(due[k], paid[k])']_vars
=============================================================================
