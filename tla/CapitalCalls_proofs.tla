------------------------- MODULE CapitalCalls_proofs -------------------------
(***************************************************************************)
(* Theorems about CapitalCalls, for every set of calls and commitments,    *)
(* and about BankImport, for every set of uploads and lines besides.       *)
(***************************************************************************)
EXTENDS BankImport, SumTheorems, TLAPS

\* The sum over the calls of one commitment's payments is a natural number.
LEMMA PaidTotalType ==
  ASSUME NEW p \in [Calls -> [Commitments -> Nat]], NEW c \in Commitments
  PROVE  PaidTotal(p, c) \in Nat
<1>1. [k \in Calls |-> p[k][c]] \in [Calls -> Nat]
  OBVIOUS
<1> QED BY <1>1, RowsAssumption, SumNat DEF PaidTotal

\* The tail of every item write keeps the types of what it assigns.
LEMMA WriteItemsType ==
  ASSUME TypeOK, NEW k \in Calls, status[k] # "none",
         NEW d \in [Commitments -> Int], NEW p \in [Commitments -> Nat],
         NEW touched \in SUBSET Commitments,
         NEW it \in SUBSET Commitments, items' = [items EXCEPT ![k] = it],
         \A c \in Commitments \ it : d[c] = 0 /\ p[c] = 0,
         WriteItems(k, d, p, touched)
  PROVE  TypeOK'
<1>1. due' \in [Calls -> [Commitments -> Int]]
  BY DEF TypeOK, WriteItems
<1>2. paid' \in [Calls -> [Commitments -> Nat]]
  BY DEF TypeOK, WriteItems
<1>3. called' \in [Commitments -> Nat]
  <2>1. \A c \in Commitments : PaidTotal(paid', c) \in Nat
    BY <1>2, PaidTotalType
  <2> QED BY <2>1 DEF TypeOK, WriteItems
<1>4. status' \in [Calls -> CallStatus \cup {"none"}] /\ status'[k] # "none"
  <2>1. Recomputed(status[k], d, p, dueDate[k], today) \in CallStatus
    BY DEF TypeOK, Recomputed, Terminal, Sendable, CallStatus
  <2> QED BY <2>1 DEF TypeOK, WriteItems, CallStatus
<1>5. \A j \in Calls : j # k => status'[j] = status[j]
  BY DEF TypeOK, WriteItems
<1>6. ASSUME NEW j \in Calls
      PROVE  /\ IF Exists(j)' THEN amount'[j] \in CallAmounts ELSE items'[j] = {}
             /\ \A c \in Commitments \ items'[j] : due'[j][c] = 0 /\ paid'[j][c] = 0
  <2>1. CASE j = k
    BY <2>1, <1>4 DEF TypeOK, WriteItems, Exists
  <2>2. CASE j # k
    BY <2>2, <1>5 DEF TypeOK, WriteItems, Exists
  <2> QED BY <2>1, <2>2
<1> QED BY <1>1, <1>2, <1>3, <1>4, <1>6 DEF TypeOK, WriteItems

\* What the requests that write items have in common: call k exists, its items
\* become d and p, and only touched commitments get another payment.
ItemWrite(k) ==
  \E d \in [Commitments -> Int], p \in [Commitments -> Nat],
     touched \in SUBSET Commitments, it \in SUBSET Commitments :
    /\ status[k] # "none"
    /\ WriteItems(k, d, p, touched)
    /\ items' = [items EXCEPT ![k] = it]
    /\ \A c \in Commitments \ it : d[c] = 0 /\ p[c] = 0
    /\ \A c \in Commitments \ touched : p[c] = paid[k][c]

\* An allocation that add_items accepts is an item write, negative shares
\* included.
LEMMA AddItemsWrites ==
  ASSUME TypeOK, NEW k \in Calls, NEW S \in SUBSET Commitments,
         NEW allocation \in [S -> Int], AddItems(k, allocation)
  PROVE  ItemWrite(k)
<1> DEFINE d == [c \in Commitments |-> IF c \in S THEN allocation[c] ELSE due[k][c]]
           it == items[k] \cup S
<1>1. d \in [Commitments -> Int] /\ paid[k] \in [Commitments -> Nat]
  BY DEF TypeOK
<1>2. /\ WriteItems(k, d, paid[k], S)
      /\ status[k] # "none"
      /\ items' = [items EXCEPT ![k] = it]
  BY DEF AddItems, Exists
<1>3. \A c \in Commitments \ it : d[c] = 0 /\ paid[k][c] = 0
  BY DEF TypeOK
<1>4. it \in SUBSET Commitments
  BY DEF TypeOK
<1> HIDE DEF d, it
<1> QED BY <1>1, <1>2, <1>3, <1>4 DEF ItemWrite, WriteItems

\* So is one a manager types in,
LEMMA ManualWrites ==
  ASSUME TypeOK, NEW k \in Calls, AddItemsManual(k)
  PROVE  ItemWrite(k)
<1>1. PICK S \in SUBSET Commitments : \E allocation \in [S -> Dues] :
        AddItems(k, allocation)
  BY DEF AddItemsManual
<1>2. PICK allocation \in [S -> Dues] : AddItems(k, allocation)
  BY <1>1
<1>3. Dues \subseteq Int
  BY AmountsAssumption
<1>4. allocation \in [S -> Int]
  BY <1>3
<1> QED BY <1>2, <1>4, AddItemsWrites

\* one allocate_pro_rata computes from the call's amount,
LEMMA ProRataWrites ==
  ASSUME TypeOK, NEW k \in Calls, AddItemsProRata(k)
  PROVE  ItemWrite(k)
<1>1. PICK S \in SUBSET Commitments : AddItems(k, Shares(amount[k], S))
  BY DEF AddItemsProRata
<1>2. amount[k] \in CallAmounts
  BY <1>1 DEF AddItems, TypeOK
<1> QED BY <1>1, <1>2, SharesAssumption, AddItemsWrites

\* and the PATCH of an item.
LEMMA UpdateItemWrites ==
  ASSUME TypeOK, NEW k \in Calls, NEW c \in Commitments,
         NEW d \in Dues \cup {due[k][c]}, NEW p \in Payments \cup {paid[k][c]},
         UpdateItem(k, c, d, p)
  PROVE  ItemWrite(k)
<1> DEFINE dd == [due[k] EXCEPT ![c] = d]
           pp == [paid[k] EXCEPT ![c] = p]
           it == items[k]
           touched == {c}
<1>1. status[k] # "none" /\ c \in items[k]
  BY DEF TypeOK, UpdateItem, Exists
<1>2. dd \in [Commitments -> Int] /\ pp \in [Commitments -> Nat]
  BY AmountsAssumption DEF TypeOK
<1>3. \A b \in Commitments \ it : dd[b] = 0 /\ pp[b] = 0
  BY <1>1 DEF TypeOK
<1>4. \A b \in Commitments \ touched : pp[b] = paid[k][b]
  BY DEF TypeOK
<1>5. items' = [items EXCEPT ![k] = it] /\ it \in SUBSET Commitments
  BY DEF UpdateItem, TypeOK
<1>6. WriteItems(k, dd, pp, touched) /\ touched \in SUBSET Commitments
  BY DEF UpdateItem
<1> HIDE DEF dd, pp, it, touched
<1> QED BY <1>1, <1>2, <1>3, <1>4, <1>5, <1>6 DEF ItemWrite, WriteItems

\* The bank import's write is the PATCH that leaves amount_due alone.
LEMMA SetItemPaymentWrites ==
  ASSUME TypeOK, NEW k \in Calls, NEW c \in Commitments, NEW p \in Payments,
         SetItemPayment(k, c, p)
  PROVE  ItemWrite(k)
<1>1. due[k] = [due[k] EXCEPT ![c] = due[k][c]]
  BY DEF TypeOK
<1>2. UpdateItem(k, c, due[k][c], p)
  BY <1>1 DEF SetItemPayment, UpdateItem
<1> QED BY <1>2, UpdateItemWrites

\* The rows there are when nothing was asked for yet.
LEMMA CallTypesInitially == Init => TypeOK
<1> SUFFICES ASSUME Init PROVE TypeOK
  OBVIOUS
<1>1. called \in [Commitments -> Nat]
  BY AmountsAssumption DEF Init
<1>2. due \in [Calls -> [Commitments -> Int]] /\ paid \in [Calls -> [Commitments -> Nat]]
  BY DEF Init
<1>3. \A k \in Calls :
        /\ IF Exists(k) THEN amount[k] \in CallAmounts ELSE items[k] = {}
        /\ \A c \in Commitments \ items[k] : due[k][c] = 0 /\ paid[k][c] = 0
  BY DEF Init, Exists
<1> QED BY <1>1, <1>2, <1>3 DEF Init, TypeOK

\* A request leaves rows of the declared types.
LEMMA CallTypesKept == TypeOK /\ [Next]_vars => TypeOK'
<1> SUFFICES ASSUME TypeOK, [Next]_vars PROVE TypeOK'
  OBVIOUS
<1>1. ASSUME NEW k \in Calls, NEW a \in CallAmounts, NEW date \in DueDates,
             CreateDraft(k, a, date)
      PROVE  TypeOK'
  BY <1>1, AmountsAssumption, DaysAssumption
     DEF TypeOK, CreateDraft, CallStatus, Exists
<1>2. ASSUME NEW k \in Calls, NEW a \in CallAmounts, NEW date \in DueDates,
             Update(k, a, date)
      PROVE  TypeOK'
  BY <1>2, AmountsAssumption, DaysAssumption DEF TypeOK, Update, Exists
<1>3. ASSUME NEW k \in Calls, ItemWrite(k)
      PROVE  TypeOK'
  BY <1>3, WriteItemsType DEF ItemWrite
<1>4. ASSUME NEW k \in Calls, Send(k)
      PROVE  TypeOK'
  BY <1>4 DEF TypeOK, Send, Sendable, CallStatus, Exists
<1>5. ASSUME NEW k \in Calls, NEW new \in CallStatus, TransitionStatus(k, new)
      PROVE  TypeOK'
  BY <1>5 DEF TypeOK, TransitionStatus, CallStatus, Exists
<1>6. CASE MarkOverdue
  BY <1>6 DEF TypeOK, MarkOverdue, CanMove, CallStatus, Exists
<1>7. ASSUME NEW c \in Commitments, NEW v \in LedgerAmounts, UpdateCommitment(c, v)
      PROVE  TypeOK'
  BY <1>7, AmountsAssumption DEF TypeOK, UpdateCommitment, Exists
<1>8. CASE NextDay
  BY <1>8 DEF TypeOK, NextDay, Exists
<1>9. CASE UNCHANGED vars
  BY <1>9 DEF TypeOK, vars, Exists
<1>10. "cancelled" \in CallStatus /\ "scheduled" \in CallStatus
  BY DEF CallStatus
<1> QED BY <1>1, <1>2, <1>3, <1>4, <1>5, <1>6, <1>7, <1>8, <1>9, <1>10,
           ManualWrites, ProRataWrites, UpdateItemWrites, SetItemPaymentWrites
        DEF Next, Cancel, Schedule

\* Every request leaves rows of the declared types: an item's payment stays a
\* natural number and so does the total a commitment carries.
THEOREM TypeCorrect == Spec => []TypeOK
BY CallTypesInitially, CallTypesKept, PTL DEF Spec

\* Every step is an item write or one of the few requests that write no item.
LEMMA StepCases ==
  ASSUME TypeOK, [Next]_vars
  PROVE  \/ \E k \in Calls : ItemWrite(k)
         \/ \E k \in Calls, a \in CallAmounts, date \in DueDates :
              CreateDraft(k, a, date) \/ Update(k, a, date)
         \/ \E k \in Calls : Send(k)
         \/ \E k \in Calls, new \in {"cancelled", "scheduled"} :
              TransitionStatus(k, new)
         \/ MarkOverdue
         \/ \E c \in Commitments, v \in LedgerAmounts : UpdateCommitment(c, v)
         \/ NextDay
         \/ UNCHANGED vars
BY ManualWrites, ProRataWrites, UpdateItemWrites, SetItemPaymentWrites
   DEF Next, Cancel, Schedule

\* A request leaves `paid` and `partially_paid` true of the items.
LEMMA MoneyKept == TypeOK /\ StatusMatchesMoney /\ [Next]_vars => StatusMatchesMoney'
<1> SUFFICES ASSUME TypeOK, StatusMatchesMoney, [Next]_vars
             PROVE  StatusMatchesMoney'
  OBVIOUS
<1>1. ASSUME NEW k \in Calls, ItemWrite(k)
      PROVE  StatusMatchesMoney'
  <2>1. PICK d \in [Commitments -> Int], p \in [Commitments -> Nat],
             touched \in SUBSET Commitments :
          WriteItems(k, d, p, touched)
    BY <1>1 DEF ItemWrite
  <2>2. /\ status'[k] = Recomputed(status[k], d, p, dueDate[k], today)
        /\ due'[k] = d /\ paid'[k] = p
    BY <2>1 DEF TypeOK, WriteItems
  <2>3. \A j \in Calls : j # k =>
          status'[j] = status[j] /\ due'[j] = due[j] /\ paid'[j] = paid[j]
    BY <2>1 DEF TypeOK, WriteItems
  <2>4. /\ status'[k] = "paid" => Settled(d, p)
        /\ status'[k] = "partially_paid" => SumFunction(p) > 0 /\ ~Settled(d, p)
    BY <2>2 DEF Recomputed, Terminal, Sendable
  <2> QED BY <2>2, <2>3, <2>4 DEF StatusMatchesMoney
<1>2. ASSUME NEW k \in Calls, NEW a \in CallAmounts, NEW date \in DueDates,
             CreateDraft(k, a, date) \/ Update(k, a, date)
      PROVE  StatusMatchesMoney'
  BY <1>2 DEF TypeOK, CreateDraft, Update, StatusMatchesMoney
<1>3. ASSUME NEW k \in Calls, Send(k)
      PROVE  StatusMatchesMoney'
  BY <1>3 DEF TypeOK, Send, StatusMatchesMoney
<1>4. ASSUME NEW k \in Calls, NEW new \in {"cancelled", "scheduled"},
             TransitionStatus(k, new)
      PROVE  StatusMatchesMoney'
  BY <1>4 DEF TypeOK, TransitionStatus, StatusMatchesMoney
<1>5. CASE MarkOverdue
  BY <1>5 DEF TypeOK, MarkOverdue, StatusMatchesMoney
<1>6. CASE UNCHANGED <<status, due, paid>>
  BY <1>6 DEF StatusMatchesMoney
<1> QED BY <1>1, <1>2, <1>3, <1>4, <1>5, <1>6, StepCases
        DEF UpdateCommitment, NextDay, vars

\* A call is "paid" or "partially_paid" only when its items say so, for any
\* number of items: nothing else is needed than that every item write ends in
\* recompute_status and every other writer stays clear of those two statuses.
THEOREM MoneyTheorem == Spec => []StatusMatchesMoney
<1>1. Init => StatusMatchesMoney
  BY DEF Init, StatusMatchesMoney
<1> QED BY <1>1, MoneyKept, CallTypesInitially, CallTypesKept, PTL DEF Spec

\* A request leaves called_amount the sum of the items' payments.
LEMMA LedgerKept == TypeOK /\ CalledInSync /\ [Next]_vars => CalledInSync'
<1> SUFFICES ASSUME TypeOK, CalledInSync, [Next]_vars
             PROVE  CalledInSync'
  OBVIOUS
<1>1. ASSUME NEW k \in Calls, ItemWrite(k)
      PROVE  CalledInSync'
  <2>1. PICK d \in [Commitments -> Int], p \in [Commitments -> Nat],
             touched \in SUBSET Commitments :
          /\ WriteItems(k, d, p, touched)
          /\ \A c \in Commitments \ touched : p[c] = paid[k][c]
    BY <1>1 DEF ItemWrite
  <2> SUFFICES ASSUME NEW c \in Commitments \ manual'
               PROVE  called'[c] = PaidTotal(paid', c)
    BY DEF CalledInSync
  <2>2. CASE c \in touched
    BY <2>1, <2>2 DEF WriteItems
  <2>3. CASE c \notin touched
    <3>1. called'[c] = called[c] /\ c \notin manual
      BY <2>1, <2>3 DEF WriteItems
    <3>2. \A j \in Calls : paid'[j][c] = paid[j][c]
      BY <2>1, <2>3 DEF WriteItems, TypeOK
    <3>3. PaidTotal(paid', c) = PaidTotal(paid, c)
      <4>1. [j \in Calls |-> paid'[j][c]] = [j \in Calls |-> paid[j][c]]
        BY <3>2
      <4> QED BY <4>1 DEF PaidTotal
    <3> QED BY <3>1, <3>3 DEF CalledInSync
  <2> QED BY <2>2, <2>3
<1>2. ASSUME NEW c \in Commitments, NEW v \in LedgerAmounts, UpdateCommitment(c, v)
      PROVE  CalledInSync'
  <2>1. paid' = paid /\ \A b \in Commitments \ manual' :
                           b \notin manual /\ called'[b] = called[b]
    BY <1>2 DEF UpdateCommitment, TypeOK
  <2> QED BY <2>1 DEF CalledInSync, PaidTotal
<1>3. CASE UNCHANGED <<paid, called, manual>>
  BY <1>3 DEF CalledInSync, PaidTotal
<1> QED BY <1>1, <1>2, <1>3, StepCases
        DEF CreateDraft, Update, Send, TransitionStatus, MarkOverdue, NextDay, vars

\* called_amount is what the items of all calls add up to, for any number of
\* calls: an item write that leaves a commitment out leaves its sum alone.
THEOREM LedgerTheorem == Spec => []CalledInSync
<1>1. Init => CalledInSync
  BY DEF Init, CalledInSync
<1> QED BY <1>1, LedgerKept, CallTypesInitially, CallTypesKept, PTL DEF Spec

\* A call an investor can see is one `send` announced.
THEOREM VisibilityTheorem == Spec => []NeverShownUnsent
<1>1. Init => NeverShownUnsent
  BY DEF Init, NeverShownUnsent, Exists
<1>2. TypeOK /\ NeverShownUnsent /\ [Next]_vars => NeverShownUnsent'
  <2> SUFFICES ASSUME TypeOK, NeverShownUnsent, [Next]_vars
               PROVE  NeverShownUnsent'
    OBVIOUS
  <2> USE DEF NeverShownUnsent, Exists, LpHidden, Sendable
  <2>1. ASSUME NEW k \in Calls, ItemWrite(k)
        PROVE  NeverShownUnsent'
    <3>1. PICK d \in [Commitments -> Int], p \in [Commitments -> Nat],
               touched \in SUBSET Commitments :
            status[k] # "none" /\ WriteItems(k, d, p, touched)
      BY <2>1 DEF ItemWrite
    <3>2. /\ status'[k] = Recomputed(status[k], d, p, dueDate[k], today)
          /\ \A j \in Calls : j # k => status'[j] = status[j]
          /\ announced' = announced
      BY <3>1 DEF TypeOK, WriteItems
    <3>3. status[k] \in LpHidden => status'[k] \in LpHidden
      BY <3>2 DEF Recomputed, Terminal
    <3> QED BY <3>1, <3>2, <3>3
  <2>2. ASSUME NEW k \in Calls, NEW a \in CallAmounts, NEW date \in DueDates,
               CreateDraft(k, a, date) \/ Update(k, a, date)
        PROVE  NeverShownUnsent'
    BY <2>2 DEF TypeOK, CreateDraft, Update
  <2>3. ASSUME NEW k \in Calls, Send(k)
        PROVE  NeverShownUnsent'
    BY <2>3 DEF TypeOK, Send
  <2>4. ASSUME NEW k \in Calls, NEW new \in {"cancelled", "scheduled"},
               TransitionStatus(k, new)
        PROVE  NeverShownUnsent'
    BY <2>4 DEF TypeOK, TransitionStatus
  <2>5. CASE MarkOverdue
    BY <2>5 DEF TypeOK, MarkOverdue, CanMove
  <2>6. CASE UNCHANGED <<status, announced>>
    BY <2>6
  <2> QED BY <2>1, <2>2, <2>3, <2>4, <2>5, <2>6, StepCases
          DEF UpdateCommitment, NextDay, vars
<1>3. QED BY <1>1, <1>2, TypeCorrect, PTL DEF Spec

\* The table has every move recompute_status can ask for, from every status an
\* item can be corrected in.
THEOREM CorrectionTheorem == Spec => []CorrectionsNeverRefused
<1>1. TypeOK => CorrectionsNeverRefused
  BY DEF TypeOK, CorrectionsNeverRefused, Recomputed, CanMove, Terminal,
         Sendable, CallStatus, Exists
<1>2. QED BY <1>1, TypeCorrect, PTL

\* No writer of the status, the two that assign it directly included, leaves
\* the table.
THEOREM TableTheorem == Spec => StatusFollowsTable
<1>1. TypeOK /\ [Next]_vars =>
        [\A k \in Calls : Exists(k) /\ status'[k] # status[k]
            => CanMove(status[k], status'[k])]_vars
  <2> SUFFICES ASSUME TypeOK, [Next]_vars, NEW j \in Calls,
                      status[j] # "none", status'[j] # status[j]
               PROVE  CanMove(status[j], status'[j])
    BY DEF Exists
  <2>1. ASSUME NEW k \in Calls, ItemWrite(k)
        PROVE  CanMove(status[j], status'[j])
    <3>1. PICK d \in [Commitments -> Int], p \in [Commitments -> Nat],
               touched \in SUBSET Commitments :
            WriteItems(k, d, p, touched)
      BY <2>1 DEF ItemWrite
    <3> QED BY <3>1 DEF TypeOK, WriteItems
  <2>2. ASSUME NEW k \in Calls, NEW a \in CallAmounts, NEW date \in DueDates,
               CreateDraft(k, a, date)
        PROVE  CanMove(status[j], status'[j])
    BY <2>2 DEF TypeOK, CreateDraft, Exists
  <2>3. ASSUME NEW k \in Calls, Send(k)
        PROVE  CanMove(status[j], status'[j])
    BY <2>3 DEF TypeOK, Send, Sendable, CanMove
  <2>4. ASSUME NEW k \in Calls, NEW new \in {"cancelled", "scheduled"},
               TransitionStatus(k, new)
        PROVE  CanMove(status[j], status'[j])
    BY <2>4 DEF TypeOK, TransitionStatus
  <2>5. CASE MarkOverdue
    BY <2>5 DEF TypeOK, MarkOverdue
  <2>6. status' # status
    OBVIOUS
  <2> QED BY <2>1, <2>2, <2>3, <2>4, <2>5, <2>6, StepCases
          DEF Update, UpdateCommitment, NextDay, vars
<1>2. QED BY <1>1, TypeCorrect, PTL DEF Spec, StatusFollowsTable

-----------------------------------------------------------------------------
(* The bank import, which posts its payments to the calls                  *)

\* What CreditedOnce rests on: a transaction is marked "applied" in the step
\* that credits it, once for each time the request names it, and never
\* unmarked, one upload stores one transaction per
\* reference, and of two transactions with a reference of the bank's one at
\* most is applied.
CreditInv ==
  /\ txnStatus \in [Lines -> {"none", "unmatched", "ignored", "applied"}]
  /\ credits \in [Lines -> Nat]
  /\ importStatus \in [Imports -> {"none", "pending", "applied"}]
  /\ \A t \in Lines : txnStatus[t] # "none" => importStatus[ImportOf[t]] # "none"
  /\ repeated \subseteq Lines
  /\ \A t \in Lines : credits[t] > 0 <=> txnStatus[t] = "applied"
  /\ \A t \in Lines \ repeated : credits[t] <= 1
  /\ \A t, u \in Lines :
       /\ t # u
       /\ ReferenceOf[t] = ReferenceOf[u]
       => /\ ~(/\ ImportOf[t] = ImportOf[u]
               /\ txnStatus[t] # "none" /\ txnStatus[u] # "none")
          /\ txnStatus[t] = "applied" /\ txnStatus[u] = "applied"
               => ReferenceOf[t] \in Synthetic

\* Nothing is stored, so nothing is credited, at first.
LEMMA CreditInit == BankInit => CreditInv
BY LinesAssumption DEF BankInit, CreditInv

\* An upload stores transactions only where none of the import's are.
LEMMA CreditUpload ==
  ASSUME CreditInv, NEW i \in Imports, CreateImport(i)
  PROVE  CreditInv'
<1>1. PICK rows \in SUBSET {t \in Lines : ImportOf[t] = i} :
        /\ \A t, u \in rows : ReferenceOf[t] = ReferenceOf[u] => t = u
        /\ txnStatus' = [t \in Lines |->
                           IF t \in rows THEN "unmatched" ELSE txnStatus[t]]
  BY DEF CreateImport
<1>2. importStatus[i] = "none" /\ credits' = credits /\ repeated' = repeated
      /\ importStatus' = [importStatus EXCEPT ![i] = "pending"]
  BY DEF CreateImport
<1>3. \A t \in Lines : ImportOf[t] = i => txnStatus[t] = "none"
  BY <1>2 DEF CreditInv
<1>4. \A t \in Lines : txnStatus'[t] = IF t \in rows THEN "unmatched" ELSE txnStatus[t]
  BY <1>1
<1>5. \A t \in Lines : txnStatus'[t] = "applied" <=> txnStatus[t] = "applied"
  BY <1>3, <1>4
<1>6. /\ txnStatus' \in [Lines -> {"none", "unmatched", "ignored", "applied"}]
      /\ credits' \in [Lines -> Nat]
      /\ importStatus' \in [Imports -> {"none", "pending", "applied"}]
  BY <1>1, <1>2 DEF CreditInv
<1>7. \A t \in Lines : txnStatus'[t] # "none" => importStatus'[ImportOf[t]] # "none"
  BY <1>2, <1>4, LinesAssumption DEF CreditInv
<1>8. /\ repeated' \subseteq Lines
      /\ \A t \in Lines : credits'[t] > 0 <=> txnStatus'[t] = "applied"
      /\ \A t \in Lines \ repeated' : credits'[t] <= 1
  BY <1>2, <1>5 DEF CreditInv
<1>9. ASSUME NEW t \in Lines, NEW u \in Lines, t # u, ReferenceOf[t] = ReferenceOf[u]
      PROVE  /\ ~(/\ ImportOf[t] = ImportOf[u]
                  /\ txnStatus'[t] # "none" /\ txnStatus'[u] # "none")
             /\ txnStatus'[t] = "applied" /\ txnStatus'[u] = "applied"
                  => ReferenceOf[t] \in Synthetic
  <2>1. CASE ImportOf[t] = i /\ ImportOf[u] = i
    BY <1>1, <1>3, <1>4, <1>5, <1>9, <2>1
  <2>2. CASE ~(ImportOf[t] = i /\ ImportOf[u] = i)
    BY <1>1, <1>4, <1>5, <1>9, <2>2 DEF CreditInv
  <2> QED BY <2>1, <2>2
<1> QED BY <1>6, <1>7, <1>8, <1>9 DEF CreditInv

\* How often a request names a transaction it names.
LEMMA NamedCount ==
  ASSUME NEW len \in Nat, NEW list \in [1..len -> Assignment], NEW t \in Assigned(list)
  PROVE  Cardinality(AssignedTo(list, t)) \in Nat \ {0}
<1>1. AssignedTo(list, t) \subseteq 1..len /\ AssignedTo(list, t) # {}
  BY DEF AssignedTo, Assigned
<1>2. IsFiniteSet(AssignedTo(list, t))
  BY <1>1, FS_Interval, FS_Subset
<1> QED BY <1>1, <1>2, FS_CardinalityType, FS_EmptySet

\* An apply marks what it pays for, which were transactions of its import, and
\* takes no mark back.
LEMMA ApplyMarks ==
  ASSUME CreditInv, NEW i \in Imports, NEW len \in Nat,
         NEW list \in [1..len -> Assignment], NEW ignore \in SUBSET Lines,
         Apply(i, list, ignore)
  PROVE  /\ \A t \in Payable(Assigned(list)) :
              /\ t \in Lines /\ ImportOf[t] = i
              /\ txnStatus[t] \notin {"none", "applied"}
              /\ ~ReferenceAlreadyApplied(t)
         /\ \A t \in Lines :
              /\ txnStatus'[t] = "applied"
                   <=> t \in Payable(Assigned(list)) \/ txnStatus[t] = "applied"
              /\ txnStatus'[t] = "none" <=> txnStatus[t] = "none"
<1> DEFINE pay == Payable(Assigned(list))
<1>1. Assigned(list) \subseteq Transactions(i) /\ MarkTransactions(i, pay, Duplicates(Assigned(list)), ignore)
  BY DEF Apply
<1>2. \A t \in pay : /\ t \in Lines /\ ImportOf[t] = i
                     /\ txnStatus[t] \notin {"none", "applied"}
                     /\ ~ReferenceAlreadyApplied(t)
  BY <1>1 DEF Payable, Duplicates, Fresh, Transactions
<1>3. \A t \in Duplicates(Assigned(list)) : txnStatus[t] \notin {"none", "applied"}
  BY <1>1 DEF Duplicates, Fresh, Transactions
<1>4. \A t \in ignore \cap Transactions(i) : txnStatus[t] # "none"
  BY DEF Transactions
<1> HIDE DEF pay
<1>5. \A t \in Lines : /\ txnStatus'[t] = "applied" <=> t \in pay \/ txnStatus[t] = "applied"
                       /\ txnStatus'[t] = "none" <=> txnStatus[t] = "none"
  BY <1>1, <1>2, <1>3, <1>4 DEF MarkTransactions
<1> QED BY <1>2, <1>5 DEF pay

\* Applying an import credits transactions nobody else's reference stands for.
LEMMA CreditApply ==
  ASSUME CreditInv, NEW i \in Imports, NEW len \in Nat,
         NEW list \in [1..len -> Assignment], NEW ignore \in SUBSET Lines,
         Apply(i, list, ignore)
  PROVE  CreditInv'
<1> DEFINE pay == Payable(Assigned(list))
<1>1. /\ Assigned(list) \subseteq Transactions(i)
      /\ importStatus[i] # "none"
      /\ MarkTransactions(i, pay, Duplicates(Assigned(list)), ignore)
      /\ Tally(i)
      /\ credits' = [t \in Lines |->
                       IF t \in pay THEN credits[t] + Cardinality(AssignedTo(list, t))
                       ELSE credits[t]]
      /\ repeated' = repeated \cup {t \in pay : Cardinality(AssignedTo(list, t)) > 1}
  BY DEF Apply
<1>2. \A t \in pay : /\ t \in Lines /\ ImportOf[t] = i
                     /\ txnStatus[t] \notin {"none", "applied"}
                     /\ ~ReferenceAlreadyApplied(t)
  BY ApplyMarks
<1>3. \A t \in Lines : /\ txnStatus'[t] = "applied" <=> t \in pay \/ txnStatus[t] = "applied"
                       /\ txnStatus'[t] = "none" <=> txnStatus[t] = "none"
  BY ApplyMarks
<1>9. \A t \in pay : Cardinality(AssignedTo(list, t)) \in Nat \ {0}
  BY NamedCount DEF Payable, Fresh
<1> HIDE DEF pay
<1>4. /\ txnStatus' \in [Lines -> {"none", "unmatched", "ignored", "applied"}]
      /\ importStatus' \in [Imports -> {"none", "pending", "applied"}]
      /\ \A j \in Imports : importStatus[j] # "none" => importStatus'[j] # "none"
  BY <1>1 DEF MarkTransactions, Tally, CreditInv
<1>5. credits' \in [Lines -> Nat]
  BY <1>1, <1>9 DEF CreditInv
<1>6. \A t \in Lines : txnStatus'[t] # "none" => importStatus'[ImportOf[t]] # "none"
  BY <1>3, <1>4, LinesAssumption DEF CreditInv
<1>7. /\ repeated' \subseteq Lines
      /\ \A t \in Lines : credits'[t] > 0 <=> txnStatus'[t] = "applied"
      /\ \A t \in Lines \ repeated' : credits'[t] <= 1
  <2>1. \A t \in pay : credits[t] = 0
    BY <1>2 DEF CreditInv
  <2>2. \A t \in pay : credits'[t] = Cardinality(AssignedTo(list, t))
    BY <1>1, <1>2, <1>9, <2>1
  <2>3. \A t \in Lines \ pay : credits'[t] = credits[t]
    BY <1>1
  <2>4. \A t \in pay \ repeated' : ~(Cardinality(AssignedTo(list, t)) > 1)
    BY <1>1
  <2>5. repeated' \subseteq Lines
    BY <1>1, <1>2 DEF CreditInv
  <2>6. \A t \in Lines : credits'[t] > 0 <=> txnStatus'[t] = "applied"
    BY <1>2, <1>3, <1>9, <2>2, <2>3 DEF CreditInv
  <2>7. \A t \in Lines \ repeated' : credits'[t] <= 1
    <3>1. \A t \in pay \ repeated' : credits'[t] \in Nat /\ ~(credits'[t] > 1)
      BY <1>9, <2>2, <2>4
    <3>2. \A t \in Lines \ (pay \cup repeated') : credits'[t] <= 1
      BY <1>1, <2>3 DEF CreditInv
    <3> QED BY <3>1, <3>2
  <2> QED BY <2>5, <2>6, <2>7
<1>8. ASSUME NEW t \in Lines, NEW u \in Lines, t # u, ReferenceOf[t] = ReferenceOf[u]
       PROVE  /\ ~(/\ ImportOf[t] = ImportOf[u]
                   /\ txnStatus'[t] # "none" /\ txnStatus'[u] # "none")
              /\ txnStatus'[t] = "applied" /\ txnStatus'[u] = "applied"
                   => ReferenceOf[t] \in Synthetic
  <2>1. ~(/\ ImportOf[t] = ImportOf[u]
          /\ txnStatus[t] # "none" /\ txnStatus[u] # "none")
    BY <1>8 DEF CreditInv
  <2>2. ~(t \in pay /\ u \in pay)
    BY <1>2, <2>1
  <2>3. \A a, b \in Lines :
          a # b /\ ReferenceOf[a] = ReferenceOf[b] /\ a \in pay /\ txnStatus[b] = "applied"
            => ReferenceOf[a] \in Synthetic
    BY <1>2 DEF ReferenceAlreadyApplied
  <2>4. txnStatus[t] = "applied" /\ txnStatus[u] = "applied" => ReferenceOf[t] \in Synthetic
    BY <1>8 DEF CreditInv
  <2> QED BY <1>3, <1>8, <2>1, <2>2, <2>3, <2>4
<1> QED BY <1>4, <1>5, <1>6, <1>7, <1>8 DEF CreditInv

\* What ApplySome chooses among.
LEMMA ApplyChoice ==
  ASSUME NEW i \in Imports, ApplySome(i)
  PROVE  \E len, list, ignore :
           /\ len \in Nat /\ list \in [1..len -> Assignment] /\ ignore \in SUBSET Lines
           /\ Apply(i, list, ignore)
<1>1. PICK ignore \in SUBSET {t \in Transactions(i) : txnStatus[t] = "unmatched"},
           len \in 0..MaxAssignments :
        \E list \in [1..len -> {a \in Assignment : a.txn \in Transactions(i)}] :
          Apply(i, list, ignore)
  BY DEF ApplySome
<1>2. PICK list \in [1..len -> {a \in Assignment : a.txn \in Transactions(i)}] :
        Apply(i, list, ignore)
  BY <1>1
<1>3. len \in Nat /\ ignore \in SUBSET Lines /\ list \in [1..len -> Assignment]
  BY LinesAssumption DEF Transactions
<1> QED BY <1>2, <1>3

\* Every request keeps what CreditedOnce rests on.
LEMMA CreditStep == CreditInv /\ [BankNext]_allVars => CreditInv'
<1> SUFFICES ASSUME CreditInv, [BankNext]_allVars PROVE CreditInv'
  OBVIOUS
<1>1. ASSUME NEW i \in Imports, CreateImport(i) PROVE CreditInv'
  BY <1>1, CreditUpload
<1>2. ASSUME NEW i \in Imports, ApplySome(i) PROVE CreditInv'
  <2>1. PICK len, list, ignore :
          /\ len \in Nat /\ list \in [1..len -> Assignment] /\ ignore \in SUBSET Lines
          /\ Apply(i, list, ignore)
    BY <1>2, ApplyChoice
  <2> QED BY <2>1, CreditApply
<1>3. CASE UNCHANGED bankVars
  BY <1>3 DEF bankVars, CreditInv
<1> QED BY <1>1, <1>2, <1>3 DEF BankNext, allVars

\* No bank payment with a reference of its own is credited twice, for any
\* number of uploads, applied in any order and any number of times, unless one
\* request names its transaction twice.
THEOREM CreditTheorem == BankSpec => []CreditedOnce
<1>1. CreditInv => CreditedOnce
  BY DEF CreditInv, CreditedOnce
<1> QED BY <1>1, CreditInit, CreditStep, PTL DEF BankSpec

-----------------------------------------------------------------------------
(* What an import does to the calls.                                       *)

\* What an apply adds to an item is a natural number, and nothing where no
\* payment goes.
LEMMA IncrementType ==
  ASSUME NEW len \in Nat, NEW list \in [1..len -> Assignment],
         NEW pay \in SUBSET Lines, NEW k \in Calls, NEW c \in Commitments
  PROVE  /\ Increment(list, pay, k, c) \in Nat
         /\ (\A n \in Paying(list, pay) : list[n].call # k \/ list[n].commitment # c)
              => Increment(list, pay, k, c) = 0
<1> DEFINE f == [n \in Paying(list, pay) |->
                   IF list[n].call = k /\ list[n].commitment = c
                   THEN list[n].amount ELSE 0]
<1>1. IsFiniteSet(Paying(list, pay))
  BY FS_Interval, FS_Subset DEF Paying
<1>2. f \in [Paying(list, pay) -> Nat] /\ DOMAIN f = Paying(list, pay)
  BY LinesAssumption DEF Assignment, Paying
<1>3. SumFunction(f) \in Nat
  BY <1>1, <1>2, SumNat
<1>4. ASSUME \A n \in Paying(list, pay) : list[n].call # k \/ list[n].commitment # c
      PROVE  SumFunction(f) = 0
  <2>1. \A n \in Paying(list, pay) : f[n] = 0
    BY <1>4
  <2> QED BY <1>1, <1>2, <2>1, SumZero
<1> QED BY <1>3, <1>4 DEF Increment

\* The items' payments after an apply.
LEMMA PaidAfter ==
  ASSUME TypeOK, NEW len \in Nat, NEW list \in [1..len -> Assignment],
         NEW pay \in SUBSET Lines, PostPayments(list, pay)
  PROVE  /\ paid' \in [Calls -> [Commitments -> Nat]]
         /\ \A k \in Calls, c \in Commitments :
              (\A n \in Paying(list, pay) : list[n].call # k \/ list[n].commitment # c)
                => paid'[k][c] = paid[k][c]
<1>1. paid' = [k \in Calls |-> [c \in Commitments |->
                 paid[k][c] + Increment(list, pay, k, c)]]
  BY DEF PostPayments
<1>2. \A k \in Calls, c \in Commitments : paid[k][c] \in Nat
  BY DEF TypeOK
<1>3. \A k \in Calls, c \in Commitments : Increment(list, pay, k, c) \in Nat
  BY IncrementType
<1>4. \A k \in Calls, c \in Commitments :
        paid[k][c] + Increment(list, pay, k, c) \in Nat
  BY <1>2, <1>3
<1>5. ASSUME NEW k \in Calls, NEW c \in Commitments,
             \A n \in Paying(list, pay) : list[n].call # k \/ list[n].commitment # c
      PROVE  paid'[k][c] = paid[k][c]
  <2>1. Increment(list, pay, k, c) = 0
    BY <1>5, IncrementType
  <2> QED BY <1>1, <1>2, <2>1
<1> QED BY <1>1, <1>4, <1>5

\* Posting payments to items there are is one more way to write items: the
\* rows keep their types, the statuses their meaning and the totals their sum.
LEMMA PaymentsPosted ==
  ASSUME TypeOK, NEW len \in Nat, NEW list \in [1..len -> Assignment],
         NEW pay \in SUBSET Lines, PostPayments(list, pay),
         \A n \in Paying(list, pay) : list[n].commitment \in items[list[n].call]
  PROVE  /\ TypeOK'
         /\ StatusMatchesMoney => StatusMatchesMoney'
         /\ CalledInSync => CalledInSync'
<1> DEFINE touchedCalls == {list[n].call : n \in Paying(list, pay)}
           touched == {list[n].commitment : n \in Paying(list, pay)}
           new(k) == Recomputed(status[k], due[k], paid'[k], dueDate[k], today)
<1>1. paid' \in [Calls -> [Commitments -> Nat]]
  BY PaidAfter
<1>2. \A k \in Calls \ touchedCalls : paid'[k] = paid[k]
  <2> SUFFICES ASSUME NEW k \in Calls \ touchedCalls PROVE paid'[k] = paid[k]
    OBVIOUS
  <2>1. \A c \in Commitments : paid'[k][c] = paid[k][c]
    BY PaidAfter
  <2> QED BY <1>1, <2>1 DEF TypeOK
<1>3. \A c \in Commitments \ touched : \A k \in Calls : paid'[k][c] = paid[k][c]
  BY PaidAfter
<1>4. \A k \in Calls : \A c \in Commitments \ items[k] : paid'[k][c] = paid[k][c]
  <2> SUFFICES ASSUME NEW k \in Calls, NEW c \in Commitments \ items[k]
               PROVE  paid'[k][c] = paid[k][c]
    OBVIOUS
  <2>1. \A n \in Paying(list, pay) : list[n].call # k \/ list[n].commitment # c
    OBVIOUS
  <2> QED BY <2>1, PaidAfter
<1>5. /\ status' = [k \in Calls |-> IF k \in touchedCalls THEN new(k) ELSE status[k]]
      /\ called' = [c \in Commitments |->
                      IF c \in touched THEN PaidTotal(paid', c) ELSE called[c]]
      /\ manual' = manual \ touched
      /\ UNCHANGED <<amount, dueDate, items, due, announced, today>>
  BY DEF PostPayments
<1>6. \A k \in touchedCalls : k \in Calls /\ items[k] # {} /\ status[k] # "none"
  BY DEF Assignment, Paying, TypeOK, Exists
<1>7. \A k \in Calls : status[k] # "none" => new(k) \in CallStatus
  BY DEF TypeOK, Recomputed, Terminal, Sendable, CallStatus
<1> HIDE DEF touchedCalls, touched
<1>8. TypeOK'
  <2>1. \A c \in Commitments : PaidTotal(paid', c) \in Nat
    BY <1>1, PaidTotalType
  <2>2. called' \in [Commitments -> Nat]
    BY <1>5, <2>1 DEF TypeOK
  <2>3. status' \in [Calls -> CallStatus \cup {"none"}]
        /\ \A k \in Calls : status'[k] = "none" <=> status[k] = "none"
    BY <1>5, <1>6, <1>7 DEF TypeOK, CallStatus
  <2>4. \A k \in Calls :
          /\ IF Exists(k)' THEN amount'[k] \in CallAmounts ELSE items'[k] = {}
          /\ \A c \in Commitments \ items'[k] : due'[k][c] = 0 /\ paid'[k][c] = 0
    BY <1>4, <1>5, <2>3 DEF TypeOK, Exists
  <2> QED BY <1>1, <1>5, <2>2, <2>3, <2>4 DEF TypeOK
<1>9. ASSUME StatusMatchesMoney PROVE StatusMatchesMoney'
  <2> SUFFICES ASSUME NEW k \in Calls
               PROVE  /\ status'[k] = "paid" => Settled(due'[k], paid'[k])
                      /\ status'[k] = "partially_paid" =>
                           SumFunction(paid'[k]) > 0 /\ ~Settled(due'[k], paid'[k])
    BY DEF StatusMatchesMoney
  <2>1. CASE k \in touchedCalls
    <3>1. status'[k] = Recomputed(status[k], due[k], paid'[k], dueDate[k], today)
          /\ due'[k] = due[k]
      BY <1>5, <2>1
    <3> QED BY <3>1 DEF Recomputed, Terminal, Sendable
  <2>2. CASE k \notin touchedCalls
    BY <1>2, <1>5, <1>9, <2>2 DEF StatusMatchesMoney
  <2> QED BY <2>1, <2>2
<1>10. ASSUME CalledInSync PROVE CalledInSync'
  <2> SUFFICES ASSUME NEW c \in Commitments \ manual'
               PROVE  called'[c] = PaidTotal(paid', c)
    BY DEF CalledInSync
  <2>1. CASE c \in touched
    BY <1>5, <2>1
  <2>2. CASE c \notin touched
    <3>1. [k \in Calls |-> paid'[k][c]] = [k \in Calls |-> paid[k][c]]
      BY <1>3, <2>2
    <3>2. PaidTotal(paid', c) = PaidTotal(paid, c)
      BY <3>1 DEF PaidTotal
    <3> QED BY <1>5, <1>10, <2>2, <3>2 DEF CalledInSync
  <2> QED BY <2>1, <2>2
<1> QED BY <1>8, <1>9, <1>10

\* A step of an import, as far as the calls can tell.
LEMMA ImportOnCalls ==
  ASSUME TypeOK, NEW i \in Imports, ApplySome(i)
  PROVE  /\ TypeOK'
         /\ StatusMatchesMoney => StatusMatchesMoney'
         /\ CalledInSync => CalledInSync'
         /\ appliedCount \in [Imports -> Nat] => appliedCount' \in [Imports -> Nat]
<1>1. PICK len, list, ignore :
        /\ len \in Nat /\ list \in [1..len -> Assignment] /\ ignore \in SUBSET Lines
        /\ Apply(i, list, ignore)
  BY ApplyChoice
<1> DEFINE pay == Payable(Assigned(list))
<1>3. pay \in SUBSET Lines
  BY <1>1 DEF Assigned, Assignment, Payable, Fresh
<1>4. /\ PostPayments(list, pay)
      /\ \A n \in Paying(list, pay) : list[n].commitment \in items[list[n].call]
      /\ Tally(i)
  BY <1>1 DEF Apply
<1>5. ASSUME appliedCount \in [Imports -> Nat] PROVE appliedCount' \in [Imports -> Nat]
  <2> DEFINE applied == {t \in Transactions(i) : txnStatus'[t] = "applied"}
  <2>1. Cardinality(applied) \in Nat
    <3>1. applied \subseteq Lines
      BY DEF Transactions
    <3> QED BY <3>1, LinesAssumption, FS_Subset, FS_CardinalityType
  <2>2. appliedCount' = [appliedCount EXCEPT ![i] = Cardinality(applied)]
    BY <1>4 DEF Tally
  <2> HIDE DEF applied
  <2> QED BY <1>5, <2>1, <2>2
<1> HIDE DEF pay
<1> QED BY <1>1, <1>3, <1>4, <1>5, PaymentsPosted

BankTypeInv == CreditInv /\ TypeOK /\ appliedCount \in [Imports -> Nat]

\* Nothing is uploaded and no call is made, at first.
LEMMA BankInitially == BankInit => BankTypeInv
BY CreditInit, CallTypesInitially DEF BankInit, BankTypeInv

\* Every request of calls and imports, and what it does to the calls.
LEMMA BankStep ==
  ASSUME BankTypeInv, [BankNext]_allVars
  PROVE  /\ BankTypeInv'
         /\ StatusMatchesMoney => StatusMatchesMoney'
         /\ CalledInSync => CalledInSync'
<1>1. CreditInv'
  BY CreditStep DEF BankTypeInv
<1>2. CASE [Next]_vars /\ UNCHANGED bankVars
  BY <1>1, <1>2, CallTypesKept, MoneyKept, LedgerKept DEF BankTypeInv, bankVars
<1>3. ASSUME NEW i \in Imports, CreateImport(i)
      PROVE  UNCHANGED vars /\ appliedCount' = appliedCount
  BY <1>3 DEF CreateImport, callVars
<1>4. CASE UNCHANGED vars /\ appliedCount' = appliedCount
  <2>1. [Next]_vars
    BY <1>4
  <2> QED BY <1>1, <1>4, <2>1, CallTypesKept, MoneyKept, LedgerKept DEF BankTypeInv
<1>5. ASSUME NEW i \in Imports, ApplySome(i)
      PROVE  /\ BankTypeInv'
             /\ StatusMatchesMoney => StatusMatchesMoney'
             /\ CalledInSync => CalledInSync'
  BY <1>1, <1>5, ImportOnCalls DEF BankTypeInv
<1> QED BY <1>2, <1>3, <1>4, <1>5 DEF BankNext, allVars, callVars, bankVars

\* Every request, an upload or an apply included, leaves rows of the declared
\* types, and a transaction belongs to an upload there is.
THEOREM BankTypes == BankSpec => []BankTypeOK
<1>1. BankTypeInv => BankTypeOK
  BY DEF BankTypeInv, CreditInv, BankTypeOK
<1> QED BY <1>1, BankInitially, BankStep, PTL DEF BankSpec

\* Bank imports leave `paid` and `partially_paid` true of the calls' items,
\* however many payments one apply posts to how many calls.
THEOREM BankMoney == BankSpec => []StatusMatchesMoney
<1>1. BankInit => StatusMatchesMoney
  BY DEF BankInit, Init, StatusMatchesMoney
<1> QED BY <1>1, BankInitially, BankStep, PTL DEF BankSpec

\* Bank imports leave called_amount the sum of the items' payments: an apply
\* recomputes the total of every commitment it pays for.
THEOREM BankLedger == BankSpec => []CalledInSync
<1>1. BankInit => CalledInSync
  BY DEF BankInit, Init, CalledInSync
<1> QED BY <1>1, BankInitially, BankStep, PTL DEF BankSpec

\* The transactions of import i that settled an item.
AppliedOf(i) == {t \in Lines : ImportOf[t] = i /\ txnStatus[t] = "applied"}

\* An import counts its applied transactions, and is applied if there are any.
TallyInv ==
  \A i \in Imports : /\ appliedCount[i] = Cardinality(AppliedOf(i))
                     /\ importStatus[i] = "applied" <=> AppliedOf(i) # {}

\* An upload stores transactions that are not applied.
LEMMA TallyUpload ==
  ASSUME CreditInv, TallyInv, NEW i \in Imports, CreateImport(i) PROVE TallyInv'
<1>1. PICK rows \in SUBSET {t \in Lines : ImportOf[t] = i} :
        txnStatus' = [t \in Lines |-> IF t \in rows THEN "unmatched" ELSE txnStatus[t]]
  BY DEF CreateImport
<1>2. /\ importStatus[i] = "none" /\ appliedCount' = appliedCount
      /\ importStatus' = [importStatus EXCEPT ![i] = "pending"]
  BY DEF CreateImport
<1>3. \A t \in Lines : ImportOf[t] = i => txnStatus[t] = "none"
  BY <1>2 DEF CreditInv
<1>4. \A t \in Lines : txnStatus'[t] = "applied" <=> txnStatus[t] = "applied"
  BY <1>1, <1>3
<1>5. ASSUME NEW j \in Imports PROVE AppliedOf(j)' = AppliedOf(j)
  BY <1>4 DEF AppliedOf
<1>6. \A j \in Imports : importStatus'[j] = "applied" <=> importStatus[j] = "applied"
  BY <1>2 DEF CreditInv
<1>7. ASSUME NEW j \in Imports
      PROVE  /\ appliedCount'[j] = Cardinality(AppliedOf(j)')
             /\ importStatus'[j] = "applied" <=> AppliedOf(j)' # {}
  BY <1>2, <1>5, <1>6 DEF TallyInv
<1> QED BY <1>7 DEF TallyInv

\* An apply counts anew; other imports' transactions keep their marks.
LEMMA TallyApply ==
  ASSUME CreditInv, TallyInv, appliedCount \in [Imports -> Nat],
         NEW i \in Imports, NEW len \in Nat,
         NEW list \in [1..len -> Assignment], NEW ignore \in SUBSET Lines,
         Apply(i, list, ignore)
  PROVE  TallyInv'
<1> DEFINE applied == {t \in Transactions(i) : txnStatus'[t] = "applied"}
<1>1. /\ appliedCount' = [appliedCount EXCEPT ![i] = Cardinality(applied)]
      /\ importStatus' = [importStatus EXCEPT ![i] =
                            IF applied # {} THEN "applied" ELSE @]
  BY DEF Apply, Tally
<1>2. /\ \A t \in Payable(Assigned(list)) : ImportOf[t] = i
      /\ \A t \in Lines :
           /\ txnStatus'[t] = "applied"
                <=> t \in Payable(Assigned(list)) \/ txnStatus[t] = "applied"
           /\ txnStatus'[t] = "none" <=> txnStatus[t] = "none"
  BY ApplyMarks
<1>3. applied = AppliedOf(i)'
  BY <1>2 DEF AppliedOf, Transactions
<1>4. AppliedOf(i) \subseteq AppliedOf(i)'
  BY <1>2 DEF AppliedOf
<1>5. ASSUME NEW j \in Imports, j # i PROVE AppliedOf(j)' = AppliedOf(j)
  BY <1>2, <1>5 DEF AppliedOf
<1> HIDE DEF applied
<1>6. ASSUME NEW j \in Imports
      PROVE  /\ appliedCount'[j] = Cardinality(AppliedOf(j)')
             /\ importStatus'[j] = "applied" <=> AppliedOf(j)' # {}
  <2>1. CASE j = i
    <3>1. appliedCount'[i] = Cardinality(AppliedOf(i)')
      BY <1>1, <1>3
    <3>2. importStatus'[i] = IF applied # {} THEN "applied" ELSE importStatus[i]
      BY <1>1 DEF CreditInv
    <3>3. importStatus[i] = "applied" => AppliedOf(i)' # {}
      BY <1>4 DEF TallyInv
    <3> QED BY <1>3, <2>1, <3>1, <3>2, <3>3
  <2>2. CASE j # i
    <3>1. appliedCount'[j] = appliedCount[j] /\ importStatus'[j] = importStatus[j]
      BY <1>1, <2>2 DEF CreditInv
    <3> QED BY <1>5, <2>2, <3>1 DEF TallyInv
  <2> QED BY <2>1, <2>2
<1> QED BY <1>6 DEF TallyInv

LEMMA TallyStep == BankTypeInv /\ TallyInv /\ [BankNext]_allVars => TallyInv'
<1> SUFFICES ASSUME BankTypeInv, TallyInv, [BankNext]_allVars PROVE TallyInv'
  OBVIOUS
<1>1. ASSUME NEW i \in Imports, CreateImport(i) PROVE TallyInv'
  BY <1>1, TallyUpload DEF BankTypeInv
<1>2. ASSUME NEW i \in Imports, ApplySome(i) PROVE TallyInv'
  <2>1. PICK len, list, ignore :
          /\ len \in Nat /\ list \in [1..len -> Assignment] /\ ignore \in SUBSET Lines
          /\ Apply(i, list, ignore)
    BY <1>2, ApplyChoice
  <2> QED BY <2>1, TallyApply DEF BankTypeInv
<1>3. CASE UNCHANGED bankVars
  BY <1>3 DEF bankVars, TallyInv, AppliedOf
<1> QED BY <1>1, <1>2, <1>3 DEF BankNext, allVars

\* applied_count is how many of the import's transactions were credited, and an
\* import is applied if there is one: no apply, whatever it pays, skips, repeats
\* or ignores, loses count of what earlier ones did.
THEOREM TallyTheorem == BankSpec => []ImportTallies
<1>1. BankInit => TallyInv
  <2> SUFFICES ASSUME BankInit, NEW i \in Imports
               PROVE  /\ appliedCount[i] = Cardinality(AppliedOf(i))
                      /\ importStatus[i] = "applied" <=> AppliedOf(i) # {}
    BY DEF TallyInv
  <2>1. AppliedOf(i) = {}
    BY DEF BankInit, AppliedOf
  <2>2. appliedCount[i] = 0 /\ importStatus[i] = "none"
    BY DEF BankInit
  <2> QED BY <2>1, <2>2, FS_EmptySet
<1>2. BankTypeInv /\ TallyInv => ImportTallies
  <2> SUFFICES ASSUME BankTypeInv, TallyInv, NEW i \in Imports
               PROVE  /\ appliedCount[i]
                          = Cardinality({t \in Lines : ImportOf[t] = i /\ credits[t] > 0})
                      /\ importStatus[i] = "applied" <=> appliedCount[i] > 0
    BY DEF ImportTallies
  <2>1. {t \in Lines : ImportOf[t] = i /\ credits[t] > 0} = AppliedOf(i)
    BY DEF BankTypeInv, CreditInv, AppliedOf
  <2>2. IsFiniteSet(AppliedOf(i))
    BY LinesAssumption, FS_Subset DEF AppliedOf
  <2>3. /\ Cardinality(AppliedOf(i)) \in Nat
        /\ Cardinality(AppliedOf(i)) = 0 <=> AppliedOf(i) = {}
    BY <2>2, FS_CardinalityType, FS_EmptySet
  <2>4. /\ appliedCount[i] = Cardinality(AppliedOf(i))
        /\ importStatus[i] = "applied" <=> AppliedOf(i) # {}
    BY DEF TallyInv
  <2>5. importStatus[i] = "applied" <=> appliedCount[i] > 0
    BY <2>3, <2>4
  <2> QED BY <2>1, <2>4, <2>5
<1> QED BY <1>1, <1>2, BankInitially, BankStep, TallyStep, PTL DEF BankSpec

=============================================================================
