----------------------------- MODULE BankImport -----------------------------
(***************************************************************************)
(* Bank statements and the payments they settle: BankImportRepository over *)
(* CapitalCalls, whose requests go on as before.  As there, a request is   *)
(* one step and a rejected one (a ValueError, rolled back) is none.        *)
(*                                                                         *)
(* One organization.  Parsing is left out: a statement is the set of its   *)
(* credit lines, a line is known by its bank reference.                    *)
(***************************************************************************)
EXTENDS CapitalCalls

CONSTANTS
  Imports,     \* uploads of a statement file
  Lines,       \* credit lines of all uploads; a stored one is a transaction
  ImportOf,    \* ImportOf[t]: the upload line t is in
  ReferenceOf, \* ReferenceOf[t]: its bank reference
  Synthetic,   \* the references composed by the parser, not by the bank
  Amounts,     \* amounts an assignment can carry
  MaxAssignments \* bound: assignments of one request

ASSUME LinesAssumption ==
  /\ IsFiniteSet(Lines)
  /\ ImportOf \in [Lines -> Imports]
  /\ DOMAIN ReferenceOf = Lines
  /\ Amounts \subseteq Nat \ {0}
  /\ MaxAssignments \in Nat

VARIABLES
  importStatus, \* importStatus[i]: "none" until uploaded, "pending", "applied"
  appliedCount, \* appliedCount[i]
  txnStatus,    \* txnStatus[t]: "none" when t is no stored transaction
  credits,      \* history: how often an amount was added to an item for t
  repeated      \* history: transactions a request paid more than once

callVars == vars
bankVars == <<importStatus, appliedCount, txnStatus, credits, repeated>>
allVars == <<callVars, bankVars>>

-----------------------------------------------------------------------------
(* Requests.                                                               *)

BankInit ==
  /\ Init
  /\ importStatus = [i \in Imports |-> "none"]
  /\ appliedCount = [i \in Imports |-> 0]
  /\ txnStatus = [t \in Lines |-> "none"]
  /\ credits = [t \in Lines |-> 0]
  /\ repeated = {}

\* Mutant: the transactions are committed ahead of the import's own row.
CreateImportOrphans(i) ==
  /\ importStatus[i] = "none"
  /\ \E rows \in SUBSET {t \in Lines : ImportOf[t] = i} :
       txnStatus' = [t \in Lines |-> IF t \in rows THEN "unmatched" ELSE txnStatus[t]]
  /\ UNCHANGED <<callVars, importStatus, appliedCount, credits, repeated>>

\* Upload: of the lines with one reference the first is stored.
CreateImport(i) ==
  /\ importStatus[i] = "none"
  /\ \E rows \in SUBSET {t \in Lines : ImportOf[t] = i} :
       /\ rows # {}
       /\ \A t \in Lines : ImportOf[t] = i =>
            \E u \in rows : ReferenceOf[u] = ReferenceOf[t]
       /\ \A t, u \in rows : ReferenceOf[t] = ReferenceOf[u] => t = u
       /\ txnStatus' = [t \in Lines |-> IF t \in rows THEN "unmatched" ELSE txnStatus[t]]
  /\ importStatus' = [importStatus EXCEPT ![i] = "pending"]
  /\ UNCHANGED <<callVars, appliedCount, credits, repeated>>

Transactions(i) == {t \in Lines : ImportOf[t] = i /\ txnStatus[t] # "none"}

\* Mutant: the same payment of another upload is not recognised.
ReferenceUnchecked(t) == FALSE

\* The same bank payment, uploaded again, has already settled an item.
ReferenceAlreadyApplied(t) ==
  /\ ReferenceOf[t] \notin Synthetic
  /\ \E u \in Lines \ {t} :
       ReferenceOf[u] = ReferenceOf[t] /\ txnStatus[u] = "applied"

\* Phase 1: which of the assigned transactions are payable, and which are
\* duplicates.  What is already applied is neither.
Fresh(assigned) == {t \in assigned : txnStatus[t] # "applied"}
Duplicates(assigned) == {t \in Fresh(assigned) : ReferenceAlreadyApplied(t)}
Payable(assigned) == Fresh(assigned) \ Duplicates(assigned)

\* A request lists assignments and can name a transaction again: the
\* transactions it names, the assignments that go to an item, and t's.
Assigned(list) == {list[n].txn : n \in DOMAIN list}
Paying(list, pay) == {n \in DOMAIN list : list[n].txn \in pay}
AssignedTo(list, t) == {n \in DOMAIN list : list[n].txn = t}

\* What they add to the item of call k for commitment c.
Increment(list, pay, k, c) ==
  SumFunction([n \in Paying(list, pay) |->
    IF list[n].call = k /\ list[n].commitment = c THEN list[n].amount ELSE 0])

\* Mutant: the items are written without the tail of an item write.
PostPaymentsKeepStatus(list, pay) ==
  LET touched == {list[n].commitment : n \in Paying(list, pay)}
  IN  /\ paid' = [k \in Calls |-> [c \in Commitments |->
                    paid[k][c] + Increment(list, pay, k, c)]]
      /\ called' = [c \in Commitments |->
                      IF c \in touched THEN PaidTotal(paid', c) ELSE called[c]]
      /\ manual' = manual \ touched
      /\ UNCHANGED <<status, amount, dueDate, items, due, announced, today>>

\* Mutant: the total of a commitment grows by what one call was paid.
PostPaymentsOneCall(list, pay) ==
  LET touchedCalls == {list[n].call : n \in Paying(list, pay)}
      touched == {list[n].commitment : n \in Paying(list, pay)}
      new(k) == Recomputed(status[k], due[k], paid'[k], dueDate[k], today)
  IN  /\ paid' = [k \in Calls |-> [c \in Commitments |->
                    paid[k][c] + Increment(list, pay, k, c)]]
      /\ \A k \in touchedCalls : new(k) = status[k] \/ CanMove(status[k], new(k))
      /\ status' = [k \in Calls |-> IF k \in touchedCalls THEN new(k) ELSE status[k]]
      /\ called' = [c \in Commitments |->
                      IF c \in touched
                      THEN paid'[CHOOSE k \in touchedCalls : c \in items[k]][c]
                      ELSE called[c]]
      /\ manual' = manual \ touched
      /\ UNCHANGED <<amount, dueDate, items, due, announced, today>>

\* Phase 2 on the calls: set_item_payment for each paying assignment, that is
\* the tail of CapitalCalls!WriteItems on the items the payments go to.
\* Between the writes of one request nothing is read that this leaves out.
PostPayments(list, pay) ==
  LET touchedCalls == {list[n].call : n \in Paying(list, pay)}
      touched == {list[n].commitment : n \in Paying(list, pay)}
      new(k) == Recomputed(status[k], due[k], paid'[k], dueDate[k], today)
  IN  /\ paid' = [k \in Calls |-> [c \in Commitments |->
                    paid[k][c] + Increment(list, pay, k, c)]]
      /\ \A k \in touchedCalls : new(k) = status[k] \/ CanMove(status[k], new(k))
      /\ status' = [k \in Calls |-> IF k \in touchedCalls THEN new(k) ELSE status[k]]
      /\ called' = [c \in Commitments |->
                      IF c \in touched THEN PaidTotal(paid', c) ELSE called[c]]
      /\ manual' = manual \ touched
      /\ UNCHANGED <<amount, dueDate, items, due, announced, today>>

\* Phase 2 on the transactions of import i.
MarkTransactions(i, pay, duplicates, ignore) ==
  txnStatus' = [t \in Lines |->
    IF t \in pay THEN "applied"
    ELSE IF t \in duplicates THEN "ignored"
    ELSE IF t \in ignore \cap Transactions(i) /\ txnStatus[t] # "applied" THEN "ignored"
    ELSE txnStatus[t]]

\* Mutant: the count is taken before the new transactions are marked.
TallyBefore(i) ==
  LET applied == {t \in Transactions(i) : txnStatus[t] = "applied"} IN
  /\ appliedCount' = [appliedCount EXCEPT ![i] = Cardinality(applied)]
  /\ importStatus' = [importStatus EXCEPT ![i] = IF applied # {} THEN "applied" ELSE @]

Tally(i) ==
  LET applied == {t \in Transactions(i) : txnStatus'[t] = "applied"} IN
  /\ appliedCount' = [appliedCount EXCEPT ![i] = Cardinality(applied)]
  /\ importStatus' = [importStatus EXCEPT ![i] = IF applied # {} THEN "applied" ELSE @]

\* Every assignment is judged by the status its transaction has before the
\* first write, so a transaction named twice is paid twice.  An assignment to
\* an item that does not exist rejects the whole request.
Apply(i, list, ignore) ==
  LET assigned == Assigned(list)
      pay == Payable(assigned) IN
  /\ importStatus[i] # "none"
  /\ assigned \subseteq Transactions(i)
  /\ \A n \in Paying(list, pay) : list[n].commitment \in items[list[n].call]
  /\ PostPayments(list, pay)
  /\ MarkTransactions(i, pay, Duplicates(assigned), ignore)
  /\ Tally(i)
  /\ credits' = [t \in Lines |->
                   IF t \in pay THEN credits[t] + Cardinality(AssignedTo(list, t))
                   ELSE credits[t]]
  /\ repeated' = repeated \cup {t \in pay : Cardinality(AssignedTo(list, t)) > 1}

Assignment == [txn : Lines, call : Calls, commitment : Commitments, amount : Amounts]

\* To ignore what is applied or ignored already changes nothing.
ApplySome(i) ==
  \E ignore \in SUBSET {t \in Transactions(i) : txnStatus[t] = "unmatched"},
     n \in 0..MaxAssignments :
    \E list \in [1..n -> {a \in Assignment : a.txn \in Transactions(i)}] :
      Apply(i, list, ignore)

BankNext ==
  \/ Next /\ UNCHANGED bankVars
  \/ \E i \in Imports : CreateImport(i) \/ ApplySome(i)

BankSpec == BankInit /\ [][BankNext]_allVars

-----------------------------------------------------------------------------
(* Properties.                                                             *)

\* Types, and a transaction is stored exactly when its upload is.
BankTypeOK ==
  /\ TypeOK
  /\ importStatus \in [Imports -> {"none", "pending", "applied"}]
  /\ appliedCount \in [Imports -> Nat]
  /\ txnStatus \in [Lines -> {"none", "unmatched", "ignored", "applied"}]
  /\ credits \in [Lines -> Nat]
  /\ repeated \subseteq Lines
  /\ \A t \in Lines : txnStatus[t] # "none" => importStatus[ImportOf[t]] # "none"

\* A payment the bank gave a reference is added to an item at most once, however
\* often its statement is uploaded, its import applied, or its transaction
\* ignored and assigned again; one without, once per upload.  The exception is
\* a transaction that one request names twice: it is credited twice.
CreditedOnce ==
  /\ \A t \in Lines \ repeated : credits[t] <= 1
  /\ \A t, u \in Lines :
       t # u /\ ReferenceOf[t] = ReferenceOf[u] /\ credits[t] > 0 /\ credits[u] > 0
         => ReferenceOf[t] \in Synthetic

\* The state of an import and its applied_count tell how many of its
\* transactions were credited, be it in parts, again or repeatedly.
ImportTallies ==
  \A i \in Imports :
    /\ appliedCount[i] = Cardinality({t \in Lines : ImportOf[t] = i /\ credits[t] > 0})
    /\ importStatus[i] = "applied" <=> appliedCount[i] > 0
=============================================================================
