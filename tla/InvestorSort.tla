----------------------------- MODULE InvestorSort -----------------------------
(***************************************************************************)
(* The order of the investor register's table.  A text is its rank in the  *)
(* order localeCompare gives the texts, Missing for the texts the table    *)
(* shows a dash for: no code, no type, no contact or one without a name.   *)
(***************************************************************************)
EXTENDS Integers

CONSTANT Rows \* investors the list can hold

VARIABLES
  list, \* the investors the list shows
  sort  \* sort: the column and its direction

sortVars == <<list, sort>>

Missing == 0
TextKeys == {"investor_code", "investor_type", "primary_contact"}
NumericKeys == {"fund_count", "total_committed"}
SortKeys == {"name"} \cup TextKeys \cup NumericKeys

\* An InvestorListItem.
Investor == [name : Nat, investor_code : Nat, investor_type : Nat,
             primary_contact : Nat, fund_count : Nat, total_committed : Nat]

ASSUME RowsAssumption == Rows \subseteq Investor

SortState == [key : SortKeys, dir : {"asc", "desc"}]

Sign(s) == IF s.dir = "asc" THEN 1 ELSE -1
ByName(a, b) == a.name - b.name

\* x || byName()
OrByName(x, a, b) == IF x # 0 THEN x ELSE ByName(a, b)

\* A change of CompareNullableText: the direction turns the missing ones too.
CompareNullableTextTurned(a, b, s) ==
  LET l == a[s.key]
      r == b[s.key]
  IN IF l = Missing /\ r = Missing THEN ByName(a, b)
     ELSE IF l = Missing THEN Sign(s)
     ELSE IF r = Missing THEN -Sign(s)
     ELSE OrByName((l - r) * Sign(s), a, b)

\* compareNullableText
CompareNullableText(a, b, s) ==
  LET l == a[s.key]
      r == b[s.key]
  IN IF l = Missing /\ r = Missing THEN ByName(a, b)
     ELSE IF l = Missing THEN 1
     ELSE IF r = Missing THEN -1
     ELSE OrByName((l - r) * Sign(s), a, b)

\* compareInvestors: below zero when a goes before b.
CompareInvestors(a, b, s) ==
  IF s.key \in NumericKeys THEN OrByName((a[s.key] - b[s.key]) * Sign(s), a, b)
  ELSE IF s.key \in TextKeys THEN CompareNullableText(a, b, s)
  ELSE ByName(a, b) * Sign(s)

\* nextSortState
NextSortState(s, k) ==
  IF s.key = k THEN [s EXCEPT !.dir = IF @ = "asc" THEN "desc" ELSE "asc"]
  ELSE [key |-> k, dir |-> IF k \in NumericKeys THEN "desc" ELSE "asc"]

SortInit ==
  /\ list = {}
  /\ sort = [key |-> "name", dir |-> "asc"]

\* handleSort, as the head of column k is pressed.
HandleSort(k) ==
  /\ list # {}
  /\ sort' = NextSortState(sort, k)
  /\ UNCHANGED list

\* The list's query answers; the sort stays.
ListAnswered(answer) ==
  /\ list' = answer
  /\ UNCHANGED sort

SortNext ==
  \/ \E k \in SortKeys : HandleSort(k)
  \/ \E answer \in SUBSET Rows : ListAnswered(answer)

SortSpec == SortInit /\ [][SortNext]_sortVars

-----------------------------------------------------------------------------
SortTypeOK == list \subseteq Rows /\ sort \in SortState

Before(a, b) == CompareInvestors(a, b, sort) < 0

\* Array.prototype.sort needs a consistent comparator: rows are never each
\* before the other, and the order is transitive.
Consistent ==
  \A a, b, c \in list : /\ Before(a, b) => ~Before(b, a)
                        /\ Before(a, b) /\ Before(b, c) => Before(a, c)
                        /\ ~Before(a, b) /\ ~Before(b, c) => ~Before(a, c)

\* The rows a column has nothing for go last in both directions.
MissingLast ==
  sort.key \in TextKeys =>
    \A a, b \in list : a[sort.key] = Missing /\ b[sort.key] # Missing => Before(b, a)

\* Rows that show the same go by name, up, in both directions.
TiesByName ==
  sort.key # "name" =>
    \A a, b \in list : a[sort.key] = b[sort.key] => (Before(a, b) <=> a.name < b.name)

\* The order of the table, whichever column it is sorted by.
OrderIsSound == Consistent /\ MissingLast /\ TiesByName
=============================================================================
