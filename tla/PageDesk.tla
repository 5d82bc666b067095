------------------------------- MODULE PageDesk -------------------------------
(***************************************************************************)
(* The lists that are read page by page: the two audit logs, and the       *)
(* superadmin's organizations, members and users.  A page is the query of  *)
(* its own skip, so that pages read at different times are shown beside    *)
(* each other while the list grows; nothing is ever taken out of a list.   *)
(*                                                                         *)
(* An entry is its number, in the order the entries were made; the filter  *)
(* is everything, or the entries with an odd number.                       *)
(***************************************************************************)
EXTENDS WebQuery, Naturals, Sequences, FiniteSets

CONSTANTS PageSize,    \* PAGE_SIZE
          MaxEntries,  \* bound: entries a list can grow to
          PagedLists   \* which lists are looked at

ASSUME PagesAssumption == PageSize \in Nat \ {0} /\ MaxEntries \in Nat

VARIABLES
  paged,    \* the list on screen
  entries,  \* the server: its entries, in the order it lists them
  filter,   \* filters
  pageNo,   \* page
  pages     \* the queries: pages[<<f, n>>]

pageVars == <<paged, entries, filter, pageNo, pages>>

\* How a list is filtered, where its new entries are listed, and on which of its
\* pages the absence of rows takes the pager away.
AuditLog == [filters |-> {"all", "odd"}, adds |-> "first", empties |-> "any page"]
PlatformAuditLog == [filters |-> {"all", "odd"}, adds |-> "first", empties |-> "any page"]
OrganizationList == [filters |-> {"all"}, adds |-> "last", empties |-> "page 0"]
\* Members are listed in the order their users signed up.
MemberList == [filters |-> {"all"}, adds |-> "anywhere", empties |-> "page 0"]
UserList == [filters |-> {"all"}, adds |-> "last", empties |-> "page 0"]

Lists == [AuditLog |-> AuditLog, PlatformAuditLog |-> PlatformAuditLog,
          OrganizationList |-> OrganizationList, MemberList |-> MemberList,
          UserList |-> UserList]

Matches(f, e) == f = "all" \/ e % 2 = 1
Keys == {"all", "odd"} \X (0..MaxEntries)
Nothing == [rows |-> <<>>, at |-> 0]

PageInit ==
  /\ paged \in PagedLists
  /\ entries = <<>>
  /\ filter = "all"
  /\ pageNo = 0
  /\ pages = [k \in Keys |-> IF k = <<"all", 0>> THEN FirstRead(Nothing)
                                                 ELSE Unread(Nothing)]

-----------------------------------------------------------------------------
(* The server                                                              *)

Place(e) == CHOOSE i \in 1..Len(entries) : entries[i] = e

\* Of the first t entries that were made, those a filter lists; and where e
\* stands among entries S, from 1.
Listed(f, t) == {e \in 1..t : Matches(f, e)}
Rank(S, e) == Cardinality({d \in S : Place(d) <= Place(e)})

\* A change of Slice: the extra row counts as one of the page's.
SliceByFetched(f, n) ==
  LET listed == Listed(f, Len(entries))
      offset == n * (PageSize + 1)
  IN [i \in {i \in 1..(PageSize + 1) : offset + i <= Cardinality(listed)} |->
        CHOOSE e \in listed : Rank(listed, e) = offset + i]

\* offset and limit: one row more than a page shows.
Slice(f, n) ==
  LET listed == Listed(f, Len(entries))
      offset == n * PageSize
  IN [i \in {i \in 1..(PageSize + 1) : offset + i <= Cardinality(listed)} |->
        CHOOSE e \in listed : Rank(listed, e) = offset + i]

InsertedAt(i) ==
  SubSeq(entries, 1, i) \o <<Len(entries) + 1>> \o SubSeq(entries, i + 1, Len(entries))

\* Somebody signs in, changes a record, or is added.
EntryAdded ==
  /\ Len(entries) < MaxEntries
  /\ \E i \in 0..Len(entries) :
       /\ Lists[paged].adds = "first" => i = 0
       /\ Lists[paged].adds = "last" => i = Len(entries)
       /\ entries' = InsertedAt(i)
  /\ UNCHANGED <<paged, filter, pageNo, pages>>

PageAnswered(k) ==
  /\ pages[k].reading
  /\ pages' = [pages EXCEPT ![k] =
                 Answered([rows |-> Slice(k[1], k[2]), at |-> Len(entries)])]
  /\ UNCHANGED <<paged, entries, filter, pageNo>>

PageFails(k) ==
  /\ pages[k].reading
  /\ pages' = [pages EXCEPT ![k] = ReadFailed(@)]
  /\ UNCHANGED <<paged, entries, filter, pageNo>>

-----------------------------------------------------------------------------
(* The page on screen                                                      *)

OnScreen == pages[<<filter, pageNo>>]

\* rows and hasNext
RowsOf(q) == {q.data.rows[i] : i \in (1..PageSize) \cap DOMAIN q.data.rows}
HasNext(q) == Len(q.data.rows) > PageSize

\* The pager is part of the table, and the empty state replaces both, also when
\* the page could not be read.
PagerShown ==
  /\ ~Loading(OnScreen)
  /\ \/ RowsOf(OnScreen) # {}
     \/ Lists[paged].empties = "page 0" /\ pageNo # 0

\* A page comes on screen: it is read, unless it was within the last five
\* minutes.
TurnTo(f, n) ==
  /\ filter' = f
  /\ pageNo' = n
  /\ \E late \in {FALSE, pages[<<f, n>>].has} :
       pages' = [pages EXCEPT ![<<f, n>>] = Mounted([@ EXCEPT !.stale = late])]
  /\ UNCHANGED <<paged, entries>>

NextPage ==
  /\ PagerShown
  /\ HasNext(OnScreen) /\ ~OnScreen.reading
  /\ TurnTo(filter, pageNo + 1)

PreviousPage ==
  /\ PagerShown
  /\ pageNo # 0 /\ ~OnScreen.reading
  /\ TurnTo(filter, pageNo - 1)

\* updateFilter and resetFilters
UpdateFilter(f) ==
  /\ f \in Lists[paged].filters \ {filter}
  /\ TurnTo(f, 0)

PageNext ==
  \/ EntryAdded
  \/ \E k \in Keys : PageAnswered(k) \/ PageFails(k)
  \/ NextPage \/ PreviousPage
  \/ \E f \in {"all", "odd"} : UpdateFilter(f)

PageSpec == PageInit /\ [][PageNext]_pageVars

-----------------------------------------------------------------------------
\* Pages that were read one after the other miss nothing between them, however
\* the list grew meanwhile: whatever was listed as the first of them was read,
\* and stands before an entry of the last, is on one of them.  And a page that
\* Next led to has a row, so that its pager stays.
PagesMissNothing ==
  \A f \in {"all", "odd"}, n \in 0..MaxEntries :
    (\A k \in 0..n : pages[<<f, k>>].has /\ (k > 0 => pages[<<f, k - 1>>].data.at <= pages[<<f, k>>].data.at))
      => /\ \A last \in RowsOf(pages[<<f, n>>]), e \in 1..pages[<<f, 0>>].data.at :
              Matches(f, e) /\ Place(e) < Place(last)
                => \E k \in 0..n : e \in RowsOf(pages[<<f, k>>])
         /\ n > 0 => RowsOf(pages[<<f, n>>]) # {}
=============================================================================
