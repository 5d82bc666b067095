--------------------------- MODULE WebSession_proofs ---------------------------
(***************************************************************************)
(* The pages of a user who waits for answers ask for the rows of the       *)
(* organization in the URL and keep no others without asking again, for    *)
(* any set of organizations, joined or inviting.                           *)
(***************************************************************************)
EXTENDS WebSession, TLAPS

CachedRows == [has : BOOLEAN, data : Header, invalid : BOOLEAN,
               flight : Header \cup {Grounded}]

\* The page the tab shows, or goes on to once the user has signed in.
Target == IF route = Login THEN next ELSE route

Fresh(e) == e.has /\ ~e.invalid

SessionTypeOK ==
  /\ patient \in BOOLEAN
  /\ list \in CachedRows
  /\ stored \in Header
  /\ route \in Pages \cup {Login}
  /\ next \in Pages
  /\ accepting # NoOrg => accepting[1] \in Orgs

\* An invitation is accepted on its own page, and the user stays there.
AcceptsInPlace ==
  accepting # NoOrg => accepting[2] = "page" /\ Target = AcceptPage(accepting[1])

\* A request for rows with header h is under way only while the tab is on a page
\* of h, or has left for the account by signing out, where the header may have
\* been cleared but no other one can have been set.
RequestOnTarget(h) ==
  \/ Target = Root /\ stored \in {h, NoOrg}
  \/ Target \in OrgPages /\ Target[2] = h /\ stored = h

\* Rows that count as fresh are those of the header, unless it was cleared: to
\* set another one marks them.
FreshOfHeader(e) == Fresh(e) => stored \in {e.data, NoOrg}

SessionInv ==
  /\ SessionTypeOK
  /\ active = stored
  /\ patient => /\ AcceptsInPlace
                /\ InFlight(list) => RequestOnTarget(list.flight)
                /\ FreshOfHeader(list)

-----------------------------------------------------------------------------
(* Pages and layouts                                                       *)

\* The kinds of pages are told apart by their first component.
LEMMA PagesApart ==
  /\ Root # Login
  /\ Root \notin OrgPages
  /\ Login \notin Pages
  /\ Root \in Pages
  /\ OrgPages \subseteq Pages
  /\ \A o \in Orgs : /\ AcceptPage(o) \in Pages
                     /\ AcceptPage(o) # Root
                     /\ AcceptPage(o) \notin OrgPages
BY DEF Root, Login, OrgPages, OrgPage, AcceptPage, AcceptPages, Pages

LEMMA PageOfOrg ==
  /\ \A o \in Orgs, s \in Sections : /\ OrgPage(o, s) \in OrgPages
                                     /\ OrgPage(o, s)[2] = o
                                     /\ OrgPage(o, s)[3] = s
  /\ \A p \in OrgPages : p[2] \in Orgs
BY DEF OrgPages, OrgPage

\* The shell is rendered only for the organization that is selected.
LEMMA ShellOfActive ==
  ASSUME ShellShown
  PROVE  route \in OrgPages /\ active = route[2]
<1>1. ASSUME NEW o, LayoutOf(o) = "shell" PROVE active = o
  BY <1>1 DEF LayoutOf
<1> QED BY <1>1 DEF ShellShown, OnOrgPage

\* The same of the state a step leaves.
LEMMA ShellOfActiveNext ==
  ASSUME ShellShown'
  PROVE  route' \in OrgPages /\ active' = route'[2]
<1>1. ASSUME NEW o, LayoutOf(o)' = "shell" PROVE active' = o
  BY <1>1 DEF LayoutOf
<1> QED BY <1>1 DEF ShellShown, OnOrgPage

-----------------------------------------------------------------------------
(* The rows after a render                                                 *)

\* A mount leaves the rows as they are, or sends a request with the header of
\* the organization in the URL.
LEMMA RowsRendered ==
  ASSUME NEW m, NEW l \in CachedRows, Render(m, l),
         stored' \in Header, active' = stored'
  PROVE  /\ list' \in CachedRows
         /\ list'.has = l.has /\ list'.invalid = l.invalid /\ list'.data = l.data
         /\ \/ list'.flight = l.flight
            \/ /\ route' \in OrgPages /\ route'[2] = list'.flight
               /\ stored' = list'.flight
<1>1. CASE ListMounted' /\ ~ListMounted
  <2>1. ShellShown'
    BY <1>1 DEF ListMounted
  <2>2. route' \in OrgPages /\ stored' = route'[2]
    BY <2>1, ShellOfActiveNext
  <2>3. list' = OnMount(l, stored')
    BY <1>1 DEF Render
  <2>4. list' = l \/ list' = [l EXCEPT !.flight = stored']
    BY <2>3 DEF OnMount, Sent
  <2>5. QED
    BY <2>2, <2>4 DEF CachedRows
<1>2. CASE ~(ListMounted' /\ ~ListMounted)
  <2>1. list' = l
    BY <1>2 DEF Render
  <2>2. QED
    BY <2>1
<1>3. QED
  BY <1>1, <1>2

\* What is left to show of an action that ends with a render over the rows l.
LEMMA RenderedInv ==
  ASSUME NEW m, NEW l \in CachedRows, Render(m, l), active' = stored',
         patient' \in BOOLEAN, stored' \in Header,
         route' \in Pages \cup {Login}, next' \in Pages,
         accepting' # NoOrg => accepting'[1] \in Orgs,
         patient' => /\ AcceptsInPlace'
                     /\ InFlight(l) => RequestOnTarget(l.flight)'
                     /\ Fresh(l) => stored' \in {l.data, NoOrg}
  PROVE  SessionInv'
<1>1. /\ list' \in CachedRows
      /\ list'.has = l.has /\ list'.invalid = l.invalid /\ list'.data = l.data
      /\ \/ list'.flight = l.flight
         \/ /\ route' \in OrgPages /\ route'[2] = list'.flight
            /\ stored' = list'.flight
  BY RowsRendered
<1>2. SessionTypeOK'
  BY <1>1 DEF SessionTypeOK
<1>3. ASSUME patient' PROVE FreshOfHeader(list)'
  BY <1>1, <1>3 DEF FreshOfHeader, Fresh
<1>4. ASSUME patient', InFlight(list)' PROVE RequestOnTarget(list.flight)'
  <2>1. CASE list'.flight = l.flight
    BY <1>4, <2>1 DEF InFlight, RequestOnTarget
  <2>2. CASE /\ route' \in OrgPages /\ route'[2] = list'.flight
             /\ stored' = list'.flight
    <3>1. Target' = route'
      BY <2>2, PagesApart DEF Target
    <3>2. QED
      BY <2>2, <3>1 DEF RequestOnTarget
  <2>3. QED
    BY <1>1, <2>1, <2>2
<1>5. QED
  BY <1>2, <1>3, <1>4 DEF SessionInv

\* The case of most actions: the stored organization stays, the page the tab is
\* bound for stays or no request for rows is under way, and the rows are the
\* same, or count for less.
LEMMA QuietInv ==
  ASSUME SessionInv, NEW m, NEW l \in CachedRows, Render(m, l),
         UNCHANGED <<patient, stored>>, active' = stored,
         route' \in Pages \cup {Login}, next' \in Pages,
         accepting' # NoOrg => accepting'[1] \in Orgs,
         patient => AcceptsInPlace',
         patient /\ InFlight(l) => /\ InFlight(list) /\ l.flight = list.flight
                                   /\ Target' = Target \/ Target' = Root,
         patient /\ Fresh(l) => FreshOfHeader(l)
  PROVE  SessionInv'
<1>1. patient \in BOOLEAN /\ stored \in Header
  BY DEF SessionInv, SessionTypeOK
<1>2. ASSUME patient, InFlight(l) PROVE RequestOnTarget(l.flight)'
  <2>1. RequestOnTarget(l.flight)
    BY <1>2 DEF SessionInv
  <2>2. QED
    BY <1>2, <2>1 DEF RequestOnTarget
<1>3. patient /\ Fresh(l) => stored \in {l.data, NoOrg}
  BY DEF FreshOfHeader
<1>4. QED
  BY <1>1, <1>2, <1>3, RenderedInv

\* A document load clears the rows.
LEMMA LoadInv == ASSUME SessionInv, NEW p \in Pages, Load(p) PROVE SessionInv'
<1>1. list' \in CachedRows
  BY DEF Load, EmptyList, CachedRows, Header, Grounded
<1>2. SessionTypeOK'
  BY <1>1, PagesApart DEF Load, SessionInv, SessionTypeOK
<1>3. ~InFlight(list)' /\ FreshOfHeader(list)' /\ AcceptsInPlace'
  BY DEF Load, EmptyList, InFlight, FreshOfHeader, Fresh, AcceptsInPlace
<1>4. QED
  BY <1>2, <1>3 DEF SessionInv, Load

\* To select another organization marks the rows there are.  It sends no request
\* for them from a page that does not show them.
LEMMA SelectInv ==
  ASSUME SessionInv, NEW o \in Header, SetActive(o), ~ListMounted \/ ~patient,
         UNCHANGED patient, route' \in Pages \cup {Login}, next' \in Pages,
         accepting' # NoOrg => accepting'[1] \in Orgs,
         patient => AcceptsInPlace',
         \A h : patient /\ InFlight(list) /\ list.flight = h => RequestOnTarget(h)'
  PROVE  SessionInv'
<1> DEFINE l == IF active # o THEN Invalidated(list, ListMounted, o) ELSE list
<1>1. \E m : Render(m, l)
  BY DEF SetActive
<1>2. stored' = o /\ active' = o
  BY DEF SetActive
<1>3. list \in CachedRows
  BY DEF SessionInv, SessionTypeOK
<1>4. ASSUME l \in CachedRows,
             \A h : patient /\ InFlight(l) /\ l.flight = h => RequestOnTarget(h)',
             patient /\ Fresh(l) => o \in {l.data, NoOrg}
      PROVE  SessionInv'
  <2>1. PICK rows \in CachedRows : rows = l
    BY <1>4
  <2>2. PICK m : Render(m, rows)
    BY <1>1, <2>1
  <2>3. patient /\ InFlight(rows) => RequestOnTarget(rows.flight)'
    BY <1>4, <2>1
  <2>4. patient /\ Fresh(rows) => stored' \in {rows.data, NoOrg}
    BY <1>4, <1>2, <2>1
  <2> HIDE DEF l
  <2>5. patient \in BOOLEAN
    BY DEF SessionInv, SessionTypeOK
  <2>6. QED
    BY <1>2, <2>2, <2>3, <2>4, <2>5, RenderedInv
<1>5. CASE active = o
  <2>1. l = list
    BY <1>5
  <2>2. patient /\ Fresh(list) => o \in {list.data, NoOrg}
    BY <1>5 DEF SessionInv, FreshOfHeader
  <2>3. ASSUME NEW h, patient, InFlight(l), l.flight = h PROVE RequestOnTarget(h)'
    BY <2>1, <2>3
  <2>4. QED
    BY <1>2, <1>3, <2>1, <2>2, <2>3, <1>4
<1>6. CASE active # o
  <2>1. /\ l \in CachedRows
        /\ ~Fresh(l)
        /\ ~ListMounted => l.flight = list.flight
    <3>1. \/ l = [list EXCEPT !.invalid = list.has]
          \/ ListMounted /\ l = [list EXCEPT !.invalid = list.has, !.flight = o]
      <4>1. l = Invalidated(list, ListMounted, o)
        BY <1>6
      <4>2. [[list EXCEPT !.invalid = list.has] EXCEPT !.flight = o]
              = [list EXCEPT !.invalid = list.has, !.flight = o]
        BY <1>3 DEF CachedRows
      <4>3. QED
        BY <4>1, <4>2 DEF Invalidated, Sent
    <3>2. QED
      BY <1>3, <3>1 DEF CachedRows, Fresh
  <2>2. ASSUME NEW h, patient, InFlight(l), l.flight = h PROVE RequestOnTarget(h)'
    BY <2>1, <2>2 DEF InFlight
  <2>3. QED
    BY <1>2, <2>1, <2>2, <1>4
<1>7. QED
  BY <1>5, <1>6

-----------------------------------------------------------------------------
(* The actions                                                             *)

\* Pages are left for the login page, and gone on to from there.
LEMMA SignInInv ==
  ASSUME SessionInv, SignIn \/ LoginForwards \/ Bounce \/ SignOut
  PROVE  SessionInv'
<1> USE DEF SessionInv, SessionTypeOK
<1>1. active' = stored
  BY DEF SignIn, LoginForwards, Bounce, SignOut, SeedProviders, orgVars
<1>2. /\ UNCHANGED <<patient, stored, accepting>>
      /\ \E m : Render(m, list)
  BY DEF SignIn, LoginForwards, Bounce, SignOut, orgVars
<1>3. route' \in Pages \cup {Login} /\ next' \in Pages
  BY PagesApart DEF SignIn, LoginForwards, Bounce, SignOut
<1>4. CASE SignIn \/ LoginForwards
  <2>1. Target' = Target
    BY <1>3, <1>4, PagesApart DEF SignIn, LoginForwards, Target
  <2>2. QED
    BY <1>1, <1>2, <1>3, <2>1, QuietInv DEF AcceptsInPlace
<1>5. CASE Bounce
  <2>1. Target' = Target
    BY <1>5 DEF Bounce, Target
  <2>2. QED
    BY <1>1, <1>2, <1>3, <2>1, QuietInv DEF AcceptsInPlace
<1>6. CASE SignOut
  <2>1. Target' = Root
    BY <1>6 DEF SignOut, Target
  <2>2. route \in OrgPages \/ route = Root
    BY <1>6 DEF SignOut, ShellShown, OnOrgPage, AccountShown
  <2>3. Target = route
    BY <2>2, PagesApart DEF Target
  <2>4. patient => accepting = NoOrg
    BY <2>2, <2>3, PagesApart DEF AcceptsInPlace
  <2>5. patient => AcceptsInPlace'
    BY <1>2, <2>4 DEF AcceptsInPlace
  <2>6. QED
    BY <1>1, <1>2, <1>3, <2>1, <2>5, QuietInv
<1>7. QED
  BY <1>4, <1>5, <1>6

\* The user is read, or is no longer there; nothing of the page changes.
LEMMA UserInv ==
  ASSUME SessionInv, ValidateSession \/ ReadUser \/ SessionExpires
  PROVE  SessionInv'
<1> USE DEF SessionInv, SessionTypeOK
<1>1. /\ UNCHANGED <<patient, stored, accepting, route, next>>
      /\ \E m : Render(m, list)
      /\ active' = stored
  BY DEF ValidateSession, ReadUser, SessionExpires, SeedProviders, orgVars
<1>2. Target' = Target
  BY <1>1 DEF Target
<1>3. QED
  BY <1>1, <1>2, QuietInv DEF AcceptsInPlace

\* A patient user leaves a page when its rows have been answered.
LEMMA GoToInv == ASSUME SessionInv, NEW p \in Pages, GoTo(p) PROVE SessionInv'
<1> USE DEF SessionInv, SessionTypeOK
<1>1. /\ UNCHANGED <<patient, stored, accepting, next>>
      /\ \E m : Render(m, list)
      /\ active' = stored
      /\ route' \in Pages
      /\ patient => ~InFlight(list) /\ accepting = NoOrg
  BY DEF GoTo, orgVars
<1>2. patient => AcceptsInPlace'
  BY <1>1 DEF AcceptsInPlace
<1>3. QED
  BY <1>1, <1>2, QuietInv

LEMMA VisitInv == ASSUME SessionInv, Visit PROVE SessionInv'
<1>1. ASSUME NEW o \in Orgs,
             \/ SwitchOrganization(o) \/ SwitchInvestorOrganization(o)
             \/ OpenWorkspace(o)
      PROVE  SessionInv'
  <2>1. GoTo(OrgPage(o, "overview"))
    BY <1>1 DEF SwitchOrganization, SwitchInvestorOrganization, OpenWorkspace
  <2>2. OrgPage(o, "overview") \in Pages
    BY PageOfOrg, PagesApart DEF Sections
  <2>3. QED
    BY <2>1, <2>2, GoToInv
<1>2. ASSUME NEW s \in Sections, OpenSection(s) PROVE SessionInv'
  <2>1. route[2] \in Orgs
    BY <1>2, PageOfOrg DEF OpenSection, ShellShown, OnOrgPage
  <2>2. OrgPage(route[2], s) \in Pages
    BY <2>1, PageOfOrg, PagesApart
  <2>3. QED
    BY <1>2, <2>2, GoToInv DEF OpenSection
<1>3. CASE OpenHome
  BY <1>3, GoToInv, PagesApart DEF OpenHome
<1>4. ASSUME NEW p \in Pages, OpenLink(p) PROVE SessionInv'
  BY <1>4, LoadInv DEF OpenLink
<1>5. QED
  BY <1>1, <1>2, <1>3, <1>4 DEF Visit

\* The layout selects the organization of the URL, for which no request can be
\* under way to another one.
LEMMA SyncInv == ASSUME SessionInv, SyncActiveOrganization PROVE SessionInv'
<1> USE DEF SessionInv, SessionTypeOK
<1>1. /\ UNCHANGED <<patient, accepting, route, next>>
      /\ SetActive(route[2])
      /\ route \in OrgPages /\ active # route[2]
  BY DEF SyncActiveOrganization, OnOrgPage
<1>2. route[2] \in Header
  BY <1>1, PageOfOrg DEF Header
<1>3. ~ListMounted
  BY <1>1, ShellOfActive DEF ListMounted
<1>4. Target' = Target /\ Target = route
  BY <1>1, PagesApart DEF Target
<1>5. patient => ~InFlight(list)
  BY <1>1, <1>4, PagesApart DEF RequestOnTarget
<1>6. QED
  BY <1>1, <1>2, <1>3, <1>4, <1>5, SelectInv DEF AcceptsInPlace

\* The account dashboard clears the organization.
LEMMA ClearInv == ASSUME SessionInv, ClearOrganization PROVE SessionInv'
<1> USE DEF SessionInv, SessionTypeOK
<1>1. /\ UNCHANGED <<patient, accepting, route, next>>
      /\ SetActive(NoOrg)
      /\ route = Root
  BY DEF ClearOrganization, AccountShown
<1>2. ~ListMounted
  BY <1>1, ShellOfActive, PagesApart DEF ListMounted
<1>3. Target' = Root /\ Target = Root
  BY <1>1, PagesApart DEF Target
<1>4. stored' = NoOrg /\ NoOrg \in Header
  BY <1>1 DEF SetActive, Header
<1>5. \A h : patient /\ InFlight(list) /\ list.flight = h => RequestOnTarget(h)'
  BY <1>3, <1>4 DEF RequestOnTarget
<1>6. QED
  BY <1>1, <1>2, <1>3, <1>4, <1>5, SelectInv DEF AcceptsInPlace

\* An accepted invitation selects its organization, from its own page if the
\* user is patient, where no rows are shown or asked for.
LEMMA AcceptSucceedsInv == ASSUME SessionInv, AcceptSucceeds PROVE SessionInv'
<1> USE DEF SessionInv, SessionTypeOK
<1> DEFINE o == accepting[1]
<1>1. /\ UNCHANGED <<patient, next>>
      /\ SetActive(o)
      /\ accepting # NoOrg /\ accepting' = NoOrg
      /\ route' = OrgPage(o, "overview") \/ route' = route
  BY DEF AcceptSucceeds
<1>2. o \in Orgs
  BY <1>1
<1>3. route' \in Pages \cup {Login}
  BY <1>1, <1>2, PageOfOrg, PagesApart DEF Sections
<1>4. patient => Target \notin OrgPages /\ Target # Root
  BY <1>1, <1>2, PagesApart DEF AcceptsInPlace
<1>5. ~ListMounted \/ ~patient
  BY <1>4, ShellOfActive, PagesApart DEF ListMounted, Target
<1>6. patient => ~InFlight(list)
  BY <1>4 DEF RequestOnTarget
<1>7. o \in Header
  BY <1>2 DEF Header
<1>8. AcceptsInPlace'
  BY <1>1 DEF AcceptsInPlace
<1> HIDE DEF o
<1>9. QED
  BY <1>1, <1>3, <1>5, <1>6, <1>7, <1>8, SelectInv

\* An invitation is asked to be accepted, the request fails, or another user
\* takes a membership away: the rows and the pages stay.
LEMMA AcceptInv ==
  ASSUME SessionInv,
         \/ \E o \in Orgs : AcceptInDialog(o) \/ AcceptByLink(o) \/ Revoke(o)
         \/ AcceptFails
  PROVE  SessionInv'
<1> USE DEF SessionInv, SessionTypeOK
<1>1. /\ UNCHANGED <<patient, route, next, list>>
      /\ stored' = stored /\ active' = active
  BY DEF AcceptInDialog, AcceptByLink, Revoke, AcceptFails, orgVars, serverVars
<1>2. /\ Target' = Target
      /\ \A h : RequestOnTarget(h)' <=> RequestOnTarget(h)
      /\ FreshOfHeader(list)' <=> FreshOfHeader(list)
      /\ InFlight(list)' <=> InFlight(list)
  BY <1>1 DEF Target, RequestOnTarget, FreshOfHeader, Fresh, InFlight
<1>3. RequestOnTarget(list.flight)' <=> RequestOnTarget(list.flight)
  BY <1>1 DEF RequestOnTarget, Target
<1>4. ASSUME NEW o \in Orgs, AcceptInDialog(o) \/ AcceptByLink(o) PROVE SessionInv'
  <2>1. accepting'[1] = o
    BY <1>4 DEF AcceptInDialog, AcceptByLink
  <2>2. ASSUME patient PROVE AcceptsInPlace'
    <3>1. route = AcceptPage(o) /\ accepting'[2] = "page"
      BY <1>4, <2>2 DEF AcceptInDialog, AcceptByLink
    <3>2. Target = AcceptPage(o)
      BY <3>1, PagesApart DEF Target
    <3>3. QED
      BY <1>2, <2>1, <3>1, <3>2 DEF AcceptsInPlace
  <2>3. QED
    BY <1>1, <1>2, <1>3, <2>1, <2>2
<1>5. CASE AcceptFails \/ \E o \in Orgs : Revoke(o)
  <2>1. accepting' = accepting \/ accepting' = NoOrg
    BY <1>5 DEF AcceptFails, Revoke
  <2>2. AcceptsInPlace => AcceptsInPlace'
    BY <1>2, <2>1 DEF AcceptsInPlace
  <2>3. QED
    BY <1>1, <1>2, <1>3, <2>1, <2>2
<1>6. QED
  BY <1>4, <1>5

\* An answer is about the organization its request named, which the header still
\* is if it is any.
LEMMA AnswersInv ==
  ASSUME SessionInv,
         AnswerOrganizations \/ AnswerRows \/ RequestFails \/ GoStale \/ RefuseRows
  PROVE  SessionInv'
<1> USE DEF SessionInv, SessionTypeOK
<1>1. CASE RefuseRows /\ app = "manager" /\ route # Root
  BY <1>1, LoadInv, PagesApart DEF RefuseRows
<1>2. CASE \/ AnswerOrganizations \/ AnswerRows \/ RequestFails \/ GoStale
           \/ RefuseRows /\ ~(app = "manager" /\ route # Root)
  <2>1. /\ UNCHANGED <<patient, stored, accepting, route, next>>
        /\ active' = stored
    BY <1>2 DEF AnswerOrganizations, AnswerRows, RequestFails, GoStale, RefuseRows, orgVars
  <2>2. \E m : \/ Render(m, list)
               \/ InFlight(list) /\ Render(m, Answered(list, list.flight))
               \/ Render(m, Sent(list, Grounded))
               \/ Render(m, [list EXCEPT !.invalid = TRUE])
    BY <1>2 DEF AnswerOrganizations, AnswerRows, RequestFails, GoStale, RefuseRows
  <2>3. Target' = Target
    BY <2>1 DEF Target
  <2>4. patient => AcceptsInPlace'
    BY <2>1, <2>3 DEF AcceptsInPlace
  <2>5. ASSUME NEW m, NEW l \in CachedRows, Render(m, l),
               InFlight(l) => l.flight = list.flight,
               patient /\ Fresh(l) => FreshOfHeader(l)
        PROVE  SessionInv'
    BY <2>1, <2>3, <2>4, <2>5, QuietInv DEF InFlight
  <2>6. ASSUME NEW m, Render(m, list) PROVE SessionInv'
    BY <2>5, <2>6
  <2>7. ASSUME NEW m, InFlight(list), Render(m, Answered(list, list.flight))
        PROVE  SessionInv'
    <3>1. PICK l : l = Answered(list, list.flight)
      OBVIOUS
    <3>2. l \in CachedRows /\ l.flight = Grounded /\ l.data = list.flight
      BY <2>7, <3>1 DEF Answered, CachedRows, InFlight, Grounded
    <3>3. ASSUME patient PROVE FreshOfHeader(l)
      BY <2>7, <3>2, <3>3 DEF RequestOnTarget, FreshOfHeader
    <3>4. QED
      BY <2>5, <2>7, <3>1, <3>2, <3>3 DEF InFlight
  <2>8. ASSUME NEW m, Render(m, Sent(list, Grounded)) PROVE SessionInv'
    <3>1. PICK l : l = Sent(list, Grounded)
      OBVIOUS
    <3>2. /\ l \in CachedRows /\ l.flight = Grounded
          /\ l.has = list.has /\ l.invalid = list.invalid /\ l.data = list.data
      BY <3>1 DEF Sent, CachedRows
    <3>3. patient => FreshOfHeader(l)
      BY <3>2 DEF FreshOfHeader, Fresh
    <3>4. QED
      BY <2>5, <2>8, <3>1, <3>2, <3>3 DEF InFlight
  <2>9. ASSUME NEW m, Render(m, [list EXCEPT !.invalid = TRUE]) PROVE SessionInv'
    <3>1. PICK l : l = [list EXCEPT !.invalid = TRUE]
      OBVIOUS
    <3>2. l \in CachedRows /\ l.flight = list.flight /\ ~Fresh(l)
      BY <3>1 DEF CachedRows, Fresh
    <3>3. QED
      BY <2>5, <2>9, <3>1, <3>2
  <2>10. QED
    BY <2>2, <2>6, <2>7, <2>8, <2>9
<1>3. QED
  BY <1>1, <1>2

LEMMA SessionStep == SessionInv /\ [Next]_vars => SessionInv'
<1> SUFFICES ASSUME SessionInv, [Next]_vars PROVE SessionInv'
  OBVIOUS
<1>1. CASE UNCHANGED vars
  BY <1>1 DEF vars, authVars, orgVars, serverVars, SessionInv, SessionTypeOK, AcceptsInPlace,
              RequestOnTarget, FreshOfHeader, Fresh, InFlight, Target
<1>2. CASE Next
  BY <1>2, SignInInv, UserInv, VisitInv, SyncInv, ClearInv, AcceptSucceedsInv, AcceptInv,
     AnswersInv DEF Next
<1>3. QED
  BY <1>1, <1>2

\* A tab that was just loaded has no rows.
LEMMA SessionInitially == Init => SessionInv
<1> SUFFICES ASSUME Init PROVE SessionInv
  OBVIOUS
<1>1. /\ list.flight = Grounded /\ list.has = FALSE
      /\ list \in CachedRows
  BY DEF Init, EmptyList, CachedRows, Header, Grounded
<1>2. SessionTypeOK
  BY <1>1, PagesApart DEF Init, SessionTypeOK
<1>3. AcceptsInPlace
  BY DEF Init, AcceptsInPlace
<1>4. ~InFlight(list) /\ FreshOfHeader(list)
  BY <1>1 DEF InFlight, FreshOfHeader, Fresh
<1>5. QED
  BY <1>2, <1>3, <1>4 DEF Init, SessionInv

\* Whatever the order of renders, effects, requests, answers, sign-outs and
\* accepted invitations, the pages of a user who waits for answers ask for the
\* rows of the organization in the URL, and hold no others but rows that are
\* marked or being read again.
THEOREM SessionTheorem == Spec => []RowsFollowTheUrl
<1>1. SessionInv => RowsFollowTheUrl
  <2> SUFFICES ASSUME SessionInv, patient, ListMounted
               PROVE  /\ InFlight(list) => list.flight = route[2]
                      /\ list.has /\ ~list.invalid => list.data = route[2]
    BY DEF RowsFollowTheUrl
  <2>1. route \in OrgPages /\ route[2] \in Orgs /\ stored = route[2]
    BY ShellOfActive, PageOfOrg DEF ListMounted, SessionInv
  <2>2. ASSUME list.has, ~list.invalid PROVE list.data = route[2]
    <3>1. stored \in {list.data, NoOrg}
      BY <2>2 DEF SessionInv, FreshOfHeader, Fresh
    <3>2. QED
      BY <2>1, <3>1, NoOrgAssumption
  <2>3. ASSUME InFlight(list) PROVE list.flight = route[2]
    <3>1. RequestOnTarget(list.flight)
      BY <2>3 DEF SessionInv
    <3>2. Target = route /\ route # Root
      BY <2>1, PagesApart DEF Target
    <3>3. QED
      BY <3>1, <3>2 DEF RequestOnTarget
  <2>4. QED
    BY <2>2, <2>3
<1>2. QED
  BY <1>1, SessionInitially, SessionStep, PTL DEF Spec
=============================================================================
