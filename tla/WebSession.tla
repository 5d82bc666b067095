----------------------------- MODULE WebSession -----------------------------
(***************************************************************************)
(* One browser tab of the manager or the investor app: who is signed in,   *)
(* which page the URL names, which organization the tab acts for, and the  *)
(* part of the query cache that follows from it.                           *)
(*                                                                         *)
(* The organization of a request is not in its query key: it is a header   *)
(* the API client reads from localStorage when the request is sent.  The   *)
(* layout of an organization's pages writes that value in an effect, after *)
(* the render in which the URL changed, and the write invalidates every    *)
(* cached query.  What a page shows therefore depends on the order of      *)
(* renders, effects, requests and answers, which are separate actions      *)
(* here.                                                                   *)
(***************************************************************************)
EXTENDS Naturals, FiniteSets

CONSTANTS Orgs,       \* organizations, each with its own slug
          NoOrg,      \* no organization selected
          Joined,     \* those the user belongs to at first; the others invite
          MaxChecks   \* bound: checkSession calls under way at once

ASSUME NoOrgAssumption == NoOrg \notin Orgs
ASSUME JoinedAssumption == Joined \subseteq Orgs
ASSUME MaxChecksAssumption == MaxChecks \in Nat \ {0}

VARIABLES
  app,          \* "manager" or "investor": which app the tab loaded
  patient,      \* the user waits for every answer before leaving a page, and
                \* accepts invitations by their link only
  user,         \* AuthProvider's user is set
  authLoading,  \* AuthProvider's isLoading
  check,        \* how many checkSession calls wait for each of their two answers
  route,        \* the page the URL names
  next,         \* ?next= of the login page
  stored,       \* the organization id in localStorage
  active,       \* activeOrganizationId, the provider's copy of it
  mem,          \* cached answer: the user's organizations
  list,         \* cached answer: the rows of an organization's page
  member,       \* the server: organizations the user may open
  invited,      \* the server: organizations with a pending invitation
  accepting     \* the invitation whose acceptance is under way

authVars == <<user, authLoading, check>>
orgVars == <<stored, active>>
serverVars == <<member, invited>>
vars == <<app, patient, authVars, route, next, orgVars, mem, list, serverVars,
          accepting>>

-----------------------------------------------------------------------------
(* Pages.  A section of an organization either shows rows of its own or is *)
(* the overview.                                                           *)

Sections == {"overview", "rows"}
Root == <<"root">>
Login == <<"login">>
OrgPage(o, s) == <<"org", o, s>>
OrgPages == {OrgPage(o, s) : o \in Orgs, s \in Sections}
AcceptPage(o) == <<"accept", o>>
AcceptPages == {AcceptPage(o) : o \in Orgs}
Pages == {Root} \cup OrgPages \cup AcceptPages

-----------------------------------------------------------------------------
(* The query cache.  A flight is the organization header of the request    *)
(* under way; an answer is about the organization its request named.       *)

Grounded == "no request"
Header == Orgs \cup {NoOrg}
EmptyMem == [has |-> FALSE, data |-> {}, invalid |-> FALSE, flight |-> Grounded]
EmptyList == [has |-> FALSE, data |-> NoOrg, invalid |-> FALSE, flight |-> Grounded]

InFlight(e) == e.flight # Grounded

\* A request reads the organization header when it is sent.
Sent(e, h) == [e EXCEPT !.flight = h]

\* A component that mounts over missing or invalid data sends a request,
\* unless one for the same key is under way: then it waits for that one.
OnMount(e, h) == IF InFlight(e) \/ (e.has /\ ~e.invalid) THEN e ELSE Sent(e, h)

\* invalidateQueries: a query on screen is sent again at once, and replaces a
\* request under way only when there is data to fall back to; any other query
\* is marked.
Invalidated(e, onScreen, h) ==
  LET marked == [e EXCEPT !.invalid = e.has]
  IN IF onScreen /\ (e.has \/ ~InFlight(e)) THEN Sent(marked, h) ELSE marked

Answered(e, d) == [has |-> TRUE, data |-> d, invalid |-> FALSE, flight |-> Grounded]

-----------------------------------------------------------------------------
(* What is on screen                                                       *)

ProvidersMounted == user /\ ~authLoading /\ route # Login

\* memberships, or the organizations the investor is a contact of
Organizations == IF mem.has THEN mem.data ELSE {}
OrganizationsLoading == ~mem.has /\ InFlight(mem)

\* The organization layout: what it renders for the slug of organization o.
LayoutOf(o) ==
  CASE OrganizationsLoading -> "loading"
    [] ~OrganizationsLoading /\ o \notin Organizations -> "not found"
    [] ~OrganizationsLoading /\ o \in Organizations /\ active # o -> "syncing"
    [] OTHER -> "shell"

OnOrgPage == route \in OrgPages
ShellShown == ProvidersMounted /\ OnOrgPage /\ LayoutOf(route[2]) = "shell"
AccountShown == ProvidersMounted /\ route = Root
ListMounted == ShellShown /\ route[3] = "rows"

\* Every action ends with the mounts its changes cause.  m and l are the
\* cached answers it leaves.
Render(m, l) ==
  /\ mem' = IF ProvidersMounted' /\ ~ProvidersMounted THEN OnMount(m, NoOrg) ELSE m
  /\ list' = IF ListMounted' /\ ~ListMounted THEN OnMount(l, stored') ELSE l

\* The providers seed their state when they mount.
SeedProviders ==
  IF ProvidersMounted' /\ ~ProvidersMounted
  THEN active' = stored ELSE UNCHANGED active

\* A change of SetActive: only the memberships are invalidated.
SetActiveKeepingRows(o) ==
  /\ stored' = o
  /\ active' = o
  /\ Render(IF active # o THEN Invalidated(mem, ProvidersMounted, NoOrg) ELSE mem, list)

\* setActiveOrganizationId, to be followed by the mounts it causes.
SetActive(o) ==
  /\ stored' = o
  /\ active' = o
  /\ Render(IF active # o THEN Invalidated(mem, ProvidersMounted, NoOrg) ELSE mem,
            IF active # o THEN Invalidated(list, ListMounted, o) ELSE list)

-----------------------------------------------------------------------------
(* A document load: nothing of the tab survives but localStorage.          *)

FirstCheck == [validating |-> 1, reading |-> 0]

Load(p) ==
  /\ user' = FALSE
  /\ authLoading' = TRUE
  /\ check' = FirstCheck
  /\ route' = p
  /\ next' = Root
  /\ active' = stored
  /\ mem' = EmptyMem
  /\ list' = EmptyList
  /\ accepting' = NoOrg
  /\ UNCHANGED <<app, patient, stored, serverVars>>

Init ==
  /\ app \in {"manager", "investor"}
  /\ patient \in BOOLEAN
  /\ user = FALSE
  /\ authLoading = TRUE
  /\ check = FirstCheck
  /\ route \in Pages
  /\ next = Root
  /\ stored \in Header
  /\ active = stored
  /\ mem = EmptyMem
  /\ list = EmptyList
  /\ member = Joined
  /\ invited = Orgs \ Joined
  /\ accepting = NoOrg

\* The link in an invitation's mail.
OpenLink(p) ==
  /\ p \in AcceptPages
  /\ Load(p)

-----------------------------------------------------------------------------
(* Authentication                                                          *)

\* A checkSession call gets its first answer: is there a session.  Calls overlap
\* and are answered in any order.
ValidateSession ==
  /\ check.validating > 0
  /\ \/ /\ check' = [validating |-> check.validating - 1, reading |-> check.reading + 1]
        /\ UNCHANGED <<user, authLoading>>
     \/ /\ check' = [check EXCEPT !.validating = @ - 1]
        /\ user' = FALSE
        /\ authLoading' = FALSE
  /\ UNCHANGED <<app, patient, route, next, stored, serverVars, accepting>>
  /\ SeedProviders
  /\ Render(mem, list)

\* Its second answer: whose session it is.  It may have been given before the
\* session ended, and it may fail.
ReadUser ==
  /\ check.reading > 0
  /\ check' = [check EXCEPT !.reading = @ - 1]
  /\ user' \in BOOLEAN
  /\ authLoading' = FALSE
  /\ UNCHANGED <<app, patient, route, next, stored, serverVars, accepting>>
  /\ SeedProviders
  /\ Render(mem, list)

SessionExpires ==
  /\ user
  /\ user' = FALSE
  /\ UNCHANGED <<app, patient, authLoading, check, route, next, orgVars, serverVars,
                 accepting>>
  /\ Render(mem, list)

\* The login form created a session: the page goes on to next before the
\* provider has read the user, whatever earlier checks are still under way.
SignIn ==
  /\ route = Login
  /\ check.validating + check.reading < MaxChecks
  /\ check' = [check EXCEPT !.validating = @ + 1]
  /\ route' = next
  /\ next' = Root
  /\ UNCHANGED <<app, patient, user, authLoading, stored, serverVars, accepting>>
  /\ SeedProviders
  /\ Render(mem, list)

\* A change of LoginForwards: only to a page that was asked for.
LoginForwardsToNext ==
  /\ route = Login
  /\ user
  /\ next # Root
  /\ route' = next
  /\ next' = Root
  /\ UNCHANGED <<app, patient, authVars, stored, serverVars, accepting>>
  /\ SeedProviders
  /\ Render(mem, list)

\* The login page's effect for a user who is signed in already.
LoginForwards ==
  /\ route = Login
  /\ user
  /\ route' = next
  /\ next' = Root
  /\ UNCHANGED <<app, patient, authVars, stored, serverVars, accepting>>
  /\ SeedProviders
  /\ Render(mem, list)

\* ProtectedLayout sends a visitor to the login page and remembers the page.
Bounce ==
  /\ route # Login
  /\ ~authLoading
  /\ ~user
  /\ route' = Login
  /\ next' = route
  /\ UNCHANGED <<app, patient, authVars, orgVars, serverVars, accepting>>
  /\ Render(mem, list)

SignOut ==
  /\ ShellShown \/ AccountShown
  /\ user' = FALSE
  /\ route' = Login
  /\ next' = Root
  /\ UNCHANGED <<app, patient, authLoading, check, orgVars, serverVars, accepting>>
  /\ Render(mem, list)

-----------------------------------------------------------------------------
(* Moving between pages                                                    *)

GoTo(p) ==
  /\ patient => ~InFlight(list) /\ accepting = NoOrg
  /\ route' = p
  /\ UNCHANGED <<app, patient, authVars, next, orgVars, serverVars, accepting>>
  /\ Render(mem, list)

\* The organization switcher of the manager's top bar: to switch there must be
\* a second organization, to select one is enough.
SwitchOrganization(o) ==
  /\ app = "manager"
  /\ ShellShown \/ AccountShown
  /\ o \in Organizations
  /\ Cardinality(Organizations) > (IF ShellShown THEN 1 ELSE 0)
  /\ GoTo(OrgPage(o, "overview"))

\* The investor's switcher, on an organization's pages only.
SwitchInvestorOrganization(o) ==
  /\ app = "investor"
  /\ ShellShown
  /\ o \in Organizations
  /\ Cardinality(Organizations) > 1
  /\ GoTo(OrgPage(o, "overview"))

\* "Open workspace" on the account's first page.
OpenWorkspace(o) ==
  /\ AccountShown
  /\ o \in Organizations
  /\ GoTo(OrgPage(o, "overview"))

\* The tabs of an organization's pages, and the command palette's quick actions.
OpenSection(s) ==
  /\ ShellShown
  /\ GoTo(OrgPage(route[2], s))

OpenHome ==
  /\ ProvidersMounted
  /\ GoTo(Root)

-----------------------------------------------------------------------------
(* Effects                                                                 *)

\* The organization layout's effect: the header follows the URL.
SyncActiveOrganization ==
  /\ ProvidersMounted
  /\ OnOrgPage
  /\ route[2] \in Organizations
  /\ active # route[2]
  /\ UNCHANGED <<app, patient, authVars, route, next, serverVars, accepting>>
  /\ SetActive(route[2])

\* A change of ClearOrganization: on every page.
ClearOrganizationEverywhere ==
  /\ app = "manager"
  /\ ProvidersMounted
  /\ Organizations # {}
  /\ active # NoOrg
  /\ UNCHANGED <<app, patient, authVars, route, next, serverVars, accepting>>
  /\ SetActive(NoOrg)

\* The manager's account dashboard clears the organization: its requests name
\* theirs themselves, and the client would overwrite it.
ClearOrganization ==
  /\ app = "manager"
  /\ AccountShown
  /\ Organizations # {}
  /\ active # NoOrg
  /\ UNCHANGED <<app, patient, authVars, route, next, serverVars, accepting>>
  /\ SetActive(NoOrg)

-----------------------------------------------------------------------------
(* Invitations                                                             *)

AcceptInDialog(o) ==
  /\ ShellShown \/ AccountShown
  /\ ~patient
  /\ o \in invited
  /\ accepting = NoOrg
  /\ accepting' = <<o, "dialog">>
  /\ UNCHANGED <<app, patient, authVars, route, next, orgVars, mem, list, serverVars>>

AcceptByLink(o) ==
  /\ ProvidersMounted
  /\ route = AcceptPage(o)
  /\ accepting = NoOrg
  /\ accepting' = <<o, "page">>
  /\ UNCHANGED <<app, patient, authVars, route, next, orgVars, mem, list, serverVars>>

\* The answer comes wherever the user is by now, and selects the organization.
AcceptSucceeds ==
  /\ accepting # NoOrg
  /\ LET o == accepting[1]
     IN /\ o \in invited
        /\ member' = member \cup {o}
        /\ invited' = invited \ {o}
        /\ accepting' = NoOrg
        /\ route' = IF accepting[2] = "page" THEN OrgPage(o, "overview") ELSE route
        /\ UNCHANGED <<app, patient, authVars, next>>
        /\ SetActive(o)

AcceptFails ==
  /\ accepting # NoOrg
  /\ accepting' = NoOrg
  /\ UNCHANGED <<app, patient, authVars, route, next, orgVars, mem, list, serverVars>>

-----------------------------------------------------------------------------
(* Answers                                                                 *)

AnswerOrganizations ==
  /\ InFlight(mem)
  /\ UNCHANGED <<app, patient, authVars, route, next, orgVars, serverVars, accepting>>
  /\ Render(Answered(mem, member), list)

AnswerRows ==
  /\ InFlight(list)
  /\ list.flight \in member
  /\ UNCHANGED <<app, patient, authVars, route, next, orgVars, serverVars, accepting>>
  /\ Render(mem, Answered(list, list.flight))

\* 403 "Not a member of this organization": the client loads the app's first
\* page, unless it is there already.  The investor routes refuse with another
\* message, which only raises a toast.
RefuseRows ==
  /\ InFlight(list)
  /\ list.flight \notin member
  /\ IF app = "manager" /\ route # Root
     THEN Load(Root)
     ELSE /\ UNCHANGED <<app, patient, authVars, route, next, orgVars, serverVars,
                         accepting>>
          /\ Render(mem, Sent(list, Grounded))

\* A request fails, and so does its retry.
RequestFails ==
  /\ UNCHANGED <<app, patient, authVars, route, next, orgVars, serverVars, accepting>>
  /\ \/ InFlight(mem) /\ Render(Sent(mem, Grounded), list)
     \/ InFlight(list) /\ Render(mem, Sent(list, Grounded))

\* Five minutes pass: cached data is stale, and a mount asks again.
GoStale ==
  /\ UNCHANGED <<app, patient, authVars, route, next, orgVars, serverVars, accepting>>
  /\ list.has
  /\ Render(mem, [list EXCEPT !.invalid = TRUE])

\* An administrator removes the user from an organization.
Revoke(o) ==
  /\ o \in member
  /\ member' = member \ {o}
  /\ UNCHANGED <<app, patient, authVars, route, next, orgVars, mem, list, invited,
                 accepting>>

-----------------------------------------------------------------------------
Visit == \/ \E o \in Orgs : \/ SwitchOrganization(o)
                            \/ SwitchInvestorOrganization(o)
                            \/ OpenWorkspace(o)
         \/ \E s \in Sections : OpenSection(s)
         \/ OpenHome
         \/ \E p \in Pages : OpenLink(p)

Next == \/ ValidateSession \/ ReadUser \/ SessionExpires
        \/ SignIn \/ LoginForwards \/ Bounce \/ SignOut
        \/ Visit
        \/ SyncActiveOrganization \/ ClearOrganization
        \/ \E o \in Orgs : \/ AcceptInDialog(o) \/ AcceptByLink(o)
                           \/ Revoke(o)
        \/ AcceptSucceeds \/ AcceptFails
        \/ AnswerOrganizations \/ AnswerRows \/ RefuseRows
        \/ RequestFails \/ GoStale

Spec == Init /\ [][Next]_vars

\* The browser runs effects and renders redirects; the server answers or the
\* request fails.
Fairness == /\ WF_vars(ValidateSession) /\ WF_vars(ReadUser)
            /\ WF_vars(LoginForwards) /\ WF_vars(Bounce)
            /\ WF_vars(SyncActiveOrganization) /\ WF_vars(ClearOrganization)
            /\ WF_vars(AnswerOrganizations)
            /\ WF_vars(AnswerRows) /\ WF_vars(RefuseRows)

FairSpec == Spec /\ Fairness

-----------------------------------------------------------------------------
\* A user who stays signed in ends up inside: the login page and the guard of
\* the protected pages do not send each other's visitors back for ever.
SignedInStaysIn == <>[]user => <>[](route # Login)

\* A workspace the account lists opens when its address stays in the URL: the
\* effect, the invitation dialog and the account page do not undo each other
\* for ever.
WorkspaceOpens ==
  \A o \in Orgs :
    <>[](ProvidersMounted /\ OnOrgPage /\ route[2] = o /\ o \in Organizations)
      => <>[]ShellShown

\* On the pages of a user who waits for answers, what is asked for are the rows
\* of the organization in the URL, and rows that are not to be asked for again
\* are those, in whatever order the layout's effect, requests, invalidations and
\* answers come.  (Rows marked or being read again may be another organization's,
\* and are shown until they are answered: a switch only marks them.  And when the
\* user leaves before an answer, it lands under the key that the next
\* organization's page reads.)
RowsFollowTheUrl ==
  patient /\ ListMounted =>
    /\ InFlight(list) => list.flight = route[2]
    /\ list.has /\ ~list.invalid /\ ~InFlight(list) => list.data = route[2]
=============================================================================
