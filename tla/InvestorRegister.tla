--------------------------- MODULE InvestorRegister ---------------------------
(***************************************************************************)
(* The investor register: the list, the drawer of the selected investor    *)
(* with its details form, the create dialog and the deletion.              *)
(*                                                                         *)
(* Details are those of an investor, <<i, text>>: the form only ever       *)
(* changes the text.                                                       *)
(***************************************************************************)
EXTENDS WebQuery, Naturals, FiniteSets

CONSTANTS RegisterManners, \* which <<manages, alone>> are looked at
          Investors, \* identities an investor can be created with
          MaxChanges, \* bound: changes under way at a time
          Details,   \* what the details form can hold
          None,      \* no investor, no details
          Gone       \* of a deleted investor: its identity is not used again

VARIABLES
  manages,   \* canManageInvestors
  alone,     \* nobody else writes and no request fails
  investors, \* the server: investors[i], its details, None or Gone
  listed,    \* the list's query: the identities it shows
  selected,  \* selectedId
  investorQuery, \* the query of each investor's drawer
  detailsForm,   \* details: None until the drawer's form is hydrated
  createDialog,  \* the create dialog: "closed", "open", "sent"
  changes        \* mutations under way; "here" of the drawer that is open

registerVars == <<manages, alone, investors, listed, selected, investorQuery,
                  detailsForm, createDialog, changes>>
registerUser == <<manages, alone>>
drawerVars == <<selected, investorQuery, detailsForm>>

ExistingInvestors == {i \in Investors : investors[i] \notin {None, Gone}}
ListedInvestors == IF listed.has THEN listed.data ELSE {}
Drawer == investorQuery[selected]

RegisterInit ==
  /\ \E m \in RegisterManners : manages = m[1] /\ alone = m[2]
  /\ \E E \in SUBSET Investors, d \in Details :
       investors = [i \in Investors |-> IF i \in E THEN <<i, d>> ELSE None]
  /\ listed = FirstRead({})
  /\ selected = None
  /\ investorQuery = [i \in Investors |-> Unread(None)]
  /\ detailsForm = None
  /\ createDialog = "closed"
  /\ changes = {}

-----------------------------------------------------------------------------
(* The drawer: InvestorDetailPanel is keyed by the investor, so that every  *)
(* selection mounts a new one.                                             *)

\* A change of MountDrawer: the panel stays mounted as the drawer closes.
MountUnkeyedDrawer(i) ==
  /\ selected' = i
  /\ investorQuery' = IF i = None THEN investorQuery
                      ELSE [investorQuery EXCEPT ![i] = Mounted(@)]
  /\ UNCHANGED <<detailsForm, changes>>

MountDrawer(i) ==
  /\ selected' = i
  /\ investorQuery' = IF i = None THEN investorQuery
                      ELSE [investorQuery EXCEPT ![i] = Mounted(@)]
  /\ detailsForm' = None
  /\ changes' = {[c EXCEPT !.here = FALSE] : c \in changes}

SelectRow(i) ==
  /\ i \in ListedInvestors
  /\ selected = None /\ createDialog = "closed"
  /\ MountDrawer(i)
  /\ UNCHANGED <<registerUser, investors, listed, createDialog>>

\* The effect that closes the drawer of an investor the list does not show.
CloseWithoutRow ==
  /\ selected # None
  /\ selected \notin ListedInvestors
  /\ MountDrawer(None)
  /\ UNCHANGED <<registerUser, investors, listed, createDialog>>

CloseDrawer ==
  /\ selected # None
  /\ MountDrawer(None)
  /\ UNCHANGED <<registerUser, investors, listed, createDialog>>

\* The effect that fills the form once, from the first answer.
Hydrate ==
  /\ selected # None
  /\ Drawer.has
  /\ detailsForm = None
  /\ detailsForm' = Drawer.data
  /\ UNCHANGED <<registerUser, investors, listed, selected, investorQuery,
                 createDialog, changes>>

Dirty == selected # None /\ Drawer.has /\ detailsForm \notin {None, Drawer.data}

TypeDetails(d) ==
  /\ manages
  /\ detailsForm # None
  /\ detailsForm' = <<detailsForm[1], d>>
  /\ UNCHANGED <<registerUser, investors, listed, selected, investorQuery,
                 createDialog, changes>>

\* updateInvestor.isPending and deleteInvestor.isPending of the open drawer
Changing(op) == \E c \in changes : c.here /\ c.op = op

SendChange(c) ==
  /\ Cardinality(changes) < MaxChanges
  /\ changes' = changes \cup {c}

DiscardDetails ==
  /\ manages
  /\ Dirty
  /\ ~Changing("save")
  /\ detailsForm' = Drawer.data
  /\ UNCHANGED <<registerUser, investors, listed, selected, investorQuery,
                 createDialog, changes>>

\* handleDetailsSubmit
SaveDetails ==
  /\ manages
  /\ Dirty
  /\ ~Changing("save")
  /\ SendChange([op |-> "save", of |-> selected, body |-> detailsForm, here |-> TRUE])
  /\ UNCHANGED <<registerUser, investors, listed, drawerVars, createDialog>>

\* "Delete investor", confirmed: the confirmation closes at once.
DeleteInvestor ==
  /\ manages
  /\ selected # None
  /\ Drawer.has
  /\ ~Changing("delete")
  /\ SendChange([op |-> "delete", of |-> selected, here |-> TRUE])
  /\ UNCHANGED <<registerUser, investors, listed, drawerVars, createDialog>>

\* onSuccess of updateInvestor, also when its drawer was closed meanwhile
SaveSucceeds(c) ==
  /\ c.op = "save"
  /\ c.of \in ExistingInvestors
  /\ investors' = [investors EXCEPT ![c.of] = c.body]
  /\ listed' = Told(listed)
  /\ investorQuery' = [investorQuery EXCEPT ![c.of] = Invalidated(@, selected = c.of)]
  /\ changes' = changes \ {c}
  /\ UNCHANGED <<registerUser, selected, detailsForm, createDialog>>

\* A change of DeleteSucceeds: the list is not read again.
DeleteSucceedsUnlisted(c) ==
  /\ c.op = "delete"
  /\ c.of \in ExistingInvestors
  /\ investors' = [investors EXCEPT ![c.of] = Gone]
  /\ changes' = changes \ {c}
  /\ UNCHANGED <<registerUser, listed, drawerVars, createDialog>>

\* onSuccess of deleteInvestor.  The register refuses to delete an investor that
\* holds commitments.
DeleteSucceeds(c) ==
  /\ c.op = "delete"
  /\ c.of \in ExistingInvestors
  /\ investors' = [investors EXCEPT ![c.of] = Gone]
  /\ listed' = Told(listed)
  /\ changes' = changes \ {c}
  /\ UNCHANGED <<registerUser, drawerVars, createDialog>>

ChangeFails(c) ==
  /\ c.op = "delete" \/ ~alone \/ c.of \notin ExistingInvestors
  /\ changes' = changes \ {c}
  /\ UNCHANGED <<registerUser, investors, listed, drawerVars, createDialog>>

-----------------------------------------------------------------------------
(* The create dialog                                                       *)

OpenInvestorCreate ==
  /\ manages
  /\ createDialog = "closed" /\ selected = None
  /\ createDialog' = "open"
  /\ UNCHANGED <<registerUser, investors, listed, drawerVars, changes>>

\* handleOpenChange: not while the request is under way.
CloseInvestorCreate ==
  /\ createDialog = "open"
  /\ createDialog' = "closed"
  /\ UNCHANGED <<registerUser, investors, listed, drawerVars, changes>>

SubmitInvestorCreate ==
  /\ createDialog = "open"
  /\ createDialog' = "sent"
  /\ UNCHANGED <<registerUser, investors, listed, drawerVars, changes>>

\* onSuccess: the list is read again, and onCreated selects the new investor.
InvestorCreated(i) ==
  /\ createDialog = "sent"
  /\ investors[i] = None
  /\ \E d \in Details : investors' = [investors EXCEPT ![i] = <<i, d>>]
  /\ listed' = Told(listed)
  /\ createDialog' = "closed"
  /\ MountDrawer(i)
  /\ UNCHANGED registerUser

InvestorNotCreated ==
  /\ createDialog = "sent"
  /\ ~alone \/ \A i \in Investors : investors[i] # None
  /\ createDialog' = "open"
  /\ UNCHANGED <<registerUser, investors, listed, drawerVars, changes>>

-----------------------------------------------------------------------------
(* Answers, and the other managers                                         *)

ListAnswered ==
  /\ listed.reading
  /\ listed' = Answered(ExistingInvestors)
  /\ UNCHANGED <<registerUser, investors, drawerVars, createDialog, changes>>

ListFails ==
  /\ ~alone
  /\ listed.reading
  /\ listed' = ReadFailed(listed)
  /\ UNCHANGED <<registerUser, investors, drawerVars, createDialog, changes>>

\* A 404 leaves what was shown.
InvestorAnswered(i) ==
  /\ investorQuery[i].reading
  /\ investorQuery' = [investorQuery EXCEPT ![i] =
                         IF i \in ExistingInvestors THEN Answered(investors[i])
                                                   ELSE ReadFailed(@)]
  /\ UNCHANGED <<registerUser, investors, listed, selected, detailsForm,
                 createDialog, changes>>

InvestorWrittenElsewhere(i, d) ==
  /\ ~alone
  /\ i \in ExistingInvestors
  /\ investors' = [investors EXCEPT ![i] = IF d = Gone THEN Gone ELSE <<i, d>>]
  /\ UNCHANGED <<registerUser, listed, drawerVars, createDialog, changes>>

RegisterNext ==
  \/ \E i \in Investors : \/ SelectRow(i) \/ InvestorCreated(i) \/ InvestorAnswered(i)
                          \/ \E d \in Details \cup {Gone} :
                               InvestorWrittenElsewhere(i, d)
  \/ CloseWithoutRow \/ CloseDrawer \/ Hydrate
  \/ \E d \in Details : TypeDetails(d)
  \/ DiscardDetails \/ SaveDetails \/ DeleteInvestor
  \/ \E c \in changes : SaveSucceeds(c) \/ DeleteSucceeds(c) \/ ChangeFails(c)
  \/ OpenInvestorCreate \/ CloseInvestorCreate \/ SubmitInvestorCreate
  \/ InvestorNotCreated
  \/ ListAnswered \/ ListFails

RegisterSpec == RegisterInit /\ [][RegisterNext]_registerVars

\* Effects run and the server answers.
RegisterFairness ==
  /\ WF_registerVars(CloseWithoutRow) /\ WF_registerVars(Hydrate)
  /\ WF_registerVars(ListAnswered)
  /\ \A i \in Investors : WF_registerVars(InvestorAnswered(i))
  /\ WF_registerVars(\E c \in changes : SaveSucceeds(c) \/ DeleteSucceeds(c) \/ ChangeFails(c))

-----------------------------------------------------------------------------
\* Whatever drawers were opened, closed and answered before, no investor's
\* details are ever saved into another investor.
DetailsStayTheirOwn == \A i \in ExistingInvestors : investors[i][1] = i

\* Left alone, the drawer of a deleted investor closes.
DeletedDrawerCloses ==
  \A i \in Investors :
    alone /\ selected = i /\ i \notin ExistingInvestors ~> selected # i
=============================================================================
