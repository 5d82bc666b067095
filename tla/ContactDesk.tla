----------------------------- MODULE ContactDesk -----------------------------
(***************************************************************************)
(* The contacts of one investor in the register's drawer: the list, the    *)
(* star, the add form, the edit, remove and invite dialogs, and the server *)
(* they write to.  The investor's LP may accept an invitation, and other   *)
(* managers may add, star, edit and remove contacts, at any time.          *)
(***************************************************************************)
EXTENDS WebQuery, ContactServer

CONSTANTS MaxRequests, \* bound: mutations under way at a time
          Elsewhere,   \* the requests of another manager that are looked at
          Manners,     \* whether it is calm from the start
          Roles        \* roles of the organization

ASSUME ClientsAssumption == Clients = {"drawer", "elsewhere"}
ASSUME ElsewhereAssumption == Elsewhere \subseteq Requests
ASSUME MannersAssumption == Manners \subseteq BOOLEAN

VARIABLES
  role,      \* activeMembership.role
  calm,      \* from here on nobody else writes and no request is lost
  contacts,  \* contactsQuery
  dialog,    \* the dialog on screen and the contact it was opened with
  addOpen,   \* addContactOpen
  requests   \* the mutations the drawer waits for

contactVars == <<role, calm, serverVars, contacts, dialog, addOpen, requests>>

Closed == [kind |-> "none"]

ContactInit ==
  /\ role \in Roles
  /\ calm \in Manners
  /\ ServerInit
  /\ contacts = FirstRead(Nobody)
  /\ dialog = Closed
  /\ addOpen = FALSE
  /\ requests = {}

-----------------------------------------------------------------------------
(* What the panel shows                                                    *)

\* canInvite and canManageCommitments
CanManage == role \in {"admin", "fund_manager"}

\* contactsQuery.data ?? []
ShownContacts == IF contacts.has THEN contacts.data ELSE Nobody

\* Nothing in the drawer means a contact of the identity.
Unknown(c) ==
  /\ c \notin Present(ShownContacts)
  /\ \A m \in requests : m.of # c
  /\ dialog # Closed => dialog.of # c

\* The add form shows itself when there is no contact to show, also while the
\* contacts are loading.
AddFormShown == CanManage /\ (Present(ShownContacts) = {} \/ addOpen)

Pending(op) == \E m \in requests : m.op = op

\* A request that was given up is not sent again before the server is done with it.
Send(m) ==
  /\ Cardinality(requests) < MaxRequests
  /\ Handling(m, "drawer") = {}
  /\ requests' = requests \cup {m}

-----------------------------------------------------------------------------
(* The manager                                                             *)

\* togglePrimary: the star button of every row.
TogglePrimary(c) ==
  /\ CanManage
  /\ dialog = Closed
  /\ c \in Present(ShownContacts)
  /\ ~Pending("star")
  /\ Send([op |-> "star", of |-> c, primary |-> ~ShownContacts[c].primary])
  /\ UNCHANGED <<role, calm, serverVars, contacts, dialog, addOpen>>

OpenAddForm ==
  /\ CanManage
  /\ dialog = Closed
  /\ Present(ShownContacts) # {}
  /\ ~addOpen
  /\ addOpen' = TRUE
  /\ UNCHANGED <<role, calm, serverVars, contacts, dialog, requests>>

CancelAddForm ==
  /\ AddFormShown
  /\ dialog = Closed
  /\ Present(ShownContacts) # {}
  /\ ~Pending("create")
  /\ addOpen' = FALSE
  /\ UNCHANGED <<role, calm, serverVars, contacts, dialog, requests>>

\* handleAddContact: with no contact shown the new one is made primary.
AddContact(c) ==
  /\ AddFormShown
  /\ dialog = Closed
  /\ ~Pending("create")
  /\ NewIdentity(c) /\ Unknown(c)
  /\ Send([op |-> "create", of |-> c, primary |-> Present(ShownContacts) = {}])
  /\ UNCHANGED <<role, calm, serverVars, contacts, dialog, addOpen>>

\* The row's pencil: the dialog's fields are those of the row.
EditContact(c) ==
  /\ CanManage
  /\ dialog = Closed
  /\ c \in Present(ShownContacts)
  /\ dialog' = [kind |-> "edit", of |-> c, was |-> ShownContacts[c].linked,
              linked |-> ShownContacts[c].linked]
  /\ UNCHANGED <<role, calm, serverVars, contacts, addOpen, requests>>

\* Choosing a member to link, or none.
ChooseLink ==
  /\ dialog.kind = "edit"
  /\ dialog' = [dialog EXCEPT !.linked = ~dialog.linked]
  /\ UNCHANGED <<role, calm, serverVars, contacts, addOpen, requests>>

SaveContact ==
  /\ dialog.kind = "edit"
  /\ ~Pending("edit")
  /\ Send([op |-> "edit", of |-> dialog.of, linked |-> dialog.linked,
           unlinks |-> dialog.was /\ ~dialog.linked])
  /\ UNCHANGED <<role, calm, serverVars, contacts, dialog, addOpen>>

\* The trash button of a row: no such button for the primary contact.
AskToRemove(c) ==
  /\ CanManage
  /\ dialog = Closed
  /\ c \in Present(ShownContacts)
  /\ ~ShownContacts[c].primary
  /\ ~Pending("delete")
  /\ dialog' = [kind |-> "remove", of |-> c]
  /\ UNCHANGED <<role, calm, serverVars, contacts, addOpen, requests>>

\* The dialog's action closes it and sends the request.
RemoveContact ==
  /\ dialog.kind = "remove"
  /\ Send([op |-> "delete", of |-> dialog.of])
  /\ dialog' = Closed
  /\ UNCHANGED <<role, calm, serverVars, contacts, addOpen>>

\* "Invite" in the row of a contact without a user.
OpenInvite(c) ==
  /\ CanManage
  /\ dialog = Closed
  /\ c \in Present(ShownContacts)
  /\ ~ShownContacts[c].linked
  /\ dialog' = [kind |-> "invite", of |-> c]
  /\ UNCHANGED <<role, calm, serverVars, contacts, addOpen, requests>>

\* "Invite" in the edit dialog, which the invite dialog replaces.
InviteFromEditDialog ==
  /\ dialog.kind = "edit"
  /\ ~dialog.linked
  /\ dialog' = [kind |-> "invite", of |-> dialog.of]
  /\ UNCHANGED <<role, calm, serverVars, contacts, addOpen, requests>>

SendInvite ==
  /\ dialog.kind = "invite"
  /\ ~Pending("invite")
  /\ Send([op |-> "invite", of |-> dialog.of])
  /\ UNCHANGED <<role, calm, serverVars, contacts, dialog, addOpen>>

\* handleOpenChange of the edit and invite dialogs: not while their request is
\* under way.  The remove dialog closes at any time.
CloseDialog ==
  /\ dialog # Closed
  /\ dialog.kind \in {"edit", "invite"} => ~Pending(dialog.kind)
  /\ dialog' = Closed
  /\ UNCHANGED <<role, calm, serverVars, contacts, addOpen, requests>>

-----------------------------------------------------------------------------
(* Answers                                                                 *)

\* A change of ReadsContactsAgain: the star is only shown, not read again.
ReadsContactsAgainUnlessStar(op) == op \notin {"invite", "star"}

\* Another one: nor after a removal.
ReadsContactsAgainUnlessRemoved(op) == op \notin {"invite", "delete"}

\* invalidateInvestorScopes, in onSuccess of the mutations; an invitation is not
\* part of the contacts.
ReadsContactsAgain(op) == op # "invite"

\* A request of the drawer reaches the server.
HandleMutation(m) ==
  /\ m \in requests
  /\ Load(m, "drawer")
  /\ UNCHANGED <<role, calm, contacts, dialog, addOpen, requests>>

SiblingsSelected(h) ==
  /\ SelectSiblings(h)
  /\ UNCHANGED <<role, calm, contacts, dialog, addOpen, requests>>

\* The drawer waits for the handler's answer.
Awaited(h) == h.by = "drawer" /\ h.req \in requests

\* onSuccess of each mutation.
MutationSucceeds(h) ==
  /\ Awaited(h)
  /\ Answers(h)
  /\ Commit(h)
  /\ requests' = requests \ {h.req}
  /\ addOpen' = (addOpen /\ h.req.op # "create")
  /\ dialog' = IF \/ h.req.op \in {"edit", "invite"} /\ dialog.kind = h.req.op
                  \/ h.req.op = "delete" /\ dialog.kind = "remove"
               THEN Closed ELSE dialog
  /\ contacts' = IF ReadsContactsAgain(h.req.op) THEN Told(contacts) ELSE contacts
  /\ UNCHANGED <<role, calm>>

\* 404 and 409, or a 500 of the handler.
MutationRejected(m) ==
  /\ m \in requests
  /\ Handling(m, "drawer") = {}
  /\ Rejected(m)
  /\ requests' = requests \ {m}
  /\ UNCHANGED <<role, calm, serverVars, contacts, dialog, addOpen>>

MutationBreaks(h) ==
  /\ Awaited(h)
  /\ Breaks(h)
  /\ Commit(h)
  /\ requests' = requests \ {h.req}
  /\ UNCHANGED <<role, calm, contacts, dialog, addOpen>>

\* A request is lost, its handler dies, or the answer is lost while the handler
\* goes on for nobody.
MutationLost(m) ==
  /\ ~calm
  /\ m \in requests
  /\ requests' = requests \ {m}
  /\ \/ UNCHANGED serverVars
     \/ \E h \in Handling(m, "drawer") : Dies(h)
  /\ UNCHANGED <<role, calm, contacts, dialog, addOpen>>

ContactsAnswered ==
  /\ contacts.reading
  /\ contacts' = Answered(contact)
  /\ UNCHANGED <<role, calm, serverVars, dialog, addOpen, requests>>

ContactsFail ==
  /\ ~calm
  /\ contacts.reading
  /\ contacts' = ReadFailed(contacts)
  /\ UNCHANGED <<role, calm, serverVars, dialog, addOpen, requests>>

InvitationAccepted(c) ==
  /\ ~calm
  /\ LinkUnclaimed(c)
  /\ UNCHANGED <<role, calm, contacts, dialog, addOpen, requests>>

\* A request of another manager, one at a time.
HandleOther(m) ==
  /\ ~calm
  /\ m.op = "create" => Unknown(m.of)
  /\ \A h \in handlers : h.by # "elsewhere"
  /\ Load(m, "elsewhere")
  /\ UNCHANGED <<role, calm, contacts, dialog, addOpen, requests>>

UnawaitedCommits(h) ==
  /\ ~Awaited(h)
  /\ Commit(h)
  /\ UNCHANGED <<role, calm, contacts, dialog, addOpen, requests>>

\* Others have come to an end.
Settle ==
  /\ ~calm
  /\ \A h \in handlers : Awaited(h)
  /\ calm' = TRUE
  /\ UNCHANGED <<role, serverVars, contacts, dialog, addOpen, requests>>

ContactNext ==
  \/ \E c \in Contacts : \/ TogglePrimary(c) \/ AddContact(c) \/ EditContact(c)
                         \/ AskToRemove(c) \/ OpenInvite(c)
                         \/ InvitationAccepted(c)
  \/ OpenAddForm \/ CancelAddForm
  \/ ChooseLink \/ SaveContact \/ RemoveContact
  \/ InviteFromEditDialog \/ SendInvite \/ CloseDialog
  \/ \E m \in requests : HandleMutation(m) \/ MutationRejected(m) \/ MutationLost(m)
  \/ \E h \in handlers : \/ SiblingsSelected(h) \/ MutationSucceeds(h)
                         \/ MutationBreaks(h) \/ UnawaitedCommits(h)
  \/ \E m \in Elsewhere : HandleOther(m)
  \/ ContactsAnswered \/ ContactsFail \/ Settle

ContactSpec == ContactInit /\ [][ContactNext]_contactVars

\* The server handles requests and answers.
ContactFairness ==
  /\ WF_contactVars(ContactsAnswered)
  /\ WF_contactVars(\/ \E m \in requests : HandleMutation(m) \/ MutationRejected(m)
                    \/ \E h \in handlers : \/ SiblingsSelected(h) \/ MutationSucceeds(h)
                                           \/ MutationBreaks(h))

-----------------------------------------------------------------------------
\* Whatever was lost and written by others before, once the drawer is left alone and
\* reads its list, as it does on opening and after each write, it shows in the end
\* what the server holds.
ContactsCatchUp ==
  <>(calm /\ contacts.reading) /\ <>[](requests = {}) => <>[](contacts.data = contact)

\* A contact's link to a user goes only when the manager chose to remove it.
EditKeepsLink ==
  [][\A c \in Present(contact) \cap Present(contact') :
       contact[c].linked /\ ~contact'[c].linked =>
         \E h \in handlers \ handlers' :
           h.req.op = "edit" /\ h.req.of = c /\ h.req.unlinks]_contactVars
=============================================================================
