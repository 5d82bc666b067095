---------------------------- MODULE MCInvestorDesks ----------------------------
(***************************************************************************)
(* The desks of the investors page, one of them at work in a behavior: the *)
(* register with its drawers, and the contacts in one drawer, by itself,   *)
(* beside others, and as the server alone has them.  Register and contacts *)
(* share no state that either one changes: the other one stays as it is    *)
(* before anything is read.                                                *)
(***************************************************************************)
EXTENDS ContactDesk, InvestorRegister

CONSTANTS c1, c2, v1, v2, d1, d2

VARIABLE desk

investorVars == <<desk, contactVars, registerVars>>

\* A manager who works alone, and a reader beside other managers.
RegisterLooks == {<<TRUE, TRUE>>, <<FALSE, FALSE>>}

\* Another manager removes the one contact there is.
Removal == [op : {"delete"}, of : {c1}]

NoDrawer ==
  /\ role = "lp" /\ calm = FALSE
  /\ contacts = Unread(Nobody)
  /\ dialog = Closed /\ addOpen = FALSE /\ requests = {}

NoContacts == NoDrawer /\ contact = Nobody /\ handlers = {}

NoRegister ==
  /\ manages = FALSE /\ alone = FALSE
  /\ investors = [i \in Investors |-> None]
  /\ listed = Unread({})
  /\ selected = None
  /\ investorQuery = [i \in Investors |-> Unread(None)]
  /\ detailsForm = None /\ createDialog = "closed" /\ changes = {}

\* Beside others the drawer has one contact, which it stars, adds and removes.
BesideOthers ==
  /\ ContactNext
  /\ \A m \in requests' : m.of = c1
  /\ dialog'.kind \in {"none", "remove"}

\* "unlinks" is the drawer's history, and an invitation changes no contact.
ServerAlone ==
  /\ ServerNext
  /\ \A h \in handlers' :
       /\ h.req.op # "invite"
       /\ h.req.op = "edit" => ~h.req.unlinks
  /\ UNCHANGED <<role, calm, contacts, dialog, addOpen, requests>>

\* While the create dialog is open nothing else is under way.
RegisterAtWork ==
  /\ RegisterNext
  /\ changes' = {} \/ createDialog' = "closed"

MCInit ==
  \/ desk = "contacts" /\ ContactInit /\ calm /\ NoRegister
  \/ desk = "beside" /\ ContactInit /\ ~calm /\ CanManage /\ contact[c2] = Absent
       /\ NoRegister
  \/ desk = "server" /\ ServerInit /\ NoDrawer /\ NoRegister
  \/ desk = "register" /\ RegisterInit /\ NoContacts

MCNext ==
  /\ UNCHANGED desk
  /\ \/ desk = "contacts" /\ ContactNext /\ UNCHANGED registerVars
     \/ desk = "beside" /\ BesideOthers /\ UNCHANGED registerVars
     \/ desk = "server" /\ ServerAlone /\ UNCHANGED registerVars
     \/ desk = "register" /\ RegisterAtWork /\ UNCHANGED contactVars

MCSpec ==
  /\ MCInit /\ [][MCNext]_investorVars
  /\ ContactFairness /\ RegisterFairness
=============================================================================
