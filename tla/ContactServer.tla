---------------------------- MODULE ContactServer ----------------------------
(***************************************************************************)
(* The contacts of one investor in the server, and the requests that create,*)
(* star, edit and remove them.                                             *)
(*                                                                         *)
(* Each request has a thread and a session of its own: it loads the        *)
(* contact, selects the others that are primary if it is to clear them, and*)
(* commits what it makes of these, with no lock and no unique index, so    *)
(* that requests overlap.  A flush updates the columns that differ from the*)
(* loaded ones, and fails when a row it updates is gone.                   *)
(***************************************************************************)
EXTENDS Naturals, FiniteSets

CONSTANTS
  Contacts,    \* identities a contact can be created with
  Clients,     \* who sends requests
  MaxHandlers, \* bound: requests handled at a time
  Absent       \* no contact of that identity

VARIABLES
  contact,   \* contact[c], or Absent
  handlers   \* the requests being handled

serverVars == <<contact, handlers>>

ContactRow == [primary : BOOLEAN, linked : BOOLEAN]

ASSUME AbsentAssumption == Absent \notin ContactRow

\* What is sent of a contact: "unlinks" is history, the user chose to remove a link.
Requests ==
  [op : {"create", "star"}, of : Contacts, primary : BOOLEAN]
  \cup [op : {"edit"}, of : Contacts, linked : BOOLEAN, unlinks : BOOLEAN]
  \cup [op : {"delete", "invite"}, of : Contacts]

Nobody == [c \in Contacts |-> Absent]
Present(r) == {c \in Contacts : r[c] # Absent}

\* No contact, or the one the investor is created with.
ServerInit ==
  /\ contact \in {Nobody} \cup
       {[Nobody EXCEPT ![c] = [primary |-> TRUE, linked |-> FALSE]]
         : c \in Contacts}
  /\ handlers = {}

-----------------------------------------------------------------------------
(* A request                                                               *)

\* handler.row is the contact as loaded, handler.siblings the other primary
\* ones as selected; ready to commit, it has read all it needs.  "overtaken" is
\* history: another request's commit has changed a contact since it began.

\* The request is to leave its contact the primary one.
MakesPrimary(m) == m.op \in {"create", "star"} /\ m.primary

\* A change of CanDelete: the last contact is kept instead of the primary one.
CanDeleteAllButLast(r, c) == Present(r) # {c}

\* delete_investor_contact refuses the primary contact.
CanDelete(r, c) == ~r[c].primary

\* The answer is a 404 or a 409 once the contact was loaded.
Rejected(m) ==
  \/ m.op \in {"star", "edit", "delete"} /\ contact[m.of] = Absent
  \/ m.op = "delete" /\ contact[m.of] # Absent /\ ~CanDelete(contact, m.of)

\* No contact has the identity and no request being handled means it: identities
\* are not given twice.
NewIdentity(c) ==
  /\ contact[c] = Absent
  /\ \A h \in handlers : h.req.of # c /\ c \notin h.siblings

\* _resolve_user_id_by_email: a new contact, or an unlinked one whose update does
\* not name a user, is linked when its email is that of a member.
MayLink(m) ==
  \/ m.op = "create"
  \/ m.op = "star" /\ ~contact[m.of].linked

\* The handler of by's request m.
Handling(m, by) == {h \in handlers : h.by = by /\ h.req = m}

\* The request's session loads the contact.
Load(m, by) ==
  /\ Cardinality(handlers) < MaxHandlers
  /\ Handling(m, by) = {}
  /\ m.op = "create" => NewIdentity(m.of)
  /\ ~Rejected(m)
  /\ \E links \in BOOLEAN :
       /\ links => MayLink(m)
       /\ handlers' = handlers \cup
            {[req |-> m, by |-> by, row |-> contact[m.of], links |-> links,
              siblings |-> {}, ready |-> ~MakesPrimary(m), overtaken |-> FALSE]}
  /\ UNCHANGED contact

OtherPrimaries(r, c) == {d \in Present(r) \ {c} : r[d].primary}

\* A change of SelectSiblings: nobody else is found.
SelectNoSiblings(h) ==
  /\ h \in handlers
  /\ ~h.ready
  /\ handlers' = (handlers \ {h}) \cup {[h EXCEPT !.ready = TRUE]}
  /\ UNCHANGED contact

\* _clear_other_primaries selects what it is to clear.
SelectSiblings(h) ==
  /\ h \in handlers
  /\ ~h.ready
  /\ handlers' = (handlers \ {h}) \cup
       {[h EXCEPT !.ready = TRUE, !.siblings = OtherPrimaries(contact, h.req.of)]}
  /\ UNCHANGED contact

\* The columns of its contact a handler's flush updates.
SetsStar(h) == h.req.op = "star" /\ h.req.primary # h.row.primary
SetsLink(h) == h.links \/ (h.req.op = "edit" /\ h.req.linked # h.row.linked)

Updated(h) ==
  h.siblings \cup
    IF h.req.op \in {"star", "edit"} /\ (SetsStar(h) \/ SetsLink(h)) THEN {h.req.of} ELSE {}

\* Contact d as the flush leaves it.
RowAfter(h, d) ==
  LET old == contact[d] IN
  IF d = h.req.of
  THEN CASE h.req.op = "create" -> [primary |-> h.req.primary, linked |-> h.links]
         [] h.req.op = "delete" -> Absent
         [] h.req.op \notin {"create", "delete"} /\ old = Absent -> Absent
         [] OTHER ->
              [primary |-> IF SetsStar(h) THEN h.req.primary ELSE old.primary,
               linked  |-> IF SetsLink(h) THEN h.req.op # "edit" \/ h.req.linked
                                          ELSE old.linked]
  ELSE IF d \in h.siblings THEN [old EXCEPT !.primary = FALSE] ELSE old

\* The flush finds every row that it is to update.
Flushes(h) == Updated(h) \subseteq Present(contact)

\* The answer is a 200: a contact is read again after an update, and must be there.
Answers(h) ==
  Flushes(h) /\ (h.req.op \in {"star", "edit"} => contact[h.req.of] # Absent)

\* The answer is a 500.  A contact that is gone as it is to be deleted is found out
\* by the handler's second get, or passes unnoticed.
Breaks(h) ==
  \/ ~Answers(h)
  \/ h.req.op = "delete" /\ contact[h.req.of] = Absent

\* Whoever else is being handled has been overtaken by a change of the contacts.
Overtake(others) ==
  IF contact' = contact THEN others ELSE {[g EXCEPT !.overtaken = TRUE] : g \in others}

Commit(h) ==
  /\ h \in handlers
  /\ h.ready
  /\ contact' = IF Flushes(h) THEN [d \in Contacts |-> RowAfter(h, d)] ELSE contact
  /\ handlers' = Overtake(handlers \ {h})

\* The process ends before the commit.
Dies(h) ==
  /\ handlers' = handlers \ {h}
  /\ UNCHANGED contact

\* link_unclaimed_by_email, as the invitee accepts.
LinkUnclaimed(c) ==
  /\ c \in Present(contact)
  /\ contact' = [contact EXCEPT ![c].linked = TRUE]
  /\ handlers' = Overtake(handlers)

ServerNext ==
  \/ \E m \in Requests, by \in Clients : Load(m, by)
  \/ \E h \in handlers : SelectSiblings(h) \/ Commit(h) \/ Dies(h)
  \/ \E c \in Contacts : LinkUnclaimed(c)

ServerSpec == ServerInit /\ [][ServerNext]_serverVars

-----------------------------------------------------------------------------
\* An investor has one primary contact at most.  (Two requests that overlap can
\* each make another contact the primary one.)
OnePrimary == \A c, d \in Present(contact) :
                contact[c].primary /\ contact[d].primary => c = d

\* A second primary contact comes about only when the request that makes it was
\* overtaken by another one's commit; requests handled one after the other never
\* make one.
SecondPrimaryNeedsOverlap ==
  [][OnePrimary /\ ~OnePrimary' =>
       \E h \in handlers \ handlers' : h.overtaken /\ MakesPrimary(h.req)]_serverVars

\* Notices address the primary contact, which delete_investor_contact refuses to
\* remove.  A contact that is primary as it is removed became so between a
\* removal's check and its commit: the request was overtaken by another one's
\* commit.
PrimaryGoneNeedsOverlap ==
  [][\A c \in Present(contact) :
       contact[c].primary /\ contact'[c] = Absent =>
         \E h \in handlers \ handlers' :
           h.overtaken /\ h.req.op = "delete" /\ h.req.of = c]_serverVars
=============================================================================
