-------------------------- MODULE InvestorDesks_proofs --------------------------
(***************************************************************************)
(* What holds of the investors page for any number of contacts, investors  *)
(* and requests under way: a second primary contact and the removal of a   *)
(* primary one take requests that overlap, the drawer's requests are ones  *)
(* of the server, and details stay with their investor.                    *)
(***************************************************************************)
EXTENDS ContactDesk, InvestorRegister, TLAPS

-----------------------------------------------------------------------------
(* Contacts in the server                                                  *)

ContactBook == [Contacts -> ContactRow \cup {Absent}]

Handlers ==
  [req : Requests, by : Clients, row : ContactRow \cup {Absent}, links : BOOLEAN,
   siblings : SUBSET Contacts, ready : BOOLEAN, overtaken : BOOLEAN]

ServerTypeOK == contact \in ContactBook /\ handlers \subseteq Handlers

\* Of the contacts of a book, one is primary at most.
OneStar(r) ==
  \A c, d \in Contacts : r[c] # Absent /\ r[d] # Absent /\ r[c].primary /\ r[d].primary
                           => c = d

\* What a handler has read is what the contacts r hold, until it is overtaken.
Fresh(h, r) ==
  /\ h.req.op = "delete" => h.row # Absent /\ ~h.row.primary
  /\ ~MakesPrimary(h.req) => h.ready /\ h.siblings = {}
  /\ ~h.overtaken =>
       /\ h.row = r[h.req.of]
       /\ h.ready /\ MakesPrimary(h.req) => h.siblings = OtherPrimaries(r, h.req.of)

\* No two handlers have the same request of the same client.
OncePerClient(H) == \A g, h \in H : g.req = h.req /\ g.by = h.by => g = h

ServerInv ==
  /\ ServerTypeOK
  /\ \A h \in handlers : Fresh(h, contact)
  /\ OncePerClient(handlers)

\* A request names a contact, and its operation is one of five.
LEMMA RequestFields ==
  ASSUME NEW m \in Requests
  PROVE  /\ m.of \in Contacts
         /\ m.op \in {"create", "star", "edit", "delete", "invite"}
         /\ m.op \in {"create", "star"} => m.primary \in BOOLEAN
         /\ m.op = "edit" => m.linked \in BOOLEAN
BY DEF Requests

\* What a flush leaves of one contact.
LEMMA RowFlushed ==
  ASSUME contact \in ContactBook, NEW h \in Handlers, Flushes(h), NEW d \in Contacts
  PROVE  /\ RowAfter(h, d) \in ContactRow \cup {Absent}
         /\ d # h.req.of /\ d \notin h.siblings => RowAfter(h, d) = contact[d]
         /\ d # h.req.of /\ d \in h.siblings =>
              RowAfter(h, d) # Absent /\ ~RowAfter(h, d).primary
         /\ RowAfter(h, d) = Absent /\ contact[d] # Absent =>
              h.req.op = "delete" /\ d = h.req.of
<1> DEFINE old == contact[d]
           m == h.req
<1>1. /\ m \in Requests /\ h.links \in BOOLEAN /\ h.siblings \subseteq Contacts
      /\ old \in ContactRow \cup {Absent}
  BY DEF Handlers, ContactBook
<1>2. /\ m.of \in Contacts
      /\ m.op \in {"create", "star", "edit", "delete", "invite"}
      /\ m.op \in {"create", "star"} => m.primary \in BOOLEAN
      /\ m.op = "edit" => m.linked \in BOOLEAN
  BY <1>1, RequestFields
<1>3. h.siblings \subseteq Present(contact)
  BY DEF Flushes, Updated
<1>4. CASE d # m.of /\ d \notin h.siblings
  BY <1>1, <1>4 DEF RowAfter
<1>5. CASE d # m.of /\ d \in h.siblings
  <2>1. old \in ContactRow
    BY <1>1, <1>3, <1>5 DEF Present
  <2>2. [old EXCEPT !.primary = FALSE] \in ContactRow
        /\ ~[old EXCEPT !.primary = FALSE].primary
    BY <2>1 DEF ContactRow
  <2>3. RowAfter(h, d) = [old EXCEPT !.primary = FALSE]
    BY <1>5 DEF RowAfter
  <2> QED BY <1>5, <2>2, <2>3, AbsentAssumption
<1>6. CASE d = m.of /\ m.op = "create"
  <2>1. RowAfter(h, d) = [primary |-> m.primary, linked |-> h.links]
    BY <1>6 DEF RowAfter
  <2>2. RowAfter(h, d) \in ContactRow
    BY <1>1, <1>2, <1>6, <2>1 DEF ContactRow
  <2> QED BY <1>6, <2>2, AbsentAssumption
<1>7. CASE d = m.of /\ m.op = "delete"
  BY <1>7 DEF RowAfter
<1>8. CASE d = m.of /\ m.op \notin {"create", "delete"} /\ old = Absent
  <2>1. RowAfter(h, d) = Absent
    BY <1>8 DEF RowAfter
  <2> QED BY <1>8, <2>1
<1>9. CASE d = m.of /\ m.op \notin {"create", "delete"} /\ old # Absent
  <2> DEFINE p == IF SetsStar(h) THEN m.primary ELSE old.primary
             l == IF SetsLink(h) THEN m.op # "edit" \/ m.linked ELSE old.linked
  <2>1. RowAfter(h, d) = [primary |-> p, linked |-> l]
    BY <1>9 DEF RowAfter
  <2>2. old.primary \in BOOLEAN /\ old.linked \in BOOLEAN
    BY <1>1, <1>9 DEF ContactRow
  <2>3. p \in BOOLEAN
    BY <1>2, <2>2 DEF SetsStar
  <2>4. l \in BOOLEAN
    BY <1>2, <2>2
  <2> HIDE DEF p, l
  <2>5. RowAfter(h, d) \in ContactRow
    BY <2>1, <2>3, <2>4 DEF ContactRow
  <2> QED BY <1>9, <2>5, AbsentAssumption
<1> QED BY <1>2, <1>4, <1>5, <1>6, <1>7, <1>8, <1>9

\* A contact that a flush leaves primary was primary, or is the one that the
\* request makes primary.
LEMMA StarFlushed ==
  ASSUME contact \in ContactBook, NEW h \in Handlers, Flushes(h), NEW d \in Contacts,
         RowAfter(h, d) # Absent, RowAfter(h, d).primary
  PROVE  \/ d = h.req.of /\ MakesPrimary(h.req)
         \/ contact[d] # Absent /\ contact[d].primary /\ (d = h.req.of \/ d \notin h.siblings)
<1> DEFINE old == contact[d]
           m == h.req
<1>1. m \in Requests
  BY DEF Handlers
<1>2. /\ m.op \in {"create", "star", "edit", "delete", "invite"}
      /\ m.op \in {"create", "star"} => m.primary \in BOOLEAN
  BY <1>1, RequestFields
<1>3. CASE d # m.of
  BY <1>3, RowFlushed
<1>4. CASE d = m.of /\ m.op = "create"
  <2>1. RowAfter(h, d).primary = m.primary
    BY <1>4 DEF RowAfter
  <2> QED BY <1>4, <2>1 DEF MakesPrimary
<1>5. CASE d = m.of /\ m.op = "delete"
  BY <1>5 DEF RowAfter
<1>6. CASE d = m.of /\ m.op \notin {"create", "delete"}
  <2>1. old # Absent
    BY <1>6 DEF RowAfter
  <2>2. RowAfter(h, d).primary = IF SetsStar(h) THEN m.primary ELSE old.primary
    BY <1>6, <2>1 DEF RowAfter
  <2>3. CASE SetsStar(h)
    BY <1>6, <2>2, <2>3 DEF SetsStar, MakesPrimary
  <2>4. CASE ~SetsStar(h)
    BY <1>6, <2>1, <2>2, <2>4
  <2> QED BY <2>3, <2>4
<1> QED BY <1>2, <1>3, <1>4, <1>5, <1>6

\* Once marked as overtaken, a handler is what it was.
LEMMA Marked ==
  ASSUME NEW g \in Handlers
  PROVE  LET k == [g EXCEPT !.overtaken = TRUE] IN
         /\ k \in Handlers /\ k.overtaken
         /\ k.req = g.req /\ k.by = g.by /\ k.row = g.row /\ k.siblings = g.siblings
BY DEF Handlers

\* A change of the contacts leaves the handlers typed, fresh and once per client,
\* and adds none.
LEMMA OthersOvertaken ==
  ASSUME ServerInv, NEW H \in SUBSET handlers, handlers' = Overtake(H)
  PROVE  /\ handlers' \subseteq Handlers
         /\ \A h \in handlers' : Fresh(h, contact')
         /\ OncePerClient(handlers')
         /\ \A k \in handlers' : \E g \in H : k.req = g.req /\ k.by = g.by
<1>1. H \subseteq Handlers /\ (\A h \in H : Fresh(h, contact)) /\ OncePerClient(H)
  BY DEF ServerInv, ServerTypeOK, OncePerClient
<1>2. CASE contact' = contact
  <2>1. handlers' = H
    BY <1>2 DEF Overtake
  <2>2. \A h \in H : \A r : r = contact => Fresh(h, r)
    BY <1>1
  <2> QED BY <1>1, <1>2, <2>1, <2>2
<1>3. CASE contact' # contact
  <2>1. handlers' = {[g EXCEPT !.overtaken = TRUE] : g \in H}
    BY <1>3 DEF Overtake
  <2>2. \A k \in handlers' : \E g \in H : k = [g EXCEPT !.overtaken = TRUE]
    BY <2>1
  <2>3. ASSUME NEW k \in handlers'
        PROVE  \E g \in H : /\ k = [g EXCEPT !.overtaken = TRUE]
                            /\ k \in Handlers /\ k.overtaken /\ Fresh(g, contact)
                            /\ k.req = g.req /\ k.by = g.by /\ k.row = g.row
                            /\ k.siblings = g.siblings
    <3>1. PICK g \in H : k = [g EXCEPT !.overtaken = TRUE]
      BY <2>2
    <3> QED BY <1>1, <3>1, Marked
  <2>4. ASSUME NEW k \in handlers', NEW r
        PROVE  Fresh(k, r)
    <3>1. PICK g \in H : /\ k = [g EXCEPT !.overtaken = TRUE]
                         /\ k \in Handlers /\ k.overtaken /\ Fresh(g, contact)
                         /\ k.req = g.req /\ k.row = g.row /\ k.siblings = g.siblings
      BY <2>3
    <3>2. k.ready = g.ready
      BY <1>1, <3>1 DEF Handlers
    <3> QED BY <3>1, <3>2 DEF Fresh
  <2>5. ASSUME NEW j \in handlers', NEW k \in handlers', j.req = k.req, j.by = k.by
        PROVE  j = k
    <3>1. PICK f \in H : j = [f EXCEPT !.overtaken = TRUE] /\ j.req = f.req /\ j.by = f.by
      BY <2>3
    <3>2. PICK g \in H : k = [g EXCEPT !.overtaken = TRUE] /\ k.req = g.req /\ k.by = g.by
      BY <2>3
    <3>3. f = g
      BY <1>1, <2>5, <3>1, <3>2 DEF OncePerClient
    <3> QED BY <3>1, <3>2, <3>3
  <2>6. OncePerClient(handlers')
    BY <2>5 DEF OncePerClient
  <2> QED BY <2>3, <2>4, <2>6
<1> QED BY <1>2, <1>3

\* A handler that commits is gone, and the contacts are those of a book.
LEMMA Committed ==
  ASSUME ServerInv, NEW h \in handlers, Commit(h)
  PROVE  ServerInv' /\ h \notin handlers'
<1>1. h \in Handlers /\ contact \in ContactBook
  BY DEF ServerInv, ServerTypeOK
<1>2. contact' \in ContactBook
  <2>1. CASE Flushes(h)
    <3>1. \A d \in Contacts : RowAfter(h, d) \in ContactRow \cup {Absent}
      BY <1>1, <2>1, RowFlushed
    <3>2. contact' = [d \in Contacts |-> RowAfter(h, d)]
      BY <2>1 DEF Commit
    <3> QED BY <3>1, <3>2 DEF ContactBook
  <2>2. CASE ~Flushes(h)
    BY <1>1, <2>2 DEF Commit
  <2> QED BY <2>1, <2>2
<1>3. handlers' = Overtake(handlers \ {h})
  BY DEF Commit
<1>4. /\ handlers' \subseteq Handlers
      /\ \A g \in handlers' : Fresh(g, contact')
      /\ OncePerClient(handlers')
      /\ \A k \in handlers' : \E g \in handlers \ {h} : k.req = g.req /\ k.by = g.by
  <2>1. handlers \ {h} \in SUBSET handlers
    OBVIOUS
  <2> QED BY <1>3, <2>1, OthersOvertaken
<1>5. h \notin handlers'
  BY <1>4 DEF ServerInv, OncePerClient
<1> QED BY <1>2, <1>4, <1>5 DEF ServerInv, ServerTypeOK

\* A commit that was not overtaken, or makes nobody primary, makes no second one.
LEMMA StarKept ==
  ASSUME ServerInv, OneStar(contact), NEW h \in handlers, Commit(h),
         ~(h.overtaken /\ MakesPrimary(h.req))
  PROVE  OneStar(contact')
<1>1. h \in Handlers /\ contact \in ContactBook /\ Fresh(h, contact) /\ h.ready
  BY DEF ServerInv, ServerTypeOK, Commit
<1>2. CASE ~Flushes(h)
  BY <1>2 DEF Commit, OneStar
<1>3. CASE Flushes(h)
  <2> DEFINE Starred(d) == RowAfter(h, d) # Absent /\ RowAfter(h, d).primary
             Was(d) == contact[d] # Absent /\ contact[d].primary
  <2>1. \A d \in Contacts : Starred(d) =>
          \/ d = h.req.of /\ MakesPrimary(h.req)
          \/ Was(d) /\ (d = h.req.of \/ d \notin h.siblings)
    BY <1>1, <1>3, StarFlushed
  <2>2. contact' = [d \in Contacts |-> RowAfter(h, d)]
    BY <1>3 DEF Commit
  <2>3. \A d \in Contacts : contact'[d] # Absent /\ contact'[d].primary => Starred(d)
    BY <2>2
  <2>4. CASE MakesPrimary(h.req)
    <3>1. h.siblings = OtherPrimaries(contact, h.req.of)
      BY <1>1, <2>4 DEF Fresh
    <3>2. \A d \in Contacts : Was(d) /\ d # h.req.of => d \in h.siblings
      BY <3>1 DEF OtherPrimaries, Present
    <3> HIDE DEF Starred, Was
    <3>3. \A d \in Contacts : Starred(d) => d = h.req.of
      BY <2>1, <3>2
    <3> QED BY <2>3, <3>3 DEF OneStar
  <2>5. CASE ~MakesPrimary(h.req)
    <3>1. \A c, d \in Contacts : Was(c) /\ Was(d) => c = d
      BY DEF OneStar
    <3> HIDE DEF Starred, Was
    <3>2. \A d \in Contacts : Starred(d) => Was(d)
      BY <2>1, <2>5
    <3> QED BY <2>3, <3>1, <3>2 DEF OneStar
  <2> QED BY <2>4, <2>5
<1> QED BY <1>2, <1>3

\* A commit that takes a primary contact away is that of an overtaken removal.
LEMMA PrimaryTaken ==
  ASSUME ServerInv, NEW h \in handlers, Commit(h), NEW c \in Contacts,
         contact[c] # Absent, contact[c].primary, contact'[c] = Absent
  PROVE  h.overtaken /\ h.req.op = "delete" /\ h.req.of = c
<1>1. h \in Handlers /\ contact \in ContactBook /\ Fresh(h, contact)
  BY DEF ServerInv, ServerTypeOK
<1>2. Flushes(h) /\ contact'[c] = RowAfter(h, c)
  BY DEF Commit
<1>3. h.req.op = "delete" /\ c = h.req.of
  BY <1>1, <1>2, RowFlushed
<1> QED BY <1>1, <1>3 DEF Fresh

\* The invitee's accept links a contact and leaves the stars.
LEMMA LinkKept ==
  ASSUME ServerInv, NEW c \in Contacts, LinkUnclaimed(c)
  PROVE  /\ ServerInv'
         /\ OneStar(contact) => OneStar(contact')
         /\ \A d \in Contacts : contact[d] # Absent => contact'[d] # Absent
<1> DEFINE linked == [contact[c] EXCEPT !.linked = TRUE]
<1>1. contact \in ContactBook /\ contact[c] # Absent
  BY DEF ServerInv, ServerTypeOK, LinkUnclaimed, Present
<1>2. linked \in ContactRow /\ linked.primary = contact[c].primary
  BY <1>1 DEF ContactBook, ContactRow
<1>3. contact' = [contact EXCEPT ![c] = linked]
  BY DEF LinkUnclaimed
<1> HIDE DEF linked
<1>4. contact' \in ContactBook /\ contact'[c] = linked
      /\ \A d \in Contacts \ {c} : contact'[d] = contact[d]
  BY <1>1, <1>2, <1>3 DEF ContactBook
<1>5. /\ handlers' \subseteq Handlers
      /\ \A g \in handlers' : Fresh(g, contact')
      /\ OncePerClient(handlers')
  <2>1. handlers \in SUBSET handlers /\ handlers' = Overtake(handlers)
    BY DEF LinkUnclaimed
  <2> QED BY <2>1, OthersOvertaken
<1>6. OneStar(contact) => OneStar(contact')
  BY <1>1, <1>2, <1>4 DEF OneStar
<1>7. \A d \in Contacts : contact[d] # Absent => contact'[d] # Absent
  BY <1>2, <1>4, AbsentAssumption
<1> QED BY <1>4, <1>5, <1>6, <1>7 DEF ServerInv, ServerTypeOK

\* A request begins with the contact as it is.
LEMMA Loaded ==
  ASSUME ServerInv, NEW m \in Requests, NEW by \in Clients, Load(m, by)
  PROVE  ServerInv' /\ contact' = contact
<1>1. PICK links \in BOOLEAN :
        handlers' = handlers \cup
          {[req |-> m, by |-> by, row |-> contact[m.of], links |-> links,
            siblings |-> {}, ready |-> ~MakesPrimary(m), overtaken |-> FALSE]}
  BY DEF Load
<1> DEFINE h == [req |-> m, by |-> by, row |-> contact[m.of], links |-> links,
                 siblings |-> {}, ready |-> ~MakesPrimary(m), overtaken |-> FALSE]
<1>2. contact' = contact /\ handlers' = handlers \cup {h}
  BY <1>1 DEF Load
<1>3. contact \in ContactBook /\ contact[m.of] \in ContactRow \cup {Absent}
  BY RequestFields DEF ServerInv, ServerTypeOK, ContactBook
<1>4. MakesPrimary(m) \in BOOLEAN
  BY RequestFields DEF MakesPrimary
<1>5. h \in Handlers
  BY <1>3, <1>4 DEF Handlers
<1>6. Fresh(h, contact)
  <2>1. m.op = "delete" => contact[m.of] # Absent /\ ~contact[m.of].primary
    BY DEF Load, Rejected, CanDelete
  <2> QED BY <2>1 DEF Fresh
<1>7. h.req = m /\ h.by = by
  OBVIOUS
<1>8. \A g \in handlers : ~(g.req = m /\ g.by = by)
  BY DEF Load, Handling
<1> HIDE DEF h
<1>9. OncePerClient(handlers')
  BY <1>2, <1>7, <1>8 DEF ServerInv, OncePerClient
<1>10. \A g \in handlers' : Fresh(g, contact')
  BY <1>2, <1>6 DEF ServerInv
<1> QED BY <1>2, <1>3, <1>5, <1>9, <1>10 DEF ServerInv, ServerTypeOK

\* The others that are primary are selected as they are.
LEMMA Selected ==
  ASSUME ServerInv, NEW h \in handlers, SelectSiblings(h)
  PROVE  ServerInv' /\ contact' = contact
<1> DEFINE found == OtherPrimaries(contact, h.req.of)
           k == [h EXCEPT !.ready = TRUE, !.siblings = found]
<1>1. h \in Handlers /\ Fresh(h, contact) /\ contact \in ContactBook
  BY DEF ServerInv, ServerTypeOK
<1>2. found \in SUBSET Contacts
  BY DEF OtherPrimaries, Present
<1>3. contact' = contact /\ handlers' = (handlers \ {h}) \cup {k}
  BY DEF SelectSiblings
<1>4. ~h.ready /\ MakesPrimary(h.req)
  BY <1>1 DEF SelectSiblings, Fresh
<1>5. /\ k \in Handlers /\ k.req = h.req /\ k.by = h.by /\ k.row = h.row
      /\ k.ready /\ k.siblings = found /\ k.overtaken = h.overtaken
  BY <1>1, <1>2 DEF Handlers
<1> HIDE DEF k
<1>6. Fresh(k, contact)
  BY <1>1, <1>4, <1>5 DEF Fresh
<1>7. OncePerClient(handlers')
  BY <1>3, <1>5 DEF ServerInv, OncePerClient
<1>8. \A g \in handlers' : Fresh(g, contact')
  BY <1>3, <1>6 DEF ServerInv
<1> QED BY <1>1, <1>3, <1>5, <1>7, <1>8 DEF ServerInv, ServerTypeOK

\* The process of a request ends.
LEMMA Died ==
  ASSUME ServerInv, NEW h \in handlers, Dies(h)
  PROVE  ServerInv' /\ contact' = contact
BY DEF Dies, ServerInv, ServerTypeOK, OncePerClient

\* What every step of the server keeps, and what it takes to break the rest.
LEMMA ServerStep ==
  ASSUME ServerInv, [ServerNext]_serverVars
  PROVE  /\ ServerInv'
         /\ OneStar(contact) /\ ~OneStar(contact') =>
              \E h \in handlers \ handlers' : h.overtaken /\ MakesPrimary(h.req)
         /\ \A c \in Contacts :
              contact[c] # Absent /\ contact[c].primary /\ contact'[c] = Absent =>
                \E h \in handlers \ handlers' :
                  h.overtaken /\ h.req.op = "delete" /\ h.req.of = c
<1> DEFINE Goal ==
             /\ ServerInv'
             /\ OneStar(contact) /\ ~OneStar(contact') =>
                  \E h \in handlers \ handlers' : h.overtaken /\ MakesPrimary(h.req)
             /\ \A c \in Contacts :
                  contact[c] # Absent /\ contact[c].primary /\ contact'[c] = Absent =>
                    \E h \in handlers \ handlers' :
                      h.overtaken /\ h.req.op = "delete" /\ h.req.of = c
<1>1. ASSUME ServerInv', contact' = contact
      PROVE  Goal
  BY <1>1
<1>2. CASE UNCHANGED serverVars
  <2>1. contact' = contact /\ handlers' = handlers
    BY <1>2 DEF serverVars
  <2>2. ServerInv'
    BY <2>1 DEF ServerInv, ServerTypeOK, OncePerClient, Fresh, OtherPrimaries, Present
  <2> QED BY <1>1, <2>1, <2>2
<1>3. ASSUME NEW m \in Requests, NEW by \in Clients, Load(m, by)
      PROVE  Goal
  BY <1>1, <1>3, Loaded
<1>4. ASSUME NEW h \in handlers, SelectSiblings(h)
      PROVE  Goal
  BY <1>1, <1>4, Selected
<1>5. ASSUME NEW h \in handlers, Dies(h)
      PROVE  Goal
  BY <1>1, <1>5, Died
<1>6. ASSUME NEW h \in handlers, Commit(h)
      PROVE  Goal
  <2>1. ServerInv' /\ h \in handlers \ handlers'
    BY <1>6, Committed
  <2>2. OneStar(contact) /\ ~OneStar(contact') => h.overtaken /\ MakesPrimary(h.req)
    BY <1>6, StarKept
  <2>3. ASSUME NEW c \in Contacts,
               contact[c] # Absent, contact[c].primary, contact'[c] = Absent
        PROVE  h.overtaken /\ h.req.op = "delete" /\ h.req.of = c
    BY <1>6, <2>3, PrimaryTaken
  <2> QED BY <2>1, <2>2, <2>3
<1>7. ASSUME NEW c \in Contacts, LinkUnclaimed(c)
      PROVE  Goal
  BY <1>7, LinkKept
<1> HIDE DEF Goal
<1>8. ServerNext => Goal
  BY <1>3, <1>4, <1>5, <1>6, <1>7 DEF ServerNext
<1>9. ServerNext \/ UNCHANGED serverVars
  OBVIOUS
<1>10. Goal
  BY <1>2, <1>8, <1>9 DEF Goal
<1> QED BY <1>10 DEF Goal

\* At first there is at most the one contact the investor was created with.
LEMMA ServerInitially == ServerInit => ServerInv
<1> SUFFICES ASSUME ServerInit PROVE ServerInv
  OBVIOUS
<1>1. Nobody \in ContactBook
  BY DEF Nobody, ContactBook
<1>2. contact \in ContactBook
  <2>1. CASE contact = Nobody
    BY <1>1, <2>1
  <2>2. ASSUME NEW c \in Contacts,
               contact = [Nobody EXCEPT ![c] = [primary |-> TRUE, linked |-> FALSE]]
        PROVE  contact \in ContactBook
    <3> DEFINE one == [primary |-> TRUE, linked |-> FALSE]
    <3>1. one \in ContactRow
      BY DEF ContactRow
    <3> HIDE DEF one
    <3>2. contact = [Nobody EXCEPT ![c] = one]
      BY <2>2 DEF one
    <3> QED BY <1>1, <3>1, <3>2 DEF ContactBook
  <2> QED BY <2>1, <2>2 DEF ServerInit
<1> QED BY <1>2 DEF ServerInit, ServerInv, ServerTypeOK, OncePerClient

\* However requests of any number of clients overlap, die and fail, a second
\* primary contact is made only by a request that another one's commit overtook.
THEOREM SecondPrimaryTheorem == ServerSpec => SecondPrimaryNeedsOverlap
<1> DEFINE Once == OnePrimary /\ ~OnePrimary' =>
                     \E h \in handlers \ handlers' : h.overtaken /\ MakesPrimary(h.req)
<1>1. ServerInv /\ [ServerNext]_serverVars => ServerInv'
  BY ServerStep
<1>2. (OnePrimary <=> OneStar(contact)) /\ (OnePrimary' <=> OneStar(contact'))
  BY DEF OnePrimary, OneStar, Present
<1>3. ServerInv /\ [ServerNext]_serverVars => [Once]_serverVars
  BY <1>2, ServerStep
<1>4. ServerSpec => [][Once]_serverVars
  BY <1>1, <1>3, ServerInitially, PTL DEF ServerSpec
<1> QED BY <1>4 DEF SecondPrimaryNeedsOverlap

\* And a contact that is primary as it is removed was removed by a request that
\* another one's commit overtook.
THEOREM PrimaryGoneTheorem == ServerSpec => PrimaryGoneNeedsOverlap
<1> DEFINE Stays == \A c \in Present(contact) :
                      contact[c].primary /\ contact'[c] = Absent =>
                        \E h \in handlers \ handlers' :
                          h.overtaken /\ h.req.op = "delete" /\ h.req.of = c
<1>1. ServerInv /\ [ServerNext]_serverVars => ServerInv'
  BY ServerStep
<1>2. ServerInv /\ [ServerNext]_serverVars => [Stays]_serverVars
  BY ServerStep DEF Present
<1>3. ServerSpec => [][Stays]_serverVars
  BY <1>1, <1>2, ServerInitially, PTL DEF ServerSpec
<1> QED BY <1>3 DEF PrimaryGoneNeedsOverlap

-----------------------------------------------------------------------------
(* The drawer                                                              *)

Dialogs ==
  {Closed}
  \cup [kind : {"edit"}, of : Contacts, was : BOOLEAN, linked : BOOLEAN]
  \cup [kind : {"remove", "invite"}, of : Contacts]

ContactTypeOK ==
  /\ contact \in ContactBook
  /\ handlers \subseteq Handlers
  /\ contacts \in [has : BOOLEAN, data : ContactBook, reading : BOOLEAN, stale : BOOLEAN]
  /\ dialog \in Dialogs
  /\ requests \subseteq Requests

\* What the manager does, before any request of it is handled.
Click ==
  \/ \E c \in Contacts : \/ TogglePrimary(c) \/ AddContact(c) \/ EditContact(c)
                         \/ AskToRemove(c) \/ OpenInvite(c)
  \/ OpenAddForm \/ CancelAddForm \/ ChooseLink \/ SaveContact \/ RemoveContact
  \/ InviteFromEditDialog \/ SendInvite \/ CloseDialog

\* A click leaves the server as it is, and what it sends or opens is typed.
LEMMA ClicksTyped ==
  ASSUME ContactTypeOK, Click
  PROVE  ContactTypeOK' /\ UNCHANGED serverVars
<1> USE DEF ContactTypeOK, serverVars
<1>1. ShownContacts \in ContactBook
  BY DEF ShownContacts, Nobody, ContactBook
<1>2. \A d \in Present(ShownContacts) : /\ ShownContacts[d].primary \in BOOLEAN
                                        /\ ShownContacts[d].linked \in BOOLEAN
  BY <1>1 DEF Present, ContactBook, ContactRow
<1>3. ASSUME NEW c \in Contacts, TogglePrimary(c)
      PROVE  ContactTypeOK' /\ UNCHANGED serverVars
  <2>1. [op |-> "star", of |-> c, primary |-> ~ShownContacts[c].primary] \in Requests
    BY DEF Requests
  <2> QED BY <1>3, <2>1 DEF TogglePrimary, Send
<1>4. ASSUME NEW c \in Contacts, AddContact(c)
      PROVE  ContactTypeOK' /\ UNCHANGED serverVars
  <2>1. [op |-> "create", of |-> c, primary |-> Present(ShownContacts) = {}] \in Requests
    BY DEF Requests
  <2> QED BY <1>4, <2>1 DEF AddContact, Send
<1>5. ASSUME NEW c \in Contacts, EditContact(c)
      PROVE  ContactTypeOK' /\ UNCHANGED serverVars
  <2>1. [kind |-> "edit", of |-> c, was |-> ShownContacts[c].linked,
         linked |-> ShownContacts[c].linked] \in Dialogs
    BY <1>2, <1>5 DEF EditContact, Dialogs
  <2> QED BY <1>5, <2>1 DEF EditContact
<1>6. ASSUME NEW c \in Contacts, AskToRemove(c)
      PROVE  ContactTypeOK' /\ UNCHANGED serverVars
  BY <1>6 DEF AskToRemove, Dialogs
<1>7. ASSUME NEW c \in Contacts, OpenInvite(c)
      PROVE  ContactTypeOK' /\ UNCHANGED serverVars
  BY <1>7 DEF OpenInvite, Dialogs
<1>8. CASE OpenAddForm \/ CancelAddForm
  BY <1>8 DEF OpenAddForm, CancelAddForm
<1>9. CASE ChooseLink
  BY <1>9 DEF ChooseLink, Dialogs, Closed
<1>10. CASE SaveContact
  <2>1. /\ dialog.of \in Contacts /\ dialog.linked \in BOOLEAN /\ dialog.was \in BOOLEAN
    BY <1>10 DEF SaveContact, Dialogs, Closed
  <2>2. [op |-> "edit", of |-> dialog.of, linked |-> dialog.linked,
         unlinks |-> dialog.was /\ ~dialog.linked] \in Requests
    BY <2>1 DEF Requests
  <2> QED BY <1>10, <2>2 DEF SaveContact, Send
<1>11. CASE RemoveContact
  BY <1>11 DEF RemoveContact, Send, Dialogs, Closed, Requests
<1>12. CASE InviteFromEditDialog
  BY <1>12 DEF InviteFromEditDialog, Dialogs, Closed
<1>13. CASE SendInvite
  BY <1>13 DEF SendInvite, Send, Dialogs, Closed, Requests
<1>14. CASE CloseDialog
  BY <1>14 DEF CloseDialog, Dialogs
<1> QED
  BY <1>3, <1>4, <1>5, <1>6, <1>7, <1>8, <1>9, <1>10, <1>11, <1>12, <1>13, <1>14
  DEF Click

\* A step of the drawer, or of those who write beside it, is a step of the server
\* or leaves it as it is.
LEMMA DeskStep ==
  ASSUME ServerInv, ContactTypeOK, [ContactNext]_contactVars
  PROVE  [ServerNext]_serverVars /\ ContactTypeOK'
<1>1. CASE Click
  BY <1>1, ClicksTyped
<1>2. ASSUME [ServerNext]_serverVars
      PROVE  contact' \in ContactBook /\ handlers' \subseteq Handlers
  BY <1>2, ServerStep DEF ServerInv, ServerTypeOK
<1>3. ASSUME NEW m \in requests, HandleMutation(m)
      PROVE  [ServerNext]_serverVars /\ ContactTypeOK'
  <2>1. m \in Requests /\ "drawer" \in Clients /\ Load(m, "drawer")
    BY <1>3, ClientsAssumption DEF HandleMutation, ContactTypeOK
  <2>2. ServerNext
    BY <2>1 DEF ServerNext
  <2> QED BY <1>2, <1>3, <2>2 DEF HandleMutation, ContactTypeOK
<1>4. ASSUME NEW m \in Elsewhere, HandleOther(m)
      PROVE  [ServerNext]_serverVars /\ ContactTypeOK'
  <2>1. m \in Requests /\ "elsewhere" \in Clients /\ Load(m, "elsewhere")
    BY <1>4, ClientsAssumption, ElsewhereAssumption DEF HandleOther
  <2>2. ServerNext
    BY <2>1 DEF ServerNext
  <2> QED BY <1>2, <1>4, <2>2 DEF HandleOther, ContactTypeOK
<1>5. ASSUME NEW h \in handlers, SiblingsSelected(h)
      PROVE  [ServerNext]_serverVars /\ ContactTypeOK'
  <2>1. ServerNext
    BY <1>5 DEF SiblingsSelected, ServerNext
  <2> QED BY <1>2, <1>5, <2>1 DEF SiblingsSelected, ContactTypeOK
<1>6. ASSUME NEW h \in handlers, MutationSucceeds(h)
      PROVE  [ServerNext]_serverVars /\ ContactTypeOK'
  <2>1. ServerNext
    BY <1>6 DEF MutationSucceeds, ServerNext
  <2>2. contacts' \in [has : BOOLEAN, data : ContactBook, reading : BOOLEAN, stale : BOOLEAN]
    BY <1>6 DEF MutationSucceeds, Told, ContactTypeOK
  <2>3. dialog' \in Dialogs /\ requests' \subseteq Requests
    BY <1>6 DEF MutationSucceeds, Dialogs, ContactTypeOK
  <2> QED BY <1>2, <2>1, <2>2, <2>3 DEF ContactTypeOK
<1>7. ASSUME NEW h \in handlers, MutationBreaks(h) \/ UnawaitedCommits(h)
      PROVE  [ServerNext]_serverVars /\ ContactTypeOK'
  <2>1. ServerNext
    BY <1>7 DEF MutationBreaks, UnawaitedCommits, ServerNext
  <2> QED BY <1>2, <1>7, <2>1 DEF MutationBreaks, UnawaitedCommits, ContactTypeOK
<1>8. ASSUME NEW m \in requests, MutationRejected(m)
      PROVE  [ServerNext]_serverVars /\ ContactTypeOK'
  BY <1>8 DEF MutationRejected, serverVars, ContactTypeOK
<1>9. ASSUME NEW m \in requests, MutationLost(m)
      PROVE  [ServerNext]_serverVars /\ ContactTypeOK'
  <2>1. [ServerNext]_serverVars
    BY <1>9 DEF MutationLost, Handling, ServerNext
  <2> QED BY <1>2, <1>9, <2>1 DEF MutationLost, ContactTypeOK
<1>10. CASE ContactsAnswered
  BY <1>10 DEF ContactsAnswered, Answered, serverVars, ContactTypeOK
<1>11. CASE ContactsFail \/ Settle
  BY <1>11 DEF ContactsFail, Settle, ReadFailed, serverVars, ContactTypeOK
<1>12. ASSUME NEW c \in Contacts, InvitationAccepted(c)
       PROVE  [ServerNext]_serverVars /\ ContactTypeOK'
  <2>1. ServerNext
    BY <1>12 DEF InvitationAccepted, ServerNext
  <2> QED BY <1>2, <1>12, <2>1 DEF InvitationAccepted, ContactTypeOK
<1>13. CASE UNCHANGED contactVars
  BY <1>13 DEF contactVars, serverVars, ContactTypeOK
<1> QED
  BY <1>1, <1>3, <1>4, <1>5, <1>6, <1>7, <1>8, <1>9, <1>10, <1>11, <1>12, <1>13
  DEF ContactNext, Click

LEMMA DeskInitially == ContactInit => ServerInit /\ ContactTypeOK
<1> SUFFICES ASSUME ContactInit PROVE ServerInit /\ ContactTypeOK
  OBVIOUS
<1>1. ServerInit /\ ServerInv
  BY ServerInitially DEF ContactInit
<1>2. Nobody \in ContactBook
  BY DEF Nobody, ContactBook
<1> QED
  BY <1>1, <1>2
  DEF ContactInit, ServerInv, ServerTypeOK, ContactTypeOK, FirstRead, Mounted, Unread, Dialogs

\* Whatever is clicked, lost and written beside it, what the drawer has the server
\* do is what the server does with anybody's requests.
THEOREM DeskTheorem == ContactSpec => ServerSpec
<1>1. ContactInit => ServerInit /\ ServerInv /\ ContactTypeOK
  BY DeskInitially, ServerInitially
<1>2. ServerInv /\ ContactTypeOK /\ [ContactNext]_contactVars
        => ServerInv' /\ ContactTypeOK' /\ [ServerNext]_serverVars
  BY DeskStep, ServerStep
<1> QED BY <1>1, <1>2, PTL DEF ContactSpec, ServerSpec

-----------------------------------------------------------------------------
(* The register                                                            *)

\* What the server, a drawer's query and a form may hold of investor i.
DetailsOf(i) == {<<i, d>> : d \in Details}

DrawerQuery(i) ==
  [has : BOOLEAN, data : DetailsOf(i) \cup {None}, reading : BOOLEAN, stale : BOOLEAN]

\* A change that is under way.
Saves == UNION {[op : {"save"}, of : {i}, body : DetailsOf(i), here : BOOLEAN] : i \in Investors}
Deletions == [op : {"delete"}, of : Investors, here : BOOLEAN]

\* Every place that holds details holds those of the investor it stands for.
RegisterInv ==
  /\ selected \in Investors \cup {None}
  /\ investors \in [Investors -> (UNION {DetailsOf(i) : i \in Investors}) \cup {None, Gone}]
  /\ \A i \in Investors : investors[i] \in DetailsOf(i) \cup {None, Gone}
  /\ investorQuery \in [Investors -> UNION {DrawerQuery(i) : i \in Investors}]
  /\ \A i \in Investors :
       /\ investorQuery[i] \in DrawerQuery(i)
       /\ investorQuery[i].has => investorQuery[i].data \in DetailsOf(i)
  /\ detailsForm # None => selected # None /\ detailsForm \in DetailsOf(selected)
  /\ changes \subseteq Saves \cup Deletions

\* Opening or closing a drawer starts its form afresh.
LEMMA DrawerMounted ==
  ASSUME RegisterInv, NEW i \in Investors \cup {None}, MountDrawer(i)
  PROVE  /\ selected' \in Investors \cup {None}
         /\ investorQuery' \in [Investors -> UNION {DrawerQuery(j) : j \in Investors}]
         /\ \A j \in Investors :
              /\ investorQuery'[j] \in DrawerQuery(j)
              /\ investorQuery'[j].has => investorQuery'[j].data \in DetailsOf(j)
         /\ detailsForm' = None
         /\ changes' \subseteq Saves \cup Deletions
<1> DEFINE left == {[c EXCEPT !.here = FALSE] : c \in changes}
<1>4. left \subseteq Saves \cup Deletions
  <2>1. ASSUME NEW c \in changes PROVE [c EXCEPT !.here = FALSE] \in Saves \cup Deletions
    <3>1. CASE c \in Deletions
      BY <3>1 DEF Deletions
    <3>2. CASE c \in Saves
      <4>1. PICK j \in Investors :
              c \in [op : {"save"}, of : {j}, body : DetailsOf(j), here : BOOLEAN]
        BY <3>2 DEF Saves
      <4>2. [c EXCEPT !.here = FALSE] \in
              [op : {"save"}, of : {j}, body : DetailsOf(j), here : BOOLEAN]
        BY <4>1
      <4> QED BY <4>2 DEF Saves
    <3> QED BY <3>1, <3>2 DEF RegisterInv
  <2> QED BY <2>1
<1>5. changes' = left
  BY DEF MountDrawer
<1> HIDE DEF left
<1>1. selected' = i /\ detailsForm' = None
  BY DEF MountDrawer
<1>6. changes' \subseteq Saves \cup Deletions
  BY <1>4, <1>5
<1>2. CASE i = None
  <2>1. investorQuery' = investorQuery
    BY <1>2 DEF MountDrawer
  <2> QED BY <1>1, <1>2, <1>6, <2>1 DEF RegisterInv
<1>3. CASE i # None
  <2> DEFINE q == investorQuery[i]
             m == Mounted(q)
  <2>1. i \in Investors /\ q \in DrawerQuery(i) /\ (q.has => q.data \in DetailsOf(i))
    BY <1>3 DEF RegisterInv
  <2>2. m \in DrawerQuery(i) /\ (m.has => m.data \in DetailsOf(i))
    BY <2>1 DEF Mounted, DrawerQuery
  <2>3. investorQuery' = [investorQuery EXCEPT ![i] = m]
    BY <1>3 DEF MountDrawer
  <2> HIDE DEF m
  <2> QED BY <1>1, <1>6, <2>1, <2>2, <2>3 DEF RegisterInv
<1> QED BY <1>2, <1>3

\* An answer, or an invalidation, of one drawer's query.
LEMMA QueryReplaced ==
  ASSUME RegisterInv, NEW i \in Investors, NEW q \in DrawerQuery(i),
         q.has => q.data \in DetailsOf(i),
         investorQuery' = [investorQuery EXCEPT ![i] = q]
  PROVE  /\ investorQuery' \in [Investors -> UNION {DrawerQuery(j) : j \in Investors}]
         /\ \A j \in Investors :
              /\ investorQuery'[j] \in DrawerQuery(j)
              /\ investorQuery'[j].has => investorQuery'[j].data \in DetailsOf(j)
BY DEF RegisterInv

\* The server writes one investor.
LEMMA InvestorReplaced ==
  ASSUME RegisterInv, NEW i \in Investors, NEW v \in DetailsOf(i) \cup {None, Gone},
         investors' = [investors EXCEPT ![i] = v]
  PROVE  /\ investors' \in [Investors -> (UNION {DetailsOf(j) : j \in Investors}) \cup {None, Gone}]
         /\ \A j \in Investors : investors'[j] \in DetailsOf(j) \cup {None, Gone}
BY DEF RegisterInv

\* Every step of the register keeps details with their investor.
LEMMA RegisterStep == RegisterInv /\ [RegisterNext]_registerVars => RegisterInv'
<1> SUFFICES ASSUME RegisterInv, [RegisterNext]_registerVars PROVE RegisterInv'
  OBVIOUS
<1>1. CASE UNCHANGED registerVars
  BY <1>1 DEF registerVars, RegisterInv
<1>2. ASSUME NEW i \in Investors, SelectRow(i)
      PROVE  RegisterInv'
  BY <1>2, DrawerMounted DEF SelectRow, RegisterInv
<1>3. CASE CloseWithoutRow \/ CloseDrawer
  <2>1. MountDrawer(None) /\ investors' = investors
    BY <1>3 DEF CloseWithoutRow, CloseDrawer
  <2> QED BY <2>1, DrawerMounted DEF RegisterInv
<1>4. CASE Hydrate
  BY <1>4 DEF Hydrate, Drawer, RegisterInv
<1>5. ASSUME NEW d \in Details, TypeDetails(d)
      PROVE  RegisterInv'
  <2>1. detailsForm \in DetailsOf(selected) /\ detailsForm' = <<detailsForm[1], d>>
    BY <1>5 DEF TypeDetails, RegisterInv
  <2>2. detailsForm[1] = selected
    BY <2>1 DEF DetailsOf
  <2>3. detailsForm' \in DetailsOf(selected)
    BY <2>1, <2>2 DEF DetailsOf
  <2> QED BY <1>5, <2>3 DEF TypeDetails, RegisterInv
<1>6. CASE DiscardDetails
  BY <1>6 DEF DiscardDetails, Dirty, Drawer, RegisterInv
<1>7. CASE SaveDetails
  <2>1. selected \in Investors /\ detailsForm \in DetailsOf(selected)
    BY <1>7 DEF SaveDetails, Dirty, RegisterInv
  <2> DEFINE c == [op |-> "save", of |-> selected, body |-> detailsForm, here |-> TRUE]
  <2>2. c \in Saves
    BY <2>1 DEF Saves
  <2>3. changes' = changes \cup {c} /\ UNCHANGED <<investors, drawerVars>>
    BY <1>7 DEF SaveDetails, SendChange
  <2> HIDE DEF c
  <2> QED BY <2>2, <2>3 DEF drawerVars, RegisterInv
<1>8. CASE DeleteInvestor
  <2> DEFINE c == [op |-> "delete", of |-> selected, here |-> TRUE]
  <2>1. c \in Deletions
    BY <1>8 DEF DeleteInvestor, Deletions, RegisterInv
  <2>2. changes' = changes \cup {c} /\ UNCHANGED <<investors, drawerVars>>
    BY <1>8 DEF DeleteInvestor, SendChange
  <2> HIDE DEF c
  <2> QED BY <2>1, <2>2 DEF drawerVars, RegisterInv
<1>9. ASSUME NEW c \in changes, SaveSucceeds(c)
      PROVE  RegisterInv'
  <2> DEFINE i == c.of
             q == Invalidated(investorQuery[i], selected = i)
  <2>1. i \in Investors /\ c.body \in DetailsOf(i)
    <3>1. c \in Saves
      BY <1>9 DEF SaveSucceeds, RegisterInv, Deletions
    <3> QED BY <3>1 DEF Saves
  <2>2. q \in DrawerQuery(i) /\ (q.has => q.data \in DetailsOf(i))
    BY <2>1 DEF RegisterInv, DrawerQuery, Invalidated, Told
  <2>3. investorQuery' = [investorQuery EXCEPT ![i] = q]
        /\ investors' = [investors EXCEPT ![i] = c.body]
        /\ changes' = changes \ {c} /\ UNCHANGED <<selected, detailsForm>>
    BY <1>9 DEF SaveSucceeds
  <2> HIDE DEF q
  <2> QED BY <2>1, <2>2, <2>3, QueryReplaced, InvestorReplaced DEF RegisterInv
<1>10. ASSUME NEW c \in changes, DeleteSucceeds(c)
       PROVE  RegisterInv'
  <2>1. c.of \in Investors /\ investors' = [investors EXCEPT ![c.of] = Gone]
        /\ changes' = changes \ {c}
    BY <1>10 DEF DeleteSucceeds, ExistingInvestors
  <2> QED BY <1>10, <2>1, InvestorReplaced DEF DeleteSucceeds, drawerVars, RegisterInv
<1>11. ASSUME NEW c \in changes, ChangeFails(c)
       PROVE  RegisterInv'
  BY <1>11 DEF ChangeFails, drawerVars, RegisterInv
<1>12. CASE OpenInvestorCreate \/ CloseInvestorCreate \/ SubmitInvestorCreate
            \/ InvestorNotCreated
  BY <1>12 DEF OpenInvestorCreate, CloseInvestorCreate, SubmitInvestorCreate,
               InvestorNotCreated, drawerVars, RegisterInv
<1>13. ASSUME NEW i \in Investors, InvestorCreated(i)
       PROVE  RegisterInv'
  <2>1. PICK d \in Details : investors' = [investors EXCEPT ![i] = <<i, d>>]
    BY <1>13 DEF InvestorCreated
  <2>2. MountDrawer(i)
    BY <1>13 DEF InvestorCreated
  <2>3. <<i, d>> \in DetailsOf(i)
    BY DEF DetailsOf
  <2> QED BY <2>1, <2>2, <2>3, DrawerMounted, InvestorReplaced DEF RegisterInv
<1>14. CASE ListAnswered \/ ListFails
  BY <1>14 DEF ListAnswered, ListFails, drawerVars, RegisterInv
<1>15. ASSUME NEW i \in Investors, InvestorAnswered(i)
       PROVE  RegisterInv'
  <2> DEFINE q == IF i \in ExistingInvestors THEN Answered(investors[i])
                                             ELSE ReadFailed(investorQuery[i])
  <2>1. q \in DrawerQuery(i) /\ (q.has => q.data \in DetailsOf(i))
    BY DEF RegisterInv, ExistingInvestors, DrawerQuery, Answered, ReadFailed
  <2>2. investorQuery' = [investorQuery EXCEPT ![i] = q]
        /\ UNCHANGED <<investors, selected, detailsForm, changes>>
    BY <1>15 DEF InvestorAnswered
  <2> HIDE DEF q
  <2> QED BY <2>1, <2>2, QueryReplaced DEF RegisterInv
<1>16. ASSUME NEW i \in Investors, NEW d \in Details \cup {Gone},
              InvestorWrittenElsewhere(i, d)
       PROVE  RegisterInv'
  <2> DEFINE v == IF d = Gone THEN Gone ELSE <<i, d>>
  <2>1. v \in DetailsOf(i) \cup {None, Gone}
    BY DEF DetailsOf
  <2>2. investors' = [investors EXCEPT ![i] = v]
        /\ UNCHANGED <<selected, investorQuery, detailsForm, changes>>
    BY <1>16 DEF InvestorWrittenElsewhere, drawerVars
  <2> HIDE DEF v
  <2> QED BY <2>1, <2>2, InvestorReplaced DEF RegisterInv
<1> QED
  BY <1>1, <1>2, <1>3, <1>4, <1>5, <1>6, <1>7, <1>8, <1>9, <1>10, <1>11, <1>12,
     <1>13, <1>14, <1>15, <1>16
  DEF RegisterNext

\* The register as the page loads: nothing is read, no form is filled.
LEMMA RegisterInitially == RegisterInit => RegisterInv
<1> SUFFICES ASSUME RegisterInit PROVE RegisterInv
  OBVIOUS
<1>1. PICK E \in SUBSET Investors, d \in Details :
        investors = [i \in Investors |-> IF i \in E THEN <<i, d>> ELSE None]
  BY DEF RegisterInit
<1>2. \A i \in Investors : investors[i] \in DetailsOf(i) \cup {None, Gone}
  BY <1>1 DEF DetailsOf
<1>3. \A i \in Investors : Unread(None) \in DrawerQuery(i) /\ ~Unread(None).has
  BY DEF Unread, DrawerQuery
<1> QED BY <1>1, <1>2, <1>3 DEF RegisterInit, RegisterInv

\* However drawers are opened, closed, typed into and answered, and whoever
\* else writes, no investor ever gets the details of another one.
THEOREM DetailsTheorem == RegisterSpec => []DetailsStayTheirOwn
<1>1. RegisterInv => DetailsStayTheirOwn
  BY DEF RegisterInv, DetailsStayTheirOwn, ExistingInvestors, DetailsOf
<1> QED BY <1>1, RegisterInitially, RegisterStep, PTL DEF RegisterSpec
=============================================================================
