------------------------- MODULE Invitations_proofs -------------------------
(***************************************************************************)
(* Theorems about Invitations, for every set of invitations and requests.  *)
(***************************************************************************)
EXTENDS Invitations, TLAPS

\* What a request holds: nothing, or the invitation it has found.
Stages == {"expire", "revoke", "mark", "link", "membership", "insert", "update",
           "rotate", "refresh", "mail"}
Busy == [pc : Stages, inv : Invitations, rotation : Nat, seen : Nat]
Slot == {Idle} \cup Busy

\* AcceptedIsMember is not inductive: a request about to mark a staff invitation
\* has seen to the membership already.
MemberInv ==
  /\ invStatus \in [Invitations -> {"none", "pending", "accepted", "revoked", "expired"}]
  /\ invRole \in [Invitations -> Roles \cup {"none"}]
  /\ version \in [Invitations -> Nat]
  /\ member \in Roles \cup {"none"}
  /\ req \in [Requests -> Slot]
  /\ \A i \in Invitations : invStatus[i] # "none" => invRole[i] \in Roles
  /\ \A r \in Requests : ~At(r, "idle") => invStatus[req[r].inv] # "none"
  /\ \A r \in Requests : At(r, "mark") /\ invRole[req[r].inv] \in StaffRoles
       => member # "none"
  /\ AcceptedIsMember

\* A busy request that moves on keeps its invitation.
LEMMA Moved ==
  ASSUME NEW s \in Slot, s.pc # "idle", NEW pc \in Stages
  PROVE  /\ s.inv \in Invitations
         /\ [s EXCEPT !.pc = pc] \in Slot
         /\ [s EXCEPT !.pc = pc].pc = pc
         /\ [s EXCEPT !.pc = pc].inv = s.inv
<1>1. s \in Busy
  BY DEF Slot, Idle
<1> QED BY <1>1 DEF Busy, Slot

\* A step of request r, which leaves it at s, keeps MemberInv: it unmakes no
\* invitation and no member, and marks and starts to mark no staff invitation
\* of somebody who is none.
LEMMA RequestStep ==
  ASSUME MemberInv, NEW r \in Requests, NEW s \in Slot,
         req' = [req EXCEPT ![r] = s],
         invRole' = invRole, version' \in [Invitations -> Nat],
         invStatus' \in [Invitations -> {"none", "pending", "accepted", "revoked", "expired"}],
         \A i \in Invitations : invStatus'[i] = "none" <=> invStatus[i] = "none",
         member' \in Roles \cup {"none"}, member # "none" => member' # "none",
         s.pc # "idle" => s.inv \in Invitations /\ invStatus[s.inv] # "none",
         s.pc = "mark" /\ invRole[s.inv] \in StaffRoles => member' # "none",
         \A i \in Invitations : invStatus'[i] = "accepted" /\ invStatus[i] # "accepted"
           => (invRole[i] \in StaffRoles => member' # "none")
  PROVE  MemberInv'
<1>1. \A q \in Requests : req'[q] = IF q = r THEN s ELSE req[q]
  BY DEF MemberInv
<1>2. req' \in [Requests -> Slot]
  BY DEF MemberInv
<1>3. \A q \in Requests : ~At(q, "idle") => req[q].inv \in Invitations
  BY DEF MemberInv, Slot, Busy, At, Idle
<1>4. \A q \in Requests : ~At(q, "idle")' => invStatus'[req'[q].inv] # "none"
  BY <1>1, <1>3 DEF MemberInv, At
<1>5. \A q \in Requests : At(q, "mark")' /\ invRole'[req'[q].inv] \in StaffRoles
        => member' # "none"
  BY <1>1 DEF MemberInv, At
<1>6. AcceptedIsMember'
  BY DEF MemberInv, AcceptedIsMember
<1> QED BY <1>2, <1>4, <1>5, <1>6 DEF MemberInv

\* An accepted staff invitation has made its invitee a member, for any number
\* of invitations of one person and any number of requests, wherever they die.
THEOREM MemberTheorem == Spec => []AcceptedIsMember
<1>1. Init => MemberInv
  BY DEF Init, MemberInv, At, Idle, Slot, AcceptedIsMember
<1>2. MemberInv /\ [Next]_vars => MemberInv'
  <2> SUFFICES ASSUME MemberInv, [Next]_vars PROVE MemberInv'
    OBVIOUS
  <2>1. Idle \in Slot /\ Idle.pc = "idle"
    BY DEF Slot, Idle
  <2>2. ASSUME NEW r \in Requests, req[r].pc # "idle"
        PROVE  /\ req[r] \in Busy /\ req[r].inv \in Invitations
               /\ invStatus[req[r].inv] # "none"
               /\ invRole[req[r].inv] \in Roles
    BY <2>2 DEF MemberInv, At, Idle, Slot, Busy
  <2>3. ASSUME NEW r \in Requests, req[r].pc # "idle", NEW pc \in Stages
        PROVE  /\ [req[r] EXCEPT !.pc = pc] \in Slot
               /\ [req[r] EXCEPT !.pc = pc].pc = pc
               /\ [req[r] EXCEPT !.pc = pc].inv = req[r].inv
    BY <2>3, Moved DEF MemberInv
  <2>4. \A r \in Requests, pc \in Stages :
          Goto(r, pc) <=> req' = [req EXCEPT ![r] = [req[r] EXCEPT !.pc = pc]]
    BY DEF Goto
  <2>5. ASSUME NEW r \in Requests, NEW i \in Invitations, NEW role \in Roles,
               Create(r, i, role)
        PROVE  MemberInv'
    <3> DEFINE s == [pc |-> "refresh", inv |-> i, rotation |-> 0, seen |-> 0]
    <3>1. s \in Slot /\ s.pc = "refresh" /\ s.inv = i
      BY DEF Slot, Busy, Stages
    <3>2. /\ invStatus[i] = "none" /\ req' = [req EXCEPT ![r] = s]
          /\ invStatus' = [invStatus EXCEPT ![i] = "pending"]
          /\ invRole' = [invRole EXCEPT ![i] = role]
          /\ UNCHANGED <<version, member>>
      BY <2>5 DEF Create
    <3> HIDE DEF s
    <3>3. \A q \in Requests : q # r /\ ~At(q, "idle") => req[q].inv \in Invitations \ {i}
      BY <3>2 DEF MemberInv, At, Slot, Busy, Idle
    <3>4. \A q \in Requests : req'[q] = IF q = r THEN s ELSE req[q]
      BY <3>2 DEF MemberInv
    <3>5. req' \in [Requests -> Slot]
      BY <3>1, <3>2 DEF MemberInv
    <3>6. \A q \in Requests : ~At(q, "idle")' => invStatus'[req'[q].inv] # "none"
      BY <3>1, <3>2, <3>3, <3>4 DEF MemberInv, At
    <3>7. \A q \in Requests : At(q, "mark")' /\ invRole'[req'[q].inv] \in StaffRoles
            => member' # "none"
      BY <3>1, <3>2, <3>3, <3>4 DEF MemberInv, At
    <3>8. AcceptedIsMember'
      BY <3>2 DEF MemberInv, AcceptedIsMember
    <3> QED BY <3>2, <3>5, <3>6, <3>7, <3>8, RolesAssumption DEF MemberInv, Roles
  <2>6. ASSUME NEW i \in Invitations, Expire(i) PROVE MemberInv'
    BY <2>6 DEF MemberInv, Expire, At, AcceptedIsMember
  <2>7. ASSUME NEW i \in Invitations, NEW r \in Requests,
               NEW pc \in {"expire", "revoke", "mark", "membership", "rotate"},
               Start(r, i, pc), pc = "mark" => invRole[i] \notin StaffRoles
        PROVE  MemberInv'
    <3> DEFINE s == [pc |-> pc, inv |-> i, rotation |-> 0, seen |-> 0]
    <3>1. s \in Slot /\ s.pc = pc /\ s.inv = i /\ invStatus[i] = "pending"
      BY <2>7 DEF Slot, Busy, Stages, Start
    <3>2. /\ req' = [req EXCEPT ![r] = s]
          /\ UNCHANGED <<invRole, invStatus, version, member>>
      BY <2>7 DEF Start
    <3> HIDE DEF s
    <3> QED BY <2>7, <3>1, <3>2, RequestStep DEF MemberInv
  <2>8. ASSUME NEW i \in Invitations, NEW r \in Requests, StartAccept(r, i)
        PROVE  MemberInv'
    BY <2>7, <2>8, RolesAssumption DEF StartAccept
  <2>9. ASSUME NEW r \in Requests, MarkExpired(r) \/ MarkRevoked(r) PROVE MemberInv'
    BY <2>1, <2>2, <2>9, RequestStep
    DEF MemberInv, MarkExpired, MarkRevoked, Leave, At
  <2>10. ASSUME NEW r \in Requests, MarkAccepted(r) PROVE MemberInv'
    <3>1. "link" \in Stages /\ req[r].pc = "mark"
      BY <2>10 DEF Stages, MarkAccepted, At
    <3> DEFINE s == [req[r] EXCEPT !.pc = "link"]
    <3>2. s \in Slot /\ s.pc = "link" /\ s.inv = req[r].inv
      BY <2>3, <3>1
    <3>3. /\ req' = [req EXCEPT ![r] = s]
          /\ invStatus' = [invStatus EXCEPT ![req[r].inv] = "accepted"]
          /\ UNCHANGED <<invRole, version, member>>
      BY <2>4, <2>10, <3>1 DEF MarkAccepted
    <3>4. /\ req[r].inv \in Invitations /\ invStatus[req[r].inv] # "none"
          /\ invRole[req[r].inv] \in StaffRoles => member # "none"
      BY <2>2, <3>1 DEF MemberInv, At
    <3> HIDE DEF s
    <3> QED BY <3>2, <3>3, <3>4, RequestStep DEF MemberInv
  <2>11. ASSUME NEW r \in Requests, FindMembership(r) PROVE MemberInv'
    <3>1. PICK pc \in {"insert", "update", "mark"} :
            Goto(r, pc) /\ (pc = "mark" => member # "none")
      BY <2>11 DEF FindMembership
    <3>2. pc \in Stages /\ req[r].pc = "membership"
      BY <2>11 DEF Stages, FindMembership, At
    <3>3. UNCHANGED <<invRole, invStatus, version, member>>
      BY <2>11 DEF FindMembership
    <3> DEFINE s == [req[r] EXCEPT !.pc = pc]
    <3>4. s \in Slot /\ s.pc = pc /\ s.inv = req[r].inv
      BY <2>3, <3>2
    <3>5. req' = [req EXCEPT ![r] = s]
      BY <2>4, <3>1, <3>2
    <3>6. s.inv \in Invitations /\ invStatus[s.inv] # "none"
      BY <2>2, <3>2, <3>4
    <3> HIDE DEF s
    <3> QED BY <3>1, <3>3, <3>4, <3>5, <3>6, RequestStep DEF MemberInv
  <2>12. ASSUME NEW r \in Requests, WriteMembership(r) PROVE MemberInv'
    <3>1. "mark" \in Stages /\ req[r].pc \in {"insert", "update"}
      BY <2>12 DEF Stages, WriteMembership, At
    <3>2. UNCHANGED <<invRole, invStatus, version>>
      BY <2>12 DEF WriteMembership
    <3>3. CASE Leave(r) /\ UNCHANGED member
      BY <2>1, <3>2, <3>3, RequestStep DEF MemberInv, Leave
    <3>4. CASE member' = invRole[req[r].inv] /\ Goto(r, "mark")
      <4>1. member' \in Roles /\ member' # "none"
        BY <2>2, <3>1, <3>4, RolesAssumption DEF Roles
      <4> DEFINE s == [req[r] EXCEPT !.pc = "mark"]
      <4>2. s \in Slot /\ s.inv = req[r].inv
        BY <2>3, <3>1
      <4>3. req' = [req EXCEPT ![r] = s]
        BY <2>4, <3>1, <3>4
      <4>4. s.inv \in Invitations /\ invStatus[s.inv] # "none"
        BY <2>2, <3>1, <4>2
      <4> HIDE DEF s
      <4> QED BY <3>2, <4>1, <4>2, <4>3, <4>4, RequestStep DEF MemberInv
    <3> QED BY <2>12, <3>3, <3>4 DEF WriteMembership
  <2>13. ASSUME NEW r \in Requests, LinkUnclaimed(r) \/ AskForMail(r) \/ Fail(r)
         PROVE  MemberInv'
    <3>1. /\ req' = [req EXCEPT ![r] = Idle]
          /\ UNCHANGED <<invRole, invStatus, version>>
          /\ member' = member
      BY <2>13 DEF LinkUnclaimed, AskForMail, Fail, Leave
    <3> QED BY <2>1, <3>1, RequestStep DEF MemberInv
  <2>14. ASSUME NEW r \in Requests, RotateToken(r) PROVE MemberInv'
    <3> DEFINE i == req[r].inv
               s == [req[r] EXCEPT !.pc = "refresh", !.rotation = version[i] + 1]
    <3>1. req[r].pc = "rotate"
      BY <2>14 DEF RotateToken, At
    <3>2. req[r] \in Busy /\ version[i] + 1 \in Nat /\ i \in Invitations
          /\ invStatus[i] # "none"
      BY <2>2, <3>1 DEF MemberInv
    <3>3. s \in Slot /\ s.pc = "refresh" /\ s.inv = i
      BY <3>2 DEF Slot, Busy, Stages
    <3>4. /\ req' = [req EXCEPT ![r] = s]
          /\ version' \in [Invitations -> Nat]
          /\ UNCHANGED <<invRole, invStatus, member>>
      BY <2>14, <3>2 DEF RotateToken, MemberInv
    <3> HIDE DEF s, i
    <3> QED BY <3>2, <3>3, <3>4, RequestStep DEF MemberInv
  <2>15. ASSUME NEW r \in Requests, Refresh(r) PROVE MemberInv'
    <3> DEFINE i == req[r].inv
               s == [req[r] EXCEPT !.pc = "mail", !.seen = version[i]]
    <3>1. req[r].pc = "refresh"
      BY <2>15 DEF Refresh, At
    <3>2. req[r] \in Busy /\ version[i] \in Nat /\ i \in Invitations
          /\ invStatus[i] # "none"
      BY <2>2, <3>1 DEF MemberInv
    <3>3. s \in Slot /\ s.pc = "mail" /\ s.inv = i
      BY <3>2 DEF Slot, Busy, Stages
    <3>4. /\ req' = [req EXCEPT ![r] = s]
          /\ UNCHANGED <<invRole, invStatus, member, version>>
      BY <2>15 DEF Refresh
    <3> HIDE DEF s, i
    <3> QED BY <3>2, <3>3, <3>4, RequestStep DEF MemberInv
  <2>16. ASSUME NEW role \in Roles, UpdateUserRole(role) PROVE MemberInv'
    BY <2>16, RolesAssumption DEF MemberInv, UpdateUserRole, At, AcceptedIsMember, Roles
  <2>17. CASE UNCHANGED vars
    BY <2>17 DEF MemberInv, vars, At, AcceptedIsMember
  <2> QED
    BY <2>5, <2>6, <2>7, <2>8, <2>9, <2>10, <2>11, <2>12, <2>13, <2>14, <2>15, <2>16, <2>17
    DEF Next
<1>3. MemberInv => AcceptedIsMember
  BY DEF MemberInv
<1> QED BY <1>1, <1>2, <1>3, PTL DEF Spec

-----------------------------------------------------------------------------
(* The mails with the tokens.                                              *)

\* Rotation n of i (0 is the creation) is not forgotten: its mail was lost, is
\* yet to be asked for, or was asked for with the token of then or a later one.
Accounted(i, n) ==
  \/ <<i, n>> \in unasked
  \/ \E r \in Requests : /\ At(r, "refresh") \/ At(r, "mail")
                         /\ req[r].inv = i /\ req[r].rotation = n
  \/ \E a \in asked : a.inv = i /\ a.rotation = n /\ n <= a.token /\ a.token <= version[i]

\* CurrentTokenIsAsked speaks of the last rotation only; every rotation has to
\* be accounted for, as any of them may be overtaken.
TokenInv ==
  /\ TypeOK
  /\ req \in [Requests -> Slot]
  /\ \A r \in Requests : At(r, "mail") => req[r].rotation <= req[r].seen
  /\ \A i \in Invitations : invStatus[i] = "none" => version[i] = 0
  /\ \A i \in Invitations : \A n \in 0 .. version[i] :
       invStatus[i] # "none" => Accounted(i, n)

\* What is accounted for stays so while the mails and the requests that ask
\* for them stay.
LEMMA AccountedStays ==
  ASSUME NEW i, NEW n, Accounted(i, n),
         version[i] \in Nat, version'[i] \in Nat, version[i] <= version'[i],
         \A a \in asked : a.token \in Nat,
         unasked \subseteq unasked', asked \subseteq asked',
         \A r \in Requests : At(r, "refresh") \/ At(r, "mail") => req'[r] = req[r]
  PROVE  Accounted(i, n)'
BY DEF Accounted, At

\* A step of request r that concerns no mail.
LEMMA MailUntouched ==
  ASSUME TokenInv, NEW r \in Requests, NEW s \in Slot,
         ~At(r, "refresh"), ~At(r, "mail"), s.pc \notin {"refresh", "mail"},
         req' = [req EXCEPT ![r] = s],
         s.pc # "idle" => /\ invStatus[s.inv] # "none"
                          /\ s.seen <= version[s.inv] /\ s.rotation <= version[s.inv],
         invStatus' \in [Invitations -> {"none", "pending", "accepted", "revoked", "expired"}],
         \A i \in Invitations : invStatus'[i] = "none" <=> invStatus[i] = "none",
         member' \in Roles \cup {"none"}, linked' \in BOOLEAN,
         UNCHANGED <<invRole, version, late, asked, unasked>>
  PROVE  TokenInv'
<1>1. \A q \in Requests : req'[q] = IF q = r THEN s ELSE req[q]
  BY DEF TokenInv
<1>2. req' \in [Requests -> Slot]
  BY DEF TokenInv
<1>3. \A q \in Requests : At(q, "idle") \/ req[q].inv \in Invitations
  BY DEF TokenInv, At, Slot, Busy, Idle
<1>4. s.pc = "idle" \/ (s.pc \in Stages /\ s.inv \in Invitations)
  BY DEF Slot, Busy, Idle
<1>5. ASSUME NEW q \in Requests
      PROVE  At(q, "idle")' \/
               /\ req'[q].pc \in Stages
               /\ invStatus'[req'[q].inv] # "none"
               /\ req'[q].seen <= version'[req'[q].inv]
               /\ req'[q].rotation <= version'[req'[q].inv]
  <2>1. CASE q = r
    BY <1>1, <1>4, <2>1 DEF At
  <2>2. CASE q # r
    BY <1>1, <1>3, <2>2 DEF TokenInv, TypeOK, At, Stages
  <2> QED BY <2>1, <2>2
<1>6. TypeOK'
  BY <1>5 DEF TokenInv, TypeOK, Stages
<1>7. \A q \in Requests : At(q, "mail")' => req'[q].rotation <= req'[q].seen
  BY <1>1 DEF TokenInv, At
<1>8. ASSUME NEW i \in Invitations, NEW n \in 0 .. version'[i], invStatus'[i] # "none"
      PROVE  Accounted(i, n)'
  <2>1. Accounted(i, n) /\ version[i] \in Nat /\ version' = version
    BY <1>8 DEF TokenInv, TypeOK
  <2>2. \A a \in asked : a.token \in Nat
    BY DEF TokenInv, TypeOK
  <2>3. \A q \in Requests : At(q, "refresh") \/ At(q, "mail") => req'[q] = req[q]
    BY <1>1
  <2>4. unasked \subseteq unasked' /\ asked \subseteq asked'
    OBVIOUS
  <2> QED BY <2>1, <2>2, <2>3, <2>4, AccountedStays
<1> QED BY <1>2, <1>6, <1>7, <1>8 DEF TokenInv

\* A step that leaves requests, tokens and mails alone, and unmakes nothing.
LEMMA RequestsUntouched ==
  ASSUME TokenInv, UNCHANGED <<invRole, version, req, asked, unasked>>,
         invStatus' = invStatus, late' \in [Invitations -> BOOLEAN],
         member' \in Roles \cup {"none"}, linked' = linked
  PROVE  TokenInv'
<1>1. TypeOK'
  BY DEF TokenInv, TypeOK, At
<1>2. \A i, n : Accounted(i, n)' <=> Accounted(i, n)
  BY DEF Accounted, At
<1> QED BY <1>1, <1>2 DEF TokenInv, At

\* The mail of rotation 0 is accounted for by the request that creates the
\* invitation.
LEMMA CreateAccounted ==
  ASSUME TokenInv, NEW r \in Requests, NEW i \in Invitations, NEW role \in Roles,
         Create(r, i, role)
  PROVE  TokenInv'
<1> DEFINE s == [pc |-> "refresh", inv |-> i, rotation |-> 0, seen |-> 0]
<1>1. /\ s \in Slot /\ s.pc = "refresh" /\ s.inv = i /\ s.rotation = 0 /\ s.seen = 0
      /\ s.pc # "idle" /\ s.pc # "mail"
  BY DEF Slot, Busy, Stages
<1>2. /\ invStatus[i] = "none" /\ version[i] = 0 /\ req' = [req EXCEPT ![r] = s]
      /\ req[r].pc = "idle"
      /\ invStatus' = [invStatus EXCEPT ![i] = "pending"]
      /\ invRole' = [invRole EXCEPT ![i] = role]
      /\ UNCHANGED <<version, late, member, linked, asked, unasked>>
  BY DEF Create, TokenInv, At
<1> HIDE DEF s
<1>3. \A q \in Requests : req'[q] = IF q = r THEN s ELSE req[q]
  BY <1>2 DEF TokenInv
<1>4. \A q \in Requests : q # r /\ ~At(q, "idle") => req[q].inv \in Invitations \ {i}
  BY <1>2 DEF TokenInv, TypeOK, At, Slot, Busy, Idle
<1>5. req' \in [Requests -> Slot]
  BY <1>1, <1>2 DEF TokenInv
<1>6. ASSUME NEW q \in Requests
      PROVE  At(q, "idle")' \/
               /\ req'[q].pc \in Stages
               /\ invStatus'[req'[q].inv] # "none"
               /\ req'[q].seen <= version'[req'[q].inv]
               /\ req'[q].rotation <= version'[req'[q].inv]
  <2>1. CASE q = r
    <3>1. req'[q] = s /\ version'[i] = 0 /\ invStatus'[i] = "pending" /\ s.pc \in Stages
      BY <1>1, <1>2, <1>3, <2>1 DEF TokenInv, TypeOK, Stages
    <3> QED BY <1>1, <3>1
  <2>2. CASE q # r
    BY <1>2, <1>3, <1>4, <2>2 DEF TokenInv, TypeOK, At, Stages
  <2> QED BY <2>1, <2>2
<1>7. TypeOK'
  BY <1>2, <1>6 DEF TokenInv, TypeOK, Stages, At
<1>8. \A q \in Requests : At(q, "mail")' => req'[q].rotation <= req'[q].seen
  BY <1>1, <1>3 DEF TokenInv, At
<1>9. ASSUME NEW j \in Invitations, NEW n \in 0 .. version'[j], invStatus'[j] # "none"
      PROVE  Accounted(j, n)'
  <2>1. CASE j = i
    <3>1. n = 0 /\ req'[r] = s
      BY <1>2, <1>3, <1>9, <2>1
    <3>2. At(r, "refresh")' /\ req'[r].inv = j /\ req'[r].rotation = n
      BY <1>1, <2>1, <3>1 DEF At
    <3> QED BY <3>2 DEF Accounted
  <2>2. CASE j # i
    <3>1. Accounted(j, n) /\ version[j] \in Nat
      BY <1>2, <1>9, <2>2 DEF TokenInv, TypeOK
    <3>2. \A a \in asked : a.token \in Nat
      BY DEF TokenInv, TypeOK
    <3>3. \A q \in Requests : At(q, "refresh") \/ At(q, "mail") => req'[q] = req[q]
      BY <1>2, <1>3 DEF At
    <3>4. unasked \subseteq unasked' /\ asked \subseteq asked' /\ version'[j] = version[j]
      BY <1>2
    <3> QED BY <3>1, <3>2, <3>3, <3>4, AccountedStays
  <2> QED BY <2>1, <2>2
<1>10. \A j \in Invitations : invStatus'[j] = "none" => version'[j] = 0
  BY <1>2 DEF TokenInv, TypeOK
<1> QED BY <1>5, <1>7, <1>8, <1>9, <1>10 DEF TokenInv

\* A rotation is accounted for by the request that makes it.
LEMMA RotateAccounted ==
  ASSUME TokenInv, NEW r \in Requests, RotateToken(r)
  PROVE  TokenInv'
<1> DEFINE i == req[r].inv
           s == [req[r] EXCEPT !.pc = "refresh", !.rotation = version[i] + 1]
<1>1. At(r, "rotate") /\ version[i] < MaxVersion
      /\ version' = [version EXCEPT ![i] = version[i] + 1]
      /\ req' = [req EXCEPT ![r] = s]
      /\ UNCHANGED <<invStatus, invRole, late, member, linked, asked, unasked>>
  BY DEF RotateToken
<1>2. /\ req[r] \in Busy /\ i \in Invitations /\ version[i] \in 0 .. MaxVersion
      /\ invStatus[i] # "none" /\ req[r].seen <= version[i]
  BY <1>1 DEF TokenInv, TypeOK, At, Slot, Busy, Idle
<1>3. /\ s \in Slot /\ s.pc = "refresh" /\ s.inv = i
      /\ s.rotation = version[i] + 1 /\ s.seen = req[r].seen
  <2>1. version[i] + 1 \in Nat /\ req[r] \in Busy
    BY <1>2, VersionAssumption
  <2> QED BY <2>1 DEF Slot, Busy, Stages
<1>4. req[r].seen \in Nat
  BY <1>2 DEF Busy
<1> HIDE DEF s, i
<1>5. /\ req' \in [Requests -> Slot]
      /\ \A q \in Requests : req'[q] = IF q = r THEN s ELSE req[q]
  BY <1>1, <1>3 DEF TokenInv
<1>6. /\ version' \in [Invitations -> 0 .. MaxVersion]
      /\ \A j \in Invitations : version'[j] = IF j = i THEN version[i] + 1 ELSE version[j]
  BY <1>1, <1>2, VersionAssumption DEF TokenInv, TypeOK
<1>7. \A j \in Invitations : version[j] \in Nat /\ version'[j] \in Nat /\ version[j] <= version'[j]
  BY <1>6 DEF TokenInv, TypeOK
<1>8. ASSUME NEW q \in Requests
      PROVE  At(q, "idle")' \/
               /\ req'[q].pc \in Stages
               /\ invStatus'[req'[q].inv] # "none"
               /\ req'[q].seen <= version'[req'[q].inv]
               /\ req'[q].rotation <= version'[req'[q].inv]
  <2>1. CASE q = r
    BY <1>1, <1>2, <1>3, <1>4, <1>5, <1>6, <1>7, <2>1 DEF Stages
  <2>2. CASE q # r
    <3>1. At(q, "idle") \/ (/\ req[q].inv \in Invitations /\ req[q].seen \in Nat
                            /\ req[q].rotation \in Nat)
      BY DEF TokenInv, At, Slot, Busy, Idle
    <3>2. At(q, "idle") \/ /\ req[q].pc \in Stages
                           /\ invStatus[req[q].inv] # "none"
                           /\ req[q].seen <= version[req[q].inv]
                           /\ req[q].rotation <= version[req[q].inv]
      BY DEF TokenInv, TypeOK, Stages
    <3> QED BY <1>1, <1>5, <1>7, <2>2, <3>1, <3>2 DEF At
  <2> QED BY <2>1, <2>2
<1>9. TypeOK'
  BY <1>1, <1>6, <1>8 DEF TokenInv, TypeOK, Stages
<1>10. \A q \in Requests : At(q, "mail")' => req'[q].rotation <= req'[q].seen
  BY <1>3, <1>5 DEF TokenInv, At
<1>11. \A j \in Invitations : invStatus'[j] = "none" => version'[j] = 0
  BY <1>1, <1>2, <1>6 DEF TokenInv
<1>12. ASSUME NEW j \in Invitations, NEW n \in 0 .. version'[j], invStatus'[j] # "none"
       PROVE  Accounted(j, n)'
  <2>1. CASE j = i /\ n = version[i] + 1
    BY <1>3, <1>5, <2>1 DEF Accounted, At
  <2>2. CASE ~(j = i /\ n = version[i] + 1)
    <3>1. n \in 0 .. version[j]
      BY <1>2, <1>6, <1>7, <1>12, <2>2
    <3>2. Accounted(j, n)
      BY <1>1, <1>12, <3>1 DEF TokenInv
    <3>3. \A a \in asked : a.token \in Nat
      BY DEF TokenInv, TypeOK
    <3>4. \A q \in Requests : At(q, "refresh") \/ At(q, "mail") => req'[q] = req[q]
      BY <1>1, <1>5 DEF At
    <3>5. asked' = asked /\ unasked' = unasked
      BY <1>1
    <3> QED BY <1>7, <3>2, <3>3, <3>4, <3>5, AccountedStays
  <2> QED BY <2>1, <2>2
<1> QED BY <1>5, <1>9, <1>10, <1>11, <1>12 DEF TokenInv

\* The row read back carries the token of the rotation or a later one.
LEMMA RefreshAccounted ==
  ASSUME TokenInv, NEW r \in Requests, Refresh(r)
  PROVE  TokenInv'
<1> DEFINE i == req[r].inv
           s == [req[r] EXCEPT !.pc = "mail", !.seen = version[i]]
<1>1. At(r, "refresh") /\ req' = [req EXCEPT ![r] = s]
      /\ UNCHANGED <<invStatus, invRole, version, late, member, linked, asked, unasked>>
  BY DEF Refresh
<1>2. /\ req[r] \in Busy /\ i \in Invitations /\ version[i] \in 0 .. MaxVersion
      /\ invStatus[i] # "none" /\ req[r].rotation <= version[i]
  BY <1>1 DEF TokenInv, TypeOK, At, Slot, Busy, Idle
<1>3. /\ s \in Slot /\ s.pc = "mail" /\ s.inv = i
      /\ s.rotation = req[r].rotation /\ s.seen = version[i]
  <2>1. version[i] \in Nat /\ req[r] \in Busy
    BY <1>2, VersionAssumption
  <2> QED BY <2>1 DEF Slot, Busy, Stages
<1> HIDE DEF s, i
<1>4. /\ req' \in [Requests -> Slot]
      /\ \A q \in Requests : req'[q] = IF q = r THEN s ELSE req[q]
  BY <1>1, <1>3 DEF TokenInv
<1>5. i = req[r].inv /\ version[i] <= version[i]
  BY <1>2, VersionAssumption DEF i
<1>6. ASSUME NEW q \in Requests
      PROVE  At(q, "idle")' \/
               /\ req'[q].pc \in Stages
               /\ invStatus'[req'[q].inv] # "none"
               /\ req'[q].seen <= version'[req'[q].inv]
               /\ req'[q].rotation <= version'[req'[q].inv]
  <2>1. CASE q = r
    BY <1>1, <1>2, <1>3, <1>4, <1>5, <2>1 DEF Stages
  <2>2. CASE q # r
    BY <1>1, <1>4, <2>2 DEF TokenInv, TypeOK, At, Stages
  <2> QED BY <2>1, <2>2
<1>7. TypeOK'
  BY <1>1, <1>6 DEF TokenInv, TypeOK, Stages
<1>8. \A q \in Requests : At(q, "mail")' => req'[q].rotation <= req'[q].seen
  BY <1>2, <1>3, <1>4 DEF TokenInv, At
<1>9. ASSUME NEW j \in Invitations, NEW n \in 0 .. version'[j], invStatus'[j] # "none"
      PROVE  Accounted(j, n)'
  <2>1. Accounted(j, n)
    BY <1>1, <1>9 DEF TokenInv
  <2> QED BY <1>1, <1>3, <1>4, <1>5, <2>1 DEF Accounted, At
<1> QED BY <1>1, <1>4, <1>7, <1>8, <1>9 DEF TokenInv, At

\* A request that ends: what it leaves to ask for is asked for, or counted as
\* lost.
LEMMA LeaveAccounted ==
  ASSUME TokenInv, NEW r \in Requests, AskForMail(r) \/ Fail(r)
  PROVE  TokenInv'
<1> DEFINE i == req[r].inv
           n0 == req[r].rotation
           a0 == [inv |-> i, rotation |-> n0, token |-> req[r].seen]
           mails == At(r, "refresh") \/ At(r, "mail")
<1>1. /\ ~At(r, "idle") /\ req' = [req EXCEPT ![r] = Idle]
      /\ UNCHANGED <<invStatus, invRole, version, late, member, linked>>
  BY DEF AskForMail, Fail, At, Leave
<1>2. /\ req[r] \in Busy /\ i \in Invitations /\ invStatus[i] # "none"
      /\ n0 <= version[i] /\ req[r].seen <= version[i]
      /\ n0 \in Nat /\ req[r].seen \in Nat /\ version[i] \in 0 .. MaxVersion
  BY <1>1 DEF TokenInv, TypeOK, At, Slot, Busy, Idle
<1>3. n0 \in 0 .. MaxVersion /\ req[r].seen \in 0 .. MaxVersion
  BY <1>2, VersionAssumption
<1>4. /\ asked' = asked \/ (At(r, "mail") /\ asked' = asked \cup {a0})
      /\ unasked' = unasked \/ (mails /\ unasked' = unasked \cup {<<i, n0>>})
      /\ mails => \/ At(r, "mail") /\ a0 \in asked'
                  \/ <<i, n0>> \in unasked'
  BY DEF AskForMail, Fail, Ask
<1>5. asked' \subseteq [inv : Invitations, rotation : 0 .. MaxVersion, token : 0 .. MaxVersion]
      /\ unasked' \subseteq Invitations \X (0 .. MaxVersion)
  BY <1>2, <1>3, <1>4 DEF TokenInv, TypeOK
<1>6. /\ req' \in [Requests -> Slot]
      /\ \A q \in Requests : req'[q] = IF q = r THEN Idle ELSE req[q]
  BY <1>1 DEF TokenInv, Slot
<1>7. Idle.pc = "idle"
  BY DEF Idle
<1>8. TypeOK'
  BY <1>1, <1>5, <1>6, <1>7 DEF TokenInv, TypeOK, At
<1>9. \A q \in Requests : At(q, "mail")' => req'[q].rotation <= req'[q].seen
  BY <1>6, <1>7 DEF TokenInv, At
<1>10. At(r, "mail") => n0 <= req[r].seen
  BY DEF TokenInv
<1> HIDE DEF a0
<1>11. ASSUME NEW j \in Invitations, NEW n \in 0 .. version'[j], invStatus'[j] # "none"
       PROVE  Accounted(j, n)'
  <2>1. Accounted(j, n)
    BY <1>1, <1>11 DEF TokenInv
  <2>2. CASE mails /\ i = j /\ n0 = n
    <3>1. CASE <<i, n0>> \in unasked'
      BY <2>2, <3>1 DEF Accounted
    <3>2. CASE At(r, "mail") /\ a0 \in asked'
      BY <1>1, <1>2, <1>10, <2>2, <3>2 DEF Accounted, a0
    <3> QED BY <1>4, <2>2, <3>1, <3>2
  <2>3. CASE ~(mails /\ i = j /\ n0 = n)
    BY <1>1, <1>4, <1>6, <2>1, <2>3 DEF Accounted, At
  <2> QED BY <2>2, <2>3
<1> QED BY <1>1, <1>6, <1>8, <1>9, <1>11 DEF TokenInv

\* Every step keeps every rotation accounted for.
LEMMA TokenStep == TokenInv /\ [Next]_vars => TokenInv'
<1> SUFFICES ASSUME TokenInv, [Next]_vars PROVE TokenInv'
  OBVIOUS
<1>1. Idle \in Slot /\ Idle.pc = "idle"
  BY DEF Slot, Idle
<1>2. ASSUME NEW r \in Requests, ~At(r, "idle")
      PROVE  /\ req[r] \in Busy /\ req[r].inv \in Invitations
             /\ invStatus[req[r].inv] # "none"
             /\ req[r].seen <= version[req[r].inv] /\ req[r].rotation <= version[req[r].inv]
  BY <1>2 DEF TokenInv, TypeOK, At, Slot, Busy, Idle
<1>3. ASSUME NEW r \in Requests, ~At(r, "idle"), NEW pc \in Stages
      PROVE  LET s == [req[r] EXCEPT !.pc = pc]
             IN  /\ s \in Slot /\ s.pc = pc /\ s.inv = req[r].inv
                 /\ s.seen = req[r].seen /\ s.rotation = req[r].rotation
  <2>1. req[r] \in Busy
    BY <1>2, <1>3
  <2> QED BY <2>1 DEF Slot, Busy
<1>4. /\ invStatus \in [Invitations -> {"none", "pending", "accepted", "revoked", "expired"}]
      /\ invRole \in [Invitations -> Roles \cup {"none"}]
      /\ member \in Roles \cup {"none"} /\ linked \in BOOLEAN
  BY DEF TokenInv, TypeOK
<1>5. ASSUME NEW i \in Invitations, NEW r \in Requests,
             NEW pc \in {"expire", "revoke", "mark", "membership", "rotate"}, Start(r, i, pc)
      PROVE  TokenInv'
  <2> DEFINE s == [pc |-> pc, inv |-> i, rotation |-> 0, seen |-> 0]
  <2>1. /\ s \in Slot /\ s.pc = pc /\ s.inv = i /\ s.rotation = 0 /\ s.seen = 0
        /\ invStatus[i] = "pending" /\ At(r, "idle")
    BY <1>5 DEF Slot, Busy, Stages, Start
  <2>2. 0 <= version[i]
    BY VersionAssumption DEF TokenInv, TypeOK
  <2>3. /\ req' = [req EXCEPT ![r] = s]
        /\ UNCHANGED <<invStatus, invRole, version, late, member, linked, asked, unasked>>
    BY <1>5 DEF Start
  <2> HIDE DEF s
  <2> QED BY <1>4, <2>1, <2>2, <2>3, MailUntouched DEF At
<1>6. ASSUME NEW i \in Invitations, NEW r \in Requests, StartAccept(r, i)
      PROVE  TokenInv'
  BY <1>5, <1>6 DEF StartAccept
<1>7. ASSUME NEW r \in Requests, MarkExpired(r) \/ MarkRevoked(r) \/ LinkUnclaimed(r)
      PROVE  TokenInv'
  <2>1. /\ ~At(r, "idle") /\ ~At(r, "refresh") /\ ~At(r, "mail")
        /\ req' = [req EXCEPT ![r] = Idle]
        /\ \/ invStatus' = invStatus
           \/ \E st \in {"expired", "revoked"} :
                invStatus' = [invStatus EXCEPT ![req[r].inv] = st]
        /\ linked' \in {linked, TRUE}
        /\ UNCHANGED <<invRole, version, late, member, asked, unasked>>
    BY <1>7 DEF MarkExpired, MarkRevoked, LinkUnclaimed, Leave, At
  <2>2. /\ invStatus' \in [Invitations -> {"none", "pending", "accepted", "revoked", "expired"}]
        /\ \A i \in Invitations : invStatus'[i] = "none" <=> invStatus[i] = "none"
    BY <1>2, <1>4, <2>1
  <2> QED BY <1>1, <1>4, <2>1, <2>2, MailUntouched
<1>8. ASSUME NEW r \in Requests, MarkAccepted(r)
      PROVE  TokenInv'
  <2> DEFINE s == [req[r] EXCEPT !.pc = "link"]
  <2>1. /\ ~At(r, "idle") /\ ~At(r, "refresh") /\ ~At(r, "mail")
        /\ req' = [req EXCEPT ![r] = s]
        /\ invStatus' = [invStatus EXCEPT ![req[r].inv] = "accepted"]
        /\ UNCHANGED <<invRole, version, late, member, linked, asked, unasked>>
    BY <1>8 DEF MarkAccepted, Goto, At
  <2>2. /\ s \in Slot /\ s.pc = "link" /\ s.inv = req[r].inv
        /\ s.seen = req[r].seen /\ s.rotation = req[r].rotation
    BY <1>3, <2>1 DEF Stages
  <2> HIDE DEF s
  <2>3. /\ invStatus' \in [Invitations -> {"none", "pending", "accepted", "revoked", "expired"}]
        /\ \A i \in Invitations : invStatus'[i] = "none" <=> invStatus[i] = "none"
    BY <1>2, <1>4, <2>1
  <2> QED BY <1>2, <1>4, <2>1, <2>2, <2>3, MailUntouched
<1>9. ASSUME NEW r \in Requests, FindMembership(r) \/ WriteMembership(r)
      PROVE  TokenInv'
  <2>1. /\ ~At(r, "idle") /\ ~At(r, "refresh") /\ ~At(r, "mail")
        /\ member' \in {member, invRole[req[r].inv]}
        /\ UNCHANGED <<invStatus, invRole, version, late, linked, asked, unasked>>
    BY <1>9 DEF FindMembership, WriteMembership, At
  <2>2. Leave(r) \/ \E pc \in {"insert", "update", "mark"} : Goto(r, pc)
    BY <1>9 DEF FindMembership, WriteMembership
  <2>3. member' \in Roles \cup {"none"}
    BY <1>2, <1>4, <2>1
  <2>4. CASE Leave(r)
    BY <1>1, <1>4, <2>1, <2>3, <2>4, MailUntouched DEF Leave
  <2>5. ASSUME NEW pc \in {"insert", "update", "mark"}, Goto(r, pc)
        PROVE  TokenInv'
    <3>0. pc \in Stages /\ ~At(r, "idle")
      BY <2>1, <2>5 DEF Stages
    <3> DEFINE s == [req[r] EXCEPT !.pc = pc]
    <3>1. /\ s \in Slot /\ s.pc = pc /\ s.inv = req[r].inv
          /\ s.seen = req[r].seen /\ s.rotation = req[r].rotation
      BY <1>3, <3>0
    <3>2. req' = [req EXCEPT ![r] = s]
      BY <2>5 DEF Goto
    <3> HIDE DEF s
    <3> QED BY <1>2, <1>4, <2>1, <2>3, <3>1, <3>2, MailUntouched
  <2> QED BY <2>2, <2>4, <2>5
<1>10. ASSUME NEW i \in Invitations, Expire(i)
       PROVE  TokenInv'
  <2>1. late' \in [Invitations -> BOOLEAN]
    BY <1>10 DEF Expire, TokenInv, TypeOK
  <2> QED BY <1>4, <1>10, <2>1, RequestsUntouched DEF Expire
<1>11. ASSUME NEW role \in Roles, UpdateUserRole(role)
       PROVE  TokenInv'
  BY <1>11, RequestsUntouched DEF UpdateUserRole, TokenInv, TypeOK
<1>12. CASE UNCHANGED vars
  BY <1>12, RequestsUntouched DEF vars, TokenInv, TypeOK
<1> QED
  BY <1>5, <1>6, <1>7, <1>8, <1>9, <1>10, <1>11, <1>12,
     CreateAccounted, RotateAccounted, RefreshAccounted, LeaveAccounted
  DEF Next

\* No invitation, no request and no mail, at first.
LEMMA TokenInitially == Init => TokenInv
<1> SUFFICES ASSUME Init PROVE TokenInv
  OBVIOUS
<1>1. \A r \in Requests : req[r].pc = "idle" /\ req[r] \in Slot
  BY DEF Init, Idle, Slot
<1>2. version \in [Invitations -> 0 .. MaxVersion]
  BY VersionAssumption DEF Init
<1>3. req \in [Requests -> Slot]
  BY <1>1 DEF Init
<1> QED BY <1>1, <1>2, <1>3 DEF Init, TokenInv, TypeOK, At

\* No request, wherever it dies, and no two that overlap leave a row or a
\* request with a token that was never issued.
THEOREM InvitationTypes == Spec => []TypeOK
<1>1. TokenInv => TypeOK
  BY DEF TokenInv
<1> QED BY <1>1, TokenInitially, TokenStep, PTL DEF Spec

\* Unless a request died or did not reach the queue, a mail with the valid token
\* was asked for, for any number of resends that cross each other or the creation.
THEOREM TokenTheorem == Spec => []CurrentTokenIsAsked
<1>1. TokenInv => CurrentTokenIsAsked
  <2> SUFFICES ASSUME TokenInv, NEW i \in Invitations, invStatus[i] # "none",
                      \A n \in 0 .. MaxVersion : <<i, n>> \notin unasked,
                      \A r \in Requests : At(r, "refresh") \/ At(r, "mail") => req[r].inv # i
               PROVE  \E a \in asked : a.inv = i /\ a.token = version[i]
    BY DEF CurrentTokenIsAsked
  <2>1. version[i] \in 0 .. MaxVersion /\ version[i] \in 0 .. version[i]
    BY VersionAssumption DEF TokenInv, TypeOK
  <2>2. Accounted(i, version[i])
    BY <2>1 DEF TokenInv
  <2>3. PICK a \in asked : a.inv = i /\ version[i] <= a.token /\ a.token <= version[i]
    BY <2>1, <2>2 DEF Accounted
  <2>4. a.token \in Nat /\ version[i] \in Nat
    BY <2>1, VersionAssumption DEF TokenInv, TypeOK
  <2> QED BY <2>3, <2>4
<1> QED BY <1>1, TokenInitially, TokenStep, PTL DEF Spec
=============================================================================
