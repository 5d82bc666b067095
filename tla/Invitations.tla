---------------------------- MODULE Invitations ----------------------------
(***************************************************************************)
(* Invitations of one person to one organization: the routes that create,  *)
(* accept, revoke and resend them, each commit a step of its own.  What    *)
(* becomes of the mails they ask for is in InvitationMail.                 *)
(*                                                                         *)
(* Requests overlap (revoke runs in a thread, two processes serve during a *)
(* deployment) and can die between two steps.  A token is its version; a   *)
(* request a check rejects is no step.  What the invitee's memberships in  *)
(* other organizations are, and who may manage which role, is left out.    *)
(***************************************************************************)
EXTENDS Integers, FiniteSets

CONSTANTS
  Invitations, \* rows, all for the same email and organization
  StaffRoles,  \* the roles that are not "lp"
  Requests,    \* slots in which requests run
  MaxVersion   \* bound: how often a token is rotated

ASSUME RolesAssumption == {"lp", "none"} \cap StaffRoles = {}
ASSUME VersionAssumption == MaxVersion \in Nat

Roles == StaffRoles \cup {"lp"}

VARIABLES
  invStatus, \* invStatus[i]: "none" until created
  invRole,   \* invRole[i]: the role it invites to
  version,   \* version[i]: the token that is valid, by the number of rotations
  late,      \* late[i]: expires_at is past
  member,    \* role of the invitee's membership, "none" without one
  linked,    \* the invitee's contact row has its user_id
  req,       \* req[r]: where request r is
  asked,     \* mails asked for: rotation number and version of the token in it
  unasked    \* history: rotations whose mail was not asked for

vars == <<invStatus, invRole, version, late, member, linked, req, asked, unasked>>

Idle == [pc |-> "idle"]
At(r, pc) == req[r].pc = pc
Goto(r, pc) == req' = [req EXCEPT ![r].pc = pc]
Leave(r) == req' = [req EXCEPT ![r] = Idle]

-----------------------------------------------------------------------------
Init ==
  /\ invStatus = [i \in Invitations |-> "none"]
  /\ invRole = [i \in Invitations |-> "none"]
  /\ version = [i \in Invitations |-> 0]
  /\ late = [i \in Invitations |-> FALSE]
  /\ member \in Roles \cup {"none"}
  /\ linked = FALSE
  /\ req = [r \in Requests |-> Idle]
  /\ asked = {}
  /\ unasked = {}

\* publish_customer_event for rotation n of i, with token v; failing to reach
\* the queue is logged and forgotten.
Ask(i, n, v) ==
  \/ /\ asked' = asked \cup {[inv |-> i, rotation |-> n, token |-> v]}
     /\ UNCHANGED unasked
  \/ /\ unasked' = unasked \cup {<<i, n>>}
     /\ UNCHANGED asked

\* The new row is committed; then, as with a resend, the request reads it back
\* and, after the invitee's account was provided for, asks for the mail.
Create(r, i, role) ==
  /\ At(r, "idle")
  /\ invStatus[i] = "none"
  /\ invStatus' = [invStatus EXCEPT ![i] = "pending"]
  /\ invRole' = [invRole EXCEPT ![i] = role]
  /\ req' = [req EXCEPT ![r] = [pc |-> "refresh", inv |-> i, rotation |-> 0, seen |-> 0]]
  /\ UNCHANGED <<version, late, member, linked, asked, unasked>>

\* Fourteen days have passed.
Expire(i) ==
  /\ invStatus[i] # "none"
  /\ late' = [late EXCEPT ![i] = TRUE]
  /\ UNCHANGED <<invStatus, invRole, version, member, linked, req, asked, unasked>>

\* A request finds the invitation pending; only an accept looks at the date.
Start(r, i, pc) ==
  /\ At(r, "idle")
  /\ invStatus[i] = "pending"
  /\ req' = [req EXCEPT ![r] = [pc |-> pc, inv |-> i, rotation |-> 0, seen |-> 0]]
  /\ UNCHANGED <<invStatus, invRole, version, late, member, linked, asked, unasked>>

\* Mutant: an accept marks the invitation first.
StartAcceptMark(r, i) ==
  Start(r, i, IF late[i] THEN "expire" ELSE "mark")

StartAccept(r, i) ==
  Start(r, i, IF late[i] THEN "expire"
              ELSE IF invRole[i] = "lp" THEN "mark"
              ELSE "membership")

\* mark_expired, mark_revoked, mark_accepted: the status is written whatever it
\* has become.
MarkExpired(r) ==
  /\ At(r, "expire")
  /\ invStatus' = [invStatus EXCEPT ![req[r].inv] = "expired"]
  /\ Leave(r)
  /\ UNCHANGED <<invRole, version, late, member, linked, asked, unasked>>

MarkRevoked(r) ==
  /\ At(r, "revoke")
  /\ invStatus' = [invStatus EXCEPT ![req[r].inv] = "revoked"]
  /\ Leave(r)
  /\ UNCHANGED <<invRole, version, late, member, linked, asked, unasked>>

MarkAccepted(r) ==
  /\ At(r, "mark")
  /\ invStatus' = [invStatus EXCEPT ![req[r].inv] = "accepted"]
  /\ Goto(r, "link")
  /\ UNCHANGED <<invRole, version, late, member, linked, asked, unasked>>

\* A staff invitation looks for the membership ...
FindMembership(r) ==
  /\ At(r, "membership")
  /\ Goto(r, IF member = "none" THEN "insert"
             ELSE IF member # invRole[req[r].inv] THEN "update"
             ELSE "mark")
  /\ UNCHANGED <<invStatus, invRole, version, late, member, linked, asked, unasked>>

\* ... and updates its role or inserts it, unless another accept has inserted
\* one by now: then the unique constraint fails the request.
WriteMembership(r) ==
  /\ At(r, "insert") \/ At(r, "update")
  /\ IF At(r, "insert") /\ member # "none"
     THEN Leave(r) /\ UNCHANGED member
     ELSE member' = invRole[req[r].inv] /\ Goto(r, "mark")
  /\ UNCHANGED <<invStatus, invRole, version, late, linked, asked, unasked>>

LinkUnclaimed(r) ==
  /\ At(r, "link")
  /\ linked' = TRUE
  /\ Leave(r)
  /\ UNCHANGED <<invStatus, invRole, version, late, member, asked, unasked>>

\* Mutant: the new token is handed out but not saved.
RotateTokenUnsaved(r) ==
  LET i == req[r].inv IN
  /\ At(r, "rotate") /\ version[i] < MaxVersion
  /\ req' = [req EXCEPT ![r].pc = "refresh", ![r].rotation = version[i] + 1]
  /\ UNCHANGED <<invStatus, invRole, version, late, member, linked, asked, unasked>>

\* Resend: a new token, and the row is read back ...
RotateToken(r) ==
  LET i == req[r].inv IN
  /\ At(r, "rotate") /\ version[i] < MaxVersion
  /\ version' = [version EXCEPT ![i] = @ + 1]
  /\ req' = [req EXCEPT ![r].pc = "refresh", ![r].rotation = version[i] + 1]
  /\ UNCHANGED <<invStatus, invRole, late, member, linked, asked, unasked>>

\* Mutant: the mail gets the token that the request began with.
RefreshNot(r) ==
  /\ At(r, "refresh")
  /\ req' = [req EXCEPT ![r].pc = "mail",
                        ![r].seen = IF req[r].rotation = 0 THEN 0 ELSE req[r].rotation - 1]
  /\ UNCHANGED <<invStatus, invRole, version, late, member, linked, asked, unasked>>

Refresh(r) ==
  /\ At(r, "refresh")
  /\ req' = [req EXCEPT ![r].pc = "mail", ![r].seen = version[req[r].inv]]
  /\ UNCHANGED <<invStatus, invRole, version, late, member, linked, asked, unasked>>

\* ... and a mail with it.
AskForMail(r) ==
  /\ At(r, "mail")
  /\ Ask(req[r].inv, req[r].rotation, req[r].seen)
  /\ Leave(r)
  /\ UNCHANGED <<invStatus, invRole, version, late, member, linked>>

\* The request fails, or its process is gone.
Fail(r) ==
  /\ ~At(r, "idle")
  /\ Leave(r)
  /\ unasked' = IF At(r, "refresh") \/ At(r, "mail")
                THEN unasked \cup {<<req[r].inv, req[r].rotation>>} ELSE unasked
  /\ UNCHANGED <<invStatus, invRole, version, late, member, linked, asked>>

\* An admin changes the member's role.
UpdateUserRole(role) ==
  /\ member # "none"
  /\ member' = role
  /\ UNCHANGED <<invStatus, invRole, version, late, linked, req, asked, unasked>>

Next ==
  \/ \E i \in Invitations :
       \/ Expire(i)
       \/ \E r \in Requests :
            \/ \E role \in Roles : Create(r, i, role)
            \/ StartAccept(r, i) \/ Start(r, i, "revoke") \/ Start(r, i, "rotate")
  \/ \E r \in Requests :
       \/ MarkExpired(r) \/ MarkRevoked(r) \/ MarkAccepted(r)
       \/ FindMembership(r) \/ WriteMembership(r) \/ LinkUnclaimed(r)
       \/ RotateToken(r) \/ Refresh(r) \/ AskForMail(r)
       \/ Fail(r)
  \/ \E role \in Roles : UpdateUserRole(role)

Spec == Init /\ [][Next]_vars

-----------------------------------------------------------------------------
(* Properties.                                                             *)

\* Types; no token is valid, or known to a request, that was not issued.
TypeOK ==
  /\ invStatus \in [Invitations -> {"none", "pending", "accepted", "revoked", "expired"}]
  /\ invRole \in [Invitations -> Roles \cup {"none"}]
  /\ version \in [Invitations -> 0 .. MaxVersion]
  /\ late \in [Invitations -> BOOLEAN]
  /\ member \in Roles \cup {"none"}
  /\ linked \in BOOLEAN
  /\ \A r \in Requests : At(r, "idle") \/
       /\ req[r].pc \in {"expire", "revoke", "mark", "link", "membership",
                         "insert", "update", "rotate", "refresh", "mail"}
       /\ invStatus[req[r].inv] # "none"
       /\ req[r].seen <= version[req[r].inv] /\ req[r].rotation <= version[req[r].inv]
  /\ asked \subseteq [inv : Invitations, rotation : 0 .. MaxVersion, token : 0 .. MaxVersion]
  /\ unasked \subseteq Invitations \X (0 .. MaxVersion)

\* An accepted staff invitation has made its invitee a member, wherever the
\* request died and whoever else accepted, revoked or resent meanwhile: the
\* invitation is spent only after the membership is committed.
AcceptedIsMember ==
  \A i \in Invitations :
    invStatus[i] = "accepted" /\ invRole[i] \in StaffRoles => member # "none"

\* Two resends that cross, or a resend that overtakes the creation, do not forget
\* the valid token: unless a request died or did not reach the queue, a mail with
\* it has been asked for.  (Whether it is sent is InvitationMail's subject.)
CurrentTokenIsAsked ==
  \A i \in Invitations :
    /\ invStatus[i] # "none"
    /\ \A n \in 0 .. MaxVersion : <<i, n>> \notin unasked
    /\ \A r \in Requests : At(r, "refresh") \/ At(r, "mail") => req[r].inv # i
    => \E a \in asked : a.inv = i /\ a.token = version[i]
=============================================================================
