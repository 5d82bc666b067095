--------------------------- MODULE InvitationMail ---------------------------
(***************************************************************************)
(* Invitations and the mails they ask for: every mail asked for is a job   *)
(* of NotificationDelivery, which the worker runs.                         *)
(***************************************************************************)
EXTENDS Invitations

CONSTANT MaxTries

VARIABLES stage, tries, outcome, loaded, log, rows, mailed, lost

mailVars == <<stage, tries, outcome, loaded, log, rows, mailed, lost>>
allVars == <<vars, mailVars>>

\* The job for rotation n of invitation i is <<i, n>>.  Its delivery key is made
\* of the invitation's id; the token is in the text only.  No user_id: no row.
Mails == Invitations \X (0 .. MaxVersion)
D == INSTANCE NotificationDelivery WITH
  Jobs <- Mails, Keys <- Invitations, UserJobs <- {},
  key <- [m \in Mails |-> m[1]]

MailInit == Init /\ D!Init

Publish ==
  IF asked' = asked
  THEN UNCHANGED mailVars
  ELSE \E a \in asked' \ asked : D!Enqueue(<<a.inv, a.rotation>>)

MailNext ==
  \/ Next /\ Publish
  \/ (\E m \in Mails : D!Work(m) \/ D!Die(m)) /\ UNCHANGED vars

MailSpec == MailInit /\ [][MailNext]_allVars

\* "The rotated-token email is delivered by the worker task": if the job with
\* the valid link has run to its end and the log says `sent`, then that mail was
\* sent.  The code finds the log row of the mail with the link that is dead.
FreshLinkIsMailed ==
  \A a \in asked :
    LET m == <<a.inv, a.rotation>> IN
    stage[m] = "done" /\ a.token = version[a.inv] /\ log[a.inv] = "sent"
      => mailed[m] > 0
=============================================================================
