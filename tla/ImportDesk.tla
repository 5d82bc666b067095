------------------------------ MODULE ImportDesk ------------------------------
(***************************************************************************)
(* The wizard that imports a bank statement: the upload, the review of its *)
(* payments, the dialog that onboards an unknown payer in three requests   *)
(* (investor, commitment, capital call item), and the summary.             *)
(*                                                                         *)
(* A payment is <<n, p>>: what payer p paid in the n-th statement.  What is *)
(* created in the dialog is known by the payment it was created for.  The  *)
(* amounts, which can be edited freely, are left out.                      *)
(***************************************************************************)
EXTENDS WebQuery, Naturals, FiniteSets

CONSTANTS Payers,
          Matched,    \* payers the server suggests a capital call item for
          MaxImports, \* bound: statements uploaded
          Manners,    \* which values of patient are looked at
          Unassigned, Ignored, Suggestion, \* what a row's select can hold,
          NoPayment                        \* beside an onboarded payer's item

VARIABLES
  patient,    \* the manager never closes the dialog while a request is under way
  step,       \* the wizard's step
  uploading,  \* isUploading
  imported,   \* the statement under review, 0 when there is none
  uploads,    \* statements uploaded so far
  choice,     \* rows: the select of each row there is, NoPayment when there is none
  extra,      \* extraCandidates: the items onboarded for each payment
  applying,   \* the request of handleApply, or no assignments
  recorded,   \* the server: what each payment was applied to
  investors,  \* the server: the names in the register
  known,      \* investorsQuery
  payer,      \* payerDialog: the payment it was opened for
  onboarding, \* the dialog's step, investor and commitment
  sent        \* the dialog's requests under way

importVars == <<patient, step, uploading, imported, uploads, choice, extra, applying,
                recorded, investors, known, payer, onboarding, sent>>
wizardVars == <<step, uploading, imported, uploads, applying, recorded>>
dialogVars == <<payer, onboarding, sent>>

Payments == (1..MaxImports) \X Payers
Review == {p \in Payments : p[1] = imported}
NoAssignments == [p \in {} |-> NoPayment]
FirstStep == [step |-> "investor", investor |-> NoPayment, commitment |-> NoPayment]
NoRows == [p \in Payments |-> NoPayment]

ImportInit ==
  /\ patient \in Manners
  /\ step = "upload" /\ uploading = FALSE
  /\ imported = 0 /\ uploads = 0
  /\ choice = NoRows
  /\ extra = [p \in Payments |-> {}]
  /\ applying = NoAssignments
  /\ recorded = NoRows
  /\ investors \in SUBSET Payers
  /\ known = [FirstRead({}) EXCEPT !.reading = FALSE]
  /\ payer = NoPayment
  /\ onboarding = FirstStep
  /\ sent = {}

-----------------------------------------------------------------------------
(* The upload                                                              *)

\* BankStatementDropzone: neither a click nor a drop while a file is uploaded.
DropFile ==
  /\ step = "upload" /\ ~uploading
  /\ uploads < MaxImports
  /\ uploading' = TRUE
  /\ UNCHANGED <<patient, step, imported, uploads, choice, extra, applying, recorded,
                 investors, known, dialogVars>>

\* initialRowState: the first candidate, if there is one.
InitialRow(p) == IF p[2] \in Matched THEN Suggestion ELSE Unassigned

\* The rest of handleFile.  The review reads the register's investors, unless it
\* has them already.
FileIsRead ==
  /\ uploading
  /\ uploading' = FALSE
  /\ uploads' = uploads + 1
  /\ imported' = uploads'
  /\ choice' = [p \in Payments |-> IF p[1] = imported' THEN InitialRow(p) ELSE NoPayment]
  /\ step' = "review"
  /\ known' = IF known.has THEN known ELSE Told(known)
  /\ UNCHANGED <<patient, extra, applying, recorded, investors, dialogVars>>

FileIsRefused ==
  /\ uploading
  /\ uploading' = FALSE
  /\ UNCHANGED <<patient, step, imported, uploads, choice, extra, applying, recorded,
                 investors, known, dialogVars>>

-----------------------------------------------------------------------------
(* The review                                                              *)

\* candidatesFor
CandidatesFor(p) == extra[p] \cup (IF p[2] \in Matched THEN {Suggestion} ELSE {})
Assigned(p) == choice[p] \notin {NoPayment, Unassigned, Ignored}
AssignedCount == Cardinality({p \in Payments : Assigned(p)})
Reviewing == step = "review" /\ payer = NoPayment
Applying == applying # NoAssignments

\* The row's select; it stays enabled while the payments are applied.
Choose(p, c) ==
  /\ Reviewing
  /\ p \in Review
  /\ c \in CandidatesFor(p) \cup {Unassigned, Ignored}
  /\ choice' = [choice EXCEPT ![p] = c]
  /\ UNCHANGED <<patient, wizardVars, extra, investors, known, dialogVars>>

\* handleApply: the rows of the statement under review, whatever the button
\* counts.
ApplyPayments ==
  /\ Reviewing
  /\ ~Applying
  /\ AssignedCount > 0
  /\ LET assignments == {p \in Review : Assigned(p)}
     IN /\ assignments # {}
        /\ applying' = [p \in assignments |-> choice[p]]
  /\ UNCHANGED <<patient, step, uploading, imported, uploads, choice, extra, recorded,
                 investors, known, dialogVars>>

\* The server skips the payments that were applied before, as when the answer to
\* an apply was lost and the user applies again, and answers as for the others.
Recorded ==
  [p \in Payments |-> IF p \in DOMAIN applying /\ recorded[p] = NoPayment
                      THEN applying[p] ELSE recorded[p]]

ApplySucceeds ==
  /\ Applying
  /\ recorded' = Recorded
  /\ applying' = NoAssignments
  /\ step' = "summary"
  /\ UNCHANGED <<patient, uploading, imported, uploads, choice, extra, investors,
                 known, dialogVars>>

\* A failure, or a lost answer, keeps the wizard on the review.
ApplyFails ==
  /\ Applying
  /\ recorded' \in {recorded, Recorded}
  /\ applying' = NoAssignments
  /\ UNCHANGED <<patient, step, uploading, imported, uploads, choice, extra, investors,
                 known, dialogVars>>

\* "Start over" and, in the summary, "Import another".  The onboarded candidates
\* stay.
BackToUpload ==
  /\ \/ Reviewing /\ ~Applying
     \/ step = "summary" /\ payer = NoPayment
  /\ step' = "upload"
  /\ imported' = 0
  /\ choice' = NoRows
  /\ UNCHANGED <<patient, uploading, uploads, extra, applying, recorded, investors,
                 known, dialogVars>>

KnownAnswered ==
  /\ known.reading
  /\ known' = Answered(investors)
  /\ UNCHANGED <<patient, wizardVars, choice, extra, investors, dialogVars>>

-----------------------------------------------------------------------------
(* The dialog                                                              *)

\* A change of OpenPayer: the dialog keeps the step it was left at.
OpenPayerWhereItWas(p) ==
  /\ Reviewing
  /\ p \in Review
  /\ p[2] \notin known.data
  /\ payer' = p
  /\ UNCHANGED <<patient, wizardVars, choice, extra, investors, known, onboarding, sent>>

\* "Add as investor" in the row of a payer the register does not name.
OpenPayer(p) ==
  /\ Reviewing
  /\ p \in Review
  /\ p[2] \notin known.data
  /\ payer' = p
  /\ onboarding' = FirstStep
  /\ UNCHANGED <<patient, wizardVars, choice, extra, investors, known, sent>>

\* Escape, or a click beside the dialog.
DismissPayer ==
  /\ payer # NoPayment
  /\ patient => sent = {}
  /\ payer' = NoPayment
  /\ UNCHANGED <<patient, wizardVars, choice, extra, investors, known, onboarding, sent>>

OnboardingPending(op) == \E m \in sent : m.op = op
AskFor(m) ==
  /\ payer # NoPayment
  /\ ~OnboardingPending(m.op)
  /\ sent' = sent \cup {m}
  /\ UNCHANGED <<patient, wizardVars, choice, extra, investors, known, payer, onboarding>>

\* "Cancel" and "Skip": not while the step's request is under way.
SkipStep ==
  /\ payer # NoPayment
  /\ ~OnboardingPending(onboarding.step)
  /\ payer' = NoPayment
  /\ UNCHANGED <<patient, wizardVars, choice, extra, investors, known, onboarding, sent>>

\* handleCreateInvestor
CreateInvestor ==
  /\ onboarding.step = "investor"
  /\ AskFor([op |-> "investor", at |-> payer, for |-> payer])

\* handleCreateCommitment
CreateCommitment ==
  /\ onboarding.step = "commitment"
  /\ onboarding.investor # NoPayment
  /\ AskFor([op |-> "commitment", at |-> payer, for |-> onboarding.investor])

\* handleCreateItem
CreateItem ==
  /\ onboarding.step = "item"
  /\ onboarding.investor # NoPayment /\ onboarding.commitment # NoPayment
  /\ AskFor([op |-> "item", at |-> payer, for |-> onboarding.commitment])

\* The answers write the state of the dialog there is, whichever payer it is
\* open for by now.
InvestorCreated(m) ==
  /\ m \in sent /\ m.op = "investor"
  /\ sent' = sent \ {m}
  /\ investors' = investors \cup {m.for[2]}
  /\ known' = Told(known)
  /\ onboarding' = [onboarding EXCEPT !.investor = m.for, !.step = "commitment"]
  /\ UNCHANGED <<patient, wizardVars, choice, extra, payer>>

CommitmentCreated(m) ==
  /\ m \in sent /\ m.op = "commitment"
  /\ sent' = sent \ {m}
  /\ onboarding' = [onboarding EXCEPT !.commitment = m.for, !.step = "item"]
  /\ UNCHANGED <<patient, wizardVars, choice, extra, investors, known, payer>>

\* finish and onCompleted: those of the render that sent the request.
ItemCreated(m) ==
  /\ m \in sent /\ m.op = "item"
  /\ sent' = sent \ {m}
  /\ extra' = [extra EXCEPT ![m.at] = @ \cup {m.for}]
  /\ choice' = [choice EXCEPT ![m.at] = m.for]
  /\ payer' = NoPayment
  /\ UNCHANGED <<patient, wizardVars, investors, known, onboarding>>

\* A request fails, or its answer is lost: the step stays.
OnboardingFails(m) ==
  /\ m \in sent
  /\ sent' = sent \ {m}
  /\ investors' \in {investors, IF m.op = "investor" THEN investors \cup {m.for[2]}
                                                     ELSE investors}
  /\ UNCHANGED <<patient, wizardVars, choice, extra, known, payer, onboarding>>

ImportNext ==
  \/ DropFile \/ FileIsRead \/ FileIsRefused
  \/ \E p \in Payments : \/ OpenPayer(p)
                         \/ \E c \in CandidatesFor(p) \cup {Unassigned, Ignored} : Choose(p, c)
  \/ ApplyPayments \/ ApplySucceeds \/ ApplyFails \/ BackToUpload
  \/ KnownAnswered
  \/ DismissPayer \/ SkipStep \/ CreateInvestor \/ CreateCommitment \/ CreateItem
  \/ \E m \in sent : \/ InvestorCreated(m) \/ CommitmentCreated(m) \/ ItemCreated(m)
                     \/ OnboardingFails(m)

ImportSpec == ImportInit /\ [][ImportNext]_importVars

-----------------------------------------------------------------------------
\* A payment is only ever settled with what was created for its own payer, or
\* with the server's suggestion.
OwnPayer == \A p \in Payments : recorded[p] \in {NoPayment, Suggestion, p}

\* So it is when the dialog is never left in the middle of a request.
PatientOwnPayer == patient => OwnPayer
=============================================================================
