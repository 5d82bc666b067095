-------------------------------- MODULE Forms --------------------------------
(***************************************************************************)
(* What the forms, dialogs, buttons and pages of the three web apps do, as *)
(* tables: one record per operation and one per page.  FormDesk is the     *)
(* machine that runs any of them.                                          *)
(*                                                                         *)
(* An operation on a row:                                                  *)
(*   seeds   where its form's fields come from: nothing ("blank"), the row *)
(*           as the form opens ("row"), the row and again every answer     *)
(*           that changes it ("live"), or no form at all ("none")          *)
(*   waits   its form cannot be closed while its request is under way      *)
(*   after   the operations during whose requests its form does not open   *)
(*   blocks  the operations that are disabled while its request is         *)
(*   does    its requests in order, and what each does to the row          *)
(*   closes  the forms that its success closes                             *)
(*   unmounts  its form is taken off the page when it is closed            *)
(*   tells   the query keys it invalidates                                 *)
(*   misses  the keys of `list' and `away' below that show what it changes   *)
(*           and that it does not invalidate                               *)
(*   goes    where its success takes the user                              *)
(***************************************************************************)
EXTENDS TLC

Managers == {"admin", "fund_manager"}
Members == Managers \cup {"lp"}
Superadmin == {"superadmin"}

Plain ==
  [waits |-> FALSE, closes |-> {}, unmounts |-> FALSE, after |-> {}, blocks |-> {},
   goes |-> "stays", misses |-> {}]

\* A dialog that ignores its closing while its request is under way.
Dialog(op, seeds) ==
  [seeds |-> seeds, waits |-> TRUE, closes |-> {op}, blocks |-> {op}] @@ Plain

\* A form that can be left at any time; its success closes whichever row's it
\* finds open.
LooseForm(op, seeds) ==
  [seeds |-> seeds, closes |-> {op}, blocks |-> {op}] @@ Plain

\* A form that is part of its page.
Inline(op, seeds) == [seeds |-> seeds, blocks |-> {op}] @@ Plain

\* A button that is disabled while its request is under way, and one that is
\* not.
Button(op) == [seeds |-> "none", blocks |-> {op}] @@ Plain
FreeButton == [seeds |-> "none"] @@ Plain

\* An operation a page offers: to whom, where (on the page, in its drawer, or
\* in another operation's form), and on rows of which status.
Offer(op, to, on, among) == [op |-> op, to |-> to, on |-> on, rows |-> among]
Standing == {"open", "done"}
OpenOnly == {"open"}
NewRow == {"none"}

-----------------------------------------------------------------------------
(* Commitments                                                             *)

\* Where a fund's current size is shown, the sum of its commitments.
FundSizes == {"/funds", "/funds/by-slug/{slug}"}

CommitmentCreateForm == Dialog("CommitmentCreate", "blank")

\* handleSubmit
CommitmentCreate ==
  [does |-> <<"create">>,
   tells |-> {"/funds/{fund_id}/commitments", "/funds/{fund_id}",
              "/funds/{fund_id}/overview", "/investors/{investor_id}/commitments",
              "/investors", "/dashboard"},
   misses |-> FundSizes]
  @@ CommitmentCreateForm

\* "Save changes", "Approve" and "Decline" disable each other.
CommitmentEditForm ==
  [blocks |-> {"CommitmentEdit", "CommitmentStatus"}]
  @@ Dialog("CommitmentEdit", "row")

CommitmentTells == {"/funds/{fund_id}/commitments", "/funds/{fund_id}",
                    "/funds/{fund_id}/overview", "/dashboard"}

\* An investor's rows show what it committed.
CommitmentMisses ==
  {"/investors", "/investors/{investor_id}/commitments"} \cup FundSizes

CommitmentEdit ==
  [does |-> <<"write">>, tells |-> CommitmentTells, misses |-> CommitmentMisses]
  @@ CommitmentEditForm

\* handleStatus
CommitmentStatus ==
  [does |-> <<"finish">>, tells |-> CommitmentTells, misses |-> CommitmentMisses,
   seeds |-> "none"]
  @@ CommitmentEditForm

FundCommitmentsPage ==
  [roles |-> Members, list |-> {"/funds/{fund_id}/commitments"}, detail |-> {},
   away |-> {"/funds/{fund_id}/overview", "/dashboard", "/investors",
             "/investors/{investor_id}/commitments"} \cup FundSizes,
   offers |-> {Offer("CommitmentCreate", Managers, "page", NewRow),
               Offer("CommitmentEdit", Managers, "page", Standing),
               Offer("CommitmentStatus", Managers, "CommitmentEdit", OpenOnly)}]

InvestorCommitmentsTab ==
  [roles |-> Managers, list |-> {"/investors/{investor_id}/commitments"}, detail |-> {},
   away |-> {"/investors", "/funds/{fund_id}/commitments", "/funds/{fund_id}/overview",
             "/dashboard"} \cup FundSizes,
   offers |-> {Offer("CommitmentCreate", Managers, "page", NewRow)}]

-----------------------------------------------------------------------------
(* Documents                                                               *)

DocumentUploadForm == Dialog("DocumentUpload", "blank")

\* handleSubmit: where to put the file, the file, the document.
DocumentUpload ==
  [does |-> <<"ask", "ask", "create">>, tells |-> {"/documents"}, goes |-> "drawer"]
  @@ DocumentUploadForm

DocumentTells == {"/documents", "/documents/{document_id}"}

\* The dialog seeds itself again whenever the document it is given changes: the
\* table gives it the row as it was, the drawer its query's.
DocumentEditForm == [unmounts |-> TRUE] @@ LooseForm("DocumentEdit", "row")
DocumentEdit == [does |-> <<"write">>, tells |-> DocumentTells] @@ DocumentEditForm

DrawerDocumentEditForm == LooseForm("DrawerDocumentEdit", "live")
DrawerDocumentEdit ==
  [does |-> <<"write">>, tells |-> DocumentTells] @@ DrawerDocumentEditForm

\* onDeleted closes the drawer.
DocumentDelete ==
  [does |-> <<"remove">>, tells |-> {"/documents"}, goes |-> "page"]
  @@ Button("DocumentDelete")

DraftLetter == [does |-> <<"ask">>, tells |-> {}] @@ Button("DraftLetter")

DocumentsPage ==
  [roles |-> Members, list |-> {"/documents"}, detail |-> {"/documents/{document_id}"},
   away |-> {},
   offers |-> {Offer("DocumentUpload", Managers, "page", NewRow),
               Offer("DocumentEdit", Managers, "page", Standing),
               Offer("DraftLetter", Managers, "page", Standing),
               Offer("DrawerDocumentEdit", Managers, "drawer", Standing),
               Offer("DocumentDelete", Managers, "drawer", Standing)}]

-----------------------------------------------------------------------------
(* Letters                                                                 *)

\* "Save draft" and "Send" disable each other.
LetterComposeForm ==
  [blocks |-> {"LetterCompose", "LetterComposeAndSend"}, goes |-> "drawer"]
  @@ Dialog("LetterCompose", "blank")

\* invalidate, for a letter with a fund
LetterTells ==
  {"/communications", "/communications/{communication_id}",
   "/funds/{fund_id}/communications", "/dashboard"}

\* handleSaveDraft
LetterCompose == [does |-> <<"create">>, tells |-> LetterTells] @@ LetterComposeForm

\* handleSend: saved first, then sent.
LetterComposeAndSend ==
  [does |-> <<"create", "finish">>, tells |-> LetterTells, seeds |-> "none"]
  @@ LetterComposeForm

\* The same dialog for a draft in the drawer.
LetterEditForm ==
  [after |-> {"LetterSend"}, blocks |-> {"LetterEdit", "LetterEditAndSend"}]
  @@ Dialog("LetterEdit", "live")
LetterEdit == [does |-> <<"write">>, tells |-> LetterTells] @@ LetterEditForm
LetterEditAndSend ==
  [does |-> <<"write", "finish">>, tells |-> LetterTells, seeds |-> "none"]
  @@ LetterEditForm

LetterSend ==
  [does |-> <<"finish">>,
   tells |-> {"/communications", "/communications/{communication_id}",
              "/communications/{communication_id}/recipients/preview",
              "/funds/{fund_id}/communications"},
   misses |-> {"/dashboard"}]
  @@ Button("LetterSend")

\* LetterDetail shows its dialog and its buttons while the letter is a draft.
LetterOffers ==
  {Offer("LetterCompose", Managers, "page", NewRow),
   Offer("LetterComposeAndSend", Managers, "LetterCompose", NewRow),
   Offer("LetterEdit", Managers, "drawer", OpenOnly),
   Offer("LetterEditAndSend", Managers, "LetterEdit", OpenOnly),
   Offer("LetterSend", Managers, "drawer", OpenOnly)}

LettersPage ==
  [roles |-> Members, list |-> {"/communications"},
   detail |-> {"/communications/{communication_id}"},
   away |-> {"/funds/{fund_id}/communications", "/dashboard"}, offers |-> LetterOffers]

-----------------------------------------------------------------------------
(* Tasks and notifications                                                 *)

TaskTells == {"/tasks", "/dashboard"}
TaskCreateForm == Dialog("TaskCreate", "blank")
TaskCreate == [does |-> <<"create">>, tells |-> TaskTells] @@ TaskCreateForm

\* handleSetStatus, which nothing disables.
TaskSetStatus == [does |-> <<"finish">>, tells |-> TaskTells] @@ FreeButton
TaskReopen == [does |-> <<"reopen">>, tells |-> TaskTells] @@ FreeButton

TasksPage ==
  [roles |-> Members, list |-> {"/tasks"}, detail |-> {}, away |-> {"/dashboard"},
   offers |-> {Offer("TaskCreate", Managers, "page", NewRow),
               Offer("TaskSetStatus", Members, "page", OpenOnly),
               Offer("TaskReopen", Members, "page", {"done"})}]

NotificationTells == {"/notifications", "/dashboard"}
NotificationRead ==
  [does |-> <<"finish">>, tells |-> NotificationTells] @@ Button("NotificationRead")
NotificationArchive ==
  [does |-> <<"remove">>, tells |-> NotificationTells] @@ Button("NotificationArchive")
NotificationReadAll ==
  [does |-> <<"finish">>, tells |-> NotificationTells] @@ Button("NotificationReadAll")

NotificationsPage ==
  [roles |-> Members, list |-> {"/notifications"}, detail |-> {}, away |-> {"/dashboard"},
   offers |-> {Offer("NotificationRead", Members, "page", OpenOnly),
               Offer("NotificationArchive", Members, "page", Standing),
               Offer("NotificationReadAll", Members, "page", OpenOnly)}]

\* The investor app's page.
InvestorNotificationTells == {"/notifications", "/investor/dashboard/overview"}
InvestorNotificationRead ==
  [does |-> <<"finish">>, tells |-> InvestorNotificationTells]
  @@ Button("InvestorNotificationRead")
InvestorNotificationArchive ==
  [does |-> <<"remove">>, tells |-> InvestorNotificationTells]
  @@ Button("InvestorNotificationArchive")
InvestorNotificationReadAll ==
  [does |-> <<"finish">>, tells |-> InvestorNotificationTells]
  @@ Button("InvestorNotificationReadAll")

InvestorNotificationsPage ==
  [roles |-> {"lp"}, list |-> {"/notifications"}, detail |-> {},
   away |-> {"/investor/dashboard/overview"},
   offers |-> {Offer("InvestorNotificationRead", {"lp"}, "page", OpenOnly),
               Offer("InvestorNotificationArchive", {"lp"}, "page", Standing),
               Offer("InvestorNotificationReadAll", {"lp"}, "page", OpenOnly)}]

-----------------------------------------------------------------------------
(* Funds                                                                   *)

FundCreateForm == Dialog("FundCreate", "blank")
FundCreate ==
  [does |-> <<"create">>, tells |-> {"/funds"}, misses |-> {"/dashboard"}]
  @@ FundCreateForm

FundsPage ==
  [roles |-> Members, list |-> {"/funds"}, detail |-> {}, away |-> {"/dashboard"},
   offers |-> {Offer("FundCreate", Managers, "page", NewRow)}]

\* The fund dialog's new group, in place of the group's select.
FundGroupForm == LooseForm("FundGroupCreate", "blank")
FundGroupCreate ==
  [does |-> <<"create">>, tells |-> {"/fund-groups"}] @@ FundGroupForm
FundGroupField ==
  [roles |-> Managers, list |-> {"/fund-groups"}, detail |-> {}, away |-> {},
   offers |-> {Offer("FundGroupCreate", Managers, "page", NewRow)}]

\* The name in the row of FundGroupsCard; another row can be edited while one
\* is saved.  (A fund's row holds the key of its group, not its name.)
FundGroupRenameForm == LooseForm("FundGroupRename", "row")
FundGroupRename ==
  [does |-> <<"write">>, tells |-> {"/fund-groups"}] @@ FundGroupRenameForm
FundGroupDelete ==
  [does |-> <<"remove">>, tells |-> {"/fund-groups", "/funds"}] @@ Button("FundGroupDelete")

FundGroupsCard ==
  [roles |-> Managers, list |-> {"/fund-groups"}, detail |-> {}, away |-> {},
   offers |-> {Offer("FundGroupRename", Managers, "page", Standing),
               Offer("FundGroupDelete", Managers, "page", Standing)}]

ValuationTells ==
  {"/funds/{fund_id}/valuations", "/funds/{fund_id}/overview", "/funds"}
ValuationForm == LooseForm("ValuationCreate", "blank")
ValuationCreate == [does |-> <<"create">>, tells |-> ValuationTells] @@ ValuationForm
ValuationDelete ==
  [does |-> <<"remove">>, tells |-> ValuationTells] @@ Button("ValuationDelete")

FundValuationsCard ==
  [roles |-> Members,
   list |-> {"/funds/{fund_id}/valuations", "/funds/{fund_id}/overview"}, detail |-> {},
   away |-> {"/funds"},
   offers |-> {Offer("ValuationCreate", Managers, "page", NewRow),
               Offer("ValuationDelete", Managers, "page", Standing)}]

\* The settings keep what they were mounted with.
FundSettingsForm == Inline("FundSettings", "row")
FundSettings ==
  [does |-> <<"write">>,
   tells |-> {"/funds", "/funds/{fund_id}", "/funds/{fund_id}/overview",
              "/funds/by-slug/{slug}"},
   misses |-> {"/dashboard"}]
  @@ FundSettingsForm

\* onSuccess navigates to the funds; coming back to the archived fund, whose
\* "/funds/by-slug/{slug}" is not invalidated, is not followed.
FundArchive ==
  [does |-> <<"finish">>, tells |-> {"/funds", "/funds/{fund_id}", "/dashboard"},
   goes |-> "left"]
  @@ Button("FundArchive")

FundSettingsPage ==
  [roles |-> Managers, list |-> {"/funds/by-slug/{slug}"}, detail |-> {},
   away |-> {"/funds", "/dashboard"},
   offers |-> {Offer("FundSettings", Managers, "page", Standing),
               Offer("FundArchive", Managers, "page", Standing)}]

-----------------------------------------------------------------------------
(* The organization and its people                                         *)

OrganizationForm == Inline("OrganizationUpdate", "live")
OrganizationUpdate ==
  [does |-> <<"write">>,
   tells |-> {"/organizations/{organization_id}", "/organizations"},
   misses |-> {"/users/me/memberships"}]
  @@ OrganizationForm

OrganizationCard ==
  [roles |-> Managers, list |-> {"/organizations/{organization_id}"}, detail |-> {},
   away |-> {"/users/me/memberships"},
   offers |-> {Offer("OrganizationUpdate", Managers, "page", Standing)}]

\* handleRoleChange: the select of another member's row.
RoleChange == [does |-> <<"write">>, tells |-> {"/users", "/users/me"}] @@ FreeButton
TeamCard ==
  [roles |-> Managers, list |-> {"/users"}, detail |-> {}, away |-> {},
   offers |-> {Offer("RoleChange", {"admin"}, "page", Standing)}]

InviteUserForm == Dialog("InviteUser", "blank")
InviteUser == [does |-> <<"create">>, tells |-> {"/invitations"}] @@ InviteUserForm

\* "Resend" and "Revoke" disable each other.
InvitationButtons ==
  [blocks |-> {"InvitationResend", "InvitationRevoke"}] @@ Button("InvitationResend")
InvitationResend ==
  [does |-> <<"ask">>, tells |-> {"/invitations"}] @@ InvitationButtons
InvitationRevoke ==
  [does |-> <<"finish">>, tells |-> {"/invitations"}] @@ InvitationButtons

InvitationsCard ==
  [roles |-> Managers, list |-> {"/invitations"}, detail |-> {}, away |-> {},
   offers |-> {Offer("InviteUser", Managers, "page", NewRow),
               Offer("InvitationResend", Managers, "page", OpenOnly),
               Offer("InvitationRevoke", Managers, "page", OpenOnly)}]

\* The profile of the manager app, and the investor app's.
ProfileForm == Inline("ProfileUpdate", "live")
ProfileUpdate ==
  [does |-> <<"write">>, tells |-> {"/users/me"}, misses |-> {"/users"}] @@ ProfileForm
ProfilePage ==
  [roles |-> Members, list |-> {"/users/me"}, detail |-> {}, away |-> {"/users"},
   offers |-> {Offer("ProfileUpdate", Members, "page", Standing)}]

InvestorProfileForm == Inline("InvestorProfileUpdate", "live")
InvestorProfileUpdate ==
  [does |-> <<"write">>, tells |-> {"/users/me"}] @@ InvestorProfileForm
InvestorProfilePage ==
  [roles |-> {"lp"}, list |-> {"/users/me"}, detail |-> {}, away |-> {},
   offers |-> {Offer("InvestorProfileUpdate", {"lp"}, "page", Standing)}]

-----------------------------------------------------------------------------
(* The superadmin app                                                      *)

CreateOrganizationForm == Dialog("CreateOrganization", "blank")
CreateOrganization ==
  [does |-> <<"create">>, tells |-> {"/superadmin/organizations"},
   misses |-> {"/superadmin/users"}]
  @@ CreateOrganizationForm

OrganizationsPage ==
  [roles |-> Superadmin, list |-> {"/superadmin/organizations"}, detail |-> {},
   away |-> {"/superadmin/users"},
   offers |-> {Offer("CreateOrganization", Superadmin, "page", NewRow)}]

\* handleToggleActive: disable and enable.
OrganizationTells ==
  {"/superadmin/organizations/{organization_id}", "/superadmin/organizations"}
OrganizationButton ==
  [blocks |-> {"OrganizationDisable", "OrganizationEnable"}] @@ Button("OrganizationDisable")
OrganizationDisable ==
  [does |-> <<"finish">>, tells |-> OrganizationTells] @@ OrganizationButton
OrganizationEnable ==
  [does |-> <<"reopen">>, tells |-> OrganizationTells] @@ OrganizationButton

OrganizationHead ==
  [roles |-> Superadmin, list |-> {"/superadmin/organizations/{organization_id}"},
   detail |-> {}, away |-> {"/superadmin/organizations"},
   offers |-> {Offer("OrganizationDisable", Superadmin, "page", OpenOnly),
               Offer("OrganizationEnable", Superadmin, "page", {"done"})}]

AssignAdminForm == Dialog("AssignAdmin", "blank")
AssignAdmin ==
  [does |-> <<"create">>,
   tells |-> {"/superadmin/organizations/{organization_id}/members",
              "/superadmin/organizations"},
   misses |-> {"/superadmin/users"}]
  @@ AssignAdminForm

OrganizationMembers ==
  [roles |-> Superadmin,
   list |-> {"/superadmin/organizations/{organization_id}/members"}, detail |-> {},
   away |-> {"/superadmin/organizations", "/superadmin/users"},
   offers |-> {Offer("AssignAdmin", Superadmin, "page", NewRow)}]

WelcomeEmail == [does |-> <<"ask">>, tells |-> {}] @@ Button("WelcomeEmail")
InvestorDrip == [does |-> <<"ask">>, tells |-> {}] @@ Button("InvestorDrip")
UsersPage ==
  [roles |-> Superadmin, list |-> {"/superadmin/users"}, detail |-> {}, away |-> {},
   offers |-> {Offer("WelcomeEmail", Superadmin, "page", Standing),
               Offer("InvestorDrip", Superadmin, "page", Standing)}]

-----------------------------------------------------------------------------
Operations ==
  [CommitmentCreate |-> CommitmentCreate, CommitmentEdit |-> CommitmentEdit,
   CommitmentStatus |-> CommitmentStatus,
   DocumentUpload |-> DocumentUpload, DocumentEdit |-> DocumentEdit,
   DrawerDocumentEdit |-> DrawerDocumentEdit, DocumentDelete |-> DocumentDelete,
   DraftLetter |-> DraftLetter,
   LetterCompose |-> LetterCompose, LetterComposeAndSend |-> LetterComposeAndSend,
   LetterEdit |-> LetterEdit, LetterEditAndSend |-> LetterEditAndSend,
   LetterSend |-> LetterSend,
   TaskCreate |-> TaskCreate, TaskSetStatus |-> TaskSetStatus, TaskReopen |-> TaskReopen,
   NotificationRead |-> NotificationRead, NotificationArchive |-> NotificationArchive,
   NotificationReadAll |-> NotificationReadAll,
   InvestorNotificationRead |-> InvestorNotificationRead,
   InvestorNotificationArchive |-> InvestorNotificationArchive,
   InvestorNotificationReadAll |-> InvestorNotificationReadAll,
   FundCreate |-> FundCreate, FundGroupCreate |-> FundGroupCreate,
   FundGroupRename |-> FundGroupRename, FundGroupDelete |-> FundGroupDelete,
   ValuationCreate |-> ValuationCreate, ValuationDelete |-> ValuationDelete,
   FundSettings |-> FundSettings, FundArchive |-> FundArchive,
   OrganizationUpdate |-> OrganizationUpdate, RoleChange |-> RoleChange,
   InviteUser |-> InviteUser, InvitationResend |-> InvitationResend,
   InvitationRevoke |-> InvitationRevoke,
   ProfileUpdate |-> ProfileUpdate, InvestorProfileUpdate |-> InvestorProfileUpdate,
   CreateOrganization |-> CreateOrganization,
   OrganizationDisable |-> OrganizationDisable, OrganizationEnable |-> OrganizationEnable,
   AssignAdmin |-> AssignAdmin, WelcomeEmail |-> WelcomeEmail, InvestorDrip |-> InvestorDrip]

Screens ==
  [FundCommitmentsPage |-> FundCommitmentsPage,
   InvestorCommitmentsTab |-> InvestorCommitmentsTab,
   DocumentsPage |-> DocumentsPage, LettersPage |-> LettersPage,
   TasksPage |-> TasksPage, NotificationsPage |-> NotificationsPage,
   InvestorNotificationsPage |-> InvestorNotificationsPage,
   FundsPage |-> FundsPage, FundGroupField |-> FundGroupField,
   FundGroupsCard |-> FundGroupsCard,
   FundValuationsCard |-> FundValuationsCard, FundSettingsPage |-> FundSettingsPage,
   OrganizationCard |-> OrganizationCard, TeamCard |-> TeamCard,
   InvitationsCard |-> InvitationsCard,
   ProfilePage |-> ProfilePage, InvestorProfilePage |-> InvestorProfilePage,
   OrganizationsPage |-> OrganizationsPage, OrganizationHead |-> OrganizationHead,
   OrganizationMembers |-> OrganizationMembers, UsersPage |-> UsersPage]
=============================================================================
