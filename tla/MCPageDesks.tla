------------------------------ MODULE MCPageDesks ------------------------------
(***************************************************************************)
(* Pages of the web apps, one of them at work in a behavior: the bank      *)
(* import, a notice, any page of Forms, the lists read page by page, and   *)
(* the order of the register's table.  They share no state: the others     *)
(* stay as they are before anything is read.                               *)
(***************************************************************************)
EXTENDS ImportDesk, NoticeDesk, FormDesk, PageDesk, InvestorSort

CONSTANTS p1, p2, m1, m2

VARIABLE desk

webVars == <<desk, importVars, noticeVars, formVars, pageVars, sortVars>>

\* The role that is offered most on a page.
TopRole(s) ==
  CASE "superadmin" \in Screens[s].roles -> "superadmin"
    [] s = "TeamCard" -> "admin"
    [] Screens[s].roles = {"lp"} -> "lp"
    [] OTHER -> "fund_manager"

\* The pages with drawers or several requests, which get no other user.
Large == {"FundCommitmentsPage", "InvestorCommitmentsTab", "DocumentsPage", "LettersPage",
          "FundValuationsCard"}

PageLooks ==
  {<<s, TopRole(s), TRUE>> : s \in DOMAIN Screens}
  \cup {<<s, TopRole(s), FALSE>> : s \in DOMAIN Screens \ Large}
  \cup {<<s, "lp", FALSE>> : s \in {s \in DOMAIN Screens : "lp" \in Screens[s].roles}}

\* Two requests at a time on the pages whose buttons do not wait for each other.
Freer == {"TasksPage", "TeamCard", "NotificationsPage", "InvitationsCard",
          "FundGroupsCard", "UsersPage"}
AskedAtMost == [s \in DOMAIN Screens |-> IF s \in Freer THEN 2 ELSE 1]

\* The four lists of notices; on one of them other managers write too.
NoticeLooks ==
  {<<"call", "org", FALSE>>, <<"call", "fund", TRUE>>,
   <<"distribution", "org", TRUE>>, <<"distribution", "fund", TRUE>>}

AllLists == DOMAIN Lists

\* Every relation two texts can have, in both kinds of column.
Sample(n, t, f) ==
  [name |-> n, investor_code |-> t, investor_type |-> t, primary_contact |-> 2 - t,
   fund_count |-> f, total_committed |-> f]
SampleRows ==
  {Sample(1, t, 1) : t \in 0..2} \cup {Sample(2, 1, 0), Sample(3, 1, 1), Sample(4, 0, 2)}

NoImport ==
  /\ patient = TRUE
  /\ step = "upload" /\ uploading = FALSE
  /\ imported = 0 /\ uploads = 0
  /\ choice = NoRows /\ extra = [p \in Payments |-> {}]
  /\ applying = NoAssignments /\ recorded = NoRows
  /\ investors = {} /\ known = Unread({})
  /\ payer = NoPayment /\ onboarding = FirstStep /\ sent = {}

NoNotices ==
  /\ kind = "call" /\ page = "org" /\ noticeCalm = FALSE
  /\ notice = NoNotice
  /\ rows = Unread(NoNotice.status)
  /\ sheet = FALSE /\ detail = Unread(NoNotice)
  /\ draft = Blank /\ creating = "closed" /\ request = Idle

NoForm ==
  /\ screen = "UsersPage" /\ as = "superadmin" /\ quiet = TRUE /\ elsewhere = Nowhere
  /\ row = NoRow
  /\ cache = [k \in Screen.list |-> Unread(NoRow)]
  /\ place = "page" /\ editor = NoEditor /\ asked = {}

NoPage ==
  /\ paged = "UserList" /\ entries = <<>>
  /\ filter = "all" /\ pageNo = 0
  /\ pages = [k \in Keys |-> Unread(Nothing)]

MCInit ==
  \/ desk = "import" /\ ImportInit /\ NoNotices /\ NoForm /\ NoPage /\ SortInit
  \/ desk = "notice" /\ NoticeInit /\ NoImport /\ NoForm /\ NoPage /\ SortInit
  \/ desk = "form" /\ FormInit /\ NoImport /\ NoNotices /\ NoPage /\ SortInit
  \/ desk = "pages" /\ PageInit /\ NoImport /\ NoNotices /\ NoForm /\ SortInit
  \/ desk = "table" /\ SortInit /\ NoImport /\ NoNotices /\ NoForm /\ NoPage

MCNext ==
  /\ UNCHANGED desk
  /\ \/ /\ desk = "import" /\ ImportNext
        /\ UNCHANGED <<noticeVars, formVars, pageVars, sortVars>>
     \/ /\ desk = "notice" /\ NoticeNext
        /\ UNCHANGED <<importVars, formVars, pageVars, sortVars>>
     \/ /\ desk = "form" /\ FormNext
        /\ UNCHANGED <<importVars, noticeVars, pageVars, sortVars>>
     \/ /\ desk = "pages" /\ PageNext
        /\ UNCHANGED <<importVars, noticeVars, formVars, sortVars>>
     \/ /\ desk = "table" /\ SortNext
        /\ UNCHANGED <<importVars, noticeVars, formVars, pageVars>>

MCSpec == MCInit /\ [][MCNext]_webVars
=============================================================================
