--------------------------- MODULE PageDesks_proofs ---------------------------
(***************************************************************************)
(* What holds at the desks of MCPageDesks for any set of commitments,      *)
(* payers and statements, and for any number of requests at a time: a call *)
(* or distribution that went out has a recipient, its lists catch up with  *)
(* it, a payment is settled with its own payer's item, no page of Forms    *)
(* shows as fresh what was there before the user's own writes or loses     *)
(* what is typed into a waiting dialog, the register's order is sound, and *)
(* lists read page by page, of any page size, miss nothing while they      *)
(* grow.                                                                   *)
(***************************************************************************)
EXTENDS NoticeDesk, ImportDesk, FormDesk, PageDesk, InvestorSort, SumTheorems,
        SequenceTheorems, TLAPS

-----------------------------------------------------------------------------
(* Notices                                                                 *)

Notices == [status : Statuses \cup {"no notice"},
            items : SUBSET Commitments, paid : SUBSET Commitments]

NoticeRequests ==
  [op : {"send", "cancel"}]
  \cup [op : {"add"}, items : SUBSET Commitments]
  \cup [op : {"pay"}, of : Commitments, text : Typed]

NoticeTypeOK ==
  /\ notice \in Notices
  /\ detail \in [has : BOOLEAN, data : Notices, reading : BOOLEAN, stale : BOOLEAN]
  /\ draft \in {Blank} \cup [of : Commitments, text : Typed]
  /\ request \in {Idle} \cup NoticeRequests

\* A notice's allocations only grow: what the sheet shows of them, and what a
\* Send was clicked for, is still there when the request is handled.
NoticeInv ==
  /\ NoticeTypeOK
  /\ detail.data.items \subseteq notice.items
  /\ request.op = "send" => notice.items # {}
  /\ SentHasRecipients

\* Recomputing the status neither sends a notice nor touches its allocations.
LEMMA RecomputedKeeps ==
  ASSUME NEW n \in Notices
  PROVE  /\ Recomputed(n) \in Notices
         /\ Recomputed(n).items = n.items
         /\ n.status \in {"draft", "scheduled", "cancelled"}
              => Recomputed(n).status = n.status
<1>1. CASE n.status \in {"draft", "scheduled", "cancelled"}
  BY <1>1 DEF Recomputed
<1>2. CASE n.status \notin {"draft", "scheduled", "cancelled"}
  <2> DEFINE s == IF n.items # {} /\ n.paid = n.items THEN "paid"
                  ELSE IF n.paid # {} THEN "partially_paid" ELSE "sent"
  <2>1. s \in Statuses
    BY DEF Statuses
  <2>2. Recomputed(n) = [n EXCEPT !.status = s]
    BY <1>2 DEF Recomputed
  <2> HIDE DEF s
  <2> QED BY <1>2, <2>1, <2>2 DEF Notices
<1> QED BY <1>1, <1>2

\* What an accepted request makes of the notice: its allocations only grow, and
\* it goes out by a Send alone.
LEMMA NoticeHandled ==
  ASSUME notice \in Notices, SentHasRecipients, NEW m \in NoticeRequests,
         NoticeAccepted(m), m.op = "send" => notice.items # {},
         notice' = NoticeAfter(m)
  PROVE  notice' \in Notices /\ notice.items \subseteq notice'.items /\ SentHasRecipients'
<1>1. CASE m.op = "send"
  <2>1. notice' = [notice EXCEPT !.status = "sent"]
    BY <1>1 DEF NoticeAfter
  <2> QED BY <1>1, <2>1 DEF Notices, Statuses, SentHasRecipients
<1>2. CASE m.op = "cancel"
  <2>1. notice' = [notice EXCEPT !.status = "cancelled"]
    BY <1>2 DEF NoticeAfter
  <2> QED BY <2>1 DEF Notices, Statuses, SentHasRecipients
<1>3. CASE m.op = "add"
  <2> DEFINE n == [notice EXCEPT !.items = notice.items \cup m.items]
  <2>1. m.items \subseteq Commitments /\ notice.status # "no notice"
    BY <1>3 DEF NoticeRequests, NoticeAccepted
  <2>2. n \in Notices /\ notice.items \subseteq n.items /\ n.status = notice.status
    BY <2>1 DEF Notices
  <2>3. notice' = Recomputed(n)
    BY <1>3 DEF NoticeAfter
  <2> HIDE DEF n
  <2> QED BY <2>1, <2>2, <2>3, RecomputedKeeps DEF Notices, Statuses, SentHasRecipients
<1>4. CASE m.op = "pay"
  <2> DEFINE p == IF m.text = "all" THEN notice.paid \cup {m.of} ELSE notice.paid \ {m.of}
             n == [notice EXCEPT !.paid = p]
  <2>1. m.of \in notice.items
    BY <1>4 DEF NoticeAccepted
  <2>2. p \subseteq Commitments
    BY <2>1 DEF Notices
  <2>3. notice' = Recomputed(n)
    BY <1>4 DEF NoticeAfter
  <2> HIDE DEF p
  <2>4. n \in Notices /\ n.items = notice.items /\ n.status = notice.status
    BY <2>2 DEF Notices
  <2> HIDE DEF n
  <2>5. notice' \in Notices /\ notice'.items = notice.items
    BY <2>3, <2>4, RecomputedKeeps
  <2> QED BY <2>1, <2>5 DEF SentHasRecipients
<1> QED BY <1>1, <1>2, <1>3, <1>4 DEF NoticeRequests

\* A step that leaves the server's notice alone, and asks to send it only if it
\* has an allocation.
LEMMA DeskAlone ==
  ASSUME NoticeInv, notice' = notice, NoticeTypeOK',
         detail'.data.items \subseteq notice.items,
         request'.op = "send" => notice.items # {}
  PROVE  NoticeInv'
BY DEF NoticeInv, SentHasRecipients

\* Every step at the desk, and at another manager's.
LEMMA NoticeStep == NoticeInv /\ [NoticeNext]_noticeVars => NoticeInv'
<1> SUFFICES ASSUME NoticeInv, [NoticeNext]_noticeVars PROVE NoticeInv'
  OBVIOUS
<1> USE DEF NoticeTypeOK
<1>a. NoticeTypeOK /\ detail.data.items \subseteq notice.items
      /\ (request.op = "send" => notice.items # {}) /\ SentHasRecipients
  BY DEF NoticeInv
<1>b. NoNotice \in Notices /\ NoNotice.items = {} /\ Draft \in Notices /\ Draft.items = {}
      /\ Draft.status = "draft"
  BY DEF NoNotice, Draft, Notices, Statuses
<1>1. CASE UNCHANGED noticeVars
  BY <1>1, <1>a DEF noticeVars, NoticeInv, SentHasRecipients
<1>2. CASE OpenCreate \/ SubmitCreate \/ CloseCreate \/ CreateTwice \/ CloseSheet \/ RowsAnswered
  BY <1>2, <1>a, DeskAlone
  DEF OpenCreate, SubmitCreate, CloseCreate, CreateTwice, CloseSheet, RowsAnswered
<1>3. CASE SelectNotice
  BY <1>3, <1>a, DeskAlone DEF SelectNotice, OpenSheet, Mounted
<1>4. CASE SendNotice
  <2>1. notice.items # {}
    BY <1>4, <1>a DEF SendNotice, ShownNotice
  <2>2. [op |-> "send"] \in NoticeRequests
    BY DEF NoticeRequests
  <2> QED BY <1>4, <1>a, <2>1, <2>2, DeskAlone DEF SendNotice, Request
<1>5. ASSUME NEW m \in NoticeRequests, m.op # "send", Request(m)
      PROVE  NoticeInv'
  BY <1>5, <1>a, DeskAlone DEF Request
<1>6. CASE CancelNotice \/ AllocateProRata
  <2>1. /\ [op |-> "cancel"] \in NoticeRequests
        /\ [op |-> "add", items |-> Commitments] \in NoticeRequests
    BY DEF NoticeRequests
  <2> QED BY <1>5, <1>6, <2>1 DEF CancelNotice, AllocateProRata
<1>7. ASSUME NEW c \in Commitments, AddAllocation(c)
      PROVE  NoticeInv'
  <2>1. [op |-> "add", items |-> {c}] \in NoticeRequests
    BY DEF NoticeRequests
  <2> QED BY <1>5, <1>7, <2>1 DEF AddAllocation
<1>8. ASSUME NEW c \in Commitments, NEW t \in Typed, TypePayment(c, t)
      PROVE  NoticeInv'
  BY <1>8, <1>a, DeskAlone DEF TypePayment
<1>9. ASSUME NEW c \in Commitments, RecordPayment(c)
      PROVE  NoticeInv'
  <2>1. [op |-> "pay", of |-> c, text |-> draft.text] \in NoticeRequests
    BY <1>9, <1>a DEF RecordPayment, NoticeRequests
  <2> QED BY <1>5, <1>9, <2>1 DEF RecordPayment
<1>10. ASSUME NEW scopes, RequestSucceeds(scopes)
       PROVE  NoticeInv'
  <2>1. request \in NoticeRequests /\ NoticeAccepted(request) /\ notice' = NoticeAfter(request)
    BY <1>10, <1>a DEF RequestSucceeds
  <2>2. notice' \in Notices /\ notice.items \subseteq notice'.items /\ SentHasRecipients'
    BY <1>a, <2>1, NoticeHandled
  <2>3. detail' \in [has : BOOLEAN, data : Notices, reading : BOOLEAN, stale : BOOLEAN]
        /\ detail'.data = detail.data
    BY <1>10, <1>a DEF RequestSucceeds, Tell, Invalidated, Told
  <2>4. request' = Idle /\ draft' \in {draft, Blank}
    BY <1>10 DEF RequestSucceeds
  <2>5. request'.op # "send"
    BY <2>4 DEF Idle
  <2> QED BY <1>a, <2>2, <2>3, <2>4, <2>5 DEF NoticeInv
<1>11. CASE RequestFails
  <2>1. request' = Idle /\ request'.op # "send" /\ UNCHANGED <<detail, draft>>
    BY <1>11 DEF RequestFails, Idle
  <2>2. CASE notice' = notice
    BY <1>a, <2>1, <2>2, DeskAlone
  <2>3. CASE NoticeAccepted(request) /\ notice' = NoticeAfter(request)
    <3>1. request \in NoticeRequests
      BY <1>11, <1>a DEF RequestFails
    <3>2. notice' \in Notices /\ notice.items \subseteq notice'.items /\ SentHasRecipients'
      BY <1>a, <2>3, <3>1, NoticeHandled
    <3> QED BY <1>a, <2>1, <3>2 DEF NoticeInv
  <2> QED BY <1>11, <2>2, <2>3 DEF RequestFails
<1>12. ASSUME NEW m \in Elsewhere, NoticeWrittenElsewhere(m)
       PROVE  NoticeInv'
  <2>1. m \in NoticeRequests
    BY DEF Elsewhere, NoticeRequests
  <2>2. /\ NoticeAccepted(m) /\ (m.op = "send" => notice.items # {})
        /\ notice' = NoticeAfter(m) /\ UNCHANGED <<detail, draft, request>>
    BY <1>12 DEF NoticeWrittenElsewhere
  <2>3. notice' \in Notices /\ notice.items \subseteq notice'.items /\ SentHasRecipients'
    BY <1>a, <2>1, <2>2, NoticeHandled
  <2> QED BY <1>a, <2>2, <2>3 DEF NoticeInv
<1>13. ASSUME Created, UNCHANGED request,
              notice' \in Notices, notice.items \subseteq notice'.items, SentHasRecipients'
       PROVE  NoticeInv'
  <2>1. detail' \in [has : BOOLEAN, data : Notices, reading : BOOLEAN, stale : BOOLEAN]
        /\ detail'.data = NoNotice /\ draft' = Blank
    BY <1>13, <1>b DEF Created, OpenSheet, FirstRead, Mounted, Unread
  <2> QED BY <1>13, <1>a, <1>b, <2>1 DEF NoticeInv
<1>14. CASE CreateSucceeds
  <2>1. /\ notice' \in Notices /\ notice.items \subseteq notice'.items
        /\ SentHasRecipients' /\ UNCHANGED request
    BY <1>14, <1>b DEF CreateSucceeds, SentHasRecipients
  <2>2. CASE Created
    BY <1>13, <2>1, <2>2
  <2>3. CASE UNCHANGED <<detail, draft>>
    BY <1>a, <2>1, <2>3 DEF NoticeInv
  <2> QED BY <1>14, <2>2, <2>3 DEF CreateSucceeds
<1>15. CASE CreateFails
  <2>1. /\ notice' \in Notices /\ notice.items \subseteq notice'.items
        /\ SentHasRecipients' /\ UNCHANGED <<detail, draft, request>>
    BY <1>15, <1>a, <1>b DEF CreateFails, SentHasRecipients
  <2> QED BY <1>a, <2>1 DEF NoticeInv
<1>16. CASE AllocateEnds
  <2> DEFINE m == [op |-> "add", items |-> Commitments]
  <2>1. m \in NoticeRequests /\ m.op # "send"
    BY DEF NoticeRequests
  <2>2. notice' = notice \/ (NoticeAccepted(m) /\ notice' = NoticeAfter(m))
    BY <1>16 DEF AllocateEnds
  <2>3. Created /\ UNCHANGED request
    BY <1>16 DEF AllocateEnds
  <2> HIDE DEF m
  <2>4. notice' \in Notices /\ notice.items \subseteq notice'.items /\ SentHasRecipients'
    BY <1>a, <2>1, <2>2, NoticeHandled DEF SentHasRecipients
  <2> QED BY <1>13, <2>3, <2>4
<1>17. CASE DetailAnswered
  <2>1. detail' = Answered(notice) /\ UNCHANGED <<notice, draft, request>>
    BY <1>17 DEF DetailAnswered
  <2> QED BY <1>a, <2>1, DeskAlone DEF Answered
<1>18. CASE CallNext
  <2> USE DEF CallNext
  <2>1. CASE OpenCallCreate \/ OpenFundCallCreate \/ SubmitCall
    BY <2>1, <1>2 DEF OpenCallCreate, OpenFundCallCreate, SubmitCall
  <2>2. CASE SelectCall \/ SelectFundCall
    BY <2>2, <1>3 DEF SelectCall, SelectFundCall
  <2>3. CASE SendCall \/ CancelCall \/ AllocateCallProRata
    BY <2>3, <1>4, <1>6 DEF SendCall, CancelCall, AllocateCallProRata
  <2>4. ASSUME NEW c \in Commitments,
               AddCallAllocation(c) \/ TypeCallPayment(c) \/ RecordCallPayment(c)
        PROVE  NoticeInv'
    BY <2>4, <1>7, <1>8, <1>9 DEF AddCallAllocation, TypeCallPayment, RecordCallPayment
  <2>5. CASE CallRequestSucceeds
    BY <2>5, <1>10 DEF CallRequestSucceeds
  <2> QED BY <1>18, <2>1, <2>2, <2>3, <2>4, <2>5
<1>19. CASE DistributionNext
  <2> USE DEF DistributionNext
  <2>1. CASE OpenDistributionCreate \/ OpenFundDistributionCreate \/ SubmitDistribution
    BY <2>1, <1>2 DEF OpenDistributionCreate, OpenFundDistributionCreate, SubmitDistribution
  <2>2. CASE SelectDistribution \/ SelectFundDistribution
    BY <2>2, <1>3 DEF SelectDistribution, SelectFundDistribution
  <2>3. CASE SendDistribution \/ CancelDistribution \/ AllocateDistributionProRata
    BY <2>3, <1>4, <1>6 DEF SendDistribution, CancelDistribution, AllocateDistributionProRata
  <2>4. ASSUME NEW c \in Commitments,
               \/ AddDistributionAllocation(c) \/ TypeDistributionPayment(c)
               \/ RecordDistributionPayment(c)
        PROVE  NoticeInv'
    BY <2>4, <1>7, <1>8, <1>9
    DEF AddDistributionAllocation, TypeDistributionPayment, RecordDistributionPayment
  <2>5. CASE DistributionRequestSucceeds
    BY <2>5, <1>10 DEF DistributionRequestSucceeds
  <2> QED BY <1>19, <2>1, <2>2, <2>3, <2>4, <2>5
<1> QED
  BY <1>1, <1>2, <1>11, <1>12, <1>14, <1>15, <1>16, <1>17, <1>18, <1>19 DEF NoticeNext

\* The desk before its first read: there is no notice yet.
LEMMA NoticeInitially == NoticeInit => NoticeInv
<1> SUFFICES ASSUME NoticeInit PROVE NoticeInv
  OBVIOUS
<1>1. NoNotice \in Notices /\ NoNotice.items = {} /\ NoNotice.status = "no notice"
  BY DEF NoNotice, Notices
<1>2. notice = NoNotice /\ detail = Unread(NoNotice) /\ draft = Blank /\ request = Idle
  BY DEF NoticeInit
<1>3. /\ detail \in [has : BOOLEAN, data : Notices, reading : BOOLEAN, stale : BOOLEAN]
      /\ detail.data = NoNotice
  BY <1>1, <1>2 DEF Unread
<1>4. request.op # "send"
  BY <1>2 DEF Idle
<1> QED BY <1>1, <1>2, <1>3, <1>4 DEF NoticeInv, NoticeTypeOK, SentHasRecipients

\* Whatever was created, allocated, lost and retried, by whoever: a call or
\* distribution that is sent or paid was allocated to somebody.
THEOREM RecipientsTheorem == NoticeSpec => []SentHasRecipients
<1>1. NoticeInv => SentHasRecipients
  BY DEF NoticeInv
<1> QED BY <1>1, NoticeInitially, NoticeStep, PTL DEF NoticeSpec

\* A list's query, as the page of a notice uses it.
StatusQueries ==
  [has : BOOLEAN, data : Statuses \cup {"no notice"}, reading : BOOLEAN, stale : BOOLEAN]

\* What the page shows of a notice that nobody else writes: the list has the
\* status or is being read, unless the dialog has not finished, and so for the
\* sheet, which when it is closed may also have been marked to be read again.
\* Before there is a notice there is nothing to show or to allocate.
NoticeKept ==
  /\ creating # "allocate" => rows.reading \/ rows.data = notice.status
  /\ \/ detail.reading
     \/ detail.has /\ detail.data = notice
     \/ ~sheet /\ (~detail.has \/ detail.stale)
  /\ notice.status = "no notice" =>
       /\ rows.data = "no notice" /\ ~sheet /\ ~detail.has /\ ~detail.reading
       /\ creating # "allocate"

CatchUpInv ==
  /\ NoticeInv
  /\ kind \in {"call", "distribution"} /\ page \in {"org", "fund"}
  /\ noticeCalm \in BOOLEAN /\ sheet \in BOOLEAN
  /\ rows \in StatusQueries
  /\ noticeCalm => NoticeKept

\* The keys of all four pages, and of both sheets, are in the lists of keys that
\* a mutation of the sheet and the create dialog invalidate.
LEMMA KeysAreTold ==
  ASSUME page \in {"org", "fund"}
  PROVE  /\ kind = "call" => /\ Key(page) \in CallScopes /\ Key("detail") \in CallScopes
                             /\ Key(page) \in NewCallScopes
         /\ kind = "distribution" => /\ Key(page) \in DistributionScopes
                                     /\ Key("detail") \in DistributionScopes
                                     /\ Key(page) \in NewDistributionScopes
<1>1. /\ CallKeys.org = "/capital-calls"
      /\ CallKeys.fund = "/funds/{fund_id}/capital-calls"
      /\ CallKeys.detail = "/capital-calls/{call_id}"
  BY DEF CallKeys
<1>2. /\ DistributionKeys.org = "/distributions"
      /\ DistributionKeys.fund = "/funds/{fund_id}/distributions"
      /\ DistributionKeys.detail = "/distributions/{distribution_id}"
  BY DEF DistributionKeys
<1>3. ASSUME kind = "call" PROVE Key(page) = CallKeys[page] /\ Key("detail") = CallKeys.detail
  BY <1>3 DEF Key
<1>4. ASSUME kind = "distribution"
      PROVE  Key(page) = DistributionKeys[page] /\ Key("detail") = DistributionKeys.detail
  BY <1>4 DEF Key
<1>5. ASSUME kind = "call"
      PROVE  /\ Key(page) \in {"/capital-calls", "/funds/{fund_id}/capital-calls"}
             /\ Key("detail") = "/capital-calls/{call_id}"
  BY <1>1, <1>3, <1>5
<1>6. ASSUME kind = "distribution"
      PROVE  /\ Key(page) \in {"/distributions", "/funds/{fund_id}/distributions"}
             /\ Key("detail") = "/distributions/{distribution_id}"
  BY <1>2, <1>4, <1>6
<1> QED BY <1>5, <1>6 DEF CallScopes, NewCallScopes, DistributionScopes, NewDistributionScopes

\* The sheet opens over the notice the server has, or asks for it.
LEMMA CreatedKept ==
  ASSUME CatchUpInv, Created
  PROVE  /\ rows' \in StatusQueries /\ sheet' \in BOOLEAN
         /\ notice'.status # "no notice" => NoticeKept'
<1>1. rows' = Told(rows)
  BY KeysAreTold DEF Created, CatchUpInv
<1>2. rows' \in StatusQueries /\ rows'.reading
  BY <1>1 DEF Told, CatchUpInv, StatusQueries
<1>3. sheet' = TRUE
  BY DEF Created, OpenSheet
<1>4. detail'.reading
  BY DEF Created, FirstRead, Mounted, Unread
<1> QED BY <1>2, <1>3, <1>4 DEF NoticeKept

\* A notice that a request was accepted for exists, before and after.
LEMMA HandledExists ==
  ASSUME notice \in Notices, NEW m \in NoticeRequests, NoticeAccepted(m),
         notice' = NoticeAfter(m)
  PROVE  notice.status # "no notice" /\ notice'.status # "no notice"
<1>1. notice.status # "no notice"
  BY DEF NoticeAccepted, NoticeRequests
<1>2. ASSUME NEW n \in Notices, n.status # "no notice"
      PROVE  Recomputed(n).status # "no notice"
  <2>1. CASE n.status \in {"draft", "scheduled", "cancelled"}
    BY <1>2, <2>1 DEF Recomputed
  <2>2. CASE n.status \notin {"draft", "scheduled", "cancelled"}
    <3> DEFINE s == IF n.items # {} /\ n.paid = n.items THEN "paid"
                    ELSE IF n.paid # {} THEN "partially_paid" ELSE "sent"
    <3>1. s # "no notice"
      OBVIOUS
    <3>2. Recomputed(n) = [n EXCEPT !.status = s]
      BY <2>2 DEF Recomputed
    <3> HIDE DEF s
    <3> QED BY <3>1, <3>2 DEF Notices
  <2> QED BY <2>1, <2>2
<1>3. CASE m.op = "send" \/ m.op = "cancel"
  <2>1. \/ notice' = [notice EXCEPT !.status = "sent"]
        \/ notice' = [notice EXCEPT !.status = "cancelled"]
    BY <1>3 DEF NoticeAfter
  <2> QED BY <1>1, <2>1 DEF Notices
<1>4. CASE m.op = "add"
  <2> DEFINE n == [notice EXCEPT !.items = notice.items \cup m.items]
  <2>1. n \in Notices /\ n.status = notice.status
    BY <1>4 DEF Notices, NoticeRequests
  <2>2. notice' = Recomputed(n)
    BY <1>4 DEF NoticeAfter
  <2> HIDE DEF n
  <2> QED BY <1>1, <1>2, <2>1, <2>2
<1>5. CASE m.op = "pay"
  <2> DEFINE p == IF m.text = "all" THEN notice.paid \cup {m.of} ELSE notice.paid \ {m.of}
             n == [notice EXCEPT !.paid = p]
  <2>1. m.of \in Commitments
    BY <1>5 DEF NoticeRequests
  <2>2. p \subseteq Commitments
    BY <2>1 DEF Notices
  <2>3. notice' = Recomputed(n)
    BY <1>5 DEF NoticeAfter
  <2> HIDE DEF p
  <2>4. n \in Notices /\ n.status = notice.status
    BY <2>2 DEF Notices
  <2> HIDE DEF n
  <2> QED BY <1>1, <1>2, <2>3, <2>4
<1> QED BY <1>1, <1>3, <1>4, <1>5 DEF NoticeRequests

LEMMA CatchUpStep == CatchUpInv /\ [NoticeNext]_noticeVars => CatchUpInv'
<1> SUFFICES ASSUME CatchUpInv, [NoticeNext]_noticeVars PROVE CatchUpInv'
  OBVIOUS
<1>a. NoticeInv'
  BY NoticeStep DEF CatchUpInv
<1>b. /\ NoticeInv /\ rows \in StatusQueries /\ sheet \in BOOLEAN
      /\ kind \in {"call", "distribution"} /\ page \in {"org", "fund"}
      /\ noticeCalm \in BOOLEAN /\ (noticeCalm => NoticeKept)
      /\ notice \in Notices
      /\ detail \in [has : BOOLEAN, data : Notices, reading : BOOLEAN, stale : BOOLEAN]
      /\ request \in {Idle} \cup NoticeRequests
  BY DEF CatchUpInv, NoticeInv, NoticeTypeOK
<1>c. ASSUME UNCHANGED fixed, rows' \in StatusQueries, sheet' \in BOOLEAN,
             noticeCalm => NoticeKept'
      PROVE  CatchUpInv'
  BY <1>a, <1>b, <1>c DEF fixed, CatchUpInv
<1>d. NoNotice.status = "no notice" /\ Draft.status = "draft"
  BY DEF NoNotice, Draft
<1>1. CASE UNCHANGED noticeVars
  BY <1>1, <1>b, <1>c DEF noticeVars, fixed, NoticeKept
<1>2. CASE OpenCreate \/ SubmitCreate \/ CloseCreate \/ CreateTwice
  <2>1. /\ UNCHANGED <<fixed, notice, rows, sheet, detail>>
        /\ creating # "allocate" /\ creating' # "allocate"
    BY <1>2 DEF OpenCreate, SubmitCreate, CloseCreate, CreateTwice
  <2> QED BY <1>b, <1>c, <2>1 DEF NoticeKept
<1>3. CASE CloseSheet
  <2>1. UNCHANGED <<fixed, notice, rows, detail, creating>> /\ sheet' = FALSE
    BY <1>3 DEF CloseSheet
  <2> QED BY <1>b, <1>c, <2>1 DEF NoticeKept
<1>4. CASE SelectNotice
  <2>1. /\ UNCHANGED <<fixed, notice, rows, creating>> /\ sheet' = TRUE /\ ~sheet
        /\ detail' = Mounted(detail) /\ rows.data # "no notice"
    BY <1>4, <1>d DEF SelectNotice, OpenSheet
  <2>2. /\ detail'.has = detail.has /\ detail'.data = detail.data
        /\ detail'.reading = (detail.reading \/ ~detail.has \/ detail.stale)
    BY <1>b, <2>1 DEF Mounted
  <2> QED BY <1>b, <1>c, <2>1, <2>2 DEF NoticeKept
<1>5. ASSUME UNCHANGED <<fixed, notice, rows, sheet, detail, creating>> PROVE CatchUpInv'
  BY <1>5, <1>b, <1>c DEF NoticeKept
<1>6. ASSUME NEW c, \/ SendNotice \/ CancelNotice \/ AllocateProRata \/ AddAllocation(c)
                    \/ RecordPayment(c) \/ \E t : TypePayment(c, t)
      PROVE  CatchUpInv'
  BY <1>5, <1>6 DEF SendNotice, CancelNotice, AllocateProRata, AddAllocation, RecordPayment,
                    TypePayment, Request
<1>7. ASSUME NEW scopes, RequestSucceeds(scopes),
             Key(page) \in scopes, Key("detail") \in scopes
      PROVE  CatchUpInv'
  <2>1. /\ UNCHANGED <<fixed, sheet, creating>>
        /\ rows' = Told(rows) /\ detail' = Invalidated(detail, sheet)
    BY <1>7 DEF RequestSucceeds, Tell
  <2>2. notice'.status # "no notice"
    BY <1>7, <1>b, HandledExists DEF RequestSucceeds
  <2>3. rows' \in StatusQueries /\ rows'.reading
    BY <1>b, <2>1 DEF Told, StatusQueries
  <2>4. detail'.reading \/ (~sheet /\ (~detail'.has \/ detail'.stale))
    BY <1>b, <2>1 DEF Invalidated, Told
  <2> QED BY <1>b, <1>c, <2>1, <2>2, <2>3, <2>4 DEF NoticeKept
<1>8. CASE RequestFails
  <2>1. UNCHANGED <<fixed, rows, sheet, detail, creating>>
    BY <1>8 DEF RequestFails
  <2>2. noticeCalm => notice' = notice
    BY <1>8 DEF RequestFails
  <2> QED BY <1>b, <1>c, <2>1, <2>2 DEF NoticeKept
<1>9. ASSUME NEW m \in Elsewhere, NoticeWrittenElsewhere(m) PROVE CatchUpInv'
  BY <1>9, <1>b, <1>c DEF NoticeWrittenElsewhere
<1>10. CASE CreateSucceeds
  <2>1. notice'.status = "draft" /\ notice.status = "no notice" /\ UNCHANGED fixed
    BY <1>10, <1>d DEF CreateSucceeds
  <2>2. CASE creating = "create"
    BY <1>10, <1>c, <2>1, <2>2, CreatedKept DEF CreateSucceeds, Created
  <2>3. CASE creating # "create"
    <3>1. creating' = "allocate" /\ UNCHANGED <<rows, sheet, detail>>
      BY <1>10, <2>3 DEF CreateSucceeds
    <3> QED BY <1>b, <1>c, <2>1, <3>1 DEF NoticeKept
  <2> QED BY <2>2, <2>3
<1>11. CASE CreateFails
  <2>1. ~noticeCalm /\ UNCHANGED <<fixed, rows, sheet>>
    BY <1>11 DEF CreateFails
  <2> QED BY <1>b, <1>c, <2>1
<1>12. CASE AllocateEnds
  <2>1. Created /\ UNCHANGED fixed
    BY <1>12 DEF AllocateEnds
  <2> DEFINE m == [op |-> "add", items |-> Commitments]
  <2>2. notice' = notice \/ (NoticeAccepted(m) /\ notice' = NoticeAfter(m))
    BY <1>12 DEF AllocateEnds
  <2>3. m \in NoticeRequests
    BY DEF NoticeRequests
  <2> HIDE DEF m
  <2>4. noticeCalm => notice.status # "no notice"
    BY <1>12, <1>b DEF AllocateEnds, NoticeKept
  <2>5. noticeCalm => notice'.status # "no notice"
    BY <1>b, <2>2, <2>3, <2>4, HandledExists
  <2> QED BY <1>c, <2>1, <2>5, CreatedKept
<1>13. CASE RowsAnswered
  <2>1. UNCHANGED <<fixed, notice, sheet, detail, creating>> /\ rows' = Answered(notice.status)
    BY <1>13 DEF RowsAnswered
  <2>2. rows' \in StatusQueries /\ rows'.data = notice.status
    BY <1>b, <2>1 DEF Answered, StatusQueries, Notices
  <2> QED BY <1>b, <1>c, <2>1, <2>2 DEF NoticeKept
<1>14. CASE DetailAnswered
  <2>1. /\ UNCHANGED <<fixed, notice, rows, sheet, creating>>
        /\ detail.reading /\ detail' = Answered(notice)
    BY <1>14 DEF DetailAnswered
  <2>2. detail'.has /\ detail'.data = notice
    BY <2>1 DEF Answered
  <2> QED BY <1>b, <1>c, <2>1, <2>2 DEF NoticeKept
<1>15. CASE CallNext
  <2>1. CASE OpenCallCreate \/ OpenFundCallCreate \/ SubmitCall
    BY <2>1, <1>2 DEF OpenCallCreate, OpenFundCallCreate, SubmitCall
  <2>2. CASE SelectCall \/ SelectFundCall
    BY <2>2, <1>4 DEF SelectCall, SelectFundCall
  <2>3. CASE SendCall \/ CancelCall \/ AllocateCallProRata
    BY <2>3, <1>6 DEF SendCall, CancelCall, AllocateCallProRata
  <2>4. ASSUME NEW c \in Commitments,
               AddCallAllocation(c) \/ TypeCallPayment(c) \/ RecordCallPayment(c)
        PROVE  CatchUpInv'
    BY <2>4, <1>6 DEF AddCallAllocation, TypeCallPayment, RecordCallPayment
  <2>5. CASE CallRequestSucceeds
    BY <2>5, <1>b, <1>7, KeysAreTold DEF CallRequestSucceeds
  <2> QED BY <1>15, <2>1, <2>2, <2>3, <2>4, <2>5 DEF CallNext
<1>16. CASE DistributionNext
  <2>1. CASE OpenDistributionCreate \/ OpenFundDistributionCreate \/ SubmitDistribution
    BY <2>1, <1>2 DEF OpenDistributionCreate, OpenFundDistributionCreate, SubmitDistribution
  <2>2. CASE SelectDistribution \/ SelectFundDistribution
    BY <2>2, <1>4 DEF SelectDistribution, SelectFundDistribution
  <2>3. CASE SendDistribution \/ CancelDistribution \/ AllocateDistributionProRata
    BY <2>3, <1>6 DEF SendDistribution, CancelDistribution, AllocateDistributionProRata
  <2>4. ASSUME NEW c \in Commitments,
               \/ AddDistributionAllocation(c) \/ TypeDistributionPayment(c)
               \/ RecordDistributionPayment(c)
        PROVE  CatchUpInv'
    BY <2>4, <1>6
    DEF AddDistributionAllocation, TypeDistributionPayment, RecordDistributionPayment
  <2>5. CASE DistributionRequestSucceeds
    BY <2>5, <1>b, <1>7, KeysAreTold DEF DistributionRequestSucceeds
  <2> QED BY <1>16, <2>1, <2>2, <2>3, <2>4, <2>5 DEF DistributionNext
<1> QED
  BY <1>1, <1>2, <1>3, <1>8, <1>9, <1>10, <1>11, <1>12, <1>13, <1>14, <1>15, <1>16
  DEF NoticeNext

LEMMA CatchUpInitially == NoticeInit => CatchUpInv
<1> SUFFICES ASSUME NoticeInit PROVE CatchUpInv
  OBVIOUS
<1>1. NoNotice.status = "no notice"
  BY DEF NoNotice
<1>2. rows = FirstRead("no notice") /\ notice = NoNotice
  BY DEF NoticeInit
<1>3. rows \in StatusQueries /\ rows.reading /\ rows.data = "no notice"
  BY <1>2 DEF FirstRead, Mounted, Unread, StatusQueries
<1>4. /\ detail.has = FALSE /\ detail.reading = FALSE /\ sheet = FALSE
      /\ creating # "allocate"
  BY DEF NoticeInit, Unread
<1>5. NoticeKept
  BY <1>1, <1>2, <1>3, <1>4 DEF NoticeKept
<1>6. kind \in {"call", "distribution"} /\ page \in {"org", "fund"} /\ noticeCalm \in BOOLEAN
  BY DesksAssumption DEF NoticeInit
<1> QED BY <1>3, <1>4, <1>5, <1>6, NoticeInitially DEF CatchUpInv

\* On each of the four pages, whatever was created, sent, paid, allocated or
\* cancelled from them and whenever sheets were closed and opened meanwhile: the
\* list and the sheet of a manager whom nobody interferes with end up with what
\* the server has of the page's one notice.
THEOREM CatchUpTheorem == NoticeSpec => []NoticeCatchesUp
<1>1. CatchUpInv => NoticeCatchesUp
  BY DEF CatchUpInv, NoticeKept, NoticeCatchesUp
<1> QED BY <1>1, CatchUpInitially, CatchUpStep, PTL DEF NoticeSpec

-----------------------------------------------------------------------------
(* The bank import wizard                                                  *)

Selects == Payments \cup {NoPayment, Unassigned, Ignored, Suggestion}

OnboardingRequests ==
  [op : {"investor", "commitment", "item"}, at : Payments, for : Payments]

WizardTypeOK ==
  /\ choice \in [Payments -> Selects]
  /\ extra \in [Payments -> SUBSET Payments]
  /\ recorded \in [Payments -> Selects]
  /\ DOMAIN applying \subseteq Payments
  /\ payer \in Payments \cup {NoPayment}
  /\ onboarding \in [step : {"investor", "commitment", "item"},
                     investor : Payments \cup {NoPayment},
                     commitment : Payments \cup {NoPayment}]
  /\ sent \subseteq OnboardingRequests

\* Of a manager who waits: one request at a time, of the step and the payer the
\* dialog shows, and nothing created for one payer is offered to another.
WizardInv ==
  /\ WizardTypeOK
  /\ patient =>
       /\ \A m \in sent : m.op = onboarding.step /\ m.at = payer /\ m.for = payer
       /\ \A m, n \in sent : m = n
       /\ payer = NoPayment => sent = {}
       /\ payer # NoPayment => /\ onboarding.investor \in {NoPayment, payer}
                               /\ onboarding.commitment \in {NoPayment, payer}
       /\ \A p \in Payments :
            /\ extra[p] \subseteq {p}
            /\ choice[p] \in {NoPayment, Unassigned, Ignored, Suggestion, p}
            /\ recorded[p] \in {NoPayment, Suggestion, p}
       /\ \A p \in DOMAIN applying : applying[p] \in {Suggestion, p}
  /\ \A p \in DOMAIN applying : applying[p] \in Selects

\* Steps of the wizard beside its dialog.
LEMMA ReviewStep ==
  ASSUME WizardInv, UNCHANGED <<patient, extra, dialogVars>>,
         choice' \in [Payments -> Selects], recorded' \in [Payments -> Selects],
         DOMAIN applying' \subseteq Payments,
         \A p \in DOMAIN applying' : applying'[p] \in Selects,
         patient => /\ \A p \in Payments :
                         /\ choice'[p] \in {NoPayment, Unassigned, Ignored, Suggestion, p}
                         /\ recorded'[p] \in {NoPayment, Suggestion, p}
                    /\ \A p \in DOMAIN applying' : applying'[p] \in {Suggestion, p}
  PROVE  WizardInv'
BY DEF WizardInv, WizardTypeOK, dialogVars

\* Steps of the dialog that give no row an item.
LEMMA DialogStep ==
  ASSUME WizardInv, UNCHANGED <<patient, choice, extra, recorded, applying>>,
         payer' \in Payments \cup {NoPayment},
         onboarding' \in [step : {"investor", "commitment", "item"},
                          investor : Payments \cup {NoPayment},
                          commitment : Payments \cup {NoPayment}],
         sent' \subseteq OnboardingRequests,
         patient =>
           /\ \A m \in sent' : m.op = onboarding'.step /\ m.at = payer' /\ m.for = payer'
           /\ \A m, n \in sent' : m = n
           /\ payer' = NoPayment => sent' = {}
           /\ payer' # NoPayment => /\ onboarding'.investor \in {NoPayment, payer'}
                                    /\ onboarding'.commitment \in {NoPayment, payer'}
  PROVE  WizardInv'
BY DEF WizardInv, WizardTypeOK

\* A step's request: the dialog's own, for what was created for its payer.
LEMMA StepAsked ==
  ASSUME WizardInv, NEW op \in {"investor", "commitment", "item"}, NEW of \in Payments,
         op = onboarding.step, AskFor([op |-> op, at |-> payer, for |-> of]),
         payer # NoPayment => (patient => of = payer)
  PROVE  WizardInv'
<1> DEFINE m == [op |-> op, at |-> payer, for |-> of]
<1>1. /\ payer # NoPayment /\ sent' = sent \cup {m} /\ \A n \in sent : n.op # op
      /\ UNCHANGED <<patient, choice, extra, recorded, applying, payer, onboarding>>
  BY DEF AskFor, OnboardingPending, wizardVars
<1>2. payer \in Payments /\ m \in OnboardingRequests
  BY <1>1 DEF WizardInv, WizardTypeOK, OnboardingRequests
<1>3. m.op = op /\ m.at = payer /\ m.for = of
  OBVIOUS
<1> HIDE DEF m
<1>4. patient => sent = {}
  BY <1>1 DEF WizardInv
<1> QED BY <1>1, <1>2, <1>3, <1>4, DialogStep DEF WizardInv, WizardTypeOK

\* Every step of the wizard and its dialog.
LEMMA WizardStep == WizardInv /\ [ImportNext]_importVars => WizardInv'
<1> SUFFICES ASSUME WizardInv, [ImportNext]_importVars PROVE WizardInv'
  OBVIOUS
<1>1. CASE UNCHANGED importVars
  BY <1>1, ReviewStep DEF importVars, dialogVars, WizardInv, WizardTypeOK
<1>2. CASE DropFile \/ FileIsRefused \/ KnownAnswered
  BY <1>2, ReviewStep
  DEF DropFile, FileIsRefused, KnownAnswered, wizardVars, WizardInv, WizardTypeOK
<1>3. CASE FileIsRead
  <2> DEFINE c == [p \in Payments |->
                     IF p[1] = imported' THEN InitialRow(p) ELSE NoPayment]
  <2>1. \A p \in Payments : c[p] \in {NoPayment, Suggestion, Unassigned}
    BY DEF InitialRow
  <2>2. c \in [Payments -> Selects]
    BY <2>1 DEF Selects
  <2>3. choice' = c /\ UNCHANGED <<patient, extra, applying, recorded, dialogVars>>
    BY <1>3 DEF FileIsRead
  <2> HIDE DEF c
  <2> QED BY <2>1, <2>2, <2>3, ReviewStep DEF WizardInv, WizardTypeOK
<1>4. ASSUME NEW p \in Payments, NEW c \in CandidatesFor(p) \cup {Unassigned, Ignored},
             Choose(p, c)
      PROVE  WizardInv'
  <2>1. /\ choice' = [choice EXCEPT ![p] = c]
        /\ UNCHANGED <<patient, extra, applying, recorded, dialogVars>>
    BY <1>4 DEF Choose, wizardVars
  <2>2. c \in Selects /\ (patient => c \in {Unassigned, Ignored, Suggestion, p})
    BY <1>4 DEF CandidatesFor, Selects, WizardInv, WizardTypeOK
  <2> QED BY <2>1, <2>2, ReviewStep DEF WizardInv, WizardTypeOK
<1>5. CASE ApplyPayments
  <2> DEFINE S == {p \in Review : Assigned(p)}
             a == [p \in S |-> choice[p]]
  <2>1. S \subseteq Payments
    BY DEF Review
  <2>2. DOMAIN a = S /\ \A p \in S : a[p] = choice[p]
    OBVIOUS
  <2>3. \A p \in S : choice[p] \notin {NoPayment, Unassigned, Ignored}
    BY DEF Assigned
  <2>4. applying' = a /\ UNCHANGED <<patient, choice, extra, recorded, dialogVars>>
    BY <1>5 DEF ApplyPayments
  <2> HIDE DEF a, S
  <2> QED BY <2>1, <2>2, <2>3, <2>4, ReviewStep DEF WizardInv, WizardTypeOK
<1>6. CASE ApplySucceeds \/ ApplyFails
  <2>1. /\ applying' = NoAssignments /\ recorded' \in {recorded, Recorded}
        /\ UNCHANGED <<patient, choice, extra, dialogVars>>
    BY <1>6 DEF ApplySucceeds, ApplyFails
  <2>2. DOMAIN NoAssignments = {}
    BY DEF NoAssignments
  <2>3. Recorded \in [Payments -> Selects]
    BY DEF Recorded, WizardInv, WizardTypeOK
  <2>4. \A p \in Payments : Recorded[p] \in {recorded[p], applying[p]}
                            /\ (p \notin DOMAIN applying => Recorded[p] = recorded[p])
    BY DEF Recorded
  <2> QED BY <2>1, <2>2, <2>3, <2>4, ReviewStep DEF WizardInv, WizardTypeOK
<1>7. CASE BackToUpload
  <2>1. /\ choice' = NoRows /\ UNCHANGED <<patient, extra, applying, recorded, dialogVars>>
    BY <1>7 DEF BackToUpload
  <2>2. NoRows \in [Payments -> Selects] /\ \A p \in Payments : NoRows[p] = NoPayment
    BY DEF NoRows, Selects
  <2> QED BY <2>1, <2>2, ReviewStep DEF WizardInv, WizardTypeOK
<1>8. ASSUME NEW p \in Payments, OpenPayer(p)
      PROVE  WizardInv'
  <2>1. /\ payer = NoPayment /\ payer' = p /\ onboarding' = FirstStep /\ sent' = sent
        /\ UNCHANGED <<patient, choice, extra, recorded, applying>>
    BY <1>8 DEF OpenPayer, Reviewing, wizardVars
  <2>2. FirstStep.investor = NoPayment /\ FirstStep.commitment = NoPayment
        /\ FirstStep \in [step : {"investor", "commitment", "item"},
                          investor : Payments \cup {NoPayment},
                          commitment : Payments \cup {NoPayment}]
    BY DEF FirstStep
  <2> QED BY <2>1, <2>2, DialogStep DEF WizardInv, WizardTypeOK
<1>9. CASE DismissPayer \/ SkipStep
  <2>1. /\ payer' = NoPayment /\ UNCHANGED <<onboarding, sent>>
        /\ UNCHANGED <<patient, choice, extra, recorded, applying>>
        /\ patient => sent = {} \/ \A m \in sent : m.op # onboarding.step
    BY <1>9 DEF DismissPayer, SkipStep, OnboardingPending, wizardVars
  <2>2. patient => sent = {}
    BY <2>1 DEF WizardInv
  <2> QED BY <2>1, <2>2, DialogStep DEF WizardInv, WizardTypeOK
<1>10. CASE CreateInvestor
  <2>1. onboarding.step = "investor" /\ payer # NoPayment
        /\ AskFor([op |-> "investor", at |-> payer, for |-> payer])
    BY <1>10 DEF CreateInvestor, AskFor
  <2>2. payer \in Payments
    BY <2>1 DEF WizardInv, WizardTypeOK
  <2> QED BY <2>1, <2>2, StepAsked
<1>11. CASE CreateCommitment
  <2>1. onboarding.step = "commitment" /\ onboarding.investor # NoPayment
        /\ AskFor([op |-> "commitment", at |-> payer, for |-> onboarding.investor])
    BY <1>11 DEF CreateCommitment
  <2>2. onboarding.investor \in Payments
        /\ (payer # NoPayment => (patient => onboarding.investor = payer))
    BY <2>1 DEF WizardInv, WizardTypeOK
  <2> QED BY <2>1, <2>2, StepAsked
<1>12. CASE CreateItem
  <2>1. onboarding.step = "item" /\ onboarding.commitment # NoPayment
        /\ AskFor([op |-> "item", at |-> payer, for |-> onboarding.commitment])
    BY <1>12 DEF CreateItem
  <2>2. onboarding.commitment \in Payments
        /\ (payer # NoPayment => (patient => onboarding.commitment = payer))
    BY <2>1 DEF WizardInv, WizardTypeOK
  <2> QED BY <2>1, <2>2, StepAsked
<1>13. ASSUME NEW m \in sent,
              InvestorCreated(m) \/ CommitmentCreated(m)
       PROVE  WizardInv'
  <2>1. m \in OnboardingRequests /\ m.for \in Payments
    BY DEF WizardInv, WizardTypeOK, OnboardingRequests
  <2>2. /\ sent' = sent \ {m} /\ payer' = payer
        /\ UNCHANGED <<patient, choice, extra, recorded, applying>>
        /\ \/ onboarding' = [onboarding EXCEPT !.investor = m.for, !.step = "commitment"]
           \/ onboarding' = [onboarding EXCEPT !.commitment = m.for, !.step = "item"]
    BY <1>13 DEF InvestorCreated, CommitmentCreated, wizardVars
  <2>3. /\ onboarding' \in [step : {"investor", "commitment", "item"},
                            investor : Payments \cup {NoPayment},
                            commitment : Payments \cup {NoPayment}]
        /\ onboarding'.investor \in {onboarding.investor, m.for}
        /\ onboarding'.commitment \in {onboarding.commitment, m.for}
    BY <2>1, <2>2 DEF WizardInv, WizardTypeOK
  <2>4. patient => sent' = {} /\ payer # NoPayment /\ m.for = payer
    BY <2>2 DEF WizardInv
  <2> QED BY <2>2, <2>3, <2>4, DialogStep DEF WizardInv, WizardTypeOK
<1>14. ASSUME NEW m \in sent, ItemCreated(m)
       PROVE  WizardInv'
  <2>1. m.at \in Payments /\ m.for \in Payments
    BY DEF WizardInv, WizardTypeOK, OnboardingRequests
  <2>2. /\ sent' = sent \ {m} /\ payer' = NoPayment
        /\ extra' = [extra EXCEPT ![m.at] = extra[m.at] \cup {m.for}]
        /\ choice' = [choice EXCEPT ![m.at] = m.for]
        /\ UNCHANGED <<patient, recorded, applying, onboarding>>
    BY <1>14 DEF ItemCreated, wizardVars
  <2>3. /\ extra' \in [Payments -> SUBSET Payments]
        /\ choice' \in [Payments -> Selects]
    BY <2>1, <2>2 DEF WizardInv, WizardTypeOK, Selects
  <2>4. patient => sent' = {} /\ m.for = m.at
    BY <2>2 DEF WizardInv
  <2>5. patient => \A p \in Payments :
                     /\ extra'[p] \subseteq {p}
                     /\ choice'[p] \in {NoPayment, Unassigned, Ignored, Suggestion, p}
    BY <2>1, <2>2, <2>4 DEF WizardInv, WizardTypeOK
  <2> QED BY <2>2, <2>3, <2>4, <2>5 DEF WizardInv, WizardTypeOK
<1>15. ASSUME NEW m \in sent, OnboardingFails(m)
       PROVE  WizardInv'
  <2>1. /\ sent' = sent \ {m}
        /\ UNCHANGED <<patient, choice, extra, recorded, applying, payer, onboarding>>
    BY <1>15 DEF OnboardingFails, wizardVars
  <2> QED BY <2>1, DialogStep DEF WizardInv, WizardTypeOK
<1> QED
  BY <1>1, <1>2, <1>3, <1>4, <1>5, <1>6, <1>7, <1>8, <1>9, <1>10, <1>11, <1>12,
     <1>13, <1>14, <1>15
  DEF ImportNext

\* The wizard before its first statement.
LEMMA WizardInitially == ImportInit => WizardInv
<1> SUFFICES ASSUME ImportInit PROVE WizardInv
  OBVIOUS
<1>1. NoRows \in [Payments -> Selects] /\ \A p \in Payments : NoRows[p] = NoPayment
  BY DEF NoRows, Selects
<1>2. FirstStep \in [step : {"investor", "commitment", "item"},
                     investor : Payments \cup {NoPayment},
                     commitment : Payments \cup {NoPayment}]
  BY DEF FirstStep
<1>3. DOMAIN NoAssignments = {}
  BY DEF NoAssignments
<1> QED BY <1>1, <1>2, <1>3 DEF ImportInit, WizardInv, WizardTypeOK

\* However statements are uploaded, reviewed, applied and started over, and
\* whichever request fails: a manager who does not leave the dialog in the
\* middle of a request settles no payment with another payer's item.
THEOREM PayerTheorem == ImportSpec => []PatientOwnPayer
<1>1. WizardInv => PatientOwnPayer
  BY DEF WizardInv, PatientOwnPayer, OwnPayer
<1> QED BY <1>1, WizardInitially, WizardStep, PTL DEF ImportSpec

-----------------------------------------------------------------------------
(* Forms                                                                   *)

\* An answer that counts as fresh, and nothing that is on its way replaces it.
Fresh(q) == q.has /\ ~q.reading /\ ~q.stale
Fields == {"has", "data", "reading", "stale"}
\* A request whose success the page still hears of, the forms that are unmounted
\* as they close, and a request whose success closes the waiting dialog d.
Mine(m) == Heard(m)
Vanishing == {p \in DOMAIN Operations : Operations[p].unmounts}
Closing(m, d) == Mine(m) /\ d \in Operations[m.op].closes /\ Operations[d].waits

\* Where the user can be and what there is of the row: a page that has nothing
\* beside it is not gone away from, and the row of a page that can remove none
\* stays.
FormTypes ==
  /\ screen \in DOMAIN Screens
  /\ elsewhere \in (IF Screen.away = {} THEN {Nowhere} ELSE Screen.away)
  /\ place \in {"page", "drawer", "away", "left"}
  /\ elsewhere = Nowhere => place \notin {"away", "left"}
  /\ DOMAIN cache = Screen.list \cup Screen.detail \cup {elsewhere}
  /\ \A k \in DOMAIN cache : DOMAIN cache[k] = Fields
  /\ DOMAIN row = {"status", "text"}
  /\ row = NoRow \/ row.status \in Standing \cup {"gone"}
  /\ Plainly(screen) => row.status # "gone" /\ place # "left"

\* The open form is one of the page's, and there is none where one is gone for
\* good.
EditorInv ==
  /\ DOMAIN editor = {"op", "of", "text", "typed"}
  /\ \/ editor = NoEditor
     \/ /\ \E o \in Screen.offers : o.op = editor.op
        /\ Operations[editor.op].seeds # "none"
  /\ place = "left" => editor = NoEditor

\* A request under way is an operation of the page, and what is left of it is
\* the end of what the operation does.
RequestsInv ==
  \A m \in asked :
    LET does == Operations[m.op].does IN
    /\ DOMAIN m = {"op", "of", "text", "from", "left"}
    /\ \E o \in Screen.offers : o.op = m.op
    /\ m.left \in Seq(Steps) \ {<<>>}
    /\ Len(m.left) <= Len(does)
    /\ \A i \in 1..Len(m.left) : m.left[i] = does[i + Len(does) - Len(m.left)]
    /\ m.from = "closed form" => m.op \in Vanishing

\* While a request is under way that closes a waiting dialog, that dialog is
\* open, shows the row of the request, and no other request would close it.
DialogInv ==
  place # "left" =>
    \A m \in asked : \A d \in DOMAIN Operations :
      Closing(m, d)
        => /\ editor.op = d /\ editor.of = m.of
           /\ \A n \in asked : Closing(n, d) => n = m

\* Before there is a row nothing shows one: no drawer was opened, no form is
\* another row's, and the drawer's keys were never read.
NoneInv ==
  row = NoRow =>
    /\ place # "drawer" /\ editor.of = "row" /\ \A m \in asked : m.of = "row"
    /\ \A k \in DOMAIN cache :
         /\ cache[k].data = NoRow
         /\ k \in Screen.detail => ~cache[k].has /\ ~cache[k].reading

\* The keys that are still looked at and that every operation tells, and what is
\* fresh of them: the row as it is, or what a request under way is going to tell
\* of.
Looked == (IF place = "left" THEN {elsewhere} ELSE DOMAIN cache) \ Missed
ShownInv ==
  /\ elsewhere = Nowhere => ~cache[Nowhere].has /\ ~cache[Nowhere].reading
  /\ quiet => \A k \in Looked : Fresh(cache[k])
                => \/ cache[k].data = row
                   \/ k \in Screen.detail /\ row.status = "gone"
                   \/ Plainly(screen) /\ \E m \in asked : k \in Operations[m.op].tells

\* Mounting a query, going to a place, and invalidating keys leave what was
\* answered, and make nothing fresh; what was invalidated is not fresh.
LEMMA MountedKeeps ==
  ASSUME NEW q, DOMAIN q = Fields
  PROVE  /\ DOMAIN Mounted(q) = Fields
         /\ Mounted(q).data = q.data
         /\ Mounted(q).has = q.has
         /\ Fresh(Mounted(q)) => Fresh(q)
  BY DEF Mounted, Fresh, Fields

LEMMA EnterKeeps ==
  ASSUME NEW p, NEW c, NEW D, DOMAIN c = D,
         \A k \in D : DOMAIN c[k] = Fields,
         Enter(p, c)
  PROVE  /\ place' = p
         /\ DOMAIN cache' = D
         /\ \A k \in D :
              /\ DOMAIN cache'[k] = Fields
              /\ cache'[k].data = c[k].data
              /\ cache'[k].has = c[k].has
              /\ Fresh(cache'[k]) => Fresh(c[k])
              /\ k \notin MountedAt(p) => cache'[k] = c[k]
<1>1. /\ place' = p
      /\ cache' = [k \in D |-> IF k \in MountedAt(p) \ MountedAt(place)
                               THEN Mounted(c[k]) ELSE c[k]]
  BY DEF Enter
<1>2. DOMAIN cache' = D
  BY <1>1
<1>3. ASSUME NEW k \in D
      PROVE  /\ DOMAIN cache'[k] = Fields
             /\ cache'[k].data = c[k].data
             /\ cache'[k].has = c[k].has
             /\ Fresh(cache'[k]) => Fresh(c[k])
             /\ k \notin MountedAt(p) => cache'[k] = c[k]
  <2>1. CASE k \in MountedAt(p) \ MountedAt(place)
    <3>1. cache'[k] = Mounted(c[k])
      BY <1>1, <2>1
    <3>2. DOMAIN c[k] = Fields
      OBVIOUS
    <3>3. QED  BY <2>1, <3>1, <3>2, MountedKeeps
  <2>2. CASE k \notin MountedAt(p) \ MountedAt(place)
    <3>1. cache'[k] = c[k]
      BY <1>1, <2>2
    <3>2. QED  BY <3>1
  <2>3. QED  BY <2>1, <2>2
<1>4. QED  BY <1>1, <1>2, <1>3

LEMMA TellingKeeps ==
  ASSUME NEW keys, \A k \in DOMAIN cache : DOMAIN cache[k] = Fields
  PROVE  /\ DOMAIN AfterTelling(keys) = DOMAIN cache
         /\ \A k \in DOMAIN cache :
              /\ DOMAIN AfterTelling(keys)[k] = Fields
              /\ AfterTelling(keys)[k].data = cache[k].data
              /\ AfterTelling(keys)[k].has = cache[k].has
              /\ Fresh(AfterTelling(keys)[k]) => Fresh(cache[k]) /\ k \notin keys
              /\ k \notin MountedAt(place)
                   => AfterTelling(keys)[k].reading = cache[k].reading
<1>1. AfterTelling(keys)
        = [k \in DOMAIN cache |->
             IF k \in keys THEN Invalidated(cache[k], k \in MountedAt(place)) ELSE cache[k]]
  BY DEF AfterTelling
<1>2. ASSUME NEW k \in DOMAIN cache
      PROVE  /\ DOMAIN AfterTelling(keys)[k] = Fields
             /\ AfterTelling(keys)[k].data = cache[k].data
             /\ AfterTelling(keys)[k].has = cache[k].has
             /\ Fresh(AfterTelling(keys)[k]) => Fresh(cache[k]) /\ k \notin keys
             /\ k \notin MountedAt(place)
                  => AfterTelling(keys)[k].reading = cache[k].reading
  <2>1. CASE k \in keys
    <3>1. \/ AfterTelling(keys)[k] = Invalidated(cache[k], TRUE) /\ k \in MountedAt(place)
          \/ AfterTelling(keys)[k] = Invalidated(cache[k], FALSE)
      BY <1>1, <2>1 DEF Invalidated
    <3>2. DOMAIN cache[k] = Fields
      OBVIOUS
    <3>3. CASE AfterTelling(keys)[k] = Invalidated(cache[k], TRUE) /\ k \in MountedAt(place)
      BY <2>1, <3>2, <3>3 DEF Invalidated, Told, Fresh, Fields
    <3>4. CASE AfterTelling(keys)[k] = Invalidated(cache[k], FALSE)
      BY <2>1, <3>2, <3>4 DEF Invalidated, Fresh, Fields
    <3>5. QED  BY <3>1, <3>3, <3>4
  <2>2. CASE k \notin keys
    <3>1. AfterTelling(keys)[k] = cache[k]
      BY <1>1, <2>2
    <3>2. QED  BY <2>2, <3>1
  <2>3. QED  BY <2>1, <2>2
<1>3. DOMAIN AfterTelling(keys) = DOMAIN cache
  BY <1>1
<1>4. QED  BY <1>2, <1>3

\* What an accepted request does to the row.
LEMMA AfterKeeps ==
  ASSUME NEW m, DOMAIN row = {"status", "text"},
         row = NoRow \/ row.status \in Standing \cup {"gone"}, Accepted(m)
  PROVE  /\ DOMAIN After(m) = {"status", "text"}
         /\ After(m) = NoRow => row = NoRow
         /\ After(m) = NoRow \/ After(m).status \in Standing \cup {"gone"}
         /\ row = NoRow /\ m.of = "row" => Head(m.left) \in {"create", "ask"}
         /\ Head(m.left) = "create" /\ m.of = "row" => After(m) # NoRow
         /\ After(m) # row
              => /\ m.of = "row" /\ Head(m.left) # "ask"
                 /\ Head(m.left) = "create" => row = NoRow
                 /\ Head(m.left) = "remove" => After(m).status = "gone"
         /\ After(m).status = "gone" /\ row.status # "gone"
              => m.of = "row" /\ Head(m.left) = "remove"
<1>1. NoRow.status = "none" /\ DOMAIN NoRow = {"status", "text"}
  BY DEF NoRow
<1>2. Standing = {"open", "done"}
  BY DEF Standing
<1>3. CASE m.of # "row"
  BY <1>1, <1>2, <1>3 DEF After
<1>4. CASE m.of = "row" /\ Head(m.left) = "create" /\ row = NoRow
  <2>1. After(m) = [status |-> "open", text |-> m.text]
    BY <1>4 DEF After
  <2>2. QED  BY <2>1, <1>1, <1>2, <1>4
<1>5. CASE m.of = "row" /\ Head(m.left) = "write"
  <2>1. After(m) = [row EXCEPT !.text = m.text]
    BY <1>5 DEF After
  <2>2. row.status \in Standing
    BY <1>5 DEF Accepted, Exists
  <2>3. DOMAIN After(m) = {"status", "text"} /\ After(m).status = row.status
    BY <2>1
  <2>4. QED  BY <2>2, <2>3, <1>1, <1>2, <1>5
<1>6. CASE m.of = "row" /\ Head(m.left) \in {"finish", "reopen", "remove"}
  <2>1. row.status \in Standing
    BY <1>6 DEF Accepted, Exists
  <2>2. PICK s \in {"done", "open", "gone"} :
          After(m) = [row EXCEPT !.status = s] /\ (s = "gone" <=> Head(m.left) = "remove")
    BY <1>6 DEF After
  <2>3. DOMAIN After(m) = {"status", "text"} /\ After(m).status = s
    BY <2>2
  <2>4. QED  BY <2>1, <2>2, <2>3, <1>1, <1>2, <1>6
<1>7. CASE /\ m.of = "row"
           /\ ~(Head(m.left) = "create" /\ row = NoRow)
           /\ Head(m.left) \notin {"write", "finish", "reopen", "remove"}
  <2>1. After(m) = row
    BY <1>7 DEF After
  <2>2. QED  BY <2>1, <1>1, <1>2, <1>7 DEF Accepted, Exists
<1>8. QED  BY <1>3, <1>4, <1>5, <1>6, <1>7

\* The inductive invariant of the pages of Forms.
FormInv ==
  FormTypes /\ EditorInv /\ RequestsInv /\ DialogInv /\ NoneInv /\ ShownInv

LEMMA NoEditorFields ==
  /\ NoEditor.op = "none" /\ NoEditor.of = "row" /\ NoEditor.typed = FALSE
  /\ DOMAIN NoEditor = {"op", "of", "text", "typed"}
  BY DEF NoEditor

LEMMA NoRowFields ==
  NoRow.status = "none" /\ DOMAIN NoRow = {"status", "text"} /\ ~Exists(NoRow)
  BY DEF NoRow, Exists, Standing

\* No query is shown under two of the roles a key can have here.
LEMMA KeysApart ==
  ASSUME FormTypes
  PROVE  /\ Screen.list # {}
         /\ Screen.list \subseteq DOMAIN cache
         /\ Screen.detail \cap Screen.list = {}
         /\ elsewhere \notin Screen.detail
         /\ Nowhere \notin Screen.list \cup Screen.detail
         /\ elsewhere = Nowhere \/ elsewhere \in Screen.away
  BY OffersAssumption DEF FormTypes, Screen, Nowhere

\* Which keys a place reads.
LEMMA PlacesRead ==
  ASSUME FormTypes, NEW p \in {"page", "drawer", "away", "left"}
  PROVE  /\ p # "drawer" => MountedAt(p) \cap Screen.detail = {}
         /\ (elsewhere = Nowhere => p \notin {"away", "left"}) /\ elsewhere = Nowhere
              => Nowhere \notin MountedAt(p)
  BY KeysApart DEF MountedAt, FormTypes

LEMMA FormInitInv ==
  ASSUME FormInit
  PROVE  FormInv
<1>1. screen \in DOMAIN Screens
  BY LooksAssumption DEF FormInit
<1>2. /\ elsewhere \in (IF Screen.away = {} THEN {Nowhere} ELSE Screen.away)
      /\ place = "page" /\ editor = NoEditor /\ asked = {}
      /\ row \in {NoRow, [status |-> "open", text |-> 0]}
      /\ cache = [k \in Screen.list \cup Screen.detail \cup {elsewhere} |->
                    IF k \in Screen.list THEN FirstRead(NoRow) ELSE Unread(NoRow)]
  BY DEF FormInit
<1>3. ASSUME NEW k \in DOMAIN cache
      PROVE  /\ DOMAIN cache[k] = Fields
             /\ ~cache[k].has /\ cache[k].data = NoRow
             /\ k \notin Screen.list => ~cache[k].reading
  BY <1>2 DEF FirstRead, Mounted, Unread, Fields
<1>4. DOMAIN cache = Screen.list \cup Screen.detail \cup {elsewhere}
  BY <1>2
<1>5. /\ DOMAIN row = {"status", "text"}
      /\ row = NoRow \/ row.status = "open"
  BY <1>2, NoRowFields
<1>6. FormTypes
  BY <1>1, <1>2, <1>3, <1>4, <1>5, NoRowFields DEF FormTypes, Standing
<1>7. EditorInv
  BY <1>2, NoEditorFields DEF EditorInv
<1>8. RequestsInv /\ DialogInv
  BY <1>2 DEF RequestsInv, DialogInv
<1>9. NoneInv
  BY <1>2, <1>3, <1>6, NoEditorFields, KeysApart DEF NoneInv
<1>10. ShownInv
  <2>1. elsewhere = Nowhere => Nowhere \in DOMAIN cache /\ Nowhere \notin Screen.list
    BY <1>4, <1>6, KeysApart
  <2>2. QED  BY <2>1, <1>2, <1>3 DEF ShownInv, Looked, Fresh
<1>11. QED  BY <1>6, <1>7, <1>8, <1>9, <1>10 DEF FormInv

\* What a step needs to respect that neither writes nor answers anything: keys
\* are only mounted, and every request keeps what it is.
Quietly ==
  /\ UNCHANGED <<still, row>>
  /\ place' \in {"page", "drawer", "away", "left"}
  /\ (place' = "left") <=> (place = "left")
  /\ elsewhere = Nowhere => place' \notin {"away", "left"}
  /\ DOMAIN cache' = DOMAIN cache
  /\ \A k \in DOMAIN cache :
       /\ DOMAIN cache'[k] = Fields
       /\ cache'[k].data = cache[k].data
       /\ cache'[k].has = cache[k].has
       /\ Fresh(cache'[k]) => Fresh(cache[k])
       /\ row = NoRow /\ k \in Screen.detail => cache'[k] = cache[k]
       /\ k = Nowhere => cache'[k] = cache[k]
  /\ \A m \in asked : \E n \in asked' : n.op = m.op

LEMMA QuietlyKeeps ==
  ASSUME FormInv, Quietly
  PROVE  /\ FormTypes' /\ ShownInv' /\ Screen' = Screen
         /\ row' = NoRow =>
              \A k \in DOMAIN cache' :
                 /\ cache'[k].data = NoRow
                 /\ k \in Screen'.detail => ~cache'[k].has /\ ~cache'[k].reading
<1>1. /\ screen' = screen /\ quiet' = quiet /\ elsewhere' = elsewhere /\ row' = row
      /\ Screen' = Screen /\ Plainly(screen)' = Plainly(screen)
  BY DEF Quietly, still, Screen, Plainly
<1>2. FormTypes'
  BY <1>1 DEF FormInv, FormTypes, Quietly
<1>3. row' = NoRow =>
        \A k \in DOMAIN cache' :
           /\ cache'[k].data = NoRow
           /\ k \in Screen'.detail => ~cache'[k].has /\ ~cache'[k].reading
  BY <1>1 DEF FormInv, NoneInv, Quietly
<1>4. elsewhere' = Nowhere => ~cache'[Nowhere].has /\ ~cache'[Nowhere].reading
  BY <1>1 DEF FormInv, FormTypes, ShownInv, Quietly
<1>5. ASSUME quiet, NEW k \in Looked', Fresh(cache'[k])
      PROVE  \/ cache'[k].data = row'
             \/ k \in Screen'.detail /\ row'.status = "gone"
             \/ Plainly(screen') /\ \E m \in asked' : k \in Operations[m.op].tells
  <2>1. k \in Looked /\ k \in DOMAIN cache
    BY <1>1, <1>5 DEF Looked, Missed, Quietly, FormInv, FormTypes
  <2>2. Fresh(cache[k]) /\ cache'[k].data = cache[k].data
    BY <1>5, <2>1 DEF Quietly
  <2>3. \/ cache[k].data = row
        \/ k \in Screen.detail /\ row.status = "gone"
        \/ Plainly(screen) /\ \E m \in asked : k \in Operations[m.op].tells
    BY <1>5, <2>1, <2>2 DEF FormInv, ShownInv
  <2>4. CASE Plainly(screen) /\ \E m \in asked : k \in Operations[m.op].tells
    <3>1. PICK m \in asked : k \in Operations[m.op].tells
      BY <2>4
    <3>2. PICK n \in asked' : n.op = m.op
      BY DEF Quietly
    <3>3. QED  BY <1>1, <2>4, <3>1, <3>2
  <2>5. QED  BY <1>1, <2>2, <2>3, <2>4
<1>6. ShownInv'
  BY <1>1, <1>4, <1>5 DEF ShownInv, Fresh
<1>7. QED  BY <1>1, <1>2, <1>3, <1>6

\* A step that sends no request and takes none further.
LEMMA SameRequests ==
  ASSUME FormInv, UNCHANGED still,
         \A n \in asked' : \E m \in asked :
            /\ n.op = m.op /\ n.left = m.left /\ DOMAIN n = DOMAIN m
            /\ n.from = "closed form" => m.from = "closed form" \/ n.op \in Vanishing
  PROVE  RequestsInv'
<1>1. Screen' = Screen
  BY DEF still, Screen
<1>2. SUFFICES ASSUME NEW n \in asked'
               PROVE  LET does == Operations[n.op].does IN
                      /\ DOMAIN n = {"op", "of", "text", "from", "left"}
                      /\ \E o \in Screen.offers : o.op = n.op
                      /\ n.left \in Seq(Steps) \ {<<>>}
                      /\ Len(n.left) <= Len(does)
                      /\ \A i \in 1..Len(n.left) :
                           n.left[i] = does[i + Len(does) - Len(n.left)]
                      /\ n.from = "closed form" => n.op \in Vanishing
  BY <1>1 DEF RequestsInv
<1>3. PICK m \in asked :
        /\ n.op = m.op /\ n.left = m.left /\ DOMAIN n = DOMAIN m
        /\ n.from = "closed form" => m.from = "closed form" \/ n.op \in Vanishing
  OBVIOUS
<1>4. QED  BY <1>3 DEF FormInv, RequestsInv

\* While no form is open, no request is under way that would close one.
LEMMA NothingToClose ==
  ASSUME FormInv, place # "left"
  PROVE  /\ \A m \in asked : \A d \in DOMAIN Operations : Closing(m, d) => editor.op = d
         /\ editor = NoEditor
              => \A m \in asked : \A d \in DOMAIN Operations : ~Closing(m, d)
  BY NoEditorFields, OffersAssumption DEF FormInv, DialogInv

\* What going to a place does to the queries.
LEMMA MoveKeeps ==
  ASSUME FormInv, NEW p, Enter(p, cache)
  PROVE  /\ place' = p /\ DOMAIN cache' = DOMAIN cache
         /\ \A k \in DOMAIN cache :
              /\ DOMAIN cache'[k] = Fields
              /\ cache'[k].data = cache[k].data
              /\ cache'[k].has = cache[k].has
              /\ Fresh(cache'[k]) => Fresh(cache[k])
              /\ k \notin MountedAt(p) => cache'[k] = cache[k]
  BY EnterKeeps DEF FormInv, FormTypes

LEMMA OpenDrawerInv ==
  ASSUME FormInv, OpenDrawer
  PROVE  FormInv'
<1>1. /\ place = "page" /\ editor = NoEditor /\ Exists(RowShown("page"))
      /\ Enter("drawer", cache)
      /\ UNCHANGED <<still, row, editor, asked>>
  BY DEF OpenDrawer
<1>2. /\ place' = "drawer" /\ DOMAIN cache' = DOMAIN cache
      /\ \A k \in DOMAIN cache :
           /\ DOMAIN cache'[k] = Fields
           /\ cache'[k].data = cache[k].data
           /\ cache'[k].has = cache[k].has
           /\ Fresh(cache'[k]) => Fresh(cache[k])
           /\ k \notin MountedAt("drawer") => cache'[k] = cache[k]
  BY <1>1, MoveKeeps
<1>3. row # NoRow
  <2>1. PICK k \in Screen.list : RowShown("page") = cache[k].data
    BY KeysApart DEF RowShown, Source, FormInv
  <2>2. k \in DOMAIN cache
    BY KeysApart DEF FormInv
  <2>3. QED  BY <1>1, <2>1, <2>2, NoRowFields DEF FormInv, NoneInv
<1>4. Nowhere \notin MountedAt("drawer")
  BY KeysApart DEF MountedAt, FormInv
<1>5. Quietly
  BY <1>1, <1>2, <1>3, <1>4 DEF Quietly
<1>6. FormTypes' /\ ShownInv' /\ Screen' = Screen
  BY <1>5, QuietlyKeeps
<1>7. RequestsInv'
  BY <1>1, SameRequests
<1>8. EditorInv' /\ NoneInv'
  BY <1>1, <1>2, <1>3, <1>6 DEF FormInv, EditorInv, NoneInv
<1>9. DialogInv'
  BY <1>1, <1>2, NothingToClose DEF FormInv, DialogInv, Closing, Mine, Heard
<1>10. QED  BY <1>6, <1>7, <1>8, <1>9 DEF FormInv

LEMMA CloseDrawerInv ==
  ASSUME FormInv, CloseDrawer
  PROVE  FormInv'
<1>1. /\ place = "drawer" /\ editor = NoEditor
      /\ Enter("page", cache)
      /\ asked' = {IF m.from = "drawer" THEN [m EXCEPT !.from = "closed drawer"] ELSE m
                     : m \in asked}
      /\ UNCHANGED <<still, row, editor>>
  BY DEF CloseDrawer
<1>2. /\ place' = "page" /\ DOMAIN cache' = DOMAIN cache
      /\ \A k \in DOMAIN cache :
           /\ DOMAIN cache'[k] = Fields
           /\ cache'[k].data = cache[k].data
           /\ cache'[k].has = cache[k].has
           /\ Fresh(cache'[k]) => Fresh(cache[k])
           /\ k \notin MountedAt("page") => cache'[k] = cache[k]
  BY <1>1, MoveKeeps
<1>3. row # NoRow
  BY <1>1 DEF FormInv, NoneInv
<1>4. Nowhere \notin MountedAt("page")
  BY KeysApart DEF MountedAt, FormInv
<1>5. ASSUME NEW n \in asked'
      PROVE  \E m \in asked : /\ n.op = m.op /\ n.left = m.left /\ DOMAIN n = DOMAIN m
                              /\ Mine(n) => Mine(m)
                              /\ n.from = "closed form" => m.from = "closed form"
  <2>1. PICK m \in asked : n = IF m.from = "drawer" THEN [m EXCEPT !.from = "closed drawer"]
                                                    ELSE m
    BY <1>1
  <2>2. DOMAIN m = {"op", "of", "text", "from", "left"}
    BY DEF FormInv, RequestsInv
  <2>3. /\ n.op = m.op /\ n.left = m.left /\ DOMAIN n = DOMAIN m /\ (Mine(n) => Mine(m))
        /\ n.from = "closed form" => m.from = "closed form"
    BY <2>1, <2>2 DEF Mine, Heard
  <2>4. QED  BY <2>3
<1>6. ASSUME NEW m \in asked
      PROVE  \E n \in asked' : n.op = m.op
  <2>1. (IF m.from = "drawer" THEN [m EXCEPT !.from = "closed drawer"] ELSE m) \in asked'
    BY <1>1
  <2>2. DOMAIN m = {"op", "of", "text", "from", "left"}
    BY DEF FormInv, RequestsInv
  <2>3. QED  BY <2>1, <2>2
<1>7. Quietly
  BY <1>1, <1>2, <1>3, <1>4, <1>6 DEF Quietly
<1>8. FormTypes' /\ ShownInv' /\ Screen' = Screen
  BY <1>7, QuietlyKeeps
<1>9. RequestsInv'
  BY <1>1, <1>5, SameRequests
<1>10. EditorInv' /\ NoneInv'
  BY <1>1, <1>2, <1>3, <1>8 DEF FormInv, EditorInv, NoneInv
<1>11. DialogInv'
  <2>1. \A m \in asked : \A d \in DOMAIN Operations : ~Closing(m, d)
    BY <1>1, NothingToClose
  <2>2. \A n \in asked' : \A d \in DOMAIN Operations : ~Closing(n, d)
    BY <1>5, <2>1 DEF Closing
  <2>3. QED  BY <2>2 DEF DialogInv, Closing, Mine, Heard
<1>12. QED  BY <1>8, <1>9, <1>10, <1>11 DEF FormInv

LEMMA GoAwayInv ==
  ASSUME FormInv, GoAway
  PROVE  FormInv'
<1>1. /\ place \in {"page", "drawer"} /\ elsewhere # Nowhere /\ editor' = NoEditor
      /\ Enter("away", cache)
      /\ asked' = {[m EXCEPT !.from = "away"] : m \in asked}
      /\ UNCHANGED <<still, row>>
  BY DEF GoAway
<1>2. /\ place' = "away" /\ DOMAIN cache' = DOMAIN cache
      /\ \A k \in DOMAIN cache :
           /\ DOMAIN cache'[k] = Fields
           /\ cache'[k].data = cache[k].data
           /\ cache'[k].has = cache[k].has
           /\ Fresh(cache'[k]) => Fresh(cache[k])
           /\ k \notin MountedAt("away") => cache'[k] = cache[k]
  BY <1>1, MoveKeeps
<1>3. MountedAt("away") = {elsewhere} /\ elsewhere \notin Screen.detail
  BY KeysApart DEF MountedAt, FormInv
<1>4. ASSUME NEW n \in asked'
      PROVE  \E m \in asked : /\ n.op = m.op /\ n.left = m.left /\ DOMAIN n = DOMAIN m
                              /\ n.of = m.of /\ ~Mine(n) /\ n.from # "closed form"
  <2>1. PICK m \in asked : n = [m EXCEPT !.from = "away"]
    BY <1>1
  <2>2. DOMAIN m = {"op", "of", "text", "from", "left"}
    BY DEF FormInv, RequestsInv
  <2>3. /\ n.op = m.op /\ n.left = m.left /\ DOMAIN n = DOMAIN m /\ n.of = m.of
        /\ ~Mine(n) /\ n.from # "closed form"
    BY <2>1, <2>2 DEF Mine, Heard
  <2>4. QED  BY <2>3
<1>5. ASSUME NEW m \in asked
      PROVE  \E n \in asked' : n.op = m.op
  <2>1. [m EXCEPT !.from = "away"] \in asked'
    BY <1>1
  <2>2. DOMAIN m = {"op", "of", "text", "from", "left"}
    BY DEF FormInv, RequestsInv
  <2>3. QED  BY <2>1, <2>2
<1>6. Quietly
  BY <1>1, <1>2, <1>3, <1>5 DEF Quietly
<1>7. /\ FormTypes' /\ ShownInv' /\ Screen' = Screen
      /\ row' = NoRow =>
           \A k \in DOMAIN cache' :
              /\ cache'[k].data = NoRow
              /\ k \in Screen'.detail => ~cache'[k].has /\ ~cache'[k].reading
  BY <1>6, QuietlyKeeps
<1>8. RequestsInv'
  BY <1>1, <1>4, SameRequests
<1>9. EditorInv'
  BY <1>1, <1>2, NoEditorFields DEF EditorInv
<1>10. NoneInv'
  BY <1>1, <1>2, <1>4, <1>7, NoEditorFields DEF FormInv, NoneInv
<1>11. DialogInv'
  BY <1>4 DEF DialogInv, Closing, Mine, Heard
<1>12. QED  BY <1>7, <1>8, <1>9, <1>10, <1>11 DEF FormInv

LEMMA ComeBackInv ==
  ASSUME FormInv, ComeBack
  PROVE  FormInv'
<1>1. /\ place = "away" /\ Enter("page", cache)
      /\ UNCHANGED <<still, row, editor, asked>>
  BY DEF ComeBack
<1>2. /\ place' = "page" /\ DOMAIN cache' = DOMAIN cache
      /\ \A k \in DOMAIN cache :
           /\ DOMAIN cache'[k] = Fields
           /\ cache'[k].data = cache[k].data
           /\ cache'[k].has = cache[k].has
           /\ Fresh(cache'[k]) => Fresh(cache[k])
           /\ k \notin MountedAt("page") => cache'[k] = cache[k]
  BY <1>1, MoveKeeps
<1>3. MountedAt("page") = Screen.list /\ Screen.detail \cap Screen.list = {}
      /\ Nowhere \notin Screen.list
  BY KeysApart DEF MountedAt, FormInv
<1>4. Quietly
  BY <1>1, <1>2, <1>3 DEF Quietly
<1>5. /\ FormTypes' /\ ShownInv' /\ Screen' = Screen
      /\ row' = NoRow =>
           \A k \in DOMAIN cache' :
              /\ cache'[k].data = NoRow
              /\ k \in Screen'.detail => ~cache'[k].has /\ ~cache'[k].reading
  BY <1>4, QuietlyKeeps
<1>6. RequestsInv'
  BY <1>1, SameRequests
<1>7. EditorInv' /\ NoneInv'
  BY <1>1, <1>2, <1>5 DEF FormInv, EditorInv, NoneInv
<1>8. DialogInv'
  BY <1>1, <1>2 DEF FormInv, DialogInv, Closing, Mine, Heard
<1>9. QED  BY <1>5, <1>6, <1>7, <1>8 DEF FormInv

\* A step on a form, or one that only sends a request.
LEMMA HereKeeps ==
  ASSUME FormInv, UNCHANGED <<still, row, cache, place>>, asked \subseteq asked'
  PROVE  /\ FormTypes' /\ ShownInv' /\ Screen' = Screen
         /\ row' = NoRow => /\ row = NoRow /\ place' # "drawer"
                            /\ \A k \in DOMAIN cache' :
                                 /\ cache'[k].data = NoRow
                                 /\ k \in Screen'.detail
                                      => ~cache'[k].has /\ ~cache'[k].reading
<1>1. Quietly
  BY DEF Quietly, FormInv, FormTypes
<1>2. QED  BY <1>1, QuietlyKeeps DEF FormInv, NoneInv

LEMMA OpenFormInv ==
  ASSUME FormInv, NEW o \in Screen.offers, NEW of \in {"row", "another row"},
         OpenForm(o, of)
  PROVE  FormInv'
<1>1. /\ editor = NoEditor /\ Operations[o.op].seeds # "none" /\ Offered(o)
      /\ of = "row" \/ (o.rows # NewRow /\ o.on = "page")
      /\ UNCHANGED <<still, row, cache, place, asked>>
  BY DEF OpenForm
<1>2. /\ DOMAIN editor' = {"op", "of", "text", "typed"}
      /\ editor'.op = o.op /\ editor'.of = of
  BY DEF OpenForm
<1>3. /\ FormTypes' /\ ShownInv' /\ Screen' = Screen
      /\ row' = NoRow => /\ row = NoRow /\ place' # "drawer"
                         /\ \A k \in DOMAIN cache' :
                              /\ cache'[k].data = NoRow
                              /\ k \in Screen'.detail => ~cache'[k].has /\ ~cache'[k].reading
  BY <1>1, HereKeeps
<1>4. RequestsInv'
  BY <1>1, SameRequests
<1>5. place # "left"
  <2>1. CASE o.on \in {"page", "drawer"}
    BY <1>1, <2>1 DEF Offered
  <2>2. CASE o.on \notin {"page", "drawer"}
    <3>1. editor.op = o.on
      BY <1>1, <2>2 DEF Offered
    <3>2. o.on \in DOMAIN Operations
      BY <2>2, OffersAssumption DEF FormInv, FormTypes, Screen
    <3>3. QED  BY <1>1, <3>1, <3>2, NoEditorFields, OffersAssumption
  <2>3. QED  BY <2>1, <2>2
<1>6. EditorInv'
  BY <1>1, <1>2, <1>3, <1>5 DEF EditorInv
<1>7. row = NoRow => of = "row"
  <2>1. SUFFICES ASSUME row = NoRow, of # "row"
                 PROVE  FALSE
    OBVIOUS
  <2>2. o.rows # NewRow /\ place = "page" /\ RowShown("page").status \in o.rows
    BY <1>1, <2>1 DEF Offered
  <2>3. o.rows \subseteq Standing
    BY <2>2, OffersAssumption DEF FormInv, FormTypes, Screen
  <2>4. PICK k \in Screen.list : RowShown("page") = cache[k].data
    BY KeysApart DEF RowShown, Source, FormInv
  <2>5. RowShown("page") = NoRow
    BY <2>1, <2>4, KeysApart DEF FormInv, NoneInv
  <2>6. QED  BY <2>2, <2>3, <2>5, NoRowFields DEF Standing
<1>8. NoneInv'
  BY <1>1, <1>2, <1>3, <1>7 DEF FormInv, NoneInv
<1>9. DialogInv'
  <2>1. \A m \in asked : \A d \in DOMAIN Operations : ~Closing(m, d)
    BY <1>1, <1>5, NothingToClose
  <2>2. QED  BY <1>1, <2>1 DEF DialogInv, Closing, Mine, Heard
<1>10. QED  BY <1>3, <1>4, <1>6, <1>8, <1>9 DEF FormInv

LEMMA TypingInv ==
  ASSUME FormInv, Type
  PROVE  FormInv'
<1>1. editor # NoEditor /\ UNCHANGED <<still, row, cache, place, asked>>
  BY DEF Type
<1>2. /\ DOMAIN editor' = {"op", "of", "text", "typed"}
      /\ editor'.op = editor.op /\ editor'.of = editor.of
  BY DEF Type, FormInv, EditorInv
<1>3. /\ FormTypes' /\ ShownInv' /\ Screen' = Screen
      /\ row' = NoRow => /\ row = NoRow /\ place' # "drawer"
                         /\ \A k \in DOMAIN cache' :
                              /\ cache'[k].data = NoRow
                              /\ k \in Screen'.detail => ~cache'[k].has /\ ~cache'[k].reading
  BY <1>1, HereKeeps
<1>4. RequestsInv'
  BY <1>1, SameRequests
<1>5. EditorInv'
  BY <1>1, <1>2, <1>3 DEF FormInv, EditorInv
<1>6. NoneInv'
  BY <1>1, <1>2, <1>3 DEF FormInv, NoneInv
<1>7. DialogInv'
  BY <1>1, <1>2 DEF FormInv, DialogInv, Closing, Mine, Heard
<1>8. QED  BY <1>3, <1>4, <1>5, <1>6, <1>7 DEF FormInv

\* What closes a waiting dialog is still mounted.
LEMMA ClosingMounted ==
  ASSUME FormInv, NEW m \in asked, NEW d \in DOMAIN Operations, Closing(m, d)
  PROVE  m.from \in {"page", "drawer"}
<1>1. m.op \in DOMAIN Operations
  BY OffersAssumption DEF FormInv, FormTypes, RequestsInv, Screen
<1>2. m.op \notin Vanishing
  BY <1>1, DialogsAssumption DEF Closing, Vanishing
<1>3. m.from # "closed form"
  BY <1>2 DEF FormInv, RequestsInv
<1>4. QED  BY <1>3 DEF Closing, Mine, Heard

\* What the requests keep when a form is closed.
LEMMA WithoutFormKeeps ==
  ASSUME FormInv, NEW S \in SUBSET asked
  PROVE  /\ \A n \in WithoutForm(S) : \E m \in S :
              /\ n.op = m.op /\ n.of = m.of /\ n.left = m.left /\ DOMAIN n = DOMAIN m
              /\ Mine(n) => Mine(m)
              /\ n.from = "closed form" => m.from = "closed form" \/ n.op \in Vanishing
         /\ \A m \in S : \E n \in WithoutForm(S) : n.op = m.op
<1> DEFINE Left(m) == IF m.op = editor.op /\ Operations[m.op].unmounts /\ m.from = "page"
                      THEN [m EXCEPT !.from = "closed form"] ELSE m
<1>1. WithoutForm(S) = {Left(m) : m \in S}
  BY DEF WithoutForm
<1>2. ASSUME NEW m \in S
      PROVE  /\ Left(m).op = m.op /\ Left(m).of = m.of /\ Left(m).left = m.left
             /\ DOMAIN Left(m) = DOMAIN m
             /\ Mine(Left(m)) => Mine(m)
             /\ Left(m).from = "closed form"
                  => m.from = "closed form" \/ m.op \in Vanishing
  <2>1. DOMAIN m = {"op", "of", "text", "from", "left"} /\ m.op \in DOMAIN Operations
    BY OffersAssumption DEF FormInv, FormTypes, RequestsInv, Screen
  <2>2. CASE Left(m) = m
    BY <2>2
  <2>3. CASE m.op = editor.op /\ Operations[m.op].unmounts /\ m.from = "page"
    <3>1. Left(m) = [m EXCEPT !.from = "closed form"] /\ m.op \in Vanishing
      BY <2>1, <2>3 DEF Vanishing
    <3>2. Mine(m)
      BY <2>3 DEF Mine, Heard
    <3>3. QED  BY <2>1, <3>1, <3>2
  <2>4. QED  BY <2>2, <2>3
<1> HIDE DEF Left
<1>3. ASSUME NEW n \in WithoutForm(S)
      PROVE  \E m \in S :
              /\ n.op = m.op /\ n.of = m.of /\ n.left = m.left /\ DOMAIN n = DOMAIN m
              /\ Mine(n) => Mine(m)
              /\ n.from = "closed form" => m.from = "closed form" \/ n.op \in Vanishing
  <2>1. PICK m \in S : n = Left(m)
    BY <1>1
  <2>2. /\ n.op = m.op /\ n.of = m.of /\ n.left = m.left /\ DOMAIN n = DOMAIN m
        /\ n.from = "closed form" => m.from = "closed form" \/ n.op \in Vanishing
    BY <1>2, <2>1
  <2>3. Mine(n) => Mine(m)
    BY <1>2, <2>1
  <2>4. QED  BY <2>2, <2>3
<1>4. \A m \in S : Left(m) \in WithoutForm(S)
  BY <1>1
<1>5. \A m \in S : \E n \in WithoutForm(S) : n.op = m.op
  BY <1>2, <1>4
<1>6. QED  BY <1>3, <1>5

LEMMA CloseFormInv ==
  ASSUME FormInv, CloseForm
  PROVE  FormInv'
<1>1. /\ editor # NoEditor /\ editor' = NoEditor
      /\ Operations[editor.op].waits => ~Pending(Operations[editor.op].blocks)
      /\ asked' = WithoutForm(asked)
      /\ UNCHANGED <<still, row, cache, place>>
  BY DEF CloseForm
<1>2. /\ \A n \in asked' : \E m \in asked :
           /\ n.op = m.op /\ n.of = m.of /\ n.left = m.left /\ DOMAIN n = DOMAIN m
           /\ Mine(n) => Mine(m)
           /\ n.from = "closed form" => m.from = "closed form" \/ n.op \in Vanishing
      /\ \A m \in asked : \E n \in asked' : n.op = m.op
  <2>1. asked \in SUBSET asked
    OBVIOUS
  <2>2. QED  BY <1>1, <2>1, WithoutFormKeeps
<1>3. Quietly
  BY <1>1, <1>2 DEF Quietly, FormInv, FormTypes
<1>4. /\ FormTypes' /\ ShownInv' /\ Screen' = Screen
      /\ row' = NoRow =>
           \A k \in DOMAIN cache' :
              /\ cache'[k].data = NoRow
              /\ k \in Screen'.detail => ~cache'[k].has /\ ~cache'[k].reading
  BY <1>3, QuietlyKeeps
<1>5. RequestsInv'
  BY <1>1, <1>2, SameRequests
<1>6. EditorInv'
  BY <1>1, NoEditorFields DEF EditorInv
<1>7. NoneInv'
  BY <1>1, <1>2, <1>4, NoEditorFields DEF FormInv, NoneInv
<1>8. DialogInv'
  <2>1. ASSUME place # "left", NEW m \in asked, NEW d \in DOMAIN Operations, Closing(m, d)
        PROVE  FALSE
    <3>1. editor.op = d
      BY <2>1, NothingToClose
    <3>2. m.op \in DOMAIN Operations
      BY OffersAssumption DEF FormInv, FormTypes, RequestsInv, Screen
    <3>3. m.op \in Operations[d].blocks
      BY <2>1, <3>2, DialogsAssumption DEF Closing
    <3>4. m.from \in {"page", "drawer"}
      BY <2>1, ClosingMounted
    <3>5. QED  BY <1>1, <2>1, <3>1, <3>3, <3>4 DEF Closing, Pending
  <2>2. ASSUME place # "left", NEW n \in asked', NEW d \in DOMAIN Operations, Closing(n, d)
        PROVE  FALSE
    <3>1. PICK m \in asked : n.op = m.op /\ (Mine(n) => Mine(m))
      BY <1>2
    <3>2. Closing(m, d)
      BY <2>2, <3>1 DEF Closing
    <3>3. QED  BY <2>1, <2>2, <3>2
  <2>3. QED  BY <1>1, <2>2 DEF DialogInv, Closing, Mine, Heard
<1>9. QED  BY <1>4, <1>5, <1>6, <1>7, <1>8 DEF FormInv

\* A request that was asked for: the form it was asked in is the one it closes.
LEMMA AskInv ==
  ASSUME FormInv, NEW op, NEW of, NEW text, Ask(op, of, text),
         \E o \in Screen.offers : o.op = op,
         of = editor.of,
         \A d \in DOMAIN Operations :
            d \in Operations[op].closes /\ Operations[d].waits => editor.op = d
  PROVE  FormInv'
<1> DEFINE q == [op |-> op, of |-> of, text |-> text, from |-> place,
                 left |-> Operations[op].does]
<1>1. /\ ~Pending(Operations[op].blocks) /\ asked' = asked \cup {q}
      /\ UNCHANGED <<still, row, cache, place, editor>>
  BY DEF Ask
<1>2. /\ FormTypes' /\ ShownInv' /\ Screen' = Screen
      /\ row' = NoRow => /\ row = NoRow /\ place' # "drawer"
                         /\ \A k \in DOMAIN cache' :
                              /\ cache'[k].data = NoRow
                              /\ k \in Screen'.detail => ~cache'[k].has /\ ~cache'[k].reading
  BY <1>1, HereKeeps
<1>3. op \in DOMAIN Operations
  BY OffersAssumption DEF FormInv, FormTypes, Screen
<1>4. /\ DOMAIN q = {"op", "of", "text", "from", "left"}
      /\ q.op = op /\ q.of = of /\ q.from = place /\ q.left = Operations[op].does
  OBVIOUS
<1> HIDE DEF q
<1>5. RequestsInv'
  <2>1. Operations[op].does \in Seq(Steps) \ {<<>>}
    BY <1>3, OffersAssumption
  <2>2. SUFFICES ASSUME NEW n \in asked'
                 PROVE  LET does == Operations[n.op].does IN
                        /\ DOMAIN n = {"op", "of", "text", "from", "left"}
                        /\ \E o \in Screen.offers : o.op = n.op
                        /\ n.left \in Seq(Steps) \ {<<>>}
                        /\ Len(n.left) <= Len(does)
                        /\ \A i \in 1..Len(n.left) :
                             n.left[i] = does[i + Len(does) - Len(n.left)]
                        /\ n.from = "closed form" => n.op \in Vanishing
    BY <1>2 DEF RequestsInv
  <2>3. CASE n \in asked
    BY <2>3 DEF FormInv, RequestsInv
  <2>4. CASE n = q
    <3>1. Len(Operations[op].does) \in Nat
      BY <2>1
    <3>2. q.from = "closed form" => q.op \in Vanishing
      BY <1>4 DEF FormInv, FormTypes
    <3>3. \A i \in 1..Len(q.left) :
             q.left[i] = Operations[op].does[i + Len(Operations[op].does) - Len(q.left)]
      BY <1>4, <2>1, <3>1
    <3>4. /\ q.left \in Seq(Steps) \ {<<>>} /\ Len(q.left) <= Len(Operations[op].does)
          /\ \E o \in Screen.offers : o.op = q.op
      BY <1>4, <2>1, <3>1
    <3>5. Operations[n.op].does = Operations[op].does /\ n = q
      BY <1>4, <2>4
    <3>6. QED  BY <1>4, <3>2, <3>3, <3>4, <3>5
  <2>5. QED  BY <1>1, <2>3, <2>4
<1>6. EditorInv'
  BY <1>1, <1>2 DEF FormInv, EditorInv
<1>7. NoneInv'
  BY <1>1, <1>2, <1>4 DEF FormInv, NoneInv
<1>8. DialogInv'
  <2>1. ASSUME NEW n \in asked, NEW d \in DOMAIN Operations, Closing(n, d), Closing(q, d)
        PROVE  FALSE
    <3>1. n.op \in DOMAIN Operations
      BY OffersAssumption DEF FormInv, FormTypes, RequestsInv, Screen
    <3>2. n.op \in Operations[op].blocks
      BY <1>3, <1>4, <2>1, <3>1, DialogsAssumption DEF Closing
    <3>3. n.from \in {"page", "drawer"}
      BY <2>1, ClosingMounted
    <3>4. QED  BY <1>1, <2>1, <3>2, <3>3 DEF Pending, Closing
  <2>2. SUFFICES ASSUME place # "left", NEW m \in asked', NEW d \in DOMAIN Operations,
                        Closing(m, d)
                 PROVE  /\ editor.op = d /\ editor.of = m.of
                        /\ \A n \in asked' : Closing(n, d) => n = m
    BY <1>1 DEF DialogInv, Closing, Mine, Heard
  <2>3. CASE m \in asked
    BY <1>1, <2>1, <2>2, <2>3 DEF FormInv, DialogInv
  <2>4. CASE m = q
    BY <1>1, <1>4, <2>1, <2>2, <2>4 DEF Closing
  <2>5. QED  BY <1>1, <2>3, <2>4
<1>9. QED  BY <1>2, <1>5, <1>6, <1>7, <1>8 DEF FormInv

LEMMA SubmitInv ==
  ASSUME FormInv, Submit
  PROVE  FormInv'
<1>1. editor # NoEditor /\ Ask(editor.op, editor.of, editor.text)
  BY DEF Submit
<1>2. PICK o \in Screen.offers : o.op = editor.op /\ Operations[editor.op].seeds # "none"
  BY <1>1 DEF FormInv, EditorInv
<1>3. editor.op \in DOMAIN Operations
  BY <1>2, OffersAssumption DEF FormInv, FormTypes, Screen
<1>4. \A d \in DOMAIN Operations :
         d \in Operations[editor.op].closes /\ Operations[d].waits => editor.op = d
  BY <1>2, <1>3, DialogsAssumption
<1>5. QED  BY <1>1, <1>2, <1>4, AskInv

LEMMA PressInv ==
  ASSUME FormInv, NEW o \in Screen.offers, Press(o)
  PROVE  FormInv'
<1>1. /\ Operations[o.op].seeds = "none" /\ Offered(o)
      /\ Ask(o.op, editor.of,
             IF editor = NoEditor THEN 1 - RowShown(place).text ELSE editor.text)
  BY DEF Press
<1>2. o.op \in DOMAIN Operations
  BY OffersAssumption DEF FormInv, FormTypes, Screen
<1>3. ASSUME NEW d \in DOMAIN Operations, d \in Operations[o.op].closes, Operations[d].waits
      PROVE  editor.op = d
  <2>1. o.on = d
    BY <1>1, <1>2, <1>3, DialogsAssumption DEF FormInv, FormTypes, Screen
  <2>2. d \notin {"page", "drawer"}
    BY OffersAssumption
  <2>3. QED  BY <1>1, <2>1, <2>2 DEF Offered
<1>4. QED  BY <1>1, <1>3, AskInv

\* Which of the requests of its operation m sends next.
NextStep(m) == 1 + Len(Operations[m.op].does) - Len(m.left)

\* The requests of an operation, counted from its end.
LEMMA Counting ==
  ASSUME NEW a \in Nat, NEW b \in Nat, b > 0, b <= a
  PROVE  /\ 1 + a - b \in 1..a
         /\ b > 1 => 1 + a - b \in 1..(a - 1)
         /\ b = 1 => 1 + a - b = a
         /\ b \in 1..a
  OBVIOUS

LEMMA CountingOn ==
  ASSUME NEW a \in Nat, NEW b \in Nat, NEW c, c = b - 1, NEW i \in Nat
  PROVE  (i + 1) + a - b = i + a - c
  OBVIOUS

\* What the operation of a request under way is.
LEMMA OfRequest ==
  ASSUME FormInv, NEW m \in asked
  PROVE  /\ \E o \in Screen.offers : o.op = m.op
         /\ m.op \in DOMAIN Operations
         /\ Len(Operations[m.op].does) \in Nat /\ Len(m.left) \in Nat /\ Len(m.left) > 0
         /\ NextStep(m) \in DOMAIN Operations[m.op].does
         /\ Head(m.left) = Operations[m.op].does[NextStep(m)]
         /\ Len(m.left) > 1 => NextStep(m) \in 1..(Len(Operations[m.op].does) - 1)
         /\ Len(m.left) = 1 => NextStep(m) = Len(Operations[m.op].does)
<1>1. PICK o \in Screen.offers : o.op = m.op
  BY DEF FormInv, RequestsInv
<1>2. m.op \in DOMAIN Operations
  BY <1>1, OffersAssumption DEF FormInv, FormTypes, Screen
<1> DEFINE a == Len(Operations[m.op].does)
           b == Len(m.left)
<1>3. Operations[m.op].does \in Seq(Steps) \ {<<>>}
  BY <1>2, OffersAssumption
<1>4. m.left \in Seq(Steps) \ {<<>>} /\ b <= a
  BY DEF FormInv, RequestsInv
<1>5. \A i \in 1..b : m.left[i] = Operations[m.op].does[i + a - b]
  BY DEF FormInv, RequestsInv
<1>6. b \in Nat /\ b > 0 /\ Head(m.left) = m.left[1]
  BY <1>4
<1>7. a \in Nat /\ DOMAIN Operations[m.op].does = 1..a
  BY <1>3
<1> HIDE DEF a, b
<1>8. /\ 1 + a - b \in 1..a
      /\ b > 1 => 1 + a - b \in 1..(a - 1)
      /\ b = 1 => 1 + a - b = a
  BY <1>4, <1>6, <1>7, Counting
<1>9. 1 \in 1..b
  BY <1>6
<1>10. NextStep(m) = 1 + a - b
  BY DEF NextStep, a, b
<1>11. Head(m.left) = Operations[m.op].does[NextStep(m)]
  BY <1>5, <1>6, <1>9, <1>10
<1>12. /\ NextStep(m) \in DOMAIN Operations[m.op].does
       /\ b > 1 => NextStep(m) \in 1..(a - 1)
       /\ b = 1 => NextStep(m) = a
  BY <1>7, <1>8, <1>10
<1>13. a = Len(Operations[m.op].does) /\ b = Len(m.left)
  BY DEF a, b
<1>14. QED  BY <1>1, <1>2, <1>6, <1>7, <1>11, <1>12, <1>13

\* A request that changes the row tells of every key that showed it, but for the
\* drawer of a row it removes and the page it leaves.
LEMMA WriteTells ==
  ASSUME FormInv, NEW m \in asked, Accepted(m), After(m) # row,
         NEW k \in DOMAIN cache, k \notin Missed
  PROVE  \/ k \in Operations[m.op].tells
         \/ ~cache[k].has
         \/ k \in Screen.detail /\ After(m).status = "gone"
         \/ Operations[m.op].goes = "left" /\ k # elsewhere
<1> DEFINE p == Operations[m.op]
           i == NextStep(m)
<1>1. (\E o \in Screen.offers : o.op = m.op) /\ Head(m.left) = p.does[i]
  BY OfRequest
<1>2. i \in DOMAIN p.does
  BY OfRequest
<1>3. /\ m.of = "row" /\ p.does[i] # "ask"
      /\ p.does[i] = "create" => row = NoRow
      /\ p.does[i] = "remove" => After(m).status = "gone"
  BY <1>1, AfterKeeps DEF FormInv, FormTypes
<1> HIDE DEF i
<1>4. \/ ((Screen.list \cup Screen.away) \ p.misses) \cup Screen.detail \subseteq p.tells
      \/ /\ (Screen.list \cup Screen.away) \ p.misses \subseteq p.tells
         /\ \A j \in DOMAIN p.does : p.does[j] \in {"ask", "create", "remove"}
      \/ Screen.away \ p.misses \subseteq p.tells /\ p.goes = "left"
  <2>1. PICK o \in Screen.offers : o.op = m.op
    BY <1>1
  <2>2. \/ \A j \in DOMAIN p.does : p.does[j] = "ask"
        \/ ((Screen.list \cup Screen.away) \ p.misses) \cup Screen.detail \subseteq p.tells
        \/ /\ (Screen.list \cup Screen.away) \ p.misses \subseteq p.tells
           /\ \A j \in DOMAIN p.does : p.does[j] \in {"ask", "create", "remove"}
        \/ Screen.away \ p.misses \subseteq p.tells /\ p.goes = "left"
    BY <2>1, TellsAssumption DEF FormInv, FormTypes, Screen
  <2>3. QED  BY <1>2, <1>3, <2>2
<1>5. k \in Screen.list \cup Screen.detail \cup {elsewhere}
  BY DEF FormInv, FormTypes
<1>6. k = elsewhere => k \in Screen.away \/ ~cache[k].has
  BY KeysApart DEF FormInv, ShownInv
<1>7. k \notin p.misses
  BY <1>1 DEF Missed
<1>8. CASE ((Screen.list \cup Screen.away) \ p.misses) \cup Screen.detail \subseteq p.tells
  BY <1>5, <1>6, <1>7, <1>8
<1>9. CASE /\ (Screen.list \cup Screen.away) \ p.misses \subseteq p.tells
           /\ \A j \in DOMAIN p.does : p.does[j] \in {"ask", "create", "remove"}
  <2>1. p.does[i] \in {"create", "remove"}
    BY <1>2, <1>3, <1>9
  <2>2. k \in Screen.detail => ~cache[k].has \/ After(m).status = "gone"
    BY <1>3, <2>1 DEF FormInv, NoneInv
  <2>3. QED  BY <1>5, <1>6, <1>7, <1>9, <2>2
<1>10. CASE Screen.away \ p.misses \subseteq p.tells /\ p.goes = "left"
  BY <1>6, <1>7, <1>10
<1>11. QED  BY <1>4, <1>8, <1>9, <1>10

\* On a page whose row is never removed and that is never left, no request
\* removes a row or leaves.
LEMMA PlainlyOf ==
  ASSUME FormInv, NEW m \in asked, Plainly(screen)
  PROVE  Operations[m.op].goes # "left" /\ Head(m.left) # "remove"
<1>1. PICK o \in Screen.offers : o.op = m.op
  BY OfRequest
<1>2. /\ Operations[m.op].goes # "left"
      /\ \A i \in DOMAIN Operations[m.op].does : Operations[m.op].does[i] # "remove"
  BY <1>1 DEF Plainly, Screen
<1>3. /\ NextStep(m) \in DOMAIN Operations[m.op].does
      /\ Head(m.left) = Operations[m.op].does[NextStep(m)]
  BY OfRequest
<1>4. QED  BY <1>2, <1>3

LEMMA NextRequestInv ==
  ASSUME FormInv, NEW m \in asked, NextRequest(m)
  PROVE  FormInv'
<1> DEFINE q == [m EXCEPT !.left = Tail(@)]
           does == Operations[m.op].does
<1>1. /\ Len(m.left) > 1 /\ Accepted(m) /\ row' = After(m)
      /\ asked' = (asked \ {m}) \cup {q}
      /\ UNCHANGED <<still, cache, place, editor>>
  BY DEF NextRequest
<1>2. /\ screen' = screen /\ quiet' = quiet /\ elsewhere' = elsewhere
      /\ Screen' = Screen /\ Plainly(screen)' = Plainly(screen)
  BY <1>1 DEF still, Screen, Plainly
<1>3. DOMAIN m = {"op", "of", "text", "from", "left"}
  BY DEF FormInv, RequestsInv
<1>4. /\ DOMAIN q = {"op", "of", "text", "from", "left"} /\ q.left = Tail(m.left)
      /\ q.op = m.op /\ q.of = m.of /\ q.from = m.from
  BY <1>3
<1> HIDE DEF q
<1>5. /\ DOMAIN row' = {"status", "text"}
      /\ row' = NoRow \/ row'.status \in Standing \cup {"gone"}
      /\ row' = NoRow => row = NoRow
  BY <1>1, AfterKeeps DEF FormInv, FormTypes
<1>6. Plainly(screen) \/ row' = row
  <2>1. PICK o \in Screen.offers : o.op = m.op
    BY OfRequest
  <2>2. Plainly(screen) \/ \A i \in 1..(Len(does) - 1) : does[i] = "ask"
    BY <2>1, SeveralAssumption DEF FormInv, FormTypes, Screen
  <2>3. NextStep(m) \in 1..(Len(does) - 1) /\ Head(m.left) = does[NextStep(m)]
    BY <1>1, OfRequest
  <2>4. QED  BY <1>1, <2>2, <2>3, AfterKeeps DEF FormInv, FormTypes
<1>7. Plainly(screen) => row'.status # "gone"
  <2>1. Plainly(screen) => row.status # "gone" /\ Head(m.left) # "remove"
    BY PlainlyOf DEF FormInv, FormTypes
  <2>2. After(m).status = "gone" /\ row.status # "gone" => Head(m.left) = "remove"
    BY <1>1, AfterKeeps DEF FormInv, FormTypes
  <2>3. QED  BY <1>1, <2>1, <2>2
<1>8. FormTypes'
  BY <1>1, <1>2, <1>5, <1>7 DEF FormInv, FormTypes
<1>9. EditorInv'
  BY <1>1, <1>2 DEF FormInv, EditorInv
<1>10. RequestsInv'
  <2>1. /\ m.left \in Seq(Steps) \ {<<>>} /\ Len(m.left) <= Len(does)
        /\ \A i \in 1..Len(m.left) : m.left[i] = does[i + Len(does) - Len(m.left)]
        /\ Len(does) \in Nat /\ \E o \in Screen.offers : o.op = m.op
    BY OfRequest DEF FormInv, RequestsInv
  <2>2. /\ q.left \in Seq(Steps) /\ Len(q.left) = Len(m.left) - 1
        /\ \A i \in 1..Len(q.left) : q.left[i] = m.left[i + 1]
    BY <1>1, <1>4, <2>1
  <2>3. q.left # <<>>
    BY <1>1, <2>1, <2>2
  <2>4. \A i \in 1..Len(q.left) : q.left[i] = does[i + Len(does) - Len(q.left)]
    <3>1. SUFFICES ASSUME NEW i \in 1..Len(q.left)
                   PROVE  q.left[i] = does[i + Len(does) - Len(q.left)]
      OBVIOUS
    <3>2. i + 1 \in 1..Len(m.left) /\ q.left[i] = m.left[i + 1]
      BY <2>1, <2>2
    <3>3. (i + 1) + Len(does) - Len(m.left) = i + Len(does) - Len(q.left)
      <4>1. /\ Len(does) \in Nat /\ Len(m.left) \in Nat /\ i \in Nat
            /\ Len(q.left) = Len(m.left) - 1
        BY <2>1, <2>2
      <4> DEFINE a == Len(does)
                 b == Len(m.left)
                 c == Len(q.left)
      <4>2. a \in Nat /\ b \in Nat /\ i \in Nat /\ c = b - 1
        BY <4>1
      <4> HIDE DEF a, b, c
      <4>3. (i + 1) + a - b = i + a - c
        BY <4>2
      <4>4. QED  BY <4>3 DEF a, b, c
    <3>4. m.left[i + 1] = does[(i + 1) + Len(does) - Len(m.left)]
      BY <2>1, <3>2
    <3>5. QED  BY <3>2, <3>3, <3>4
  <2>5. Len(q.left) <= Len(does)
    BY <2>1, <2>2
  <2>6. SUFFICES ASSUME NEW n \in asked'
                 PROVE  LET d == Operations[n.op].does IN
                        /\ DOMAIN n = {"op", "of", "text", "from", "left"}
                        /\ \E o \in Screen.offers : o.op = n.op
                        /\ n.left \in Seq(Steps) \ {<<>>}
                        /\ Len(n.left) <= Len(d)
                        /\ \A i \in 1..Len(n.left) :
                             n.left[i] = d[i + Len(d) - Len(n.left)]
                        /\ n.from = "closed form" => n.op \in Vanishing
    BY <1>2 DEF RequestsInv
  <2>7. CASE n \in asked
    BY <2>7 DEF FormInv, RequestsInv
  <2>8. CASE n = q
    <3>1. q.from = "closed form" => q.op \in Vanishing
      BY <1>4 DEF FormInv, RequestsInv
    <3>2. QED  BY <1>4, <2>1, <2>2, <2>3, <2>4, <2>5, <2>8, <3>1
  <2>9. QED  BY <1>1, <2>7, <2>8
<1>11. NoneInv'
  BY <1>1, <1>2, <1>4, <1>5 DEF FormInv, NoneInv
<1>12. DialogInv'
  <2>1. \A d : Closing(q, d) <=> Closing(m, d)
    BY <1>4 DEF Closing, Mine, Heard
  <2>2. SUFFICES ASSUME place # "left", NEW n \in asked', NEW d \in DOMAIN Operations,
                        Closing(n, d)
                 PROVE  /\ editor.op = d /\ editor.of = n.of
                        /\ \A n2 \in asked' : Closing(n2, d) => n2 = n
    BY <1>1 DEF DialogInv, Closing, Mine, Heard
  <2>3. CASE n # q
    BY <1>1, <2>1, <2>2, <2>3 DEF FormInv, DialogInv
  <2>4. CASE n = q
    BY <1>1, <1>4, <2>1, <2>2, <2>4 DEF FormInv, DialogInv
  <2>5. QED  BY <2>3, <2>4
<1>13. ShownInv'
  <2>1. ASSUME quiet, NEW k \in Looked, Fresh(cache[k])
        PROVE  \/ cache[k].data = row'
               \/ k \in Screen.detail /\ row'.status = "gone"
               \/ Plainly(screen) /\ \E n \in asked' : k \in Operations[n.op].tells
    <3>1. k \in DOMAIN cache
      BY DEF Looked, Missed, FormInv, FormTypes
    <3>2. CASE row' = row
      <4>1. \/ cache[k].data = row
            \/ k \in Screen.detail /\ row.status = "gone"
            \/ Plainly(screen) /\ \E n \in asked : k \in Operations[n.op].tells
        BY <2>1 DEF FormInv, ShownInv
      <4>2. \A n \in asked : \E n2 \in asked' : n2.op = n.op
        BY <1>1, <1>4
      <4>3. QED
        <5>1. CASE Plainly(screen) /\ \E n \in asked : k \in Operations[n.op].tells
          <6>1. PICK n \in asked : k \in Operations[n.op].tells
            BY <5>1
          <6>2. PICK n2 \in asked' : n2.op = n.op
            BY <4>2
          <6>3. QED  BY <5>1, <6>1, <6>2
        <5>2. QED  BY <3>2, <4>1, <5>1
    <3>3. CASE row' # row
      <4>1. k \in Operations[m.op].tells
        <5>1. Plainly(screen) /\ row'.status # "gone" /\ Operations[m.op].goes # "left"
          BY <1>6, <1>7, <3>3, PlainlyOf
        <5>2. cache[k].has
          BY <2>1 DEF Fresh
        <5>3. k \notin Missed
          BY DEF Looked
        <5>4. QED  BY <1>1, <3>1, <3>3, <5>1, <5>2, <5>3, WriteTells
      <4>2. q \in asked' /\ k \in Operations[q.op].tells
        BY <1>1, <1>4, <4>1
      <4>3. QED  BY <1>6, <3>3, <4>2
    <3>4. QED  BY <3>2, <3>3
  <2>2. Looked' = Looked
    BY <1>1, <1>2 DEF Looked, Missed
  <2>3. elsewhere = Nowhere => ~cache[Nowhere].has /\ ~cache[Nowhere].reading
    BY DEF FormInv, ShownInv
  <2>4. QED  BY <1>1, <1>2, <2>1, <2>2, <2>3 DEF ShownInv, Fresh
<1>14. QED  BY <1>8, <1>9, <1>10, <1>11, <1>12, <1>13 DEF FormInv

\* Where a success can take the user.
LEMMA DestinationOf ==
  ASSUME FormInv, NEW m \in asked
  PROVE  /\ Destination(m) \in {"page", "drawer", "away", "left"}
         /\ Destination(m) = "left" <=> place = "left" \/ Operations[m.op].goes = "left"
         /\ Destination(m) = "drawer" => place = "drawer" \/ Operations[m.op].goes = "drawer"
         /\ elsewhere = Nowhere => Destination(m) \notin {"away", "left"}
<1>1. place \in {"page", "drawer", "away", "left"}
  BY DEF FormInv, FormTypes
<1>2. /\ Destination(m) \in {"page", "drawer", "away", "left"}
      /\ Destination(m) = "left" <=> place = "left" \/ Operations[m.op].goes = "left"
      /\ Destination(m) = "drawer" => place = "drawer" \/ Operations[m.op].goes = "drawer"
      /\ Destination(m) = "away" => place = "away"
  BY <1>1 DEF Destination
<1>3. Operations[m.op].goes = "left" => Screen.away # {}
  <2>1. PICK o \in Screen.offers : o.op = m.op
    BY OfRequest
  <2>2. QED  BY <2>1, SeveralAssumption DEF FormInv, FormTypes, Screen
<1>4. elsewhere = Nowhere => Screen.away = {} /\ place \notin {"away", "left"}
  BY OffersAssumption DEF FormInv, FormTypes, Screen, Nowhere
<1>5. QED  BY <1>2, <1>3, <1>4

LEMMA SucceedsInv ==
  ASSUME FormInv, NEW m \in asked, Succeeds(m)
  PROVE  FormInv'
<1> DEFINE op == Operations[m.op]
           told == AfterTelling(op.tells)
<1>1. /\ Len(m.left) = 1 /\ Accepted(m) /\ row' = After(m)
      /\ Enter(Destination(m), told)
      /\ editor' = IF (editor.op \in op.closes /\ Heard(m)) \/ Destination(m) = "left"
                   THEN NoEditor ELSE editor
      /\ UNCHANGED still
      /\ \/ asked' = asked \ {m}
         \/ editor' = NoEditor /\ asked' = WithoutForm(asked \ {m})
  BY DEF Succeeds
<1>1a. /\ \A n \in asked' : \E m2 \in asked \ {m} :
            /\ n.op = m2.op /\ n.of = m2.of /\ n.left = m2.left /\ DOMAIN n = DOMAIN m2
            /\ Mine(n) => Mine(m2)
            /\ n.from = "closed form" => m2.from = "closed form" \/ n.op \in Vanishing
       /\ \A m2 \in asked \ {m} : \E n \in asked' : n.op = m2.op
  <2>1. asked \ {m} \in SUBSET asked
    OBVIOUS
  <2>2. CASE asked' = WithoutForm(asked \ {m})
    BY <2>1, <2>2, WithoutFormKeeps
  <2>3. CASE asked' = asked \ {m}
    BY <2>3
  <2>4. QED  BY <1>1, <2>2, <2>3
<1>2. /\ screen' = screen /\ quiet' = quiet /\ elsewhere' = elsewhere
      /\ Screen' = Screen /\ Plainly(screen)' = Plainly(screen)
  BY <1>1 DEF still, Screen, Plainly
<1>3. /\ DOMAIN told = DOMAIN cache
      /\ \A k \in DOMAIN cache :
           /\ DOMAIN told[k] = Fields
           /\ told[k].data = cache[k].data
           /\ told[k].has = cache[k].has
           /\ Fresh(told[k]) => Fresh(cache[k]) /\ k \notin op.tells
           /\ k \notin MountedAt(place) => told[k].reading = cache[k].reading
  <2>1. \A k \in DOMAIN cache : DOMAIN cache[k] = Fields
    BY DEF FormInv, FormTypes
  <2>2. QED  BY <2>1, TellingKeeps
<1> HIDE DEF told
<1>4. /\ place' = Destination(m) /\ DOMAIN cache' = DOMAIN cache
      /\ \A k \in DOMAIN cache :
           /\ DOMAIN cache'[k] = Fields
           /\ cache'[k].data = told[k].data
           /\ cache'[k].has = told[k].has
           /\ Fresh(cache'[k]) => Fresh(told[k])
           /\ k \notin MountedAt(Destination(m)) => cache'[k] = told[k]
  <2>1. Enter(Destination(m), told)
    BY <1>1
  <2>2. DOMAIN told = DOMAIN cache /\ \A k \in DOMAIN cache : DOMAIN told[k] = Fields
    BY <1>3
  <2>3. QED  BY <2>1, <2>2, EnterKeeps
<1>5. /\ DOMAIN cache' = DOMAIN cache
      /\ \A k \in DOMAIN cache :
           /\ DOMAIN cache'[k] = Fields
           /\ cache'[k].data = cache[k].data
           /\ cache'[k].has = cache[k].has
           /\ Fresh(cache'[k]) => Fresh(cache[k]) /\ k \notin op.tells
           /\ k \notin MountedAt(place) \cup MountedAt(Destination(m))
                => cache'[k].reading = cache[k].reading
  BY <1>3, <1>4
<1>6. /\ DOMAIN row' = {"status", "text"}
      /\ row' = NoRow \/ row'.status \in Standing \cup {"gone"}
      /\ row' = NoRow => row = NoRow
  BY <1>1, AfterKeeps DEF FormInv, FormTypes
<1>7. Plainly(screen) => row'.status # "gone" /\ op.goes # "left"
  <2>1. Plainly(screen) => row.status # "gone" /\ Head(m.left) # "remove" /\ op.goes # "left"
    BY PlainlyOf DEF FormInv, FormTypes
  <2>2. After(m).status = "gone" /\ row.status # "gone" => Head(m.left) = "remove"
    BY <1>1, AfterKeeps DEF FormInv, FormTypes
  <2>3. QED  BY <1>1, <2>1, <2>2
<1>8. FormTypes'
  <2>1. /\ place' \in {"page", "drawer", "away", "left"}
        /\ elsewhere = Nowhere => place' \notin {"away", "left"}
        /\ Plainly(screen) => place' # "left"
    BY <1>4, <1>7, DestinationOf DEF FormInv, FormTypes
  <2>2. QED  BY <1>2, <1>5, <1>6, <1>7, <2>1 DEF FormInv, FormTypes
<1>9. EditorInv'
  <2>1. editor' = NoEditor \/ (editor' = editor /\ place' # "left")
    <3>1. CASE Destination(m) = "left"
      BY <1>1, <3>1
    <3>2. CASE Destination(m) # "left"
      <4>1. editor' \in {NoEditor, editor}
        BY <1>1
      <4>2. place' # "left"
        BY <1>4, <3>2
      <4>3. QED  BY <4>1, <4>2
    <3>3. QED  BY <3>1, <3>2
  <2>2. QED  BY <1>2, <2>1, NoEditorFields DEF FormInv, EditorInv
<1>10. RequestsInv'
  BY <1>1, <1>1a, SameRequests
<1>11. NoneInv'
  <2>1. SUFFICES ASSUME row' = NoRow
                 PROVE  /\ place' # "drawer" /\ editor'.of = "row"
                        /\ \A n \in asked' : n.of = "row"
                        /\ \A k \in DOMAIN cache' :
                             /\ cache'[k].data = NoRow
                             /\ k \in Screen.detail => ~cache'[k].has /\ ~cache'[k].reading
    BY <1>2 DEF NoneInv
  <2>2. row = NoRow
    BY <1>6, <2>1
  <2>3. /\ place # "drawer" /\ editor.of = "row" /\ \A n \in asked : n.of = "row"
        /\ \A k \in DOMAIN cache :
             /\ cache[k].data = NoRow
             /\ k \in Screen.detail => ~cache[k].has /\ ~cache[k].reading
    BY <2>2 DEF FormInv, NoneInv
  <2>4. op.goes # "drawer"
    <3>1. Head(m.left) = "ask"
      BY <1>1, <2>1, <2>2, <2>3, AfterKeeps DEF FormInv, FormTypes
    <3>2. op.does[Len(op.does)] = "ask"
      BY <1>1, <3>1, OfRequest
    <3>3. PICK o \in Screen.offers : o.op = m.op
      BY OfRequest
    <3>4. QED  BY <3>2, <3>3, SeveralAssumption DEF FormInv, FormTypes, Screen
  <2>5. place' # "drawer"
    BY <1>4, <2>3, <2>4, DestinationOf
  <2>6. \A k \in Screen.detail : k \notin MountedAt(place) \cup MountedAt(Destination(m))
    BY <1>4, <2>3, <2>5, DestinationOf, PlacesRead DEF FormInv, FormTypes
  <2>7. editor'.of = "row"
    BY <1>1, <2>3, NoEditorFields
  <2>8. \A n \in asked' : n.of = "row"
    BY <1>1a, <2>3
  <2>9. QED  BY <1>5, <2>3, <2>5, <2>6, <2>7, <2>8
<1>12. DialogInv'
  <2>1. SUFFICES ASSUME place' # "left", NEW n \in asked', NEW d \in DOMAIN Operations,
                        Closing(n, d)
                 PROVE  /\ editor'.op = d /\ editor'.of = n.of
                        /\ \A n2 \in asked' : Closing(n2, d) => n2 = n
    BY DEF DialogInv, Closing, Mine, Heard
  <2>2. place # "left" /\ Destination(m) # "left"
    BY <1>4, <2>1, DestinationOf
  <2>3. PICK m2 \in asked \ {m} : n.op = m2.op /\ n.of = m2.of /\ (Mine(n) => Mine(m2))
    BY <1>1a, <2>1
  <2>4. Closing(m2, d)
    BY <2>1, <2>3 DEF Closing
  <2>5. /\ editor.op = d /\ editor.of = n.of
        /\ \A n2 \in asked : Closing(n2, d) => n2 = m2
    BY <2>1, <2>2, <2>3, <2>4 DEF FormInv, DialogInv
  <2>6. ~Closing(m, d)
    BY <2>3, <2>5
  <2>7. ~(editor.op \in op.closes /\ Heard(m))
    BY <2>1, <2>5, <2>6 DEF Closing, Mine
  <2>8. editor' = editor /\ editor # NoEditor
    BY <1>1, <2>1, <2>2, <2>5, <2>7, NoEditorFields, OffersAssumption
  <2>9. asked' = asked \ {m}
    BY <1>1, <2>8
  <2>10. QED  BY <2>1, <2>3, <2>4, <2>5, <2>8, <2>9
<1>13. ShownInv'
  <2>1. ASSUME quiet, NEW k \in Looked', Fresh(cache'[k])
        PROVE  \/ cache'[k].data = row'
               \/ k \in Screen.detail /\ row'.status = "gone"
               \/ Plainly(screen) /\ \E n \in asked' : k \in Operations[n.op].tells
    <3>1. k \in Looked /\ k \in DOMAIN cache /\ k \notin Missed
      BY <1>2, <1>4, <1>5, <2>1, DestinationOf DEF Looked, Missed, FormInv, FormTypes
    <3>2. Fresh(cache[k]) /\ k \notin op.tells /\ cache'[k].data = cache[k].data
      BY <1>5, <2>1, <3>1
    <3>3. CASE row' = row
      <4>1. \/ cache[k].data = row
            \/ k \in Screen.detail /\ row.status = "gone"
            \/ Plainly(screen) /\ \E n \in asked : k \in Operations[n.op].tells
        BY <2>1, <3>1, <3>2 DEF FormInv, ShownInv
      <4>2. CASE Plainly(screen) /\ \E n \in asked : k \in Operations[n.op].tells
        <5>1. PICK n \in asked : k \in Operations[n.op].tells
          BY <4>2
        <5>2. PICK n2 \in asked' : n2.op = n.op
          BY <1>1a, <3>2, <5>1
        <5>3. QED  BY <4>2, <5>1, <5>2
      <4>3. QED  BY <3>2, <3>3, <4>1, <4>2
    <3>4. CASE row' # row
      <4>1. cache[k].has
        BY <3>2 DEF Fresh
      <4>2. op.goes = "left" => k = elsewhere
        BY <1>2, <1>4, <2>1, DestinationOf DEF Looked, Missed
      <4>3. \/ k \in op.tells \/ ~cache[k].has
            \/ k \in Screen.detail /\ After(m).status = "gone"
            \/ op.goes = "left" /\ k # elsewhere
        BY <1>1, <3>1, <3>4, WriteTells
      <4>4. QED  BY <1>1, <3>2, <4>1, <4>2, <4>3
    <3>5. QED  BY <3>3, <3>4
  <2>2. elsewhere = Nowhere => ~cache'[Nowhere].has /\ ~cache'[Nowhere].reading
    <3>1. SUFFICES ASSUME elsewhere = Nowhere
                   PROVE  ~cache'[Nowhere].has /\ ~cache'[Nowhere].reading
      OBVIOUS
    <3>2. ~cache[Nowhere].has /\ ~cache[Nowhere].reading /\ Nowhere \in DOMAIN cache
      BY <3>1 DEF FormInv, ShownInv, FormTypes
    <3>3. Nowhere \notin MountedAt(place) \cup MountedAt(Destination(m))
      BY <3>1, DestinationOf, PlacesRead DEF FormInv, FormTypes
    <3>4. QED  BY <1>5, <3>2, <3>3
  <2>3. QED  BY <1>2, <2>1, <2>2 DEF ShownInv, Fresh
<1>14. QED  BY <1>8, <1>9, <1>10, <1>11, <1>12, <1>13 DEF FormInv

LEMMA FailsInv ==
  ASSUME FormInv, NEW m \in asked, Fails(m)
  PROVE  FormInv'
<1>1. /\ quiet => ~Accepted(m)
      /\ row' = row \/ (Accepted(m) /\ row' = After(m))
      /\ asked' = asked \ {m}
      /\ UNCHANGED <<still, cache, place, editor>>
  <2>1. row' \in {row, IF Accepted(m) THEN After(m) ELSE row}
    BY DEF Fails
  <2>2. row' = row \/ (Accepted(m) /\ row' = After(m))
    BY <2>1
  <2>3. QED  BY <2>2 DEF Fails
<1>2. /\ screen' = screen /\ quiet' = quiet /\ elsewhere' = elsewhere
      /\ Screen' = Screen /\ Plainly(screen)' = Plainly(screen)
  BY <1>1 DEF still, Screen, Plainly
<1>3. /\ DOMAIN row' = {"status", "text"}
      /\ row' = NoRow \/ row'.status \in Standing \cup {"gone"}
      /\ row' = NoRow => row = NoRow
  BY <1>1, AfterKeeps DEF FormInv, FormTypes
<1>4. Plainly(screen) => row'.status # "gone"
  <2>1. Plainly(screen) => row.status # "gone" /\ Head(m.left) # "remove"
    BY PlainlyOf DEF FormInv, FormTypes
  <2>2. Accepted(m) /\ After(m).status = "gone" /\ row.status # "gone"
          => Head(m.left) = "remove"
    BY AfterKeeps DEF FormInv, FormTypes
  <2>3. QED  BY <1>1, <2>1, <2>2
<1>5. FormTypes'
  BY <1>1, <1>2, <1>3, <1>4 DEF FormInv, FormTypes
<1>6. EditorInv' /\ NoneInv'
  BY <1>1, <1>2, <1>3 DEF FormInv, EditorInv, NoneInv
<1>7. RequestsInv'
  BY <1>1, SameRequests
<1>8. DialogInv'
  BY <1>1 DEF FormInv, DialogInv, Closing, Mine, Heard
<1>9. ShownInv'
  <2>1. ASSUME quiet, NEW k \in Looked, Fresh(cache[k])
        PROVE  \/ cache[k].data = row
               \/ k \in Screen.detail /\ row.status = "gone"
               \/ Plainly(screen) /\ \E n \in asked' : k \in Operations[n.op].tells
    <3>1. ~Exists(row)
      BY <1>1, <2>1 DEF Accepted
    <3>2. CASE row = NoRow
      <4>1. k \in DOMAIN cache
        BY DEF Looked, Missed, FormInv, FormTypes
      <4>2. QED  BY <3>2, <4>1 DEF FormInv, NoneInv
    <3>3. CASE row.status = "gone"
      BY <2>1, <3>3 DEF FormInv, FormTypes, ShownInv
    <3>4. QED  BY <3>1, <3>2, <3>3 DEF Exists, FormInv, FormTypes
  <2>2. Looked' = Looked
    BY <1>1, <1>2 DEF Looked, Missed
  <2>3. quiet => row' = row
    BY <1>1
  <2>4. elsewhere = Nowhere => ~cache[Nowhere].has /\ ~cache[Nowhere].reading
    BY DEF FormInv, ShownInv
  <2>5. QED  BY <1>1, <1>2, <2>1, <2>2, <2>3, <2>4 DEF ShownInv, Fresh
<1>10. QED  BY <1>5, <1>6, <1>7, <1>8, <1>9 DEF FormInv

LEMMA AnswerInv ==
  ASSUME FormInv, NEW k \in DOMAIN cache, Answer(k)
  PROVE  FormInv'
<1>1. /\ cache[k].reading
      /\ cache' = [cache EXCEPT ![k] = Answered(row)]
      /\ UNCHANGED <<still, row, place, asked>>
      /\ editor' = editor \/ editor' = [editor EXCEPT !.text = row.text, !.typed = FALSE]
  BY DEF Answer
<1>2. /\ screen' = screen /\ quiet' = quiet /\ elsewhere' = elsewhere
      /\ Screen' = Screen /\ Plainly(screen)' = Plainly(screen)
  BY <1>1 DEF still, Screen, Plainly
<1>3. /\ DOMAIN editor' = {"op", "of", "text", "typed"}
      /\ editor'.op = editor.op /\ editor'.of = editor.of
      /\ editor = NoEditor => editor' = editor
  <2>1. DOMAIN editor = {"op", "of", "text", "typed"}
    BY DEF FormInv, EditorInv
  <2>2. editor = NoEditor => editor' = editor
    BY DEF Answer
  <2>3. QED  BY <1>1, <2>1, <2>2
<1>4. /\ DOMAIN cache' = DOMAIN cache
      /\ cache'[k] = Answered(row)
      /\ \A j \in DOMAIN cache : j # k => cache'[j] = cache[j]
  BY <1>1
<1>5. /\ DOMAIN cache'[k] = Fields /\ cache'[k].data = row
  BY <1>4 DEF Answered, Fields
<1>6. FormTypes'
  BY <1>1, <1>2, <1>4, <1>5 DEF FormInv, FormTypes
<1>7. EditorInv'
  BY <1>1, <1>2, <1>3 DEF FormInv, EditorInv
<1>8. RequestsInv'
  BY <1>1, SameRequests
<1>9. NoneInv'
  BY <1>1, <1>2, <1>3, <1>4, <1>5 DEF FormInv, NoneInv
<1>10. DialogInv'
  BY <1>1, <1>3 DEF FormInv, DialogInv, Closing, Mine, Heard
<1>11. ShownInv'
  <2>1. ASSUME quiet, NEW j \in Looked, Fresh(cache'[j])
        PROVE  \/ cache'[j].data = row
               \/ j \in Screen.detail /\ row.status = "gone"
               \/ Plainly(screen) /\ \E n \in asked : j \in Operations[n.op].tells
    <3>1. j \in DOMAIN cache
      BY DEF Looked, Missed, FormInv, FormTypes
    <3>2. QED  BY <1>4, <1>5, <2>1, <3>1 DEF FormInv, ShownInv
  <2>2. Looked' = Looked
    BY <1>1, <1>2, <1>4 DEF Looked, Missed
  <2>3. elsewhere = Nowhere => ~cache'[Nowhere].has /\ ~cache'[Nowhere].reading
    BY <1>1, <1>4 DEF FormInv, FormTypes, ShownInv
  <2>4. QED  BY <1>1, <1>2, <2>1, <2>2, <2>3 DEF ShownInv, Fresh
<1>12. QED  BY <1>6, <1>7, <1>8, <1>9, <1>10, <1>11 DEF FormInv

LEMMA WrittenElsewhereInv ==
  ASSUME FormInv, WrittenElsewhere
  PROVE  FormInv'
<1>1. /\ ~quiet /\ row.status \in Standing
      /\ row' \in {[row EXCEPT !.text = 1 - @], [row EXCEPT !.status = "done"]}
      /\ UNCHANGED <<still, cache, place, editor, asked>>
  BY DEF WrittenElsewhere, Exists
<1>2. /\ screen' = screen /\ quiet' = quiet /\ elsewhere' = elsewhere
      /\ Screen' = Screen /\ Plainly(screen)' = Plainly(screen)
  BY <1>1 DEF still, Screen, Plainly
<1>3. DOMAIN row' = {"status", "text"} /\ row'.status \in Standing
  BY <1>1 DEF FormInv, FormTypes, Standing
<1>4. row' # NoRow /\ row'.status # "gone"
  BY <1>3, NoRowFields DEF Standing
<1>5. FormTypes'
  BY <1>1, <1>2, <1>3, <1>4 DEF FormInv, FormTypes
<1>6. EditorInv' /\ NoneInv' /\ DialogInv'
  BY <1>1, <1>2, <1>4 DEF FormInv, EditorInv, NoneInv, DialogInv, Closing, Mine, Heard
<1>7. RequestsInv'
  BY <1>1, SameRequests
<1>8. ShownInv'
  BY <1>1, <1>2 DEF FormInv, ShownInv
<1>9. QED  BY <1>5, <1>6, <1>7, <1>8 DEF FormInv

LEMMA FormStepInv ==
  ASSUME FormInv, [FormNext]_formVars
  PROVE  FormInv'
<1>1. ASSUME FormNext
      PROVE  FormInv'
  BY <1>1, OpenDrawerInv, CloseDrawerInv, GoAwayInv, ComeBackInv, OpenFormInv, PressInv,
     TypingInv, CloseFormInv, SubmitInv, NextRequestInv, SucceedsInv, FailsInv, AnswerInv,
     WrittenElsewhereInv DEF FormNext
<1>2. ASSUME UNCHANGED formVars
      PROVE  FormInv'
  <2>1. /\ UNCHANGED <<still, row, cache, place, editor, asked>> /\ Screen' = Screen
    BY <1>2 DEF formVars, still, Screen
  <2>2. FormTypes' /\ ShownInv'
    BY <2>1, HereKeeps
  <2>3. RequestsInv'
    BY <2>1, SameRequests
  <2>4. EditorInv' /\ NoneInv' /\ DialogInv'
    BY <2>1 DEF FormInv, EditorInv, NoneInv, DialogInv, Closing, Mine, Heard
  <2>5. QED  BY <2>2, <2>3, <2>4 DEF FormInv
<1>3. QED  BY <1>1, <1>2

\* A user who is alone at any page of Forms is never shown, as fresh, the row as
\* it was before one of the operations that ended, but under the keys that Forms
\* lists as missed by one of the page's operations: for any number of requests
\* at a time, wherever the user goes meanwhile, and for any tables for which the
\* assumptions of FormDesk hold.
THEOREM OwnWritesTheorem == FormSpec => []OwnWritesShow
<1>1. FormInv => OwnWritesShow
  BY DEF FormInv, ShownInv, OwnWritesShow, Looked, Missed, Fresh
<1>2. QED  BY <1>1, FormInitInv, FormStepInv, PTL DEF FormSpec

\* What is typed into a dialog that waits for its request, and that reads its
\* fields as it opens, is lost by nothing that is answered but the success of its
\* own request, other writers, lost requests and pages that are left included.
\* (The letter edit, which is seeded again while it is open, is not among them.)
THEOREM TypedTextTheorem == FormSpec => TypedTextSurvives
<1> DEFINE Kept ==
      editor.typed /\ editor' # editor /\ (cache' # cache \/ asked' # asked)
        /\ place' = place /\ Operations[editor.op].waits
        /\ Operations[editor.op].seeds \in {"blank", "row"}
      => \E m \in asked \ asked' : m.of = editor.of /\ editor.op \in Operations[m.op].closes
<1>1. ASSUME FormInv, [FormNext]_formVars
      PROVE  [Kept]_formVars
  <2>1. SUFFICES ASSUME FormNext, editor.typed, editor' # editor,
                        cache' # cache \/ asked' # asked, place' = place,
                        Operations[editor.op].waits,
                        Operations[editor.op].seeds \in {"blank", "row"}
                 PROVE  \E m \in asked \ asked' : m.of = editor.of
                                                  /\ editor.op \in Operations[m.op].closes
    BY <1>1
  <2>2. editor # NoEditor
    BY <2>1, NoEditorFields
  <2>3. editor.op \in DOMAIN Operations /\ place # "left"
    BY <1>1, <2>2, OffersAssumption DEF FormInv, EditorInv, FormTypes, Screen
  <2>4. CASE \E m \in asked : Succeeds(m)
    <3>1. PICK m \in asked : Succeeds(m)
      BY <2>4
    <3>2. editor.op \in Operations[m.op].closes /\ Mine(m)
      <4>1. \/ editor.op \in Operations[m.op].closes /\ Heard(m)
            \/ Destination(m) = "left"
        BY <2>1, <3>1 DEF Succeeds
      <4>2. place' = Destination(m)
        BY <3>1 DEF Succeeds, Enter
      <4>3. QED  BY <2>1, <2>3, <4>1, <4>2 DEF Mine
    <3>3. /\ m.of = editor.of
          /\ \A n \in asked : Closing(n, editor.op) => n = m
      BY <1>1, <2>1, <2>3, <3>2 DEF FormInv, DialogInv, Closing
    <3>4. m \notin asked'
      <4>1. CASE asked' = asked \ {m}
        BY <4>1
      <4>2. CASE asked' = WithoutForm(asked \ {m})
        <5>1. asked \ {m} \in SUBSET asked
          OBVIOUS
        <5>2. \A n \in asked' : \E m2 \in asked \ {m} :
                 n.op = m2.op /\ (Mine(n) => Mine(m2))
          BY <1>1, <4>2, <5>1, WithoutFormKeeps
        <5>3. \A m2 \in asked \ {m} : ~Closing(m2, editor.op)
          BY <3>3
        <5>4. Closing(m, editor.op)
          BY <2>1, <3>2 DEF Closing
        <5>5. QED  BY <5>2, <5>3, <5>4 DEF Closing
      <4>3. QED  BY <3>1, <4>1, <4>2 DEF Succeeds
    <3>5. QED  BY <3>2, <3>3, <3>4
  <2>5. CASE \E k \in DOMAIN cache : Answer(k)
    BY <2>1, <2>5 DEF Answer
  <2>6. CASE \/ OpenDrawer \/ CloseDrawer \/ GoAway \/ ComeBack
    BY <2>1, <2>6 DEF OpenDrawer, CloseDrawer, GoAway, ComeBack, Enter
  <2>7. CASE \/ \E o \in Screen.offers : \/ \E of \in {"row", "another row"} : OpenForm(o, of)
                                         \/ Press(o)
             \/ Type \/ Submit \/ WrittenElsewhere
             \/ \E m \in asked : NextRequest(m) \/ Fails(m)
    BY <2>1, <2>7
       DEF OpenForm, Press, Type, Submit, Ask, NextRequest, Fails, WrittenElsewhere
  <2>8. CASE CloseForm
    <3>1. /\ ~Pending(Operations[editor.op].blocks) /\ cache' = cache
          /\ asked' = WithoutForm(asked)
      BY <2>1, <2>8 DEF CloseForm
    <3>2. \A m \in asked : ~(m.op = editor.op /\ Operations[m.op].unmounts)
      BY UnmountsAssumption, <2>1, <2>3
    <3>3. WithoutForm(asked) = asked
      BY <3>2 DEF WithoutForm
    <3>4. asked' = asked
      BY <3>1, <3>3
    <3>5. QED  BY <2>1, <3>1, <3>4
  <2>9. QED  BY <2>1, <2>4, <2>5, <2>6, <2>7, <2>8 DEF FormNext
<1>2. QED  BY <1>1, FormInitInv, FormStepInv, PTL DEF FormSpec, TypedTextSurvives

-----------------------------------------------------------------------------
(* The order of the investor register                                      *)

\* The sort state is one of a column and a direction, whatever is pressed.
LEMMA SortType == SortSpec => []SortTypeOK
<1>1. SortInit => SortTypeOK
  BY DEF SortInit, SortTypeOK, SortState, SortKeys
<1>2. SortTypeOK /\ [SortNext]_sortVars => SortTypeOK'
  <2> SUFFICES ASSUME SortTypeOK, [SortNext]_sortVars PROVE SortTypeOK'
    OBVIOUS
  <2>1. ASSUME NEW k \in SortKeys, HandleSort(k) PROVE SortTypeOK'
    BY <2>1 DEF HandleSort, NextSortState, SortTypeOK, SortState
  <2>2. ASSUME NEW answer \in SUBSET Rows, ListAnswered(answer) PROVE SortTypeOK'
    BY <2>2 DEF ListAnswered, SortTypeOK
  <2>3. CASE UNCHANGED sortVars
    BY <2>3 DEF sortVars, SortTypeOK
  <2>4. QED
    BY <2>1, <2>2, <2>3 DEF SortNext
<1>3. QED
  BY <1>1, <1>2, PTL DEF SortSpec

\* What the comparator is, column by column, in terms of integers.
LEMMA BeforeByKey ==
  ASSUME SortTypeOK, NEW a \in list, NEW b \in list
  PROVE  /\ sort.key = "name" =>
              (Before(a, b) <=> IF sort.dir = "asc" THEN a.name < b.name
                                                    ELSE b.name < a.name)
         /\ sort.key \in NumericKeys =>
              (Before(a, b) <=>
                 \/ a[sort.key] = b[sort.key] /\ a.name < b.name
                 \/ sort.dir = "asc" /\ a[sort.key] < b[sort.key]
                 \/ sort.dir # "asc" /\ b[sort.key] < a[sort.key])
         /\ sort.key \in TextKeys =>
              (Before(a, b) <=>
                 \/ a[sort.key] = b[sort.key] /\ a.name < b.name
                 \/ a[sort.key] # Missing /\ b[sort.key] = Missing
                 \/ /\ a[sort.key] # Missing /\ b[sort.key] # Missing
                    /\ \/ sort.dir = "asc" /\ a[sort.key] < b[sort.key]
                       \/ sort.dir # "asc" /\ b[sort.key] < a[sort.key])
<1>1. a \in Investor /\ b \in Investor
  BY RowsAssumption DEF SortTypeOK
<1>2. a.name \in Nat /\ b.name \in Nat
  BY <1>1 DEF Investor
<1>3. sort.key # "name" => a[sort.key] \in Nat /\ b[sort.key] \in Nat
  BY <1>1 DEF Investor, SortTypeOK, SortState, SortKeys, TextKeys, NumericKeys
<1>4. Sign(sort) = IF sort.dir = "asc" THEN 1 ELSE -1
  BY DEF Sign
<1>5. CASE sort.key = "name"
  BY <1>2, <1>4, <1>5 DEF Before, CompareInvestors, ByName, TextKeys, NumericKeys
<1>6. CASE sort.key \in NumericKeys
  <2> DEFINE x == a[sort.key]
             y == b[sort.key]
  <2>1. sort.key # "name" /\ sort.key \notin TextKeys
    BY <1>6 DEF NumericKeys, TextKeys
  <2>2. x \in Nat /\ y \in Nat
    BY <1>3, <2>1
  <2>3. Before(a, b) <=> OrByName((x - y) * Sign(sort), a, b) < 0
    BY <1>6 DEF Before, CompareInvestors
  <2>4. CASE sort.dir = "asc"
    <3>1. (x - y) * Sign(sort) = x - y
      BY <1>4, <2>2, <2>4
    <3> HIDE DEF x, y
    <3>2. Before(a, b) <=> (x = y /\ a.name < b.name) \/ x < y
      BY <1>2, <2>2, <2>3, <3>1 DEF OrByName, ByName
    <3>3. QED
      BY <2>1, <2>4, <3>2 DEF x, y
  <2>5. CASE sort.dir # "asc"
    <3>1. (x - y) * Sign(sort) = y - x
      BY <1>4, <2>2, <2>5
    <3> HIDE DEF x, y
    <3>2. Before(a, b) <=> (x = y /\ a.name < b.name) \/ y < x
      BY <1>2, <2>2, <2>3, <3>1 DEF OrByName, ByName
    <3>3. QED
      BY <2>1, <2>5, <3>2 DEF x, y
  <2>6. QED
    BY <2>4, <2>5
<1>7. CASE sort.key \in TextKeys
  <2> DEFINE x == a[sort.key]
             y == b[sort.key]
  <2>1. sort.key # "name" /\ sort.key \notin NumericKeys
    BY <1>7 DEF NumericKeys, TextKeys
  <2>2. x \in Nat /\ y \in Nat
    BY <1>3, <2>1
  <2>3. Before(a, b) <=> (IF x = Missing /\ y = Missing THEN ByName(a, b)
                          ELSE IF x = Missing THEN 1
                          ELSE IF y = Missing THEN -1
                          ELSE OrByName((x - y) * Sign(sort), a, b)) < 0
    BY <1>7, <2>1 DEF Before, CompareInvestors, CompareNullableText
  <2>4. CASE sort.dir = "asc"
    <3>1. (x - y) * Sign(sort) = x - y
      BY <1>4, <2>2, <2>4
    <3> HIDE DEF x, y
    <3>2. Before(a, b) <=> \/ x = y /\ a.name < b.name
                           \/ x # Missing /\ y = Missing
                           \/ x # Missing /\ y # Missing /\ x < y
      BY <1>2, <2>2, <2>3, <3>1 DEF OrByName, ByName, Missing
    <3>3. QED
      BY <2>1, <2>4, <3>2 DEF x, y
  <2>5. CASE sort.dir # "asc"
    <3>1. (x - y) * Sign(sort) = y - x
      BY <1>4, <2>2, <2>5
    <3> HIDE DEF x, y
    <3>2. Before(a, b) <=> \/ x = y /\ a.name < b.name
                           \/ x # Missing /\ y = Missing
                           \/ x # Missing /\ y # Missing /\ y < x
      BY <1>2, <2>2, <2>3, <3>1 DEF OrByName, ByName, Missing
    <3>3. QED
      BY <2>1, <2>5, <3>2 DEF x, y
  <2>6. QED
    BY <2>4, <2>5
<1>8. QED
  BY <1>5, <1>6, <1>7 DEF SortTypeOK, SortState, SortKeys

\* The table's comparator is consistent, puts the missing values last and breaks
\* ties by name, for every list the register can hold.
THEOREM RegisterOrderIsSound == SortSpec => []OrderIsSound
<1>1. SortTypeOK => OrderIsSound
  <2> SUFFICES ASSUME SortTypeOK PROVE OrderIsSound
    OBVIOUS
  <2>1. Consistent
    <3> SUFFICES ASSUME NEW a \in list, NEW b \in list, NEW c \in list
                 PROVE  /\ Before(a, b) => ~Before(b, a)
                        /\ Before(a, b) /\ Before(b, c) => Before(a, c)
                        /\ ~Before(a, b) /\ ~Before(b, c) => ~Before(a, c)
      BY DEF Consistent
    <3>1. a \in Investor /\ b \in Investor /\ c \in Investor
      BY RowsAssumption DEF SortTypeOK
    <3>2. a.name \in Nat /\ b.name \in Nat /\ c.name \in Nat
      BY <3>1 DEF Investor
    <3>3. sort.key \in NumericKeys \cup TextKeys =>
            a[sort.key] \in Nat /\ b[sort.key] \in Nat /\ c[sort.key] \in Nat
      BY <3>1 DEF Investor, NumericKeys, TextKeys
    <3>4. CASE sort.key = "name"
      BY <3>2, <3>4, BeforeByKey
    <3>5. CASE sort.key \in NumericKeys
      BY <3>2, <3>3, <3>5, BeforeByKey
    <3>6. CASE sort.key \in TextKeys
      BY <3>2, <3>3, <3>6, BeforeByKey DEF Missing
    <3>7. QED
      BY <3>4, <3>5, <3>6 DEF SortTypeOK, SortState, SortKeys
  <2>2. MissingLast
    BY BeforeByKey DEF MissingLast
  <2>3. TiesByName
    <3> SUFFICES ASSUME sort.key # "name", NEW a \in list, NEW b \in list,
                        a[sort.key] = b[sort.key]
                 PROVE  Before(a, b) <=> a.name < b.name
      BY DEF TiesByName
    <3>1. a \in Investor /\ b \in Investor
      BY RowsAssumption DEF SortTypeOK
    <3>2. sort.key \in NumericKeys \cup TextKeys
      BY DEF SortTypeOK, SortState, SortKeys
    <3>3. a[sort.key] \in Nat
      BY <3>1, <3>2 DEF Investor, NumericKeys, TextKeys
    <3>4. QED
      BY <3>2, <3>3, BeforeByKey
  <2>4. QED
    BY <2>1, <2>2, <2>3 DEF OrderIsSound
<1>2. QED
  BY <1>1, SortType, PTL

-----------------------------------------------------------------------------
(* Paged lists                                                             *)

\* What the query of a page holds.
PageQueries == [has : BOOLEAN, data : [rows : Seq(Nat), at : 0..MaxEntries],
                reading : BOOLEAN, stale : BOOLEAN]

PageTypeOK ==
  /\ entries \in Seq(Nat) /\ Len(entries) <= MaxEntries
  /\ filter \in {"all", "odd"} /\ pageNo \in 0..MaxEntries
  /\ pages \in [Keys -> PageQueries]

\* Every entry is listed in one place.
EachOnce ==
  /\ \A i \in 1..Len(entries) : entries[i] \in 1..Len(entries)
  /\ \A i, j \in 1..Len(entries) : entries[i] = entries[j] => i = j
  /\ \A e \in 1..Len(entries) : \E i \in 1..Len(entries) : entries[i] = e

\* What page n showed when it was read: the entries there were then whose rank
\* among them, as they are placed now, is one of the page's.
ShowsRanks(n, S, q) ==
  /\ DOMAIN q.data.rows = {i \in 1..(PageSize + 1) : n * PageSize + i <= Cardinality(S)}
  /\ RowsOf(q) \subseteq S
  /\ \A e \in S : e \in RowsOf(q) <=> Rank(S, e) \in (n * PageSize + 1)..(n * PageSize + PageSize)
  /\ n > 0 => Cardinality(S) > n * PageSize

\* There is an entry on page n of the list as it is now.
Reaches(f, n) == n > 0 => Cardinality(Listed(f, Len(entries))) > n * PageSize

\* The query of page n of a filter.
PageOK(f, n) ==
  /\ pages[<<f, n>>].data.at \in 0..Len(entries)
  /\ ~pages[<<f, n>>].has => pages[<<f, n>>].data = Nothing
  /\ pages[<<f, n>>].has => ShowsRanks(n, Listed(f, pages[<<f, n>>].data.at), pages[<<f, n>>])
  /\ pages[<<f, n>>].reading => Reaches(f, n)

\* The inductive invariant of the paged lists.
PageInv ==
  /\ PageTypeOK
  /\ EachOnce
  /\ \A f \in {"all", "odd"}, n \in 0..MaxEntries : PageOK(f, n)
  /\ Reaches(filter, pageNo)

\* An entry that was made stands where Place says.
LEMMA PlaceOf ==
  ASSUME EachOnce, NEW e \in 1..Len(entries)
  PROVE  /\ Place(e) \in 1..Len(entries)
         /\ entries[Place(e)] = e
<1>1. \E i \in 1..Len(entries) : entries[i] = e
  BY DEF EachOnce
<1> QED BY <1>1 DEF Place

\* The list is finite, and what is listed of fewer entries is part of it.
LEMMA ListedFacts ==
  ASSUME NEW f, NEW t \in Nat
  PROVE  /\ Listed(f, t) \subseteq 1..t
         /\ IsFiniteSet(Listed(f, t))
         /\ Cardinality(Listed(f, t)) \in 0..t
         /\ \A s \in Nat : s <= t => Listed(f, s) \subseteq Listed(f, t)
                                     /\ Cardinality(Listed(f, s)) <= Cardinality(Listed(f, t))
<1>1. Listed(f, t) \subseteq 1..t
  BY DEF Listed
<1>2. IsFiniteSet(1..t) /\ Cardinality(1..t) = t
  BY FS_Interval
<1>3. IsFiniteSet(Listed(f, t)) /\ Cardinality(Listed(f, t)) <= t
  BY <1>1, <1>2, FS_Subset
<1>4. Cardinality(Listed(f, t)) \in Nat
  BY <1>3, FS_CardinalityType
<1>5. ASSUME NEW s \in Nat, s <= t
      PROVE  /\ Listed(f, s) \subseteq Listed(f, t)
             /\ Cardinality(Listed(f, s)) <= Cardinality(Listed(f, t))
  <2>1. Listed(f, s) \subseteq Listed(f, t)
    <3>1. ASSUME NEW e \in 1..s PROVE e \in 1..t
      BY <1>5
    <3> QED BY <3>1 DEF Listed
  <2> QED BY <2>1, <1>3, FS_Subset
<1> QED BY <1>1, <1>3, <1>4, <1>5

\* Ranks are numbered through, in the order of the places.
LEMMA RankFacts ==
  ASSUME EachOnce, Len(entries) \in Nat, NEW S \in SUBSET (1..Len(entries))
  PROVE  /\ \A e \in S : Rank(S, e) \in 1..Cardinality(S)
         /\ \A d, e \in S : Place(d) < Place(e) => Rank(S, d) < Rank(S, e)
         /\ \A d, e \in S : Rank(S, d) = Rank(S, e) => d = e
         /\ \A r \in 1..Cardinality(S) : \E e \in S : Rank(S, e) = r
<1> DEFINE Upto(e) == {d \in S : Place(d) <= Place(e)}
<1>1. IsFiniteSet(S) /\ Cardinality(S) \in Nat
  <2>1. IsFiniteSet(1..Len(entries))
    BY FS_Interval
  <2>2. IsFiniteSet(S)
    BY <2>1, FS_Subset
  <2> QED BY <2>2, FS_CardinalityType
<1>2. ASSUME NEW e \in S
      PROVE  Place(e) \in Nat /\ entries[Place(e)] = e
  BY <1>2, PlaceOf
<1>3. ASSUME NEW e \in S
      PROVE  /\ IsFiniteSet(Upto(e)) /\ Cardinality(Upto(e)) \in Nat
             /\ Rank(S, e) = Cardinality(Upto(e)) /\ Cardinality(Upto(e)) <= Cardinality(S)
             /\ e \in Upto(e)
  <2>1. Upto(e) \in SUBSET S
    OBVIOUS
  <2>2. IsFiniteSet(Upto(e)) /\ Cardinality(Upto(e)) <= Cardinality(S)
    BY <2>1, <1>1, FS_Subset
  <2>3. Cardinality(Upto(e)) \in Nat
    BY <2>2, FS_CardinalityType
  <2>4. e \in Upto(e)
    BY <1>2
  <2> QED BY <2>2, <2>3, <2>4 DEF Rank
<1>4. ASSUME NEW e \in S PROVE Rank(S, e) \in 1..Cardinality(S)
  <2>1. Cardinality(Upto(e)) # 0
    BY <1>3, FS_EmptySet
  <2> QED BY <2>1, <1>1, <1>3
<1>5. ASSUME NEW d \in S, NEW e \in S, Place(d) < Place(e)
      PROVE  Rank(S, d) < Rank(S, e)
  <2>1. Upto(d) \in SUBSET Upto(e)
    <3>1. ASSUME NEW c \in Upto(d) PROVE c \in S /\ Place(c) <= Place(e)
      <4>1. c \in S /\ Place(c) <= Place(d)
        OBVIOUS
      <4> QED BY <1>2, <1>5, <4>1
    <3> QED BY <3>1
  <2>2. e \notin Upto(d) /\ e \in Upto(e)
    BY <1>2, <1>5
  <2>3. IsFiniteSet(Upto(e)) /\ IsFiniteSet(Upto(d))
    BY <1>3
  <2>4. /\ Cardinality(Upto(d)) <= Cardinality(Upto(e))
        /\ Cardinality(Upto(e)) = Cardinality(Upto(d)) => Upto(e) = Upto(d)
    BY <2>1, <2>3, FS_Subset
  <2>5. /\ Cardinality(Upto(d)) \in Nat /\ Cardinality(Upto(e)) \in Nat
        /\ Rank(S, d) = Cardinality(Upto(d)) /\ Rank(S, e) = Cardinality(Upto(e))
    BY <1>3
  <2> QED BY <2>2, <2>4, <2>5
<1>6. ASSUME NEW d \in S, NEW e \in S, Rank(S, d) = Rank(S, e)
      PROVE  d = e
  <2>1. ~(Place(d) < Place(e)) /\ ~(Place(e) < Place(d))
    BY <1>4, <1>5, <1>6, <1>1
  <2>2. Place(d) = Place(e)
    BY <2>1, <1>2
  <2> QED BY <2>2, <1>2
<1>7. ASSUME NEW r \in 1..Cardinality(S) PROVE \E e \in S : Rank(S, e) = r
  <2> DEFINE g == [e \in S |-> Rank(S, e)]
             T == 1..Cardinality(S)
  <2>1. g \in Injection(S, T)
    BY <1>4, <1>6 DEF Injection, IsInjective
  <2>2. IsFiniteSet(T) /\ Cardinality(T) = Cardinality(S)
    BY <1>1, FS_Interval
  <2>3. r \in T
    BY <1>7
  <2> HIDE DEF g, T
  <2>4. g \in Surjection(S, T)
    BY <2>1, <2>2, FS_Injection
  <2>5. \E e \in S : g[e] = r
    BY <2>3, <2>4 DEF Surjection
  <2> QED BY <2>5 DEF g
<1> QED BY <1>4, <1>5, <1>6, <1>7

\* More entries listed: none has a smaller rank.
LEMMA RankGrows ==
  ASSUME EachOnce, Len(entries) \in Nat, NEW T \in SUBSET (1..Len(entries)),
         NEW S \in SUBSET T, NEW e \in S
  PROVE  Rank(S, e) <= Rank(T, e)
<1> DEFINE A == {d \in S : Place(d) <= Place(e)}
           B == {d \in T : Place(d) <= Place(e)}
<1>1. B \in SUBSET (1..Len(entries)) /\ A \in SUBSET B
  OBVIOUS
<1> HIDE DEF A, B
<1>2. IsFiniteSet(B)
  <2>1. IsFiniteSet(1..Len(entries))
    BY FS_Interval
  <2> QED BY <1>1, <2>1, FS_Subset
<1>3. Cardinality(A) <= Cardinality(B)
  BY <1>1, <1>2, FS_Subset
<1> QED BY <1>3 DEF Rank, A, B
\* A nonempty set of numbers up to n has a least one.
LEMMA LeastOf ==
  ASSUME NEW n \in Nat, NEW B \in SUBSET (0..n), B # {}
  PROVE  \E m \in B : \A i \in B : m <= i
<1> DEFINE Bad == {1..m : m \in B}
<1>1. IsFiniteSet(1..n)
  BY FS_Interval
<1>2. Bad \subseteq SUBSET (1..n) /\ Bad # {}
  <2>1. ASSUME NEW m \in B PROVE 1..m \in SUBSET (1..n)
    <3>1. m \in 0..n
      OBVIOUS
    <3> QED BY <3>1
  <2> QED BY <2>1
<1> HIDE DEF Bad
<1>3. PICK T \in Bad : \A U \in SUBSET T : U # T => U \notin Bad
  BY <1>1, <1>2, SmallestSubset
<1>4. PICK m \in B : T = 1..m
  BY <1>3 DEF Bad
<1>5. ASSUME NEW i \in B, i < m PROVE FALSE
  <2>1. i \in Nat /\ m \in Nat
    OBVIOUS
  <2>2. 1..i \in SUBSET T
    BY <1>4, <1>5, <2>1
  <2>3. m \in T /\ m \notin 1..i
    BY <1>4, <1>5, <2>1
  <2>4. 1..i \in Bad
    BY DEF Bad
  <2> QED BY <1>3, <2>2, <2>3, <2>4
<1> QED BY <1>5

\* Where pages start in the list.
LEMMA Offsets ==
  ASSUME NEW k \in Nat
  PROVE  /\ k * PageSize \in Nat
         /\ (k + 1) * PageSize = k * PageSize + PageSize
         /\ k <= k * PageSize
<1> DEFINE P == PageSize
<1>1. P \in Nat /\ P >= 1
  BY PagesAssumption
<1> HIDE DEF P
<1>2. k * P \in Nat /\ (k + 1) * P = k * P + P /\ k <= k * P
  BY <1>1
<1> QED BY <1>2 DEF P

\* What the invariant says of a page that was read.
LEMMA ShownPages ==
  ASSUME PageInv, NEW f \in {"all", "odd"}, NEW n \in 0..MaxEntries, pages[<<f, n>>].has
  PROVE  /\ pages[<<f, n>>].data.at \in 0..Len(entries)
         /\ Listed(f, pages[<<f, n>>].data.at) \in SUBSET (1..Len(entries))
         /\ ShowsRanks(n, Listed(f, pages[<<f, n>>].data.at), pages[<<f, n>>])
<1>1. PageOK(f, n)
  BY DEF PageInv
<1>2. Len(entries) \in Nat
  BY DEF PageInv, PageTypeOK
<1>3. pages[<<f, n>>].data.at \in 0..Len(entries)
  BY <1>1 DEF PageOK
<1>4. Listed(f, pages[<<f, n>>].data.at) \in SUBSET (1..Len(entries))
  BY <1>2, <1>3 DEF Listed
<1> QED BY <1>1, <1>3, <1>4 DEF PageOK

\* Take the first of the pages on which the entry's rank is not above the page's
\* last one: on the page before it was above that page's last, and ranks only
\* grow, so that the entry is one of this page's.
LEMMA NothingMissed == PageInv => PagesMissNothing
<1> SUFFICES ASSUME PageInv, NEW f \in {"all", "odd"}, NEW n \in 0..MaxEntries,
                    \A k \in 0..n : pages[<<f, k>>].has
                      /\ (k > 0 => pages[<<f, k - 1>>].data.at <= pages[<<f, k>>].data.at)
             PROVE  /\ \A last \in RowsOf(pages[<<f, n>>]), e \in 1..pages[<<f, 0>>].data.at :
                         Matches(f, e) /\ Place(e) < Place(last)
                           => \E k \in 0..n : e \in RowsOf(pages[<<f, k>>])
                    /\ n > 0 => RowsOf(pages[<<f, n>>]) # {}
  BY DEF PagesMissNothing
<1> DEFINE at(k) == pages[<<f, k>>].data.at
           S(k) == Listed(f, at(k))
<1>1. EachOnce /\ Len(entries) \in Nat /\ n \in Nat /\ MaxEntries \in Nat
  BY PagesAssumption DEF PageInv, PageTypeOK
<1>2. ASSUME NEW k \in 0..n
      PROVE  /\ at(k) \in 0..Len(entries) /\ S(k) \in SUBSET (1..Len(entries))
             /\ ShowsRanks(k, S(k), pages[<<f, k>>])
             /\ at(k) \in Nat
  <2>1. k \in 0..MaxEntries
    BY <1>1
  <2>2. pages[<<f, k>>].has
    OBVIOUS
  <2>3. at(k) \in 0..Len(entries)
    BY <2>1, <2>2, ShownPages
  <2>4. S(k) \in SUBSET (1..Len(entries)) /\ ShowsRanks(k, S(k), pages[<<f, k>>])
    BY <2>1, <2>2, ShownPages
  <2> QED BY <2>3, <2>4, <1>1
<1>3. ASSUME NEW k \in 0..n, k > 0 PROVE k - 1 \in 0..n /\ at(k - 1) <= at(k)
  BY <1>1, <1>3
<1> HIDE DEF at
<1>4. ASSUME NEW k \in 0..n PROVE at(0) <= at(k)
  <2> DEFINE Bad == {j \in 0..n : ~(at(0) <= at(j))}
  <2> SUFFICES ASSUME Bad # {} PROVE FALSE
    BY <1>4
  <2>1. Bad \in SUBSET (0..n)
    OBVIOUS
  <2> HIDE DEF Bad
  <2>2. PICK j \in Bad : \A i \in Bad : j <= i
    BY <1>1, <2>1, LeastOf
  <2>3. j \in 0..n /\ ~(at(0) <= at(j))
    BY <2>2 DEF Bad
  <2>4. CASE j = 0
    <3>1. 0 \in 0..n
      BY <1>1
    <3>2. at(0) \in 0..Len(entries)
      BY <3>1, <1>2
    <3> QED BY <2>3, <2>4, <3>2, <1>1
  <2>5. CASE j > 0
    <3>1. j - 1 \in 0..n /\ at(j - 1) <= at(j)
      BY <2>3, <2>5, <1>3
    <3>2. at(j - 1) \in Nat /\ at(j) \in Nat /\ at(0) \in Nat
      <4>1. 0 \in 0..n
        BY <1>1
      <4> QED BY <2>3, <3>1, <4>1, <1>2
    <3>3. ~(at(0) <= at(j - 1))
      BY <2>3, <3>1, <3>2, <1>1
    <3>4. j - 1 \in Bad
      BY <3>1, <3>3 DEF Bad
    <3>5. j <= j - 1
      BY <2>2, <3>4
    <3> QED BY <3>5, <2>3
  <2> QED BY <2>3, <2>4, <2>5
<1>5. 0 \in 0..n /\ n \in 0..n
  BY <1>1
<1>6. ASSUME NEW last \in RowsOf(pages[<<f, n>>]), NEW e \in 1..pages[<<f, 0>>].data.at,
             Matches(f, e), Place(e) < Place(last)
      PROVE  \E k \in 0..n : e \in RowsOf(pages[<<f, k>>])
  <2>1. e \in 1..at(0)
    BY DEF at
  <2>2. ASSUME NEW k \in 0..n PROVE e \in S(k)
    <3>1. e \in 1..at(k)
      <4>1. at(0) \in Nat /\ at(k) \in Nat
        BY <1>2, <1>5
      <4>2. at(0) <= at(k)
        BY <1>4
      <4> QED BY <2>1, <4>1, <4>2
    <3> QED BY <3>1, <1>6 DEF Listed
  <2> DEFINE r(k) == Rank(S(k), e)
             Start(k) == k * PageSize
  <2>3. ASSUME NEW k \in 0..n
        PROVE  r(k) \in Nat /\ r(k) >= 1 /\ Start(k) \in Nat /\ Start(k + 1) = Start(k) + PageSize
    <3>1. S(k) \in SUBSET (1..Len(entries)) /\ e \in S(k)
      BY <2>2, <1>2
    <3>2. r(k) \in 1..Cardinality(S(k))
      BY <3>1, <1>1, RankFacts
    <3>3. k \in Nat
      BY <1>1
    <3> QED BY <3>2, <3>3, Offsets
  <2>4. ASSUME NEW k \in 0..n, r(k) > Start(k), r(k) <= Start(k) + PageSize
        PROVE  e \in RowsOf(pages[<<f, k>>])
    <3>1. r(k) \in (Start(k) + 1)..(Start(k) + PageSize)
      BY <2>3, <2>4, PagesAssumption
    <3>2. ShowsRanks(k, S(k), pages[<<f, k>>]) /\ e \in S(k)
      BY <1>2, <2>2
    <3> QED BY <3>1, <3>2 DEF ShowsRanks
  <2>5. r(n) <= Start(n) + PageSize
    <3>1. ShowsRanks(n, S(n), pages[<<f, n>>]) /\ S(n) \in SUBSET (1..Len(entries)) /\ e \in S(n)
      BY <1>2, <1>5, <2>2
    <3>2. last \in S(n) /\ Rank(S(n), last) \in (Start(n) + 1)..(Start(n) + PageSize)
      BY <3>1, <1>6 DEF ShowsRanks
    <3>3. Rank(S(n), e) < Rank(S(n), last)
      BY <3>1, <3>2, <1>1, <1>6, RankFacts
    <3> QED BY <3>2, <3>3, <2>3, <1>5, PagesAssumption
  <2>6. ASSUME NEW k \in 0..n, k > 0 PROVE r(k - 1) <= r(k)
    <3>1. k - 1 \in 0..n /\ at(k - 1) <= at(k)
      BY <1>3, <2>6
    <3>2. at(k - 1) \in Nat /\ at(k) \in Nat
      BY <3>1, <1>2
    <3>3. S(k - 1) \in SUBSET S(k) /\ S(k) \in SUBSET (1..Len(entries)) /\ e \in S(k - 1)
      BY <3>1, <3>2, <1>2, <2>2, ListedFacts
    <3> QED BY <3>3, <1>1, RankGrows
  <2> HIDE DEF S, r, Start
  <2> DEFINE Within == {k \in 0..n : r(k) <= Start(k) + PageSize}
  <2>7. n \in Within /\ Within \in SUBSET (0..n)
    BY <1>5, <2>5
  <2> HIDE DEF Within
  <2>8. PICK k \in Within : \A i \in Within : k <= i
    BY <1>1, <2>7, LeastOf
  <2>9. k \in 0..n /\ r(k) <= Start(k) + PageSize
    BY <2>8 DEF Within
  <2>10. r(k) > Start(k)
    <3>1. CASE k = 0
      <4>1. Start(0) = 0
        BY PagesAssumption DEF Start
      <4> QED BY <3>1, <4>1, <2>3, <2>9
    <3>2. CASE k > 0
      <4>1. k - 1 \in 0..n /\ k - 1 \notin Within
        BY <2>8, <2>9, <3>2, <1>3
      <4>2. ~(r(k - 1) <= Start(k - 1) + PageSize)
        BY <4>1 DEF Within
      <4>3. Start((k - 1) + 1) = Start(k - 1) + PageSize /\ Start(k - 1) \in Nat /\ r(k - 1) \in Nat
        BY <4>1, <2>3
      <4>4. (k - 1) + 1 = k
        BY <2>9
      <4>5. r(k - 1) > Start(k)
        BY <4>2, <4>3, <4>4, PagesAssumption
      <4>6. r(k - 1) <= r(k)
        BY <2>6, <2>9, <3>2
      <4>7. r(k) \in Nat /\ Start(k) \in Nat
        BY <2>3, <2>9
      <4> QED BY <4>3, <4>5, <4>6, <4>7
    <3> QED BY <2>9, <3>1, <3>2
  <2> QED BY <2>4, <2>9, <2>10
<1>7. ASSUME n > 0 PROVE RowsOf(pages[<<f, n>>]) # {}
  <2>1. ShowsRanks(n, S(n), pages[<<f, n>>]) /\ S(n) \in SUBSET (1..Len(entries))
    BY <1>2, <1>5
  <2> DEFINE m == n * PageSize
             c == Cardinality(S(n))
  <2>2. c > m
    BY <2>1, <1>7 DEF ShowsRanks
  <2>3. m \in Nat /\ PageSize \in Nat \ {0}
    BY <1>1, Offsets, PagesAssumption
  <2>4. c \in Nat
    <3>1. at(n) \in Nat
      BY <1>2, <1>5
    <3> QED BY <3>1, ListedFacts
  <2> HIDE DEF m, c
  <2>5. m + 1 \in 1..c /\ m + 1 \in (m + 1)..(m + PageSize)
    BY <2>2, <2>3, <2>4
  <2>6. PICK e \in S(n) : Rank(S(n), e) = m + 1
    BY <2>1, <2>5, <1>1, RankFacts DEF c
  <2>7. e \in RowsOf(pages[<<f, n>>])
    BY <2>1, <2>5, <2>6 DEF ShowsRanks, m
  <2> QED BY <2>7
<1> QED BY <1>6, <1>7 DEF at

\* Where the entries stand after one is inserted.
LEMMA Inserted ==
  ASSUME entries \in Seq(Nat), NEW i \in 0..Len(entries)
  PROVE  /\ InsertedAt(i) \in Seq(Nat)
         /\ Len(InsertedAt(i)) = Len(entries) + 1
         /\ \A j \in 1..(Len(entries) + 1) :
              InsertedAt(i)[j] = IF j <= i THEN entries[j]
                                 ELSE IF j = i + 1 THEN Len(entries) + 1
                                 ELSE entries[j - 1]
<1> DEFINE N == Len(entries)
           a == SubSeq(entries, 1, i)
           b == <<N + 1>>
           c == SubSeq(entries, i + 1, N)
<1>1. N \in Nat /\ i \in Nat /\ i <= N
  BY LenProperties
<1>2. \A j \in 1..N : entries[j] \in Nat
  BY ElementOfSeq
<1>3. a \in Seq(Nat) /\ Len(a) = i /\ \A j \in 1..i : a[j] = entries[j]
  <2>1. \A j \in 1..i : entries[j] \in Nat
    BY <1>1, <1>2
  <2>2. /\ SubSeq(entries, 1, i) \in Seq(Nat)
        /\ Len(SubSeq(entries, 1, i)) = IF 1 <= i THEN i - 1 + 1 ELSE 0
        /\ \A j \in 1..(i - 1 + 1) : SubSeq(entries, 1, i)[j] = entries[1 + j - 1]
    BY <2>1, <1>1, SubSeqProperties
  <2> QED BY <2>2, <1>1
<1>4. c \in Seq(Nat) /\ Len(c) = N - i /\ \A j \in 1..(N - i) : c[j] = entries[i + j]
  <2>1. \A j \in (i + 1)..N : entries[j] \in Nat
    BY <1>1, <1>2
  <2>2. i + 1 \in Int /\ N \in Int
    BY <1>1
  <2> HIDE DEF N
  <2>3. /\ SubSeq(entries, i + 1, N) \in Seq(Nat)
        /\ Len(SubSeq(entries, i + 1, N)) = IF i + 1 <= N THEN N - (i + 1) + 1 ELSE 0
        /\ \A j \in 1..(N - (i + 1) + 1) : SubSeq(entries, i + 1, N)[j] = entries[(i + 1) + j - 1]
    BY <2>1, <2>2, SubSeqProperties
  <2>4. \A j \in 1..(N - i) : j \in 1..(N - (i + 1) + 1) /\ (i + 1) + j - 1 = i + j
    BY <1>1
  <2> QED BY <2>3, <2>4, <1>1
<1>5. b \in Seq(Nat) /\ Len(b) = 1 /\ b[1] = N + 1
  BY <1>1
<1> HIDE DEF N, a, b, c
<1>6. /\ a \o b \in Seq(Nat) /\ Len(a \o b) = i + 1
      /\ \A j \in 1..(i + 1) : (a \o b)[j] = IF j <= i THEN entries[j] ELSE N + 1
  <2>1. /\ a \o b \in Seq(Nat) /\ Len(a \o b) = Len(a) + Len(b)
        /\ \A j \in 1..(Len(a) + Len(b)) :
             (a \o b)[j] = IF j <= Len(a) THEN a[j] ELSE b[j - Len(a)]
    BY <1>3, <1>5, ConcatProperties
  <2>2. ASSUME NEW j \in 1..(i + 1) PROVE (a \o b)[j] = IF j <= i THEN entries[j] ELSE N + 1
    <3>1. CASE j <= i
      BY <3>1, <2>1, <1>1, <1>3, <1>5
    <3>2. CASE j = i + 1
      <4>1. j - i = 1
        BY <3>2, <1>1
      <4> QED BY <3>2, <4>1, <2>1, <1>1, <1>3, <1>5
    <3>3. j <= i \/ j = i + 1
      BY <1>1
    <3> QED BY <3>1, <3>2, <3>3
  <2> QED BY <2>1, <2>2, <1>1, <1>3, <1>5
<1> DEFINE d == a \o b
<1>7. d \in Seq(Nat) /\ Len(d) = i + 1
      /\ \A j \in 1..(i + 1) : d[j] = IF j <= i THEN entries[j] ELSE N + 1
  BY <1>6
<1> HIDE DEF d
<1>8. /\ d \o c \in Seq(Nat) /\ Len(d \o c) = Len(d) + Len(c)
      /\ \A j \in 1..(Len(d) + Len(c)) :
           (d \o c)[j] = IF j <= Len(d) THEN d[j] ELSE c[j - Len(d)]
  BY <1>4, <1>7, ConcatProperties
<1>9. ASSUME NEW j \in 1..(N + 1)
      PROVE  (d \o c)[j] = IF j <= i THEN entries[j] ELSE IF j = i + 1 THEN N + 1
                           ELSE entries[j - 1]
  <2>1. CASE j <= i + 1
    BY <2>1, <1>1, <1>4, <1>7, <1>8
  <2>2. CASE j > i + 1
    <3>1. j - (i + 1) \in 1..(N - i) /\ i + (j - (i + 1)) = j - 1
      BY <2>2, <1>1
    <3>2. j \in 1..(Len(d) + Len(c)) /\ ~(j <= Len(d)) /\ Len(d) = i + 1
      BY <2>2, <1>1, <1>4, <1>7
    <3>3. (d \o c)[j] = c[j - (i + 1)]
      BY <3>2, <1>8
    <3>4. c[j - (i + 1)] = entries[i + (j - (i + 1))]
      BY <3>1, <1>4
    <3>5. ~(j <= i) /\ j # i + 1
      BY <2>2, <1>1
    <3>6. (d \o c)[j] = entries[j - 1]
      BY <3>1, <3>3, <3>4
    <3> QED BY <3>5, <3>6
  <2>3. j <= i + 1 \/ j > i + 1
    BY <1>1
  <2> QED BY <2>1, <2>2, <2>3
<1>10. InsertedAt(i) = d \o c
  BY DEF InsertedAt, N, a, b, c, d
<1>11. Len(d \o c) = N + 1
  BY <1>1, <1>4, <1>7, <1>8
<1> QED BY <1>8, <1>9, <1>10, <1>11 DEF N

\* An entry is listed before, between or after the others, which keep their
\* order, and with it their ranks.
LEMMA RankStays ==
  ASSUME PageTypeOK, EachOnce, NEW i \in 0..Len(entries), entries' = InsertedAt(i)
  PROVE  /\ EachOnce' /\ Len(entries') = Len(entries) + 1 /\ entries' \in Seq(Nat)
         /\ \A S \in SUBSET (1..Len(entries)), e \in 1..Len(entries) :
              e \in S => \A R : R = S => Rank(R, e)' = Rank(S, e)
<1> DEFINE N == Len(entries)
<1>1. N \in Nat /\ i \in Nat /\ i <= N
  BY DEF PageTypeOK
<1>2. /\ entries' \in Seq(Nat) /\ Len(entries') = N + 1
      /\ \A j \in 1..(N + 1) :
           entries'[j] = IF j <= i THEN entries[j] ELSE IF j = i + 1 THEN N + 1
                         ELSE entries[j - 1]
  BY Inserted DEF PageTypeOK
<1>3. /\ \A j \in 1..N : entries[j] \in 1..N
      /\ \A j, k \in 1..N : entries[j] = entries[k] => j = k
      /\ \A e \in 1..N : \E j \in 1..N : entries[j] = e
  BY DEF EachOnce
<1> HIDE DEF N
<1> DEFINE Moved(j) == IF j <= i THEN j ELSE j + 1
<1>4. ASSUME NEW j \in 1..N PROVE Moved(j) \in 1..(N + 1) /\ entries'[Moved(j)] = entries[j]
  <2>1. CASE j <= i
    BY <2>1, <1>1, <1>2
  <2>2. CASE j > i
    <3>1. j + 1 \in 1..(N + 1) /\ j + 1 > i + 1 /\ (j + 1) - 1 = j
      BY <2>2, <1>1
    <3> QED BY <2>2, <3>1, <1>1, <1>2
  <2> QED BY <2>1, <2>2, <1>1
<1>5. i + 1 \in 1..(N + 1) /\ entries'[i + 1] = N + 1
  BY <1>1, <1>2
<1>6. ASSUME NEW k \in 1..(N + 1), k # i + 1
      PROVE  \E j \in 1..N : k = Moved(j) /\ entries'[k] = entries[j]
  <2>1. CASE k <= i
    <3>1. k \in 1..N /\ k = Moved(k)
      BY <2>1, <1>1
    <3>2. entries'[k] = entries[k]
      BY <2>1, <1>2
    <3> QED BY <3>1, <3>2
  <2>2. CASE k > i + 1
    <3>1. k - 1 \in 1..N /\ k - 1 > i /\ (k - 1) + 1 = k
      BY <2>2, <1>1
    <3>2. k = Moved(k - 1)
      BY <3>1, <1>1
    <3> QED BY <3>1, <3>2, <1>4
  <2> QED BY <2>1, <2>2, <1>1, <1>6
<1>7. \A k \in 1..(N + 1) : entries'[k] \in 1..(N + 1)
  <2>1. ASSUME NEW k \in 1..(N + 1) PROVE entries'[k] \in 1..(N + 1)
    <3>1. CASE k = i + 1
      BY <3>1, <1>1, <1>5
    <3>2. CASE k # i + 1
      <4>1. PICK j \in 1..N : entries'[k] = entries[j]
        BY <3>2, <1>6
      <4> QED BY <4>1, <1>1, <1>3
    <3> QED BY <3>1, <3>2
  <2> QED BY <2>1
<1>8. \A k, l \in 1..(N + 1) : entries'[k] = entries'[l] => k = l
  <2>1. ASSUME NEW k \in 1..(N + 1), NEW l \in 1..(N + 1), entries'[k] = entries'[l]
        PROVE  k = l
    <3>1. ASSUME NEW m \in 1..(N + 1), m # i + 1 PROVE entries'[m] # N + 1
      <4>1. PICK j \in 1..N : entries'[m] = entries[j]
        BY <3>1, <1>6
      <4> QED BY <4>1, <1>1, <1>3
    <3>2. CASE k # i + 1 /\ l # i + 1
      <4>1. PICK j \in 1..N : k = Moved(j) /\ entries'[k] = entries[j]
        BY <3>2, <1>6
      <4>2. PICK m \in 1..N : l = Moved(m) /\ entries'[l] = entries[m]
        BY <3>2, <1>6
      <4>3. entries[j] = entries[m]
        BY <4>1, <4>2, <2>1
      <4>4. j = m
        BY <4>3, <1>3
      <4> QED BY <4>1, <4>2, <4>4
    <3>3. CASE k = i + 1
      BY <3>1, <3>3, <2>1, <1>5
    <3>4. CASE l = i + 1
      BY <3>1, <3>4, <2>1, <1>5
    <3> QED BY <3>2, <3>3, <3>4
  <2> QED BY <2>1
<1>9. \A e \in 1..(N + 1) : \E k \in 1..(N + 1) : entries'[k] = e
  <2>1. ASSUME NEW e \in 1..(N + 1) PROVE \E k \in 1..(N + 1) : entries'[k] = e
    <3>1. CASE e = N + 1
      BY <3>1, <1>5
    <3>2. CASE e \in 1..N
      <4>1. PICK j \in 1..N : entries[j] = e
        BY <3>2, <1>3
      <4> QED BY <4>1, <1>4
    <3> QED BY <3>1, <3>2, <1>1
  <2> QED BY <2>1
<1>10. EachOnce'
  BY <1>2, <1>7, <1>8, <1>9 DEF EachOnce
<1>11. ASSUME NEW e \in 1..N
       PROVE  /\ Place(e) \in 1..N /\ Place(e)' = Moved(Place(e))
  <2>1. Place(e) \in 1..N /\ entries[Place(e)] = e
    BY PlaceOf DEF N
  <2>2. Place(e)' = CHOOSE k \in 1..(N + 1) : entries'[k] = e
    BY <1>2 DEF Place
  <2> DEFINE p == Place(e)
  <2> HIDE DEF p
  <2>3. Moved(p) \in 1..(N + 1) /\ entries'[Moved(p)] = e
    BY <2>1, <1>4 DEF p
  <2> HIDE DEF Moved
  <2>4. \A k \in 1..(N + 1) : entries'[k] = e => k = Moved(p)
    BY <2>3, <1>8
  <2> QED BY <2>1, <2>2, <2>3, <2>4 DEF p
<1>12. ASSUME NEW d \in 1..N, NEW e \in 1..N
       PROVE  Place(d)' <= Place(e)' <=> Place(d) <= Place(e)
  <2> DEFINE p == Place(d)
             q == Place(e)
  <2>1. p \in 1..N /\ q \in 1..N /\ Place(d)' = Moved(p) /\ Place(e)' = Moved(q)
    BY <1>11
  <2> HIDE DEF p, q
  <2>2. Moved(p) <= Moved(q) <=> p <= q
    BY <2>1, <1>1
  <2> QED BY <2>1, <2>2 DEF p, q
<1>13. ASSUME NEW S \in SUBSET (1..N), NEW e \in 1..N, e \in S, NEW R, R = S
       PROVE  Rank(R, e)' = Rank(S, e)
  <2> HIDE DEF Moved
  <2>1. {d \in S : Place(d)' <= Place(e)'} = {d \in S : Place(d) <= Place(e)}
    BY <1>12
  <2> QED BY <2>1, <1>13 DEF Rank
<1> QED BY <1>2, <1>10, <1>13 DEF N
\* The rows the server answers with are those of the page's ranks.
LEMMA SliceShows ==
  ASSUME EachOnce, Len(entries) \in Nat, NEW f, NEW n \in Nat, Reaches(f, n),
         NEW q, q.data.rows = Slice(f, n)
  PROVE  /\ ShowsRanks(n, Listed(f, Len(entries)), q)
         /\ q.data.rows \in Seq(Nat)
<1> DEFINE S == Listed(f, Len(entries))
           c == Cardinality(S)
           m == n * PageSize
           P == PageSize
           D == {i \in 1..(P + 1) : m + i <= c}
           g(i) == CHOOSE e \in S : Rank(S, e) = m + i
<1>1. S \in SUBSET (1..Len(entries)) /\ c \in Nat
  BY ListedFacts
<1>2. m \in Nat /\ P \in Nat \ {0}
  BY Offsets, PagesAssumption
<1>3. /\ \A e \in S : Rank(S, e) \in 1..c
      /\ \A d, e \in S : Rank(S, d) = Rank(S, e) => d = e
      /\ \A r \in 1..c : \E e \in S : Rank(S, e) = r
  BY <1>1, RankFacts
<1>4. q.data.rows = [i \in D |-> g(i)]
  BY DEF Slice
<1>5. n > 0 => c > m
  BY DEF Reaches
<1> HIDE DEF S, c, m, P
<1>6. ASSUME NEW i \in D PROVE g(i) \in S /\ Rank(S, g(i)) = m + i
  <2>1. m + i \in 1..c
    BY <1>1, <1>2
  <2>2. \E e \in S : Rank(S, e) = m + i
    BY <2>1, <1>3
  <2> QED BY <2>2
<1> HIDE DEF g
<1>7. DOMAIN q.data.rows = D
  BY <1>4
<1>8. RowsOf(q) = {g(i) : i \in (1..P) \cap D}
  <2>1. \A i \in (1..P) \cap D : q.data.rows[i] = g(i)
    BY <1>4
  <2> QED BY <2>1, <1>7 DEF RowsOf, P
<1>9. RowsOf(q) \subseteq S
  BY <1>6, <1>8
<1>10. ASSUME NEW e \in S
       PROVE  e \in RowsOf(q) <=> Rank(S, e) \in (m + 1)..(m + P)
  <2>1. ASSUME NEW i \in (1..P) \cap D, e = g(i) PROVE Rank(S, e) \in (m + 1)..(m + P)
    <3>1. Rank(S, e) = m + i
      BY <2>1, <1>6
    <3> QED BY <3>1, <1>2
  <2>2. ASSUME Rank(S, e) \in (m + 1)..(m + P) PROVE e \in RowsOf(q)
    <3> DEFINE r == Rank(S, e)
    <3>1. r \in 1..c /\ r \in (m + 1)..(m + P)
      BY <2>2, <1>3
    <3> HIDE DEF r
    <3>2. r - m \in 1..P /\ r - m \in 1..(P + 1) /\ m + (r - m) <= c /\ m + (r - m) = r
      BY <3>1, <1>1, <1>2
    <3>3. r - m \in (1..P) \cap D
      BY <3>2
    <3>4. g(r - m) \in S /\ Rank(S, g(r - m)) = r
      BY <3>2, <3>3, <1>6
    <3>5. g(r - m) = e
      BY <3>4, <1>3 DEF r
    <3> QED BY <3>3, <3>5, <1>8
  <2> QED BY <2>1, <2>2, <1>8
<1>11. q.data.rows \in Seq(Nat)
  <2> DEFINE k == IF c <= m THEN 0 ELSE IF c - m <= P THEN c - m ELSE P + 1
  <2>1. k \in Nat /\ D = 1..k
    <3>1. CASE c <= m
      BY <3>1, <1>1, <1>2
    <3>2. CASE c > m /\ c - m <= P
      BY <3>2, <1>1, <1>2
    <3>3. CASE c > m /\ c - m > P
      BY <3>3, <1>1, <1>2
    <3> QED BY <3>1, <3>2, <3>3, <1>1, <1>2
  <2>2. \A i \in D : g(i) \in Nat
    <3>1. ASSUME NEW i \in D PROVE g(i) \in Nat
      <4>1. g(i) \in 1..Len(entries)
        BY <1>1, <1>6
      <4> QED BY <4>1
    <3> QED BY <3>1
  <2> HIDE DEF k, D
  <2>3. q.data.rows \in [1..k -> Nat]
    BY <2>1, <2>2, <1>4
  <2> QED BY <2>1, <2>3, SeqDef
<1>12. ShowsRanks(n, S, q)
  BY <1>5, <1>7, <1>9, <1>10 DEF ShowsRanks, m, P, c
<1> QED BY <1>11, <1>12 DEF S

\* Reading, failing and marking keep what a page shows.
LEMMA SameAnswer ==
  ASSUME entries' = entries, NEW f, NEW n, PageOK(f, n),
         pages'[<<f, n>>].has = pages[<<f, n>>].has,
         pages'[<<f, n>>].data = pages[<<f, n>>].data,
         pages'[<<f, n>>].reading => Reaches(f, n)
  PROVE  PageOK(f, n)'
<1>1. Reaches(f, n)' <=> Reaches(f, n)
  BY DEF Reaches, Listed
<1>2. ASSUME NEW S, NEW q, NEW r, r.data = q.data, ShowsRanks(n, S, q)
      PROVE  ShowsRanks(n, S, r)'
  <2>1. ASSUME NEW e PROVE Rank(S, e)' = Rank(S, e)
    BY DEF Rank, Place
  <2>2. RowsOf(r) = RowsOf(q)
    BY <1>2 DEF RowsOf
  <2> QED BY <1>2, <2>1, <2>2 DEF ShowsRanks
<1>3. ASSUME pages[<<f, n>>].has
      PROVE  ShowsRanks(n, Listed(f, pages[<<f, n>>].data.at), pages[<<f, n>>])'
  <2>1. ShowsRanks(n, Listed(f, pages[<<f, n>>].data.at), pages[<<f, n>>])
    BY <1>3 DEF PageOK
  <2>2. \A S, r : /\ S = Listed(f, pages'[<<f, n>>].data.at)
                  /\ r = pages'[<<f, n>>]
                 => ShowsRanks(n, S, r)'
    BY <1>2, <2>1
  <2> QED BY <2>2
<1> QED BY <1>1, <1>3 DEF PageOK

\* The invariant holds when a list comes on screen: one page is being read.
LEMMA PagesStart == PageInit => PageInv
<1> SUFFICES ASSUME PageInit PROVE PageInv
  OBVIOUS
<1>1. /\ Len(entries) = 0 /\ entries \in Seq(Nat) /\ entries = <<>>
      /\ filter = "all" /\ pageNo = 0 /\ MaxEntries \in Nat
  BY PagesAssumption DEF PageInit
<1>2. Nothing \in [rows : Seq(Nat), at : 0..MaxEntries] /\ Nothing.at = 0
  BY <1>1 DEF Nothing
<1> HIDE DEF Nothing
<1>3. ASSUME NEW k \in Keys
      PROVE  /\ pages[k] \in PageQueries /\ pages[k].data = Nothing /\ ~pages[k].has
             /\ pages[k].reading => k = <<"all", 0>>
  <2>1. pages[k] = IF k = <<"all", 0>> THEN FirstRead(Nothing) ELSE Unread(Nothing)
    BY DEF PageInit
  <2>2. CASE k = <<"all", 0>>
    <3>1. pages[k] = [has |-> FALSE, data |-> Nothing, reading |-> TRUE, stale |-> FALSE]
      BY <2>1, <2>2 DEF FirstRead, Mounted, Unread
    <3> QED BY <2>2, <3>1, <1>2 DEF PageQueries
  <2>3. CASE k # <<"all", 0>>
    <3>1. pages[k] = [has |-> FALSE, data |-> Nothing, reading |-> FALSE, stale |-> FALSE]
      BY <2>1, <2>3 DEF Unread
    <3> QED BY <3>1, <1>2 DEF PageQueries
  <2> QED BY <2>2, <2>3
<1>4. PageTypeOK
  <2>1. pages \in [Keys -> PageQueries]
    <3>1. pages = [k \in Keys |-> pages[k]]
      BY DEF PageInit
    <3> QED BY <1>3, <3>1
  <2> QED BY <1>1, <2>1 DEF PageTypeOK
<1>5. EachOnce
  BY <1>1 DEF EachOnce
<1>6. ASSUME NEW f \in {"all", "odd"}, NEW n \in 0..MaxEntries PROVE PageOK(f, n)
  <2>1. <<f, n>> \in Keys
    BY DEF Keys
  <2>2. pages[<<f, n>>].reading => n = 0
    BY <2>1, <1>3
  <2>3. n = 0 => Reaches(f, n)
    BY DEF Reaches
  <2>4. pages[<<f, n>>].data = Nothing /\ ~pages[<<f, n>>].has
    BY <2>1, <1>3
  <2> QED BY <1>1, <1>2, <2>2, <2>3, <2>4 DEF PageOK
<1>7. Reaches(filter, pageNo)
  BY <1>1 DEF Reaches
<1> QED BY <1>4, <1>5, <1>6, <1>7 DEF PageInv

\* A new entry changes no page that was read, and takes none away.
LEMMA EntryAddedKeeps == PageInv /\ EntryAdded => PageInv'
<1> SUFFICES ASSUME PageInv, EntryAdded PROVE PageInv'
  OBVIOUS
<1>1. /\ PageTypeOK /\ EachOnce /\ Len(entries) \in Nat /\ Len(entries) < MaxEntries
      /\ MaxEntries \in Nat
  BY PagesAssumption DEF PageInv, PageTypeOK, EntryAdded
<1>2. PICK i \in 0..Len(entries) : entries' = InsertedAt(i)
  BY DEF EntryAdded
<1>3. pages' = pages /\ filter' = filter /\ pageNo' = pageNo
  BY DEF EntryAdded
<1>4. /\ EachOnce' /\ Len(entries') = Len(entries) + 1 /\ entries' \in Seq(Nat)
      /\ \A S \in SUBSET (1..Len(entries)), e \in 1..Len(entries) :
              e \in S => \A R : R = S => Rank(R, e)' = Rank(S, e)
  BY <1>1, <1>2, RankStays
<1>5. PageTypeOK'
  BY <1>1, <1>3, <1>4 DEF PageTypeOK
<1>6. ASSUME NEW f, NEW n \in Nat, Reaches(f, n) PROVE Reaches(f, n)'
  <2> DEFINE c == Cardinality(Listed(f, Len(entries)))
             d == Cardinality(Listed(f, Len(entries')))
             m == n * PageSize
  <2>1. Len(entries) <= Len(entries') /\ Len(entries') \in Nat
    BY <1>1, <1>4
  <2>2. c \in 0..Len(entries) /\ d \in 0..Len(entries') /\ c <= d
    BY <1>1, <2>1, ListedFacts
  <2>3. n > 0 => c > m
    BY <1>6 DEF Reaches
  <2>4. m \in Nat
    BY Offsets
  <2> HIDE DEF c, d, m
  <2>5. n > 0 => d > m
    BY <1>1, <2>1, <2>2, <2>3, <2>4
  <2>6. \A x : x = Len(entries') => (n > 0 => Cardinality(Listed(f, x)) > n * PageSize)
    BY <2>5 DEF d, m
  <2> QED BY <2>6 DEF Reaches
<1>7. ASSUME NEW f \in {"all", "odd"}, NEW n \in 0..MaxEntries PROVE PageOK(f, n)'
  <2>1. PageOK(f, n) /\ n \in Nat
    BY DEF PageInv
  <2> DEFINE q == pages[<<f, n>>]
             S == Listed(f, q.data.at)
  <2>2. q.data.at \in 0..Len(entries) /\ q.data.at \in 0..Len(entries')
    BY <2>1, <1>1, <1>4 DEF PageOK
  <2>3. S \in SUBSET (1..Len(entries))
    <3>1. q.data.at \in Nat /\ q.data.at <= Len(entries)
      BY <2>2, <1>1
    <3>2. S \subseteq 1..q.data.at
      BY <3>1, ListedFacts
    <3> QED BY <3>1, <3>2, <1>1
  <2>4. ASSUME NEW T \in SUBSET (1..Len(entries)), NEW r, ShowsRanks(n, T, r)
        PROVE  ShowsRanks(n, T, r)'
    <3>1. ASSUME NEW e \in T PROVE Rank(T, e)' = Rank(T, e)
      BY <1>4
    <3> QED BY <2>4, <3>1 DEF ShowsRanks
  <2>5. q.has => ShowsRanks(n, S, q)
    BY <2>1 DEF PageOK
  <2> HIDE DEF S
  <2>6. q.has => \A T, r : T = S /\ r = q => ShowsRanks(n, T, r)'
    BY <2>3, <2>4, <2>5
  <2>7. pages'[<<f, n>>] = q
    BY <1>3
  <2>8. q.has => ShowsRanks(n, Listed(f, pages[<<f, n>>].data.at), pages[<<f, n>>])'
    <3>1. q.has => \A T, r : /\ T = Listed(f, pages'[<<f, n>>].data.at)
                             /\ r = pages'[<<f, n>>]
                             => ShowsRanks(n, T, r)'
      BY <2>6, <2>7 DEF S
    <3> QED BY <3>1
  <2>9. q.reading => Reaches(f, n)'
    BY <2>1, <1>6 DEF PageOK
  <2> QED BY <2>1, <2>2, <2>7, <2>8, <2>9 DEF PageOK
<1>8. Reaches(filter, pageNo)'
  <2>1. pageNo \in Nat /\ Reaches(filter, pageNo)
    BY <1>1 DEF PageInv, PageTypeOK
  <2>2. \A f, n : f = filter' /\ n = pageNo' => Reaches(f, n)'
    BY <2>1, <1>3, <1>6
  <2> QED BY <2>2
<1> QED BY <1>4, <1>5, <1>7, <1>8 DEF PageInv
\* One query changes, the list does not.
LEMMA QueryKeeps ==
  ASSUME PageInv, NEW f \in {"all", "odd"}, NEW n \in 0..MaxEntries, NEW q \in PageQueries,
         entries' = entries, pages' = [pages EXCEPT ![<<f, n>>] = q],
         filter' \in {"all", "odd"}, pageNo' \in 0..MaxEntries, PageOK(f, n)',
         Reaches(filter, pageNo)'
  PROVE  PageInv'
<1>1. <<f, n>> \in Keys
  BY DEF Keys
<1>2. PageTypeOK'
  BY <1>1 DEF PageInv, PageTypeOK
<1>3. EachOnce'
  BY DEF PageInv, EachOnce
<1>4. ASSUME NEW g \in {"all", "odd"}, NEW m \in 0..MaxEntries PROVE PageOK(g, m)'
  <2>1. CASE <<g, m>> = <<f, n>>
    <3>1. g = f /\ m = n
      BY <2>1
    <3> QED BY <3>1
  <2>2. CASE <<g, m>> # <<f, n>>
    <3>1. <<g, m>> \in Keys
      BY DEF Keys
    <3>2. pages'[<<g, m>>] = pages[<<g, m>>]
      BY <2>2, <3>1 DEF PageInv, PageTypeOK
    <3>3. PageOK(g, m)
      BY DEF PageInv
    <3>4. pages[<<g, m>>].reading => Reaches(g, m)
      BY <3>3 DEF PageOK
    <3> QED BY <3>2, <3>3, <3>4, SameAnswer
  <2> QED BY <2>1, <2>2
<1> QED BY <1>2, <1>3, <1>4 DEF PageInv

\* A page of a list that did not change still has an entry.
LEMMA ReachesKept ==
  ASSUME entries' = entries, NEW f, NEW n, Reaches(f, n)
  PROVE  Reaches(f, n)'
BY DEF Reaches, Listed

\* The answer shows the page's ranks of the list as it is.
LEMMA AnswerKeeps ==
  ASSUME PageInv, NEW f \in {"all", "odd"}, NEW n \in 0..MaxEntries, PageAnswered(<<f, n>>)
  PROVE  PageInv'
<1> DEFINE d == [rows |-> Slice(f, n), at |-> Len(entries)]
           q == Answered(d)
<1>1. /\ <<f, n>> \in Keys /\ Len(entries) \in Nat /\ Len(entries) <= MaxEntries /\ n \in Nat
      /\ MaxEntries \in Nat /\ PageTypeOK /\ EachOnce /\ PageOK(f, n)
  BY PagesAssumption DEF PageInv, PageTypeOK, Keys
<1>2. /\ pages' = [pages EXCEPT ![<<f, n>>] = q]
      /\ entries' = entries /\ filter' = filter /\ pageNo' = pageNo
      /\ pages[<<f, n>>].reading
  BY DEF PageAnswered
<1>3. Reaches(f, n)
  BY <1>1, <1>2 DEF PageOK
<1>4. d.rows = Slice(f, n) /\ d.at = Len(entries)
  OBVIOUS
<1>5. q.has = TRUE /\ q.data = d /\ q.reading = FALSE /\ q.data.rows = Slice(f, n)
  BY <1>4 DEF Answered
<1>6. ShowsRanks(n, Listed(f, Len(entries)), q) /\ d.rows \in Seq(Nat)
  BY <1>1, <1>3, <1>5, SliceShows
<1>7. q \in PageQueries
  <2>1. d \in [rows : Seq(Nat), at : 0..MaxEntries]
    BY <1>1, <1>6
  <2> HIDE DEF d
  <2> QED BY <2>1 DEF Answered, PageQueries
<1>8. pages'[<<f, n>>] = q
  BY <1>1, <1>2 DEF PageTypeOK
<1> HIDE DEF d, q
<1>9. PageOK(f, n)'
  <2>1. \A S, r : ShowsRanks(n, S, r) => ShowsRanks(n, S, r)'
    <3>1. ASSUME NEW S, NEW r, ShowsRanks(n, S, r) PROVE ShowsRanks(n, S, r)'
      <4>1. ASSUME NEW e PROVE Rank(S, e)' = Rank(S, e)
        BY <1>2 DEF Rank, Place
      <4> QED BY <3>1, <4>1 DEF ShowsRanks
    <3> QED BY <3>1
  <2>2. pages'[<<f, n>>].data.at = Len(entries)
    BY <1>4, <1>5, <1>8
  <2>3. \A S, r : /\ S = Listed(f, pages'[<<f, n>>].data.at)
                  /\ r = pages'[<<f, n>>]
                 => ShowsRanks(n, S, r)'
    BY <1>6, <1>8, <2>1, <2>2
  <2>4. ShowsRanks(n, Listed(f, pages[<<f, n>>].data.at), pages[<<f, n>>])'
    BY <2>3
  <2> QED BY <1>1, <1>2, <1>5, <1>8, <2>2, <2>4 DEF PageOK
<1>10. Reaches(filter, pageNo)'
  <2>1. Reaches(filter, pageNo)
    BY DEF PageInv
  <2>2. \A g, m : g = filter' /\ m = pageNo' => Reaches(g, m)'
    BY <1>2, <2>1, ReachesKept
  <2> QED BY <2>2
<1> QED BY <1>1, <1>2, <1>7, <1>9, <1>10, QueryKeeps DEF PageTypeOK

\* A failed read leaves what was shown.
LEMMA FailKeeps ==
  ASSUME PageInv, NEW f \in {"all", "odd"}, NEW n \in 0..MaxEntries, PageFails(<<f, n>>)
  PROVE  PageInv'
<1> DEFINE q == ReadFailed(pages[<<f, n>>])
<1>1. <<f, n>> \in Keys /\ PageTypeOK /\ PageOK(f, n)
  BY DEF PageInv, Keys
<1>2. /\ pages' = [pages EXCEPT ![<<f, n>>] = q]
      /\ entries' = entries /\ filter' = filter /\ pageNo' = pageNo
  BY <1>1 DEF PageFails, PageTypeOK
<1>3. pages[<<f, n>>] \in PageQueries
  BY <1>1 DEF PageTypeOK
<1>4. /\ q \in PageQueries /\ q.has = pages[<<f, n>>].has
      /\ q.data = pages[<<f, n>>].data /\ q.reading = FALSE
  BY <1>3 DEF ReadFailed, PageQueries
<1>5. pages'[<<f, n>>] = q
  BY <1>1, <1>2 DEF PageTypeOK
<1> HIDE DEF q
<1>6. PageOK(f, n)'
  BY <1>1, <1>2, <1>4, <1>5, SameAnswer
<1>7. Reaches(filter, pageNo)'
  <2>1. Reaches(filter, pageNo)
    BY DEF PageInv
  <2>2. \A g, m : g = filter' /\ m = pageNo' => Reaches(g, m)'
    BY <1>2, <2>1, ReachesKept
  <2> QED BY <2>2
<1> QED BY <1>1, <1>2, <1>4, <1>6, <1>7, QueryKeeps DEF PageTypeOK

\* A page that has an entry comes on screen.
LEMMA TurnKeeps ==
  ASSUME PageInv, NEW f \in {"all", "odd"}, NEW n \in 0..MaxEntries,
         TurnTo(f, n), Reaches(f, n)
  PROVE  PageInv'
<1>1. <<f, n>> \in Keys /\ PageTypeOK /\ PageOK(f, n)
  BY DEF PageInv, Keys
<1>2. pages[<<f, n>>] \in PageQueries
  BY <1>1 DEF PageTypeOK
<1>3. PICK late \in {FALSE, pages[<<f, n>>].has} :
        pages' = [pages EXCEPT ![<<f, n>>] = Mounted([@ EXCEPT !.stale = late])]
  BY DEF TurnTo
<1> DEFINE q == Mounted([pages[<<f, n>>] EXCEPT !.stale = late])
<1>4. /\ pages' = [pages EXCEPT ![<<f, n>>] = q]
      /\ entries' = entries /\ filter' = f /\ pageNo' = n
  BY <1>1, <1>3 DEF TurnTo, PageTypeOK
<1>5. /\ q \in PageQueries /\ q.has = pages[<<f, n>>].has /\ q.data = pages[<<f, n>>].data
  <2> DEFINE p == [pages[<<f, n>>] EXCEPT !.stale = late]
  <2>1. late \in BOOLEAN
    BY <1>2 DEF PageQueries
  <2>2. p \in PageQueries /\ p.has = pages[<<f, n>>].has /\ p.data = pages[<<f, n>>].data
    BY <1>2, <2>1 DEF PageQueries
  <2> HIDE DEF p
  <2>3. /\ Mounted(p) \in PageQueries /\ Mounted(p).has = p.has /\ Mounted(p).data = p.data
    BY <2>2 DEF Mounted, PageQueries
  <2> QED BY <2>2, <2>3 DEF p
<1>6. pages'[<<f, n>>] = q
  BY <1>1, <1>4 DEF PageTypeOK
<1> HIDE DEF q
<1>7. PageOK(f, n)'
  BY <1>1, <1>4, <1>5, <1>6, SameAnswer
<1>8. Reaches(filter, pageNo)'
  <2>1. \A g, m : g = filter' /\ m = pageNo' => Reaches(g, m)'
    BY <1>4, ReachesKept
  <2> QED BY <2>1
<1> QED BY <1>1, <1>4, <1>5, <1>7, <1>8, QueryKeeps DEF PageTypeOK

\* The extra row of the page on screen is an entry of the next one.
LEMMA NextKeeps == PageInv /\ NextPage => PageInv'
<1> SUFFICES ASSUME PageInv, NextPage PROVE PageInv'
  OBVIOUS
<1> DEFINE f == filter
           n == pageNo
           q == pages[<<f, n>>]
           S == Listed(f, q.data.at)
           c == Cardinality(S)
           m == n * PageSize
           e == Len(entries)
           P == PageSize
<1>1. /\ f \in {"all", "odd"} /\ n \in 0..MaxEntries /\ n \in Nat /\ MaxEntries \in Nat
      /\ <<f, n>> \in Keys /\ PageTypeOK /\ PageOK(f, n) /\ e \in Nat /\ e <= MaxEntries
      /\ P \in Nat /\ P >= 1
  BY PagesAssumption DEF PageInv, PageTypeOK, Keys
<1>2. Len(q.data.rows) > P
  BY DEF NextPage, HasNext, OnScreen
<1>3. q.has
  <2>1. ASSUME ~q.has PROVE FALSE
    <3>1. q.data = Nothing
      BY <1>1, <2>1 DEF PageOK
    <3>2. Len(q.data.rows) = 0
      BY <3>1 DEF Nothing
    <3> QED BY <1>1, <1>2, <3>2
  <2> QED BY <2>1
<1>4. q.data.at \in Nat /\ q.data.at <= e /\ ShowsRanks(n, S, q)
  BY <1>1, <1>3 DEF PageOK
<1>5. P + 1 \in DOMAIN q.data.rows
  <2>1. q.data.rows \in Seq(Nat)
    BY <1>1 DEF PageTypeOK, PageQueries
  <2>2. Len(q.data.rows) \in Nat /\ DOMAIN q.data.rows = 1..Len(q.data.rows)
    BY <2>1, LenProperties
  <2> HIDE DEF q, P
  <2> QED BY <1>1, <1>2, <2>2
<1>6. m + (P + 1) <= c
  BY <1>4, <1>5 DEF ShowsRanks
<1>7. /\ c \in Nat /\ c <= Cardinality(Listed(f, e)) /\ Cardinality(Listed(f, e)) \in 0..e
  <2> HIDE DEF e, q
  <2> QED BY <1>1, <1>4, ListedFacts
<1>8. m \in Nat /\ (n + 1) * PageSize = m + P /\ n <= m
  BY <1>1, Offsets
<1>9. n + 1 \in 0..MaxEntries
  <2> HIDE DEF m, c, e, P, S, f, n
  <2> QED BY <1>1, <1>6, <1>7, <1>8
<1>10. Reaches(f, n + 1)
  <2>1. m + P < Cardinality(Listed(f, e))
    <3> DEFINE k == Cardinality(Listed(f, e))
    <3>1. c \in Nat /\ c <= k /\ k \in 0..e
      BY <1>7
    <3> HIDE DEF k, m, c, e, P, S, f, n
    <3>2. m + P < k
      BY <1>1, <1>6, <1>8, <3>1
    <3> QED BY <3>2 DEF k
  <2> QED BY <1>8, <2>1 DEF Reaches
<1>11. TurnTo(f, n + 1)
  BY DEF NextPage
<1> HIDE DEF f, n
<1> QED BY <1>1, <1>9, <1>10, <1>11, TurnKeeps

\* Below a page that has an entry is one that has.
LEMMA PreviousKeeps == PageInv /\ PreviousPage => PageInv'
<1> SUFFICES ASSUME PageInv, PreviousPage PROVE PageInv'
  OBVIOUS
<1> DEFINE f == filter
           n == pageNo - 1
           c == Cardinality(Listed(f, Len(entries)))
           m == n * PageSize
<1>1. /\ f \in {"all", "odd"} /\ pageNo \in 0..MaxEntries /\ MaxEntries \in Nat
      /\ pageNo # 0 /\ TurnTo(f, n) /\ Reaches(f, pageNo) /\ Len(entries) \in Nat
  BY PagesAssumption DEF PageInv, PageTypeOK, PreviousPage
<1>2. n \in Nat /\ n \in 0..MaxEntries /\ n + 1 = pageNo /\ pageNo > 0
  BY <1>1
<1>3. m \in Nat /\ (n + 1) * PageSize = m + PageSize
  <2> HIDE DEF n
  <2> QED BY <1>2, Offsets
<1>4. c \in Nat
  BY <1>1, ListedFacts
<1>5. c > (n + 1) * PageSize
  BY <1>1, <1>2 DEF Reaches
<1> HIDE DEF f, n, c, m
<1>6. c > m
  BY <1>3, <1>4, <1>5, PagesAssumption
<1>7. Reaches(f, n)
  BY <1>6 DEF Reaches, c, m
<1> QED BY <1>1, <1>2, <1>7, TurnKeeps

\* The first page of another filter comes on screen.
LEMMA FilterKeeps ==
  ASSUME PageInv, NEW f \in {"all", "odd"}, UpdateFilter(f)
  PROVE  PageInv'
<1>1. TurnTo(f, 0) /\ 0 \in 0..MaxEntries
  BY PagesAssumption DEF UpdateFilter
<1>2. Reaches(f, 0)
  BY DEF Reaches
<1> QED BY <1>1, <1>2, TurnKeeps

\* However the list grows, and however pages are read again or kept, the pages
\* read one after the other miss nothing between them, and none that Next led
\* to is empty (PagesMissNothing).
THEOREM PagesTheorem == PageSpec => []PagesMissNothing
<1>1. PageInit => PageInv
  BY PagesStart
<1>2. PageInv /\ [PageNext]_pageVars => PageInv'
  <2> SUFFICES ASSUME PageInv, [PageNext]_pageVars PROVE PageInv'
    OBVIOUS
  <2>1. CASE EntryAdded
    BY <2>1, EntryAddedKeeps
  <2>2. ASSUME NEW k \in Keys, PageAnswered(k) \/ PageFails(k) PROVE PageInv'
    <3>1. PICK f \in {"all", "odd"}, n \in 0..MaxEntries : k = <<f, n>>
      BY DEF Keys
    <3>2. CASE PageAnswered(k)
      BY <3>1, <3>2, AnswerKeeps
    <3>3. CASE PageFails(k)
      BY <3>1, <3>3, FailKeeps
    <3> QED BY <2>2, <3>2, <3>3
  <2>3. CASE NextPage
    BY <2>3, NextKeeps
  <2>4. CASE PreviousPage
    BY <2>4, PreviousKeeps
  <2>5. ASSUME NEW f \in {"all", "odd"}, UpdateFilter(f) PROVE PageInv'
    BY <2>5, FilterKeeps
  <2>6. CASE UNCHANGED pageVars
    <3>1. /\ entries' = entries /\ pages' = pages /\ filter' = filter /\ pageNo' = pageNo
      BY <2>6 DEF pageVars
    <3>2. PageTypeOK' /\ EachOnce'
      BY <3>1 DEF PageInv, PageTypeOK, EachOnce
    <3>3. ASSUME NEW f \in {"all", "odd"}, NEW n \in 0..MaxEntries PROVE PageOK(f, n)'
      <4>1. PageOK(f, n)
        BY DEF PageInv
      <4>2. pages[<<f, n>>].reading => Reaches(f, n)
        BY <4>1 DEF PageOK
      <4> QED BY <3>1, <4>1, <4>2, SameAnswer
    <3>4. \A f, n : f = filter' /\ n = pageNo' => Reaches(f, n)'
      BY <3>1, ReachesKept DEF PageInv
    <3>5. Reaches(filter, pageNo)'
      BY <3>4
    <3> QED BY <3>2, <3>3, <3>5 DEF PageInv
  <2> QED BY <2>1, <2>2, <2>3, <2>4, <2>5, <2>6 DEF PageNext
<1>3. PageInv => PagesMissNothing
  BY NothingMissed
<1> QED BY <1>1, <1>2, <1>3, PTL DEF PageSpec
=============================================================================
