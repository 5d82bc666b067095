------------------------------ MODULE NoticeDesk ------------------------------
(***************************************************************************)
(* One capital call, or one distribution, at the manager's desk: the page  *)
(* that lists it (the organization's or a fund's), the create dialog with  *)
(* its two requests, and the detail sheet with its allocations, payment    *)
(* draft, Send and Cancel.                                                *)
(*                                                                         *)
(* Every amount due is one unit and a payment is nothing or all of it; no  *)
(* due date passes.                                                        *)
(***************************************************************************)
EXTENDS WebQuery, Naturals, FiniteSets

CONSTANTS Commitments,  \* approved commitments of the fund
          Desks         \* which <<kind, page, calm>> are looked at

ASSUME DesksAssumption ==
  Desks \subseteq {"call", "distribution"} \X {"org", "fund"} \X BOOLEAN

VARIABLES
  kind,     \* "call" or "distribution"
  page,     \* "org" or "fund": the page that lists the notice
  noticeCalm,     \* nobody else writes and no request fails
  notice,   \* the server: the notice, or NoNotice
  rows,     \* the page's list: the status it shows for the notice
  sheet,    \* the detail sheet is open
  detail,   \* the sheet's query
  draft,    \* paymentDrafts: a row and what was typed into it, one at a time
  creating, \* the create dialog and its request
  request   \* the sheet's mutation under way, or Idle

noticeVars == <<kind, page, noticeCalm, notice, rows, sheet, detail, draft,
                creating, request>>
fixed == <<kind, page, noticeCalm>>

Statuses == {"draft", "scheduled", "sent", "partially_paid", "paid", "cancelled"}
Typed == {"none", "all"}
Blank == [of |-> "no row"]
Idle == [op |-> "idle"]
NoNotice == [status |-> "no notice", items |-> {}, paid |-> {}]

-----------------------------------------------------------------------------
(* The queries                                                             *)

\* The keys a page and its sheet read.
CallKeys == [org |-> "/capital-calls", fund |-> "/funds/{fund_id}/capital-calls",
             detail |-> "/capital-calls/{call_id}"]
DistributionKeys ==
  [org |-> "/distributions", fund |-> "/funds/{fund_id}/distributions",
   detail |-> "/distributions/{distribution_id}"]
Key(what) == IF kind = "call" THEN CallKeys[what] ELSE DistributionKeys[what]

\* A change of CallScopes: the lists alone.
CallScopesWithoutDetail ==
  {"/capital-calls", "/funds/{fund_id}/capital-calls", "/dashboard"}

\* invalidateCallScopes
CallScopes ==
  {"/capital-calls", "/capital-calls/{call_id}", "/funds/{fund_id}/capital-calls",
   "/funds/{fund_id}", "/funds/{fund_id}/overview", "/dashboard"}

\* invalidateDistributionScopes
DistributionScopes ==
  {"/distributions", "/distributions/{distribution_id}",
   "/funds/{fund_id}/distributions", "/funds/{fund_id}",
   "/funds/{fund_id}/overview", "/dashboard"}

\* What the create dialogs read again.
NewCallScopes ==
  {"/capital-calls", "/funds/{fund_id}/capital-calls", "/funds/{fund_id}",
   "/funds/{fund_id}/overview", "/dashboard"}
NewDistributionScopes ==
  {"/distributions", "/funds/{fund_id}/distributions", "/funds/{fund_id}",
   "/funds/{fund_id}/overview", "/dashboard"}

Tell(scopes) ==
  /\ rows' = IF Key(page) \in scopes THEN Told(rows) ELSE rows
  /\ detail' = IF Key("detail") \in scopes THEN Invalidated(detail, sheet) ELSE detail

-----------------------------------------------------------------------------
(* The server.  A refused request changes nothing; a notice can be         *)
(* cancelled again.                                                        *)

\* recompute_status of the capital call and the distribution repository.
Recomputed(n) ==
  IF n.status \in {"draft", "scheduled", "cancelled"} THEN n
  ELSE [n EXCEPT !.status = IF n.items # {} /\ n.paid = n.items THEN "paid"
                            ELSE IF n.paid # {} THEN "partially_paid" ELSE "sent"]

NoticeAccepted(m) ==
  CASE m.op = "send"   -> notice.status \in {"draft", "scheduled"}
    [] m.op = "cancel" -> notice.status \notin {"paid", "no notice"}
    [] m.op = "add"    -> /\ notice.status \notin {"paid", "cancelled", "no notice"}
                          /\ m.items \cap notice.items = {}
    [] m.op = "pay"    -> notice.status # "no notice" /\ m.of \in notice.items

NoticeAfter(m) ==
  CASE m.op = "send"   -> [notice EXCEPT !.status = "sent"]
    [] m.op = "cancel" -> [notice EXCEPT !.status = "cancelled"]
    [] m.op = "add"    -> Recomputed([notice EXCEPT !.items = @ \cup m.items])
    [] m.op = "pay"    -> Recomputed([notice EXCEPT !.paid =
                            IF m.text = "all" THEN @ \cup {m.of} ELSE @ \ {m.of}])

NoticeInit ==
  /\ \E d \in Desks : kind = d[1] /\ page = d[2] /\ noticeCalm = d[3]
  /\ notice = NoNotice
  /\ rows = FirstRead("no notice")
  /\ sheet = FALSE
  /\ detail = Unread(NoNotice)
  /\ draft = Blank
  /\ creating = "closed"
  /\ request = Idle

-----------------------------------------------------------------------------
(* The create dialog                                                       *)

OpenCreate ==
  /\ creating = "closed" /\ ~sheet
  /\ notice = NoNotice
  /\ creating' = "open"
  /\ UNCHANGED <<fixed, notice, rows, sheet, detail, draft, request>>

\* "New call" and "New distribution", on the organization's pages and the fund's.
OpenCallCreate == kind = "call" /\ page = "org" /\ OpenCreate
OpenFundCallCreate == kind = "call" /\ page = "fund" /\ OpenCreate
OpenDistributionCreate == kind = "distribution" /\ page = "org" /\ OpenCreate
OpenFundDistributionCreate == kind = "distribution" /\ page = "fund" /\ OpenCreate

\* handleOpenChange: not while a request is under way.
CloseCreate ==
  /\ creating = "open"
  /\ creating' = "closed"
  /\ UNCHANGED <<fixed, notice, rows, sheet, detail, draft, request>>

\* handleSubmit does nothing while it is submitting.
SubmitCreate ==
  /\ creating = "open"
  /\ \E auto \in BOOLEAN : creating' = IF auto THEN "create, allocate" ELSE "create"
  /\ UNCHANGED <<fixed, notice, rows, sheet, detail, draft, request>>

SubmitCall == kind = "call" /\ SubmitCreate
SubmitDistribution == kind = "distribution" /\ SubmitCreate

OpenSheet ==
  /\ sheet' = TRUE
  /\ draft' = Blank

\* The end of handleSubmit: the lists are read again and the new notice's sheet
\* opens.
Created ==
  /\ creating' = "closed"
  /\ OpenSheet
  /\ rows' = IF Key(page) \in (IF kind = "call" THEN NewCallScopes
                                              ELSE NewDistributionScopes)
             THEN Told(rows) ELSE rows
  /\ detail' = FirstRead(NoNotice)

Draft == [status |-> "draft", items |-> {}, paid |-> {}]

CreateSucceeds ==
  /\ creating \in {"create", "create, allocate"}
  /\ notice = NoNotice
  /\ notice' = Draft
  /\ IF creating = "create" THEN Created
     ELSE /\ creating' = "allocate"
          /\ UNCHANGED <<rows, sheet, detail, draft>>
  /\ UNCHANGED <<fixed, request>>

\* The dialog was submitted again after it had created its notice: another one
\* exists, whose sheet is not followed.
CreateTwice ==
  /\ creating \in {"create", "create, allocate"}
  /\ notice # NoNotice
  /\ creating' = "closed"
  /\ UNCHANGED <<fixed, notice, rows, sheet, detail, draft, request>>

\* The dialog stays as it was, also when only the answer was lost.
CreateFails ==
  /\ ~noticeCalm
  /\ creating \in {"create", "create, allocate"}
  /\ creating' = "open"
  /\ \/ UNCHANGED notice
     \/ notice = NoNotice /\ notice' = Draft
  /\ UNCHANGED <<fixed, rows, sheet, detail, draft, request>>

\* The pro-rata request ends: a failure only raises a warning.
AllocateEnds ==
  /\ creating = "allocate"
  /\ LET m == [op |-> "add", items |-> Commitments]
     IN notice' \in {notice, IF NoticeAccepted(m) THEN NoticeAfter(m) ELSE notice}
  /\ Created
  /\ UNCHANGED <<fixed, request>>

-----------------------------------------------------------------------------
(* The sheet                                                               *)

SelectNotice ==
  /\ rows.data # NoNotice.status
  /\ ~sheet /\ creating = "closed"
  /\ OpenSheet
  /\ detail' = Mounted(detail)
  /\ UNCHANGED <<fixed, notice, rows, creating, request>>

\* Where the rows are: the organization's pages and the fund's.
SelectCall == kind = "call" /\ page = "org" /\ SelectNotice
SelectFundCall == kind = "call" /\ page = "fund" /\ SelectNotice
SelectDistribution == kind = "distribution" /\ page = "org" /\ SelectNotice
SelectFundDistribution == kind = "distribution" /\ page = "fund" /\ SelectNotice

CloseSheet ==
  /\ sheet
  /\ sheet' = FALSE
  /\ draft' = Blank
  /\ UNCHANGED <<fixed, notice, rows, detail, creating, request>>

ShownNotice == detail.data
CallSheet == kind = "call" /\ sheet /\ detail.has
DistributionSheet == kind = "distribution" /\ sheet /\ detail.has
SheetShown == CallSheet \/ DistributionSheet
Open == ShownNotice.status \notin {"paid", "cancelled"}

\* The mutations have one hook each, all of one sheet: here one is under way at
\* a time.
Request(m) ==
  /\ request = Idle
  /\ request' = m
  /\ UNCHANGED <<fixed, notice, rows, sheet, detail, draft, creating>>

\* A change of SendNotice: an empty notice can be sent.
SendEmptyNotice ==
  /\ SheetShown
  /\ ShownNotice.status \in {"draft", "scheduled"}
  /\ Request([op |-> "send"])

SendNotice ==
  /\ SheetShown
  /\ ShownNotice.status \in {"draft", "scheduled"}
  /\ ShownNotice.items # {}
  /\ Request([op |-> "send"])

CancelNotice ==
  /\ SheetShown /\ Open
  /\ Request([op |-> "cancel"])

AllocateProRata ==
  /\ SheetShown /\ Open
  /\ ShownNotice.items = {}
  /\ Request([op |-> "add", items |-> Commitments])

AddAllocation(c) ==
  /\ SheetShown /\ Open
  /\ c \notin ShownNotice.items
  /\ Request([op |-> "add", items |-> {c}])

SendCall == CallSheet /\ SendNotice
SendDistribution == DistributionSheet /\ SendNotice
CancelCall == CallSheet /\ CancelNotice
CancelDistribution == DistributionSheet /\ CancelNotice
AllocateCallProRata == CallSheet /\ AllocateProRata
AllocateDistributionProRata == DistributionSheet /\ AllocateProRata
AddCallAllocation(c) == CallSheet /\ AddAllocation(c)
AddDistributionAllocation(c) == DistributionSheet /\ AddAllocation(c)

\* The row's input takes text at any time, also while a payment is saved: one
\* that changes what the row shows as paid.
TypePayment(c, text) ==
  /\ SheetShown
  /\ c \in ShownNotice.items
  /\ text = IF c \in ShownNotice.paid THEN "none" ELSE "all"
  /\ draft' = [of |-> c, text |-> text]
  /\ UNCHANGED <<fixed, notice, rows, sheet, detail, creating, request>>

RecordPayment(c) ==
  /\ SheetShown
  /\ c \in ShownNotice.items
  /\ draft # Blank /\ draft.of = c
  /\ Request([op |-> "pay", of |-> c, text |-> draft.text])

TypeCallPayment(c) == CallSheet /\ \E t \in Typed : TypePayment(c, t)
TypeDistributionPayment(c) == DistributionSheet /\ \E t \in Typed : TypePayment(c, t)
RecordCallPayment(c) == CallSheet /\ RecordPayment(c)
RecordDistributionPayment(c) == DistributionSheet /\ RecordPayment(c)

-----------------------------------------------------------------------------
(* Answers                                                                 *)

RequestSucceeds(scopes) ==
  /\ request # Idle
  /\ NoticeAccepted(request)
  /\ notice' = NoticeAfter(request)
  /\ request' = Idle
  /\ Tell(scopes)
  /\ draft' = IF request.op = "pay" /\ draft # Blank /\ draft.of = request.of
              THEN Blank ELSE draft
  /\ UNCHANGED <<fixed, sheet, creating>>

CallRequestSucceeds == kind = "call" /\ RequestSucceeds(CallScopes)
DistributionRequestSucceeds ==
  kind = "distribution" /\ RequestSucceeds(DistributionScopes)

RequestFails ==
  /\ request # Idle
  /\ noticeCalm => ~NoticeAccepted(request)
  /\ \/ UNCHANGED notice
     \/ ~noticeCalm /\ NoticeAccepted(request) /\ notice' = NoticeAfter(request)
  /\ request' = Idle
  /\ UNCHANGED <<fixed, rows, sheet, detail, draft, creating>>

RowsAnswered ==
  /\ rows.reading
  /\ rows' = Answered(notice.status)
  /\ UNCHANGED <<fixed, notice, sheet, detail, draft, creating, request>>

DetailAnswered ==
  /\ detail.reading
  /\ detail' = Answered(notice)
  /\ UNCHANGED <<fixed, notice, rows, sheet, draft, creating, request>>

\* Another manager sends or cancels the notice.
NoticeWrittenElsewhere(m) ==
  /\ ~noticeCalm
  /\ NoticeAccepted(m)
  /\ m.op = "send" => notice.items # {}
  /\ notice' = NoticeAfter(m)
  /\ UNCHANGED <<fixed, rows, sheet, detail, draft, creating, request>>

Elsewhere == {[op |-> "send"], [op |-> "cancel"]}

CallNext ==
  \/ OpenCallCreate \/ OpenFundCallCreate \/ SubmitCall
  \/ SelectCall \/ SelectFundCall
  \/ SendCall \/ CancelCall \/ AllocateCallProRata
  \/ \E c \in Commitments : \/ AddCallAllocation(c)
                            \/ TypeCallPayment(c) \/ RecordCallPayment(c)
  \/ CallRequestSucceeds

DistributionNext ==
  \/ OpenDistributionCreate \/ OpenFundDistributionCreate \/ SubmitDistribution
  \/ SelectDistribution \/ SelectFundDistribution
  \/ SendDistribution \/ CancelDistribution \/ AllocateDistributionProRata
  \/ \E c \in Commitments : \/ AddDistributionAllocation(c)
                            \/ TypeDistributionPayment(c)
                            \/ RecordDistributionPayment(c)
  \/ DistributionRequestSucceeds

NoticeNext ==
  \/ CallNext \/ DistributionNext
  \/ CloseCreate \/ CreateSucceeds \/ CreateTwice \/ CreateFails \/ AllocateEnds
  \/ CloseSheet
  \/ RequestFails \/ RowsAnswered \/ DetailAnswered
  \/ \E m \in Elsewhere : NoticeWrittenElsewhere(m)

NoticeSpec == NoticeInit /\ [][NoticeNext]_noticeVars

-----------------------------------------------------------------------------
\* Left alone, the list and the open sheet show what the server holds once
\* every request is answered, whatever was sent, paid or allocated from the
\* sheet.
NoticeCatchesUp ==
  noticeCalm /\ request = Idle /\ creating = "closed" /\ ~rows.reading /\ ~detail.reading
    => rows.data = notice.status /\ (sheet => detail.data = notice)

\* A notice that went out has a recipient, though it may have been created
\* without its allocations.
SentHasRecipients ==
  notice.status \in {"sent", "partially_paid", "paid"} => notice.items # {}
=============================================================================
