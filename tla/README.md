# Formal models of edenscale

TLA+ modules for the parts of edenscale whose correctness depends on order: in
`apps/backend` capital calls, the commitments' running totals, bank-statement
payments, the delivery of notifications, and invitations; in the web apps
(`apps/manager`, `apps/investor`, `apps/superadmin`) sessions and organization
switching, and the pages that write. TLC checks them on small instances, TLAPS
proves the theorems below for every value of the constants.

## Inventory

### Backend

Paths are relative to `apps/backend/app`.

The system is a FastAPI application over PostgreSQL (SQLAlchemy sessions, one
per request) and an arq worker over Redis. Routers check roles and organization,
repositories hold the rules and commit, services publish notifications. The web
apps talk to the API and keep no state of record; the mobile app is a shell
around them.

Three facts of the runtime decide what can go wrong:

- `def` handlers run in a thread pool and `async def` handlers on the event loop,
  each on a session of its own, and deployments overlap two processes. So any
  two requests, and the worker, interleave between SQL statements.
- The database runs at READ COMMITTED; no query locks a row (`SELECT ... FOR
  UPDATE`), no table has a version column, the sessions do not autoflush
  (`core/database.py:22`). What a session has loaded it does not see change.
- The queue delivers at least once, and nothing ties a commit to an enqueue.

| Component | State | Operations | What is hard | What makes it correct |
|---|---|---|---|---|
| Capital calls (`repositories/capital_call_repository.py`, `routers/capital_calls.py`) | status, amount, due date; items with amount due and paid | create, edit, add items (manual, pro-rata), edit item, send, cancel, schedule | automatic status writes after every item write, corrections, overlap | the status tells the truth about the items, moves along the table only, and never shows an unsent call |
| Commitments (`commitment_repository.py`) | status, committed, called and distributed amount | create, edit, status, recompute totals | totals are stored, not computed | called_amount is the sum of the payments |
| Overdue cron (`tasks.py`, `worker.py`) | none | once a day, flips late calls | runs against requests in flight | late calls get marked, others do not |
| Bank import (`bank_import_repository.py`) | imports, their transactions | upload, apply with assignments and ignores | repeated uploads and applies, several items in one transaction | a payment lands once; counts agree |
| Notification pipeline (`worker.py`, `notification_log_repository.py`, `services/channels`) | queue, log rows per delivery key, in-app rows | enqueue, attempt, record | crash between send and record, retries, shared keys | a mail goes out once; the log is true; jobs end |
| Invitations (`routers/invitations.py`) | status, token, membership, contact links | create, accept, revoke, resend | several commits per request, races, resend against dedupe | accepted means member and linked; the mailed link works |
| Distributions (`distribution_repository.py`) | as capital calls, without overdue | the same | the same; shares recompute_totals with calls | the same |
| Pro-rata allocation (`services/allocation.py`) | none | split an amount in cents | rounding | shares sum to the amount |
| Communications, letter drafting | draft or sent, recipients, reads | draft, send, read; retried draft task | double send, check-then-create | recipients once, sent is final |
| Investor contacts, LP visibility | primary flag, linked user | create, edit, link at accept | siblings and checks read before the write, without a lock | a second primary, or none, only where requests overlapped; an LP sees only his own |
| Email ingest (`services/email_ingest.py`) | documents, processed message ids | ingest with retry | partial failure, repeated delivery | one set of documents per message |
| Tasks, documents, funds, groups, valuations, organizations, users, dashboards, audit, auth | single rows, or read-only | CRUD | little | `PROJECT.json` lists them with reasons |

Interactions: an item write of a capital call (or a bank import, which calls
`set_item_payment`) recomputes the commitment's totals and the call's status in
the same transaction. `send` commits and then queues notifications. The cron
writes call statuses. Accepting an invitation writes memberships and contacts.

### Web apps

Three React applications over packages they share (`packages/api`, the query
client and its hooks; `packages/auth`; `packages/shared`). Facts of this runtime:

- A query is cached under the path of its request. The organization is not in
  the key: it is a header that `packages/api/src/client.ts` reads from
  localStorage when the request is sent. An answer counts as fresh for five
  minutes.
- Nothing tells a page that a record has changed. Each mutation lists by hand
  the keys it invalidates; a query that is on screen is then read again, any
  other is marked.
- Effects run after the render that caused them; between the two the user and
  the answers can act.
- A component has one mutation hook per operation. Its `onSuccess` runs for
  whichever request was sent, also when the dialog shows another row by then or
  was closed and opened again, and uses the state of whichever render sent it.
- A lost answer and a refused request look the same to the page.

| Component | State | Operations | What is hard | What makes it correct |
|---|---|---|---|---|
| Web sessions and organization switching (`packages/auth`, `packages/shared/src/activeOrg.ts`, the providers and layouts of both apps) | user, selected organization (in three places), route, query cache | sign in and out, switch, open by link, accept an invitation, be removed | effects that set and clear the selection, answers that arrive under a shared key, redirects both ways | rows are the URL's organization's; redirects end |
| Investor register (`InvestorsPage.tsx`, `components/investors`) | list, drawer, details form, dialogs | select, edit, create, delete, sort | a form seeded once, a selection checked against a list that is read again | details stay their investor's; drawers of deleted investors close |
| Contacts of an investor (the same drawer) | list, star, dialogs | add, edit, star, link, invite, remove | several requests at once, other managers, the invitee accepting | the drawer ends with what the server holds; links go only when removed |
| Notices (`CapitalCallDetail`, `DistributionDetail`, their create dialogs and lists) | list, sheet, payment drafts, dialog | create and allocate, send, cancel, add, pay | two requests in one submit; hand-listed invalidations on four pages | nobody sends a notice without recipients; pages catch up |
| Bank import wizard (`ImportBankPaymentsPage.tsx`, `OnboardPayerDialog.tsx`) | rows with their choices, the dialog's three steps | upload, choose, onboard, apply, start over | late answers of a dialog that serves one payer after the other | a payment is settled with its own payer's item |
| Forms, drawers and tables (commitments, documents, letters, tasks, notifications, funds, groups, valuations, organizations, team, invitations, profiles, users) | row, form, requests, cache | create, edit, delete, the buttons | closing and reopening, reseeding, invalidation lists | what one wrote is shown; what one typed is kept |
| Paged lists (audit logs, the superadmin's lists) | pages by offset, filters | next, previous, filter | the list grows between two pages | nothing between two pages is missed |
| Dashboards, overviews, reports, layout | none of their own | read | little | they show what queries answer |

`PROJECT.json` lists the hazards of all parts, each at its line, with the
properties that cover it.

## Modules

| Module | What it is |
|---|---|
| `CapitalCalls` | calls, items, totals and the cron; every action is one committed request |
| `CapitalCalls_proofs` | its theorems, and those of `BankImport` |
| `SumTheorems` | lemmas about `SumFunction` (community module Functions), for the proofs |
| `CallTransactions` | the same requests as SQL statements that overlap; refers to `CapitalCalls` by `INSTANCE` |
| `CallTransactions_proofs` | its theorems |
| `BankImport` | extends `CapitalCalls` by uploads and applies |
| `NotificationDelivery` | the queue, the worker's attempts and the delivery log |
| `NotificationDelivery_proofs` | its theorems |
| `Invitations` | create, accept, revoke and resend, commit by commit |
| `Invitations_proofs` | its theorems |
| `InvitationMail` | composes `Invitations` with `NotificationDelivery` |
| `WebSession` | one tab of the manager or the investor app: session, route, selection, cache |
| `WebSession_proofs` | its theorem |
| `WebQuery` | one query of a page, as the modules below use it |
| `ContactServer` | the contacts of one investor in the server, statement by statement |
| `ContactDesk` | extends it by the drawer that writes them, and others who do |
| `InvestorRegister` | the list, the drawers, the create dialog and the deletion |
| `InvestorDesks_proofs` | theorems of `ContactServer`, `ContactDesk` and `InvestorRegister` |
| `NoticeDesk` | one call or distribution on any of the four pages that list it |
| `ImportDesk` | the bank import wizard with its onboarding dialog |
| `PageDesks_proofs` | theorems of `NoticeDesk`, `ImportDesk`, `FormDesk`, `PageDesk` and `InvestorSort` |
| `Forms` | tables: one record per operation of the other pages, one per page |
| `FormDesk` | the machine that runs any page of `Forms` |
| `PageDesk` | the five lists read page by page |
| `InvestorSort` | the register's comparator |
| `MC...` | instances for TLC; `MCContactDesk` has one contact's drawer, `MCInvestorDesks` and `MCPageDesks` put several desks into one run |

A request that is refused (400, 404, 409, 500 with a rollback) changes nothing
and is not a step, in all modules. Roles and organization scoping gate requests
and are left out: the models allow what any authorised caller may do.

### CapitalCalls

`status`, `amount`, `dueDate`, `items`, `due`, `paid`, `called` are the columns
of `capital_calls`, `capital_call_items` and `commitments.called_amount`;
`today` is `date.today()`. `manual` and `announced` are history: whose total was
typed in last, and which calls `send` has handled. `WriteItems` is the tail that
`add_items`, `update_item` and `set_item_payment` share: flush, recompute the
totals, recompute the status, commit. `Recomputed` is `recompute_status`,
`CanMove` the transition table. `Shares` stands for `allocate_pro_rata`, any
split into whole cents, negative ones too (the remainder is given to the largest
commitment and may exceed its share). Amounts are cents, dates are day numbers.
`recompute_totals` also writes `distributed_amount`, the same sum over
distributions; that half comes with Distributions.

### CallTransactions

A request is a thread with a program counter (`pc`), what its session has loaded
(`saw`), what it has flushed and not committed (`wrote`) and the row locks it
holds (`held`). Writes take locks and keep them to the end; reads do not wait.
The unique constraint on (call, commitment) makes the second insert wait and
then fail. A ring of waiting requests loses one of its members
(`AbortVictim`), as PostgreSQL's detector does. Which requests exist is chosen
as they come. Calls exist from the start and dates stand still: neither is
written by the requests whose overlap is the subject. Rows of the bank import
are not in it.

`OverlapFreeIsAtomic` ties it to `CapitalCalls`: a request whose whole run no
other commit falls into (`clean`) does to the database what one of that module's
actions does.

### BankImport

One row per statement line of an upload (`Lines`, `ImportOf`), its bank
reference (`ReferenceOf`; `Synthetic` ones are made up by the parser and are not
compared), the state of the transaction and of the import. `Apply` is the whole
transaction: phase 1 sorts the assigned transactions into applied already,
duplicates, payable; phase 2 writes. A request carries a list of assignments
(`MaxAssignments` at most), and nothing asks that a transaction be in it once:
phase 1 judges each by the status before the first write, so one that is named
twice is paid twice. `credits` and `repeated` are history: how often a line's
amount was added to an item, and which lines one request paid more than once.

### NotificationDelivery

One record of progress per job: its delivery key (`key`, chosen at the start, so
that jobs share one or do not), `stage`, attempts begun (`tries`), what the
channel said (`outcome`) and the status of the log row found (`loaded`). `log`
has the committed row of each delivery key. Every step ends in a commit, a call
of the provider, or an answer of the queue, and `Die` ends an attempt anywhere.
The queue may retry an attempt that did not end normally, or drop it: arq retries
cancelled and lost jobs and drops those that raised. `mailed` and `lost` are
history: mails the provider took, and those of them that no attempt recorded as
sent. `rows` counts the in-app rows, one per attempt.

### Invitations and InvitationMail

The rows of one person's invitations to one organization (`invStatus`, `invRole`,
`version` for the token, `late` for `expires_at`), the membership (`member`) and
the contact's link (`linked`). `req` holds the requests in flight: each stops
between any two of its commits, or fails there for good; a create is one too, which commits
the row, reads it back and asks for the mail after provisioning the account. The checks are made when
a request starts, on what it loaded; `mark_*` write the status whatever it has
become, and that is how the model has it. A token is the number of rotations.
`asked` are the mails put into the queue and `unasked` those that failed to get
there.

`InvitationMail` makes every mail asked for a job of `NotificationDelivery`: job
`<<i, n>>` is the mail after rotation `n`, and its delivery key is the invitation
alone, as `publish_customer_event` composes it.

### WebSession

`route` is the URL, `stored` the organization id in localStorage, `active` the
provider's copy of it, `mem` and `list` the two cached answers that matter: the
user's organizations and the rows of an organization's page. A request carries
the header it was sent with (`flight`), and the answer is about that
organization, whatever the URL says by then. Every action ends with `Render`,
the mounts that its changes cause and the requests they send; the effects of
layouts and pages (`SyncActiveOrganization`, `ClearOrganization`, `LoginForwards`)
and the guard's redirect (`Bounce`) are actions of their own. `Load` is a full
document load, which keeps localStorage alone. `check` counts the calls of
`checkSession` that wait for each of their two answers: a sign-in may start one while
an older one is under way (`MaxChecks`), and the later answer stays. `patient` users wait for answers
before they leave a page and do not use the invitation dialog.

### ContactServer, ContactDesk, InvestorRegister, InvestorSort

`contact` has the committed rows of one investor's contacts, `handlers` the requests
being handled. A handler loads its contact and makes its checks (`Load`: 404, the
409 for a primary contact, the link by email of `_resolve_user_id_by_email`), selects
the primary siblings it is to clear (`SelectSiblings`), and flushes and commits
(`Commit`): columns that differ from what it loaded, by primary key, and nothing at
all when a row of those is gone. There is no lock and no unique index on
the flag, so any other commit may fall in between; `overtaken` is history and
says that one did. `LinkUnclaimed` is the accepted invitation. A contact's
identity is not given twice. Two changes that wait for each other's rows are
left out: the database ends one of them, which is `Dies`.

`ContactDesk` puts the drawer in front: `requests` are its mutations, which the server
takes up, answers with success (`MutationSucceeds`), refuses (`MutationRejected`) or
breaks off (`MutationBreaks`), or which are lost on either way (`MutationLost`).
Another manager's requests (`Elsewhere`) are handled beside them until `Settle`.

In the register the server is one variable (`investors`); a request is handled as it
is answered, or handled and its answer lost. `listed`, `investorQuery`,
`contacts` are queries, `selected` and `detailsForm` the drawer, `dialog`,
`addOpen`, `createDialog` the dialogs, `requests` and `changes` what is under way (the
register's mutation hooks are one per drawer, dialog and row, so that changes of
two drawers overlap, `MaxChanges`).
`MountDrawer` stands for the drawer's `key`: every selection mounts a new form,
which `Hydrate` fills once. Details are pairs of an investor and a text, so that
a text saved into the wrong investor would show.
`InvestorSort` is `compareInvestors` over ranks of texts, 0 for a missing one.

### NoticeDesk, ImportDesk

`notice` is the server's row, its items and which of them are paid (one unit
each); `rows`, `detail` are the page's and the sheet's query. The invalidation
lists are sets of paths as they stand in the source (`CallScopes`, ...), and
`Key` says which path the page at hand reads. `creating` walks through the create dialog's one
or two requests; if the first is lost after it was handled, a second submit
creates a second notice (`CreateTwice`).

In `ImportDesk` a payment is a pair of upload and payer, and whatever the dialog
creates is named by the payment it was created for: `onboarding` is the state of
the dialog, which is reset as it opens, `sent` its requests. `choice`, `extra` and
`applying` carry those names to `recorded`, the server's record; payments applied
before are skipped there and the answer is a success.

### Forms and FormDesk

An operation is a record: where its form's fields come from, whether it can be
closed during its request, which buttons it disables, its requests, which forms
its success closes, which keys it invalidates, where it leads. A page is a
record: its roles, the keys of its list and its drawer, the pages one goes to
from it, and the operations it offers. The records are the translation; their
`map` lines are the handlers and the JSX they come from. `FormDesk` follows one
row (and "another row", whose form can be open while an answer about the first
comes in), its queries, the open form and the requests. `misses` are keys that
show what an operation writes and that its handler does not invalidate: creating
a fund, saving its settings and sending a letter leave `/dashboard` behind;
editing a commitment or its status leaves `/investors`, the investor's
commitments and the fund sizes, creating one the fund sizes; renaming an
organization leaves the memberships, a profile the list of users, and creating
an organization or assigning its admin the superadmin's users. A form that
`unmounts` when it is closed takes its pending state along (`WithoutForm`), and
the one opened next waits for nothing. What it relies on in the tables is
written down as assumptions (`OffersAssumption`, `DialogsAssumption`,
`UnmountsAssumption`, `TellsAssumption`, `SeveralAssumption`): finite facts
about the tables as they stand, which TLC evaluates before every run.
`TellsAssumption` is the one a new operation with a forgotten key would break:
every key of its pages that shows what it writes is told or named in its
`misses`.

### PageDesk

A page is the query of its own offset, of one row more than it shows (`HasNext`).
New entries come first, last or anywhere, as the list is ordered; none are ever
taken out. The query with its filter, order, offset and limit (`Slice`) is written
by ranks: row i of page n is the listed entry that has n * PageSize + i listed
entries up to its own place (`Rank`).

## Runs

| Run | Shows | Bounds |
|---|---|---|
| `calls_items` | all invariants of `CapitalCalls`, the table, and that late calls are marked | 1 call, 2 commitments, 3 days |
| `bank_import` | overlapping statements applied in any order and parts, requests that name a transaction twice: a payment is credited once otherwise, and counted once; status and totals after applies that pay two calls of one commitment, mixed with the other requests | 2 uploads, 5 lines, 2 calls (symmetric), 1 commitment, 2 assignments a request |
| `tx_requests` | any three of allocations, payments, send, cancel and the cron: locks, deadlocks, the unique constraint, termination, agreement with `CapitalCalls` | 3 requests, 1 call, 2 commitments |
| `delivery` | one mail per sole job unless its record was lost, a true log with and without shared keys, jobs end | 2 jobs, 2 keys, 2 attempts |
| `invitations` | accepted means member; crossing resends, or one that overtakes the creation, ask for a mail with the valid token | 1 invitation, 3 requests (symmetric), 2 rotations |
| `web_session` | pages of users who wait ask for the rows of the URL's organization and hold no others as fresh; redirects end inside; a workspace that is listed opens | both apps, 2 organizations: one joined, one that invites; 2 session checks at a time |
| `investor_desks` | a second primary contact, and the removal of the primary one, take requests that overlap; details stay their own; drawers close and lists catch up | server: 2 contacts, 2 clients, 2 requests handled at a time; drawer: 1 request at a time, on 2 contacts alone or on 1 beside others; register: 2 investors, 2 texts, 2 changes at a time |
| `page_desks` | one page at work: own payer's items, own writes shown under every key that is told, typed text kept in dialogs that wait and are filled once, nothing missed between pages, a sound order, recipients, pages that catch up | 2 payers (one suggested), 1 upload; 2 commitments; 21 pages; page size 1, 3 entries; 6 rows |

Bounds. A status mixes two items of a call and a total mixes two calls of a
commitment, and every rule is about one call or one commitment: two of either,
never both at once, show every mixture of own and foreign rows. Amounts 0, 1, 2
against dues 0 and 2 give nothing, part, all. In `bank_import` every line carries
1 against a due of 2, so that two lines settle an item; two assignments let a
request name a transaction twice, or pay items of two calls. `MCShares` has zero
shares but no negative ones; those are left to the theorems, where `Shares` is
any integer split. Days 0 to 2 let a call be due, late, and have its date moved
either way. Three overlapping requests suffice for a request to be overtaken by
one and repaired by another. Two attempts are needed for a retry and a bound of
two to be met. Two rotations let two resends cross after a first mail.

For the web apps, two organizations let an answer be about the wrong one, and
one that invites lets the accept dialog change the selection; two session checks
let the older answer come last. Two contacts are needed for two stars, two
requests in the server (`MaxHandlers`) for one to overtake the other: for a
third one the theorems stand. In the drawer alone (`calm`) two contacts get
every operation; beside others (another manager's removal, the invitee's
acceptance, lost requests and answers) it has one contact and its edit and
invite dialogs stay closed (`BesideOthers`), but for `edit_drops_link`, where
they open. Two investors and two texts let one form reach the other, two changes
(`MaxChanges`) those of two drawers overlap, while the create dialog is closed
(`RegisterAtWork`); there one manager works alone (`alone`: no other user and no
lost request) or a reader watches others write (`RegisterLooks`); the theorems
have all manners. Two payers let the dialog serve one after the other, with and
without a suggestion; the wizard's manager is a patient one (`Manners`). Two
commitments let a notice be allocated, and paid, in part. Page size 1 with 3
entries gives three pages and one entry more than a page holds. `SampleRows` has
equal, smaller, missing and larger texts in every column. Each of the 21 pages
runs with its top role alone, with other users and lost answers, and with the
LP's role where it has one; the five pages with drawers or chains of requests
(`Large`) only without other users. Pages whose buttons do not wait for each
other (`Freer`) have two requests under way, the others one.

`MCInvestorDesks` and `MCPageDesks` hold desks that share no state, so a behavior
lets one of them work and leaves the others as they start.

Violation runs state what the code's own words promise and find it broken:

| Run | Promise | Trace |
|---|---|---|
| `cron_unpays` | `mark_overdue` leaves paid calls alone | pay in full, midnight, cron: `overdue` |
| `tx_total_drifts` | `called_amount` is kept in sync with payments | two payments sum before either commits |
| `invitation_resend` | a resend mails the rotated token | the job with the new link finds the log row of the old one and sends nothing |
| `edit_drops_link` | saving an unrelated edit never drops a contact's link | open the edit dialog, the invitee accepts, save: the dialog sends the link it was opened with, none |

Other races that the models have and that no property forbids; the properties
except them by name, or are of what the code does keep:

- A cancelled call comes back. A payment loads `sent`, a cancel commits, the
  payment writes the status it computed from what it loaded.
- A call stays `paid` with money missing: two item edits that overlap each decide
  the status without the other's change.
- A mail goes out twice when the worker dies between the provider's answer and
  the record (`SoleMail` bounds the extra ones by the lost records), and a send
  that failed is not tried again: the task records `failed` and ends normally.
- A request that names a transaction twice credits it twice (`CreditedOnce` without
  `repeated`): both assignments are judged by the status from before the first
  write (`bank_import_repository.py:202`). `apply`'s docstring says "Idempotent", which it is of
  requests sent again. The wizard names each transaction once.
- Two contacts end primary: two requests that each star another one select the
  siblings before either commits. `OnePrimary` is no invariant, although the plan the code was
  written from asks for exactly one; `investor_repository.py:69-72` reckons with
  several. And a contact that another request makes primary
  between a removal's check (`routers/investor_contacts.py:138`) and its delete is removed
  as the primary one. Both are excepted only where the request was overtaken.
- With three overlapping requests a star can commit nothing, for a sibling it
  selected is gone, or clear the others and still be answered with a 500, for its own contact
  is; the drawer then does not read the list again. This is beyond the two requests
  and the single contact that `ContactsCatchUp` is checked with beside others.
- A switch of the organization only marks the cached rows, whose keys do not name it:
  the next page shows the rows of the organization before until they are answered,
  and `InvestorsPage.tsx:190-191` for as long as the requests fail. `RowsFollowTheUrl` is
  of what is asked for and of what counts as fresh.
- A user who leaves a page before its answer can be shown another organization's
  rows as fresh ones (`RowsFollowTheUrl` without `patient`): the answer lands under the
  key that the next organization's page reads.
- A manager who dismisses the onboarding dialog in the middle of "create investor"
  and opens it for the next payer (`PatientOwnPayer` without `patient`): the dialog's
  state is reset, then the late answer writes the last payer's investor into it,
  and its commitment and item settle the next payment
  (`OnboardPayerDialog.tsx:111`). No property catches that one.
- `DocumentEditDialog` and the renaming of a fund group can be closed, or are
  reseeded, while their request is under way, and lose what was typed since. The
  letter's edit dialog waits for its request, but reads its fields again from every
  answer that changes the letter (`LetterComposeDialog.tsx:63-76`): what another manager saves
  wipes what is typed. `TypedTextSurvives` is about the dialogs that wait and
  read their fields as they open.
- Views an operation forgets (`misses`) show the old row for as long as it counts as
  fresh, five minutes at most after they were read: a new fund or a sent letter on the
  dashboard, a changed commitment in the list of investors. `OwnWritesShow` is of all
  other keys.
- A commitment's total typed by hand (`manual`) is overwritten by the next payment, and may
  contradict the items until then: `CalledInSync` is of the others.

### Fairness

- `MarkOverdue` is weakly fair: the cron is in the worker's schedule, daily.
- `Step(r)` of a transaction is weakly fair: threads run, free locks are granted,
  deadlocks are detected. Requests need not come (`Begin` is not fair).
- `Work(j)` of a job is weakly fair: the worker process is restarted when it
  dies and takes up what is queued. `Enqueue` and `Die` are not fair.

- In `WebSession` the browser runs effects and renders redirects, and the server
  answers or refuses. What users and administrators do is not fair, nor are
  failures.
- In `ContactDesk` the list is answered, and the server takes up the drawer's
  requests and gets on with them (`HandleMutation`, `MutationRejected`, `SiblingsSelected`,
  `MutationSucceeds`, `MutationBreaks`, one fairness for all: the requests are few and
  each takes a few steps); in `InvestorRegister` queries and changes are answered and
  the two effects (`CloseWithoutRow`, `Hydrate`) run. Each is something a mounted
  page, or a server, does without its user. `ContactsCatchUp` is of a drawer left alone from
  some point on, in which the list is read again after that (as it is on opening and
  after each write), and `DeletedDrawerCloses` of a user alone: while others write,
  the page may be behind for ever, for nothing tells it.

`delivery`, `invitation_resend`, `web_session`, `investor_desks`, `page_desks` and
`edit_drops_link` check no deadlock: the first two stop when every job has ended,
the worker too; a web page may have nothing under way and nothing its user is
allowed to press (a reader's page, an instance of the wizard whose uploads are
used up, a page left for good).

## Theorems

All are invariants or action properties of the specifications, for any finite
sets of calls, commitments and requests and any amounts, from the assumptions in
the modules (finite rows and requests, amounts in `Nat`, shares in `Int`, the
desks of `DesksAssumption`, a page size of at least 1 (`PagesAssumption`), and the
facts about the tables of `Forms`). TLC evaluates each assumption for the constants of the run. The modules of the web
apps have no type invariant of their own to check; their types are part of the
inductive invariants here.

`CapitalCalls_proofs`:

- `TypeCorrect`: `TypeOK`. It is inductive by itself and says more than types:
  the amounts of a (call, commitment) pair without an item are 0, which is what
  makes sums over all commitments sums over the items.
- `MoneyTheorem`: `StatusMatchesMoney`. Needs `TypeOK`. Each write of items goes
  through `WriteItems`, whose status is computed from the new sums; the other
  writers only lead to statuses about which nothing is claimed.
- `LedgerTheorem`: `CalledInSync`. The difficulty is the commitments a request
  does not touch: their columns keep their payments, so `PaidTotal` is the same.
- `VisibilityTheorem`: `NeverShownUnsent`. `Recomputed` leaves drafts alone, and
  leads from a shown status to a shown status.
- `CorrectionTheorem`: `CorrectionsNeverRefused`. By the invariants
  `StatusMatchesMoney` and `TypeOK` the table has every move `Recomputed`
  computes.
- `TableTheorem`: `StatusFollowsTable`, as an action property.

Of `BankImport`, in the same module:

- `CreditTheorem`: `CreditedOnce`, for lists of any length. It is not inductive: that a
  transaction is credited at most once holds because a credited transaction is
  `applied` for ever and an applied one blocks its reference. `CreditInv` says
  so: credits are above 0 for applied transactions and for no others, 1 unless
  one request named the transaction twice (`repeated`), and no two applied
  transactions share a reference of the bank's.
- `BankTypes`, `BankMoney`, `BankLedger`: `BankTypeOK`, `StatusMatchesMoney` and
  `CalledInSync` under `BankSpec`. A request of `CapitalCalls` keeps them by that
  module's lemmas (`CallTypesKept`, `MoneyKept`, `LedgerKept`); an apply, which posts
  payments to several items at once, by `PaymentsPosted`: the types hold after it,
  each touched call's status is recomputed from the new payments, and each
  touched commitment's total is summed again, while the others' payments are as
  they were. `BankTypeInv` adds `CreditInv` and the type of the counts.
- `TallyTheorem`: `ImportTallies`. `TallyInv` says of every import that its count is
  the number of its applied transactions and that it is `applied` when there are
  any: an upload adds rows that are not, an apply counts all of the import's
  again, however often the request named one. With `CreditInv` the applied transactions
  are the credited ones.

`CallTransactions_proofs`:

- `TypeCorrect`: `TypeOK`. It is not inductive: whether a row that a request flushes
  is its own to flush depends on where the request is and on what it has
  written. `LockInv` says what a request at each of its steps has flushed and
  holds (`Writer`, `Mover`, `Working`; `Resting` before and after), that no row has
  two holders (`Exclusive`), and that one cron runs at a time. All other theorems of
  the module rest on it.
- `VisibilityTheorem`: `NeverShownUnsent`. `StatusInv`: the status a request loaded and
  goes on from, and the status it has flushed, was announced when it is one that
  shows, or is a send's own. A stale status is thus an announced one.
- `PaymentsTheorem`: `PaymentsSurviveAllocations`. `ItemInv`: what an allocation has
  inserted is unpaid and not there yet for others, a payment writes one item,
  which is there, and nothing is paid where there is no item.
- `AtomicTheorem`: `OverlapFreeIsAtomic`, the refinement of `CapitalCalls`, one step
  for one commit. `CleanInv` follows a request that no commit has come between
  through its statements: the status it goes on from is the committed one, the
  sums it takes are over the committed rows with its own (`SumSeen`), each total it
  has dealt with is at its sum. At its commit that is the action `PayIsAtomic`,
  `AddIsAtomic` or `MoveIsAtomic` names. Others may be in flight and the totals may
  have drifted before.
- `DeadlockTheorem`: `OnlyAddsDeadlock`. In a ring of waiting requests (`RingStages`)
  each one's row has a holder in the ring, so that the waiting relation maps the
  finite ring onto itself. A payment waits for a total while it holds its item
  only, or for its item while it holds nothing; neither is what another waits
  for in a ring. Here `Requests` must be finite.

`NotificationDelivery_proofs`:

- `DeliveryTypes`: `TypeOK`.
- `SentTheorem`: `SentIsTrue`. Inductive with one more conjunct: an attempt whose
  outcome is `sent` and not yet recorded has mailed (`SentInv`).
- `SoleTheorem`: `SoleMail`. `SoleInv` counts the mails of a job: each is lost, on
  record, or in the hands of the running attempt; and nobody else's record falls
  between an attempt's check and its own record.

`Invitations_proofs`:

- `InvitationTypes`: `TypeOK`.
- `MemberTheorem`: `AcceptedIsMember`. `MemberInv` adds that a request about to mark a
  staff invitation accepted has found or made the membership; `RequestStep` is
  the argument all requests share.
- `TokenTheorem`: `CurrentTokenIsAsked`. `TokenInv` accounts for every rotation: its
  mail was asked for, or failed to be, or some request, the creation among them, is
  still to ask for it (`Accounted`); two crossing resends can each read back the newer token, so
  that a request may ask for more than the rotation it made.

`InvestorDesks_proofs`:

- `SecondPrimaryTheorem`: `SecondPrimaryNeedsOverlap`; `PrimaryGoneTheorem`:
  `PrimaryGoneNeedsOverlap`, for any number of requests handled at a time. `ServerInv`
  says that what a handler has loaded and selected is what the contacts hold for as
  long as it is not overtaken (`Fresh`), that a removal has passed its check on what it
  loaded, and that a client has each request handled once at a time (`OncePerClient`). A
  commit then either was overtaken or clears every other star and removes no primary
  contact; those that stay are marked as overtaken if it changed anything.
- `DeskTheorem`: `ContactSpec => ServerSpec`. Every step of the drawer and of those beside
  it is a step of the server or leaves it alone, so that both theorems hold at the
  desk as well.
- `DetailsTheorem`: `DetailsStayTheirOwn`. `RegisterInv` says of every place that can
  hold details (the row, the drawer's query, the form, the request) that they
  are its own investor's. The form's is the one that needs the drawer's key.

`WebSession_proofs`:

- `SessionTheorem`: `RowsFollowTheUrl`. `SessionInv`: for a patient user a request
  for rows is under way only while the tab is on a page of the organization the
  request was sent for, or has been signed out of it (`RequestOnTarget`); rows that
  count as fresh are those of the selected organization, unless the selection
  was cleared, for to set another one marks them (`FreshOfHeader`); and an
  invitation is accepted on its own page (`AcceptsInPlace`). The steps differ by what
  renders: `RowsRendered` and `RenderedInv` are the arguments all share.

`PageDesks_proofs`:

- `RecipientsTheorem`: `SentHasRecipients`. `NoticeInv` adds that the sheet shows no
  item the server does not have, as items are only ever added, and that a send
  under way was pressed over a notice with items.
- `PayerTheorem`: `PatientOwnPayer`. `WizardInv` adds that a patient manager's dialog
  has one request at a time, of the step and the payer it shows, and that
  everything on its way from there to the record (`onboarding`, `extra`, `choice`,
  `applying`) is its own payer's.
- `CatchUpTheorem`: `NoticeCatchesUp`. `CatchUpInv` adds what the property leaves out,
  the states in between, for the one notice of a page: while nobody else writes, the list and the open sheet
  hold what the server has or are being read, a closed sheet is unread, right or
  marked, and before there is a notice nothing was read of one. `KeysAreTold` shows
  that each operation's invalidations contain the keys both pages read.
- `OwnWritesTheorem`: `OwnWritesShow`, of the keys that no operation of the page misses;
  `TypedTextTheorem`: `TypedTextSurvives`, of dialogs that wait and read their fields as
  they open; for any number of requests under way. `FormInv` is their common inductive invariant.
  Its part `ShownInv` says that what counts as fresh is the row as it is, or a
  key that a request under way is going to tell of (an operation of several
  requests writes before it tells), or the drawer of a removed row. `WriteTells`
  draws from the tables that an operation tells of every key it made stale; the
  exceptions are why `NoneInv` is needed: `DocumentUpload` does not tell the drawer
  of the document it makes, and need not, for before there was one its key was
  never read. `DialogInv` says that while a request is under way that closes a
  waiting dialog, that dialog is open over the request's row, and no other
  request would close it: submitting disables whatever closes it, it cannot
  be closed by hand, and no form that takes its requests along as it unmounts is one
  that waits (`UnmountsAssumption`).
- `PagesTheorem`: `PagesMissNothing`, for any page size and length. `PageInv` says that a
  page shows the entries of its ranks among those there were when it was read
  (`ShowsRanks`). New entries change places but not the order of the old ones, so
  that a page once read stays true of those (`RankStays`), whatever is listed
  since. An entry's rank grows with the entries counted (`RankGrows`): the first
  page whose last rank it does not exceed was preceded by one it exceeded, and
  has it. That a page Next led to has a row rests on `Reaches`: a page is only
  asked for when the list extends to it, and no list shrinks.
- `RegisterOrderIsSound`: `OrderIsSound`, with `BeforeByKey`, which writes the
  comparator out for each kind of column.

`SumTheorems`: `SumFunction` is a fold, and induction over its domain is out of
the provers' reach as a theorem with an operator parameter; the lemmas are
proved by a smallest counterexample instead, from the well-foundedness of strict
inclusion among the subsets of the domain. `SumExcept` is the one the other
proofs cite most: changing one summand changes the sum by the difference.

`SumInt` and `SumNat` give the type of a sum; `SumZero` says that it is 0 when every
summand is.

Only model-checked:

- Liveness, which needs fairness and ENABLED: `PastDueIsMarked`, `RequestsFinish`,
  `JobsEnd`, `SignedInStaysIn`, `WorkspaceOpens`, `ContactsCatchUp`,
  `DeletedDrawerCloses`.
- `InvitationMail`, whose only run is a violation.

No module has a RECURSIVE operator.

## Not modelled, and the plan

In order:

1. `BankTransactions`: the statements of `apply` among those of
   `CallTransactions`, where overlapping applies credit twice or lose a payment.
2. `Distributions` on the server, and `FundLedger` which composes it with
   `CapitalCalls`: both halves of `recompute_totals`, commitment creation and
   status. `NoticeDesk` has the statuses of one distribution only.
3. `ProRata`: `allocate_pro_rata` in integers, checked against its specification,
   its sum proved with `SumTheorems`; an instance of `CapitalCalls!Shares`.
4. `Communications` on the server (recipients, reads, the retried draft task) and
   `EmailIngest`.
5. More of `Invitations`: a revoke and an accept that overwrite each other, an
   investor accepted but not linked after a crash (hazards without a property).

Abstract specifications worth stating: a ledger whose totals are definitions
(implemented by `CapitalCalls` as far as nobody types totals in), and a
once-per-key outbox (implemented by `NotificationDelivery` without deaths).
The theorems worth proving next are those of the modules above.

Left out of the models of the web apps: a second tab of the same browser, which
shares localStorage; the superadmin app's session; filters, search and sorting
of other tables than the register; the validation of fields, which happens before
a request; the read receipt a letter's drawer sends (`markRead`); tasks' dates and
assignment.

Left out for good: parsing of bank files and the scoring of matches (format and
heuristics; the wizard's choice is arbitrary in the model), object storage,
language-model calls, token checks, audit rows, dashboards, overviews and
reports, the mobile shell, the gateway, static sites, mail templates and
generated clients. Titles, notes and call dates take part in no rule.
