# A formal model of zmarkio

zmarkio is a multi-tenant platform for marketing teams: a Django backend with Celery workers, PostgreSQL,
Redis and Channels, a Next.js client, and a few smaller services. This directory holds TLA+ models of the parts
where several actors change the same state at once, in the backend and between browsers and the backend, the TLC
runs that check them on small instances, and TLAPS proofs for instances of every size.

Everything is translated from the source. Paths of Python files are relative to `src/backend/`, those of `.ts` and
`.tsx` files to `src/frontend/src/`.

## 1. Inventory

| part | state | operations | interacts with | what is hard | what makes it correct |
|---|---|---|---|---|---|
| budget pools and locking (`budget_approval/`, `task/views.py`) | `used_amount` of a pool; status of each request; row locks | lock, unlock, cancel, decide, revise, edit | task handlers call it after saving the task | two locks on one pool; a failure between the task's commit and the request's; nowait locks | `used_amount` is the sum of the LOCKED requests; money is locked up only for a LOCKED task |
| approval chains (`task/`, `budget_approval/approver_access.py`) | task status, step, round, approver; approval records; the request's approver | submit, start_review, make_approval, forward, revise, cancel, lock, unlock, decision endpoint | the request repeats the task's story in a second transaction | stale rows saved over decisions; double clicks; overrides | no step passed without its approver's record; request and task agree |
| token quota (`stripe_meta/`, `agent/llm_client.py`) | used, reserved, overage, reported tokens per month | check, reserve, commit, release; batch and final settlement | Stripe meter events | month end inside a call; lost answers; repeated settlement | exact overage; billed once and in full |
| chat delivery (`chat/`) | outbox row; `MessageStatus`; presence; sockets | dispatch, notify, deliver, connect, recover, replay, read | Celery, Redis channel layer | three paths, one claim; crashes; disconnections | one deliverer at a time; nothing left pending for a connected recipient |
| chat client (`lib/chatStore.ts`, `hooks/useMessageData.ts`, `hooks/useChatWebSocket.ts`) | outbox of each tab, its copy in the browser's storage, message lists, unread counts | compose, retry, flush and digest on reconnect, sign out, sign in, reload, eviction | `chat/services.py` deduplicates by `client_message_id` and answers digests | lost answers; two senders of one message; two tabs and one storage; another account in the same browser | a written message is on the server or still in an outbox; sent under its author's name; no entry hangs in "sending" |
| chat presence (`chat/services.py`) | online key, connection set, offline token | open, close, finalize | chat delivery, delayed task | a delayed task against a new connection | a connected user is online |
| calendar and bookings (`calendars/`) | rows of a booking (the host's, the copy of a guest), links, invitations; row locks on accounts, calendars and links | book, rebook, cancel by token, delete, move; edit, rename and delete a link | Google calendar, mail | requests that wait for locks after they have read; several ways to end one meeting; hosts who book each other | no slot given twice; one meeting per member and link; the invitation says what is so; every end told once |
| meeting notes (`meetings/`, `components/meetings/document/`) | one text and its time on the server; text, time, timer and requests of each editor | load, type, send by socket, save by HTTP, poll, reconnect, archive | editors replace each other's text | whole texts over two transports; late answers; times taken before the row is written; lost messages | a typed edit is saved or something known happened to it; editors that are at rest agree |
| meetings otherwise, decisions, assets, customer support | status machines over rows | their transitions | tasks, notifications | stale rows, delayed tasks | only allowed transitions, with their records |
| spreadsheets (`spreadsheet/`, `components/spreadsheets/SpreadsheetGrid.tsx`, `hooks/useSheetSocket.ts`, `lib/sheetRevisionStore.ts`) | rows, cells and revision of a sheet; grid, edit queue, editor, formula bar, undo and known revision of a tab | read tiles, edit, paste, undo, batch save, insert, delete, sort, refresh, join, rejoin | broadcasts, answers with revisions, conflicts | positions that move under an edit; refreshes put off during a save; answers in any order | an edit lands in the row it was typed in; no edit disappears in silence; the grid ends up as the server has it |
| automation workflows, other editors | documents with revisions and jobs | edit, run, revert | Celery jobs | concurrent edits | no lost edit |
| subscriptions and webhooks (`stripe_meta/views.py`) | plan of an organisation | checkout, switch, cancel, webhook | Stripe | out-of-order webhooks | plan follows Stripe |
| integrations (Meta, Google, TikTok, Klaviyo, Slack, Zoom, ...) | credentials, caches | call out, import | external services | I/O failures | none of their own |
| the rest of the client, decision service, variations studio, operations | presentation, read models, configuration | - | backend | - | rules are enforced in the backend |

`PROJECT.json` lists every component with its status and every hazard with its line.

## 2. Modules

| module | models |
|---|---|
| `PoolLedger` | abstract: what pools promise while their books are kept. A request is charged or not, and a charge must be affordable |
| `BudgetLocking` | detailed: tasks, their requests and the pools, with every handler cut into its database statements |
| `TaskApproval` | who decides which step of an approval chain, and how the linked request keeps up |
| `TokenQuota` | the monthly account of one organisation: LLM calls and settlement with Stripe |
| `ChatDelivery` | one message to one recipient through outbox, Celery, presence and sockets |
| `SheetCollab` | one tab that edits a shared sheet, the server, and other users as steps of the server |
| `ChatOutbox` | the sending side of the chat client: tabs, storage, requests, digests, and who is signed in |
| `MeetingDocument` | the shared notes of a meeting: editors, socket, HTTP, and the server's one text |
| `Appointments` | abstract: what booking links promise. Whoever books, calls off or moves does so alone and in one step |
| `BookingSlots` | detailed: public booking links with requests and their row locks, bookings with their copies, invitations |
| `MC*` | constants for TLC |
| `*Proofs` | theorems about the module they extend |

`BudgetLocking` instantiates `PoolLedger` as its abstract specification, and `BookingSlots` instantiates `Appointments`: the
names of links, notices, invitations and whatever a request has in its hands are hidden by `LinkView` and
`MeetingView`. `BudgetLocking` and `TaskApproval` are two
views of the same handlers: the first keeps the money, the locks and every database statement and lets everyone call
every handler; the second keeps persons, steps and records and takes the request's lock as one step. `ChatOutbox` ends where
`ChatDelivery` begins: its `ServeSend` commits the message whose delivery `ChatDelivery` follows; they share no
variable but that message, so each is checked on its own.

### How the models correspond to the code

*Handlers.* A web request is a worker with a program counter. An action is one statement that commits on its own, or
one `transaction.atomic` block. `ReadTask` is `get_object` and the guards of the handler; it stores the row the
handler has in its hands. `SaveTask` is `task.save()`, which writes the whole row back, whatever has happened to it.
`make_approval` is the only handler that locks the task row, and is one action (`MakeApproval`), followed by the part
that brings the request up to date. `Crash` ends a worker and rolls back what it had not committed.

*Budget.* `LockRequest`, `ReadPool`, `LockPool`, `Deduct` are the four accesses in `lock_budget_request`
(`budget_approval/services.py:363-420`): the row lock on the request, the load of the pool by
`locked_request.budget_pool`, the lock on the pool, and the deduction on the copy that was loaded. `RefundPool` and
`ReopenRequest` are the two statements of `unlock` (`task/views.py:1922-1926`), which are not in one transaction.
A request row is its status, amount and pool: the serializer lets PATCH write amount and pool at any status
(`budget_approval/serializers.py:15,22,82-157`, `permissions.py:101-106`), so the deduction and the refund each go by the row
the handler has in its hands (`EditRequest`, `SaveRequest`). `Crash` stands for a worker that dies and for a statement that raises
in the synchronising part of a handler, which logs it and answers (`task/views.py:1927-1928`): the open transaction is rolled
back, what was committed stays. History variables: `net` is deductions less refunds written for a task (it stops counting at
one too many or too few); `torn` are the tasks whose unlock broke off after the task was saved, with the request still LOCKED;
`spoilt` are the pools whose books are wrong for good, because a LOCKED request of theirs was edited or an unlock broke off
between the refund and the status. Left out: the PATCH of a pool itself, which may set its `used_amount` and total outright
(`budget_approval/serializers.py:188-195`), and the `task` field in the PATCH of a request.

*Approval.* A task row is its status, approver, step, round, and whether it has a chain. A record is a step, a round,
a person, an outcome, and the step its override marker names. `JudgeRequest` and `DecideRequest` are
the two halves of `process_approval`, before and inside the transaction: the checks and the snapshot, then the
re-checks under the lock. The reads of the first half, and `start_review` inside `make_approval`, are one step
here; `BudgetLocking` has `start_review` as a read and a save. A record for a (step, round) that exists is an
IntegrityError, which undoes the transaction: the action is then not enabled.

*Tokens.* A call goes new, admitted, provider, log, done. `month` on the call is the value `reserve_quota` returns. A
settlement reads the row, sends an event, marks the row: three steps with everything else in between. Stripe keeps at
most one event per identifier, for ever (it promises a window of a day, which is longer than the retries here).
The batch runs an hour after the end of a month (`backend/settings.py:718-722`), and no provider call takes that
long, so it does not meet calls of the month it settles; a cancellation settles the running month. Tokens are small
numbers and a unit is `Unit` of them instead of a million.

*Chat.* The status of the row, who holds the claim (`owner`, a history variable), and what each socket holds and has
written. `skip_locked` lets a claimer pass over rows another has locked, which is the same as claiming just
before or just after. Presence is its contract: on from the registration of a socket, off at some time
after the last registered one has closed. `missed` marks sockets open when an event was lost for good (channel-layer expiry, or a
worker that died after the early acknowledgement): those the code gives up on until the next connection.
Two opposite failures of a disconnect are in `Disconnect`: a message claimed but not written is given back, and a
claim that commits in its thread after the coroutine was cancelled stays.

*Sheet.* A sheet is one column; a row is an identity and its cell is the time of its last write and whether
that left a value, so that "the same row", "newer" and "empty" are what the properties can tell apart. A cleared cell is soft-deleted: it
keeps its time, a read leaves it out (`Canonical`), and no read takes a value off the grid (`Merged`), so that a clear
is shown only when it is broadcast, answered or typed here. A clear of an empty cell writes nothing and is answered without a cell. A position is read by a request of its own (a tile of the
client). A cell write and a structure change are one step of the server each, as the services run them in one
transaction under the sheet's row lock; a read takes the sheet with its revision (`ReadSheet`) and then the cells (`ServeRead`).
A broadcast goes out with the commit, or fails and is only logged. The client is event driven: an action is what runs between two awaits, with
the effects that React runs on its changes (`StopSaving` is `setIsSaving(false)` with the refresh that was put off or the
debounce timer; `RefreshSheet` is `refreshSheet`, which is put off as `due` while a save is under way).
There are two slots for batches because the end of a formula bar submission clears `isSaving`, and a second flush may
start then. `why` on an edit collects the `Ways` it may come to be sent under a revision it was not made at: an
answer moved the stored revision past the grid ("read"), the answer to the tab's own structure change ("own"), undo of an
older edit ("undo"), the formula bar, which asks neither for a refresh nor for a save ("formula"). Four
history variables say when the grid may differ from the server for good: `stale` (an answer moved the revision past the
grid, so the broadcast that follows is taken for old), `blind` (a change the tab is not told of: before it has joined, its own with the answer lost, or one whose
broadcast failed), `covered` (an answer put an older write over a newer one; a cell was cleared while an older value of it was on
its way; an answer had no cell for a value typed here, which stays) and `swallowed` (edits the
formula bar's answer removes from the queue). The proof of `Converged` showed where these were too narrow, each by a case that
needs a longer session than the run's. A position may be loaded and blank when an answer moves the revision past it (`Capture`). The
answer of a save may meet a read whose cells will be taken although it is no longer listed as under way, because an outdated read of the
same tile has ended (`Ended`, `SaveAnswered`). And a batch
may be written and its answer lost after the other batch has taken the same edit from the queue, so that nobody sends it or
reads it again (`SaveFails`).

*Outbox.* `SetOutbox` is a write of the zustand store: memory, and through the persist middleware the storage, which
all tabs of a browser share and each overwrites as a whole. A loop is one run of `flushOutbox`, which awaits one send
after the other; a digest and its acknowledgement travel beside it. The token of a request is that of the storage at
the time of the request (`who`), which may not be the account the tab shows (`shown`). A request with an expired token, or
with none, meets a 401: the interceptor of the answers asks for a new access token with the refresh token that is in the
storage by then (`renew`), once for all requests of the tab (`asked`), stores the new token whoever has signed in
meanwhile, and posts the message once more under it (`Unauthorized`, `Refreshed`). A refusal, or a 401 with no refresh token left,
ends the session. The refresh token itself stays the same (`ROTATE_REFRESH_TOKENS` is off). Every write of the
auth store persists the tokens its tab has in memory, so a tab that has not noticed a sign-in brings the old ones back
(`RewriteToken`). History variables: `cleared` (dropped by a sign-out or by the end of the session, by design),
`carried` (outlived the sign-out of its author in another tab or in storage; written, held or waiting for a token while the
token that came into the storage was of another account: `GivenTo`, `Refreshed`), `overwritten` (another tab wrote it out of the storage).
So what `SentAsAuthor` promises is that an account's own messages go out under its name as long as the browser's token is
its own; the code itself sends the carried ones under another name.

*Meeting notes.* A text is the set of the edits it contains. `updated_at` is taken by `save()` before an UPDATE that
locks nothing, so saves may be written in another order than that of their times: `doc.nth` counts them as they
are written, `doc.at` is the time as far as the browser can tell times apart, and a *late* save has a time before or
equal to that of one already written (`Replace`). A consumer saves, then tells the group (`Publish`), one
message at a time; the channel layer may lose that message for some, or `group_send` may raise, which ends the connection of the
sender (`PublishFails`); an HTTP save tells nobody. `lost` collects what happened to each edit and `apart` why an editor may
show another text than the server has, from `Ways`: the code merges nothing, and the model says which
replacements there are, so that the properties exclude all others. One of the ways came out of the proof of
`Converged` and needs a longer session than the run's: a late answer to an HTTP save sets the known time back, and an older
broadcast then replaces a newer text (`PutAnswered`). Two things are left out: closing the page, which drops the timer of an
edit not yet sent (`CollaborativeEditor.tsx:638-643`), and the close codes by which the server turns away a user without
access (`useDocumentSocket.ts:139-142`).

*Bookings.* A booking is the group of rows that `create_booking_events` writes: the host's row on the calendar of the link
and the copy on the diary of a guest with an account (`up`, `copyUp`). `Book` to `Write` are
`PublicBookingCreateView.post` (`calendars/views.py:1876`) cut at every place where the transaction may wait: the lock on
the guest's account (`LockUser`, in `ensure_personal_calendar`), the calendars in the order of their keys, one by one
(`LockCalendar`), the link (`LockLink`), and the lock of the booking that is replaced (`Replace`). Postgres reads at READ
COMMITTED, so each statement sees what has been committed by then; the transaction writes at its commit (`Write`), with which
its locks end (`Finish`). Cancelling, deleting and moving need one lock, that of the calendar of the host's row, and do
everything under it: they are the lookup (`Cancel`, `Edit`), after which others may come first, and one step. Working hours,
notice, other events and Google's answer are reasons to refuse a slot at will (`Check`). `moved`, `halved` and `unfound` are
history variables. The duration, the buffers and the host of a link do not change.

## 3. Runs

| run | question | instance and bounds | result |
|---|---|---|---|
| `budget_sequential` | does any sequence of handlers, whole or broken off, keep the ledger? | 1 worker that may die, 2 requests of 1 and 2, 2 pools of 2, all handlers, edits that raise the one and move it to the other pool and back | holds: 1,073,642 states |
| `budget_race` | does row locking charge once, and does every handler end? | 2 workers that may die, 2 requests, the row-locked handlers | holds: 105,178 states |
| `budget_lost_deduction` | is `used_amount` what the LOCKED requests add up to? | 2 workers, 2 requests, lock only | violated, finding 1 |
| `approval_sequential` | right person, request in step, room for the next record? | 1 worker, chain of 3, 3 rounds | holds: 899 states |
| `approval_race` | is a step ever passed unapproved? | 2 workers, chain of 2, 2 rounds, 3 records, superuser, reassigned request | holds: 597,245 states |
| `quota_batch` | is a month counted and billed exactly? | 3 calls of 1 or 3 tokens, quota 2, unit 2, 2 months, 2 settlement tasks | holds: 380,992 states |
| `chat_delivery` | one deliverer, nothing stranded, nothing lost on the way, read stays read? | 2 workers, 2 connections one after the other, 1 failed publication, 1 death | holds: 1,043,196 states |
| `sheet_collab` | does an edit land where it was typed, and does the grid settle? | 2 positions, 1 in view, up to 2 revisions, 2 edits, 11 kinds of session | holds: 846,436 states |
| `sheet_wrong_row` | is an edit ever written to another row? | typing while rows are inserted | violated, finding 2 |
| `chat_outbox` | is a message ever lost, misattributed or left hanging? | 2 tabs, 2 accounts, 2 messages, 11 kinds of session | holds: 342,422 states |
| `meeting_document` | where can an edit go, and do editors agree in the end? | 2 editors, 3 edits, 4 saves, of which one late, 8 kinds of session | holds: 225,370 states |
| `booking_slots` | is a slot given twice, does a member meet a host twice, does an invitation lie, is a booking one step, does it hang? | 2 hosts, 3 calendars, 2 links, 2 times, 3 requests, 4 kinds of session | holds: 232,166 states |

Why the bounds are enough to be of use. Two workers show every race of two handlers, and each proof below covers any number.
Two requests that fit a pool one at a time but not together make both the refused and the accepted deduction happen; one of
them may be moved to a second pool, which affords it, and back, the other lowered and raised.
A chain of two has a step with a successor and a last step; the chain of three adds a middle step. Sizes 1 and 3
against a quota of 2 end calls below, at, across and beyond the quota, and overages that are and are not
whole units. Two connections are a lost one and the one that recovers. `MaxFailures` stays below the `max_retries` of
the tasks, since a task that has used them up gives up by design; `MaxQueued` is one waiting task of each kind, and a
producer waits for room; `MaxRound` and `MaxRecords` cut the revisions and decisions short.

The client models start in a *session*: a record that says what the user does, which events happen
around it and how often, chosen in `Init`. Each session of an `MC` module lets one or two habits meet one kind of event,
so that every pair that interferes is in some session while none of them has every combination; the theorems are
for all sessions. In `sheet_collab` two positions of which one is in view give a tile that is read at once and one
read on scrolling; two revisions give an answer that is overtaken by the next; two edits give one queued while the other is
being saved. In `chat_outbox` two tabs are enough for a storage written by somebody else, two accounts for a message sent
under the wrong name, two messages for a loop that waits for one and has another left. In `meeting_document` three
edits of two writers let each replace the other and be replaced, and one late save is a newer text that is not taken.

In `booking_slots` the two hosts book each other, which makes them need each other's calendars; a meeting by one link is
twice as long as one by the other, so that two times are enough for meetings that meet, touch or overlap; the third calendar is where
a link may be moved. Three requests are two that race and one that replaces or ends what the first has made. A
session is three bookings; two and a cancellation while a link is edited; two and an end or a move with one failure; or one and two
of those while a link is edited. Links are edited at most once. With two edits there is one more case
(`booking_moved_back.cfg` below): a link that is moved and moved back between the first reads and the locks lets the request find
a booking on a calendar it has not locked, and wait for it out of order. Three such requests can wait in a circle, which Postgres ends
with an error. `NoDoubleBooking`, `OneEach`, `InviteTrue` and `BookingIsAtomic` are proved for any number of edits; `ToldOnce` is proved unless a link
is moved away and back (`FewMoves`); `RequestsFinish` is checked for one edit.

Deadlock is checked in `budget_sequential`. In the other runs the system may stop: the handlers a
run offers all end in a status that none of them accepts, the bounds are used up, every call has been made, the
message is read and every connection closed, every request has ended, or a browser waits for its user.

Symmetry: `chat_delivery` permutes the workers, which no property names; its one temporal property speaks of
single steps.

Fairness. In `budget_race`, `WF_vars(Step(w))` says a web worker goes on executing a handler it has begun;
a call is never forced to happen, and `Crash` is not fair. The lock waits are covered by that alone: a
row lock is held by a worker that is itself in the middle of a handler, and nobody waits for a lock while holding one
it could be asked for, because lock_budget_request takes its locks with nowait. In `booking_slots`, `WF_vars(Step(r))` says that a request
that has begun goes on; that no circle of requests that wait for each other arises is what `RequestsFinish` shows. In the client models the server
answers requests, answers are handled, timers fire and a closed socket connects again (the reconnect
timers of `useSheetSocket.ts`, `useChatWebSocket.ts` and `useDocumentSocket.ts` go on for ever, but for a user without access):
`WF_vars` of `Server`, `Answers`, `FlushPendingOps` and `Socket` in `SheetCollab`, of `Server`, `Client` and `Connect` in
`ChatOutbox`, and per editor of `Consumer`, `Deliver`, `Load`, `Puts`, `SendContent` and `Connect` in `MeetingDocument`.
What the user does, what other users do, a failure and the offline poll are never forced. `DeferredRefreshRuns`, `SendingEnds`
and `Settles` rest on it. `TypeOK` of the client models and of `BookingSlots` is a theorem and in no run.

What some properties leave out, and why. `LedgerSpec` and `UsedMatchesLocked` promise nothing of a pool once it is `spoilt`:
a PATCH of a LOCKED request makes a later refund give back another amount, or to another pool, than was deducted, and an unlock
that breaks off between `pool.save()` and the update of the status leaves a refunded request LOCKED. `MoneyFollowsTask` leaves out
the `torn` tasks, whose unlock broke off. Both are behaviours of the code; the properties say there is no other way. `RequestFollowsTask` speaks of the first round: after a revision the
request has no approver (`budget_approval/models.py:207`) and nothing in the backend assigns one. `SlotFree` and
`OwnStepOnly` are checked, and proved, for handlers of the task page that follow one another, without org-admins (`ByThePage`): the
first two instances at the end of section 4 are what happens otherwise.
In `approval_race` nobody overrides and no cancellation deletes records; those two are what `RecordsOnlyGrow` excludes
in the theorems. PATCH of the task's approver (`assign`) is covered by the theorems and in no run, since it
multiplies the states of the two-worker run. `NotStranded` is for connections that follow one another.
`NeverOverbilled` and `NothingDropped` are for settlement by the monthly batch, of months that have ended (`BatchOnly`);
`quota_cancel.cfg` is what a cancellation adds. The client properties name their exceptions (`Ways` and the
history variables above): each is a behaviour of the code that a reader may want to change, and the property says that there is
no other. `Converged` says nothing while one of them holds. `NoDoubleBooking` is about what the code checks: a host who drags a
meeting over another is not stopped (`moved`). `InviteTrue` excuses two things. Google deletes one row of a meeting
(`halved`). And `perform_destroy` looks for the link by the slug in the booking (`calendars/views.py:634-646`), finds
none after the link was renamed or deleted, and leaves the invitation as "booked" (`unfound`).

## 4. Findings

1. `budget_lost_deduction`: `lock_budget_request` loads the pool before it locks it, and deducts on the old copy. Of two
   simultaneous locks on one pool, one deduction is lost (`budget_approval/services.py:386`, `models.py:199-200`).
2. `sheet_wrong_row`: the answer to a tile request moves the tab's revision past its grid, so that neither the refresh of the
   structure event nor the server's revision check stops an edit that was typed at an old position
   (`lib/api/spreadsheetApi.ts:42`; the comment at `SpreadsheetGrid.tsx:3962-3963` says "Never enqueue it after
   the socket has advanced to the canonical revision.").

Further instances, to be run by hand (`tlc -config <file> <module>`). Each shows TLC a sequence that a
comment or a docstring of the code excludes, and explains an exception that the properties above make:

- `approval_override.cfg` (`MCTaskApproval`): the audit record of an override takes the number of the next step, whose
  approver then cannot record a decision (`budget_approval/services.py:73-81`, `task/models.py:534`).
- `approval_double_click.cfg` (`MCTaskApproval`): the second of two simultaneous approvals of one person decides the next
  step, because the request still names that person (`task/views.py:1415`).
- `quota_cancel.cfg` (`TokenQuota`): after a lost answer, a month that has grown is settled under the old identifier; Stripe
  drops the event and the code credits it all the same (`stripe_meta/tasks.py:71-80`).
- `chat_two_tabs.cfg` (`MCChatDelivery`): recovery on one connection claims a message for all of them (`chat/consumers.py:1051`).
- `chat_own_unread.cfg` (`MCChatOutbox`): `markOutboxSent` adds the message without a current user, so one's own message counts
  as unread when its answer comes while another chat is shown (`lib/chatStore.ts:531-540`; the comment in `addMessage` says
  "don't count your own messages as unread").
- `document_saved.cfg` (`MCMeetingDocument`): an edit whose message or request was lost is sent again by nothing, and the header says
  "Saved" once the editor is connected again (`components/meetings/document/CollaborativeEditor.tsx:695`;
  `DocumentHeader.tsx:146` says "Offline edits will save on blur.").
- `booking_google.cfg` (`MCBookingSlots`): a deletion that comes from Google ends one row of a meeting and leaves the other
  (`google_calendar_integration/services.py:261-280`; the docstring of `PublicBookingCancelView` says "a half-cancelled meeting
  is worse than none").
- `booking_moved_back.cfg` (`MCBookingSlots`): what a request replaces is on a calendar it has not locked, after its link was
  moved away and back (`calendars/views.py:1939`; the comment at 1896 says "Lock every diary we will write, in a stable order").

## 5. Proofs

All are checked by TLAPS for every value of the constants that satisfies the module's assumption
(`LockingAssumption`, `ApprovalAssumption`, `QuotaAssumption`, `DeliveryAssumption`, `SheetAssumption`,
`OutboxAssumption`, `DocumentAssumption`, `BookingAssumption`: finiteness of the tasks, positive amounts, special values that are nobody's name, bounds
that are numbers). Some theorems have a named hypothesis besides: it says which calls are meant, a run's instance satisfies it, and,
but for the first, a finding or an instance of section 4 shows what happens without it.

| hypothesis | says | satisfied by | without it |
|---|---|---|---|
| `RowLockedOnly` | clients call the handlers that lock the request's row | `budget_race` | a stale row saved over a LOCKED request |
| `OneAtATime` | one handler at a time; it may break off | `budget_sequential` | `budget_lost_deduction` |
| `RecordsOnlyGrow` | nobody overrides the chain and nobody cancels | `approval_race` | `approval_override.cfg` |
| `ByThePage` | one handler of the task page at a time, no administrators | `approval_sequential` | `approval_double_click.cfg` |
| `BatchOnly` | settlement is started by the monthly batch | `quota_batch` | `quota_cancel.cfg` |
| `~Overlap` | connections of a recipient follow one another | `chat_delivery` | `chat_two_tabs.cfg` |
| `FewMoves` | no link is moved away and back | `booking_slots` | `booking_moved_back.cfg` |

`BudgetLockingProofs`
: `TypeCorrect` proves `TypeOK` together with `Placed`, that a busy worker is on a task.
  `DeductedOnce` proves `ChargedOnce` under `RowLockedOnly`: clients call only handlers that write a request under
  its lock, from a status only they leave. `ChargedOnce` is not inductive: a worker about to deduct must know
  that the request is still APPROVED. `RowLockInv` adds `HoldsRow` (between `select_for_update` and commit the worker
  holds the row, and its status is the one it checked) and `OnPath` (which points a handler can be at). Each step of another
  worker then leaves a held row alone.
  The rest is for handlers that follow one another (`OneAtATime`) and may break off anywhere, for any requests, amounts, pools, edits
  and any order of calls. `SequentialInv` says that what the worker has read is still so (`UpToDate`); that a LOCKED request is on a LOCKED
  task, about to be reopened, or `torn`; and that the books of the pools not spoilt balance: `used_amount` is the sum of the charges
  and within the total. A `Charge` is the amount of a LOCKED request in its pool, and nothing between the two statements of an unlock. From it `NothingLost`,
  `MoneyStaysWithTask` and `ImplementsLedger`, the refinement of `PoolLedger`: the deduction is a `Charge` the pool can afford, the
  pool's save in unlock or cancel a `Refund` in full, an edit of a LOCKED request and a crash before the status is
  reset a step that closes the books of the pools it touches and no others (`Loose`), every other statement a stutter. `NothingLost`
  is `UsedMatchesLocked`, which `budget_lost_deduction` violates with two workers. The sum over a set of requests is handled by
  lemmas about `SumFunctionOnSet`.

`TaskApprovalProofs`
: `NoStepSkippedHolds` and `ChainCompleteHolds` under `RecordsOnlyGrow`, for any chain, any users and any number of
  workers. The point is that handlers save rows they read earlier. `ChainInv` says that every row, in the table
  and in the hands of any worker, is `Backed` by approvals on record. Records only grow, so a row that was backed when
  it was read is backed when it is saved; that is why the stale saves do no harm here.
  `TypeCorrect` is for everything the handlers can do, overrides included: the step an override jumps to is read off the records,
  and has an approver because records stop where the chain does (`Called`).
  `PageInvariant` is for the task page (`ByThePage`), for chains of any length and any number of rounds: the task stands at a step of
  its chain (`OnChain`), the records of its round end before that step (`RecordsBehind`), and at each point of a handler the
  request is where the statements still to come need it (`Serving`: `Syncing`, `Outcome`). `SlotFreeHolds`,
  `OwnStepOnlyHolds` and `RequestFollowsTaskHolds` follow; the last needs all of it, because the request is brought up to date by
  statements of their own, after the task.

`TokenQuotaProofs`
: `OverageIsExact`: `OverageExact` is inductive with `TypeOK`; each commit adds what goes beyond the larger of
  the quota and what was used before. `TypeCorrect` is its first half.
  `ReservedAccountedHolds` needs no hypothesis: a call changes its place in one of the sums of estimates exactly when it changes
  `reserved`. `NeverOverbilledHolds` and `NothingDroppedHolds` rest on `BillingInv` (under `BatchOnly`): an event
  that was sent, or is held by a task, bills the `WholeOverage` of a month that is `Closed`, so no call can make it wrong later. Two events of
  one month are then equal, and Stripe has one; a month is billed the rounded overage or nothing.

`ChatDeliveryProofs`
: `OneHolderHolds`: `OneHolder` is inductive with `TypeOK`; the claim is the only way to become the owner, and
  whoever owns it is the one path that may end the claim. It holds for overlapping connections as well.
  `ReadStaysHolds`: a release only moves a row that still says delivered, and every other write of the row leaves
  a read message alone, step by step. `NotStrandedHolds` and `ReachedReaderHolds` are for connections that follow one
  another (`~Overlap`), so an open one is alone (`Sequential`) and the recipient is online from its registration on
  (`SeenOnline`). A pending row then has a task on its way to it, or every connection that came too late for it has missed
  something (`PendingCared`): the task created the row before it asked who is online, the connection registered
  before it read its queue. A row delivered within the replay window is with the open connection, in its hands or about to be
  replayed (`FreshReached`).

`SheetCollabProofs`
: For grids, sessions and bounds of any size. `TypeCorrect` proves `TypeOK` together with what keeps it: the grid
  always has a row for every position (`Sized`, `OwnFits`: a structure change fits the revisions left), what is queued or
  sent is numbered (`AllNumbered`), what is shown has a place (`AllPlaced`), a formula bar batch has one edit
  (`BarHasOne`). `NoEditVanishesHolds` needs that a batch under way never takes from the queue what it
  did not send (`SavedSettled`: what the server has made of a batch is settled). `EditLandsWhereTypedHolds` is the
  hard one. `LandInv` says what everybody knows of the newest revision: answers and broadcasts that carry
  it show the server's rows (`NewsSound`), a screen that is not stale at that revision shows them (`ScreenSound`),
  an edit, an editor, a bar and an undo entry without a taint that claim it have their row (`HandsSound`), and so
  has a batch that was sent on it (`SentSound`). A step that raises the revision makes every statement about the old one
  vacuous; a step that brings a newer revision to the tab either marks queue and editor (`Capture`) or clears
  them with the refresh; no other step relates a position to a revision.
  `ConvergedHolds` adds `ConvergeInv`. No cell that is shown, read, answered or broadcast is newer than the server's (`Known`), so
  `Merged` never keeps a wrong one. A tab that has missed nothing and shows an old structure, or is about to, will hear of the newest
  (`WillHear`, `NewsComing`). Where the server has a value the grid must show that write, and where it has none, no value (`Shows`); since
reads do not take values away, the second is claimed of positions that are not loaded as well, and of what was
typed before the first answer (`TypedIsQueued`). What is on its way with a value is right about there being one (`NewsStand`), which
a clear breaks only with `covered`. At the newest structure each loaded position, and each answer with one, has the last write, or that
  write is queued, being saved, in the formula bar's answer or in a broadcast (`Coming`, `Agrees`). When nothing is under way,
  nothing is coming, and the grid is the server's. The lemmas go by what a step can do to the screen: steps that leave it
  (`PassiveConverges`), clear it (`ResetConverges`), or bring an answer.

`ChatOutboxProofs`
: For any tabs, accounts and messages. `NoOrphanHolds` is inductive with the types: the loop of a connection takes up
  what is there and a message leaves a loop only with a request. `NothingLostHolds` needs that an answer "ok" is
  true of the server (`AnswersTrue`, acknowledgements too) and that what the storage has is in some tab
  or accounted for (`StorageCovers`), since a reload replaces memory by storage. `SentAsAuthorHolds` needs that
  what a tab holds is its account's or carried (`EntriesRightful`), and the same of requests (`SendsRightful`) and
  commits (`CommitsRightful`). The steps in which a token comes, goes or comes back are taken together (`Renewing`): each either
  ends its tab's session or leaves every entry where it is, and hands what is another account's to `carried` (`Renewed`,
  `RenewedSends`).

`MeetingDocumentProofs`
: For any number of editors, edits and saves. Nothing is merged, so `NoEditVanishesHolds` needs to know of every text that may
  replace the saved one that it has the edit. `KeepInv` says it for the edits that nothing named has happened to: an editor
  shows the edits of its user (`OwnShown`); what it shows, sends or hears of from others is in the saved text
  (`OthersSaved`); a later save of a client has what an earlier one had (`SavesGrow`); news from after the last save of a
  client has its saved edits (`NewsHasSaved`). `ConvergedHolds` adds `AgreeInv`, about the editors that nothing named has happened to: a
  connected one has heard of a text as late as the saved one, has made the saved one, or it is on its way to it (`Told`); what it
  shows at the time of the saved text is that text, and the n-th text is the same wherever it is named (`Current`,
  `Named`); and the newest of its saves has what it shows (`SentAll`).

`BookingSlotsProofs`
: For any accounts, calendars, links, rules, requests and sessions, so also for links edited again and again. `Typed` is `TypeOK`
  and what a request knows at each point (`JobOK`): what it will write is among the calendars it asked for. `Held`: from
  `LockLink` on it holds all of them, and from `ReadExisting` on the link. So nothing appears on these calendars between check and commit:
  a slot found free stays free (`SlotKept`), from which `NoDoubleBookingHolds`. `Sole` says that the meeting the
  request knows of, if any, is the only one of its guest by its link, since another could only be written under the link's lock: `OneEachHolds`. It is
  the lock on the link that makes the second search final, whatever calendar the earlier meeting is on. `InviteTrueHolds`
  needs both, and that a copy is up only with the host's row or after Google (`CopyAlone`), because the host may delete by either row.
  `ToldOnceIfLocked` is the reason the code gives for its locks: as long as the calendar of what is replaced is locked, nobody
  else ends it meanwhile, and its end is announced once (`Announced`). `EveryDiaryIsLocked` says when that is so: what a request
  wants to lock includes the calendar of any booking its guest has by the link (`Wanted`), since later ones are on the link's own calendar
  (`LinkKnown`), unless the link is moved away and back. `ToldOnceHolds` puts the two together.
  `BookingIsAtomicHolds` is the refinement of `Appointments`, without a hypothesis: a `Write` is a `Book` on the link as it is at that
  step, because from `ReadExisting` on the link is as it was found under its lock (`OpenLink`), the slot is free but for what somebody
  has dragged there (`SlotKept`), and what is replaced is a meeting of this guest by this link (`Sole`, `MembersOnly`). Calling off
  or moving what has ended is a stutter, and so is every lock and every read (`AppointedStep`).
  That a link may be moved away and back does not matter here: the promise says nothing of the lock on the old diary.

The library's induction theorems take the predicate as a parameter, which the installed provers cannot instantiate. Where a proof
needs induction (sums over sets of calls, events and requests, the largest step of the records), a set of numbers
stands for the predicate: `NatSetInduction`, by the least number outside the set (`WFMin`, `NatLessThanWellFounded`), and from it
induction over the subsets or the size of a finite set.

Only model-checked: the liveness properties `HandlersFinish`, `DeferredRefreshRuns`, `SendingEnds`, `Settles` and
`RequestsFinish`, which the prover cannot treat (fairness and ENABLED), and the violations of section 4, which are
counterexamples. Every invariant and every action property of a passing run is stated by a theorem.

## 6. Plan

1. Done: `PoolLedger`, `Appointments`, `BudgetLocking`, `TaskApproval`, `TokenQuota`, `ChatDelivery`, `SheetCollab`, `ChatOutbox`, `MeetingDocument`,
   `BookingSlots`, with their runs, and theorems about all of them.
2. `AuthSession`: refreshing tokens in several tabs, and the session registry that evicts.
3. `Presence`: the Redis steps of `OnlineStatusService`, shown to implement the contract `ChatDelivery` uses.
4. `BookingSlots` with durations, buffers and hosts that are edited, and with the events of a calendar beside its bookings.
5. `DecisionCommit`, `AssetVersion`, `TicketStatus`: status machines with their records and their delayed tasks.
6. `LinkPreview`: the single-flight lock of `chat/tasks.py`, with expiry.
7. `SheetCollab` with formats, columns, redo and the pattern jobs of `spreadsheet/`.
8. Proofs: done for the safety properties of all runs. Left: that the pool balances for any number of workers
   once the pool's row is read under its lock, which is a change to the code.
9. Liveness of the chat outbox of the server: a committed message is handed over in the end, under fairness of the beat task.

Every run here asks a question of its own; a new component takes the place of a run whose property has become a theorem.

## 7. Not modelled

Integrations with external services, most of the client, the C# reader of decisions, the variations studio and operations: their
logic is I/O, presentation or configuration. Two client parts that look like candidates have no user in the code:
the workflow graph store and `MeetingDocumentEditor.tsx` (the page mounts `CollaborativeEditor.tsx`).
Of the sheet: formats, formulas and their recalculation, columns as a second dimension, imports and redo; of the
meeting notes: cursors and formatting; of the meeting: its life cycle, agenda and action items; of the chat client:
attachments, threads and scheduled messages; of the calendar: recurring events, free and busy pages, working hours, mail,
feeds, recovery of lost tokens, shared calendars, and calendars that are deleted. The debounce timer of the sheet that is turned away by a refresh under way is
not started again by the code, and the model does the same (`FlushPendingOps`). Records without concurrent writers (comments, customers, campaigns, preferences).
Wording, notifications, logging and permissions by role are left out of every model; the callers a handler
refuses by identity are in `TaskApproval`. One organisation stands for all tenants
(the schema of a tenant separates them), one message and one recipient for all of a chat.
