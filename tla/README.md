# Formal model of ERRS

ERRS answers after-hours calls for HVAC, plumbing and electrical businesses.
An assistant talks to the caller, records what is wrong, opens an emergency
ticket, pages the on-call technician, offers and books appointment times, and
can put the caller through to a person.  This directory holds TLA+ models of
the parts of it whose correctness depends on the order in which things happen,
the TLC runs that check them on small instances, and the proofs that hold for
every instance.

Source paths below are relative to `src/apps/api/app` unless they start with
`src/`.

## 1. Inventory

The backend runs as several uvicorn worker processes over one PostgreSQL
database, at READ COMMITTED.  A request is one transaction
(`infrastructure/database/session.py`: commit, then the after-commit
callbacks); its response may be sent before the commit.  Each process also runs
one poller for the alert outbox and one for emergency paging.  What one process
holds in memory no other process sees; what crosses processes is the database,
so nearly every hazard below is about which rows a transaction read, which of
them it had locked, and what committed in between.

| Component | State | Operations | What is hard | What makes it correct | Module |
|---|---|---|---|---|---|
| **Emergency paging** (`application/services/emergency_paging_service.py`, `infrastructure/paging/`, `domain/paging/`) | `emergency_pages` (one per ticket), `emergency_page_notifications` (one per recipient and channel) | enqueue, acknowledge by link or by user, claim, send, record, escalate | several deliver loops; leases that expire under a live worker; an acknowledgement or escalation in the middle of a send; crashes between claim, call and record | the first acknowledgement stands, calls are bounded, the backup comes second and gets its window, every page ends | `EmergencyPaging`, `PageLifecycle` |
| **Appointments** (`appointment_service.py`, `infrastructure/scheduling/`) | `appointments`, `conversation_offered_slots` | offer, select, book, schedule, change status | two callers for one slot, capacity counted under an advisory lock, staff and callers at once | capacity is never exceeded, only a time the caller has heard is booked | `Booking` |
| **Dispatch, follow-ups** (`dispatch_service.py`, `call_follow_up_service.py`) | `emergency_tickets`, `call_follow_ups` | sync from an outcome, open unconfirmed, assign, change status; record and resolve follow-ups | turns, reports and staff on the same rows; a status checked without a lock | one ticket per call, no reported call without an owner | `Dispatch` |
| **Alert outbox** (`emergency_notification_service.py`, `infrastructure/notifications/`) | `emergency_notifications` | queue, deliver one due row, record | a row locked through a provider call; rollback after the provider accepted; retry budget | every alert is delivered or given up explicitly | `Dispatch` |
| **Voice turns** (`voice_service.py`, `api/v1/endpoints/vapi_webhooks.py`) | `voice_calls`, `conversations`, `conversation_messages`; per-process supersession numbers | answer a request, reuse a reply, open and end a call | requests that overtake each other in one process or in two; words on the wire that no rollback takes back | notice and safety instruction come first, one reply to one utterance, none after a newer one | `VoiceTurns`, `CallTranscript` |
| **AI brain and provider** (`ai_brain_service.py`, `infrastructure/ai/`) | `messages`, `conversation_outcomes` | one turn in rounds, streamed or not | tool rounds, held words, a provider failing half way, chunks that end anywhere | what was heard is what the model is told it said | `ReplyStream`, `SpokenField`, `VoiceTurns` |
| **Tools** (`voice_tool_executor.py`) | none of its own | create request, check availability, select, book, transfer | each tool in a savepoint of its own | a failed tool leaves nothing behind | `Booking`, `Dispatch`, `CallTransfer`, `Intake` |
| **Intake** (the outcome, and the details copied from it by the services above) | `conversation_outcomes`, the contact columns | request, persist, sync, backfill | five writers in any order, each of which may fail | a ticket can be called back, no known detail is blanked | `Intake` |
| **Call transfer** (`call_transfer_service.py`) | `call_transfer_attempts`, transfer settings | save settings, transfer | the provider is called inside the transaction that records it; settings change under it | no second move without a lost record, no loop to the assistant's own number | `CallTransfer`, `VoiceTurns` |
| **Customers** (`customer_service.py`) | `customers` | sync from an outcome, link, staff's edits | two calls of one caller at once; staff at once with a turn | one customer to a stored number, corrections win, links stay | `Customers` |
| **Usage metering** (`call_usage_service.py`, `domain/usage.py`) | `call_usage_records` | record, merge, decide | repeated, partial, crossed and late reports | a call is billed once, in one month, to one organization | `Usage` |
| **Authentication** (`auth_service.py`, `endpoints/auth.py`, the browser's refresh) | `refresh_tokens`, the cookie | login, refresh, logout | two tabs with one token; an answer before its commit, or lost | the cookie is the session; no fault signs anybody out, but for a commit that fails after its answer | `Sessions` |
| **Team** (`team_service.py`) | `users`, roles | invite, change role, activate | who asks is read first, the target next, the others last, nothing locked | only owners make owners, an owner remains | `Team` |
| **Voice lines** (`voice_line_provisioning_service.py`) | `voice_lines` | assign, reassign, replace, switch | commands that overlap | a call is answered for whom its assistant was given to | `VoiceLines` |
| **Business knowledge** (its services and the dashboard's forms) | services, keywords, FAQs, areas, exceptions, hours, profile | create, update, delete, replace a week | overlapping saves from tabs that loaded earlier | a row is what the last form said, and is shown so | `Catalogue` |
| **Conversation page** (`src/apps/frontend`, `chat-panel.tsx`, `page.tsx`) | what the panel shows | select, start, write | answers that cross the selecting | what is shown is what is selected | `ConversationPanel` |
| **Backups** (`src/docker/backup`) | archives, sidecars, markers, the off-site objects | dump, upload, verify, mark, prune, restore | crash between any two writes, spoiled files, a lost host | the only copy is never deleted, health vouches for a recent one | `Backups` |
| **Rate limiting** (`core/middleware.py`) | per-process counters | count | none: one process, no await between check and count | arithmetic | - |
| **Analytics** (`analytics_service.py`) | none | reads | none | arithmetic | - |

`PROJECT.json` lists every component with its status, and every hazard at the
line where it bites with the properties that would catch it.  Some of these races
do happen in the code, with nothing to prevent them, and then the property names
what it excuses and catches whatever else would do the same harm: a turn that
overwrites a name saved after it read the row (`edited`, 7.3), commands on a line
that overlap (`mixed`, `overtaken`, 8.1), a token shown twice at once (`raced`) and
a commit that fails after its answer (`Unsaved`, 8.3), forms saved past one another
(`mixed`, `behind`, 8.6).  Two owners who step down at once are the run `OwnersLost`
(8.4); `TeamInv` speaks of requests that do not overlap.

## 2. Plan

Most important behaviour first: an emergency that nobody hears of is what the
product must not have; a visit that two customers were promised comes next;
then what a caller is told; then the records made of a call; then what runs
beside the calls.

1. `EmergencyPaging` with `PageLifecycle`, what it promises, and
   `EmergencyPagingProofs` (section 3).
2. `Booking` (section 4).
3. `Dispatch`: tickets, follow-ups and the alert outbox (section 5).
4. `VoiceTurns` with `CallTranscript`, what it promises; `ReplyStream` and
   `SpokenField`, what one turn does with the provider (section 6).
5. `CallTransfer`, `Usage`, `Customers`, `Intake`: what is done with one call
   (section 7).
6. `VoiceLines`, `Backups`, `Sessions`, `Team`, `ConversationPanel`,
   `Catalogue`: what runs beside the calls (section 8).
7. Proofs (section 9): every component, in the proof module of the components it
   is run with: `EmergencyPagingProofs`, `DeskProofs` (booking, voice lines),
   `DispatchProofs`, `VoiceTurnsProofs` (with `ReplyStream`), `CallTransferProofs`,
   `CallRecordsProofs` (usage, customers, intake), `BackupsProofs`,
   `OperationsProofs` (sessions, catalogue, the conversation page, team).

Modules are written so that they can be proved about as well as checked:
parameters are constants with named assumptions, an operation is an action,
invariants are conjunctions of named parts, and only `SpokenField`, which no
proof needs, declares a RECURSIVE operator.

**Runs.**  A run is one question asked of one MC module.  Modules that share no
state are run together where each alone is small: `MCVoiceTurns`, `MCDesk`,
`MCCallRecords`, `MCOperations` and `MCDispatch` have a variable `part` that
says which of them takes the steps of this behaviour; the others stay in an
initial state of theirs.  The states of such a run are the sum, not the product,
of those of its parts, and a property of a part is checked exactly over that
part's states.  Where an invariant is a conjunction (`BookingInv`, `VoiceInv`,
`TransferInv`, ...) each conjunct has its own comment at its definition.

| Run | Module | What it asks |
|---|---|---|
| `Paging` | `MCEmergencyPaging` | section 3.2 |
| `BookingSafety`, `BookingConsent`, `BookingOverbooked` (violated) | `MCBooking` | section 4.2 |
| `Desk` | `MCDesk` | visits that overlap: section 4.2; voice lines: section 8.1 |
| `Dispatch`, `DispatchUnowned` (violated) | `MCDispatch` | section 5.2 |
| `VoiceTurns`, `VoiceLiveness` | `MCVoiceTurns`, `VoiceTurns` | section 6 |
| `CallRecords` | `MCCallRecords` | section 7 |
| `Operations`, `OwnersLost` (violated) | `MCOperations` | section 8 |

`CHECK_DEADLOCK FALSE` is in every cfg: a page that is acknowledged, a call
that is over, a desk whose bounded requests are used up are at rest.

## 3. Emergency paging

### 3.1 The model

| Module | Contents |
|---|---|
| `PageLifecycle` | the abstract specification: a page's status and who has been reached; no workers, rows, retries or leases |
| `EmergencyPaging` | the system: both tables, the workers, crashes; its properties, its inductive invariant and its mapping to `PageLifecycle` |
| `MCEmergencyPaging` | symmetry for TLC |
| `EmergencyPagingProofs` | the theorems |

State and code:

* `page[p]` is the row of `emergency_pages` for ticket `p`: `status`,
  `deadline` (`escalate_at`: NULL, running, due), `escalated`
  (`escalated_at IS NOT NULL`), `ackBy` (the link's role, or the dashboard) and
  `reason` (`unresolved_reason`).  `status = "none"` is a page not yet made.
* `notif[n]` is the row of `emergency_page_notifications` for page, role and
  channel `n`: `status`, `attempts`, and `next` (`next_attempt_at`), which is
  the lease while the row is `sending`, the retry time while it is `retrying`.
* `worker[w]` is what a deliver loop has in memory or in an open transaction:
  the claimed row, the attempt number it claimed with, the provider's answer,
  and, in a transaction that is failing a row, the page status it expects when
  it comes to bring the deadline forward.
* `calls[n]` is history: the attempts for which a provider was called.

Actions and code:

| Action | Code |
|---|---|
| `Enqueue` | `EmergencyPagingService.enqueue`, in the ticket's transaction |
| `Acknowledge` | `acknowledge_with_link`, `acknowledge_by_user`, `_acknowledge` with `mark_acknowledged` and `cancel_unsent`, on the locked page row |
| `ClaimNextSend`, `ClaimLost` | `claim_next_send` over `claim_next_notification`; the second is its branch for a row whose attempts are used up, which closes the row in the same transaction |
| `Send` | `send`, the provider call between two transactions |
| `RecordSendResult` | `record_send_result`, `_finish`, `record_notification_result`: superseded, sent, retrying, or failed |
| `SurveyRecipient`, `CommitFailure` | the rest of the transaction that fails a row: `_escalate_early_if_unreachable` reads page and siblings; then it brings the deadline forward and commits |
| `EscalatePrimary`, `EscalateBackup` | `escalate_next_due` on the locked page row |
| `Crash` | the process dies, or a step of `deliver` raises and its transaction is rolled back |
| `EscalateAtPasses`, `NextAttemptAtPasses` | time |

Granularity.  A transaction that is one statement, or that locks the page row
before it reads anything, is one action: whatever commits while it runs is
ordered before or after it by the lock.  The transaction that records a
terminal failure holds no lock on the page, so it is three actions; its row
write stays with the worker until it commits, other transactions read the old
row, and a claim skips it (`Locked`), as `FOR UPDATE SKIP LOCKED` does.  A
claim that reads the page just before an acknowledgement commits is ordered
before the acknowledgement, whose `cancel_unsent` finds the row `sending`
either way.

Abstractions.  Time is order: a deadline is running, then due; the length of a
lease, a backoff or a window is left open, so a lease may run out under a live
worker.  The settings a transaction reads are any configuration
`validate_paging_settings` lets the Owner save.  `REJECTED` and
`NOT_CONFIGURED` are both "rejected": `_finish` treats them alike.  Tickets are
neither deleted nor moved to another organization anywhere in the code, so the
`ticket_unavailable` branch of `claim_next_send` is not reachable and is left
out.  A link can be used only by somebody who got a text message of that role
(`HoldsLink`); the HMAC that makes it so is not modelled.

### 3.2 The run

`Paging`: 1 page, 1 channel, 2 workers, 2 attempts, 1 crash, under `FairSpec`.
It checks the inductive invariant of the proofs with the safety properties that
follow from it (`IInv`); that an acknowledged page never changes
(`AcknowledgementIsFinal`); that a late failure to reach the primary never cuts
the backup's window (`BackupWindowNotCutShort`); that what the assistant may
already have told a caller is not taken back (`CallerNeverToldBack`); that every
notification settles (`NotificationsSettle`); and that paging implements
`PageLifecycle` with its fairness (`ImplementsLifecycleFairly`), so that every
page ends.

Bounds.  One page is enough for TLC: pages share nothing but the workers, and a
worker busy elsewhere is a worker that does not move; the theorems need no
bound on pages.  Two workers give every race of a pair.  Two attempts give a
retry and a last attempt.  With one channel a failing row has no sibling; the
product has two channels, and what the second adds to the safety properties is
left to the theorems, which hold for any set of channels.  `MaxCrashes` bounds
crashes only so that the state space is finite; lease expiry is not bounded.

Fairness (`Fairness`).  Weak fairness of each worker's own step, since
`run_forever` ticks until shutdown, catches what a tick raises, and bounds a
provider call by `PAGING_SEND_TIMEOUT_SECONDS`; of each page's escalation, for
the same reason; of the clock.  None for acknowledgements (nobody is bound to
answer), none for crashes.

### 3.3 Disagreements that are not run

`EmergencyPaging` states two more properties (`UnreachableIsBroughtForward`,
`FailedWasTried`) which no run checks, because they fail:

* The RUNBOOK says a page escalates at once when every channel to the current
  recipient fails.  Both channels can fail in overlapping transactions of two
  loops (the poller of one process, the after-commit delivery of another); each
  reads the other's row as still `sending`; neither moves the deadline, and the
  page waits out its window.
* Attempts are counted at the claim.  A worker that dies between claim and send
  each time uses up the attempts without one provider call, and the row is
  closed as `worker_lost`: a lost page, where the RUNBOOK promises at most a
  duplicate.
* A row in `sending` while its page is acknowledged, whose attempt then fails
  for now, becomes `retrying` for good.  It is not claimed, for the page is
  acknowledged, and `cancel_unsent` has already run, although `page.py` says
  that such a row is canceled.
* What a caller is told of a page in state FAILED says that nobody was reached,
  although a provider may have accepted a message (`page.py:236-239`).

### 3.4 The proofs

`EmergencyPagingProofs` assumes what the constants' assumptions say: a text
channel exists, at least one attempt, `NoRow` is not a row.  Nothing is assumed
of how many pages, channels, workers or crashes there are.

`IInv` is the inductive invariant.  The safety properties are not inductive:
that a claim makes at most one call needs to know that no two claims in flight
share an attempt (`ClaimsDistinct`) and that a claim's attempt is counted in
its row (`ClaimConsistent`); that the backup's window is not cut short needs to
know that what a failing transaction saw of the backup's rows stays true until
it commits (`SurveyStands`), which needs that nobody else can take the row it
holds (`Locked`) and that a failed row stays failed; that the backup can
acknowledge only after escalation needs that a backup's row exists only then
(`RowConsistent`).  One lemma per action proves `IInv'`; each first says what
the action does to each table, then takes the conjuncts one by one.

From `Spec => []IInv` follow the invariants and, step by step, the action
properties.  `PageWrite` is the page's state machine; with it `Refinement`
shows that every step of `EmergencyPaging` is a step of `PageLifecycle` or does
not show in it.

Only model-checked: the liveness properties and the fairness of
`PageLifecycle`, which need ENABLED.

## 4. Booking

### 4.1 The model

`Booking` models the appointments of one organization: the tools with which a
call reaches a booking, the dashboard's two requests, and the locks between
them.  `MCBooking` adds symmetry and a view for TLC.

State and code:

* `appointment[c]` is the row of `appointments` for conversation `c`: `status`,
  `start` and `length` (`scheduled_start_at`, `duration_minutes`), `closed`
  (`closed_at IS NOT NULL`).  `status = "none"` is no row.
* `offered[c][s]` is the row of `conversation_offered_slots` for start `s`: its
  length, the turn that offered it, whether the caller selected it.
* `turns[c]` is the number of completed turns in the message history, which is
  the turn index the tools are bound to.
* `turn[c]` is the open transaction of the call's turn: the offers as it sees
  them, its own writes to the appointment, which locks it holds, and the
  booking under way.  `staff[d]` is an open request of the dashboard.
* `earliest` is now plus the minimum lead time: the clock.
* `counted`, `heard` and `silent` are history: whether an appointment's time
  was compared with the capacity when it was written, what was read out to the
  caller, how many turns ended in an apology.

Actions and code:

| Action | Code |
|---|---|
| `BeginTurn` | the call lock and `_prepare_turn` (turn limit, turn index) |
| `CreateServiceRequest` | the tool of that name: `sync_appointment_from_outcome`, create or backfill |
| `CheckAvailability` | the tool: `find_slots`, then `record_offered` |
| `SelectAppointmentSlot` | `select_slot_for_conversation`: offered, and in an earlier turn; replaces the selection |
| `BookForConversation`, `VerifySlot`, `BookSlot` | `book_for_conversation` before the booking lock, from the lock to the verdict, and the write |
| `ToolFails` | the tool's timeout or a failed statement: its savepoint is rolled back |
| `CompleteTurn`, `LoseTurn`, `SilentTurn`, `RollBackTurn` | the ways a turn ends: persisted; spoken but not persisted; the provider failed and an apology was spoken; rolled back |
| `ScheduleAppointment`, `VerifyForStaff`, `WriteSchedule` | `schedule_appointment` up to the lock, to the verdict, and the write with its commit |
| `UpdateStatus`, `LoadForStatus`, `WriteStatus` | `update_appointment_status`: check, load, write with commit |
| `RequestFails`, `TimePasses` | a request's transaction is rolled back; the clock |

Granularity.  A turn is one transaction that holds the call's advisory lock, so
nobody else touches the call's offers, and its steps need splitting only where
it waits for the booking lock, or writes a row that a dispatcher may write.
Reads are READ COMMITTED: a turn sees committed rows and its own writes.  An
UPDATE names the columns that differ from the row as the session loaded it,
which is why `loaded` is kept from the load to the write: a status changed in
between survives half of an update.  An advisory lock taken inside a tool is
released when the tool's savepoint is rolled back, one taken by an earlier tool
is not (`lock = "tool"` and `"turn"`).

Abstractions.  Times are points of one day's slot grid; the conversions between
zones and the horizon of days are left out.  The capacity, a count of on-call
technicians, does not change while requests are open.  The technician column of
an appointment is left out, so is the text channel (which takes no call lock),
an organization without configured hours, and the emergency ticket that makes a
call's tools refuse to book.  A slot id is one quoted in the same turn.

### 4.2 The runs

| Run | Instance | Question |
|---|---|---|
| `BookingSafety` | 2 calls, 1 dispatcher, 1 slot, 1 technician, a moving clock | `BookingInv`: types, no scheduled visit without a time, and the capacity, while both callers and the dispatcher want the technician and appointments are closed |
| `Desk` (visits) | 2 calls, 3 starts, visits of two steps | `CountedWithinCapacity` when visits overlap without starting together; `SearchAgreesWithBooking`: a search never offers what a booking would refuse |
| `BookingConsent` | 1 call, 1 dispatcher, 2 slots, under `FairSpec` | `HeardBeforeBooked`, the consent ladder; `StaffAnswered` |
| `BookingOverbooked` | 2 calls, 1 dispatcher, 2 slots | a dispatcher and a caller never get the same slot: violated |

Bounds.  One technician and two who want one: a greater capacity only adds
visits before the same comparison.  Two completed turns reach a booking (offer,
then select and book).  `Horizon` lets the only slot fall into the lead time and
pass.  `MaxSilent` is 0 where consent is checked: `HeardBeforeBooked` is what
holds as long as every committed turn was spoken.  `Symmetry` exchanges calls
and exchanges dispatchers; neither is named by an action.  The view
`WithoutConsent` leaves out `heard`, `silent` and a turn's `told`.  With one
length they decide nothing but whether `SilentTurn` may happen, and `SilentTurn`
does to the rest of the state what `LoseTurn` does.

Fairness (`Fairness`).  Advisory locks and row locks are granted in the order
they were asked for, so a waiter that is enabled again and again is served:
strong fairness of the steps that take one.  A tool is ended by
`AI_TOOL_TIMEOUT_SECONDS`: weak fairness of `ToolFails`.  A turn runs at most
`AI_MAX_TOOL_ROUNDS` rounds and then replies: strong fairness of `CompleteTurn`,
which is disabled while a tool runs.  None for callers, dispatchers or crashes.
The deadlock of section 4.3 is therefore not forever: the tool's timeout, or
PostgreSQL, ends it, and `StaffAnswered` holds.

### 4.3 What the runs show

* What the booking lock protects, it protects: of the visits whose time was
  compared with the capacity, never more than there are technicians are under
  way at once: on these instances, and for any callers, dispatchers,
  lengths and technicians (`CapacityHolds`, section 9).
* `BookingOverbooked`: not every write makes that comparison.  A start within
  the minimum lead time, or a visit that ends after closing, is refused for
  that reason before the capacity is counted, and a dispatcher's request
  ignores every reason but `FULL`.

Not run, but true of the model:

* Whether an appointment is closed is read before the wait for the booking
  lock, and the write is unconditional: an appointment canceled in between is
  scheduled again, with `closed_at` set (`ClosedStaysClosed`).
* A turn that has updated its appointment keeps that row to the end of its
  transaction and then asks for the booking lock, and a dispatcher takes them
  the other way round: a deadlock, although `locks.py` argues that no cycle can
  form.
* With `MaxSilent = 1`, `HeardBeforeBooked` fails, since the offers of a turn
  whose reply was replaced by an apology are committed and count as heard one
  turn later.
* With two lengths a visit may be booked at a length the caller has not heard,
  since a re-offer (`record_offered`) overwrites the length of an earlier offer
  and keeps its turn.
* A visit that is canceled is still described to the caller as booked
  (`_describe_records`), and once the call has a ticket a request that is no
  emergency still answers that it may be booked, though select and book refuse.

## 5. Dispatch

### 5.1 The model

`Dispatch` models who at the business hears of a call: its emergency ticket with
the alert and the page, its appointment request, or its follow-up.  `MCDispatch`
adds a specification that starts after a recorded call.

State and code:

* `conversation[c]`, `ticket[c]`, `followUp[c]`, `alert[c]` are the call's rows
  in `conversations` (with its `voice_calls` row, its messages and its outcome),
  `emergency_tickets`, `call_follow_ups` and `emergency_notifications`;
  `requested[c]` and `paged[c]` say that it has one in `appointments` and in
  `emergency_pages`.
* `tx[c]["turn"]` is the transaction of the call's turn, which holds the call's
  advisory lock; `tx[c]["report"]` that of an end-of-call report, which holds no
  lock.  `w` is what the transaction has written, `saved` what it had written at
  the open savepoint.
* `staff[d]` is an open request of the dashboard, `outbox[o]` what a deliver
  loop has locked and what the provider answered, `line[c]` the caller.
* `failed`, `handled`, `finished`, `accepted`, `lost` are history.

Actions and code:

| Action | Code |
|---|---|
| `Speak`, `BeginTurn`, `RefuseTurn`, `OpenCall` | a chat completion request, the call lock and `_voice_call_for`; `ConversationCompletedError`; `open_call` |
| `CreateServiceRequest`, `ToolFails` | the tool and the rollback of its savepoint |
| `CreateTicket` | `sync_ticket_from_outcome` or `open_unconfirmed_emergency`, from the insert to `_start_paging` |
| `WriteTurn`, `SyncOutcome`, `FailTurn` | `_write_turn`; `_run_outcome_syncs`; `_outage_reply` with `handle_ai_failure` |
| `AddFollowUp`, `MarkPossibleEmergency`, `RecordFails` | `_record`: insert or find, the ticket's link, its `except` |
| `ReportArrives`, `EndConversation`, `LookForFollowUp`, `LookForRequest` | `handle_end_of_call_report`, then `handle_call_ended` |
| `Commit`, `RollBack` | `get_db` |
| `CheckTicket`, `LoadTicket`, `WriteTicket` | `assign_ticket`, `update_ticket_status`: check, load again, write with commit |
| `LoadFollowUp`, `ResolveFollowUp`, `RequestFails` | `resolve`; a request rolled back |
| `LockNextDue`, `Attempt`, `RecordAttempt`, `DeliverFails`, `RetryDue` | `deliver` around `deliver_next_due`, with its rollback; the backoff runs out |

Granularity.  A transaction is split wherever another one's commit can change
what it reads next, or where it waits: an insert waits for another transaction's
row with the same unique key, an update for a row another has written.  Each
read sees the transaction's own writes and what is committed (READ COMMITTED).

Abstractions.  What a caller says is plain or alarming; hazards and emergency
keywords decide which, and are not modelled.  The assistant's outcome is an open
choice.  A transfer is a nondeterministic yes in `LookForRequest`.  The
transcript in the report has all the caller said.  Contact details, their
backfill and the customer link are left out, as is the reason of a follow-up.
A repeated or superseded request, which replays an earlier reply, is left to
`VoiceTurns`; the turn limit is beyond `MaxTurns`.

### 5.2 The runs

| Run | Instance | Question |
|---|---|---|
| `Dispatch` (call) | 1 call, 2 utterances, 2 deliveries of the report, 1 rollback | `DispatchInv`: types, a ticket exactly with its alert, a possible emergency or a page only with its ticket; `ReportedCallHasOwner` |
| `Dispatch` (desk) | 1 recorded emergency, 2 requests, 2 loops, 2 attempts, 1 crash, with `Fairness` | `DispatchInv`: a closed ticket has its closing time; `AlertedAgainOnlyIfLost`; `AlertSettles` |
| `DispatchUnowned` | 1 call, 1 utterance, 1 report, no failure | every ended call has an owner: violated |

Bounds.  Calls share only the outbox loops, so one call is enough.  Two turns
give a tool's ticket in one and a failure in the next; two reports give a
redelivery before, during or after the first; one rollback may hit any
savepoint or transaction.  Two requests give every race on one ticket.  Two
attempts give a retry and a last attempt.  The desk part starts from what the
call part reaches: a call reported as an emergency, whether paged or not,
whether its alert is pending or had no destination.

Fairness (`Fairness`).  Weak fairness of each deliver loop, since `run_forever`
polls until shutdown, catches what a tick raises and bounds a provider call by
`NOTIFICATION_TIMEOUT_SECONDS`; and of the clock that ends a backoff.  Loops may
die `MaxFailures` times in all: one whose process dies in every attempt counts
none of them, for attempts are counted only by transactions that commit, and
retries without bound, and nothing settles.  In the call part no loop runs, so
fairness, and with it `AlertSettles`, is about the desk part alone.

### 5.3 What the runs show

* The unique keys and the savepoints do what they are there for: whichever of a
  turn and a report opens the ticket, and whatever fails, there is one ticket,
  one alert with it, and no link or page without it.
* A report that is delivered twice, or while the call's turns are still being
  finished, leaves no known call without an owner, as long as recording it did
  not fail (`failed`).
* `DispatchUnowned`: a report that arrives while the call's first turn is still
  uncommitted does not find the call, and is taken for a ring and a hang-up.  A
  turn may run on for half a minute after the caller has gone.  What it then
  commits is an active conversation with the caller's words and, unless the turn
  itself made a record, nobody to call back.

Not run, but true of the model:

* A resolved or canceled ticket is opened again by an assignment, or closed the
  other way, by a request that had checked it before.
* The second of two resolutions of one follow-up that both read it as open
  replaces the first.
* If recording a follow-up fails, a redelivered report finds the conversation
  completed, takes the assistant to have finished it, and records nothing unless
  the call was alarming.
* A report that waits for a turn which is completing the conversation goes on as
  if the caller had hung up, and asks for a callback that nobody needs.
* The report inserts the follow-up and then the ticket, a turn that fails after
  its tool the ticket and then the follow-up: each can wait for the other, until
  PostgreSQL ends one of them.

## 6. A live call

### 6.1 `VoiceTurns` and `CallTranscript`

`VoiceTurns` models the requests that Vapi sends for one call, the transaction
each runs in, and what the caller is told on the way.  `CallTranscript` is what
the call's transcript promises: one turn after another, the same words not
answered twice running, nothing after the turn that ended the conversation.

State and code:

* `row` is the call's row in `voice_calls` and `conversations`: known, the
  notice marked as given, completed, an INITIATED transfer.  `transcript` is
  `conversation_messages`, a turn an entry.
* `latest[p]` is `TranscriptSupersession` of process `p`; `lock` the holder of
  the call's advisory lock (`PostgresAdvisoryCallLock`).
* `req[r]` is a request: its process and its number in that process's registry
  (`seq`), the words it carries, its round, what its transaction has written
  (`w`), and what its response has carried so far (`out`).  `out` holds the
  kinds of frames a response may carry: the caller notice, the safety
  instruction, the model's answer, an older reply, a holding phrase, a fixed
  fallback, `endCall`.
* `tenant` is the voice line as the request finds it; `said` is the caller.
* `over`, `onWire`, `instructed`, `unled` and `moves` are history: what was said
  to the caller, and what the provider did.  No rollback undoes them.

Actions and code:

| Action | Code |
|---|---|
| `Send` | a chat-completion request arrives, and claims its number before it waits |
| `RefuseDisabled`, `RefuseUnmapped` | `_resolve_voice_line`: the kill switch; a line of nobody's, which for a call known from before is an outage |
| `OpenCall` | `open_call`: greeting and notice |
| `ReuseReply`, `RefuseTurn`, `BeginTurn` | `_answer_locked`: a redundant request gets the stored reply, a completed or exhausted conversation the refusal, else `_prepare_turn` |
| `RunTool`, `BookTool`, `FindTransfer`, `RefuseTransfer`, `TransferAccepted`, `TransferForgotten` | one round with its tool; `CallTransferService.transfer` as the turn sees it |
| `Answer`, `FailTurn`, `OutageBreaks` | `_write_turn` and the last frames; a failure of the provider or of the write; `_outage_reply`, which may itself fail |
| `Commit`, `RollBack`, `Abandon`, `Crash` | the ends of a transaction: committed; refused by the database; cancelled after the drain; lost with its process |
| `SetTenant`, `Report` | the owner or operator; the end-of-call report |

Granularity.  The call's lock is held from the first read to the end of the
transaction, so a request is split only at what others can see: its frames, and
the commit.  The report takes no lock and waits only for rows that a turn has
changed.

Abstractions.  A call's assistant streams or does not, fixed for the call.  A
round asks for one tool; the order within a round is `ReplyStream`'s.  There is
one kind of hazard, and the policy gives the caller notice.  Requests arrive in
the order in which they were sent, and Vapi listens to the newest response and
discards the others.  The wording, the voice, and the choice of a holding phrase
are left out.

`VoiceTurns` (run, part `requests`): two open requests on two processes, three
requests and two utterances in all, one alarming, one failure of any kind.
Two requests are the pair that races; the third comes after what they left.
`MaxFailures` counts all that goes wrong and every change of the line.  It
checks:

* `VoiceInv`: types; an older reply is given only when a newer request has
  arrived; words that follow newer ones in the transcript were answered by
  different processes; a call is asked to move twice only if the record of the
  first move was lost; a streamed response that moved the call does not hang up;
* `NoticeLeadsWords`: no word of the model's before the caller notice, whichever
  transport, worker or opening comes first, and whatever is rolled back;
* `AlarmedCallerInstructed`: whoever answers alarming words does so on a call
  whose wire has carried the instruction;
* `ImplementsTranscript`: the refinement of `CallTranscript`.

`VoiceLiveness` (one process, one utterance, one failure, under `FairSpec`)
checks that every request ends and lets the lock go (`RequestSettles`).
Fairness: weak fairness of each request's own step.  Every wait of a request is
bounded: the model's by its timeout, the transfer's by the provider's, the
lock's by its holder's end, and advisory locks are granted in the order asked
for.  None for Vapi, callers, the failures or the report.

Not run, but true of the model: somebody who still listens to an answer to
alarming words may not have heard the instruction (`ListenerWasInstructed`),
since the response that carried it may be one that Vapi discarded, and the turn
that made it committed (`docs/RUNBOOK.md`, "Life safety", says that it is spoken
first).  Without streaming, the outage reply can hang up a call that an earlier
turn has moved to a person.

### 6.2 `ReplyStream`

One turn of `OpenAIProvider`: rounds in which the model is asked, speaks, asks
for tools and is given their results.  `response` is what has arrived of the
current response (of `stream_reply`, or of `generate_reply` where nothing is
streamed), `results` what each tool call gave, `heard` and `told` what the
caller heard and what the model is told it said in each round, `flags` what
earlier rounds leave for the end of the turn (`_updated_booking_state`, a moved
call, a failed tool), `usage` the requests made and reported.

`Request`, `Content`, `Fragment`, `EndResponse` and `ProviderFails` are one
response and its chunks; `RunCall` and `EndRound` the tools, one after the other
in the order of their indices; `EndTurn`, `NoDocument` and `AbandonReply` the
ways a turn ends.  Words are counted, not told apart.  Words that arrive after a
tool call of the same response are not of it; without streaming nothing is heard
before the reply, and the order of words and tool calls is immaterial.

`VoiceTurns` (part `reply`): three tool rounds, two indices, two tools, four
chunks in a turn, which suffice for a failed tool, a retry and a reply with
words in each.  `ReplyInv`: the model is told it said what was heard, and that
every call it made had a result; no word about a failed tool is heard in a round
that tries a tool again, however many rounds lie between; a reply is heard in
full; whether the assistant may hang up follows from the last booking, not from
the last round; every request is reported once.  A request that is cancelled
while it is not streamed is made and not reported.

### 6.3 `SpokenField`

`StreamingStringFieldExtractor`: the sentence that is spoken is one string of a
JSON document that is still arriving.  `message` is what the model means to say,
as units each of which may be written in several ways (as it is, behind a
backslash, as a code, as a pair of codes); `Feed` is a chunk, which ends
anywhere.  A document has a field before the message whose value contains the
key, and fields after it.  A character is one symbol; the four digits of an
escape are two, the first of which tells what they stand for.

`VoiceTurns` (part `spoken`): all messages of two units, every way to cut the
document.  `SpokenAsMeant`: what is spoken is at all times a beginning of the
message, and in the end all of it.

## 7. What is made of a call

All four are checked by `CallRecords`.  The rows a part works on belong to one
call (one organization, for `Customers`).

### 7.1 `CallTransfer`

Handing a live call to a person, one statement after another: look for an
accepted transfer (`Request`), read the settings and record the attempt
(`ReadSettings`), ask the emergency policy (`RefusePolicy`), read the hours
(`ReadHours`), resolve the destination and compare it with the voice line
(`Resolve`, `NoDestination`), ask the provider (`Accepted`, `NotAccepted`), save
(`SaveAccepted`).  Around it the owner saves or deletes settings
(`CheckSettings`, `SaveSettings`, `DeleteSettings`) and an operator gives the
voice line a number (`MapLine`).  `attempts` is `call_transfer_attempts`; the
turn sees its own rows in `talk`; `ToolFails` rolls back to the tool's savepoint,
`UndoTurn` the whole turn.  `moves` is the provider, which no rollback reaches.

Settings and line start as anything that could have been saved before.  The
owner's form is sent only while a change is left; one number stands for all:
what matters is whether it is the line's own.  Announcements and the text of
next steps are left out.

Instance: 1 number, 2 attempts, 2 moves, 1 change.  `TransferInv`: types; no
attempt is left half-way once no turn is under way, and at most one has
succeeded; a call handed over by policy has its ticket; every move is on record,
but for those whose answer or record was lost; and the number dialled is a
current one and not the assistant's own, unless settings or line changed after
they were read.  Not run, but true of the model: a call whose record was rolled
back is moved again (`MovedOnce` fails), although the service says that it never
is.

### 7.2 `Usage`

What a call is billed as.  A delivery of the end-of-call report looks for the
record under a lock (`Find`, `FindNone`), inserts it unless another has
(`Insert`, `Conflict`), or merges and decides again (`Merge`); `CommitReport` and
`LoseReport` end it.  `bill` is the row of `call_usage_records` with its
decision (month, minutes, why it is excluded); `PassTime`, `OpenCallRow` and
`RouteTo` are the clock, the call's first turn and an operator's mapping.

Six fields stand for what a report may carry; the costs are merged like them.
Reports of one call may contradict each other: a value delivered later takes the
place of the one there is, and only a value that is not given leaves it
(`MergeFacts`).  Routing is read at one moment.  The upsert of the model's token
counts is left out.

Instance: 2 deliveries at once, 3 in all, of four reports, three of them partial
and one that contradicts another in times and in the reason the call ended, over
two months, one mapping.  `UsageInv`: one delivery at a time holds the row; of
every fact the record holds what a recorded report said last of it (`kept` has
them in the order of their commits), and is billed as those facts decide; every
committed delivery is counted once.  `BillStays`: a report that gives no other
times than the last that were given never moves the call to another month, and
nothing moves a billed call to another organization.  The exception is what the
code does: a report with other times moves a billed call to another month, and so
does the duplicate of a report that another has contradicted meanwhile, although
`call_usage_service.py:119-121` says that a duplicate never moves a call on its
own.

### 7.3 `Customers`

The sync at the end of a turn: look the stated number up (`FindCustomer`),
create (`CreateCustomer`), lose the race and look again (`CreateConflict`,
`FindAgain`), fill in what is missing (`FillIn`), link the call's work (`Link`),
in a savepoint (`SyncFails`) in the turn's transaction (`CommitTalk`,
`LoseTalk`).  Staff create and edit customers at the same time (`SendForm`,
`WriteForm`, `CommitForm`).  A name stands for name and address, which are
treated alike, and is of whoever gave it: each call's own, or staff's.  E-mail,
notes and the association of a caller's own number are left out.

Instance: 2 calls, 2 numbers, 2 customers, 2 turns, 1 form.  `CustomersInv`:
types, no two customers with one stored number, and after a sync that ended well
the work has a customer.  `CorrectionsWin`: a name that was there when a turn read the row stays, whether
staff or another call gave it.  One that staff or another call saved after that
(`edited`) is overwritten: the `UPDATE` of a backfill names no condition, although
its docstring says that a staff correction always wins.  `LinksStay`: work once linked is not taken to another customer.
Not run, but true of the model: a number that staff typed in another form is
another key, and one caller gets two customers (`CallersNotSplit`).

### 7.4 `Intake`

What one call makes of what its caller says: the outcome, the ticket, the
appointment, and the name, address and number copied onto them.  Turns follow
each other; in each, tools (`CreateServiceRequest`, `SelectSlot`,
`BookAppointment`), the reply (`PersistTurn`) and the syncs (`SyncTicket`,
`SyncVisit`) run in savepoints (`IntakeSyncFails`, `OutageTurn`) and see the
turn's writes.  The end-of-call report may open the ticket beside them
(`ReportOpensTicket`).  `detail` stands for name and address; a number is said,
said as words that hold none, or not said, and the call's own number may be
withheld.

Instance: 2 turns, 2 tools each, 1 failure.  `IntakeInv`: types; a ticket has a
number to call back if the call had one, whoever opened it; a call that has a
ticket when a turn begins is not booked in it; after the syncs the appointment
has what the call knows.  `NothingBlanked`: a known detail is never blanked.
Not run, but true of the model: what the caller says later does not always reach
the ticket (`TicketLearns`), since `sync_ticket_from_outcome` looks for the
ticket only if the outcome still says so; and a visit made by the outcome sync
alone has no fallback to the caller's own number.

## 8. Beside the calls

`Desk` checks 8.1; `Operations` the others.

### 8.1 `VoiceLines`

The routing table and the provisioning commands of an operator.  A command is
one transaction that reads by assistant, by organization and by phone
(`ReadByAssistant`, `ReadCurrent`, `ReadByPhone`), decides (`Provision`,
`ChangeActive`, `LeaveLine`, `Refuse`), loads the row once more and writes the
columns that differ from it (`CreateLine`, `WriteLine`); nothing is locked until
then.  `AnsweredFor` is `_resolve_voice_line` for a turn that comes meanwhile.
Organizations stay active and the displayed number is left out; a delete of a
row that is gone is skipped.

Instance: 2 organizations, 2 assistants, 1 phone, 2 commands that may overlap,
from any table that earlier commands can have left.  `LinesInv`: one line to an
organization, an assistant, a phone; where commands did not overlap an assistant
answers for whom it was last given to, and a call that names an assistant is
answered for no other, whatever line its phone has.  `TakenOnlyAsNamed`: an
organization loses its assistant only by a command that names it, or by one that
another overtook.  What overlapping commands can do (a `set_active` or `assign`
that had read a row writes columns back to what they were; a call in progress is
refused once its assistant has moved) is therefore excluded by `mixed` and
`overtaken`, not by the code.

### 8.2 `Backups`

The backup service of one host (`src/docker/backup`).  A dump is three files,
written and deleted one at a time: archive, sidecar, marker.  A cycle prunes
(`Prune`, `Sweep`), dumps if one is due (`PgDump`, `Describe`, `Publish`), plans
and uploads (`Plan`, `CheckLocal`, `Put`, `Verify`), and records its success
(`Finish`); `ScheduledCycle` and `ManualCycle` begin one, under the lock.  It may
die between any two (`CycleDies`, `Stop`, `Start`), files may go bad (`Spoil`),
storage may refuse, be silent or store what it did not acknowledge (`NoStorage`,
`UploadFails`, `Rejected`), and the host may be lost (`LoseHost`, `Migrate`,
`Restore`).  A scheduler that finds an operator's cycle at work looks again, for a
dump that is due (`SchedulerBusy`).

`BACKUP_OFFSITE` is `required`, which `docker-compose.prod.yml:252` pins.  The
other value, `disabled`, is left out: dumps are then pruned by age alone and a
cycle succeeds, and `health` with it, without any off-site copy
(`errs_offsite.py:879,965,994`), so none of what follows holds of it.  A cycle is
short against a unit of the clock.  Names are unique on a host.
Object Lock and the bucket's lifecycle rules, the bookkeeping of multipart
uploads and the SQL of the swap are left out; what is stored off-site does not
rot; `pg_restore` sees that an archive is spoiled.

Instance: 2 dumps, 1 fault, staleness limit and due age 2, time to 6, one more than
a first dump needs to be older than the two together.  `OnlyCopyKept`: a dump that existed is
on the disk or whole off-site unless its host was lost.  `BackupsInv`: types; a
cycle that ends with storage answering throughout leaves no intact dump behind,
also when another has gone bad; while `health` is good there is an off-site copy
not older than the staleness limit plus the age at which a dump is due (health
measures the time of a success, not the age of the copy).  Not run, but true of
the model: `latest` may name a dump of a new, empty database when its
organizations could not be counted (`LatestHoldsTenants`, against
`docs/RUNBOOK.md:642-647`).

### 8.3 `Sessions`

A browser's session: the refresh token in its cookie, and the rows of
`refresh_tokens`.  Tabs share the cookie and do not wait for each other.  A
request is sent (`SendLogin`, `SendRefresh`, `SendLogout`), looks its token up
(`LookUp`), checks the account, writes (`Issue`, `Revoke`) and is answered; it
commits after the response is sent (FastAPI's dependency teardown), so `Commit`
and `Arrive` come in either order, or not at all (`Fails`, `CommitFails`,
`AnswerLost`).  Deactivation is not undone; one tab asks for one refresh at a
time.  Registration, hashing and access tokens are left out.

Instance: 2 requests, 3 tokens, 1 fault.  `SessionsInv`: types; where nothing
was lost and no two requests crossed, the cookie is the one token that works; a
token has two successors only if two requests had it at once.  `LiveCookieKept`:
where no requests cross, a working cookie gives way to nothing, or to a token that
does not work, only by a logout, because the account is not active, or for a token
whose commit failed after it was sent (`Unsaved`).  That last is a fault that signs
somebody out with nothing crossed, although `endpoints/auth.py:150-151` says that a
transient fault must not; no other fault does.  The fork is allowed, too, as the
code has it: one token presented twice at once becomes two sessions (`raced`),
although the model of `refresh_tokens` speaks of detecting reuse.

### 8.4 `Team`

The members of an organization.  A request reads who sent it (`SendChange`), the
target (`ReadTarget`), the others (`Allow`), and writes what differs from what
was read (`Write`, `CommitChange`).  Superusers and the Technician role are left
out.

Instance: 3 members, 4 requests, any number at once.  `TeamInv`: types, and
while no two requests were under way at once an owner remains.
`OnlyOwnersTouchOwners`: whoever becomes or stops being an owner does so by the
request of someone who was an owner when he sent it.  `OwnersLost` (violated):
`LastOwnerError` says that an organization always keeps an active owner; two
owners who step down at once each see the other stay.

### 8.5 `ConversationPanel`

The dashboard's conversation page in one tab (`chat-panel.tsx`, `page.tsx`):
select, load, start, write.  Every request is asked, carried out and answered at
a time of its own; `newest` is the `cancelled` flag of the effect that loads.
Only this tab writes; the history's refresh and the draft are left out; the
server's side of a message is one step, and `transcript` is what it has stored.
A message that the panel takes off its list leaves its place there (`NotPending`),
so that the places of the others do not move; it is shown no more.

Instance: 2 conversations and one started, one a phone call, 2 messages, 2
selections, 1 fault.  `PanelInv`: types; when all is answered and no load
failed, what is shown is what is selected (`ShownIsSelected`), and unless a
message failed or crossed the load it is the whole transcript, each message once
(`TranscriptShown`).  What the exceptions hide is in the code: a failed send
removes every pending message from the panel, answered ones too; a reply brings
the page back to the conversation it is of; a message that crosses its own
conversation's load is shown without its question, or twice; after a failed load
the panel still shows, and writes to, the conversation before.

### 8.6 `Catalogue`

What an organization tells the assistant about itself, and the forms it is
edited in.  A behaviour is about one kind: services, keywords, FAQs, areas,
exceptions, the week, the profile.  A tab loads the rows once (`ReadRows`,
`ShowRows`) and sends changes; a change loads its row (`LoadRow`), inserts,
updates the columns that differ from the row as loaded, or deletes, is answered
and commits after that (`SaveAnswered`, `CommitSave`).  A week is one row, whose
flag says that it is closed and whose value is its times; any other column than
key and flag is one value.  A tab has one change under way at a time.

Instance: 2 tabs, 2 keys, 1 value, 2 rows, 2 changes, 1 fault.  `CatalogueInv`:
types; unique keys stay apart; a row is what the last form that reached it said
as a whole, so that an open day has its times, unless that form was sent past
another (`mixed`); a tab shows what is stored unless it changed behind its back.
What the exceptions hide: two overlapping saves of the week can leave an open
day without times, which the assistant treats as closed; after a failed load the
hours form shows the default week, and saving it overwrites the real one; two
first saves of the hours or the profile at once end one of them in an
IntegrityError; a service deleted between a turn's reading the catalogue and its
write loses the turn's messages.

## 9. Proofs

### 9.1 What is proved

Every theorem is `Spec => ...` for the specification of a module as it stands:
nothing is assumed but what the module's own `ASSUME`s say of its constants
(bounds are naturals, marks are not members of the sets they mark, the founder
is a member, a caller is not a dispatcher), and there
is no bound on calls, requests, workers, members, dumps, attempts, failures or
the length of the clock: the constants that bound runs are any naturals.  Where a
run checks the property, the run shows it on its instance and the theorem for
every instance.

| Module | Theorem | Says of `Spec` |
|---|---|---|
| `EmergencyPagingProofs` | `Inductive`, `TypeCorrect`, `DeadlineKept`, `RecipientPaged`, `BackupIsSecond`, `UnreachableOnlyIfTrue`, `CallsWithinBudget` | `[]IInv`, and its parts one by one |
| | `AcknowledgementStands`, `BackupHasItsWindow`, `CallerIsNotMisled` | the action properties of `Paging` |
| | `Refinement` | paging implements the safety part of `PageLifecycle` |
| `DeskProofs` | `BookingInductive`, `BookingSafe`, `CapacityHolds` | `[]BookingIInv`, and with it `[]BookingInv` and `[]CountedWithinCapacity` |
| | `SearchIsHonest` | `[]SearchAgreesWithBooking` |
| | `ConsentKept` | `[](silent = 0 => HeardBeforeBooked)` |
| | `LinesInductive`, `LinesRouteAsGranted` | `[]LinesIInv`, and with it `[]LinesInv` |
| | `AssistantsTakenAsNamed` | the action property `TakenOnlyAsNamed` |
| `DispatchProofs` | `DispatchInductive`, `DispatchSafe` | `[]DispatchIInv`, and with it `[]DispatchInv` |
| | `ReportedCallOwned` | `[]ReportedCallHasOwner` |
| | `SentOnceUnlessLost` | `[]AlertedAgainOnlyIfLost` |
| `VoiceTurnsProofs` | `VoiceInductive`, `CallInOrder` | `[]VoiceIInv`, and with it `[]VoiceInv` |
| | `NoticeFirst`, `InstructionFirst` | `[]NoticeLeadsWords`, `[]AlarmedCallerInstructed` |
| | `TranscriptRefinement` | the transcript implements `CallTranscript` |
| | `ReplyInductive`, `ReplyIsAsHeard` | `[]ReplyIInv`, and with it `[]ReplyInv` |
| `CallTransferProofs` | `TransferInductive`, `TransferSafe` | `[]TransferIInv`, and with it `[]TransferInv` |
| `CallRecordsProofs` | `UsageInductive`, `BilledAsReported` | `[]UsageIInv`, and with it `[]UsageInv` |
| | `BillIsStable` | the action property `BillStays` |
| | `CustomersInductive`, `CustomersAreSound` | `[]CustomersIInv`, and with it `[]CustomersInv` |
| | `StaffWin`, `WorkKeepsItsCustomer` | the action properties `CorrectionsWin` and `LinksStay` |
| | `IntakeInductive`, `IntakeIsSafe` | `[]IntakeIInv`, and with it `[]IntakeInv` |
| | `IntakeBlanksNothing` | the action property `NothingBlanked` |
| `BackupsProofs` | `BackupsInductive`, `OnlyCopySafe`, `HealthIsEarned` | `[]BackupsIInv`, and with it `[]OnlyCopyKept` and `[]BackupsInv` |
| `OperationsProofs` | `SessionsInductive`, `SessionsAreSound` | `[]SessionsIInv`, and with it `[]SessionsInv` |
| | `CookieThatWorksIsKept` | the action property `LiveCookieKept` |
| | `CatalogueInductive`, `CatalogueIsAsSaid` | `[]CatalogueIInv`, and with it `[]CatalogueInv` |
| | `PanelInductive`, `PanelShowsWhatIsSelected` | `[]PanelIInv`, and with it `[]PanelInv` |
| | `TeamInductive`, `OwnerKept` | `[]TeamIInv`, and with it `[]TeamInv` |
| | `OwnersTouchedByOwners` | the action property `OnlyOwnersTouchOwners` |

Every safety invariant and every action property that a passing run checks is
stated by one of them, but for the one that section 9.3 names.

Each module is laid out alike, one component after the other: the record sets its variables live in, the named
parts of the inductive invariant with a comment each, the initial states, what
several steps have in common, one lemma per action (or per family of actions
that write alike), the step lemma that splits `Next`, the theorems.

### 9.2 Why the invariants need strengthening

* **Paging**: section 3.4.
* **Booking.**  That the visits under way stay within the capacity needs a link
  from the moment of comparing to the moment of writing.  A turn or a request
  that has compared a time has a claim on it (`Claims`, `StaffClaims`); who has a
  claim has the booking lock, which one party has at a time (`OneHolder`); and for
  a claim there is room in the committed table (`RoomForClaims`), because whoever
  writes without the lock can only make visits disappear (`Disappears`).  A turn
  keeps the lock from its first write on, so its claim lasts until its commit.
  Counting (`Cardinality`) needs finite sets: however many calls there may be,
  finitely many have an appointment (`Made`).  Consent is a chain: an offer in the
  table was read out when an earlier turn ended (`OffersHeard`); one in a turn was
  too, or is stamped with this very turn and was found by it (`TurnHeard`), and
  those `select_slot_for_conversation` refuses.  The theorem names the exception
  the run bounds away: a committed turn that nobody heard (`silent`).
* **Dispatch.**  `DispatchInv` speaks of the tables; a commit copies a
  transaction's writes into them.  So the invariant judges writes as they will
  be once committed (`Backed`), and also the writes that the transaction would
  fall back to when its savepoint is rolled back (`saved`).  That a reported call
  has an owner needs to know why the report may rely on the assistant having
  finished: what completes a conversation is the assistant's last turn, which
  has left a ticket or an appointment unless it only answered a question, or an
  earlier report, which has left an owner (`Ended`, `Settled`).  A turn that
  ends a conversation has recorded its outcome by the time it replies
  (`SoundTurn`); a report judges by all that was said, and has settled the call
  when it replies (`SoundReport`).  A turn and a report never hold a ticket at
  once.  The theorem has no exception for turns that are still open.  `Checked`
  keeps what a request of the dashboard relies on: the ticket it looked at is
  still one, and what it moves it to is a status.  That a second acceptance means
  a lost one is a count (`Counts`): a call's acceptances are its lost ones, and one
  more if the alert is delivered or the provider has just taken it from a loop
  that has not recorded it yet; a loop's row is its own (`Sending`).
* **Voice turns.**  Only the holder of the lock writes (`LockHeld`, `Quiet`), so
  what it found when it took the lock is true when it commits (`Holder`, `Fits`).
  What it found rests on the order of arrival: a request that was overtaken
  within its process is never taken for current again, though a process may count
  from the start after a report or a crash (`Arrivals`, `Overtaken`).  What was
  said survives every rollback, so `Wire` relates rows to what is on the wire,
  never the other way round.  For the refinement the same `Fits` is the guard of
  `CallTranscript`'s step.
* **Call transfer.**  The moves are counted in two ways, by what is lost if the
  turn is undone and by what it commits (`Counted`); either may happen next.
  `RowsEnd`, `TalkOnce` and `Ticketed` say of the turn's own copy of the table
  what the property says of the committed one; `Knows` keeps what a transfer has
  read tied to the settings for as long as they do not change.
* **Usage.**  A delivery is about to commit the row as it is, with its report
  merged in, because no two hold the row (`HoldersAlone`) and a holder's copy is
  the row (`Merging`).  So the facts follow the order of the commits, and merging one
  more report keeps what `Gathers` says of it: of each fact the value that was said
  last.  The month is decided by the times alone, and stands where a report gives the
  times there are (`TimesStand`).
* **Backups.**  All rests on what a marker proves (`MarkedIsStored`).  Health
  needs the chain behind a status: the newest dump that a cycle names is on the
  disk and not due (`NewestKnown`), only what is stored is recorded
  (`RecordIsTrue`), and dumps are as old as their names say (`InOrder`).
* **Voice lines.**  Nothing is locked, so a command is judged by what it has read:
  the rows are ones it looked for (`ReadsWhatItSought`), and unless another
  overtook it they are the rows there are (`UpToDate`).  From that follows why it
  may write the line it is about to: it is of its own organization or of the one
  it names, or is to be replaced (`WritesAsNamed`).  The unique columns,
  `CommitLines`' guard, keep `Unique` whatever was overtaken.
* **Customers.**  A sync knows a customer by an id it has looked up or is about to
  insert.  What keeps numbers apart is that an id that is being inserted has a
  number that no stored row, no other sync and no form of staff's has (`Alone`,
  `Apart`), and that staff alone change a number, one form at a time, so that it is
  as the form found it (`GoodEdit`).  A name that is about to be written is still
  open, or the row was saved by another since (`NameOpen`); work is linked where the turn has
  seen it unlinked (`WorkOf`).
* **Intake.**  `Keeps` compares what a turn would commit with what is committed,
  detail by detail: `TurnKeeps` holds in the middle of a turn, when a tool has
  failed or a sync has not run yet, and also if a report opens the ticket
  meanwhile.  `BeganTicketed` is why a turn that saw a ticket books nothing.
* **Sessions.**  `SessionsInv` speaks of what holds while nothing was lost and
  nothing crossed; the invariant says what each request has done, whatever else
  happened (`RequestStage`, `IssuedTo`), who may revoke a token (`HoldsAlone`),
  how two came to have one (`Lineage`), that a request that none crosses holds the
  cookie until it is answered, and if its new token was stored, in place of the old
  one (`Uncrossed`), and where the one session is at every
  point between its commit and its answer, which come in either order (`Story`).
* **Catalogue.**  A change that holds its row holds its key alone
  (`HoldsKeyAlone`), writes what was asked over the row as locked
  (`WritesAsAsked`), and is answered with what will be stored (`AnswersAsStored`);
  what a tab shows is what is stored except for the one row it waits to be told of
  (`Awaited`, `ShowsAsStored`).  `behind` is a set of rows per tab, and the
  invariant has to follow it row by row.
* **Conversation page.**  `PanelInv` speaks of states in which everything is
  answered.  The invariant says what a load has in hand (`GoodLoad`: the
  transcript, unless a message crossed it) and how far the panel is behind the
  transcript while a message is under way (`PanelUpToDate`): by a question, by an
  answer, or not at all.
* **Reply.**  `ReplyInv` judges a turn by all its rounds, the code remembers only
  flags.  `FlagsOfEarlier` says that the flags are what the earlier rounds gave,
  and `EarlierTold`, `EarlierUnheard` and `HeardOfRound` separate the rounds that
  are over from the one that is open: what is still held of its words is not heard.
* **Team.**  Unlocked reads leave a request little to rely on when it commits:
  that the role it takes away is still there (`RolesHeld`), and who sent it
  (`AskedByOwner`).  A request that has been alone so far knows all that it read
  (`AloneKnows`), which is what keeps an owner.

### 9.3 What is only model-checked

* Liveness: `NotificationsSettle`, `ImplementsLifecycleFairly` (its fairness),
  `AlertSettles`, `RequestSettles`, `StaffAnswered`.  They need ENABLED.
* `SpokenAsMeant`: `SpokenField` is recursive over a document of any length,
  which needs induction over data.
* The violation runs: what is refuted is shown by one behaviour.

## 10. What is not modelled

* **Rate limiting and analytics**: no interleaving, nothing stored but counters.
* **What the model is told and how its answers are worded**: prompting
  (`prompt_builder.py`), tool schemas (`domain/ai/tools.py`), parsing of the
  reply, which words are a hazard, the text of announcements, messages and next
  steps.  Their outcomes are open choices.
* **Registration, password hashing, access tokens, superusers, the Technician
  role**: `Sessions` and `Team` begin where an account exists.
* **Technicians and their on-call flag**: who may change a ticket, and a capacity
  that changes while calls are open.
* **The text channel**, which has no call lock; notification settings; the
  association of a caller's own number with a customer; the upsert of the
  model's token counts.
* **Read-only pages of the dashboard** and its queues of tickets, appointments
  and follow-ups.
* **Object Lock and lifecycle rules of the bucket**, multipart bookkeeping, the
  SQL that swaps databases, and a host that keeps no off-site copies
  (`BACKUP_OFFSITE=disabled`).
* **Zones, formats, e-mail, search**: conversions that no property is about.
