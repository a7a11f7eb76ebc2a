--------------------------- MODULE EmergencyPaging ---------------------------
(***************************************************************************)
(* Emergency paging: one page per emergency ticket, one notification row   *)
(* per recipient role and channel, several workers draining the rows.      *)
(*                                                                         *)
(* Every transaction runs at READ COMMITTED.  A transaction that is one    *)
(* statement, or that holds the page row locked from its first read, is    *)
(* one action.  The transaction that records a terminal failure is not: it *)
(* writes its row, reads the page and the sibling rows as they are         *)
(* committed, then writes the page.  It is three actions, its row write    *)
(* kept in the worker until it commits.                                    *)
(*                                                                         *)
(* Time is abstracted to order: a deadline is running, then due.  How long *)
(* a lease, a retry delay or an acknowledgement window lasts is left open, *)
(* so the properties hold for every setting of them.                       *)
(***************************************************************************)
EXTENDS Naturals, FiniteSets

CONSTANTS
  Pages,        \* the emergency tickets that may get a page
  Channels,     \* the channels the product has (text, voice)
  Sms,          \* the channel whose message carries the signed link
  Workers,      \* deliver loops: one poller per process, one per commit hook
  MaxAttempts,  \* PAGING_MAX_ATTEMPTS
  MaxCrashes,   \* bound: how often a worker dies between two of its steps
  NoRow         \* the row of a worker that holds none

ASSUME SmsAssumption == Sms \in Channels
ASSUME AttemptsAssumption == MaxAttempts \in Nat \ {0}
ASSUME CrashesAssumption == MaxCrashes \in Nat

Roles == {"primary", "backup"}
Rows == [page : Pages, role : Roles, channel : Channels]

ASSUME NoRowAssumption == NoRow \notin Rows

-----------------------------------------------------------------------------
PageStatus == {"paging_primary", "paging_backup", "acknowledged", "unresolved"}
Escalating == {"paging_primary", "paging_backup"}
RowStatus == {"queued", "sending", "sent", "retrying", "failed", "canceled"}
Unsent == {"queued", "retrying"}
Claimable == Unsent \union {"sending"}
Terminal == {"sent", "failed", "canceled"}
\* A provider took the message, refused it for good (REJECTED, or no provider
\* is set up), or failed for now.
Outcomes == {"accepted", "rejected", "failed"}
Reasons == {"no_backup_configured", "backup_unreachable", "no_acknowledgement"}

\* A saved configuration, as far as paging reads it.  The Owner may save
\* between any two transactions, so each reads any one of these.
PagingSettings ==
  {s \in [enabled : BOOLEAN, primary : BOOLEAN, backup : BOOLEAN,
          channels : SUBSET Channels] :
     /\ s.enabled => s.primary /\ s.channels # {}
     /\ s.backup => s.primary}

VARIABLES
  page,      \* the emergency_pages table
  notif,     \* the emergency_page_notifications table
  worker,    \* what each worker holds in memory or in an open transaction
  crashes,   \* how many crashes have happened
  calls      \* history: the attempts for which a provider was called

tables == <<page, notif>>
vars == <<page, notif, worker, crashes, calls>>

NoPage == [status |-> "none", deadline |-> "none", escalated |-> FALSE,
           ackBy |-> "none", reason |-> "none"]
NoNotification == [status |-> "absent", attempts |-> 0, next |-> "none"]
Holding(phase, n, attempt) ==
  [phase |-> phase, row |-> n, attempt |-> attempt,
   outcome |-> "none", expected |-> "none"]
Idle == Holding("idle", NoRow, 0)

Init ==
  /\ page = [p \in Pages |-> NoPage]
  /\ notif = [n \in Rows |-> NoNotification]
  /\ worker = [w \in Workers |-> Idle]
  /\ crashes = 0
  /\ calls = [n \in Rows |-> {}]

\* escalate_at, next_attempt_at: NULL, later than now, or not later than now.
Clock == {"none", "running", "due"}

WorkerStates ==
  [phase : {"idle", "sending", "answered", "failing", "surveyed"},
   row : Rows \union {NoRow}, attempt : Nat,
   outcome : Outcomes \union {"none"},
   expected : Escalating \union {"none"}]

PageRecords ==
  [status : PageStatus \union {"none"}, deadline : Clock, escalated : BOOLEAN,
   ackBy : Roles \union {"dashboard", "none"}, reason : Reasons \union {"none"}]

RowRecords ==
  [status : RowStatus \union {"absent"}, attempts : 0..(MaxAttempts + 1),
   next : Clock]

TypeOK ==
  /\ page \in [Pages -> PageRecords]
  /\ notif \in [Rows -> RowRecords]
  /\ worker \in [Workers -> WorkerStates]
  /\ crashes \in Nat
  /\ calls \in [Rows -> SUBSET (Nat \ {0})]

-----------------------------------------------------------------------------
(* Reads.                                                                  *)

RowsOf(p, role) ==
  {n \in Rows : n.page = p /\ n.role = role /\ notif[n].status # "absent"}

\* The rows a transaction sees: the committed ones, and its own failed row.
EveryAttemptFailed(p, role, own) ==
  LET mine == RowsOf(p, role)
  IN  mine # {} /\ \A n \in mine : n \in own \/ notif[n].status = "failed"

CurrentRole(p) ==
  IF page[p].status = "paging_backup" \/ page[p].escalated
  THEN "backup" ELSE "primary"

\* Rows written by a transaction that has not committed.
Locked(n) ==
  \E w \in Workers :
    worker[w].row = n /\ worker[w].phase \in {"failing", "surveyed"}

\* Slip: an expired lease does not make a sending row due again.
DueWithoutLease(n) ==
  /\ notif[n].status \in Unsent
  /\ notif[n].next = "due"
  /\ page[n.page].status # "acknowledged"
  /\ ~Locked(n)

Due(n) ==
  /\ notif[n].status \in Claimable
  /\ notif[n].next = "due"
  /\ page[n.page].status # "acknowledged"
  /\ ~Locked(n)

Queued == [status |-> "queued", attempts |-> 0, next |-> "due"]

\* INSERT ... ON CONFLICT DO NOTHING on (page, role, channel).
AddNotifications(p, role, channels) ==
  notif' = [n \in Rows |->
              IF /\ n.page = p /\ n.role = role /\ n.channel \in channels
                 /\ notif[n].status = "absent"
              THEN Queued ELSE notif[n]]

-----------------------------------------------------------------------------
(* The ticket's transaction.                                               *)

\* Slip: the backup is paged together with the primary.
EnqueueBoth(p) ==
  /\ page[p].status = "none"
  /\ notif' = [n \in Rows |-> IF n.page = p THEN Queued ELSE notif[n]]
  /\ page' = [page EXCEPT ![p] =
               [@ EXCEPT !.status = "paging_primary", !.deadline = "running"]]
  /\ UNCHANGED <<worker, crashes, calls>>

Enqueue(p) ==
  /\ page[p].status = "none"
  /\ \E s \in PagingSettings :
       /\ s.enabled /\ s.primary /\ s.channels # {}
       /\ AddNotifications(p, "primary", s.channels)
  /\ page' = [page EXCEPT ![p] =
               [@ EXCEPT !.status = "paging_primary", !.deadline = "running"]]
  /\ UNCHANGED <<worker, crashes, calls>>

-----------------------------------------------------------------------------
(* Acknowledgement, on the locked page row.  A link reaches a person only  *)
(* inside a text message handed to a provider, and names its role.         *)

HoldsLink(p, role) ==
  \E n \in Rows :
    n.page = p /\ n.role = role /\ n.channel = Sms /\ calls[n] # {}

MayAcknowledge(p, who) ==
  /\ page[p].status # "none"
  /\ who \in Roles => HoldsLink(p, who)

CancelUnsent(p) ==
  notif' = [n \in Rows |->
              IF n.page = p /\ notif[n].status \in Unsent
              THEN [status |-> "canceled", attempts |-> notif[n].attempts,
                    next |-> "none"]
              ELSE notif[n]]

\* Slip: a second acknowledgement overwrites the first.
AcknowledgeAgain(p, who) ==
  /\ MayAcknowledge(p, who)
  /\ page' = [page EXCEPT ![p] =
               [@ EXCEPT !.status = "acknowledged",
                         !.deadline = "none",
                         !.ackBy = who]]
  /\ CancelUnsent(p)
  /\ UNCHANGED <<worker, crashes, calls>>

Acknowledge(p, who) ==
  /\ MayAcknowledge(p, who)
  /\ page[p].status # "acknowledged"
  /\ page' = [page EXCEPT ![p] =
               [@ EXCEPT !.status = "acknowledged",
                         !.deadline = "none",
                         !.ackBy = who]]
  /\ CancelUnsent(p)
  /\ UNCHANGED <<worker, crashes, calls>>

-----------------------------------------------------------------------------
(* A worker sends: claim, commit, call the provider, record.               *)

\* Slip: the attempt is counted when its result is recorded, not when claimed.
ClaimUncounted(w, n) ==
  /\ worker[w] = Idle
  /\ Due(n)
  /\ notif[n].attempts < MaxAttempts
  /\ notif' = [notif EXCEPT ![n] =
                [@ EXCEPT !.status = "sending", !.next = "running"]]
  /\ worker' = [worker EXCEPT ![w] =
                  Holding("sending", n, notif[n].attempts + 1)]
  /\ UNCHANGED <<page, crashes, calls>>

\* A row still within its budget: committed as sending, under a lease.
ClaimNextSend(w, n) ==
  /\ worker[w] = Idle
  /\ Due(n)
  /\ notif[n].attempts < MaxAttempts
  /\ notif' = [notif EXCEPT ![n] =
                 [status |-> "sending", attempts |-> notif[n].attempts + 1,
                  next |-> "running"]]
  /\ worker' = [worker EXCEPT ![w] =
                  Holding("sending", n, notif[n].attempts + 1)]
  /\ UNCHANGED <<page, crashes, calls>>

\* A row whose worker died on the last attempt: closed as worker_lost in the
\* claiming transaction itself, which is still open after this step.
ClaimLost(w, n) ==
  /\ worker[w] = Idle
  /\ Due(n)
  /\ notif[n].attempts >= MaxAttempts
  /\ worker' = [worker EXCEPT ![w] =
                  Holding("failing", n, notif[n].attempts + 1)]
  /\ UNCHANGED <<tables, crashes, calls>>

\* The provider call.  A timeout reads "failed" whether or not the provider
\* took the message, so the history counts the call in every case.
Send(w) ==
  /\ worker[w].phase = "sending"
  /\ \E o \in Outcomes :
       worker' = [worker EXCEPT ![w] =
                   [@ EXCEPT !.phase = "answered", !.outcome = o]]
  /\ calls' = [calls EXCEPT ![worker[w].row] = @ \union {worker[w].attempt}]
  /\ UNCHANGED <<tables, crashes>>

\* Slip: any claim of a row, current or not, may write its result.
AnyClaim(w) == notif[worker[w].row].status # "absent"

\* The fence: only the claim that is still current may write its result.
ClaimIsCurrent(w) ==
  LET n == worker[w].row
  IN  /\ notif[n].status = "sending"
      /\ notif[n].attempts = worker[w].attempt

TookMessage(w) == worker[w].outcome = "accepted"

Retryable(w) ==
  worker[w].outcome = "failed" /\ worker[w].attempt < MaxAttempts

\* The statement that writes a result which ends the transaction.
Finish(w, status, next) ==
  /\ notif' = [notif EXCEPT ![worker[w].row] =
                 [status |-> status, attempts |-> worker[w].attempt,
                  next |-> next]]
  /\ worker' = [worker EXCEPT ![w] = Idle]

\* The lease ran out and the row was claimed again: that result stands.
Superseded(w) ==
  /\ ~ClaimIsCurrent(w)
  /\ worker' = [worker EXCEPT ![w] = Idle]
  /\ UNCHANGED notif

\* A terminal failure is written, and its transaction goes on to look at the
\* page.
FailRow(w) ==
  /\ ClaimIsCurrent(w) /\ ~TookMessage(w) /\ ~Retryable(w)
  /\ worker' = [worker EXCEPT ![w].phase = "failing"]
  /\ UNCHANGED notif

RecordSendResult(w) ==
  /\ worker[w].phase = "answered"
  /\ ~Locked(worker[w].row)
  /\ \/ Superseded(w)
     \/ ClaimIsCurrent(w) /\ TookMessage(w) /\ Finish(w, "sent", "none")
     \/ ClaimIsCurrent(w) /\ Retryable(w) /\ Finish(w, "retrying", "running")
     \/ FailRow(w)
  /\ UNCHANGED <<page, crashes, calls>>

\* _escalate_early_if_unreachable reads the page, then the sibling rows.  A
\* change of page between the two reads cannot change what the rows say of
\* the role, so they are one step.
SurveyRecipient(w) ==
  LET n == worker[w].row
      p == n.page
      unreachable == /\ page[p].status \in Escalating
                     /\ CurrentRole(p) = n.role
                     /\ EveryAttemptFailed(p, n.role, {n})
  IN  /\ worker[w].phase = "failing"
      /\ worker' = [worker EXCEPT ![w] =
           [@ EXCEPT !.phase = "surveyed",
                     !.expected = IF unreachable THEN page[p].status ELSE "none"]]
      /\ UNCHANGED <<tables, crashes, calls>>

\* Slip: the deadline is moved whatever the page has become meanwhile.
BringForwardBlindly(p, expected) ==
  page' = IF expected # "none" /\ page[p].deadline = "running"
          THEN [page EXCEPT ![p].deadline = "due"] ELSE page

BringEscalationForward(p, expected) ==
  page' = IF page[p].status = expected /\ page[p].deadline = "running"
          THEN [page EXCEPT ![p].deadline = "due"] ELSE page

CommitFailure(w) ==
  LET n == worker[w].row
  IN  /\ worker[w].phase = "surveyed"
      /\ notif' = [notif EXCEPT ![n] =
                     [status |-> "failed", attempts |-> worker[w].attempt,
                      next |-> "none"]]
      /\ BringEscalationForward(n.page, worker[w].expected)
      /\ worker' = [worker EXCEPT ![w] = Idle]
      /\ UNCHANGED <<crashes, calls>>

\* The worker dies, or a transaction of its loop raises: what it held in
\* memory is gone and an open transaction is rolled back.
Crash(w) ==
  /\ worker[w].phase # "idle"
  /\ crashes < MaxCrashes
  /\ crashes' = crashes + 1
  /\ worker' = [worker EXCEPT ![w] = Idle]
  /\ UNCHANGED <<tables, calls>>

-----------------------------------------------------------------------------
(* Escalation, on the locked page row.                                     *)

EscalationDue(p) ==
  page[p].status \in Escalating /\ page[p].deadline = "due"

Unresolve(p, reason) ==
  /\ page' = [page EXCEPT ![p] =
               [@ EXCEPT !.status = "unresolved",
                         !.deadline = "none",
                         !.reason = reason]]
  /\ UNCHANGED notif

EscalatePrimary(p) ==
  /\ EscalationDue(p)
  /\ page[p].status = "paging_primary"
  /\ \E s \in PagingSettings :
       IF s.backup /\ s.enabled /\ s.channels # {}
       THEN /\ page' = [page EXCEPT ![p] =
                         [@ EXCEPT !.status = "paging_backup",
                                   !.escalated = TRUE,
                                   !.deadline = "running"]]
            /\ AddNotifications(p, "backup", s.channels)
       ELSE Unresolve(p, "no_backup_configured")
  /\ UNCHANGED <<worker, crashes, calls>>

EscalateBackup(p) ==
  /\ EscalationDue(p)
  /\ page[p].status = "paging_backup"
  /\ Unresolve(p, IF EveryAttemptFailed(p, "backup", {})
                  THEN "backup_unreachable" ELSE "no_acknowledgement")
  /\ UNCHANGED <<worker, crashes, calls>>

-----------------------------------------------------------------------------
(* Time.                                                                   *)

EscalateAtPasses(p) ==
  /\ page[p].deadline = "running"
  /\ page' = [page EXCEPT ![p].deadline = "due"]
  /\ UNCHANGED <<notif, worker, crashes, calls>>

\* A lease runs out, or a retry delay ends.
NextAttemptAtPasses(n) ==
  /\ notif[n].next = "running"
  /\ notif' = [notif EXCEPT ![n].next = "due"]
  /\ UNCHANGED <<page, worker, crashes, calls>>

-----------------------------------------------------------------------------
WorkerStep(w) ==
  \/ \E n \in Rows : ClaimNextSend(w, n) \/ ClaimLost(w, n)
  \/ Send(w)
  \/ RecordSendResult(w)
  \/ SurveyRecipient(w)
  \/ CommitFailure(w)

PageStep(p) ==
  \/ EscalatePrimary(p)
  \/ EscalateBackup(p)
  \/ EscalateAtPasses(p)

Next ==
  \/ \E p \in Pages :
       \/ Enqueue(p)
       \/ \E who \in Roles \union {"dashboard"} : Acknowledge(p, who)
       \/ PageStep(p)
  \/ \E w \in Workers : WorkerStep(w) \/ Crash(w)
  \/ \E n \in Rows : NextAttemptAtPasses(n)

Spec == Init /\ [][Next]_vars

\* Pollers tick until shutdown, a provider call is bounded by a timeout and
\* time passes.  Nobody is bound to acknowledge; no crash is bound to happen.
Fairness ==
  /\ \A w \in Workers : WF_vars(WorkerStep(w))
  /\ \A p \in Pages : WF_vars(PageStep(p))
  /\ \A n \in Rows : WF_vars(NextAttemptAtPasses(n))

FairSpec == Spec /\ Fairness

-----------------------------------------------------------------------------
(* What the assistant may tell the caller (caller_paging_state).           *)

PageRows(p) == {n \in Rows : n.page = p /\ notif[n].status # "absent"}

CallerState(p) ==
  CASE page[p].status = "none" -> "off"
    [] page[p].status = "acknowledged" -> "acknowledged"
    [] OTHER ->
         IF \E n \in PageRows(p) : notif[n].status = "sent" THEN "sent"
         ELSE IF \E n \in PageRows(p) : notif[n].status \notin Terminal
              THEN "queued"
         ELSE IF page[p].status \in Escalating /\ PageRows(p) = {}
              THEN "queued"
         ELSE "failed"

-----------------------------------------------------------------------------
(* Safety.                                                                 *)

\* A page waits on somebody exactly while it has a deadline: escalation can
\* neither lose a page that still waits nor find one that no longer does.
DeadlineIffEscalating ==
  \A p \in Pages : page[p].status \in Escalating <=> page[p].deadline # "none"

\* A page never waits for a recipient for whom it has no notification: the
\* window would run out on somebody who was never going to be paged.
RecipientHasNotification ==
  \A p \in Pages :
    page[p].status \in Escalating => RowsOf(p, CurrentRole(p)) # {}

\* The backup is paged, and can acknowledge by link, only once the page has
\* escalated: an acknowledgement names the person who really had the link.
BackupOnlyAfterEscalation ==
  \A p \in Pages :
    (RowsOf(p, "backup") # {} \/ page[p].ackBy = "backup")
      => page[p].escalated

\* Across lease expiry, re-claims and crashes, a notification costs at most
\* PAGING_MAX_ATTEMPTS provider calls: at most one for each counted attempt.
CallBudget ==
  /\ \A n \in Rows : calls[n] \subseteq 1..MaxAttempts
  /\ \A w \in Workers :
       worker[w].phase = "sending" => worker[w].attempt \notin calls[worker[w].row]

\* "backup_unreachable" is recorded only when every notification to the
\* backup failed outright, whatever the workers were doing at the time.
BackupUnreachableIsTrue ==
  \A p \in Pages :
    page[p].reason = "backup_unreachable"
      => EveryAttemptFailed(p, "backup", {})

\* The first acknowledgement stands: no later acknowledgement, escalation or
\* late send result changes the page row again.
AcknowledgementIsFinal ==
  [][\A p \in Pages :
       page[p].status = "acknowledged" => page'[p] = page[p]]_vars

\* The backup's fresh window is cut short only by the clock, or because the
\* backup cannot be reached: never by a failure to reach the primary that is
\* recorded while the page escalates.
BackupWindowNotCutShort ==
  [][\A p \in Pages :
       (/\ page[p].status = "paging_backup"
        /\ page[p].deadline = "running" /\ page'[p].deadline = "due")
         => (notif' = notif \/ EveryAttemptFailed(p, "backup", {})')]_vars

\* What the caller was told never has to be taken back: a page said to be
\* sent is never again said to be queued or failed, one said to be
\* acknowledged stays so.
CallerNeverToldBack ==
  [][\A p \in Pages :
       /\ CallerState(p) = "sent" => CallerState(p)' \in {"sent", "acknowledged"}
       /\ CallerState(p) = "acknowledged" => CallerState(p)' = "acknowledged"]_vars

\* page.py: the deadline is brought forward when every notification to the
\* current recipient has failed outright.
UnreachableIsBroughtForward ==
  \A p \in Pages :
    (/\ page[p].status \in Escalating
     /\ EveryAttemptFailed(p, CurrentRole(p), {}))
      => page[p].deadline = "due"

\* RUNBOOK: a crash can cause a duplicate page, never a lost one.
FailedWasTried ==
  \A n \in Rows : notif[n].status = "failed" => calls[n] # {}

-----------------------------------------------------------------------------
(* The inductive invariant: what has to be true of each table, and of what *)
(* the workers hold, for the safety properties to survive every step.      *)

PageConsistent ==
  \A p \in Pages :
    /\ page[p].status \in Escalating <=> page[p].deadline # "none"
    /\ page[p].status \in {"none", "paging_primary"} => ~page[p].escalated
    /\ page[p].status = "paging_backup" => page[p].escalated
    /\ page[p].ackBy = "backup" => page[p].escalated
    /\ page[p].reason = "backup_unreachable"
         => page[p].status \in {"unresolved", "acknowledged"}

RowConsistent ==
  \A n \in Rows :
    /\ notif[n].status # "absent" => page[n.page].status # "none"
    /\ notif[n].status # "absent" /\ n.role = "backup" => page[n.page].escalated
    /\ notif[n].status = "absent" => notif[n].attempts = 0
    /\ notif[n].status \in Unsent => notif[n].attempts < MaxAttempts
    /\ notif[n].attempts > MaxAttempts => notif[n].status = "failed"
    /\ calls[n] \subseteq 1..notif[n].attempts
    /\ calls[n] \subseteq 1..MaxAttempts

Writing(w) == worker[w].phase \in {"failing", "surveyed"}

\* A claim in flight is one of the row's counted attempts, and has made no
\* call yet; a transaction that is failing a row still finds it sending.
ClaimConsistent ==
  \A w \in Workers :
    LET n == worker[w].row
        a == worker[w].attempt
    IN  /\ worker[w].phase = "idle" <=> n = NoRow
        /\ worker[w].phase \in {"sending", "answered"} =>
             /\ a \in 1..MaxAttempts
             /\ a <= notif[n].attempts
        /\ worker[w].phase = "sending" => a \notin calls[n]
        /\ Writing(w) =>
             /\ notif[n].status = "sending"
             /\ a \in notif[n].attempts..(MaxAttempts + 1)

\* No two claims of a row share an attempt, no two transactions write a row.
ClaimsDistinct ==
  \A v, w \in Workers :
    worker[v].row = worker[w].row /\ v # w =>
      /\ worker[v].phase = "sending" /\ worker[w].phase = "sending"
           => worker[v].attempt # worker[w].attempt
      /\ ~(Writing(v) /\ Writing(w))

\* What a transaction saw of the backup's rows stays true until it commits.
SurveyStands ==
  \A w \in Workers :
    LET n == worker[w].row
    IN  worker[w].phase = "surveyed" /\ worker[w].expected = "paging_backup" =>
          /\ page[n.page].escalated
          /\ n.role = "backup"
          /\ EveryAttemptFailed(n.page, "backup", {n})

IInv ==
  /\ TypeOK
  /\ PageConsistent
  /\ RowConsistent
  /\ ClaimConsistent
  /\ ClaimsDistinct
  /\ SurveyStands
  /\ RecipientHasNotification
  /\ BackupUnreachableIsTrue

-----------------------------------------------------------------------------
(* Liveness, under FairSpec.                                               *)

\* Every notification reaches a terminal state although workers die while
\* they hold it, unless its page is acknowledged first.
NotificationsSettle ==
  \A n \in Rows :
    notif[n].status # "absent"
      ~> (notif[n].status \in Terminal \/ page[n.page].status = "acknowledged")

-----------------------------------------------------------------------------
(* Refinement: what of all this a page's own life shows.                   *)

StatusOf == [p \in Pages |-> page[p].status]

ReachedRoles(p) ==
  {r \in Roles : \E n \in Rows : n.page = p /\ n.role = r /\ calls[n] # {}}

Lifecycle ==
  INSTANCE PageLifecycle WITH
    status <- StatusOf, reached <- [p \in Pages |-> ReachedRoles(p)]

\* Paging keeps the promise PageLifecycle states.
ImplementsLifecycle == Lifecycle!Spec

\* It keeps it to the end: a page neither hangs with the primary nor with the
\* backup.
ImplementsLifecycleFairly == Lifecycle!FairSpec
=============================================================================
