----------------------- MODULE EmergencyPagingProofs -----------------------
(***************************************************************************)
(* IInv is inductive; the safety properties of EmergencyPaging follow from *)
(* it for any number of pages, channels, workers, attempts and crashes.    *)
(*                                                                         *)
(* Each lemma about an action first says what the action does to each      *)
(* table, with the types of what it writes, and then takes the conjuncts   *)
(* of IInv one by one from those facts.                                    *)
(***************************************************************************)
EXTENDS EmergencyPaging, TLAPS

USE SmsAssumption, AttemptsAssumption, CrashesAssumption, NoRowAssumption

-----------------------------------------------------------------------------
(* Initial states.                                                         *)

LEMMA IdleState ==
  /\ Idle \in WorkerStates
  /\ Idle.phase = "idle" /\ Idle.row = NoRow
BY DEF Idle, Holding, WorkerStates

LEMMA InitIInv == Init => IInv
<1> SUFFICES ASSUME Init PROVE IInv
  OBVIOUS
<1>1. TypeOK
  <2>1. NoPage \in PageRecords
    BY DEF NoPage, PageRecords, Clock
  <2>2. NoNotification \in RowRecords
    BY DEF NoNotification, RowRecords, Clock
  <2>3. QED BY <2>1, <2>2, IdleState DEF Init, TypeOK
<1>2. PageConsistent
  BY DEF Init, PageConsistent, NoPage, Escalating
<1>3. RowConsistent
  BY DEF Init, RowConsistent, NoNotification, Unsent
<1>4. ClaimConsistent /\ ClaimsDistinct /\ SurveyStands
  BY IdleState
     DEF Init, ClaimConsistent, ClaimsDistinct, SurveyStands, Writing
<1>5. RecipientHasNotification /\ BackupUnreachableIsTrue
  BY DEF Init, RecipientHasNotification, BackupUnreachableIsTrue, NoPage,
         Escalating
<1>6. QED BY <1>1, <1>2, <1>3, <1>4, <1>5 DEF IInv

-----------------------------------------------------------------------------
(* The ticket's transaction, acknowledgement, escalation.                  *)

LEMMA AddNotificationsEffect ==
  ASSUME TypeOK, NEW p \in Pages, NEW role \in Roles,
         NEW channels \in SUBSET Channels, AddNotifications(p, role, channels)
  PROVE  /\ notif' \in [Rows -> RowRecords]
         /\ \A n \in Rows :
              \/ notif'[n] = notif[n]
              \/ /\ n.page = p /\ n.role = role /\ notif[n].status = "absent"
                 /\ notif'[n].status = "queued" /\ notif'[n].attempts = 0
         /\ \A q \in Pages, r \in Roles : RowsOf(q, r) \subseteq RowsOf(q, r)'
         /\ channels # {} => RowsOf(p, role)' # {}
<1>1. Queued \in RowRecords /\ Queued.status = "queued" /\ Queued.attempts = 0
  BY DEF Queued, RowRecords, RowStatus, Clock
<1>2. \A n \in Rows :
        \/ notif'[n] = notif[n]
        \/ /\ n.page = p /\ n.role = role /\ notif[n].status = "absent"
           /\ notif'[n] = Queued
  BY DEF AddNotifications
<1>3. notif' \in [Rows -> RowRecords]
  BY <1>1 DEF AddNotifications, TypeOK
<1>4. \A q \in Pages, r \in Roles : RowsOf(q, r) \subseteq RowsOf(q, r)'
  BY <1>1, <1>2 DEF RowsOf
<1>5. ASSUME channels # {} PROVE RowsOf(p, role)' # {}
  <2>1. PICK c \in channels : c \in Channels
    BY <1>5
  <2> DEFINE n == [page |-> p, role |-> role, channel |-> c]
  <2>2. n \in Rows /\ n.page = p /\ n.role = role /\ n.channel = c
    BY <2>1 DEF Rows
  <2>3. notif'[n].status # "absent"
    BY <1>1, <2>1, <2>2 DEF AddNotifications
  <2>4. n \in RowsOf(p, role)'
    BY <2>2, <2>3 DEF RowsOf
  <2>5. QED BY <2>4
<1>6. QED BY <1>1, <1>2, <1>3, <1>4, <1>5

LEMMA EnqueueIInv ==
  ASSUME IInv, NEW p \in Pages, Enqueue(p)
  PROVE  IInv'
<1>1. PICK s \in PagingSettings :
        s.channels # {} /\ AddNotifications(p, "primary", s.channels)
  BY DEF Enqueue
<1>2. TypeOK /\ s.channels \in SUBSET Channels /\ "primary" \in Roles
  BY DEF IInv, PagingSettings, Roles
<1>3. /\ notif' \in [Rows -> RowRecords]
      /\ \A n \in Rows :
           \/ notif'[n] = notif[n]
           \/ /\ n.page = p /\ n.role = "primary" /\ notif[n].status = "absent"
              /\ notif'[n].status = "queued" /\ notif'[n].attempts = 0
      /\ \A q \in Pages, r \in Roles : RowsOf(q, r) \subseteq RowsOf(q, r)'
      /\ RowsOf(p, "primary")' # {}
  BY <1>1, <1>2, AddNotificationsEffect
<1>4. /\ page[p].status = "none" /\ ~page[p].escalated
      /\ page[p].ackBy # "backup" /\ page[p].reason # "backup_unreachable"
  BY DEF Enqueue, IInv, PageConsistent, Escalating
<1>5. /\ page' \in [Pages -> PageRecords]
      /\ \A q \in Pages : q # p => page'[q] = page[q]
      /\ page'[p].status = "paging_primary" /\ page'[p].deadline = "running"
      /\ page'[p].escalated = page[p].escalated
      /\ page'[p].ackBy = page[p].ackBy /\ page'[p].reason = page[p].reason
  <2> page[p] \in PageRecords
    BY <1>2 DEF TypeOK
  <2>1. [page[p] EXCEPT !.status = "paging_primary", !.deadline = "running"]
          \in PageRecords
    BY DEF PageRecords, PageStatus, Clock
  <2>2. page' = [page EXCEPT ![p] =
          [page[p] EXCEPT !.status = "paging_primary", !.deadline = "running"]]
    BY DEF Enqueue
  <2>3. QED BY <1>2, <2>1, <2>2 DEF TypeOK, PageRecords
<1>6. worker' = worker /\ calls' = calls /\ crashes' = crashes
  BY DEF Enqueue
<1>7. \A n \in Rows : n.page \in Pages /\ n.role \in Roles
  BY DEF Rows
<1>8. TypeOK'
  BY <1>2, <1>3, <1>5, <1>6 DEF TypeOK
<1>9. PageConsistent'
  BY <1>4, <1>5 DEF IInv, PageConsistent, Escalating
<1>10. RowConsistent'
  BY <1>2, <1>3, <1>5, <1>6, <1>7 DEF IInv, RowConsistent, TypeOK, RowRecords, Unsent
<1>11. ClaimConsistent'
  BY <1>3, <1>6 DEF IInv, ClaimConsistent, RowConsistent, Writing, TypeOK, WorkerStates, RowRecords
<1>12. ClaimsDistinct'
  BY <1>6 DEF IInv, ClaimsDistinct, Writing
<1>13. SurveyStands'
  BY <1>2, <1>3, <1>5, <1>6, <1>7
     DEF IInv, SurveyStands, EveryAttemptFailed, RowsOf, TypeOK, WorkerStates
<1>14. RecipientHasNotification'
  BY <1>3, <1>4, <1>5 DEF IInv, RecipientHasNotification, CurrentRole, Roles
<1>15. BackupUnreachableIsTrue'
  BY <1>3, <1>4, <1>5, <1>7 DEF IInv, BackupUnreachableIsTrue, EveryAttemptFailed, RowsOf
<1>16. QED BY <1>8, <1>9, <1>10, <1>11, <1>12, <1>13, <1>14, <1>15 DEF IInv

LEMMA UnresolveIInv ==
  ASSUME IInv, NEW p \in Pages, NEW reason \in Reasons,
         page[p].status \in Escalating,
         reason = "backup_unreachable" => EveryAttemptFailed(p, "backup", {}),
         Unresolve(p, reason), UNCHANGED <<worker, crashes, calls>>
  PROVE  IInv'
<1>1. TypeOK /\ notif' = notif /\ worker' = worker /\ calls' = calls
      /\ crashes' = crashes
  BY DEF IInv, Unresolve
<1>2. /\ page' \in [Pages -> PageRecords]
      /\ \A q \in Pages : q # p => page'[q] = page[q]
      /\ page'[p].status = "unresolved" /\ page'[p].deadline = "none"
      /\ page'[p].escalated = page[p].escalated
      /\ page'[p].ackBy = page[p].ackBy /\ page'[p].reason = reason
  <2> page[p] \in PageRecords
    BY <1>1 DEF TypeOK
  <2>1. [page[p] EXCEPT !.status = "unresolved", !.deadline = "none",
                        !.reason = reason] \in PageRecords
    BY DEF PageRecords, PageStatus, Clock
  <2>2. QED BY <1>1, <2>1 DEF Unresolve, TypeOK, PageRecords
<1>3. \A n \in Rows : n.page \in Pages /\ n.role \in Roles
  BY DEF Rows
<1>4. \A q \in Pages, role \in Roles : RowsOf(q, role)' = RowsOf(q, role)
  BY <1>1 DEF RowsOf
<1>5. TypeOK'
  BY <1>1, <1>2 DEF TypeOK
<1>6. PageConsistent'
  BY <1>2 DEF IInv, PageConsistent, Escalating
<1>7. RowConsistent'
  BY <1>1, <1>2, <1>3 DEF IInv, RowConsistent
<1>8. ClaimConsistent' /\ ClaimsDistinct'
  BY <1>1 DEF IInv, ClaimConsistent, ClaimsDistinct, Writing
<1>9. SurveyStands'
  BY <1>1, <1>2, <1>3
     DEF IInv, SurveyStands, EveryAttemptFailed, RowsOf, ClaimConsistent, TypeOK,
         WorkerStates
<1>10. RecipientHasNotification'
  BY <1>1, <1>2, <1>4
     DEF IInv, RecipientHasNotification, CurrentRole, Escalating, Roles
<1>11. BackupUnreachableIsTrue'
  BY <1>1, <1>2, <1>4
     DEF IInv, BackupUnreachableIsTrue, EveryAttemptFailed, Roles
<1>12. QED
  BY <1>5, <1>6, <1>7, <1>8, <1>9, <1>10, <1>11 DEF IInv

LEMMA EscalateBackupIInv ==
  ASSUME IInv, NEW p \in Pages, EscalateBackup(p)
  PROVE  IInv'
<1>1. CASE EveryAttemptFailed(p, "backup", {})
  BY <1>1, UnresolveIInv DEF EscalateBackup, EscalationDue, Reasons
<1>2. CASE ~EveryAttemptFailed(p, "backup", {})
  BY <1>2, UnresolveIInv DEF EscalateBackup, EscalationDue, Reasons
<1>3. QED BY <1>1, <1>2

LEMMA EscalatePrimaryIInv ==
  ASSUME IInv, NEW p \in Pages, EscalatePrimary(p)
  PROVE  IInv'
<1>1. CASE Unresolve(p, "no_backup_configured")
  BY <1>1, UnresolveIInv DEF EscalatePrimary, EscalationDue, Reasons
<1>2. ASSUME NEW s \in PagingSettings, s.channels # {},
             page' = [page EXCEPT ![p] =
                       [page[p] EXCEPT !.status = "paging_backup",
                                       !.escalated = TRUE,
                                       !.deadline = "running"]],
             AddNotifications(p, "backup", s.channels)
      PROVE  IInv'
  <2>1. TypeOK /\ s.channels \in SUBSET Channels /\ "backup" \in Roles
    BY DEF IInv, PagingSettings, Roles
  <2>2. /\ notif' \in [Rows -> RowRecords]
        /\ \A n \in Rows :
             \/ notif'[n] = notif[n]
             \/ /\ n.page = p /\ n.role = "backup" /\ notif[n].status = "absent"
                /\ notif'[n].status = "queued" /\ notif'[n].attempts = 0
        /\ \A q \in Pages, r \in Roles : RowsOf(q, r) \subseteq RowsOf(q, r)'
        /\ RowsOf(p, "backup")' # {}
    BY <1>2, <2>1, AddNotificationsEffect
  <2>3. /\ page[p].status = "paging_primary" /\ ~page[p].escalated
        /\ page[p].ackBy # "backup" /\ page[p].reason # "backup_unreachable"
    BY DEF EscalatePrimary, IInv, PageConsistent
  <2>4. /\ page' \in [Pages -> PageRecords]
        /\ \A q \in Pages : q # p => page'[q] = page[q]
        /\ page'[p].status = "paging_backup" /\ page'[p].deadline = "running"
        /\ page'[p].escalated = TRUE
        /\ page'[p].ackBy = page[p].ackBy /\ page'[p].reason = page[p].reason
    <3> page[p] \in PageRecords
      BY <2>1 DEF TypeOK
    <3>1. [page[p] EXCEPT !.status = "paging_backup", !.escalated = TRUE,
                          !.deadline = "running"] \in PageRecords
      BY DEF PageRecords, PageStatus, Clock
    <3>2. QED BY <1>2, <2>1, <3>1 DEF TypeOK, PageRecords
  <2>5. worker' = worker /\ calls' = calls /\ crashes' = crashes
    BY DEF EscalatePrimary
  <2>6. \A n \in Rows : n.page \in Pages /\ n.role \in Roles
    BY DEF Rows
  <2>7. TypeOK'
    BY <2>1, <2>2, <2>4, <2>5 DEF TypeOK
  <2>8. PageConsistent'
    BY <2>3, <2>4 DEF IInv, PageConsistent, Escalating
  <2>9. RowConsistent'
    BY <2>1, <2>2, <2>4, <2>5, <2>6
       DEF IInv, RowConsistent, TypeOK, RowRecords, Unsent
  <2>10. ClaimConsistent'
    BY <2>2, <2>5
       DEF IInv, ClaimConsistent, RowConsistent, Writing, TypeOK, WorkerStates,
           RowRecords
  <2>11. ClaimsDistinct'
    BY <2>5 DEF IInv, ClaimsDistinct, Writing
  <2>12. SurveyStands'
    <3> SUFFICES ASSUME NEW w \in Workers, worker[w].phase = "surveyed",
                        worker[w].expected = "paging_backup"
                 PROVE  LET n == worker[w].row
                        IN  /\ page'[n.page].escalated
                            /\ n.role = "backup"
                            /\ EveryAttemptFailed(n.page, "backup", {n})'
      BY <2>5 DEF SurveyStands
    <3> DEFINE n == worker[w].row
    <3>1. /\ n \in Rows /\ page[n.page].escalated /\ n.role = "backup"
          /\ EveryAttemptFailed(n.page, "backup", {n})
      BY <2>1 DEF IInv, SurveyStands, ClaimConsistent, TypeOK, WorkerStates
    <3>2. n.page # p
      BY <2>3, <3>1
    <3>3. \A m \in Rows : m.page = n.page => notif'[m] = notif[m]
      BY <2>2, <3>2
    <3>4. QED
      BY <2>4, <2>5, <2>6, <3>1, <3>2, <3>3 DEF EveryAttemptFailed, RowsOf
  <2>13. RecipientHasNotification'
    BY <2>2, <2>3, <2>4 DEF IInv, RecipientHasNotification, CurrentRole, Roles
  <2>14. BackupUnreachableIsTrue'
    BY <2>2, <2>3, <2>4, <2>6
       DEF IInv, BackupUnreachableIsTrue, EveryAttemptFailed, RowsOf
  <2>15. QED
    BY <2>7, <2>8, <2>9, <2>10, <2>11, <2>12, <2>13, <2>14 DEF IInv
<1>3. QED BY <1>1, <1>2 DEF EscalatePrimary

LEMMA AcknowledgeIInv ==
  ASSUME IInv, NEW p \in Pages, NEW who \in Roles \union {"dashboard"},
         Acknowledge(p, who)
  PROVE  IInv'
<1>1. TypeOK /\ worker' = worker /\ calls' = calls /\ crashes' = crashes
  BY DEF IInv, Acknowledge
<1>2. /\ page' \in [Pages -> PageRecords]
      /\ \A q \in Pages : q # p => page'[q] = page[q]
      /\ page'[p].status = "acknowledged" /\ page'[p].deadline = "none"
      /\ page'[p].escalated = page[p].escalated
      /\ page'[p].ackBy = who /\ page'[p].reason = page[p].reason
  <2> page[p] \in PageRecords
    BY <1>1 DEF TypeOK
  <2>1. who \in Roles \union {"dashboard", "none"}
    OBVIOUS
  <2>2. [page[p] EXCEPT !.status = "acknowledged", !.deadline = "none",
                        !.ackBy = who] \in PageRecords
    BY <2>1 DEF PageRecords, PageStatus, Clock
  <2>3. QED BY <1>1, <2>2 DEF Acknowledge, TypeOK, PageRecords
<1>3. /\ notif' \in [Rows -> RowRecords]
      /\ \A n \in Rows :
           \/ notif'[n] = notif[n]
           \/ /\ notif[n].status \in Unsent /\ notif'[n].status = "canceled"
              /\ notif'[n].attempts = notif[n].attempts
  <2>1. ASSUME NEW n \in Rows
        PROVE  [status |-> "canceled", attempts |-> notif[n].attempts,
                next |-> "none"] \in RowRecords
    BY <1>1 DEF TypeOK, RowRecords, RowStatus, Clock
  <2>2. QED BY <1>1, <2>1 DEF Acknowledge, CancelUnsent, TypeOK
<1>4. \A q \in Pages, role \in Roles : RowsOf(q, role)' = RowsOf(q, role)
  BY <1>3 DEF RowsOf, Unsent
<1>5. \A n \in Rows : n.page \in Pages /\ n.role \in Roles
  BY DEF Rows
<1>6. /\ page[p].status # "none"
      /\ who = "backup" => page[p].escalated
  <2>1. ASSUME who = "backup"
        PROVE  \E n \in Rows : n.page = p /\ n.role = "backup" /\ calls[n] # {}
    BY <2>1 DEF Acknowledge, MayAcknowledge, HoldsLink, Roles
  <2>2. ASSUME NEW n \in Rows, n.page = p, n.role = "backup", calls[n] # {}
        PROVE  page[p].escalated
    BY <2>2 DEF IInv, TypeOK, RowRecords, RowConsistent
  <2>3. QED BY <2>1, <2>2 DEF Acknowledge, MayAcknowledge
<1>7. TypeOK'
  BY <1>1, <1>2, <1>3 DEF TypeOK
<1>8. PageConsistent'
  BY <1>2, <1>6 DEF IInv, PageConsistent, Escalating
<1>9. RowConsistent'
  BY <1>1, <1>2, <1>3, <1>5 DEF IInv, RowConsistent, Unsent
<1>10. ClaimConsistent'
  BY <1>1, <1>3 DEF IInv, ClaimConsistent, Writing, TypeOK, WorkerStates, Unsent
<1>11. ClaimsDistinct'
  BY <1>1 DEF IInv, ClaimsDistinct, Writing
<1>12. SurveyStands'
  <2>1. \A n \in Rows :
          /\ page[n.page].escalated => page'[n.page].escalated
          /\ notif'[n].status = "absent" <=> notif[n].status = "absent"
          /\ notif[n].status = "failed" => notif'[n].status = "failed"
    BY <1>2, <1>3, <1>5 DEF Unsent
  <2>2. \A w \in Workers : worker[w].phase = "surveyed" => worker[w].row \in Rows
    BY <1>1 DEF IInv, ClaimConsistent, TypeOK, WorkerStates
  <2>3. QED
    BY <1>1, <2>1, <2>2 DEF IInv, SurveyStands, EveryAttemptFailed, RowsOf
<1>13. RecipientHasNotification'
  BY <1>2, <1>4 DEF IInv, RecipientHasNotification, CurrentRole, Escalating, Roles
<1>14. BackupUnreachableIsTrue'
  BY <1>2, <1>3, <1>4
     DEF IInv, BackupUnreachableIsTrue, EveryAttemptFailed, RowsOf, Roles, Unsent
<1>15. QED
  BY <1>7, <1>8, <1>9, <1>10, <1>11, <1>12, <1>13, <1>14 DEF IInv

LEMMA EscalateAtPassesIInv ==
  ASSUME IInv, NEW p \in Pages, EscalateAtPasses(p)
  PROVE  IInv'
<1>1. /\ page' \in [Pages -> PageRecords]
      /\ \A q \in Pages : q # p => page'[q] = page[q]
      /\ page[p].deadline = "running" /\ page'[p].deadline = "due"
      /\ page'[p].status = page[p].status
      /\ page'[p].escalated = page[p].escalated
      /\ page'[p].ackBy = page[p].ackBy /\ page'[p].reason = page[p].reason
  <2> page[p] \in PageRecords
    BY DEF IInv, TypeOK
  <2>1. [page[p] EXCEPT !.deadline = "due"] \in PageRecords
    BY DEF PageRecords, Clock
  <2>2. QED BY <2>1 DEF EscalateAtPasses, IInv, TypeOK, PageRecords
<1>2. /\ notif' = notif /\ worker' = worker /\ calls' = calls /\ crashes' = crashes
  BY DEF EscalateAtPasses
<1>3. \A n \in Rows : n.page \in Pages /\ n.role \in Roles
  BY DEF Rows
<1>4. TypeOK'
  BY <1>1, <1>2 DEF IInv, TypeOK
<1>5. PageConsistent'
  BY <1>1 DEF IInv, PageConsistent, Escalating
<1>6. RowConsistent'
  BY <1>1, <1>2, <1>3 DEF IInv, RowConsistent
<1>7. ClaimConsistent' /\ ClaimsDistinct'
  BY <1>2 DEF IInv, ClaimConsistent, ClaimsDistinct, Writing
<1>8. SurveyStands'
  BY <1>1, <1>2, <1>3
     DEF IInv, SurveyStands, EveryAttemptFailed, RowsOf, ClaimConsistent, TypeOK,
         WorkerStates
<1>9. RecipientHasNotification' /\ BackupUnreachableIsTrue'
  BY <1>1, <1>2
     DEF IInv, RecipientHasNotification, BackupUnreachableIsTrue,
         EveryAttemptFailed, RowsOf, CurrentRole
<1>10. QED BY <1>4, <1>5, <1>6, <1>7, <1>8, <1>9 DEF IInv

-----------------------------------------------------------------------------
(* The workers.                                                            *)

LEMMA ClaimNextSendIInv ==
  ASSUME IInv, NEW w \in Workers, NEW n \in Rows, ClaimNextSend(w, n)
  PROVE  IInv'
<1> DEFINE a == notif[n].attempts + 1
<1>1. TypeOK /\ page' = page /\ calls' = calls /\ crashes' = crashes
  BY DEF IInv, ClaimNextSend
<1>2. /\ notif[n] \in RowRecords /\ n # NoRow
      /\ a \in 1..MaxAttempts /\ a \notin calls[n]
      /\ notif[n].status \in Claimable
  BY <1>1 DEF IInv, TypeOK, RowRecords, RowConsistent, ClaimNextSend, Due
<1>3. /\ notif' \in [Rows -> RowRecords]
      /\ \A m \in Rows : m # n => notif'[m] = notif[m]
      /\ notif'[n].status = "sending" /\ notif'[n].attempts = a
  <2>1. [status |-> "sending", attempts |-> a, next |-> "running"] \in RowRecords
    BY <1>2 DEF RowRecords, RowStatus, Clock
  <2>2. QED BY <1>1, <2>1 DEF ClaimNextSend, TypeOK
<1>4. /\ worker' \in [Workers -> WorkerStates]
      /\ \A v \in Workers : v # w => worker'[v] = worker[v]
      /\ worker'[w].phase = "sending"
      /\ worker'[w].row = n /\ worker'[w].attempt = a
  <2>1. /\ Holding("sending", n, a) \in WorkerStates
        /\ Holding("sending", n, a).phase = "sending"
        /\ Holding("sending", n, a).row = n /\ Holding("sending", n, a).attempt = a
    BY <1>2 DEF Holding, WorkerStates
  <2>2. QED BY <1>1, <2>1 DEF ClaimNextSend, TypeOK
<1>5. \A v \in Workers : worker[v].row = n => ~Writing(v)
  BY DEF ClaimNextSend, Due, Locked, Writing
<1>6. \A v \in Workers : worker[v].phase # "idle" => worker[v].row \in Rows
  BY <1>1 DEF IInv, ClaimConsistent, TypeOK, WorkerStates
<1>7. \A q \in Pages, role \in Roles : RowsOf(q, role)' = RowsOf(q, role)
  BY <1>2, <1>3 DEF RowsOf, Claimable, Unsent
<1>8. \A m \in Rows : notif[m].status = "failed" => notif'[m] = notif[m]
  BY <1>2, <1>3 DEF Claimable, Unsent
<1>9. TypeOK'
  BY <1>1, <1>3, <1>4 DEF TypeOK
<1>10. PageConsistent'
  BY <1>1 DEF IInv, PageConsistent
<1>11. RowConsistent'
  BY <1>1, <1>2, <1>3
     DEF IInv, RowConsistent, Unsent, Claimable, TypeOK, RowRecords
<1>12. ClaimConsistent'
  <2>1. ASSUME NEW v \in Workers, v # w, worker[v].row = n
        PROVE  /\ worker[v].phase \in {"sending", "answered"} =>
                    worker[v].attempt \in 1..MaxAttempts /\ worker[v].attempt <= a
               /\ ~Writing(v) /\ worker[v].phase # "idle"
    BY <1>1, <1>2, <1>5, <2>1
       DEF IInv, ClaimConsistent, TypeOK, RowRecords, WorkerStates
  <2>2. QED
    BY <1>1, <1>2, <1>3, <1>4, <1>6, <2>1 DEF IInv, ClaimConsistent, Writing
<1>13. ClaimsDistinct'
  <2>1. ASSUME NEW v \in Workers, worker[v].row = n, worker[v].phase = "sending"
        PROVE  worker[v].attempt # a
    BY <1>1, <1>2, <2>1 DEF IInv, ClaimConsistent, TypeOK, RowRecords, WorkerStates
  <2>2. QED BY <1>4, <1>5, <2>1 DEF IInv, ClaimsDistinct, Writing
<1>14. SurveyStands'
  BY <1>1, <1>4, <1>6, <1>7, <1>8
     DEF IInv, SurveyStands, EveryAttemptFailed, RowsOf, Rows, Roles
<1>15. RecipientHasNotification' /\ BackupUnreachableIsTrue'
  BY <1>1, <1>7, <1>8
     DEF IInv, RecipientHasNotification, BackupUnreachableIsTrue,
         EveryAttemptFailed, RowsOf, CurrentRole, Roles
<1>16. QED
  BY <1>9, <1>10, <1>11, <1>12, <1>13, <1>14, <1>15 DEF IInv

LEMMA ClaimLostIInv ==
  ASSUME IInv, NEW w \in Workers, NEW n \in Rows, ClaimLost(w, n)
  PROVE  IInv'
<1> DEFINE a == notif[n].attempts + 1
<1>1. /\ TypeOK
      /\ page' = page /\ notif' = notif /\ calls' = calls /\ crashes' = crashes
  BY DEF IInv, ClaimLost, tables
<1>2. /\ notif[n] \in RowRecords /\ n # NoRow
      /\ notif[n].status = "sending" /\ a \in Nat
      /\ a \in notif[n].attempts..(MaxAttempts + 1)
  BY <1>1 DEF IInv, TypeOK, RowRecords, RowConsistent, ClaimLost, Due, Claimable,
         Unsent
<1>3. /\ worker' \in [Workers -> WorkerStates]
      /\ \A v \in Workers : v # w => worker'[v] = worker[v]
      /\ worker'[w].phase = "failing"
      /\ worker'[w].row = n /\ worker'[w].attempt = a
  <2>1. /\ Holding("failing", n, a) \in WorkerStates
        /\ Holding("failing", n, a).phase = "failing"
        /\ Holding("failing", n, a).row = n /\ Holding("failing", n, a).attempt = a
    BY <1>2 DEF Holding, WorkerStates
  <2>2. QED BY <1>1, <2>1 DEF ClaimLost, TypeOK
<1>4. \A v \in Workers : worker[v].row = n => ~Writing(v)
  BY DEF ClaimLost, Due, Locked, Writing
<1>5. TypeOK'
  BY <1>1, <1>3 DEF TypeOK
<1>6. PageConsistent' /\ RowConsistent'
  BY <1>1 DEF IInv, PageConsistent, RowConsistent
<1>7. ClaimConsistent'
  BY <1>1, <1>2, <1>3 DEF IInv, ClaimConsistent, Writing
<1>8. ClaimsDistinct'
  BY <1>3, <1>4 DEF IInv, ClaimsDistinct, Writing
<1>9. SurveyStands'
  BY <1>1, <1>3 DEF IInv, SurveyStands, EveryAttemptFailed, RowsOf
<1>10. RecipientHasNotification' /\ BackupUnreachableIsTrue'
  BY <1>1
     DEF IInv, RecipientHasNotification, BackupUnreachableIsTrue,
         EveryAttemptFailed, RowsOf, CurrentRole
<1>11. QED BY <1>5, <1>6, <1>7, <1>8, <1>9, <1>10 DEF IInv

LEMMA SendIInv ==
  ASSUME IInv, NEW w \in Workers, Send(w)
  PROVE  IInv'
<1> DEFINE n == worker[w].row
           a == worker[w].attempt
<1>1. /\ TypeOK /\ page' = page /\ notif' = notif /\ crashes' = crashes
      /\ worker[w].phase = "sending" /\ worker[w] \in WorkerStates
  BY DEF IInv, Send, tables, TypeOK
<1>2. /\ n \in Rows /\ a \in 1..MaxAttempts
      /\ a \in 1..notif[n].attempts /\ a \notin calls[n]
  BY <1>1 DEF IInv, ClaimConsistent, WorkerStates, TypeOK, RowRecords
<1>3. /\ worker' \in [Workers -> WorkerStates]
      /\ \A v \in Workers : v # w => worker'[v] = worker[v]
      /\ worker'[w].phase = "answered"
      /\ worker'[w].row = n /\ worker'[w].attempt = a
  <2>1. PICK o \in Outcomes :
          worker' = [worker EXCEPT ![w] =
                      [worker[w] EXCEPT !.phase = "answered", !.outcome = o]]
    BY DEF Send
  <2>2. [worker[w] EXCEPT !.phase = "answered", !.outcome = o] \in WorkerStates
    BY <1>1 DEF WorkerStates
  <2>3. QED BY <1>1, <2>1, <2>2 DEF TypeOK, WorkerStates
<1>4. /\ calls' \in [Rows -> SUBSET (Nat \ {0})]
      /\ \A m \in Rows : m # n => calls'[m] = calls[m]
      /\ calls'[n] = calls[n] \union {a}
  BY <1>1, <1>2 DEF Send, TypeOK
<1>5. TypeOK'
  BY <1>1, <1>3, <1>4 DEF TypeOK
<1>6. PageConsistent'
  BY <1>1 DEF IInv, PageConsistent
<1>7. RowConsistent'
  BY <1>1, <1>2, <1>4 DEF IInv, RowConsistent
<1>8. ClaimConsistent'
  <2>1. ASSUME NEW v \in Workers, worker'[v].phase = "sending"
        PROVE  worker'[v].attempt \notin calls'[worker'[v].row]
    <3>1. v # w /\ worker'[v] = worker[v] /\ worker[v].row \in Rows
      BY <1>1, <1>3, <2>1 DEF IInv, ClaimConsistent, TypeOK, WorkerStates
    <3>2. worker[v].row = n => worker[v].attempt # a
      BY <1>1, <2>1, <3>1 DEF IInv, ClaimsDistinct
    <3>3. QED BY <1>4, <2>1, <3>1, <3>2 DEF IInv, ClaimConsistent
  <2>2. QED BY <1>1, <1>2, <1>3, <2>1 DEF IInv, ClaimConsistent, Writing
<1>9. ClaimsDistinct'
  BY <1>3 DEF IInv, ClaimsDistinct, Writing
<1>10. SurveyStands'
  BY <1>1, <1>3 DEF IInv, SurveyStands, EveryAttemptFailed, RowsOf
<1>11. RecipientHasNotification' /\ BackupUnreachableIsTrue'
  BY <1>1
     DEF IInv, RecipientHasNotification, BackupUnreachableIsTrue,
         EveryAttemptFailed, RowsOf, CurrentRole
<1>12. QED BY <1>5, <1>6, <1>7, <1>8, <1>9, <1>10, <1>11 DEF IInv

LEMMA RecordSendResultIInv ==
  ASSUME IInv, NEW w \in Workers, RecordSendResult(w)
  PROVE  IInv'
<1> DEFINE n == worker[w].row
           a == worker[w].attempt
<1>1. /\ TypeOK /\ page' = page /\ calls' = calls /\ crashes' = crashes
      /\ worker[w].phase = "answered" /\ worker[w] \in WorkerStates
      /\ n \in Rows /\ n # NoRow /\ a \in 1..MaxAttempts
  BY DEF IInv, RecordSendResult, TypeOK, WorkerStates, ClaimConsistent
<1>2. \/ notif' = notif /\ worker' = [worker EXCEPT ![w] = Idle]
      \/ /\ notif' = notif /\ ClaimIsCurrent(w)
         /\ worker' = [worker EXCEPT ![w] = [worker[w] EXCEPT !.phase = "failing"]]
      \/ /\ ClaimIsCurrent(w)
         /\ worker' = [worker EXCEPT ![w] = Idle]
         /\ \E status \in {"sent", "retrying"}, next \in {"none", "running"} :
              /\ notif' = [notif EXCEPT ![n] =
                             [status |-> status, attempts |-> a, next |-> next]]
              /\ status = "retrying" => a < MaxAttempts
  BY <1>1 DEF RecordSendResult, Superseded, Finish, FailRow, Retryable, TypeOK
<1>3. /\ worker' \in [Workers -> WorkerStates]
      /\ \A v \in Workers : v # w => worker'[v] = worker[v]
      /\ \/ worker'[w].phase = "idle" /\ worker'[w].row = NoRow
         \/ /\ notif' = notif /\ ClaimIsCurrent(w)
            /\ worker'[w].phase = "failing"
            /\ worker'[w].row = n /\ worker'[w].attempt = a
  <2>1. /\ [worker[w] EXCEPT !.phase = "failing"] \in WorkerStates
        /\ [worker[w] EXCEPT !.phase = "failing"].phase = "failing"
        /\ [worker[w] EXCEPT !.phase = "failing"].row = n
        /\ [worker[w] EXCEPT !.phase = "failing"].attempt = a
    BY <1>1 DEF WorkerStates
  <2>2. QED BY <1>1, <1>2, <2>1, IdleState DEF TypeOK
<1>4. /\ notif' \in [Rows -> RowRecords]
      /\ \A m \in Rows : m # n => notif'[m] = notif[m]
      /\ notif'[n].attempts = notif[n].attempts
      /\ notif'[n] # notif[n] =>
           /\ notif[n].status = "sending"
           /\ notif'[n].status \in {"sent", "retrying"}
           /\ notif'[n].status = "retrying" => a < MaxAttempts
           /\ a = notif[n].attempts
  <2>1. \A status \in {"sent", "retrying"}, next \in {"none", "running"} :
          [status |-> status, attempts |-> a, next |-> next] \in RowRecords
    BY <1>1 DEF RowRecords, RowStatus, Clock
  <2>2. QED BY <1>1, <1>2, <2>1 DEF ClaimIsCurrent, TypeOK
<1>5. \A v \in Workers : worker[v].row = n => ~Writing(v)
  BY DEF RecordSendResult, Locked, Writing
<1>6. \A v \in Workers : worker[v].phase # "idle" => worker[v].row \in Rows
  BY <1>1 DEF IInv, ClaimConsistent, TypeOK, WorkerStates
<1>7. /\ \A q \in Pages, role \in Roles : RowsOf(q, role)' = RowsOf(q, role)
      /\ \A m \in Rows : notif[m].status = "failed" => notif'[m] = notif[m]
  BY <1>1, <1>4 DEF RowsOf
<1>8. TypeOK'
  BY <1>1, <1>3, <1>4 DEF TypeOK
<1>9. PageConsistent'
  BY <1>1 DEF IInv, PageConsistent
<1>10. RowConsistent'
  <2>1. \A m \in Rows :
          /\ notif'[m].attempts = notif[m].attempts
          /\ \/ notif'[m] = notif[m]
             \/ /\ notif[m].status = "sending"
                /\ notif'[m].status \in {"sent", "retrying"}
                /\ notif'[m].status = "retrying" => notif'[m].attempts < MaxAttempts
                /\ notif'[m].attempts <= MaxAttempts
    BY <1>1, <1>4
  <2>2. QED BY <1>1, <2>1 DEF IInv, RowConsistent, Unsent
<1>11. ClaimConsistent'
  <2>1. ClaimIsCurrent(w) =>
          notif[n].status = "sending" /\ a \in notif[n].attempts..(MaxAttempts + 1)
    BY <1>1 DEF ClaimIsCurrent, TypeOK, RowRecords
  <2>2. \A v \in Workers : worker[v].phase # "idle" =>
          notif'[worker[v].row].attempts = notif[worker[v].row].attempts
    BY <1>1, <1>4, <1>6
  <2>3. \A v \in Workers : Writing(v) => notif'[worker[v].row] = notif[worker[v].row]
    BY <1>4, <1>5, <1>6 DEF Writing
  <2>4. QED
    BY <1>1, <1>3, <2>1, <2>2, <2>3 DEF IInv, ClaimConsistent, Writing
<1>12. ClaimsDistinct'
  BY <1>3, <1>5, <1>6, <1>1 DEF IInv, ClaimsDistinct, Writing
<1>13. SurveyStands'
  BY <1>1, <1>3, <1>6, <1>7
     DEF IInv, SurveyStands, EveryAttemptFailed, RowsOf, Rows, Roles
<1>14. RecipientHasNotification' /\ BackupUnreachableIsTrue'
  BY <1>1, <1>7
     DEF IInv, RecipientHasNotification, BackupUnreachableIsTrue,
         EveryAttemptFailed, RowsOf, CurrentRole, Roles
<1>15. QED
  BY <1>8, <1>9, <1>10, <1>11, <1>12, <1>13, <1>14 DEF IInv

LEMMA SurveyRecipientIInv ==
  ASSUME IInv, NEW w \in Workers, SurveyRecipient(w)
  PROVE  IInv'
<1> DEFINE n == worker[w].row
           p == n.page
<1>1. /\ TypeOK
      /\ page' = page /\ notif' = notif /\ calls' = calls /\ crashes' = crashes
      /\ worker[w].phase = "failing" /\ worker[w] \in WorkerStates
      /\ n \in Rows /\ p \in Pages
  BY DEF IInv, SurveyRecipient, tables, TypeOK, WorkerStates, ClaimConsistent,
         Rows
<1>2. PICK e \in Escalating \union {"none"} :
        /\ worker' = [worker EXCEPT ![w] =
             [worker[w] EXCEPT !.phase = "surveyed", !.expected = e]]
        /\ e = "paging_backup" =>
             /\ page[p].status = "paging_backup"
             /\ CurrentRole(p) = n.role
             /\ EveryAttemptFailed(p, n.role, {n})
  <2> DEFINE unreachable == /\ page[p].status \in Escalating
                            /\ CurrentRole(p) = n.role
                            /\ EveryAttemptFailed(p, n.role, {n})
             expected == IF unreachable THEN page[p].status ELSE "none"
  <2>1. worker' = [worker EXCEPT ![w] =
          [worker[w] EXCEPT !.phase = "surveyed", !.expected = expected]]
    BY DEF SurveyRecipient
  <2>2. /\ expected \in Escalating \union {"none"}
        /\ expected = "paging_backup" =>
             page[p].status = "paging_backup" /\ unreachable
    OBVIOUS
  <2> HIDE DEF expected
  <2>3. QED BY <2>1, <2>2
<1>3. /\ worker' \in [Workers -> WorkerStates]
      /\ \A v \in Workers : v # w => worker'[v] = worker[v]
      /\ worker'[w].phase = "surveyed" /\ worker'[w].expected = e
      /\ worker'[w].row = n /\ worker'[w].attempt = worker[w].attempt
  <2>1. /\ [worker[w] EXCEPT !.phase = "surveyed", !.expected = e] \in WorkerStates
        /\ [worker[w] EXCEPT !.phase = "surveyed", !.expected = e].row = n
        /\ [worker[w] EXCEPT !.phase = "surveyed", !.expected = e].attempt
             = worker[w].attempt
    BY <1>1 DEF WorkerStates
  <2>2. QED BY <1>1, <1>2, <2>1 DEF TypeOK, WorkerStates
<1>4. TypeOK'
  BY <1>1, <1>3 DEF TypeOK
<1>5. PageConsistent' /\ RowConsistent'
  BY <1>1 DEF IInv, PageConsistent, RowConsistent
<1>6. ClaimConsistent' /\ ClaimsDistinct'
  BY <1>1, <1>3 DEF IInv, ClaimConsistent, ClaimsDistinct, Writing
<1>7. SurveyStands'
  <2>1. e = "paging_backup" =>
          /\ page[p].escalated /\ n.role = "backup"
          /\ EveryAttemptFailed(p, "backup", {n})
    BY <1>1, <1>2 DEF IInv, PageConsistent, CurrentRole
  <2>2. QED
    BY <1>1, <1>3, <2>1 DEF IInv, SurveyStands, EveryAttemptFailed, RowsOf
<1>8. RecipientHasNotification' /\ BackupUnreachableIsTrue'
  BY <1>1
     DEF IInv, RecipientHasNotification, BackupUnreachableIsTrue,
         EveryAttemptFailed, RowsOf, CurrentRole
<1>9. QED BY <1>4, <1>5, <1>6, <1>7, <1>8 DEF IInv

LEMMA CommitFailureIInv ==
  ASSUME IInv, NEW w \in Workers, CommitFailure(w)
  PROVE  IInv'
<1> DEFINE n == worker[w].row
           p == n.page
           a == worker[w].attempt
<1>1. /\ TypeOK /\ calls' = calls /\ crashes' = crashes
      /\ n \in Rows /\ n # NoRow /\ p \in Pages
      /\ a \in notif[n].attempts..(MaxAttempts + 1)
      /\ notif[n].status = "sending" /\ notif[n] \in RowRecords
      /\ Writing(w)
  BY DEF IInv, CommitFailure, TypeOK, WorkerStates, ClaimConsistent, Writing, Rows
<1>2. /\ notif' \in [Rows -> RowRecords]
      /\ \A m \in Rows : m # n => notif'[m] = notif[m]
      /\ notif'[n].status = "failed" /\ notif'[n].attempts = a
  <2>1. [status |-> "failed", attempts |-> a, next |-> "none"] \in RowRecords
    BY <1>1 DEF RowRecords, RowStatus, Clock
  <2>2. QED BY <1>1, <2>1 DEF CommitFailure, TypeOK
<1>3. /\ page' \in [Pages -> PageRecords]
      /\ \A q \in Pages :
           /\ page'[q].status = page[q].status
           /\ page'[q].escalated = page[q].escalated
           /\ page'[q].ackBy = page[q].ackBy /\ page'[q].reason = page[q].reason
           /\ page'[q].deadline # "none" <=> page[q].deadline # "none"
  <2>1. /\ page[p] \in PageRecords
        /\ [page[p] EXCEPT !.deadline = "due"] \in PageRecords
    BY <1>1 DEF TypeOK, PageRecords, Clock
  <2>2. \/ page' = page
        \/ /\ page[p].deadline = "running"
           /\ page' = [page EXCEPT ![p] = [page[p] EXCEPT !.deadline = "due"]]
    BY <1>1 DEF CommitFailure, BringEscalationForward, TypeOK
  <2>3. QED BY <1>1, <2>1, <2>2 DEF TypeOK, PageRecords
<1>4. /\ worker' \in [Workers -> WorkerStates]
      /\ \A v \in Workers : v # w => worker'[v] = worker[v]
      /\ worker'[w].phase = "idle" /\ worker'[w].row = NoRow
  BY <1>1, IdleState DEF CommitFailure, TypeOK
<1>5. \A v \in Workers : worker[v].phase # "idle" => worker[v].row \in Rows
  BY <1>1 DEF IInv, ClaimConsistent, TypeOK, WorkerStates
<1>6. /\ \A q \in Pages, role \in Roles : RowsOf(q, role)' = RowsOf(q, role)
      /\ \A m \in Rows : notif[m].status = "failed" => notif'[m].status = "failed"
  BY <1>1, <1>2 DEF RowsOf
<1>7. \A m \in Rows : m.page \in Pages
  BY DEF Rows
<1>8. TypeOK'
  BY <1>1, <1>2, <1>3, <1>4 DEF TypeOK
<1>9. PageConsistent'
  BY <1>3 DEF IInv, PageConsistent
<1>10. RowConsistent'
  <2>1. calls[n] \subseteq 1..a
    BY <1>1 DEF IInv, RowConsistent, RowRecords
  <2>2. QED
    BY <1>1, <1>2, <1>3, <1>7, <2>1 DEF IInv, RowConsistent, Unsent
<1>11. ClaimConsistent'
  <2>1. \A v \in Workers : v # w => ~(Writing(v) /\ worker[v].row = n)
    BY <1>1 DEF IInv, ClaimsDistinct
  <2>2. notif'[n].attempts \in Nat /\ notif[n].attempts \in Nat
        /\ notif[n].attempts <= notif'[n].attempts
    BY <1>1, <1>2 DEF RowRecords
  <2>3. \A v \in Workers : worker[v].attempt \in Nat
    BY <1>1 DEF TypeOK, WorkerStates
  <2>4. QED
    BY <1>1, <1>2, <1>4, <1>5, <2>1, <2>2, <2>3 DEF IInv, ClaimConsistent, Writing
<1>12. ClaimsDistinct'
  BY <1>4, <1>5, <1>1 DEF IInv, ClaimsDistinct, Writing
<1>13. SurveyStands'
  BY <1>3, <1>4, <1>5, <1>6, <1>7
     DEF IInv, SurveyStands, EveryAttemptFailed, RowsOf, Roles
<1>14. RecipientHasNotification' /\ BackupUnreachableIsTrue'
  BY <1>3, <1>6
     DEF IInv, RecipientHasNotification, BackupUnreachableIsTrue,
         EveryAttemptFailed, RowsOf, CurrentRole, Roles
<1>15. QED
  BY <1>8, <1>9, <1>10, <1>11, <1>12, <1>13, <1>14 DEF IInv

LEMMA CrashIInv ==
  ASSUME IInv, NEW w \in Workers, Crash(w)
  PROVE  IInv'
<1>1. /\ page' = page /\ notif' = notif /\ calls' = calls
      /\ crashes' = crashes + 1 /\ TypeOK
  BY DEF IInv, Crash, tables
<1>2. /\ worker' \in [Workers -> WorkerStates]
      /\ \A v \in Workers : v # w => worker'[v] = worker[v]
      /\ worker'[w].phase = "idle" /\ worker'[w].row = NoRow
  BY <1>1, IdleState DEF Crash, TypeOK
<1>3. TypeOK'
  BY <1>1, <1>2 DEF TypeOK
<1>4. PageConsistent' /\ RowConsistent'
  BY <1>1 DEF IInv, PageConsistent, RowConsistent
<1>5. ClaimConsistent' /\ ClaimsDistinct'
  BY <1>1, <1>2 DEF IInv, ClaimConsistent, ClaimsDistinct, Writing
<1>6. SurveyStands'
  BY <1>1, <1>2 DEF IInv, SurveyStands, EveryAttemptFailed, RowsOf
<1>7. RecipientHasNotification' /\ BackupUnreachableIsTrue'
  BY <1>1
     DEF IInv, RecipientHasNotification, BackupUnreachableIsTrue,
         EveryAttemptFailed, RowsOf, CurrentRole
<1>8. QED BY <1>3, <1>4, <1>5, <1>6, <1>7 DEF IInv

LEMMA NextAttemptAtPassesIInv ==
  ASSUME IInv, NEW n \in Rows, NextAttemptAtPasses(n)
  PROVE  IInv'
<1>1. /\ page' = page /\ worker' = worker /\ calls' = calls /\ crashes' = crashes
      /\ TypeOK
  BY DEF IInv, NextAttemptAtPasses
<1>2. /\ notif' \in [Rows -> RowRecords]
      /\ \A m \in Rows : /\ notif'[m].status = notif[m].status
                         /\ notif'[m].attempts = notif[m].attempts
  <2>1. notif[n] \in RowRecords /\ [notif[n] EXCEPT !.next = "due"] \in RowRecords
    BY <1>1 DEF TypeOK, RowRecords, Clock
  <2>2. QED BY <1>1, <2>1 DEF NextAttemptAtPasses, TypeOK, RowRecords
<1>3. \A v \in Workers : worker[v].phase # "idle" => worker[v].row \in Rows
  BY <1>1 DEF IInv, ClaimConsistent, TypeOK, WorkerStates
<1>4. TypeOK'
  BY <1>1, <1>2 DEF TypeOK
<1>5. PageConsistent' /\ RowConsistent'
  BY <1>1, <1>2 DEF IInv, PageConsistent, RowConsistent
<1>6. ClaimConsistent' /\ ClaimsDistinct'
  BY <1>1, <1>2, <1>3 DEF IInv, ClaimConsistent, ClaimsDistinct, Writing
<1>7. SurveyStands'
  BY <1>1, <1>2, <1>3 DEF IInv, SurveyStands, EveryAttemptFailed, RowsOf
<1>8. RecipientHasNotification' /\ BackupUnreachableIsTrue'
  BY <1>1, <1>2
     DEF IInv, RecipientHasNotification, BackupUnreachableIsTrue,
         EveryAttemptFailed, RowsOf, CurrentRole
<1>9. QED BY <1>4, <1>5, <1>6, <1>7, <1>8 DEF IInv

-----------------------------------------------------------------------------
(* Every step, and so every reachable state.                               *)

LEMMA NextIInv == IInv /\ [Next]_vars => IInv'
<1> SUFFICES ASSUME IInv, [Next]_vars PROVE IInv'
  OBVIOUS
<1>1. ASSUME NEW p \in Pages, Enqueue(p) PROVE IInv'
  BY <1>1, EnqueueIInv
<1>2. ASSUME NEW p \in Pages, NEW who \in Roles \union {"dashboard"},
             Acknowledge(p, who)
      PROVE  IInv'
  BY <1>2, AcknowledgeIInv
<1>3. ASSUME NEW p \in Pages, PageStep(p) PROVE IInv'
  BY <1>3, EscalatePrimaryIInv, EscalateBackupIInv, EscalateAtPassesIInv
     DEF PageStep
<1>4. ASSUME NEW w \in Workers, WorkerStep(w) PROVE IInv'
  BY <1>4, ClaimNextSendIInv, ClaimLostIInv, SendIInv, RecordSendResultIInv,
     SurveyRecipientIInv, CommitFailureIInv
     DEF WorkerStep
<1>5. ASSUME NEW w \in Workers, Crash(w) PROVE IInv'
  BY <1>5, CrashIInv
<1>6. ASSUME NEW n \in Rows, NextAttemptAtPasses(n) PROVE IInv'
  BY <1>6, NextAttemptAtPassesIInv
<1>7. CASE UNCHANGED vars
  BY <1>7
     DEF vars, IInv, TypeOK, PageConsistent, RowConsistent, ClaimConsistent,
         ClaimsDistinct, SurveyStands, RecipientHasNotification,
         BackupUnreachableIsTrue, Writing, EveryAttemptFailed, RowsOf,
         CurrentRole
<1>8. QED
  BY <1>1, <1>2, <1>3, <1>4, <1>5, <1>6, <1>7 DEF Next

\* IInv holds in every reachable state.
THEOREM Inductive == Spec => []IInv
<1>1. QED BY InitIInv, NextIInv, PTL DEF Spec

\* Every table and every worker keeps its type.
THEOREM TypeCorrect == Spec => []TypeOK
<1>1. IInv => TypeOK
  BY DEF IInv
<1>2. QED BY <1>1, Inductive, PTL

\* A page waits on somebody exactly while it has a deadline.
THEOREM DeadlineKept == Spec => []DeadlineIffEscalating
<1>1. IInv => DeadlineIffEscalating
  BY DEF IInv, PageConsistent, DeadlineIffEscalating
<1>2. QED BY <1>1, Inductive, PTL

\* A page never waits for a recipient for whom it has no notification.
THEOREM RecipientPaged == Spec => []RecipientHasNotification
<1>1. IInv => RecipientHasNotification
  BY DEF IInv
<1>2. QED BY <1>1, Inductive, PTL

\* The backup is paged, and acknowledges by link, only after escalation.
THEOREM BackupIsSecond == Spec => []BackupOnlyAfterEscalation
<1>1. IInv => BackupOnlyAfterEscalation
  BY DEF IInv, PageConsistent, RowConsistent, BackupOnlyAfterEscalation, RowsOf
<1>2. QED BY <1>1, Inductive, PTL

\* "backup_unreachable" is recorded only when it is so.
THEOREM UnreachableOnlyIfTrue == Spec => []BackupUnreachableIsTrue
<1>1. IInv => BackupUnreachableIsTrue
  BY DEF IInv
<1>2. QED BY <1>1, Inductive, PTL

\* No notification costs more than MaxAttempts provider calls, however many
\* workers claim it and however often they die: a claim takes an attempt no
\* claim in flight holds, and makes one call for it.
THEOREM CallsWithinBudget == Spec => []CallBudget
<1>1. IInv => CallBudget
  BY DEF IInv, RowConsistent, ClaimConsistent, CallBudget
<1>2. QED BY <1>1, Inductive, PTL

-----------------------------------------------------------------------------
(* What a step may never do.                                               *)

LEMMA RowsAreOfPages == \A n \in Rows : n.page \in Pages /\ n.role \in Roles
BY DEF Rows

LEMMA AcknowledgedPageStays ==
  ASSUME IInv, [Next]_vars, NEW p \in Pages, page[p].status = "acknowledged"
  PROVE  page'[p] = page[p]
<1>1. page \in [Pages -> PageRecords] /\ page[p].deadline = "none"
  BY DEF IInv, TypeOK, PageConsistent, Escalating
<1>2. ASSUME NEW q \in Pages, Enqueue(q) \/ PageStep(q)
                \/ \E who \in Roles \union {"dashboard"} : Acknowledge(q, who)
      PROVE  page'[p] = page[p]
  <2>1. p # q
    BY <1>1, <1>2
       DEF Enqueue, PageStep, EscalatePrimary, EscalateBackup, EscalationDue,
           EscalateAtPasses, Acknowledge
  <2>2. \A r : page' = [page EXCEPT ![q] = r] => page'[p] = page[p]
    BY <1>1, <2>1
  <2>3. QED
    BY <1>1, <1>2, <2>1, <2>2
       DEF Enqueue, PageStep, EscalatePrimary, EscalateBackup, Unresolve,
           EscalateAtPasses, Acknowledge
<1>3. ASSUME NEW w \in Workers, CommitFailure(w)
      PROVE  page'[p] = page[p]
  <2>1. worker[w].expected # "acknowledged"
    BY DEF IInv, TypeOK, WorkerStates, Escalating
  <2>2. QED
    BY <1>1, <1>3, <2>1 DEF CommitFailure, BringEscalationForward
<1>4. ASSUME NEW w \in Workers, WorkerStep(w) \/ Crash(w), ~CommitFailure(w)
      PROVE  page' = page
  BY <1>4
     DEF WorkerStep, ClaimNextSend, ClaimLost, Send, RecordSendResult,
         SurveyRecipient, Crash, tables
<1>5. ASSUME NEW n \in Rows, NextAttemptAtPasses(n)
      PROVE  page' = page
  BY <1>5 DEF NextAttemptAtPasses
<1>6. QED
  BY <1>2, <1>3, <1>4, <1>5 DEF Next, vars

\* The page's state machine: what a handler that locks the page row makes of it.
LEMMA PageWrite ==
  ASSUME page \in [Pages -> PageRecords], NEW q \in Pages,
         \/ Enqueue(q) \/ EscalatePrimary(q) \/ EscalateBackup(q)
         \/ \E who \in Roles \union {"dashboard"} : Acknowledge(q, who)
  PROVE  \E r : /\ page' = [page EXCEPT ![q] = r]
               /\ r.deadline \in {"none", "running"}
               /\ \/ page[q].status = "none" /\ r.status = "paging_primary"
                  \/ page[q].status = "paging_primary" /\ r.status = "paging_backup"
                  \/ page[q].status \in Escalating /\ r.status = "unresolved"
                  \/ /\ page[q].status \notin {"none", "acknowledged"}
                     /\ r.status = "acknowledged"
<1> page[q] \in PageRecords
  OBVIOUS
<1>1. CASE Enqueue(q)
  <2> DEFINE r == [page[q] EXCEPT !.status = "paging_primary",
                                  !.deadline = "running"]
  <2>1. r.status = "paging_primary" /\ r.deadline = "running"
    BY DEF PageRecords
  <2>2. page' = [page EXCEPT ![q] = r] /\ page[q].status = "none"
    BY <1>1 DEF Enqueue
  <2>3. QED BY <2>1, <2>2
<1>2. ASSUME NEW reason, Unresolve(q, reason)
      PROVE  \E r : /\ page' = [page EXCEPT ![q] = r]
                   /\ r.status = "unresolved" /\ r.deadline = "none"
  <2> DEFINE r == [page[q] EXCEPT !.status = "unresolved", !.deadline = "none",
                                  !.reason = reason]
  <2>1. r.status = "unresolved" /\ r.deadline = "none"
    BY DEF PageRecords
  <2>2. page' = [page EXCEPT ![q] = r]
    BY <1>2 DEF Unresolve
  <2>3. QED BY <2>1, <2>2
<1>3. CASE EscalatePrimary(q)
  <2> DEFINE r == [page[q] EXCEPT !.status = "paging_backup",
                                  !.escalated = TRUE, !.deadline = "running"]
  <2>1. r.status = "paging_backup" /\ r.deadline = "running"
    BY DEF PageRecords
  <2>2. /\ page[q].status = "paging_primary" /\ page[q].status \in Escalating
        /\ \/ page' = [page EXCEPT ![q] = r]
           \/ Unresolve(q, "no_backup_configured")
    BY <1>3 DEF EscalatePrimary, EscalationDue
  <2> HIDE DEF r
  <2>3. QED BY <1>2, <2>1, <2>2
<1>4. CASE EscalateBackup(q)
  <2>1. page[q].status \in Escalating /\ \E reason : Unresolve(q, reason)
    BY <1>4 DEF EscalateBackup, EscalationDue
  <2>2. QED BY <1>2, <2>1
<1>5. ASSUME NEW who \in Roles \union {"dashboard"}, Acknowledge(q, who)
      PROVE  \E r : /\ page' = [page EXCEPT ![q] = r]
                   /\ r.status = "acknowledged" /\ r.deadline = "none"
  <2> DEFINE r == [page[q] EXCEPT !.status = "acknowledged",
                                  !.deadline = "none", !.ackBy = who]
  <2>1. r.status = "acknowledged" /\ r.deadline = "none"
    BY DEF PageRecords
  <2>2. page' = [page EXCEPT ![q] = r]
    BY <1>5 DEF Acknowledge
  <2>3. QED BY <2>1, <2>2
<1>6. ASSUME NEW who, Acknowledge(q, who)
      PROVE  page[q].status \notin {"none", "acknowledged"}
  BY <1>6 DEF Acknowledge, MayAcknowledge
<1>7. QED BY <1>1, <1>3, <1>4, <1>5, <1>6

LEMMA BackupCutShortOnlyIfUnreachable ==
  ASSUME IInv, [Next]_vars, NEW p \in Pages,
         page[p].status = "paging_backup",
         page[p].deadline = "running", page'[p].deadline = "due"
  PROVE  notif' = notif \/ EveryAttemptFailed(p, "backup", {})'
<1>1. page \in [Pages -> PageRecords] /\ page' # page
  BY DEF IInv, TypeOK
<1>2. ASSUME NEW q \in Pages, Enqueue(q) \/ EscalatePrimary(q) \/ EscalateBackup(q)
                \/ \E who \in Roles \union {"dashboard"} : Acknowledge(q, who)
      PROVE  FALSE
  <2>1. PICK r : /\ page' = [page EXCEPT ![q] = r]
                 /\ r.deadline \in {"none", "running"}
    BY <1>1, <1>2, PageWrite
  <2>2. r.deadline # "due"
    BY <2>1
  <2>3. QED BY <1>1, <2>1, <2>2
<1>3. ASSUME NEW q \in Pages, EscalateAtPasses(q)
      PROVE  notif' = notif
  BY <1>3 DEF EscalateAtPasses
<1>4. ASSUME NEW w \in Workers, CommitFailure(w)
      PROVE  EveryAttemptFailed(p, "backup", {})'
  <2> DEFINE n == worker[w].row
  <2>1. /\ worker[w].phase = "surveyed" /\ worker[w].expected = "paging_backup"
        /\ n.page = p /\ n \in Rows
    BY <1>1, <1>4
       DEF CommitFailure, BringEscalationForward, IInv, TypeOK, ClaimConsistent,
           WorkerStates
  <2>2. n.role = "backup" /\ EveryAttemptFailed(p, "backup", {n})
    BY <2>1 DEF IInv, SurveyStands
  <2>3. /\ notif'[n].status = "failed"
        /\ \A m \in Rows : m # n => notif'[m] = notif[m]
    BY <1>4, <2>1 DEF CommitFailure, IInv, TypeOK
  <2>4. QED BY <2>2, <2>3 DEF EveryAttemptFailed, RowsOf
<1>5. ASSUME NEW w \in Workers, WorkerStep(w) \/ Crash(w), ~CommitFailure(w)
      PROVE  page' = page
  BY <1>5
     DEF WorkerStep, ClaimNextSend, ClaimLost, Send, RecordSendResult,
         SurveyRecipient, Crash, tables
<1>6. ASSUME NEW n \in Rows, NextAttemptAtPasses(n)
      PROVE  page' = page
  BY <1>6 DEF NextAttemptAtPasses
<1>7. QED
  BY <1>1, <1>2, <1>3, <1>4, <1>5, <1>6 DEF Next, PageStep, vars

LEMMA SentRowStays ==
  ASSUME IInv, [Next]_vars, NEW n \in Rows, notif[n].status = "sent"
  PROVE  notif'[n].status = "sent"
<1>1. notif \in [Rows -> RowRecords]
  BY DEF IInv, TypeOK
<1>2. ASSUME NEW q \in Pages, Enqueue(q) \/ PageStep(q)
                \/ \E who \in Roles \union {"dashboard"} : Acknowledge(q, who)
      PROVE  notif'[n] = notif[n]
  BY <1>2
     DEF Enqueue, PageStep, EscalatePrimary, EscalateBackup, Unresolve,
         EscalateAtPasses, Acknowledge, CancelUnsent, AddNotifications, Unsent
<1>3. ASSUME NEW w \in Workers, NEW m \in Rows,
             ClaimNextSend(w, m) \/ ClaimLost(w, m)
      PROVE  notif'[n] = notif[n]
  <2>1. m # n
    BY <1>3 DEF ClaimNextSend, ClaimLost, Due, Claimable, Unsent
  <2>2. QED BY <1>1, <1>3, <2>1 DEF ClaimNextSend, ClaimLost, tables
<1>4. ASSUME NEW w \in Workers, RecordSendResult(w)
      PROVE  notif'[n].status = "sent"
  <2>1. notif' = notif \/ ClaimIsCurrent(w)
    BY <1>4 DEF RecordSendResult, Superseded, FailRow
  <2>2. ClaimIsCurrent(w) => worker[w].row # n
    BY DEF ClaimIsCurrent
  <2>3. QED
    BY <1>1, <1>4, <2>1, <2>2
       DEF RecordSendResult, Superseded, FailRow, Finish
<1>5. ASSUME NEW w \in Workers, CommitFailure(w)
      PROVE  notif'[n] = notif[n]
  <2>1. worker[w].row # n
    BY <1>5 DEF CommitFailure, IInv, ClaimConsistent, Writing
  <2>2. QED BY <1>1, <1>5, <2>1 DEF CommitFailure
<1>6. ASSUME NEW w \in Workers, Send(w) \/ SurveyRecipient(w) \/ Crash(w)
      PROVE  notif' = notif
  BY <1>6 DEF Send, SurveyRecipient, Crash, tables
<1>7. ASSUME NEW m \in Rows, NextAttemptAtPasses(m)
      PROVE  notif'[n].status = "sent"
  BY <1>1, <1>7 DEF NextAttemptAtPasses, RowRecords
<1>8. QED
  BY <1>2, <1>3, <1>4, <1>5, <1>6, <1>7 DEF Next, WorkerStep, vars

\* Neither time nor a worker moves a page from one status to another.
LEMMA StatusKept ==
  ASSUME page \in [Pages -> PageRecords], NEW p \in Pages,
         \/ \E q \in Pages : EscalateAtPasses(q)
         \/ \E w \in Workers : WorkerStep(w) \/ Crash(w)
         \/ \E n \in Rows : NextAttemptAtPasses(n)
  PROVE  page'[p].status = page[p].status
<1>1. page[p] \in PageRecords
  OBVIOUS
<1>2. [page[p] EXCEPT !.deadline = "due"].status = page[p].status
  BY <1>1 DEF PageRecords
<1>3. ASSUME NEW q,
             page' = [page EXCEPT ![q] = [page[q] EXCEPT !.deadline = "due"]]
      PROVE  page'[p].status = page[p].status
  BY <1>2, <1>3
<1>4. ASSUME NEW q \in Pages, EscalateAtPasses(q)
      PROVE  page'[p].status = page[p].status
  BY <1>3, <1>4 DEF EscalateAtPasses
<1>5. ASSUME NEW w \in Workers, CommitFailure(w)
      PROVE  page'[p].status = page[p].status
  BY <1>3, <1>5 DEF CommitFailure, BringEscalationForward
<1>6. ASSUME NEW w \in Workers, WorkerStep(w) \/ Crash(w), ~CommitFailure(w)
      PROVE  page' = page
  BY <1>6
     DEF WorkerStep, ClaimNextSend, ClaimLost, Send, RecordSendResult,
         SurveyRecipient, Crash, tables
<1>7. ASSUME NEW n \in Rows, NextAttemptAtPasses(n)
      PROVE  page' = page
  BY <1>7 DEF NextAttemptAtPasses
<1>8. QED BY <1>4, <1>5, <1>6, <1>7

LEMMA PageIsNeverUndone ==
  ASSUME IInv, [Next]_vars, NEW p \in Pages, page[p].status # "none"
  PROVE  page'[p].status # "none"
<1>1. page \in [Pages -> PageRecords]
  BY DEF IInv, TypeOK
<1>2. ASSUME NEW q \in Pages,
             \/ Enqueue(q) \/ EscalatePrimary(q) \/ EscalateBackup(q)
             \/ \E who \in Roles \union {"dashboard"} : Acknowledge(q, who)
      PROVE  page'[p].status # "none"
  <2>1. PICK r : /\ page' = [page EXCEPT ![q] = r]
                 /\ r.status \in {"paging_primary", "paging_backup", "unresolved",
                                 "acknowledged"}
    BY <1>1, <1>2, PageWrite
  <2>2. r.status # "none"
    BY <2>1
  <2>3. QED BY <1>1, <2>1, <2>2
<1>3. ASSUME \/ \E q \in Pages : EscalateAtPasses(q)
             \/ \E w \in Workers : WorkerStep(w) \/ Crash(w)
             \/ \E n \in Rows : NextAttemptAtPasses(n)
      PROVE  page'[p].status = page[p].status
  BY <1>1, <1>3, StatusKept
<1>4. QED BY <1>2, <1>3 DEF Next, PageStep, vars

LEMMA CallerToldSentOrAcknowledged ==
  ASSUME NEW p \in Pages
  PROVE  /\ CallerState(p) = "acknowledged" <=> page[p].status = "acknowledged"
         /\ CallerState(p) = "sent" <=>
              /\ page[p].status \notin {"none", "acknowledged"}
              /\ \E n \in Rows : n.page = p /\ notif[n].status = "sent"
BY DEF CallerState, PageRows

\* The first acknowledgement stands.
THEOREM AcknowledgementStands == Spec => AcknowledgementIsFinal
<1>1. IInv /\ [Next]_vars =>
        [\A p \in Pages :
           page[p].status = "acknowledged" => page'[p] = page[p]]_vars
  BY AcknowledgedPageStays
<1>2. QED BY <1>1, Inductive, PTL DEF Spec, AcknowledgementIsFinal

\* The backup's window is not cut short by a failure to reach the primary.
THEOREM BackupHasItsWindow == Spec => BackupWindowNotCutShort
<1>1. IInv /\ [Next]_vars =>
        [\A p \in Pages :
           (/\ page[p].status = "paging_backup"
            /\ page[p].deadline = "running" /\ page'[p].deadline = "due")
             => (notif' = notif \/ EveryAttemptFailed(p, "backup", {})')]_vars
  BY BackupCutShortOnlyIfUnreachable
<1>2. QED BY <1>1, Inductive, PTL DEF Spec, BackupWindowNotCutShort

\* What the caller was told never has to be taken back.
THEOREM CallerIsNotMisled == Spec => CallerNeverToldBack
<1> DEFINE Told ==
      \A p \in Pages :
        /\ CallerState(p) = "sent"
             => CallerState(p)' \in {"sent", "acknowledged"}
        /\ CallerState(p) = "acknowledged"
             => CallerState(p)' = "acknowledged"
<1>1. ASSUME IInv, [Next]_vars, NEW p \in Pages, CallerState(p) = "acknowledged"
      PROVE  CallerState(p)' = "acknowledged"
  <2>1. page'[p].status = "acknowledged"
    BY <1>1, AcknowledgedPageStays, CallerToldSentOrAcknowledged
  <2>2. QED BY <2>1 DEF CallerState
<1>2. ASSUME IInv, [Next]_vars, NEW p \in Pages, CallerState(p) = "sent"
      PROVE  CallerState(p)' \in {"sent", "acknowledged"}
  <2>1. /\ page[p].status # "none"
        /\ \E n \in Rows : n.page = p /\ notif[n].status = "sent"
    BY <1>2, CallerToldSentOrAcknowledged
  <2>2. /\ page'[p].status # "none"
        /\ \E n \in Rows : n.page = p /\ notif'[n].status = "sent"
    BY <1>2, <2>1, PageIsNeverUndone, SentRowStays
  <2>3. QED BY <2>2 DEF CallerState, PageRows
<1>3. IInv /\ [Next]_vars => [Told]_vars
  BY <1>1, <1>2
<1>4. QED BY <1>3, Inductive, PTL DEF Spec, CallerNeverToldBack

-----------------------------------------------------------------------------
(* EmergencyPaging implements PageLifecycle.                               *)

LEMMA InitLifecycle == Init => Lifecycle!Init
BY DEF Init, Lifecycle!Init, StatusOf, ReachedRoles, NoPage

LEMMA CallsKept ==
  ASSUME calls' = calls
  PROVE  [p \in Pages |-> ReachedRoles(p)]' = [p \in Pages |-> ReachedRoles(p)]
BY DEF ReachedRoles

\* A handler's write of the page is the move the abstract page makes.
LEMMA PageWriteMoves ==
  ASSUME IInv, NEW q \in Pages, calls' = calls,
         \/ Enqueue(q) \/ EscalatePrimary(q) \/ EscalateBackup(q)
         \/ \E who \in Roles \union {"dashboard"} : Acknowledge(q, who)
  PROVE  Lifecycle!Next
<1>1. page \in [Pages -> PageRecords] /\ page[q].status \in PageStatus \union {"none"}
  BY DEF IInv, TypeOK, PageRecords
<1>2. PICK r : /\ page' = [page EXCEPT ![q] = r]
               /\ \/ page[q].status = "none" /\ r.status = "paging_primary"
                  \/ page[q].status = "paging_primary" /\ r.status = "paging_backup"
                  \/ page[q].status \in Escalating /\ r.status = "unresolved"
                  \/ /\ page[q].status \notin {"none", "acknowledged"}
                     /\ r.status = "acknowledged"
  BY <1>1, PageWrite
<1>3. StatusOf' = [StatusOf EXCEPT ![q] = r.status] /\ StatusOf[q] = page[q].status
  BY <1>1, <1>2 DEF StatusOf
<1>4. Lifecycle!Start(q) \/ Lifecycle!Escalate(q) \/ Lifecycle!GiveUp(q)
      \/ Lifecycle!Take(q)
  BY <1>1, <1>2, <1>3, CallsKept
     DEF Lifecycle!Start, Lifecycle!Escalate, Lifecycle!GiveUp, Lifecycle!Take,
         Lifecycle!Move, Escalating, PageStatus
<1>5. QED BY <1>4 DEF Lifecycle!Next

\* A provider call reaches the row's recipient, or adds nothing.
LEMMA SendReaches ==
  ASSUME IInv, NEW w \in Workers, Send(w)
  PROVE  Lifecycle!Next
<1> DEFINE n == worker[w].row
           p == n.page
<1>1. /\ n \in Rows /\ p \in Pages /\ n.role \in Roles
      /\ notif[n].status # "absent"
      /\ StatusOf' = StatusOf
      /\ calls' = [calls EXCEPT ![n] = @ \union {worker[w].attempt}]
      /\ calls \in [Rows -> SUBSET (Nat \ {0})]
  <2>1. worker[w] \in WorkerStates /\ worker[w].phase = "sending"
    BY DEF IInv, TypeOK, Send
  <2>2. n \in Rows /\ notif[n].attempts >= 1 /\ notif[n] \in RowRecords
    BY <2>1 DEF IInv, ClaimConsistent, TypeOK, RowRecords, WorkerStates
  <2>3. QED
    BY <2>2, RowsAreOfPages
       DEF IInv, TypeOK, RowConsistent, RowRecords, Send, tables, StatusOf
<1>2. StatusOf[p] \in IF n.role = "backup"
                      THEN {"paging_backup", "acknowledged", "unresolved"}
                      ELSE {"paging_primary", "paging_backup",
                            "acknowledged", "unresolved"}
  <2>1. page[p].status \in PageStatus /\ (n.role = "backup" => page[p].escalated)
    BY <1>1 DEF IInv, TypeOK, PageRecords, RowConsistent
  <2>2. page[p].escalated => page[p].status # "paging_primary"
    BY <1>1 DEF IInv, PageConsistent
  <2>3. QED BY <1>1, <2>1, <2>2 DEF StatusOf, PageStatus
<1>3. \A q \in Pages :
        ReachedRoles(q)' = IF q = p THEN ReachedRoles(q) \union {n.role}
                           ELSE ReachedRoles(q)
  BY <1>1 DEF ReachedRoles
<1>4. Lifecycle!Reach(p, n.role)
  BY <1>1, <1>2, <1>3 DEF Lifecycle!Reach
<1>5. QED BY <1>1, <1>4 DEF Lifecycle!Next, Roles

\* Paging's tables keep the promise PageLifecycle states of a page's own life:
\* every step is one of its steps, or does not show.
THEOREM Refinement == Spec => ImplementsLifecycle
<1>1. IInv /\ [Next]_vars => [Lifecycle!Next]_(Lifecycle!vars)
  <2> SUFFICES ASSUME IInv, [Next]_vars
               PROVE  [Lifecycle!Next]_(Lifecycle!vars)
    OBVIOUS
  <2>1. ASSUME NEW q \in Pages,
               \/ Enqueue(q) \/ EscalatePrimary(q) \/ EscalateBackup(q)
               \/ \E who \in Roles \union {"dashboard"} : Acknowledge(q, who)
        PROVE  Lifecycle!Next
    <3>1. calls' = calls
      BY <2>1 DEF Enqueue, EscalatePrimary, EscalateBackup, Acknowledge
    <3>2. QED BY <2>1, <3>1, PageWriteMoves
  <2>2. ASSUME NEW w \in Workers, Send(w)
        PROVE  Lifecycle!Next
    BY <2>2, SendReaches
  <2>3. ASSUME \/ \E q \in Pages : EscalateAtPasses(q)
               \/ \E w \in Workers : /\ WorkerStep(w) \/ Crash(w)
                                     /\ ~Send(w)
               \/ \E n \in Rows : NextAttemptAtPasses(n)
        PROVE  UNCHANGED Lifecycle!vars
    <3>1. StatusOf' = StatusOf
      BY <2>3, StatusKept DEF IInv, TypeOK, StatusOf
    <3>2. calls' = calls
      BY <2>3
         DEF EscalateAtPasses, WorkerStep, ClaimNextSend, ClaimLost,
             RecordSendResult, SurveyRecipient, CommitFailure, Crash,
             NextAttemptAtPasses
    <3>3. QED BY <3>1, <3>2, CallsKept DEF Lifecycle!vars
  <2>4. CASE UNCHANGED vars
    BY <2>4, CallsKept DEF vars, Lifecycle!vars, StatusOf
  <2>5. QED BY <2>1, <2>2, <2>3, <2>4 DEF Next, PageStep
<1>2. QED
  BY <1>1, InitLifecycle, Inductive, PTL DEF Spec, ImplementsLifecycle, Lifecycle!Spec
=============================================================================
