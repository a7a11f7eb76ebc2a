------------------------------ MODULE Dispatch ------------------------------
(***************************************************************************)
(* Who owns a call: the emergency ticket, appointment request or follow-up *)
(* that tells the business about it, and the alert sent for a ticket.      *)
(*                                                                         *)
(* Two transactions of one call may be open at once: a turn, under the     *)
(* call's advisory lock, and an end-of-call report, which takes no lock.   *)
(* Each keeps its writes in tx[c][k].w until it commits; both may insert   *)
(* the call's ticket and its follow-up, each unique per call, and both may *)
(* update its conversation.  READ COMMITTED: a transaction sees its own    *)
(* writes and what others have committed, and waits for a row or a unique  *)
(* key that another has written.                                           *)
(***************************************************************************)
EXTENDS Naturals

CONSTANTS
  Calls,        \* calls; each has one conversation
  Dispatchers,  \* requests from the dashboard that may be open at once
  Outboxes,     \* deliver loops of the alert outbox
  NoCall,       \* the call of an idle loop or request
  MaxAttempts,  \* NOTIFICATION_MAX_ATTEMPTS
  MaxTurns,     \* bound: utterances per call
  MaxReports,   \* bound: end-of-call reports per call
  MaxFailures   \* bound: savepoints and transactions rolled back

ASSUME NoCallAssumption == NoCall \notin Calls
ASSUME AttemptsAssumption == MaxAttempts \in Nat \ {0}
ASSUME BoundsAssumption == {MaxTurns, MaxReports, MaxFailures} \subseteq Nat

Status == {"new", "assigned", "en_route", "resolved", "canceled"}
Closed == {"resolved", "canceled"}

\* Where the status endpoint may move a ticket.
AllowedTransitions(status) ==
  CASE status = "new"      -> {"assigned", "canceled"}
    [] status = "assigned" -> {"en_route", "canceled"}
    [] status = "en_route" -> {"resolved", "canceled"}
    [] OTHER               -> {}

VARIABLES
  conversation,  \* the conversations table with its voice_calls row, messages
                 \* and outcome
  ticket,        \* the emergency_tickets table
  requested,     \* whether the call has a row in appointments
  paged,         \* whether the ticket has a row in emergency_pages
  followUp,      \* the call_follow_ups table
  alert,         \* the emergency_notifications table
  tx,            \* the open turn and the open report of each call
  staff,         \* the open request of each dispatcher
  outbox,        \* the alert each deliver loop is sending
  line,          \* the caller: the words said and not yet answered, all words
                 \* said so far, utterances and reports so far
  failures,      \* how many savepoints and transactions were rolled back
  failed,        \* history: recording the call's owner failed once
  handled,       \* history: a report on the call, known here, was handled
  finished,      \* history: the assistant ended the conversation
  accepted,      \* history: how often a provider accepted the call's alert
  lost           \* history: how often that came too late for the loop, or the
                 \* loop died before recording it

rows == <<conversation, ticket, requested, paged, followUp>>
alerting == <<alert, outbox, accepted, lost>>
history == <<failed, handled, finished>>
vars == <<rows, alerting, tx, staff, line, failures, history>>

\* What a caller's words amount to: hazards and emergency keywords make them
\* alarming.
Words == {"none", "plain", "alarming"}
Louder(u, v) ==
  IF "alarming" \in {u, v} THEN "alarming"
  ELSE IF "plain" \in {u, v} THEN "plain" ELSE "none"

\* The assistant's reading of a call: a question, a routine request to book,
\* an emergency to ticket.
Outcomes == {"question", "request", "emergency"}

NoConversation == [status |-> "none", words |-> "none", outcome |-> "none"]
NoTicket == [status |-> "none", closed |-> FALSE]
NoFollowUp == [open |-> FALSE, emergency |-> FALSE, resolved |-> FALSE]
NoAlert == [status |-> "none", attempts |-> 0, due |-> FALSE]

\* created: it inserted the voice call and the conversation; ends: it updated
\* the conversation to completed.
NoWrites ==
  [created |-> FALSE, words |-> "none", outcome |-> "none", ends |-> FALSE,
   ticket |-> FALSE, alert |-> "none", page |-> FALSE, request |-> FALSE,
   followUp |-> "none"]

\* saved: the writes at the open savepoint; step: what the savepoint is for;
\* words: the words the transaction judges by; byAssistant: the report found
\* the conversation completed.
Idle ==
  [phase |-> "idle", step |-> "none", words |-> "none", byAssistant |-> FALSE,
   w |-> NoWrites, saved |-> NoWrites]

Kinds == {"turn", "report"}
Other(k) == IF k = "turn" THEN "report" ELSE "turn"

NoRequest == [phase |-> "idle", call |-> NoCall, by |-> "none", to |-> "none",
              loaded |-> "none"]
NoSend == [call |-> NoCall, answer |-> "none"]

Init ==
  /\ conversation = [c \in Calls |-> NoConversation]
  /\ ticket = [c \in Calls |-> NoTicket]
  /\ requested = [c \in Calls |-> FALSE]
  /\ paged = [c \in Calls |-> FALSE]
  /\ followUp = [c \in Calls |-> NoFollowUp]
  /\ alert = [c \in Calls |-> NoAlert]
  /\ tx = [c \in Calls |-> [k \in Kinds |-> Idle]]
  /\ staff = [d \in Dispatchers |-> NoRequest]
  /\ outbox = [o \in Outboxes |-> NoSend]
  /\ line = [c \in Calls |->
              [pending |-> "none", words |-> "none", turns |-> 0, reports |-> 0]]
  /\ failures = 0
  /\ failed = [c \in Calls |-> FALSE]
  /\ handled = [c \in Calls |-> FALSE]
  /\ finished = [c \in Calls |-> FALSE]
  /\ accepted = [c \in Calls |-> 0]
  /\ lost = [c \in Calls |-> 0]

-----------------------------------------------------------------------------
(* Both transactions: tickets and follow-ups.                              *)

Set(c, k, t) == tx' = [tx EXCEPT ![c] = [@ EXCEPT ![k] = t]]

SeesTicket(c, k) == ticket[c].status # "none" \/ tx[c][k].w.ticket

\* A ticket has one alert, whoever queues it first.
AlertFor(c, queued) == IF alert[c].status = "none" THEN queued ELSE "none"

\* DispatchService's create branch: the ticket, its alert, its page.  The
\* insert waits for another transaction's ticket of the same call; if that one
\* commits, its ticket is used and no second alert or page is made.  A failed
\* page costs only the page; a business may have neither a destination for
\* alerts nor anyone to page.
CreateTicket(c, k) ==
  LET t == tx[c][k]
  IN  /\ t.phase = "creating"
      /\ ~tx[c][Other(k)].w.ticket
      /\ \E queued \in {"pending", "not_configured"}, page \in BOOLEAN :
           Set(c, k,
             [t EXCEPT
               !.phase = CASE t.step = "record" -> "marking"
                           [] t.step = "tool"   -> "open"
                           [] t.step = "sync"   -> "replied",
               !.w = [@ EXCEPT
                 !.ticket = ticket[c].status = "none",
                 !.alert = AlertFor(c, queued),
                 !.page = page /\ ~paged[c]]])
      /\ UNCHANGED <<rows, alerting, staff, line, failures, history>>

\* The follow-up of a call, unless it has one.
WithFollowUp(c, w) ==
  IF followUp[c].open THEN w ELSE [w EXCEPT !.followUp = "added"]

\* _record: the call's follow-up, unless it has one; then, for a possible
\* emergency it does not point at a ticket for, the ticket.
AddFollowUp(c, k) ==
  LET t == tx[c][k]
      w == WithFollowUp(c, t.w)
      opens == t.words = "alarming" /\ ~followUp[c].emergency
  IN  /\ t.phase = "adding"
      /\ tx[c][Other(k)].w.followUp = "none"
      /\ Set(c, k,
           [t EXCEPT !.w = w,
             !.phase = IF ~opens THEN "replied"
                       ELSE IF SeesTicket(c, k) THEN "marking" ELSE "creating"])
      /\ UNCHANGED <<rows, alerting, staff, line, failures, history>>

MarkPossibleEmergency(c, k) ==
  /\ tx[c][k].phase = "marking"
  /\ tx[c][Other(k)].w.followUp = "none"
  /\ Set(c, k, [tx[c][k] EXCEPT !.phase = "replied",
                                !.w = [@ EXCEPT !.followUp = "flagged"]])
  /\ UNCHANGED <<rows, alerting, staff, line, failures, history>>

Fails == failures < MaxFailures /\ failures' = failures + 1

\* Slip: the alert is queued in a session of its own and survives.
RecordFailsAlertKept(c, k) ==
  LET t == tx[c][k]
  IN  /\ t.phase \in {"adding", "creating", "marking", "syncing"}
      /\ t.step \in {"record", "sync"}
      /\ Fails
      /\ Set(c, k, [t EXCEPT !.phase = "replied",
                             !.w = [t.saved EXCEPT !.alert = t.w.alert]])
      /\ failed' = [failed EXCEPT ![c] = TRUE]
      /\ UNCHANGED <<rows, alerting, staff, line, handled, finished>>

\* A statement in the savepoint of _record or of the final sync fails, or is
\* the victim of a deadlock: its writes are undone, the transaction goes on.
RecordFails(c, k) ==
  LET t == tx[c][k]
  IN  /\ t.phase \in {"adding", "creating", "marking", "syncing"}
      /\ t.step \in {"record", "sync"}
      /\ Fails
      /\ Set(c, k, [t EXCEPT !.phase = "replied", !.w = t.saved])
      /\ failed' = [failed EXCEPT ![c] = TRUE]
      /\ UNCHANGED <<rows, alerting, staff, line, handled, finished>>

\* The commit fails, the turn outlives the drain after a hang-up, or the
\* process dies.
RollBack(c, k) ==
  /\ tx[c][k].phase # "idle"
  /\ Fails
  /\ Set(c, k, Idle)
  /\ UNCHANGED <<rows, alerting, staff, line, history>>

Merge(c, w) ==
  /\ conversation' = [conversation EXCEPT ![c] =
       [status  |-> IF w.ends THEN "completed"
                    ELSE IF w.created THEN "active" ELSE @.status,
        words   |-> Louder(@.words, w.words),
        outcome |-> IF w.outcome # "none" THEN w.outcome ELSE @.outcome]]
  /\ ticket' = [ticket EXCEPT ![c] =
       IF w.ticket THEN [status |-> "new", closed |-> FALSE] ELSE @]
  /\ alert' = [alert EXCEPT ![c] =
       IF w.alert = "none" THEN @
       ELSE [status |-> w.alert, attempts |-> 0, due |-> w.alert = "pending"]]
  /\ requested' = [requested EXCEPT ![c] = @ \/ w.request]
  /\ paged' = [paged EXCEPT ![c] = @ \/ w.page]
  /\ followUp' = [followUp EXCEPT ![c] =
       IF w.followUp = "none" THEN @
       ELSE [@ EXCEPT !.open = TRUE,
                      !.emergency = followUp[c].emergency \/ w.followUp = "flagged"]]

\* get_db commits the request; a finished turn has written its messages.
Commit(c, k) ==
  LET t == tx[c][k]
  IN  /\ t.phase = "replied"
      /\ Merge(c, t.w)
      /\ Set(c, k, Idle)
      /\ handled' = [handled EXCEPT ![c] = @ \/ k = "report"]
      /\ finished' = [finished EXCEPT ![c] = @ \/ (k = "turn" /\ t.w.ends)]
      /\ UNCHANGED <<outbox, accepted, lost, staff, line, failures, failed>>

-----------------------------------------------------------------------------
(* A turn.                                                                 *)

\* Vapi sends what the caller said; the request may wait for the call lock
\* while the call ends.
Speak(c, words) ==
  /\ line[c].pending = "none" /\ line[c].reports = 0
  /\ line[c].turns < MaxTurns
  /\ line' = [line EXCEPT ![c].pending = words, ![c].words = Louder(@, words),
                          ![c].turns = @ + 1]
  /\ UNCHANGED <<rows, alerting, tx, staff, failures, history>>

\* An assistant set to ask ERRS for its opening words makes the call known
\* before anybody has spoken.
OpenCall(c) ==
  /\ line[c].turns = 0 /\ line[c].reports = 0
  /\ conversation[c].status = "none"
  /\ conversation' = [conversation EXCEPT ![c] = [@ EXCEPT !.status = "active"]]
  /\ UNCHANGED <<ticket, requested, paged, followUp, alerting, tx, staff, line,
                 failures, history>>

BeginTurn(c) ==
  /\ tx[c]["turn"].phase = "idle" /\ line[c].pending # "none"
  /\ conversation[c].status # "completed"
  /\ Set(c, "turn",
       [Idle EXCEPT !.phase = "open", !.words = line[c].pending,
          !.w = [NoWrites EXCEPT !.created = conversation[c].status = "none"]])
  /\ line' = [line EXCEPT ![c].pending = "none"]
  /\ UNCHANGED <<rows, alerting, staff, failures, history>>

\* ConversationCompletedError: the caller is told, nothing is recorded.
RefuseTurn(c) ==
  /\ tx[c]["turn"].phase = "idle" /\ line[c].pending # "none"
  /\ conversation[c].status = "completed"
  /\ line' = [line EXCEPT ![c].pending = "none"]
  /\ UNCHANGED <<rows, alerting, tx, staff, failures, history>>

\* The outcome, and from it the appointment or the ticket.  A call that has a
\* ticket keeps it.
CreateServiceRequest(c, outcome) ==
  LET t == tx[c]["turn"]
      w == [t.w EXCEPT !.outcome = outcome]
  IN  /\ t.phase = "open"
      /\ Set(c, "turn",
           IF outcome = "request"
           THEN [t EXCEPT !.w = [w EXCEPT !.request = TRUE]]
           ELSE IF SeesTicket(c, "turn") THEN [t EXCEPT !.w = w]
           ELSE [t EXCEPT !.phase = "creating", !.step = "tool",
                          !.saved = t.w, !.w = w])
      /\ UNCHANGED <<rows, alerting, staff, line, failures, history>>

\* A failed or timed-out tool is undone and the model is told.
ToolFails(c) ==
  LET t == tx[c]["turn"]
  IN  /\ t.phase = "creating" /\ t.step = "tool"
      /\ Set(c, "turn", [t EXCEPT !.phase = "open", !.w = t.saved])
      /\ UNCHANGED <<rows, alerting, staff, line, failures, history>>

\* _write_turn: the messages, the outcome, and whether the assistant has
\* finished; an update of the conversation waits for a report's.
WriteTurn(c, outcome, ends) ==
  LET t == tx[c]["turn"]
      w == [t.w EXCEPT !.words = t.words, !.outcome = outcome, !.ends = ends]
  IN  /\ t.phase = "open"
      /\ ends => ~tx[c]["report"].w.ends
      /\ Set(c, "turn", [t EXCEPT !.phase = "syncing", !.step = "sync",
                                  !.w = w, !.saved = w])
      /\ UNCHANGED <<rows, alerting, staff, line, failures, history>>

\* _run_outcome_syncs, after the caller has heard the reply.
SyncOutcome(c) ==
  LET t == tx[c]["turn"]
  IN  /\ t.phase = "syncing"
      /\ Set(c, "turn",
           IF t.w.outcome = "emergency" /\ ~SeesTicket(c, "turn")
           THEN [t EXCEPT !.phase = "creating"]
           ELSE [t EXCEPT !.phase = "replied",
                          !.w = [@ EXCEPT !.request =
                                   t.w.request \/ t.w.outcome = "request"]])
      /\ UNCHANGED <<rows, alerting, staff, line, failures, history>>

\* The provider failed, or the turn could not be written: handle_ai_failure
\* judges by this utterance and the messages of earlier turns.
FailTurn(c) ==
  LET t == tx[c]["turn"]
  IN  /\ t.phase = "open"
      /\ Set(c, "turn", [t EXCEPT !.phase = "adding", !.step = "record",
                           !.words = Louder(@, conversation[c].words),
                           !.saved = t.w])
      /\ UNCHANGED <<rows, alerting, staff, line, failures, history>>

-----------------------------------------------------------------------------
(* An end-of-call report; Vapi may deliver it again.                       *)

ReportArrives(c) ==
  LET status == conversation[c].status
  IN  /\ tx[c]["report"].phase = "idle"
      /\ line[c].reports < MaxReports
      /\ line' = [line EXCEPT ![c].reports = @ + 1]
      /\ IF status = "none"
         THEN UNCHANGED tx    \* "nothing to reconcile"
         ELSE Set(c, "report",
                [Idle EXCEPT
                  !.phase = IF status = "active" THEN "ending" ELSE "looking",
                  !.byAssistant = status = "completed"])
      /\ UNCHANGED <<rows, alerting, staff, failures, history>>

\* Slip: whether the assistant finished is read after the report's own update.
EndConversationFirst(c) ==
  LET t == tx[c]["report"]
  IN  /\ t.phase = "ending"
      /\ ~tx[c]["turn"].w.ends
      /\ Set(c, "report", [t EXCEPT !.phase = "looking", !.byAssistant = TRUE,
                                    !.w = [@ EXCEPT !.ends = TRUE]])
      /\ UNCHANGED <<rows, alerting, staff, line, failures, history>>

\* The update of the conversation waits for a turn's.
EndConversation(c) ==
  LET t == tx[c]["report"]
  IN  /\ t.phase = "ending"
      /\ ~tx[c]["turn"].w.ends
      /\ Set(c, "report", [t EXCEPT !.phase = "looking",
                                    !.w = [@ EXCEPT !.ends = TRUE]])
      /\ UNCHANGED <<rows, alerting, staff, line, failures, history>>

\* handle_call_ended judges by all the caller said: the report brings Vapi's
\* own transcript.
LookForFollowUp(c) ==
  LET t == tx[c]["report"]
      heard == [t EXCEPT !.words = line[c].words, !.saved = t.w,
                         !.step = "record"]
  IN  /\ t.phase = "looking"
      /\ Set(c, "report",
           [heard EXCEPT !.phase =
              IF ~followUp[c].open THEN "checking"
              ELSE IF heard.words = "alarming" /\ ~followUp[c].emergency
              THEN "adding" ELSE "replied"])
      /\ UNCHANGED <<rows, alerting, staff, line, failures, history>>

\* A follow-up, unless the request is recorded, nothing was said, or the
\* assistant finished a call that was neither alarming nor transferred.
LookForRequest(c) ==
  LET t == tx[c]["report"]
      recorded == ticket[c].status # "none" \/ requested[c]
  IN  /\ t.phase = "checking"
      /\ \E transferred \in BOOLEAN :
           Set(c, "report",
             [t EXCEPT !.phase =
                IF \/ recorded \/ t.words = "none"
                   \/ ~transferred /\ t.byAssistant /\ t.words # "alarming"
                THEN "replied" ELSE "adding"])
      /\ UNCHANGED <<rows, alerting, staff, line, failures, history>>

-----------------------------------------------------------------------------
(* The dashboard.  A request checks what it has read, loads the row again  *)
(* to write it, and writes the columns that differ from that.              *)

\* assign_ticket and update_ticket_status, up to the check.
CheckTicket(d, c, by, to) ==
  /\ staff[d].phase = "idle"
  /\ ticket[c].status # "none"
  /\ IF by = "assign" THEN ticket[c].status \notin Closed /\ to = "assigned"
     ELSE to \in AllowedTransitions(ticket[c].status)
  /\ staff' = [staff EXCEPT ![d] =
       [NoRequest EXCEPT !.phase = "checked", !.call = c, !.by = by, !.to = to]]
  /\ UNCHANGED <<rows, alerting, tx, line, failures, history>>

LoadTicket(d) ==
  LET r == staff[d]
  IN  /\ r.phase = "checked"
      /\ staff' = [staff EXCEPT ![d] =
           [r EXCEPT !.phase = "loaded", !.loaded = ticket[r.call].status]]
      /\ UNCHANGED <<rows, alerting, tx, line, failures, history>>

WriteTicket(d) ==
  LET r == staff[d]
  IN  /\ r.phase = "loaded"
      /\ ticket' = [ticket EXCEPT ![r.call] =
           [status |-> IF r.loaded # r.to THEN r.to ELSE @.status,
            closed |-> @.closed \/ r.to \in Closed]]
      /\ staff' = [staff EXCEPT ![d] = NoRequest]
      /\ UNCHANGED <<conversation, requested, paged, followUp, alerting, tx,
                     line, failures, history>>

\* resolve: read, then written if it was not resolved.
LoadFollowUp(d, c) ==
  /\ staff[d].phase = "idle"
  /\ followUp[c].open /\ ~followUp[c].resolved
  /\ staff' = [staff EXCEPT ![d] =
       [NoRequest EXCEPT !.phase = "resolving", !.call = c, !.by = "resolve"]]
  /\ UNCHANGED <<rows, alerting, tx, line, failures, history>>

ResolveFollowUp(d) ==
  LET r == staff[d]
  IN  /\ r.phase = "resolving"
      /\ \A k \in Kinds : tx[r.call][k].w.followUp = "none"
      /\ followUp' = [followUp EXCEPT ![r.call] = [@ EXCEPT !.resolved = TRUE]]
      /\ staff' = [staff EXCEPT ![d] = NoRequest]
      /\ UNCHANGED <<conversation, ticket, requested, paged, alerting, tx, line,
                     failures, history>>

RequestFails(d) ==
  /\ staff[d].phase # "idle"
  /\ Fails
  /\ staff' = [staff EXCEPT ![d] = NoRequest]
  /\ UNCHANGED <<rows, alerting, tx, line, history>>

-----------------------------------------------------------------------------
(* The alert outbox.  A loop locks one due row, calls the provider and     *)
(* records the answer in one transaction; other loops skip a locked row.   *)

Locked(c) == \E o \in Outboxes : outbox[o].call = c

\* Slip: the due row is selected without FOR UPDATE SKIP LOCKED.
LockNextDueUnlocked(o, c) ==
  /\ outbox[o].call = NoCall
  /\ alert[c].status \in {"pending", "failed"} /\ alert[c].due
  /\ outbox' = [outbox EXCEPT ![o] = [call |-> c, answer |-> "none"]]
  /\ UNCHANGED <<rows, alert, accepted, lost, tx, staff, line, failures, history>>

LockNextDue(o, c) ==
  /\ outbox[o].call = NoCall
  /\ alert[c].status \in {"pending", "failed"} /\ alert[c].due
  /\ ~Locked(c)
  /\ outbox' = [outbox EXCEPT ![o] = [call |-> c, answer |-> "none"]]
  /\ UNCHANGED <<rows, alert, accepted, lost, tx, staff, line, failures, history>>

\* The destination may have been removed since the alert was queued; a provider
\* that answers too late may have accepted all the same.
Attempt(o) ==
  LET c == outbox[o].call
  IN  /\ c # NoCall /\ outbox[o].answer = "none"
      /\ \E answer \in {"delivered", "failed", "not_configured"}, late \in BOOLEAN :
           LET n == IF answer = "delivered" \/ (answer = "failed" /\ late)
                    THEN 1 ELSE 0
           IN  /\ outbox' = [outbox EXCEPT ![o] = [@ EXCEPT !.answer = answer]]
               /\ accepted' = [accepted EXCEPT ![c] = @ + n]
               /\ lost' = [lost EXCEPT ![c] =
                    IF answer = "failed" THEN @ + n ELSE @]
      /\ UNCHANGED <<rows, alert, tx, staff, line, failures, history>>

\* Retried until the attempts are spent.
RecordAttempt(o) ==
  LET s == outbox[o]
  IN  /\ s.answer # "none"
      /\ alert' = [alert EXCEPT ![s.call] =
           [status |-> s.answer, attempts |-> @.attempts + 1, due |-> FALSE]]
      /\ outbox' = [outbox EXCEPT ![o] = NoSend]
      /\ UNCHANGED <<rows, accepted, lost, tx, staff, line, failures, history>>

\* Slip: the last attempt is never made.
RetryDueOneShort(c) ==
  /\ alert[c].status = "failed" /\ alert[c].attempts + 1 < MaxAttempts
  /\ ~alert[c].due
  /\ alert' = [alert EXCEPT ![c] = [@ EXCEPT !.due = TRUE]]
  /\ UNCHANGED <<rows, outbox, accepted, lost, tx, staff, line, failures, history>>

RetryDue(c) ==
  /\ alert[c].status = "failed" /\ alert[c].attempts < MaxAttempts
  /\ ~alert[c].due
  /\ alert' = [alert EXCEPT ![c] = [@ EXCEPT !.due = TRUE]]
  /\ UNCHANGED <<rows, outbox, accepted, lost, tx, staff, line, failures, history>>

\* The loop dies, or the record fails: the row is untouched and still due.
DeliverFails(o) ==
  LET s == outbox[o]
  IN  /\ s.call # NoCall
      /\ Fails
      /\ outbox' = [outbox EXCEPT ![o] = NoSend]
      /\ lost' = [lost EXCEPT ![s.call] =
           IF s.answer = "delivered" THEN @ + 1 ELSE @]
      /\ UNCHANGED <<rows, alert, accepted, tx, staff, line, history>>

-----------------------------------------------------------------------------
TransactionStep(c, k) ==
  \/ CreateTicket(c, k) \/ AddFollowUp(c, k) \/ MarkPossibleEmergency(c, k)
  \/ RecordFails(c, k) \/ RollBack(c, k) \/ Commit(c, k)

TurnStep(c) ==
  \/ \E words \in Words \ {"none"} : Speak(c, words)
  \/ OpenCall(c) \/ BeginTurn(c) \/ RefuseTurn(c)
  \/ \E outcome \in Outcomes \ {"question"} : CreateServiceRequest(c, outcome)
  \/ \E outcome \in Outcomes, ends \in BOOLEAN : WriteTurn(c, outcome, ends)
  \/ ToolFails(c) \/ SyncOutcome(c) \/ FailTurn(c)

ReportStep(c) ==
  \/ ReportArrives(c) \/ EndConversation(c)
  \/ LookForFollowUp(c) \/ LookForRequest(c)

StaffStep(d) ==
  \/ \E c \in Calls, by \in {"assign", "status"}, to \in Status :
       CheckTicket(d, c, by, to)
  \/ \E c \in Calls : LoadFollowUp(d, c)
  \/ LoadTicket(d) \/ WriteTicket(d) \/ ResolveFollowUp(d) \/ RequestFails(d)

OutboxStep(o) ==
  \/ \E c \in Calls : LockNextDue(o, c)
  \/ Attempt(o) \/ RecordAttempt(o) \/ DeliverFails(o)

Next ==
  \/ \E c \in Calls :
       \/ \E k \in Kinds : TransactionStep(c, k)
       \/ TurnStep(c) \/ ReportStep(c) \/ RetryDue(c)
  \/ \E d \in Dispatchers : StaffStep(d)
  \/ \E o \in Outboxes : OutboxStep(o)

Spec == Init /\ [][Next]_vars

\* run_forever polls until shutdown, catches what a tick raises, and bounds a
\* provider call by NOTIFICATION_TIMEOUT_SECONDS; the clock runs.
Fairness ==
  /\ \A o \in Outboxes :
       WF_vars((\E c \in Calls : LockNextDue(o, c)) \/ Attempt(o)
               \/ RecordAttempt(o))
  /\ \A c \in Calls : WF_vars(RetryDue(c))

FairSpec == Spec /\ Fairness

-----------------------------------------------------------------------------
(* Properties.                                                             *)

Writes ==
  [created : BOOLEAN, words : Words, outcome : Outcomes \union {"none"},
   ends : BOOLEAN, ticket : BOOLEAN,
   alert : {"none", "pending", "not_configured"}, page : BOOLEAN,
   request : BOOLEAN, followUp : {"none", "added", "flagged"}]
Transactions ==
  [phase : {"idle", "open", "creating", "adding", "marking", "syncing",
            "replied", "ending", "looking", "checking"},
   step : {"none", "tool", "sync", "record"}, words : Words,
   byAssistant : BOOLEAN, w : Writes, saved : Writes]

TypeOK ==
  /\ conversation \in [Calls ->
       [status : {"none", "active", "completed"}, words : Words,
        outcome : Outcomes \union {"none"}]]
  /\ ticket \in [Calls -> [status : Status \union {"none"}, closed : BOOLEAN]]
  /\ requested \in [Calls -> BOOLEAN]
  /\ paged \in [Calls -> BOOLEAN]
  /\ followUp \in [Calls ->
       [open : BOOLEAN, emergency : BOOLEAN, resolved : BOOLEAN]]
  /\ alert \in [Calls ->
       [status : {"none", "pending", "failed", "delivered", "not_configured"},
        attempts : 0..MaxAttempts, due : BOOLEAN]]
  /\ tx \in [Calls -> [Kinds -> Transactions]]
  /\ staff \in [Dispatchers ->
       [phase : {"idle", "checked", "loaded", "resolving"},
        call : Calls \union {NoCall},
        by : {"none", "assign", "status", "resolve"},
        to : Status \union {"none"}, loaded : Status \union {"none"}]]
  /\ outbox \in [Outboxes ->
       [call : Calls \union {NoCall},
        answer : {"none", "delivered", "failed", "not_configured"}]]
  /\ line \in [Calls ->
       [pending : Words, words : Words, turns : 0..MaxTurns,
        reports : 0..MaxReports]]
  /\ failures \in 0..MaxFailures
  /\ {failed, handled, finished} \subseteq [Calls -> BOOLEAN]
  /\ {accepted, lost} \subseteq [Calls -> Nat]

\* Nothing of the call is under way.
Quiet(c) ==
  line[c].pending = "none" /\ \A k \in Kinds : tx[c][k].phase = "idle"

\* Somebody at the business will hear of the call; of an alarming one, as an
\* emergency.
Owned(c) ==
  \/ ticket[c].status # "none" \/ requested[c]
  \/ followUp[c].open /\ (line[c].words = "alarming" => followUp[c].emergency)

\* The caller said something that the assistant did not settle itself.
NeedsOwner(c) ==
  /\ line[c].words # "none"
  /\ ~(/\ finished[c] /\ conversation[c].outcome = "question"
       /\ line[c].words # "alarming")

\* The outbox: a ticket and its alert are committed together, whoever made
\* the ticket and whatever was rolled back.
AlertWithTicket ==
  \A c \in Calls : (ticket[c].status = "none") <=> (alert[c].status = "none")

\* A follow-up for a possible emergency points at a ticket, and nobody is paged
\* for a ticket that was rolled back.
EmergencyHasTicket ==
  \A c \in Calls :
    followUp[c].emergency \/ paged[c] => ticket[c].status # "none"

\* Once a report on a known call is handled, the call has an owner, whatever
\* turns were under way, however often the report came.
ReportedCallHasOwner ==
  \A c \in Calls :
    handled[c] /\ NeedsOwner(c) /\ ~failed[c] => Owned(c)

\* Every call that has ended has an owner.
EndedCallHasOwner ==
  \A c \in Calls :
    line[c].reports > 0 /\ Quiet(c) /\ NeedsOwner(c) /\ ~failed[c] => Owned(c)

\* A closed ticket has its closing time, whichever halves of two updates won.
ClosedIsStamped ==
  \A c \in Calls : ticket[c].status \in Closed => ticket[c].closed

\* Types, a ticket and its alert together, an emergency with its ticket, and no
\* ticket half closed.
DispatchInv == TypeOK /\ AlertWithTicket /\ EmergencyHasTicket /\ ClosedIsStamped

\* A provider accepts an alert a second time only if the first acceptance came
\* after the timeout, or its loop died before recording it: two loops never send
\* one alert at once.
AlertedAgainOnlyIfLost == \A c \in Calls : accepted[c] <= 1 + lost[c]

\* A queued alert is delivered, or all its attempts are spent, or nowhere is
\* configured to send it.
AlertSettled(c) ==
  \/ alert[c].status \in {"delivered", "not_configured"}
  \/ alert[c].status = "failed" /\ alert[c].attempts = MaxAttempts
AlertSettles == \A c \in Calls : alert[c].status # "none" ~> AlertSettled(c)
=============================================================================
