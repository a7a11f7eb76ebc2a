--------------------------- MODULE DispatchProofs ---------------------------
(***************************************************************************)
(* For any calls, dispatchers, deliver loops and bounds: a ticket and its  *)
(* alert come together, an emergency has its ticket and a closed ticket    *)
(* its time; an alert is accepted twice only if an acceptance was lost;    *)
(* and a call whose report was handled has an owner.                       *)
(*                                                                         *)
(* A transaction's writes are judged as they will be once committed, and   *)
(* so are those it would fall back to (Backed).  A report may trust the    *)
(* word that the assistant finished only because what completes a          *)
(* conversation is the assistant's last turn, which leaves a ticket or an  *)
(* appointment unless it answered a question, or an earlier report, which  *)
(* left an owner (Ended).                                                  *)
(***************************************************************************)
EXTENDS Dispatch, TLAPS

Conversations ==
  [status : {"none", "active", "completed"}, words : Words,
   outcome : Outcomes \union {"none"}]
Tickets == [status : Status \union {"none"}, closed : BOOLEAN]
FollowUps == [open : BOOLEAN, emergency : BOOLEAN, resolved : BOOLEAN]
Alerts ==
  [status : {"none", "pending", "failed", "delivered", "not_configured"},
   attempts : 0..MaxAttempts, due : BOOLEAN]
Requests ==
  [phase : {"idle", "checked", "loaded", "resolving"}, call : Calls \union {NoCall},
   by : {"none", "assign", "status", "resolve"}, to : Status \union {"none"},
   loaded : Status \union {"none"}]
Sends ==
  [call : Calls \union {NoCall},
   answer : {"none", "delivered", "failed", "not_configured"}]
Lines == [pending : Words, words : Words, turns : 0..MaxTurns, reports : 0..MaxReports]

Typed ==
  /\ conversation \in [Calls -> Conversations] /\ ticket \in [Calls -> Tickets]
  /\ requested \in [Calls -> BOOLEAN] /\ paged \in [Calls -> BOOLEAN]
  /\ followUp \in [Calls -> FollowUps] /\ alert \in [Calls -> Alerts]
  /\ tx \in [Calls -> [Kinds -> Transactions]]
  /\ staff \in [Dispatchers -> Requests] /\ outbox \in [Outboxes -> Sends]
  /\ line \in [Calls -> Lines] /\ failures \in 0..MaxFailures
  /\ failed \in [Calls -> BOOLEAN] /\ handled \in [Calls -> BOOLEAN]
  /\ finished \in [Calls -> BOOLEAN]
  /\ accepted \in [Calls -> Nat] /\ lost \in [Calls -> Nat]

HasTicket(c, w) == ticket[c].status # "none" \/ w.ticket

\* These writes bring a ticket and its alert together, and a page or a flag only
\* with a ticket.
Backed(c, w) ==
  /\ w.ticket <=> w.alert # "none"
  /\ w.page \/ w.followUp = "flagged" => HasTicket(c, w)

\* The assistant has settled a question, and nothing alarming was said.
Excused(c) ==
  finished[c] /\ conversation[c].outcome = "question" /\ line[c].words # "alarming"

\* Once these writes are committed the call has an owner, or needs none.
Settled(c, w) ==
  \/ line[c].words = "none" \/ Excused(c)
  \/ HasTicket(c, w) \/ requested[c] \/ w.request
  \/ /\ followUp[c].open \/ w.followUp # "none"
     /\ line[c].words = "alarming" => followUp[c].emergency \/ w.followUp = "flagged"

\* A transaction of either kind.
Sound(c, t) ==
  /\ t.phase = "idle" => t = Idle
  /\ t.phase = "creating" => ~t.w.ticket /\ t.step # "none"
  /\ t.phase \in {"adding", "marking"} => t.step = "record"
  /\ t.phase = "syncing" => t.step = "sync"
  /\ t.phase = "marking" => HasTicket(c, t.w)
  /\ Backed(c, t.w) /\ Backed(c, t.saved)
  /\ t.saved.ticket => t.w.ticket
  /\ t.w.ticket => ticket[c].status = "none"

\* A turn: it creates a conversation that is not there, and ends one only with an
\* outcome that is recorded by the time it has replied.
SoundTurn(c, t) ==
  /\ t.phase # "idle" => line[c].turns > 0
  /\ t.w.created \/ t.saved.created => conversation[c].status = "none" /\ t.phase # "idle"
  /\ t.saved.ends => t.step = "sync" /\ t.saved.outcome # "none"
  /\ t.w.ends => /\ t.step = "sync" /\ t.w.outcome # "none"
                 /\ t.phase \in {"syncing", "creating", "replied"}
  /\ t.w.ends /\ t.phase = "replied" /\ ~failed[c] =>
       t.w.outcome = "question" \/ HasTicket(c, t.w) \/ t.w.request

\* A report: it judges by all that was said, and has left an owner when it has
\* replied.
SoundReport(c, t) ==
  /\ t.phase # "idle" => line[c].reports > 0 /\ conversation[c].status # "none"
  /\ t.phase \notin {"open", "syncing"}
  /\ ~t.w.created /\ ~t.saved.created /\ t.w.outcome = "none" /\ t.saved.outcome = "none"
  /\ t.byAssistant => conversation[c].status = "completed"
  /\ t.phase \in {"checking", "adding", "creating", "marking", "replied"} =>
       t.words = line[c].words /\ t.step = "record"
  /\ t.phase = "replied" /\ ~failed[c] => Settled(c, t.w)

Transacted ==
  \A c \in Calls :
    /\ \A k \in Kinds : Sound(c, tx[c][k])
    /\ SoundTurn(c, tx[c]["turn"]) /\ SoundReport(c, tx[c]["report"])
    /\ ~(tx[c]["turn"].w.ticket /\ tx[c]["report"].w.ticket)

\* What ends a conversation, and what is left of one that has ended.
Ended ==
  \A c \in Calls :
    /\ line[c].pending # "none" => line[c].turns > 0
    /\ conversation[c].status = "completed" => handled[c] \/ finished[c]
    /\ finished[c] => /\ conversation[c].status = "completed"
                      /\ tx[c]["turn"].phase = "idle"
    /\ finished[c] /\ ~failed[c] =>
         \/ conversation[c].outcome = "question"
         \/ ticket[c].status # "none" \/ requested[c]
    /\ handled[c] => line[c].reports > 0
    /\ handled[c] /\ ~failed[c] => Settled(c, NoWrites)

\* What a dispatcher has checked stays so.
Checked ==
  \A d \in Dispatchers :
    LET r == staff[d]
    IN  /\ r.phase # "idle" => r.call \in Calls
        /\ r.phase \in {"checked", "loaded"} =>
             ticket[r.call].status # "none" /\ r.to \in Status

\* A row that is being sent is locked by one loop, due, and has an attempt left.
Sending ==
  /\ \A o, p \in Outboxes : outbox[o].call = outbox[p].call => o = p \/ outbox[o].call = NoCall
  /\ \A o \in Outboxes :
       /\ outbox[o].call = NoCall => outbox[o] = NoSend
       /\ outbox[o].call # NoCall =>
            /\ alert[outbox[o].call].status \in {"pending", "failed"}
            /\ alert[outbox[o].call].due
  /\ \A c \in Calls :
       /\ alert[c].status = "pending" => alert[c].attempts = 0
       /\ alert[c].status = "failed" /\ alert[c].due => alert[c].attempts < MaxAttempts

\* Every acceptance but the recorded one was lost.
Counts ==
  \A c \in Calls :
    accepted[c] = lost[c] + (IF \/ alert[c].status = "delivered"
                                \/ \E o \in Outboxes :
                                     outbox[o] = [call |-> c, answer |-> "delivered"]
                             THEN 1 ELSE 0)

DispatchIInv ==
  /\ Typed /\ Transacted /\ Ended /\ Checked /\ Sending /\ Counts
  /\ AlertWithTicket /\ EmergencyHasTicket /\ ClosedIsStamped

-----------------------------------------------------------------------------
(* Initial states.                                                         *)

LEMMA Bounds ==
  /\ MaxAttempts \in Nat /\ MaxAttempts > 0
  /\ MaxTurns \in Nat /\ MaxReports \in Nat /\ MaxFailures \in Nat
BY AttemptsAssumption, BoundsAssumption

LEMMA Nothing ==
  /\ Idle \in Transactions /\ Idle.phase = "idle" /\ Idle.w = NoWrites /\ Idle.saved = NoWrites
  /\ ~Idle.byAssistant /\ Idle.step = "none"
  /\ NoWrites \in Writes /\ NoWrites.alert = "none" /\ NoWrites.followUp = "none"
  /\ NoWrites.outcome = "none" /\ ~NoWrites.ticket /\ ~NoWrites.page /\ ~NoWrites.request
  /\ ~NoWrites.ends /\ ~NoWrites.created
<1>1. /\ NoWrites \in Writes /\ NoWrites.alert = "none" /\ NoWrites.followUp = "none"
      /\ NoWrites.outcome = "none" /\ ~NoWrites.ticket /\ ~NoWrites.page /\ ~NoWrites.request
      /\ ~NoWrites.ends /\ ~NoWrites.created
  BY DEF NoWrites, Writes, Words, Outcomes
<1>2. Idle \in Transactions
  BY <1>1 DEF Idle, Transactions, Words
<1>3. QED BY <1>1, <1>2 DEF Idle

\* A transaction that has not begun asks nothing of the call.
LEMMA IdleIsSound ==
  ASSUME NEW c \in Calls
  PROVE  Sound(c, Idle) /\ SoundTurn(c, Idle) /\ SoundReport(c, Idle)
BY Nothing DEF Sound, Backed, HasTicket, SoundTurn, SoundReport

LEMMA InitIInv == Init => DispatchIInv
<1> SUFFICES ASSUME Init PROVE DispatchIInv
  OBVIOUS
<1>1. Typed
  <2>1. conversation \in [Calls -> Conversations] /\ ticket \in [Calls -> Tickets]
    BY DEF Init, Conversations, NoConversation, Tickets, NoTicket, Words
  <2>2. followUp \in [Calls -> FollowUps] /\ alert \in [Calls -> Alerts]
    BY Bounds DEF Init, FollowUps, NoFollowUp, Alerts, NoAlert
  <2>3. /\ requested \in [Calls -> BOOLEAN] /\ paged \in [Calls -> BOOLEAN]
        /\ tx \in [Calls -> [Kinds -> Transactions]]
    BY Nothing DEF Init
  <2>4. staff \in [Dispatchers -> Requests] /\ outbox \in [Outboxes -> Sends]
    BY DEF Init, Requests, NoRequest, Sends, NoSend
  <2>5. line \in [Calls -> Lines]
    BY Bounds DEF Init, Lines, Words
  <2>6. QED BY <2>1, <2>2, <2>3, <2>4, <2>5, Bounds DEF Init, Typed
<1>2. Transacted
  BY IdleIsSound, Nothing DEF Init, Transacted, Kinds
<1>3. Ended
  BY DEF Init, Ended, NoConversation
<1>4. Checked
  BY DEF Init, Checked, NoRequest
<1>5. Sending /\ Counts
  BY DEF Init, Sending, Counts, NoSend, NoAlert
<1>6. AlertWithTicket /\ EmergencyHasTicket /\ ClosedIsStamped
  BY DEF Init, AlertWithTicket, EmergencyHasTicket, ClosedIsStamped, NoTicket, NoAlert,
         NoFollowUp, Closed
<1>7. QED BY <1>1, <1>2, <1>3, <1>4, <1>5, <1>6 DEF DispatchIInv

-----------------------------------------------------------------------------
(* A step of one transaction that is not its commit.                       *)

\* What is committed stays, and more may be heard of the failures and the line.
Uncommitted ==
  /\ conversation' = conversation /\ ticket' = ticket /\ requested' = requested
  /\ paged' = paged /\ followUp' = followUp /\ alert' = alert /\ outbox' = outbox
  /\ accepted' = accepted /\ lost' = lost /\ staff' = staff
  /\ handled' = handled /\ finished' = finished
  /\ failures' \in 0..MaxFailures
  /\ failed' \in [Calls -> BOOLEAN] /\ \A b \in Calls : failed[b] => failed'[b]
  /\ line' \in [Calls -> Lines]
  /\ \A b \in Calls :
       /\ line'[b].words = line[b].words /\ line'[b].turns = line[b].turns
       /\ line[b].reports > 0 => line'[b].reports > 0
       /\ line'[b].pending \in {"none", line[b].pending}

LEMMA SetIInv ==
  ASSUME DispatchIInv, NEW c \in Calls, NEW k \in Kinds, NEW t \in Transactions,
         Set(c, k, t), Uncommitted, Sound(c, t),
         t.w.ticket => ~tx[c][Other(k)].w.ticket,
         k = "turn" => SoundTurn(c, t)' /\ (t.phase # "idle" => ~finished[c]),
         k = "report" => SoundReport(c, t)'
  PROVE  DispatchIInv'
<1> Typed
  BY DEF DispatchIInv
<1>1. /\ tx' \in [Calls -> [Kinds -> Transactions]]
      /\ tx'[c][k] = t
      /\ \A b \in Calls, j \in Kinds : b # c \/ j # k => tx'[b][j] = tx[b][j]
  BY DEF Set, Typed
<1>2. Typed'
  BY <1>1 DEF Typed, Uncommitted
<1>3. Transacted'
  <2>1. \A u : \A b \in Calls : Sound(b, u) => Sound(b, u)'
    BY DEF Uncommitted, Sound, Backed, HasTicket
  <2>2. \A u : \A b \in Calls : SoundTurn(b, u) => SoundTurn(b, u)'
    BY DEF Uncommitted, SoundTurn, HasTicket
  <2>3. \A u : \A b \in Calls : SoundReport(b, u) => SoundReport(b, u)'
    BY DEF Uncommitted, SoundReport, HasTicket, Settled, Excused
  <2>4. QED BY <1>1, <2>1, <2>2, <2>3 DEF DispatchIInv, Transacted, Kinds, Other
<1>4. Ended'
  BY <1>1 DEF DispatchIInv, Ended, Uncommitted, Settled, Excused, HasTicket, Kinds
<1>5. Checked' /\ Sending' /\ Counts'
  BY DEF DispatchIInv, Checked, Sending, Counts, Uncommitted
<1>6. AlertWithTicket' /\ EmergencyHasTicket' /\ ClosedIsStamped'
  BY DEF DispatchIInv, AlertWithTicket, EmergencyHasTicket, ClosedIsStamped, Uncommitted
<1>7. QED BY <1>2, <1>3, <1>4, <1>5, <1>6 DEF DispatchIInv

LEMMA UncommittedIInv ==
  ASSUME DispatchIInv, Uncommitted, tx' = tx
  PROVE  DispatchIInv'
<1>1. Typed'
  BY DEF DispatchIInv, Typed, Uncommitted
<1>2. Transacted'
  BY DEF DispatchIInv, Transacted, Sound, SoundTurn, SoundReport, Backed, HasTicket, Settled,
         Excused, Uncommitted
<1>3. Ended' /\ Checked' /\ Sending' /\ Counts'
  BY DEF DispatchIInv, Ended, Checked, Sending, Counts, Uncommitted, Settled, Excused, HasTicket
<1>4. AlertWithTicket' /\ EmergencyHasTicket' /\ ClosedIsStamped'
  BY DEF DispatchIInv, AlertWithTicket, EmergencyHasTicket, ClosedIsStamped, Uncommitted
<1>5. QED BY <1>1, <1>2, <1>3, <1>4 DEF DispatchIInv

LEMMA StaysUncommitted ==
  ASSUME DispatchIInv, UNCHANGED <<rows, alerting, staff, line, failures, history>>
  PROVE  Uncommitted
BY DEF DispatchIInv, Typed, Uncommitted, rows, alerting, history, Lines

LEMMA FailsUncommitted ==
  ASSUME DispatchIInv, Fails, UNCHANGED <<rows, alerting, staff, line, handled, finished>>,
         NEW c \in Calls, failed' \in {failed, [failed EXCEPT ![c] = TRUE]}
  PROVE  Uncommitted
<1>1. failures' \in 0..MaxFailures
  BY Bounds DEF DispatchIInv, Typed, Fails
<1>2. failed' \in [Calls -> BOOLEAN] /\ \A b \in Calls : failed[b] => failed'[b]
  BY DEF DispatchIInv, Typed
<1>3. line' = line /\ line \in [Calls -> Lines]
  BY DEF DispatchIInv, Typed
<1>4. QED BY <1>1, <1>2, <1>3 DEF Uncommitted, rows, alerting

\* What is known of a transaction before its step.
LEMMA Begun ==
  ASSUME DispatchIInv, NEW c \in Calls, NEW k \in Kinds
  PROVE  /\ tx[c][k] \in Transactions /\ tx[c][k].w \in Writes /\ tx[c][k].saved \in Writes
         /\ Sound(c, tx[c][k])
         /\ tx[c][k].w.ticket => ~tx[c][Other(k)].w.ticket
         /\ k = "turn" => SoundTurn(c, tx[c][k]) /\ (tx[c][k].phase # "idle" => ~finished[c])
         /\ k = "report" => SoundReport(c, tx[c][k])
<1>1. tx[c][k] \in Transactions
  BY DEF DispatchIInv, Typed
<1>2. tx[c][k].w \in Writes /\ tx[c][k].saved \in Writes
  BY <1>1 DEF Transactions
<1>3. QED BY <1>1, <1>2 DEF DispatchIInv, Transacted, Ended, Kinds, Other

LEMMA CreateTicketIInv ==
  ASSUME DispatchIInv, NEW c \in Calls, NEW k \in Kinds, CreateTicket(c, k)
  PROVE  DispatchIInv'
<1>1. PICK t : t = tx[c][k]
  OBVIOUS
<1>2. PICK w, u : \E queued \in {"pending", "not_configured"}, page \in BOOLEAN :
        /\ w = [t.w EXCEPT !.ticket = ticket[c].status = "none",
                           !.alert = AlertFor(c, queued),
                           !.page = page /\ ~paged[c]]
        /\ u = [t EXCEPT !.phase = CASE t.step = "record" -> "marking"
                                     [] t.step = "tool"   -> "open"
                                     [] t.step = "sync"   -> "replied",
                         !.w = w]
        /\ Set(c, k, u)
  BY <1>1, Zenon DEF CreateTicket
<1>3. /\ t.phase = "creating" /\ ~tx[c][Other(k)].w.ticket
      /\ UNCHANGED <<rows, alerting, staff, line, failures, history>>
  BY <1>1 DEF CreateTicket
<1>4. /\ t \in Transactions /\ t.w \in Writes /\ Sound(c, t)
      /\ k = "turn" => SoundTurn(c, t) /\ ~finished[c]
      /\ k = "report" => SoundReport(c, t)
  BY <1>1, <1>3, Begun
<1>5. (ticket[c].status = "none") <=> (alert[c].status = "none")
  BY DEF DispatchIInv, AlertWithTicket
<1>6. /\ w \in Writes /\ (w.ticket <=> ticket[c].status = "none")
      /\ w.ticket <=> w.alert # "none"
      /\ w.created = t.w.created /\ w.words = t.w.words /\ w.outcome = t.w.outcome
      /\ w.ends = t.w.ends /\ w.request = t.w.request /\ w.followUp = t.w.followUp
  <2>1. paged[c] \in BOOLEAN
    BY DEF DispatchIInv, Typed
  <2>2. QED BY <1>2, <1>4, <1>5, <2>1 DEF Writes, AlertFor
<1>7. t.step \in {"tool", "sync", "record"}
  BY <1>3, <1>4 DEF Sound, Transactions
<1>8. /\ u \in Transactions /\ u.w = w /\ u.step = t.step /\ u.words = t.words
      /\ u.byAssistant = t.byAssistant /\ u.saved = t.saved
      /\ u.phase = IF t.step = "record" THEN "marking"
                   ELSE IF t.step = "tool" THEN "open" ELSE "replied"
  BY <1>2, <1>4, <1>6, <1>7 DEF Transactions
<1>9. HasTicket(c, w)
  BY <1>6 DEF HasTicket
<1>10. Sound(c, u)
  BY <1>3, <1>4, <1>6, <1>7, <1>8, <1>9 DEF Sound, Backed, HasTicket
<1>11. Uncommitted
  BY <1>3, StaysUncommitted
<1>12. k = "turn" => SoundTurn(c, u)'
  BY <1>3, <1>4, <1>6, <1>7, <1>8, <1>9, <1>11 DEF SoundTurn, HasTicket, Uncommitted
<1>13. k = "report" => SoundReport(c, u)'
  BY <1>3, <1>4, <1>6, <1>7, <1>8, <1>11 DEF SoundReport, Uncommitted, rows, history
<1>14. QED
  BY <1>2, <1>3, <1>4, <1>8, <1>10, <1>11, <1>12, <1>13, SetIInv

LEMMA AddFollowUpIInv ==
  ASSUME DispatchIInv, NEW c \in Calls, NEW k \in Kinds, AddFollowUp(c, k)
  PROVE  DispatchIInv'
<1>1. PICK t : t = tx[c][k]
  OBVIOUS
<1>2. PICK w, u :
        /\ w = WithFollowUp(c, t.w)
        /\ u = [t EXCEPT !.w = w,
                 !.phase = IF ~(t.words = "alarming" /\ ~followUp[c].emergency) THEN "replied"
                           ELSE IF SeesTicket(c, k) THEN "marking" ELSE "creating"]
        /\ Set(c, k, u)
  BY <1>1, Zenon DEF AddFollowUp
<1>3. /\ t.phase = "adding" /\ UNCHANGED <<rows, alerting, staff, line, failures, history>>
  BY <1>1 DEF AddFollowUp
<1>4. /\ t \in Transactions /\ t.w \in Writes /\ Sound(c, t)
      /\ t.w.ticket => ~tx[c][Other(k)].w.ticket
      /\ k = "turn" => SoundTurn(c, t) /\ ~finished[c]
      /\ k = "report" => SoundReport(c, t)
  BY <1>1, <1>3, Begun
<1>5. /\ w \in Writes /\ w.ticket = t.w.ticket /\ w.alert = t.w.alert /\ w.page = t.w.page
      /\ w.created = t.w.created /\ w.words = t.w.words /\ w.outcome = t.w.outcome
      /\ w.ends = t.w.ends /\ w.request = t.w.request
      /\ w.followUp \in {t.w.followUp, "added"}
      /\ followUp[c].open \/ w.followUp # "none"
  BY <1>2, <1>4 DEF Writes, WithFollowUp
<1>6. /\ u \in Transactions /\ u.w = w /\ u.step = t.step /\ u.words = t.words
      /\ u.byAssistant = t.byAssistant /\ u.saved = t.saved
      /\ u.phase = IF ~(t.words = "alarming" /\ ~followUp[c].emergency) THEN "replied"
                   ELSE IF SeesTicket(c, k) THEN "marking" ELSE "creating"
  BY <1>2, <1>4, <1>5 DEF Transactions
<1>7. SeesTicket(c, k) <=> HasTicket(c, w)
  BY <1>1, <1>5 DEF SeesTicket, HasTicket
<1>8. Sound(c, u)
  BY <1>3, <1>4, <1>5, <1>6, <1>7 DEF Sound, Backed, HasTicket
<1>9. Uncommitted
  BY <1>3, StaysUncommitted
<1>10. k = "turn" => SoundTurn(c, u)'
  BY <1>3, <1>4, <1>5, <1>6, <1>9 DEF Sound, SoundTurn, HasTicket, Uncommitted
<1>11. k = "report" => SoundReport(c, u)'
  BY <1>3, <1>4, <1>5, <1>6, <1>9 DEF SoundReport, Settled, Uncommitted, rows, history
<1>12. QED
  BY <1>2, <1>3, <1>4, <1>5, <1>6, <1>8, <1>9, <1>10, <1>11, SetIInv

LEMMA MarkPossibleEmergencyIInv ==
  ASSUME DispatchIInv, NEW c \in Calls, NEW k \in Kinds, MarkPossibleEmergency(c, k)
  PROVE  DispatchIInv'
<1>1. PICK t : t = tx[c][k]
  OBVIOUS
<1>2. PICK w, u :
        /\ w = [t.w EXCEPT !.followUp = "flagged"]
        /\ u = [t EXCEPT !.phase = "replied", !.w = w]
        /\ Set(c, k, u)
  BY <1>1, Zenon DEF MarkPossibleEmergency
<1>3. /\ t.phase = "marking" /\ UNCHANGED <<rows, alerting, staff, line, failures, history>>
  BY <1>1 DEF MarkPossibleEmergency
<1>4. /\ t \in Transactions /\ t.w \in Writes /\ Sound(c, t)
      /\ t.w.ticket => ~tx[c][Other(k)].w.ticket
      /\ k = "turn" => SoundTurn(c, t) /\ ~finished[c]
      /\ k = "report" => SoundReport(c, t)
  BY <1>1, <1>3, Begun
<1>5. /\ w \in Writes /\ w.ticket = t.w.ticket /\ w.alert = t.w.alert /\ w.page = t.w.page
      /\ w.created = t.w.created /\ w.words = t.w.words /\ w.outcome = t.w.outcome
      /\ w.ends = t.w.ends /\ w.request = t.w.request /\ w.followUp = "flagged"
  BY <1>2, <1>4 DEF Writes
<1>6. /\ u \in Transactions /\ u.w = w /\ u.step = t.step /\ u.words = t.words
      /\ u.byAssistant = t.byAssistant /\ u.saved = t.saved /\ u.phase = "replied"
  BY <1>2, <1>4, <1>5 DEF Transactions
<1>7. HasTicket(c, w)
  BY <1>3, <1>4, <1>5 DEF Sound, HasTicket
<1>8. Sound(c, u)
  BY <1>3, <1>4, <1>5, <1>6, <1>7 DEF Sound, Backed, HasTicket
<1>9. Uncommitted
  BY <1>3, StaysUncommitted
<1>10. k = "turn" => SoundTurn(c, u)'
  BY <1>3, <1>4, <1>5, <1>6, <1>9 DEF Sound, SoundTurn, HasTicket, Uncommitted
<1>11. k = "report" => SoundReport(c, u)'
  BY <1>3, <1>4, <1>5, <1>6, <1>7, <1>9
     DEF SoundReport, Settled, HasTicket, Uncommitted, rows, history
<1>12. QED
  BY <1>2, <1>3, <1>4, <1>5, <1>6, <1>8, <1>9, <1>10, <1>11, SetIInv

LEMMA RecordFailsIInv ==
  ASSUME DispatchIInv, NEW c \in Calls, NEW k \in Kinds, RecordFails(c, k)
  PROVE  DispatchIInv'
<1>1. PICK t : t = tx[c][k]
  OBVIOUS
<1>2. PICK u : u = [t EXCEPT !.phase = "replied", !.w = t.saved] /\ Set(c, k, u)
  BY <1>1, Zenon DEF RecordFails
<1>3. /\ t.phase \in {"adding", "creating", "marking", "syncing"}
      /\ t.step \in {"record", "sync"}
      /\ Fails /\ failed' = [failed EXCEPT ![c] = TRUE]
      /\ UNCHANGED <<rows, alerting, staff, line, handled, finished>>
  BY <1>1 DEF RecordFails
<1>4. /\ t \in Transactions /\ t.saved \in Writes /\ Sound(c, t)
      /\ t.w.ticket => ~tx[c][Other(k)].w.ticket
      /\ k = "turn" => SoundTurn(c, t) /\ ~finished[c]
      /\ k = "report" => SoundReport(c, t)
  BY <1>1, <1>3, Begun
<1>5. /\ u \in Transactions /\ u.w = t.saved /\ u.step = t.step /\ u.words = t.words
      /\ u.byAssistant = t.byAssistant /\ u.saved = t.saved /\ u.phase = "replied"
  BY <1>2, <1>4 DEF Transactions
<1>6. Sound(c, u)
  BY <1>3, <1>4, <1>5 DEF Sound
<1>7. Uncommitted /\ failed'[c]
  BY <1>3, FailsUncommitted DEF DispatchIInv, Typed
<1>8. k = "turn" => SoundTurn(c, u)'
  BY <1>3, <1>4, <1>5, <1>7 DEF SoundTurn, Uncommitted
<1>9. k = "report" => SoundReport(c, u)'
  BY <1>3, <1>4, <1>5, <1>7 DEF SoundReport, Uncommitted
<1>10. QED
  BY <1>2, <1>3, <1>4, <1>5, <1>6, <1>7, <1>8, <1>9, SetIInv DEF Sound

LEMMA RollBackIInv ==
  ASSUME DispatchIInv, NEW c \in Calls, NEW k \in Kinds, RollBack(c, k)
  PROVE  DispatchIInv'
<1>1. Uncommitted
  BY FailsUncommitted DEF RollBack, history
<1>2. Sound(c, Idle) /\ SoundTurn(c, Idle)' /\ SoundReport(c, Idle)'
  BY Nothing, IdleIsSound DEF SoundTurn, SoundReport
<1>3. QED BY <1>1, <1>2, Nothing, SetIInv DEF RollBack

-----------------------------------------------------------------------------
(* A turn.                                                                 *)

\* The line of a call whose words are taken up, or whose report has come.
LEMMA LineUncommitted ==
  ASSUME DispatchIInv, NEW c \in Calls, UNCHANGED <<rows, alerting, staff, failures, history>>,
         \/ line' = [line EXCEPT ![c].pending = "none"]
         \/ line[c].reports < MaxReports /\ line' = [line EXCEPT ![c].reports = @ + 1]
  PROVE  Uncommitted
<1>1. line[c] \in Lines /\ line \in [Calls -> Lines]
  BY DEF DispatchIInv, Typed
<1>2. CASE line' = [line EXCEPT ![c].pending = "none"]
  <2>1. /\ line'[c] \in Lines /\ line'[c].words = line[c].words /\ line'[c].turns = line[c].turns
        /\ line'[c].reports = line[c].reports /\ line'[c].pending = "none"
        /\ \A b \in Calls : b # c => line'[b] = line[b]
        /\ line' \in [Calls -> Lines]
    BY <1>1, <1>2 DEF Lines, Words
  <2>2. QED
    BY <2>1 DEF DispatchIInv, Typed, Uncommitted, rows, alerting, history
<1>3. CASE line[c].reports < MaxReports /\ line' = [line EXCEPT ![c].reports = @ + 1]
  <2>1. /\ line'[c] \in Lines /\ line'[c].words = line[c].words /\ line'[c].turns = line[c].turns
        /\ line'[c].reports > 0 /\ line'[c].pending = line[c].pending
        /\ \A b \in Calls : b # c => line'[b] = line[b]
        /\ line' \in [Calls -> Lines]
    BY <1>1, <1>3, Bounds DEF Lines
  <2>2. QED
    BY <2>1 DEF DispatchIInv, Typed, Uncommitted, rows, alerting, history
<1>4. QED BY <1>2, <1>3

LEMMA BeginTurnIInv ==
  ASSUME DispatchIInv, NEW c \in Calls, BeginTurn(c) PROVE DispatchIInv'
<1>1. PICK w, u :
        /\ w = [NoWrites EXCEPT !.created = conversation[c].status = "none"]
        /\ u = [Idle EXCEPT !.phase = "open", !.words = line[c].pending, !.w = w]
        /\ Set(c, "turn", u)
  BY Zenon DEF BeginTurn
<1>2. /\ line[c].pending # "none" /\ conversation[c].status # "completed"
      /\ line' = [line EXCEPT ![c].pending = "none"]
      /\ UNCHANGED <<rows, alerting, staff, failures, history>>
  BY DEF BeginTurn
<1>3. line[c].turns > 0 /\ ~finished[c] /\ line[c].pending \in Words
  BY <1>2 DEF DispatchIInv, Ended, Typed, Lines
<1>4. /\ w \in Writes /\ w.alert = "none" /\ w.followUp = "none" /\ ~w.ticket /\ ~w.page
      /\ ~w.ends /\ (w.created <=> conversation[c].status = "none")
  BY <1>1, Nothing DEF Writes
<1>5. /\ u \in Transactions /\ u.w = w /\ u.saved = NoWrites /\ u.phase = "open"
  BY <1>1, <1>3, <1>4, Nothing DEF Transactions
<1>6. Uncommitted
  BY <1>2, LineUncommitted
<1>7. Sound(c, u)
  BY <1>4, <1>5, Nothing DEF Sound, Backed
<1>8. SoundTurn(c, u)'
  BY <1>2, <1>3, <1>4, <1>5, <1>6, Nothing DEF SoundTurn, Uncommitted
<1>9. QED
  BY <1>1, <1>3, <1>4, <1>5, <1>6, <1>7, <1>8, SetIInv DEF Kinds

LEMMA RefuseTurnIInv ==
  ASSUME DispatchIInv, NEW c \in Calls, RefuseTurn(c) PROVE DispatchIInv'
BY LineUncommitted, UncommittedIInv DEF RefuseTurn

\* What a turn has open is what it may still write.
LEMMA OpenTurn ==
  ASSUME DispatchIInv, NEW c \in Calls, tx[c]["turn"].phase # "idle"
  PROVE  /\ tx[c]["turn"] \in Transactions /\ tx[c]["turn"].w \in Writes
         /\ tx[c]["turn"].saved \in Writes /\ ~finished[c]
         /\ Sound(c, tx[c]["turn"]) /\ SoundTurn(c, tx[c]["turn"])
         /\ tx[c]["turn"].w.ticket => ~tx[c][Other("turn")].w.ticket
BY Begun DEF Kinds

LEMMA CreateServiceRequestIInv ==
  ASSUME DispatchIInv, NEW c \in Calls, NEW outcome \in Outcomes, outcome # "question",
         CreateServiceRequest(c, outcome)
  PROVE  DispatchIInv'
<1>1. PICK t : t = tx[c]["turn"]
  OBVIOUS
<1>2. PICK w, u :
        /\ w = [t.w EXCEPT !.outcome = outcome]
        /\ \/ u = [t EXCEPT !.w = [w EXCEPT !.request = TRUE]]
           \/ u = [t EXCEPT !.w = w]
           \/ /\ ~SeesTicket(c, "turn")
              /\ u = [t EXCEPT !.phase = "creating", !.step = "tool", !.saved = t.w, !.w = w]
        /\ Set(c, "turn", u)
  BY <1>1, Zenon DEF CreateServiceRequest
<1>3. /\ t.phase = "open" /\ UNCHANGED <<rows, alerting, staff, line, failures, history>>
  BY <1>1 DEF CreateServiceRequest
<1>4. /\ t \in Transactions /\ t.w \in Writes /\ Sound(c, t)
      /\ t.w.ticket => ~tx[c][Other("turn")].w.ticket
      /\ SoundTurn(c, t) /\ ~finished[c]
  BY <1>1, <1>3, OpenTurn
<1>5. /\ w \in Writes /\ w.ticket = t.w.ticket /\ w.alert = t.w.alert /\ w.page = t.w.page
      /\ w.created = t.w.created /\ w.ends = t.w.ends /\ w.followUp = t.w.followUp
      /\ [w EXCEPT !.request = TRUE] \in Writes
  BY <1>2, <1>4 DEF Writes
<1>6. Uncommitted
  BY <1>3, StaysUncommitted
<1>7. ASSUME u.phase = "open", u \in Transactions, u.saved = t.saved, u.step = t.step,
             u.w.ticket = t.w.ticket, u.w.alert = t.w.alert, u.w.page = t.w.page,
             u.w.created = t.w.created, u.w.ends = t.w.ends, u.w.followUp = t.w.followUp
      PROVE  DispatchIInv'
  <2>1. Sound(c, u)
    BY <1>3, <1>4, <1>7 DEF Sound, Backed, HasTicket
  <2>2. SoundTurn(c, u)'
    BY <1>3, <1>4, <1>6, <1>7 DEF SoundTurn, Uncommitted
  <2>3. QED
    BY <1>2, <1>4, <1>6, <1>7, <2>1, <2>2, SetIInv DEF Kinds
<1>8. CASE u = [t EXCEPT !.w = [w EXCEPT !.request = TRUE]]
  <2>1. PICK v \in Writes : v = [w EXCEPT !.request = TRUE]
    BY <1>5
  <2>2. /\ v.ticket = w.ticket /\ v.alert = w.alert /\ v.page = w.page
        /\ v.created = w.created /\ v.ends = w.ends /\ v.followUp = w.followUp
    BY <1>5, <2>1 DEF Writes
  <2>3. /\ u \in Transactions /\ u.w = v /\ u.phase = "open" /\ u.saved = t.saved
        /\ u.step = t.step
    BY <1>3, <1>4, <1>8, <2>1 DEF Transactions
  <2>4. QED BY <1>5, <1>7, <2>2, <2>3
<1>9. CASE u = [t EXCEPT !.w = w]
  <2>1. /\ u \in Transactions /\ u.w = w /\ u.phase = "open" /\ u.saved = t.saved
        /\ u.step = t.step
    BY <1>3, <1>4, <1>5, <1>9 DEF Transactions
  <2>2. QED BY <1>5, <1>7, <2>1
<1>10. CASE /\ ~SeesTicket(c, "turn")
            /\ u = [t EXCEPT !.phase = "creating", !.step = "tool", !.saved = t.w, !.w = w]
  <2>1. /\ u \in Transactions /\ u.w = w /\ u.saved = t.w /\ u.phase = "creating"
        /\ u.step = "tool"
    BY <1>4, <1>5, <1>10 DEF Transactions
  <2>2. ~t.w.ticket
    BY <1>1, <1>10 DEF SeesTicket
  <2>3. Sound(c, u)
    BY <1>4, <1>5, <2>1, <2>2 DEF Sound, Backed, HasTicket
  <2>4. SoundTurn(c, u)'
    BY <1>3, <1>4, <1>5, <1>6, <2>1 DEF SoundTurn, Uncommitted
  <2>5. QED
    BY <1>2, <1>4, <1>5, <1>6, <2>1, <2>2, <2>3, <2>4, SetIInv DEF Kinds
<1>11. QED BY <1>2, <1>8, <1>9, <1>10

LEMMA ToolFailsIInv ==
  ASSUME DispatchIInv, NEW c \in Calls, ToolFails(c) PROVE DispatchIInv'
<1>1. PICK t : t = tx[c]["turn"]
  OBVIOUS
<1>2. PICK u : u = [t EXCEPT !.phase = "open", !.w = t.saved] /\ Set(c, "turn", u)
  BY <1>1, Zenon DEF ToolFails
<1>3. /\ t.phase = "creating" /\ t.step = "tool"
      /\ UNCHANGED <<rows, alerting, staff, line, failures, history>>
  BY <1>1 DEF ToolFails
<1>4. /\ t \in Transactions /\ t.saved \in Writes /\ Sound(c, t)
      /\ t.w.ticket => ~tx[c][Other("turn")].w.ticket
      /\ SoundTurn(c, t) /\ ~finished[c]
  BY <1>1, <1>3, OpenTurn
<1>5. /\ u \in Transactions /\ u.w = t.saved /\ u.step = t.step /\ u.saved = t.saved
      /\ u.phase = "open"
  BY <1>2, <1>4 DEF Transactions
<1>6. Uncommitted
  BY <1>3, StaysUncommitted
<1>7. Sound(c, u)
  BY <1>4, <1>5 DEF Sound
<1>8. SoundTurn(c, u)'
  BY <1>3, <1>4, <1>5, <1>6 DEF SoundTurn, Uncommitted
<1>9. QED
  BY <1>2, <1>4, <1>5, <1>6, <1>7, <1>8, SetIInv DEF Kinds, Sound

LEMMA WriteTurnIInv ==
  ASSUME DispatchIInv, NEW c \in Calls, NEW outcome \in Outcomes, NEW ends \in BOOLEAN,
         WriteTurn(c, outcome, ends)
  PROVE  DispatchIInv'
<1>1. PICK t : t = tx[c]["turn"]
  OBVIOUS
<1>2. PICK w, u :
        /\ w = [t.w EXCEPT !.words = t.words, !.outcome = outcome, !.ends = ends]
        /\ u = [t EXCEPT !.phase = "syncing", !.step = "sync", !.w = w, !.saved = w]
        /\ Set(c, "turn", u)
  BY <1>1, Zenon DEF WriteTurn
<1>3. /\ t.phase = "open" /\ UNCHANGED <<rows, alerting, staff, line, failures, history>>
  BY <1>1 DEF WriteTurn
<1>4. /\ t \in Transactions /\ t.w \in Writes /\ Sound(c, t)
      /\ t.w.ticket => ~tx[c][Other("turn")].w.ticket
      /\ SoundTurn(c, t) /\ ~finished[c]
  BY <1>1, <1>3, OpenTurn
<1>5. /\ w \in Writes /\ w.ticket = t.w.ticket /\ w.alert = t.w.alert /\ w.page = t.w.page
      /\ w.created = t.w.created /\ w.outcome = outcome /\ w.followUp = t.w.followUp
      /\ outcome # "none"
  BY <1>2, <1>4 DEF Writes, Transactions, Outcomes
<1>6. /\ u \in Transactions /\ u.w = w /\ u.saved = w /\ u.phase = "syncing"
      /\ u.step = "sync"
  BY <1>2, <1>4, <1>5 DEF Transactions
<1>7. Uncommitted
  BY <1>3, StaysUncommitted
<1>8. Sound(c, u)
  BY <1>4, <1>5, <1>6 DEF Sound, Backed, HasTicket
<1>9. SoundTurn(c, u)'
  BY <1>3, <1>4, <1>5, <1>6, <1>7 DEF SoundTurn, Uncommitted
<1>10. QED
  BY <1>2, <1>4, <1>5, <1>6, <1>7, <1>8, <1>9, SetIInv DEF Kinds

LEMMA SyncOutcomeIInv ==
  ASSUME DispatchIInv, NEW c \in Calls, SyncOutcome(c) PROVE DispatchIInv'
<1>1. PICK t : t = tx[c]["turn"]
  OBVIOUS
<1>2. PICK w, u :
        /\ w = [t.w EXCEPT !.request = t.w.request \/ t.w.outcome = "request"]
        /\ u = IF t.w.outcome = "emergency" /\ ~SeesTicket(c, "turn")
               THEN [t EXCEPT !.phase = "creating"]
               ELSE [t EXCEPT !.phase = "replied", !.w = w]
        /\ Set(c, "turn", u)
  BY <1>1, Zenon DEF SyncOutcome
<1>3. /\ t.phase = "syncing" /\ UNCHANGED <<rows, alerting, staff, line, failures, history>>
  BY <1>1 DEF SyncOutcome
<1>4. /\ t \in Transactions /\ t.w \in Writes /\ Sound(c, t)
      /\ t.w.ticket => ~tx[c][Other("turn")].w.ticket
      /\ SoundTurn(c, t) /\ ~finished[c]
  BY <1>1, <1>3, OpenTurn
<1>5. /\ w \in Writes /\ w.ticket = t.w.ticket /\ w.alert = t.w.alert /\ w.page = t.w.page
      /\ w.created = t.w.created /\ w.outcome = t.w.outcome /\ w.followUp = t.w.followUp
      /\ w.ends = t.w.ends /\ (w.request <=> t.w.request \/ t.w.outcome = "request")
  BY <1>2, <1>4 DEF Writes
<1>6. Uncommitted
  BY <1>3, StaysUncommitted
<1>7. SeesTicket(c, "turn") <=> HasTicket(c, t.w)
  BY <1>1 DEF SeesTicket, HasTicket
<1>8. CASE t.w.outcome = "emergency" /\ ~SeesTicket(c, "turn")
  <2>1. /\ u \in Transactions /\ u.w = t.w /\ u.saved = t.saved /\ u.phase = "creating"
        /\ u.step = t.step
    BY <1>2, <1>4, <1>8 DEF Transactions
  <2>2. Sound(c, u)
    BY <1>3, <1>4, <1>7, <1>8, <2>1 DEF Sound, HasTicket
  <2>3. SoundTurn(c, u)'
    BY <1>3, <1>4, <1>6, <2>1 DEF SoundTurn, Uncommitted
  <2>4. QED
    BY <1>2, <1>4, <1>6, <2>1, <2>2, <2>3, SetIInv DEF Kinds
<1>9. CASE ~(t.w.outcome = "emergency" /\ ~SeesTicket(c, "turn"))
  <2>1. /\ u \in Transactions /\ u.w = w /\ u.saved = t.saved /\ u.phase = "replied"
        /\ u.step = t.step
    BY <1>2, <1>4, <1>5, <1>9 DEF Transactions
  <2>2. Sound(c, u)
    BY <1>3, <1>4, <1>5, <2>1 DEF Sound, Backed, HasTicket
  <2>3. t.w.outcome # "none" => w.outcome = "question" \/ HasTicket(c, w) \/ w.request
    BY <1>4, <1>5, <1>7, <1>9 DEF HasTicket, Writes, Outcomes
  <2>4. SoundTurn(c, u)'
    BY <1>3, <1>4, <1>5, <1>6, <2>1, <2>3 DEF SoundTurn, HasTicket, Uncommitted
  <2>5. QED
    BY <1>2, <1>4, <1>5, <1>6, <2>1, <2>2, <2>4, SetIInv DEF Kinds
<1>10. QED BY <1>8, <1>9

LEMMA FailTurnIInv ==
  ASSUME DispatchIInv, NEW c \in Calls, FailTurn(c) PROVE DispatchIInv'
<1>1. PICK t : t = tx[c]["turn"]
  OBVIOUS
<1>2. PICK u :
        /\ u = [t EXCEPT !.phase = "adding", !.step = "record",
                         !.words = Louder(t.words, conversation[c].words), !.saved = t.w]
        /\ Set(c, "turn", u)
  BY <1>1, Zenon DEF FailTurn
<1>3. /\ t.phase = "open" /\ UNCHANGED <<rows, alerting, staff, line, failures, history>>
  BY <1>1 DEF FailTurn
<1>4. /\ t \in Transactions /\ t.w \in Writes /\ Sound(c, t)
      /\ t.w.ticket => ~tx[c][Other("turn")].w.ticket
      /\ SoundTurn(c, t) /\ ~finished[c]
  BY <1>1, <1>3, OpenTurn
<1>5. /\ u \in Transactions /\ u.w = t.w /\ u.saved = t.w /\ u.phase = "adding"
      /\ u.step = "record"
  <2>1. Louder(t.words, conversation[c].words) \in Words
    BY DEF Louder, Words
  <2>2. QED BY <1>2, <1>4, <2>1 DEF Transactions
<1>6. Uncommitted
  BY <1>3, StaysUncommitted
<1>7. Sound(c, u)
  BY <1>4, <1>5 DEF Sound
<1>8. SoundTurn(c, u)'
  BY <1>3, <1>4, <1>5, <1>6 DEF SoundTurn, Uncommitted
<1>9. QED
  BY <1>2, <1>4, <1>5, <1>6, <1>7, <1>8, SetIInv DEF Kinds

-----------------------------------------------------------------------------
(* A report.                                                               *)

\* What a report has open is what it may still write.
LEMMA OpenReport ==
  ASSUME DispatchIInv, NEW c \in Calls
  PROVE  /\ tx[c]["report"] \in Transactions /\ tx[c]["report"].w \in Writes
         /\ tx[c]["report"].saved \in Writes
         /\ Sound(c, tx[c]["report"]) /\ SoundReport(c, tx[c]["report"])
         /\ tx[c]["report"].w.ticket => ~tx[c][Other("report")].w.ticket
BY Begun DEF Kinds

\* What the call has without a transaction it has with it.
LEMMA SettledMore ==
  ASSUME NEW c \in Calls, NEW w, Settled(c, NoWrites) PROVE Settled(c, w)
BY Nothing DEF Settled, HasTicket

LEMMA ReportArrivesIInv ==
  ASSUME DispatchIInv, NEW c \in Calls, ReportArrives(c) PROVE DispatchIInv'
<1>1. /\ line[c].reports < MaxReports /\ line' = [line EXCEPT ![c].reports = @ + 1]
      /\ UNCHANGED <<rows, alerting, staff, failures, history>>
  BY DEF ReportArrives
<1>2. Uncommitted
  BY <1>1, LineUncommitted
<1>3. line'[c].reports > 0
  BY <1>1 DEF DispatchIInv, Typed, Lines
<1>4. CASE conversation[c].status = "none"
  BY <1>2, <1>4, UncommittedIInv DEF ReportArrives
<1>5. CASE conversation[c].status # "none"
  <2>1. PICK u :
          /\ u = [Idle EXCEPT
                   !.phase = IF conversation[c].status = "active" THEN "ending" ELSE "looking",
                   !.byAssistant = conversation[c].status = "completed"]
          /\ Set(c, "report", u)
    BY <1>5, Zenon DEF ReportArrives
  <2>2. /\ u \in Transactions /\ u.w = NoWrites /\ u.saved = NoWrites
        /\ u.phase \in {"ending", "looking"}
        /\ u.byAssistant => conversation[c].status = "completed"
    BY <2>1, Nothing DEF Transactions
  <2>3. Sound(c, u)
    BY <2>2, Nothing DEF Sound, Backed
  <2>4. SoundReport(c, u)'
    BY <1>2, <1>3, <1>5, <2>2, Nothing DEF SoundReport, Uncommitted
  <2>5. QED
    BY <1>2, <2>1, <2>2, <2>3, <2>4, Nothing, SetIInv DEF Kinds
<1>6. QED BY <1>4, <1>5

LEMMA EndConversationIInv ==
  ASSUME DispatchIInv, NEW c \in Calls, EndConversation(c) PROVE DispatchIInv'
<1>1. PICK t : t = tx[c]["report"]
  OBVIOUS
<1>2. PICK w, u :
        /\ w = [t.w EXCEPT !.ends = TRUE]
        /\ u = [t EXCEPT !.phase = "looking", !.w = w]
        /\ Set(c, "report", u)
  BY <1>1, Zenon DEF EndConversation
<1>3. /\ t.phase = "ending" /\ UNCHANGED <<rows, alerting, staff, line, failures, history>>
  BY <1>1 DEF EndConversation
<1>4. /\ t \in Transactions /\ t.w \in Writes /\ Sound(c, t)
      /\ t.w.ticket => ~tx[c][Other("report")].w.ticket
      /\ SoundReport(c, t)
  BY <1>1, OpenReport
<1>5. /\ w \in Writes /\ w.ticket = t.w.ticket /\ w.alert = t.w.alert /\ w.page = t.w.page
      /\ w.created = t.w.created /\ w.outcome = t.w.outcome /\ w.followUp = t.w.followUp
  BY <1>2, <1>4 DEF Writes
<1>6. /\ u \in Transactions /\ u.w = w /\ u.saved = t.saved /\ u.phase = "looking"
      /\ u.byAssistant = t.byAssistant
  BY <1>2, <1>4, <1>5 DEF Transactions
<1>7. Uncommitted
  BY <1>3, StaysUncommitted
<1>8. Sound(c, u)
  BY <1>4, <1>5, <1>6 DEF Sound, Backed, HasTicket
<1>9. SoundReport(c, u)'
  BY <1>3, <1>4, <1>5, <1>6, <1>7 DEF SoundReport, Uncommitted
<1>10. QED
  BY <1>2, <1>4, <1>5, <1>6, <1>7, <1>8, <1>9, SetIInv DEF Kinds

LEMMA LookForFollowUpIInv ==
  ASSUME DispatchIInv, NEW c \in Calls, LookForFollowUp(c) PROVE DispatchIInv'
<1>1. PICK t : t = tx[c]["report"]
  OBVIOUS
<1>2. PICK heard, u :
        /\ heard = [t EXCEPT !.words = line[c].words, !.saved = t.w, !.step = "record"]
        /\ u = [heard EXCEPT !.phase =
                  IF ~followUp[c].open THEN "checking"
                  ELSE IF heard.words = "alarming" /\ ~followUp[c].emergency
                  THEN "adding" ELSE "replied"]
        /\ Set(c, "report", u)
  BY <1>1, Zenon DEF LookForFollowUp
<1>3. /\ t.phase = "looking" /\ UNCHANGED <<rows, alerting, staff, line, failures, history>>
  BY <1>1 DEF LookForFollowUp
<1>4. /\ t \in Transactions /\ t.w \in Writes /\ Sound(c, t)
      /\ t.w.ticket => ~tx[c][Other("report")].w.ticket
      /\ SoundReport(c, t) /\ line[c].words \in Words
  BY <1>1, OpenReport DEF DispatchIInv, Typed, Lines
<1>5. /\ heard \in Transactions /\ heard.w = t.w /\ heard.saved = t.w
      /\ heard.words = line[c].words /\ heard.step = "record"
      /\ heard.byAssistant = t.byAssistant
  BY <1>2, <1>4 DEF Transactions
<1>6. /\ u \in Transactions /\ u.w = t.w /\ u.saved = t.w /\ u.words = line[c].words
      /\ u.step = "record" /\ u.byAssistant = t.byAssistant
      /\ u.phase \in {"checking", "adding", "replied"}
      /\ u.phase = "replied" =>
           followUp[c].open /\ (line[c].words = "alarming" => followUp[c].emergency)
  BY <1>2, <1>5 DEF Transactions
<1>7. Uncommitted
  BY <1>3, StaysUncommitted
<1>8. Sound(c, u)
  BY <1>4, <1>6 DEF Sound
<1>9. u.phase = "replied" => Settled(c, u.w)
  BY <1>6 DEF Settled
<1>10. SoundReport(c, u)'
  BY <1>3, <1>4, <1>6, <1>7, <1>9
     DEF SoundReport, Settled, Excused, HasTicket, Uncommitted, rows, history
<1>11. QED
  BY <1>2, <1>4, <1>6, <1>7, <1>8, <1>10, SetIInv DEF Kinds

LEMMA LookForRequestIInv ==
  ASSUME DispatchIInv, NEW c \in Calls, LookForRequest(c) PROVE DispatchIInv'
<1>1. PICK t : t = tx[c]["report"]
  OBVIOUS
<1>2. PICK u : \E transferred \in BOOLEAN :
        /\ u = [t EXCEPT !.phase =
                 IF \/ (ticket[c].status # "none" \/ requested[c]) \/ t.words = "none"
                    \/ ~transferred /\ t.byAssistant /\ t.words # "alarming"
                 THEN "replied" ELSE "adding"]
        /\ Set(c, "report", u)
  BY <1>1, Zenon DEF LookForRequest
<1>3. /\ t.phase = "checking" /\ UNCHANGED <<rows, alerting, staff, line, failures, history>>
  BY <1>1 DEF LookForRequest
<1>4. /\ t \in Transactions /\ t.w \in Writes /\ t.saved \in Writes /\ Sound(c, t)
      /\ t.w.ticket => ~tx[c][Other("report")].w.ticket
      /\ SoundReport(c, t)
  BY <1>1, OpenReport
<1>5. /\ u \in Transactions /\ u.w = t.w /\ u.saved = t.saved /\ u.words = t.words
      /\ u.step = t.step /\ u.byAssistant = t.byAssistant
      /\ u.phase \in {"adding", "replied"}
      /\ u.phase = "replied" =>
           \/ ticket[c].status # "none" \/ requested[c] \/ t.words = "none"
           \/ t.byAssistant /\ t.words # "alarming"
  BY <1>2, <1>4 DEF Transactions
<1>6. Uncommitted
  BY <1>3, StaysUncommitted
<1>7. Sound(c, u)
  BY <1>3, <1>4, <1>5 DEF Sound, SoundReport
<1>8. u.phase = "replied" /\ ~failed[c] => Settled(c, u.w)
  <2> SUFFICES ASSUME u.phase = "replied", ~failed[c] PROVE Settled(c, u.w)
    OBVIOUS
  <2>1. t.words = line[c].words
    BY <1>3, <1>4 DEF SoundReport
  <2>2. CASE ticket[c].status # "none" \/ requested[c] \/ t.words = "none"
    BY <2>1, <2>2 DEF Settled, HasTicket
  <2>3. CASE t.byAssistant /\ t.words # "alarming"
    <3>1. handled[c] \/ finished[c]
      BY <1>4, <2>3 DEF SoundReport, DispatchIInv, Ended
    <3>2. CASE handled[c]
      BY <3>2, SettledMore DEF DispatchIInv, Ended
    <3>3. CASE finished[c]
      <4>1. \/ conversation[c].outcome = "question"
            \/ ticket[c].status # "none" \/ requested[c]
        BY <3>3 DEF DispatchIInv, Ended
      <4>2. QED BY <2>1, <2>3, <3>3, <4>1 DEF Settled, Excused, HasTicket
    <3>4. QED BY <3>1, <3>2, <3>3
  <2>4. QED BY <1>5, <2>2, <2>3
<1>9. SoundReport(c, u)'
  BY <1>3, <1>4, <1>5, <1>6, <1>8
     DEF SoundReport, Settled, Excused, HasTicket, Uncommitted, rows, history
<1>10. QED
  BY <1>2, <1>4, <1>5, <1>6, <1>7, <1>9, SetIInv DEF Kinds

-----------------------------------------------------------------------------
(* The commit of a transaction.                                            *)

\* The rows that the writes w leave of a call, and those of the other calls.
Merged(c, w) ==
  /\ conversation'[c].status = IF w.ends THEN "completed"
                               ELSE IF w.created THEN "active" ELSE conversation[c].status
  /\ conversation'[c].outcome = IF w.outcome # "none" THEN w.outcome ELSE conversation[c].outcome
  /\ ticket'[c] = IF w.ticket THEN [status |-> "new", closed |-> FALSE] ELSE ticket[c]
  /\ w.alert = "none" => alert'[c] = alert[c]
  /\ w.alert # "none" => /\ alert'[c].status = w.alert /\ alert'[c].attempts = 0
                         /\ alert'[c].due = (w.alert = "pending")
  /\ requested'[c] = (requested[c] \/ w.request) /\ paged'[c] = (paged[c] \/ w.page)
  /\ followUp'[c].open = (followUp[c].open \/ w.followUp # "none")
  /\ followUp'[c].emergency = (followUp[c].emergency \/ w.followUp = "flagged")
  /\ \A b \in Calls : b # c =>
       /\ conversation'[b] = conversation[b] /\ ticket'[b] = ticket[b] /\ alert'[b] = alert[b]
       /\ requested'[b] = requested[b] /\ paged'[b] = paged[b] /\ followUp'[b] = followUp[b]

LEMMA MergeMerges ==
  ASSUME Typed, NEW c \in Calls, NEW w \in Writes, Merge(c, w)
  PROVE  /\ conversation' \in [Calls -> Conversations] /\ ticket' \in [Calls -> Tickets]
         /\ alert' \in [Calls -> Alerts] /\ followUp' \in [Calls -> FollowUps]
         /\ requested' \in [Calls -> BOOLEAN] /\ paged' \in [Calls -> BOOLEAN]
         /\ Merged(c, w)
<1>1. /\ w.outcome \in Outcomes \union {"none"} /\ w.words \in Words
      /\ w.alert \in {"none", "pending", "not_configured"}
      /\ w.followUp \in {"none", "added", "flagged"}
      /\ w.request \in BOOLEAN /\ w.page \in BOOLEAN /\ w.ticket \in BOOLEAN
      /\ w.ends \in BOOLEAN /\ w.created \in BOOLEAN
  BY DEF Writes
<1>2. /\ conversation[c] \in Conversations /\ ticket[c] \in Tickets /\ alert[c] \in Alerts
      /\ followUp[c] \in FollowUps /\ requested[c] \in BOOLEAN /\ paged[c] \in BOOLEAN
  BY DEF Typed
<1>3. PICK v :
        /\ v = [status  |-> IF w.ends THEN "completed"
                            ELSE IF w.created THEN "active" ELSE conversation[c].status,
                words   |-> Louder(conversation[c].words, w.words),
                outcome |-> IF w.outcome # "none" THEN w.outcome ELSE conversation[c].outcome]
        /\ conversation' = [conversation EXCEPT ![c] = v]
  BY Zenon DEF Merge
<1>4. /\ v \in Conversations
      /\ v.status = IF w.ends THEN "completed"
                    ELSE IF w.created THEN "active" ELSE conversation[c].status
      /\ v.outcome = IF w.outcome # "none" THEN w.outcome ELSE conversation[c].outcome
  <2>1. Louder(conversation[c].words, w.words) \in Words
    BY DEF Louder, Words
  <2>2. QED BY <1>1, <1>2, <1>3, <2>1 DEF Conversations
<1>5. /\ conversation' \in [Calls -> Conversations] /\ conversation'[c] = v
      /\ \A b \in Calls : b # c => conversation'[b] = conversation[b]
  BY <1>3, <1>4 DEF Typed
<1>6. PICK x :
        /\ x = IF w.ticket THEN [status |-> "new", closed |-> FALSE] ELSE ticket[c]
        /\ ticket' = [ticket EXCEPT ![c] = x]
  BY Zenon DEF Merge
<1>7. x \in Tickets
  BY <1>2, <1>6 DEF Tickets, Status
<1>8. /\ ticket' \in [Calls -> Tickets] /\ ticket'[c] = x
      /\ \A b \in Calls : b # c => ticket'[b] = ticket[b]
  BY <1>6, <1>7 DEF Typed
<1>9. PICK y :
        /\ y = IF w.alert = "none" THEN alert[c]
               ELSE [status |-> w.alert, attempts |-> 0, due |-> w.alert = "pending"]
        /\ alert' = [alert EXCEPT ![c] = y]
  BY Zenon DEF Merge
<1>10. /\ y \in Alerts /\ (w.alert = "none" => y = alert[c])
       /\ w.alert # "none" =>
            y.status = w.alert /\ y.attempts = 0 /\ y.due = (w.alert = "pending")
  BY <1>1, <1>2, <1>9, Bounds DEF Alerts
<1>11. /\ alert' \in [Calls -> Alerts] /\ alert'[c] = y
       /\ \A b \in Calls : b # c => alert'[b] = alert[b]
  BY <1>9, <1>10 DEF Typed
<1>12. PICK z :
         /\ z = IF w.followUp = "none" THEN followUp[c]
                ELSE [followUp[c] EXCEPT
                        !.open = TRUE,
                        !.emergency = followUp[c].emergency \/ w.followUp = "flagged"]
         /\ followUp' = [followUp EXCEPT ![c] = z]
  BY Zenon DEF Merge
<1>13. /\ z \in FollowUps /\ z.open = (followUp[c].open \/ w.followUp # "none")
       /\ z.emergency = (followUp[c].emergency \/ w.followUp = "flagged")
  BY <1>1, <1>2, <1>12 DEF FollowUps
<1>14. /\ followUp' \in [Calls -> FollowUps] /\ followUp'[c] = z
       /\ \A b \in Calls : b # c => followUp'[b] = followUp[b]
  BY <1>12, <1>13 DEF Typed
<1>15. /\ requested' \in [Calls -> BOOLEAN] /\ paged' \in [Calls -> BOOLEAN]
       /\ requested'[c] = (requested[c] \/ w.request) /\ paged'[c] = (paged[c] \/ w.page)
       /\ \A b \in Calls : b # c => requested'[b] = requested[b] /\ paged'[b] = paged[b]
  BY <1>1, <1>2 DEF Merge, Typed
<1>16. QED
  BY <1>4, <1>5, <1>6, <1>8, <1>10, <1>11, <1>13, <1>14, <1>15 DEF Merged

LEMMA CommitIInv ==
  ASSUME DispatchIInv, NEW c \in Calls, NEW k \in Kinds, Commit(c, k)
  PROVE  DispatchIInv'
<1>1. PICK t, w, o : t = tx[c][k] /\ w = t.w /\ o = tx[c][Other(k)]
  OBVIOUS
<1>2. /\ t.phase = "replied" /\ Merge(c, w) /\ Set(c, k, Idle)
      /\ handled' = [handled EXCEPT ![c] = @ \/ k = "report"]
      /\ finished' = [finished EXCEPT ![c] = @ \/ (k = "turn" /\ w.ends)]
      /\ UNCHANGED <<outbox, accepted, lost, staff, line, failures, failed>>
  BY <1>1 DEF Commit
<1>3. /\ t \in Transactions /\ w \in Writes /\ Sound(c, t)
      /\ w.ticket => ~o.w.ticket
      /\ k = "turn" => SoundTurn(c, t) /\ ~finished[c]
      /\ k = "report" => SoundReport(c, t)
  BY <1>1, <1>2, Begun
<1>4. Typed
  BY DEF DispatchIInv
<1>5. /\ conversation' \in [Calls -> Conversations] /\ ticket' \in [Calls -> Tickets]
      /\ alert' \in [Calls -> Alerts] /\ followUp' \in [Calls -> FollowUps]
      /\ requested' \in [Calls -> BOOLEAN] /\ paged' \in [Calls -> BOOLEAN]
      /\ Merged(c, w)
  BY <1>2, <1>3, <1>4, MergeMerges
<1>6. /\ tx' \in [Calls -> [Kinds -> Transactions]] /\ tx'[c][k] = Idle
      /\ \A b \in Calls, j \in Kinds : b # c \/ j # k => tx'[b][j] = tx[b][j]
  BY <1>2, <1>4, Nothing DEF Set, Typed
<1>7. /\ handled' \in [Calls -> BOOLEAN] /\ finished' \in [Calls -> BOOLEAN]
      /\ handled'[c] <=> handled[c] \/ k = "report"
      /\ finished'[c] <=> finished[c] \/ (k = "turn" /\ w.ends)
      /\ \A b \in Calls : b # c => handled'[b] = handled[b] /\ finished'[b] = finished[b]
  <2>1. w.ends \in BOOLEAN
    BY <1>3 DEF Writes
  <2>2. QED BY <1>2, <1>4, <2>1 DEF Typed
<1>8. Typed'
  BY <1>2, <1>4, <1>5, <1>6, <1>7 DEF Typed
<1>9. /\ ticket[c].status # "none" => ticket'[c].status # "none"
      /\ HasTicket(c, w) => ticket'[c].status # "none"
      /\ ~w.ticket => ticket'[c] = ticket[c]
  BY <1>5 DEF Merged, HasTicket
<1>10. k = "report" => w.outcome = "none" /\ ~w.created
  BY <1>1, <1>3 DEF SoundReport
<1>11. Excused(c) => Excused(c)'
  BY <1>2, <1>3, <1>5, <1>7, <1>10 DEF Excused, Merged, Kinds
<1>12. \A u : Settled(c, u) => Settled(c, u)'
  BY <1>2, <1>5, <1>9, <1>11 DEF Settled, Merged, HasTicket
<1>13. Settled(c, w) => Settled(c, NoWrites)'
  BY <1>2, <1>5, <1>9, <1>11, Nothing DEF Settled, Merged, HasTicket
<1>14. w.created => conversation[c].status = "none" /\ k = "turn"
  BY <1>1, <1>3, <1>10 DEF SoundTurn, Kinds
<1>15. Transacted'
  <2>1. \A b \in Calls : b # c =>
          /\ \A u : Sound(b, u) => Sound(b, u)'
          /\ \A u : SoundTurn(b, u) => SoundTurn(b, u)'
          /\ \A u : SoundReport(b, u) => SoundReport(b, u)'
    BY <1>2, <1>5, <1>7
       DEF Sound, Backed, HasTicket, SoundTurn, SoundReport, Settled, Excused, Merged
  <2>2. Sound(c, Idle)' /\ SoundTurn(c, Idle)' /\ SoundReport(c, Idle)'
    BY Nothing DEF Sound, Backed, HasTicket, SoundTurn, SoundReport
  <2>3. Sound(c, o)'
    <3>1. Sound(c, o)
      BY <1>1 DEF DispatchIInv, Transacted, Kinds, Other
    <3>2. QED BY <1>3, <1>9, <3>1 DEF Sound, Backed, HasTicket
  <2>4. k = "report" => SoundTurn(c, o)'
    <3> SUFFICES ASSUME k = "report" PROVE SoundTurn(c, o)'
      OBVIOUS
    <3>1. SoundTurn(c, o) /\ conversation[c].status # "none"
      BY <1>1, <1>2, <1>3 DEF DispatchIInv, Transacted, Other, SoundReport
    <3>2. QED BY <1>2, <1>9, <3>1 DEF SoundTurn, HasTicket
  <2>5. k = "turn" => SoundReport(c, o)'
    <3> SUFFICES ASSUME k = "turn" PROVE SoundReport(c, o)'
      OBVIOUS
    <3>1. SoundReport(c, o)
      BY <1>1 DEF DispatchIInv, Transacted, Other
    <3>2. /\ conversation[c].status # "none" => conversation'[c].status # "none"
          /\ conversation[c].status = "completed" => conversation'[c].status = "completed"
      BY <1>5, <1>14 DEF Merged
    <3>3. QED BY <1>2, <1>12, <3>1, <3>2 DEF SoundReport
  <2>6. \A b \in Calls : b # c =>
          /\ \A j \in Kinds : Sound(b, tx[b][j])
          /\ SoundTurn(b, tx[b]["turn"]) /\ SoundReport(b, tx[b]["report"])
          /\ ~(tx[b]["turn"].w.ticket /\ tx[b]["report"].w.ticket)
    BY DEF DispatchIInv, Transacted
  <2>7. \A b \in Calls :
          b # c => tx'[b]["turn"] = tx[b]["turn"] /\ tx'[b]["report"] = tx[b]["report"]
    BY <1>6 DEF Kinds
  <2>8. ASSUME NEW b \in Calls, b # c
        PROVE  /\ \A j \in Kinds : Sound(b, tx[b][j])'
               /\ SoundTurn(b, tx[b]["turn"])' /\ SoundReport(b, tx[b]["report"])'
               /\ ~(tx[b]["turn"].w.ticket /\ tx[b]["report"].w.ticket)'
    BY <2>1, <2>6, <2>7, <2>8 DEF Kinds
  <2>9. /\ \A j \in Kinds : Sound(c, tx[c][j])'
        /\ SoundTurn(c, tx[c]["turn"])' /\ SoundReport(c, tx[c]["report"])'
        /\ ~(tx[c]["turn"].w.ticket /\ tx[c]["report"].w.ticket)'
    <3>1. CASE k = "turn"
      <4>1. tx'[c]["turn"] = Idle /\ tx'[c]["report"] = o
        BY <1>1, <1>6, <3>1 DEF Kinds, Other
      <4>2. QED BY <2>2, <2>3, <2>5, <3>1, <4>1, Nothing DEF Kinds
    <3>2. CASE k = "report"
      <4>1. tx'[c]["report"] = Idle /\ tx'[c]["turn"] = o
        BY <1>1, <1>6, <3>2 DEF Kinds, Other
      <4>2. QED BY <2>2, <2>3, <2>4, <3>2, <4>1, Nothing DEF Kinds
    <3>3. QED BY <3>1, <3>2 DEF Kinds
  <2>10. QED BY <2>8, <2>9 DEF Transacted
<1>16. Ended'
  <2>1. ASSUME NEW b \in Calls, b # c
        PROVE  /\ (line[b].pending # "none" => line[b].turns > 0)'
               /\ (conversation[b].status = "completed" => handled[b] \/ finished[b])'
               /\ (finished[b] => /\ conversation[b].status = "completed"
                                  /\ tx[b]["turn"].phase = "idle")'
               /\ (finished[b] /\ ~failed[b] =>
                     \/ conversation[b].outcome = "question"
                     \/ ticket[b].status # "none" \/ requested[b])'
               /\ (handled[b] => line[b].reports > 0)'
               /\ (handled[b] /\ ~failed[b] => Settled(b, NoWrites))'
    <3>1. /\ Settled(b, NoWrites) => Settled(b, NoWrites)'
          /\ tx'[b]["turn"] = tx[b]["turn"]
      BY <1>2, <1>5, <1>6, <1>7, <2>1 DEF Settled, Excused, HasTicket, Merged, Kinds
    <3>2. QED BY <1>2, <1>5, <1>7, <2>1, <3>1 DEF Merged, DispatchIInv, Ended
  <2>2. /\ line[c].pending # "none" => line[c].turns > 0
        /\ conversation[c].status = "completed" => handled[c] \/ finished[c]
        /\ finished[c] => /\ conversation[c].status = "completed"
                          /\ tx[c]["turn"].phase = "idle"
        /\ finished[c] /\ ~failed[c] =>
             \/ conversation[c].outcome = "question"
             \/ ticket[c].status # "none" \/ requested[c]
        /\ handled[c] => line[c].reports > 0
        /\ handled[c] /\ ~failed[c] => Settled(c, NoWrites)
    BY DEF DispatchIInv, Ended
  <2>3. conversation'[c].status = "completed" => handled'[c] \/ finished'[c]
    BY <1>5, <1>7, <2>2 DEF Merged, Kinds
  <2>4. finished'[c] => conversation'[c].status = "completed" /\ tx'[c]["turn"].phase = "idle"
    <3>1. CASE k = "turn"
      BY <1>3, <1>5, <1>6, <1>7, <3>1, Nothing DEF Merged, Kinds
    <3>2. CASE k = "report"
      BY <1>5, <1>6, <1>7, <1>10, <2>2, <3>2 DEF Merged, Kinds
    <3>3. QED BY <3>1, <3>2 DEF Kinds
  <2>5. finished'[c] /\ ~failed'[c] =>
          \/ conversation'[c].outcome = "question"
          \/ ticket'[c].status # "none" \/ requested'[c]
    <3>1. CASE k = "turn"
      <4> SUFFICES ASSUME finished'[c], ~failed[c]
                   PROVE  \/ conversation'[c].outcome = "question"
                          \/ ticket'[c].status # "none" \/ requested'[c]
        BY <1>2
      <4>1. w.ends
        BY <1>3, <1>7, <3>1
      <4>2. w.outcome # "none" /\ (w.outcome = "question" \/ HasTicket(c, w) \/ w.request)
        BY <1>1, <1>2, <1>3, <3>1, <4>1 DEF SoundTurn
      <4>3. QED BY <1>5, <1>9, <4>2 DEF Merged
    <3>2. CASE k = "report"
      BY <1>2, <1>5, <1>7, <1>9, <1>10, <2>2, <3>2 DEF Merged
    <3>3. QED BY <3>1, <3>2 DEF Kinds
  <2>6. handled'[c] => line'[c].reports > 0
    BY <1>2, <1>3, <1>7, <2>2 DEF SoundReport
  <2>7. handled'[c] /\ ~failed'[c] => Settled(c, NoWrites)'
    BY <1>1, <1>2, <1>3, <1>7, <1>12, <1>13, <2>2 DEF SoundReport
  <2>8. line'[c].pending # "none" => line'[c].turns > 0
    BY <1>2, <2>2
  <2>9. QED BY <2>1, <2>3, <2>4, <2>5, <2>6, <2>7, <2>8 DEF Ended
<1>17. w.alert # "none" =>
         /\ w.ticket /\ w.alert \in {"pending", "not_configured"}
         /\ ticket[c].status = "none" /\ alert[c].status = "none"
         /\ \A p \in Outboxes : outbox[p].call # c
  <2> SUFFICES ASSUME w.alert # "none"
               PROVE  /\ w.ticket /\ w.alert \in {"pending", "not_configured"}
                      /\ ticket[c].status = "none" /\ alert[c].status = "none"
                      /\ \A p \in Outboxes : outbox[p].call # c
    OBVIOUS
  <2>1. w.ticket /\ ticket[c].status = "none" /\ w.alert \in {"pending", "not_configured"}
    BY <1>1, <1>3 DEF Sound, Backed, Writes
  <2>2. alert[c].status = "none"
    BY <2>1 DEF DispatchIInv, AlertWithTicket
  <2>3. \A p \in Outboxes : outbox[p].call # c
    BY <2>2, NoCallAssumption DEF DispatchIInv, Sending
  <2>4. QED BY <2>1, <2>2, <2>3
<1>18. Checked'
  BY <1>2, <1>5, <1>9 DEF DispatchIInv, Checked, Merged
<1>19. Sending'
  <2>1. \A p \in Outboxes : outbox[p].call # NoCall =>
          outbox[p].call \in Calls /\ alert'[outbox[p].call] = alert[outbox[p].call]
    BY <1>4, <1>5, <1>17 DEF Typed, Sends, Merged
  <2>2. \A b \in Calls :
          /\ alert'[b].status = "pending" => alert'[b].attempts = 0
          /\ alert'[b].status = "failed" /\ alert'[b].due => alert'[b].attempts < MaxAttempts
    BY <1>5, <1>17 DEF DispatchIInv, Sending, Merged
  <2>3. QED BY <1>2, <2>1, <2>2 DEF DispatchIInv, Sending
<1>20. Counts'
  BY <1>2, <1>5, <1>17 DEF DispatchIInv, Counts, Merged
<1>21. AlertWithTicket' /\ ClosedIsStamped'
  <2>1. w.ticket <=> w.alert # "none"
    BY <1>1, <1>3 DEF Sound, Backed
  <2>2. QED
    BY <1>5, <1>17, <2>1 DEF DispatchIInv, AlertWithTicket, ClosedIsStamped, Merged, Closed
<1>22. EmergencyHasTicket'
  <2>1. w.page \/ w.followUp = "flagged" => HasTicket(c, w)
    BY <1>1, <1>3 DEF Sound, Backed
  <2>2. QED
    BY <1>5, <1>9, <2>1 DEF DispatchIInv, EmergencyHasTicket, Merged
<1>23. QED
  BY <1>8, <1>15, <1>16, <1>18, <1>19, <1>20, <1>21, <1>22 DEF DispatchIInv

-----------------------------------------------------------------------------
(* The caller.                                                             *)

\* Nothing of a call is judged before it is heard: its turn and its report have
\* not begun, or only its turn has.
LEMMA SpeakIInv ==
  ASSUME DispatchIInv, NEW c \in Calls, NEW words \in Words, Speak(c, words)
  PROVE  DispatchIInv'
<1>1. /\ line[c].reports = 0 /\ line[c].turns < MaxTurns
      /\ UNCHANGED <<rows, alerting, tx, staff, failures, history>>
  BY DEF Speak
<1>2. PICK v :
        /\ v = [line[c] EXCEPT !.pending = words, !.words = Louder(line[c].words, words),
                               !.turns = line[c].turns + 1]
        /\ line' = [line EXCEPT ![c] = v]
  BY DEF Speak
<1>3. Typed /\ line[c] \in Lines
  BY DEF DispatchIInv, Typed
<1>4. Louder(line[c].words, words) \in Words
  BY DEF Louder, Words
<1>5. v \in Lines /\ v.turns > 0 /\ v.reports = 0
  <2>1. line[c].turns \in Nat /\ line[c].turns + 1 \in 0..MaxTurns
    BY <1>1, <1>3, Bounds DEF Lines
  <2>2. PICK l \in Lines : l = line[c]
    BY <1>3
  <2>3. v = [l EXCEPT !.pending = words, !.words = Louder(l.words, words),
                      !.turns = l.turns + 1]
    BY <1>2, <2>2
  <2>4. /\ v \in [pending : Words, words : Words, turns : 0..MaxTurns, reports : 0..MaxReports]
        /\ v.turns = l.turns + 1 /\ v.reports = l.reports
    BY <1>4, <2>1, <2>2, <2>3 DEF Lines
  <2>5. QED BY <1>1, <2>1, <2>2, <2>4 DEF Lines
<1>6. /\ line' \in [Calls -> Lines] /\ line'[c] = v
      /\ \A b \in Calls : b # c => line'[b] = line[b]
  BY <1>2, <1>3, <1>5 DEF Typed
<1>7. Typed'
  BY <1>1, <1>3, <1>6 DEF Typed, rows, alerting, history
<1>8. tx[c]["report"].phase = "idle" /\ ~handled[c]
  BY <1>1, <1>3 DEF DispatchIInv, Transacted, Ended, SoundReport, Lines
<1>9. Transacted'
  <2>1. \A u : \A b \in Calls : Sound(b, u) => Sound(b, u)'
    BY <1>1 DEF Sound, Backed, HasTicket, rows
  <2>2. \A u : \A b \in Calls : SoundTurn(b, u) => SoundTurn(b, u)'
    BY <1>1, <1>5, <1>6 DEF SoundTurn, HasTicket, rows, history
  <2>3. \A u : \A b \in Calls :
          b # c \/ u.phase = "idle" => (SoundReport(b, u) => SoundReport(b, u)')
    BY <1>1, <1>6 DEF SoundReport, Settled, Excused, HasTicket, rows, history
  <2>4. QED BY <1>1, <1>8, <2>1, <2>2, <2>3 DEF DispatchIInv, Transacted
<1>10. Ended'
  <2>1. \A b \in Calls : b # c => (Settled(b, NoWrites) => Settled(b, NoWrites)')
    BY <1>1, <1>6 DEF Settled, Excused, HasTicket, rows, history
  <2>2. QED BY <1>1, <1>5, <1>6, <1>8, <2>1 DEF DispatchIInv, Ended, rows, history
<1>11. Checked' /\ Sending' /\ Counts'
  BY <1>1 DEF DispatchIInv, Checked, Sending, Counts, rows, alerting
<1>12. AlertWithTicket' /\ EmergencyHasTicket' /\ ClosedIsStamped'
  BY <1>1 DEF DispatchIInv, AlertWithTicket, EmergencyHasTicket, ClosedIsStamped, rows, alerting
<1>13. QED BY <1>7, <1>9, <1>10, <1>11, <1>12 DEF DispatchIInv

LEMMA OpenCallIInv ==
  ASSUME DispatchIInv, NEW c \in Calls, OpenCall(c) PROVE DispatchIInv'
<1>1. /\ line[c].turns = 0 /\ line[c].reports = 0 /\ conversation[c].status = "none"
      /\ UNCHANGED <<ticket, requested, paged, followUp, alerting, tx, staff, line,
                     failures, history>>
  BY DEF OpenCall
<1>2. PICK v :
        /\ v = [conversation[c] EXCEPT !.status = "active"]
        /\ conversation' = [conversation EXCEPT ![c] = v]
  BY DEF OpenCall
<1>3. Typed /\ conversation[c] \in Conversations
  BY DEF DispatchIInv, Typed
<1>4. v \in Conversations /\ v.status = "active" /\ v.outcome = conversation[c].outcome
  BY <1>2, <1>3 DEF Conversations
<1>5. /\ conversation' \in [Calls -> Conversations] /\ conversation'[c] = v
      /\ \A b \in Calls : b # c => conversation'[b] = conversation[b]
  BY <1>2, <1>3, <1>4 DEF Typed
<1>6. Typed'
  BY <1>1, <1>3, <1>5 DEF Typed, alerting, history
<1>7. /\ tx[c]["turn"].phase = "idle" /\ tx[c]["report"].phase = "idle" /\ ~handled[c]
      /\ ~finished[c]
  BY <1>1, <1>3 DEF DispatchIInv, Transacted, Ended, SoundTurn, SoundReport, Typed, Lines
<1>8. \A u : \A b \in Calls : Settled(b, u) => Settled(b, u)'
  BY <1>1, <1>4, <1>5 DEF Settled, Excused, HasTicket, history
<1>9. Transacted'
  <2>1. \A u : \A b \in Calls : Sound(b, u) => Sound(b, u)'
    BY <1>1 DEF Sound, Backed, HasTicket
  <2>2. \A u : \A b \in Calls : b # c => (SoundTurn(b, u) => SoundTurn(b, u)')
    BY <1>1, <1>5 DEF SoundTurn, HasTicket, history
  <2>3. \A u : \A b \in Calls : b # c => (SoundReport(b, u) => SoundReport(b, u)')
    BY <1>1, <1>5, <1>8 DEF SoundReport, history
  <2>4. tx[c]["turn"] = Idle /\ tx[c]["report"] = Idle
    BY <1>7 DEF DispatchIInv, Transacted, Sound, Kinds
  <2>5. SoundTurn(c, Idle)' /\ SoundReport(c, Idle)'
    BY Nothing DEF SoundTurn, SoundReport
  <2>6. QED BY <1>1, <2>1, <2>2, <2>3, <2>4, <2>5 DEF DispatchIInv, Transacted
<1>10. Ended'
  BY <1>1, <1>4, <1>5, <1>7, <1>8 DEF DispatchIInv, Ended, history
<1>11. Checked' /\ Sending' /\ Counts'
  BY <1>1 DEF DispatchIInv, Checked, Sending, Counts, alerting
<1>12. AlertWithTicket' /\ EmergencyHasTicket' /\ ClosedIsStamped'
  BY <1>1 DEF DispatchIInv, AlertWithTicket, EmergencyHasTicket, ClosedIsStamped, alerting
<1>13. QED BY <1>6, <1>9, <1>10, <1>11, <1>12 DEF DispatchIInv

-----------------------------------------------------------------------------
(* The dashboard.                                                          *)

\* A dispatcher moves a ticket that is there, and resolves a follow-up.
Handling ==
  /\ conversation' = conversation /\ requested' = requested /\ paged' = paged
  /\ alert' = alert /\ outbox' = outbox /\ accepted' = accepted /\ lost' = lost
  /\ tx' = tx /\ line' = line
  /\ failed' = failed /\ handled' = handled /\ finished' = finished
  /\ failures' \in 0..MaxFailures
  /\ ticket' \in [Calls -> Tickets] /\ followUp' \in [Calls -> FollowUps]
  /\ \A b \in Calls :
       /\ ticket'[b].status = "none" <=> ticket[b].status = "none"
       /\ ticket'[b].status \in Closed => ticket'[b].closed
       /\ followUp'[b].open = followUp[b].open
       /\ followUp'[b].emergency = followUp[b].emergency

LEMMA HandlingIInv ==
  ASSUME DispatchIInv, Handling, staff' \in [Dispatchers -> Requests], Checked'
  PROVE  DispatchIInv'
<1>1. Typed'
  BY DEF DispatchIInv, Typed, Handling
<1>2. \A w : \A b \in Calls : Settled(b, w) <=> Settled(b, w)'
  BY DEF Settled, Excused, HasTicket, Handling
<1>3. Transacted'
  <2>1. \A u : \A b \in Calls : Sound(b, u) => Sound(b, u)'
    BY DEF Sound, Backed, HasTicket, Handling
  <2>2. \A u : \A b \in Calls : SoundTurn(b, u) => SoundTurn(b, u)'
    BY DEF SoundTurn, HasTicket, Handling
  <2>3. \A u : \A b \in Calls : SoundReport(b, u) => SoundReport(b, u)'
    BY <1>2 DEF SoundReport, Handling
  <2>4. QED BY <2>1, <2>2, <2>3 DEF DispatchIInv, Transacted, Handling
<1>4. Ended'
  BY <1>2 DEF DispatchIInv, Ended, Handling
<1>5. Sending' /\ Counts'
  BY DEF DispatchIInv, Sending, Counts, Handling
<1>6. AlertWithTicket' /\ EmergencyHasTicket' /\ ClosedIsStamped'
  BY DEF DispatchIInv, AlertWithTicket, EmergencyHasTicket, ClosedIsStamped, Handling
<1>7. QED BY <1>1, <1>3, <1>4, <1>5, <1>6 DEF DispatchIInv

LEMMA StaysHandling ==
  ASSUME DispatchIInv, UNCHANGED <<rows, alerting, tx, line, history>>,
         failures' = failures \/ Fails
  PROVE  Handling
BY Bounds DEF DispatchIInv, Typed, ClosedIsStamped, Handling, rows, alerting, history, Fails

LEMMA NoRequestIsIdle ==
  /\ NoRequest \in Requests /\ NoRequest.phase = "idle"
BY DEF NoRequest, Requests

LEMMA CheckTicketIInv ==
  ASSUME DispatchIInv, NEW d \in Dispatchers, NEW c \in Calls,
         NEW by \in {"assign", "status"}, NEW to \in Status, CheckTicket(d, c, by, to)
  PROVE  DispatchIInv'
<1>1. PICK r :
        /\ r = [NoRequest EXCEPT !.phase = "checked", !.call = c, !.by = by, !.to = to]
        /\ staff' = [staff EXCEPT ![d] = r]
  BY DEF CheckTicket
<1>2. r \in Requests /\ r.phase = "checked" /\ r.call = c /\ r.to = to
  BY <1>1, NoRequestIsIdle DEF Requests
<1>3. ticket[c].status # "none" /\ UNCHANGED <<rows, alerting, tx, line, failures, history>>
  BY DEF CheckTicket
<1>4. Handling
  BY <1>3, StaysHandling
<1>5. /\ staff' \in [Dispatchers -> Requests] /\ staff'[d] = r
      /\ \A e \in Dispatchers : e # d => staff'[e] = staff[e]
  BY <1>1, <1>2 DEF DispatchIInv, Typed
<1>6. Checked'
  BY <1>2, <1>3, <1>4, <1>5 DEF DispatchIInv, Checked, Handling
<1>7. QED BY <1>4, <1>5, <1>6, HandlingIInv

LEMMA LoadTicketIInv ==
  ASSUME DispatchIInv, NEW d \in Dispatchers, LoadTicket(d) PROVE DispatchIInv'
<1>1. PICK q, r :
        /\ q = staff[d]
        /\ r = [q EXCEPT !.phase = "loaded", !.loaded = ticket[q.call].status]
        /\ staff' = [staff EXCEPT ![d] = r]
  BY DEF LoadTicket
<1>2. q.phase = "checked" /\ UNCHANGED <<rows, alerting, tx, line, failures, history>>
  BY <1>1 DEF LoadTicket
<1>3. /\ q \in Requests /\ q.call \in Calls /\ ticket[q.call].status \in Status \union {"none"}
      /\ ticket[q.call].status # "none" /\ q.to \in Status
  BY <1>1, <1>2 DEF DispatchIInv, Checked, Typed, Tickets
<1>4. r \in Requests /\ r.phase = "loaded" /\ r.call = q.call /\ r.to = q.to
  BY <1>1, <1>3 DEF Requests
<1>5. Handling
  BY <1>2, StaysHandling
<1>6. /\ staff' \in [Dispatchers -> Requests] /\ staff'[d] = r
      /\ \A e \in Dispatchers : e # d => staff'[e] = staff[e]
  BY <1>1, <1>4 DEF DispatchIInv, Typed
<1>7. Checked'
  BY <1>3, <1>4, <1>5, <1>6 DEF DispatchIInv, Checked, Handling
<1>8. QED BY <1>5, <1>6, <1>7, HandlingIInv

\* A request that is over leaves the others as they were.
LEMMA RequestOver ==
  ASSUME DispatchIInv, Handling, NEW d \in Dispatchers,
         staff' = [staff EXCEPT ![d] = NoRequest]
  PROVE  DispatchIInv'
<1>1. /\ staff' \in [Dispatchers -> Requests] /\ staff'[d] = NoRequest
      /\ \A e \in Dispatchers : e # d => staff'[e] = staff[e]
  BY NoRequestIsIdle DEF DispatchIInv, Typed
<1>2. Checked'
  BY <1>1, NoRequestIsIdle DEF DispatchIInv, Checked, Handling
<1>3. QED BY <1>1, <1>2, HandlingIInv

LEMMA WriteTicketIInv ==
  ASSUME DispatchIInv, NEW d \in Dispatchers, WriteTicket(d) PROVE DispatchIInv'
<1>1. PICK r, v :
        /\ r = staff[d]
        /\ v = [status |-> IF r.loaded # r.to THEN r.to ELSE ticket[r.call].status,
                closed |-> ticket[r.call].closed \/ r.to \in Closed]
        /\ ticket' = [ticket EXCEPT ![r.call] = v]
  BY Zenon DEF WriteTicket
<1>2. /\ r.phase = "loaded" /\ staff' = [staff EXCEPT ![d] = NoRequest]
      /\ UNCHANGED <<conversation, requested, paged, followUp, alerting, tx, line,
                     failures, history>>
  BY <1>1 DEF WriteTicket
<1>3. /\ r.call \in Calls /\ r.to \in Status /\ ticket[r.call].status # "none"
      /\ ticket[r.call] \in Tickets
      /\ ticket[r.call].status \in Closed => ticket[r.call].closed
  BY <1>1, <1>2 DEF DispatchIInv, Checked, Typed, ClosedIsStamped
<1>4. /\ v \in Tickets /\ v.status # "none" /\ (v.status \in Closed => v.closed)
  BY <1>1, <1>3 DEF Tickets, Status, Closed
<1>5. /\ ticket' \in [Calls -> Tickets] /\ ticket'[r.call] = v
      /\ \A b \in Calls : b # r.call => ticket'[b] = ticket[b]
  BY <1>1, <1>3, <1>4 DEF DispatchIInv, Typed
<1>6. Handling
  BY <1>2, <1>3, <1>4, <1>5
     DEF DispatchIInv, Typed, ClosedIsStamped, Handling, alerting, history
<1>7. QED BY <1>2, <1>6, RequestOver

LEMMA LoadFollowUpIInv ==
  ASSUME DispatchIInv, NEW d \in Dispatchers, NEW c \in Calls, LoadFollowUp(d, c)
  PROVE  DispatchIInv'
<1>1. PICK r :
        /\ r = [NoRequest EXCEPT !.phase = "resolving", !.call = c, !.by = "resolve"]
        /\ staff' = [staff EXCEPT ![d] = r]
  BY DEF LoadFollowUp
<1>2. r \in Requests /\ r.phase = "resolving" /\ r.call = c
  BY <1>1, NoRequestIsIdle DEF Requests
<1>3. Handling
  BY StaysHandling DEF LoadFollowUp
<1>4. /\ staff' \in [Dispatchers -> Requests] /\ staff'[d] = r
      /\ \A e \in Dispatchers : e # d => staff'[e] = staff[e]
  BY <1>1, <1>2 DEF DispatchIInv, Typed
<1>5. Checked'
  BY <1>2, <1>3, <1>4 DEF DispatchIInv, Checked, Handling
<1>6. QED BY <1>3, <1>4, <1>5, HandlingIInv

LEMMA ResolveFollowUpIInv ==
  ASSUME DispatchIInv, NEW d \in Dispatchers, ResolveFollowUp(d) PROVE DispatchIInv'
<1>1. PICK r, v :
        /\ r = staff[d] /\ v = [followUp[r.call] EXCEPT !.resolved = TRUE]
        /\ followUp' = [followUp EXCEPT ![r.call] = v]
  BY DEF ResolveFollowUp
<1>2. /\ r.phase = "resolving" /\ staff' = [staff EXCEPT ![d] = NoRequest]
      /\ UNCHANGED <<conversation, ticket, requested, paged, alerting, tx, line,
                     failures, history>>
  BY <1>1 DEF ResolveFollowUp
<1>3. r.call \in Calls /\ followUp[r.call] \in FollowUps
  BY <1>1, <1>2 DEF DispatchIInv, Checked, Typed
<1>4. /\ v \in FollowUps /\ v.open = followUp[r.call].open
      /\ v.emergency = followUp[r.call].emergency
  BY <1>1, <1>3 DEF FollowUps
<1>5. /\ followUp' \in [Calls -> FollowUps] /\ followUp'[r.call] = v
      /\ \A b \in Calls : b # r.call => followUp'[b] = followUp[b]
  BY <1>1, <1>3, <1>4 DEF DispatchIInv, Typed
<1>6. Handling
  BY <1>2, <1>4, <1>5 DEF DispatchIInv, Typed, ClosedIsStamped, Handling, alerting, history
<1>7. QED BY <1>2, <1>6, RequestOver

LEMMA RequestFailsIInv ==
  ASSUME DispatchIInv, NEW d \in Dispatchers, RequestFails(d) PROVE DispatchIInv'
BY StaysHandling, RequestOver DEF RequestFails

-----------------------------------------------------------------------------
(* The outbox.                                                             *)

Delivering ==
  /\ UNCHANGED <<rows, tx, staff, line, history>> /\ failures' \in 0..MaxFailures
  /\ alert' \in [Calls -> Alerts] /\ outbox' \in [Outboxes -> Sends]
  /\ accepted' \in [Calls -> Nat] /\ lost' \in [Calls -> Nat]
  /\ \A b \in Calls : alert'[b].status = "none" <=> alert[b].status = "none"

LEMMA DeliveringIInv ==
  ASSUME DispatchIInv, Delivering, Sending', Counts' PROVE DispatchIInv'
<1>1. Typed'
  BY DEF DispatchIInv, Typed, Delivering, rows, history
<1>2. Transacted'
  BY DEF DispatchIInv, Transacted, Sound, Backed, SoundTurn, SoundReport, HasTicket, Settled,
         Excused, Delivering, rows, history
<1>3. Ended' /\ Checked'
  BY DEF DispatchIInv, Ended, Checked, HasTicket, Settled, Excused, Delivering, rows, history
<1>4. AlertWithTicket' /\ EmergencyHasTicket' /\ ClosedIsStamped'
  BY DEF DispatchIInv, AlertWithTicket, EmergencyHasTicket, ClosedIsStamped, Delivering, rows
<1>5. QED BY <1>1, <1>2, <1>3, <1>4 DEF DispatchIInv

\* A loop that has a row is alone with it, and the row is not yet delivered.
LEMMA Alone ==
  ASSUME DispatchIInv, NEW o \in Outboxes, outbox[o].call # NoCall
  PROVE  /\ outbox[o].call \in Calls /\ outbox[o] \in Sends
         /\ alert[outbox[o].call] \in Alerts
         /\ alert[outbox[o].call].status \in {"pending", "failed"}
         /\ alert[outbox[o].call].due /\ alert[outbox[o].call].attempts < MaxAttempts
         /\ \A p \in Outboxes : p # o => outbox[p].call # outbox[o].call
         /\ accepted[outbox[o].call] \in Nat /\ lost[outbox[o].call] \in Nat
         /\ accepted[outbox[o].call] =
              lost[outbox[o].call] + (IF outbox[o].answer = "delivered" THEN 1 ELSE 0)
<1>1. /\ outbox[o].call \in Calls /\ outbox[o] \in Sends
      /\ alert[outbox[o].call] \in Alerts
      /\ accepted[outbox[o].call] \in Nat /\ lost[outbox[o].call] \in Nat
  BY DEF DispatchIInv, Typed, Sends
<1>2. /\ alert[outbox[o].call].status \in {"pending", "failed"}
      /\ alert[outbox[o].call].due
      /\ \A p \in Outboxes : p # o => outbox[p].call # outbox[o].call
  BY DEF DispatchIInv, Sending
<1>3. alert[outbox[o].call].attempts < MaxAttempts
  BY <1>1, <1>2, Bounds DEF DispatchIInv, Sending
<1>4. (\E p \in Outboxes : outbox[p] = [call |-> outbox[o].call, answer |-> "delivered"])
        <=> outbox[o].answer = "delivered"
  BY <1>1, <1>2 DEF Sends
<1>5. QED BY <1>1, <1>2, <1>3, <1>4 DEF DispatchIInv, Counts

LEMMA NoSendIsNone ==
  NoSend \in Sends /\ NoSend.call = NoCall /\ NoSend.answer = "none"
BY DEF NoSend, Sends

LEMMA LockNextDueIInv ==
  ASSUME DispatchIInv, NEW o \in Outboxes, NEW c \in Calls, LockNextDue(o, c)
  PROVE  DispatchIInv'
<1>1. /\ outbox[o].call = NoCall /\ alert[c].status \in {"pending", "failed"} /\ alert[c].due
      /\ \A p \in Outboxes : outbox[p].call # c
      /\ UNCHANGED <<rows, alert, accepted, lost, tx, staff, line, failures, history>>
  BY DEF LockNextDue, Locked
<1>2. PICK s : /\ s = [call |-> c, answer |-> "none"]
               /\ outbox' = [outbox EXCEPT ![o] = s]
  BY DEF LockNextDue
<1>3. s \in Sends /\ s.call = c /\ s.answer = "none"
  BY <1>2 DEF Sends
<1>4. /\ outbox' \in [Outboxes -> Sends] /\ outbox'[o] = s
      /\ \A p \in Outboxes : p # o => outbox'[p] = outbox[p]
  BY <1>2, <1>3 DEF DispatchIInv, Typed
<1>5. Delivering
  BY <1>1, <1>4 DEF DispatchIInv, Typed, Delivering
<1>6. Sending'
  BY <1>1, <1>3, <1>4, NoCallAssumption DEF DispatchIInv, Sending
<1>7. Counts'
  <2>1. outbox[o].answer = "none"
    BY <1>1, NoSendIsNone DEF DispatchIInv, Sending
  <2>2. \A b \in Calls, p \in Outboxes :
          outbox'[p] = [call |-> b, answer |-> "delivered"]
            <=> outbox[p] = [call |-> b, answer |-> "delivered"]
    BY <1>3, <1>4, <2>1
  <2>3. QED BY <1>1, <2>2 DEF DispatchIInv, Counts
<1>8. QED BY <1>5, <1>6, <1>7, DeliveringIInv

LEMMA AttemptIInv ==
  ASSUME DispatchIInv, NEW o \in Outboxes, Attempt(o) PROVE DispatchIInv'
<1>1. PICK c : c = outbox[o].call
  OBVIOUS
<1>2. /\ c # NoCall /\ outbox[o].answer = "none"
      /\ UNCHANGED <<rows, alert, tx, staff, line, failures, history>>
  BY <1>1 DEF Attempt
<1>3. PICK answer \in {"delivered", "failed", "not_configured"}, late \in BOOLEAN :
        LET n == IF answer = "delivered" \/ (answer = "failed" /\ late) THEN 1 ELSE 0
        IN  /\ outbox' = [outbox EXCEPT ![o] = [outbox[o] EXCEPT !.answer = answer]]
            /\ accepted' = [accepted EXCEPT ![c] = accepted[c] + n]
            /\ lost' = [lost EXCEPT ![c] = IF answer = "failed" THEN lost[c] + n ELSE lost[c]]
  BY <1>1 DEF Attempt
<1>4. /\ c \in Calls /\ outbox[o] \in Sends /\ alert[c].status \in {"pending", "failed"}
      /\ \A p \in Outboxes : p # o => outbox[p].call # c
      /\ accepted[c] \in Nat /\ lost[c] \in Nat /\ accepted[c] = lost[c]
  BY <1>1, <1>2, Alone
<1>5. PICK s : s = [outbox[o] EXCEPT !.answer = answer]
  OBVIOUS
<1>6. s \in Sends /\ s.call = c /\ s.answer = answer
  BY <1>1, <1>4, <1>5 DEF Sends
<1>7. /\ outbox' \in [Outboxes -> Sends] /\ outbox'[o] = s
      /\ \A p \in Outboxes : p # o => outbox'[p] = outbox[p]
  BY <1>3, <1>5, <1>6 DEF DispatchIInv, Typed
<1>8. /\ accepted' \in [Calls -> Nat] /\ lost' \in [Calls -> Nat]
      /\ accepted'[c] = lost'[c] + (IF answer = "delivered" THEN 1 ELSE 0)
      /\ \A b \in Calls : b # c => accepted'[b] = accepted[b] /\ lost'[b] = lost[b]
  BY <1>3, <1>4 DEF DispatchIInv, Typed
<1>9. Delivering
  BY <1>2, <1>7, <1>8 DEF DispatchIInv, Typed, Delivering
<1>10. Sending'
  BY <1>1, <1>2, <1>6, <1>7 DEF DispatchIInv, Sending
<1>11. Counts'
  <2>1. \A b \in Calls, p \in Outboxes : b # c =>
          (outbox'[p] = [call |-> b, answer |-> "delivered"]
            <=> outbox[p] = [call |-> b, answer |-> "delivered"])
    BY <1>1, <1>6, <1>7
  <2>2. (\E p \in Outboxes : outbox'[p] = [call |-> c, answer |-> "delivered"])
          <=> answer = "delivered"
    BY <1>4, <1>6, <1>7 DEF Sends
  <2>3. QED BY <1>2, <1>4, <1>8, <2>1, <2>2 DEF DispatchIInv, Counts
<1>12. QED BY <1>9, <1>10, <1>11, DeliveringIInv

LEMMA RecordAttemptIInv ==
  ASSUME DispatchIInv, NEW o \in Outboxes, RecordAttempt(o) PROVE DispatchIInv'
<1>1. PICK s, c, v :
        /\ s = outbox[o] /\ c = s.call
        /\ v = [status |-> s.answer, attempts |-> alert[c].attempts + 1, due |-> FALSE]
        /\ alert' = [alert EXCEPT ![c] = v]
  BY DEF RecordAttempt
<1>2. /\ s.answer # "none" /\ outbox' = [outbox EXCEPT ![o] = NoSend]
      /\ UNCHANGED <<rows, accepted, lost, tx, staff, line, failures, history>>
  BY <1>1 DEF RecordAttempt
<1>3. c # NoCall
  BY <1>1, <1>2, NoSendIsNone DEF DispatchIInv, Sending
<1>4. /\ c \in Calls /\ s \in Sends /\ alert[c] \in Alerts
      /\ alert[c].status \in {"pending", "failed"} /\ alert[c].attempts < MaxAttempts
      /\ \A p \in Outboxes : p # o => outbox[p].call # c
      /\ accepted[c] = lost[c] + (IF s.answer = "delivered" THEN 1 ELSE 0)
  BY <1>1, <1>3, Alone
<1>5. v \in Alerts /\ v.status = s.answer /\ ~v.due /\ v.status # "none" /\ v.status # "pending"
  <2>1. alert[c].attempts + 1 \in 0..MaxAttempts
    BY <1>4, Bounds DEF Alerts
  <2>2. QED BY <1>1, <1>2, <1>4, <2>1 DEF Alerts, Sends
<1>6. /\ alert' \in [Calls -> Alerts] /\ alert'[c] = v
      /\ \A b \in Calls : b # c => alert'[b] = alert[b]
  BY <1>1, <1>4, <1>5 DEF DispatchIInv, Typed
<1>7. /\ outbox' \in [Outboxes -> Sends] /\ outbox'[o] = NoSend
      /\ \A p \in Outboxes : p # o => outbox'[p] = outbox[p]
  BY <1>2, NoSendIsNone DEF DispatchIInv, Typed
<1>8. Delivering
  BY <1>2, <1>4, <1>5, <1>6, <1>7 DEF DispatchIInv, Typed, Delivering
<1>9. Sending'
  <2>1. \A p \in Outboxes : outbox'[p].call # NoCall =>
          /\ outbox'[p] = outbox[p] /\ p # o
          /\ outbox[p].call \in Calls /\ alert'[outbox[p].call] = alert[outbox[p].call]
    BY <1>4, <1>6, <1>7, NoSendIsNone DEF DispatchIInv, Typed, Sends
  <2>2. \A p \in Outboxes : outbox'[p].call = NoCall => outbox'[p] = NoSend
    BY <1>7 DEF DispatchIInv, Sending
  <2>3. \A b \in Calls :
          /\ alert'[b].status = "pending" => alert'[b].attempts = 0
          /\ alert'[b].status = "failed" /\ alert'[b].due => alert'[b].attempts < MaxAttempts
    BY <1>5, <1>6 DEF DispatchIInv, Sending
  <2>4. QED BY <2>1, <2>2, <2>3 DEF DispatchIInv, Sending
<1>10. Counts'
  <2>1. \A b \in Calls, p \in Outboxes : b # c =>
          (outbox'[p] = [call |-> b, answer |-> "delivered"]
            <=> outbox[p] = [call |-> b, answer |-> "delivered"])
    BY <1>1, <1>7, NoSendIsNone
  <2>2. ~\E p \in Outboxes : outbox'[p] = [call |-> c, answer |-> "delivered"]
    BY <1>4, <1>7, NoSendIsNone
  <2>3. QED BY <1>2, <1>4, <1>5, <1>6, <2>1, <2>2 DEF DispatchIInv, Counts
<1>11. QED BY <1>8, <1>9, <1>10, DeliveringIInv

LEMMA DeliverFailsIInv ==
  ASSUME DispatchIInv, NEW o \in Outboxes, DeliverFails(o) PROVE DispatchIInv'
<1>1. PICK s, c :
        /\ s = outbox[o] /\ c = s.call
        /\ lost' = [lost EXCEPT ![c] = IF s.answer = "delivered" THEN lost[c] + 1 ELSE lost[c]]
  BY DEF DeliverFails
<1>2. /\ c # NoCall /\ Fails /\ outbox' = [outbox EXCEPT ![o] = NoSend]
      /\ UNCHANGED <<rows, alert, accepted, tx, staff, line, history>>
  BY <1>1 DEF DeliverFails
<1>3. /\ c \in Calls /\ s \in Sends /\ alert[c].status \in {"pending", "failed"}
      /\ \A p \in Outboxes : p # o => outbox[p].call # c
      /\ accepted[c] \in Nat /\ lost[c] \in Nat
      /\ accepted[c] = lost[c] + (IF s.answer = "delivered" THEN 1 ELSE 0)
  BY <1>1, <1>2, Alone
<1>4. /\ outbox' \in [Outboxes -> Sends] /\ outbox'[o] = NoSend
      /\ \A p \in Outboxes : p # o => outbox'[p] = outbox[p]
  BY <1>2, NoSendIsNone DEF DispatchIInv, Typed
<1>5. /\ lost' \in [Calls -> Nat] /\ lost'[c] = accepted[c]
      /\ \A b \in Calls : b # c => lost'[b] = lost[b]
  BY <1>1, <1>3 DEF DispatchIInv, Typed
<1>6. Delivering
  BY <1>2, <1>4, <1>5, Bounds DEF DispatchIInv, Typed, Delivering, Fails
<1>7. Sending'
  BY <1>2, <1>4, NoSendIsNone DEF DispatchIInv, Sending
<1>8. Counts'
  <2>1. \A b \in Calls, p \in Outboxes : b # c =>
          (outbox'[p] = [call |-> b, answer |-> "delivered"]
            <=> outbox[p] = [call |-> b, answer |-> "delivered"])
    BY <1>1, <1>4, NoSendIsNone
  <2>2. ~\E p \in Outboxes : outbox'[p] = [call |-> c, answer |-> "delivered"]
    BY <1>3, <1>4, NoSendIsNone
  <2>3. QED BY <1>2, <1>3, <1>5, <2>1, <2>2 DEF DispatchIInv, Counts
<1>9. QED BY <1>6, <1>7, <1>8, DeliveringIInv

LEMMA RetryDueIInv ==
  ASSUME DispatchIInv, NEW c \in Calls, RetryDue(c) PROVE DispatchIInv'
<1>1. PICK v : v = [alert[c] EXCEPT !.due = TRUE] /\ alert' = [alert EXCEPT ![c] = v]
  BY DEF RetryDue
<1>2. /\ alert[c].status = "failed" /\ alert[c].attempts < MaxAttempts
      /\ UNCHANGED <<rows, outbox, accepted, lost, tx, staff, line, failures, history>>
  BY DEF RetryDue
<1>3. alert[c] \in Alerts
  BY DEF DispatchIInv, Typed
<1>4. v \in Alerts /\ v.status = "failed" /\ v.attempts = alert[c].attempts /\ v.due
  BY <1>1, <1>2, <1>3 DEF Alerts
<1>5. /\ alert' \in [Calls -> Alerts] /\ alert'[c] = v
      /\ \A b \in Calls : b # c => alert'[b] = alert[b]
  BY <1>1, <1>4 DEF DispatchIInv, Typed
<1>6. Delivering
  BY <1>2, <1>4, <1>5 DEF DispatchIInv, Typed, Delivering
<1>7. Sending'
  <2>1. \A p \in Outboxes : outbox[p].call # NoCall => outbox[p].call \in Calls
    BY DEF DispatchIInv, Typed, Sends
  <2>2. QED BY <1>2, <1>4, <1>5, <2>1 DEF DispatchIInv, Sending
<1>8. Counts'
  BY <1>2, <1>4, <1>5 DEF DispatchIInv, Counts
<1>9. QED BY <1>6, <1>7, <1>8, DeliveringIInv

-----------------------------------------------------------------------------
(* All steps.                                                              *)

LEMMA NextIInv == DispatchIInv /\ [Next]_vars => DispatchIInv'
<1> SUFFICES ASSUME DispatchIInv, [Next]_vars PROVE DispatchIInv'
  OBVIOUS
<1>1. ASSUME NEW c \in Calls, NEW k \in Kinds, TransactionStep(c, k) PROVE DispatchIInv'
  BY <1>1, CreateTicketIInv, AddFollowUpIInv, MarkPossibleEmergencyIInv, RecordFailsIInv,
     RollBackIInv, CommitIInv DEF TransactionStep
<1>2. ASSUME NEW c \in Calls, TurnStep(c) PROVE DispatchIInv'
  <2>1. CASE \E words \in Words \ {"none"} : Speak(c, words)
    BY <2>1, SpeakIInv
  <2>2. CASE \E outcome \in Outcomes \ {"question"} : CreateServiceRequest(c, outcome)
    BY <2>2, CreateServiceRequestIInv
  <2>3. CASE \E outcome \in Outcomes, ends \in BOOLEAN : WriteTurn(c, outcome, ends)
    BY <2>3, WriteTurnIInv
  <2>4. QED
    BY <1>2, <2>1, <2>2, <2>3, OpenCallIInv, BeginTurnIInv, RefuseTurnIInv, ToolFailsIInv,
       SyncOutcomeIInv, FailTurnIInv DEF TurnStep
<1>3. ASSUME NEW c \in Calls, ReportStep(c) PROVE DispatchIInv'
  BY <1>3, ReportArrivesIInv, EndConversationIInv, LookForFollowUpIInv, LookForRequestIInv
     DEF ReportStep
<1>4. ASSUME NEW d \in Dispatchers, StaffStep(d) PROVE DispatchIInv'
  <2>1. CASE \E c \in Calls, by \in {"assign", "status"}, to \in Status : CheckTicket(d, c, by, to)
    BY <2>1, CheckTicketIInv
  <2>2. CASE \E c \in Calls : LoadFollowUp(d, c)
    BY <2>2, LoadFollowUpIInv
  <2>3. QED
    BY <1>4, <2>1, <2>2, LoadTicketIInv, WriteTicketIInv, ResolveFollowUpIInv, RequestFailsIInv
       DEF StaffStep
<1>5. ASSUME NEW o \in Outboxes, OutboxStep(o) PROVE DispatchIInv'
  BY <1>5, LockNextDueIInv, AttemptIInv, RecordAttemptIInv, DeliverFailsIInv DEF OutboxStep
<1>6. CASE UNCHANGED vars
  <2>1. Uncommitted /\ tx' = tx
    BY <1>6, StaysUncommitted DEF vars
  <2>2. QED BY <2>1, UncommittedIInv
<1>7. QED
  BY <1>1, <1>2, <1>3, <1>4, <1>5, <1>6, RetryDueIInv DEF Next

-----------------------------------------------------------------------------
(* The theorems.                                                           *)

\* The invariant that carries the others: it holds at first and every step keeps
\* it.
THEOREM DispatchInductive == Spec => []DispatchIInv
BY InitIInv, NextIInv, PTL DEF Spec

\* A ticket and its alert come together, an emergency has its ticket and a page
\* too, and a closed ticket its time, whatever was rolled back and whichever
\* halves of two dispatchers' updates won.
THEOREM DispatchSafe == Spec => []DispatchInv
<1>1. DispatchIInv => DispatchInv
  <2> SUFFICES ASSUME DispatchIInv PROVE DispatchInv
    OBVIOUS
  <2>1. Typed
    BY DEF DispatchIInv
  <2>2. TypeOK
    BY <2>1 DEF Typed, TypeOK, Conversations, Tickets, FollowUps, Alerts, Requests, Sends, Lines
  <2>3. QED BY <2>2 DEF DispatchIInv, DispatchInv
<1>2. QED BY <1>1, DispatchInductive, PTL

\* Once a report on a known call is handled, the call has an owner: a ticket, an
\* appointment or a follow-up, an alarming call one marked as an emergency,
\* whatever turns were under way and however often the report came.
THEOREM ReportedCallOwned == Spec => []ReportedCallHasOwner
<1>1. DispatchIInv => ReportedCallHasOwner
  <2> SUFFICES ASSUME DispatchIInv, NEW c \in Calls, handled[c], NeedsOwner(c), ~failed[c]
               PROVE  Owned(c)
    BY DEF ReportedCallHasOwner
  <2>1. Settled(c, NoWrites)
    BY DEF DispatchIInv, Ended
  <2>2. QED BY <2>1, Nothing DEF Settled, Excused, HasTicket, NeedsOwner, Owned
<1>2. QED BY <1>1, DispatchInductive, PTL

\* A provider accepts an alert again only if an earlier acceptance was lost: two
\* loops never send one alert at once.
THEOREM SentOnceUnlessLost == Spec => []AlertedAgainOnlyIfLost
<1>1. DispatchIInv => AlertedAgainOnlyIfLost
  <2> SUFFICES ASSUME DispatchIInv, NEW c \in Calls PROVE accepted[c] <= 1 + lost[c]
    BY DEF AlertedAgainOnlyIfLost
  <2>1. accepted[c] \in Nat /\ lost[c] \in Nat
    BY DEF DispatchIInv, Typed
  <2>2. PICK n \in {0, 1} : accepted[c] = lost[c] + n
    BY DEF DispatchIInv, Counts
  <2>3. QED BY <2>1, <2>2
<1>2. QED BY <1>1, DispatchInductive, PTL
=============================================================================
