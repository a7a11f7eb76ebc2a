----------------------------- MODULE VoiceTurns -----------------------------
(***************************************************************************)
(* One live voice call: the requests Vapi sends for it, the transaction    *)
(* each runs in, and what the caller is told on the way.                   *)
(*                                                                         *)
(* Vapi sends a request whenever its transcript grows, so several may be   *)
(* open at once, on one worker process or on several.  Each claims a       *)
(* ticket on arrival, waits for the call's advisory lock, and holds the    *)
(* lock until its transaction ends.  Its writes are req[r].w until then.   *)
(* What it puts on the wire it cannot take back; Vapi listens to the       *)
(* newest response and discards the others.                                *)
(***************************************************************************)
EXTENDS Naturals, Sequences, FiniteSets

CONSTANTS
  Requests,     \* requests of the call that may be open at once
  Processes,    \* worker processes of the API
  NoRequest,    \* nobody: the holder of a free lock
  Texts,        \* what a caller may say
  Alarming,     \* the texts that describe a life-safety hazard
  TurnLimit,    \* AI_MAX_CONVERSATION_TURNS
  MaxRounds,    \* AI_MAX_TOOL_ROUNDS
  MaxSaid,      \* bound: utterances
  MaxSent,      \* bound: requests in all
  MaxFailures   \* bound: savepoints, transactions and processes that fail,
                \* and changes of the line

ASSUME NoRequestAssumption == NoRequest \notin Requests
ASSUME AlarmingAssumption == Alarming \subseteq Texts
ASSUME BoundsAssumption ==
  {TurnLimit, MaxRounds, MaxSaid, MaxSent, MaxFailures} \subseteq Nat

VARIABLES
  streaming,   \* whether this call's assistant asks for streamed replies
  said,        \* what the caller has said, in order
  ended,       \* the end-of-call report has been handled
  tenant,      \* the voice line: answered, switched off, or not mapped
  row,         \* the voice_calls and conversations rows, the INITIATED attempt
  transcript,  \* the conversation_messages table, a turn an entry
  latest,      \* TranscriptSupersession of each process
  lock,        \* the holder of the call's advisory lock
  req,         \* the requests
  sent,        \* how many requests Vapi has sent
  failures,    \* how many things have failed
  over,        \* history: the assistant ended the conversation
  onWire,      \* history: the fixed sentences any response has carried
  instructed,  \* history: the safety instruction was in one Vapi listened to
  unled,       \* history: an answer went out with no notice before it
  moves        \* history: transfers the provider accepted; those whose record
               \* was lost or never made

database == <<row, transcript, over>>
wire == <<onWire, instructed, unled>>
history == <<wire, moves>>
settled == <<streaming, said, ended, tenant, database, latest, sent>>
vars == <<settled, lock, req, failures, history>>

NoWrites == [known |-> FALSE, noticed |-> FALSE, turn |-> 0, led |-> FALSE,
             ends |-> FALSE, moved |-> FALSE]

\* n: the request's place among all sent; said: the utterance it carries, 0
\* for the opening; lead: the safety instruction is to lead the reply; moved,
\* unbooked: what the turn's tools did; held: the model's words wait for the end
\* of the round; out: what the response carries.
Idle ==
  [phase |-> "idle", proc |-> "none", seq |-> 0, n |-> 0, said |-> 0,
   lead |-> FALSE, round |-> 0, held |-> FALSE, unbooked |-> FALSE,
   moved |-> FALSE, w |-> NoWrites, out |-> {}]

Frames == {"notice", "instruction", "answer", "stale", "phrase", "fallback",
           "endCall"}
Fixed == {"notice", "instruction"}

Init ==
  /\ streaming \in BOOLEAN
  /\ said = <<>>
  /\ ended = FALSE
  /\ tenant = "on"
  /\ row = [known |-> FALSE, noticed |-> FALSE, completed |-> FALSE,
            moved |-> FALSE]
  /\ transcript = <<>>
  /\ latest = [p \in Processes |-> 0]
  /\ lock = NoRequest
  /\ req = [r \in Requests |-> Idle]
  /\ sent = 0
  /\ failures = 0
  /\ over = FALSE
  /\ onWire = {}
  /\ instructed = FALSE
  /\ unled = FALSE
  /\ moves = [accepted |-> 0, lost |-> 0]

-----------------------------------------------------------------------------
(* Reading what is there, writing on the wire.                             *)

TextOf(r) == said[req[r].said]
IsAlarming(i) == said[i] \in Alarming

Answered == transcript # <<>>
LastAnswered == transcript[Len(transcript)].said

\* Mutant: the ticket claimed once the lock is held.
IsCurrentAlways(r) == TRUE

IsCurrent(r) == latest[req[r].proc] = req[r].seq

\* A reply already given: to the same words, or to older ones when a newer
\* request of this process has come meanwhile.
SameWords(r) == said[LastAnswered] = TextOf(r)
Redundant(r) == Answered /\ (SameWords(r) \/ ~IsCurrent(r))

\* Mutant: what the caller has said for what the transcript holds.
NewHazardSaid(r) ==
  /\ IsAlarming(req[r].said)
  /\ \A i \in 1..req[r].said - 1 : ~IsAlarming(i)

\* A hazard in these words and in none the transcript holds.
NewHazard(r) ==
  /\ IsAlarming(req[r].said)
  /\ \A i \in DOMAIN transcript : ~IsAlarming(transcript[i].said)

\* Vapi discards a response that a newer request has superseded.
Listened(r) == req[r].n = sent

\* The response of r carries these frames next, the notice first.
Emit(r, state, frames) ==
  /\ req' = [req EXCEPT ![r] = [state EXCEPT !.out = state.out \cup frames]]
  /\ onWire' = onWire \cup (frames \cap Fixed)
  /\ instructed' = (instructed \/ (Listened(r) /\ "instruction" \in frames))
  /\ unled' = (unled \/ (/\ frames \cap {"answer", "stale"} # {}
                         /\ "notice" \notin onWire \cup frames))

Silent(r, state) == Emit(r, state, {})

\* At most MaxFailures steps go wrong.
Counted(wrong) ==
  /\ wrong => failures < MaxFailures
  /\ failures' = IF wrong THEN failures + 1 ELSE failures

-----------------------------------------------------------------------------
(* Vapi and the caller.                                                    *)

\* A request arrives at process p, with what the caller has said by then, or for
\* the call's opening.  Only a turn claims a ticket.
Send(r, p, words) ==
  /\ req[r].phase = "idle"
  /\ ~ended
  /\ sent < MaxSent
  /\ sent' = sent + 1
  /\ Len(words) <= MaxSaid
  /\ said' = words
  /\ latest' = IF words = <<>> THEN latest ELSE [latest EXCEPT ![p] = @ + 1]
  /\ req' = [req EXCEPT ![r] =
       [Idle EXCEPT !.phase = "waiting", !.proc = p, !.n = sent',
                    !.seq = latest'[p], !.said = Len(words)]]
  /\ UNCHANGED <<streaming, ended, tenant, database, lock, failures, history>>

\* The owner's kill switch, and the mapping of the line.
SetTenant(state) ==
  /\ Counted(TRUE)
  /\ tenant' = state
  /\ UNCHANGED <<streaming, said, ended, database, latest, lock, req, sent,
                 history>>

-----------------------------------------------------------------------------
(* Taking the lock: what a request does before the model is asked.         *)

Acquire(r) ==
  /\ req[r].phase = "waiting"
  /\ lock = NoRequest
  /\ lock' = r

\* The notice is due, and marked as given in the turn's transaction; a mark
\* that cannot be written does not stop it.
NoticeDue(r) == ~row.noticed /\ ~req[r].w.noticed
Notice(due) == IF due THEN {"notice"} ELSE {}
Marked(state, due, marked) ==
  [state EXCEPT !.w.known = TRUE,
                !.w.noticed = state.w.noticed \/ (due /\ marked)]

\* The owner has switched the assistant off.
RefuseDisabled(r) ==
  /\ Acquire(r)
  /\ tenant = "off"
  /\ Emit(r, [req[r] EXCEPT !.phase = "closing"], {"fallback", "endCall"})
  /\ UNCHANGED <<settled, failures, moves>>

\* The line is mapped to nobody.  A call known from before is an outage like
\* any other.
RefuseUnmapped(r) ==
  /\ Acquire(r)
  /\ tenant = "unmapped"
  /\ IF req[r].said # 0 /\ row.known
     THEN Silent(r, [req[r] EXCEPT !.phase = "outage"])
     ELSE Emit(r, [req[r] EXCEPT !.phase = "closing"],
               IF req[r].said = 0 \/ streaming THEN {"fallback"}
               ELSE {"fallback", "endCall"})
  /\ UNCHANGED <<settled, failures, moves>>

\* The opening: greeting and notice, unless the call has had a turn.
OpenCall(r, marked) ==
  /\ Acquire(r)
  /\ tenant = "on"
  /\ req[r].said = 0
  /\ LET due == ~Answered /\ NoticeDue(r)
     IN  /\ Emit(r, [Marked(req[r], due, marked) EXCEPT !.phase = "closing"],
                 IF Answered THEN {"fallback"} ELSE Notice(due))
         /\ Counted(~marked) /\ (marked \/ due)
  /\ UNCHANGED <<settled, moves>>

\* A request with words reaches the conversation.  Streamed, the notice goes out
\* first; without streaming it is taken once there is a reply to lead.
Enter(r) ==
  /\ Acquire(r)
  /\ tenant = "on"
  /\ req[r].said # 0

LeadDue(r) == streaming /\ NoticeDue(r)

\* Mutant: the notice recorded as given before there is a reply.
EnteredNoticed(r, marked) == Marked(req[r], NoticeDue(r), marked)

Entered(r, marked) == Marked(req[r], LeadDue(r), marked)

ReuseReply(r, marked) ==
  /\ Enter(r)
  /\ Redundant(r)
  /\ Emit(r, [Marked(req[r], NoticeDue(r), marked) EXCEPT !.phase = "closing"],
          Notice(NoticeDue(r))
            \cup {IF SameWords(r) THEN "answer" ELSE "stale"}
            \cup (IF transcript[Len(transcript)].led THEN {"instruction"} ELSE {})
            \cup (IF row.completed THEN {"endCall"} ELSE {}))
  /\ Counted(~marked) /\ (marked \/ NoticeDue(r))
  /\ UNCHANGED <<settled, moves>>

\* The conversation is completed, or has had all its turns.
RefuseTurn(r, marked) ==
  /\ Enter(r)
  /\ ~Redundant(r)
  /\ row.completed \/ Len(transcript) >= TurnLimit
  /\ Emit(r, [Entered(r, marked) EXCEPT !.phase = "closing"],
          Notice(LeadDue(r)) \cup {"fallback", "endCall"})
  /\ Counted(~marked) /\ (marked \/ LeadDue(r))
  /\ UNCHANGED <<settled, moves>>

\* Mutant: a completed conversation goes on.
BeginTurnAnyway(r, marked) ==
  /\ Enter(r)
  /\ ~Redundant(r)
  /\ Len(transcript) < TurnLimit
  /\ Emit(r, [Entered(r, marked) EXCEPT !.phase = "asking", !.lead = NewHazard(r)],
          Notice(LeadDue(r)) \cup
            (IF streaming /\ NewHazard(r) THEN {"instruction"} ELSE {}))
  /\ Counted(~marked) /\ (marked \/ LeadDue(r))
  /\ UNCHANGED <<settled, moves>>

BeginTurn(r, marked) ==
  /\ Enter(r)
  /\ ~Redundant(r)
  /\ ~row.completed
  /\ Len(transcript) < TurnLimit
  /\ Emit(r, [Entered(r, marked) EXCEPT !.phase = "asking", !.lead = NewHazard(r)],
          Notice(LeadDue(r)) \cup
            (IF streaming /\ NewHazard(r) THEN {"instruction"} ELSE {}))
  /\ Counted(~marked) /\ (marked \/ LeadDue(r))
  /\ UNCHANGED <<settled, moves>>

-----------------------------------------------------------------------------
(* The model's rounds.                                                     *)

\* What the caller hears of a round that asks for tools: the model's words,
\* unless they follow a failed tool, or else a holding phrase for a turn that
\* has been silent.
Heard(r) == req[r].out \cap {"instruction", "answer", "phrase"} # {}

Narration(r, speaks) ==
  IF ~streaming THEN {}
  ELSE IF speaks /\ ~req[r].held THEN {"answer"}
  ELSE IF Heard(r) THEN {}
  ELSE {"phrase"}

\* A round: the model asks for a tool, narrates, and is given its result.
Round(r, speaks, ok, state) ==
  /\ req[r].phase = "asking"
  /\ req[r].round < MaxRounds
  /\ Emit(r, [state EXCEPT !.round = @ + 1, !.held = @ \/ ~ok],
          Narration(r, speaks))

\* Any tool that neither books nor transfers.
RunTool(r, speaks, ok) ==
  /\ Round(r, speaks, ok, req[r])
  /\ UNCHANGED <<settled, lock, failures, moves>>

BookTool(r, speaks, ok) ==
  /\ Round(r, speaks, ok, [req[r] EXCEPT !.unbooked = ~ok])
  /\ UNCHANGED <<settled, lock, failures, moves>>

\* A transfer is tried by the model's tool, or by the outage reply, which is
\* silent when it succeeds.
OutageReply(r, state, success) ==
  /\ req[r].phase = "outage"
  /\ Emit(r, [state EXCEPT !.phase = "closing"],
          IF success THEN {}
          ELSE {"fallback"}
                 \cup (IF /\ IsAlarming(req[r].said)
                          /\ "instruction" \notin req[r].out
                       THEN {"instruction"} ELSE {})
                 \cup (IF streaming THEN {} ELSE {"endCall"}))

Transferred(r, speaks, state, success) ==
  LET moved == [state EXCEPT !.moved = @ \/ success]
  IN  \/ Round(r, speaks, success, moved)
      \/ ~speaks /\ OutageReply(r, moved, success)

\* Mutant: only this turn's attempt is looked at.
AlreadyMovedThisTurn(r) == req[r].w.moved

\* A call already being moved is not moved again.
AlreadyMoved(r) == row.moved \/ req[r].w.moved

FindTransfer(r, speaks) ==
  /\ AlreadyMoved(r)
  /\ Transferred(r, speaks, req[r], TRUE)
  /\ UNCHANGED <<settled, lock, failures, moves>>

\* No destination, no call control, or the provider refuses: see CallTransfer.
RefuseTransfer(r, speaks) ==
  /\ ~AlreadyMoved(r)
  /\ Transferred(r, speaks, req[r], FALSE)
  /\ UNCHANGED <<settled, lock, failures, moves>>

\* The provider accepts and the attempt is saved as INITIATED.
TransferAccepted(r, speaks) ==
  /\ ~AlreadyMoved(r)
  /\ Transferred(r, speaks, [req[r] EXCEPT !.w = [@ EXCEPT !.moved = TRUE]], TRUE)
  /\ moves' = [moves EXCEPT !.accepted = @ + 1]
  /\ UNCHANGED <<settled, lock, failures>>

\* It has accepted, but answers too late or the attempt cannot be saved.
TransferForgotten(r, speaks) ==
  /\ ~AlreadyMoved(r)
  /\ Counted(TRUE)
  /\ Transferred(r, speaks, req[r], FALSE)
  /\ moves' = [accepted |-> moves.accepted + 1, lost |-> moves.lost + 1]
  /\ UNCHANGED <<settled, lock>>

\* The model says the conversation is over, and neither a transfer nor a failed
\* booking withholds it.
Ends(r, complete) == complete /\ ~req[r].moved /\ ~req[r].unbooked

\* The model's last words, and the turn written.
Answer(r, complete, marked) ==
  /\ req[r].phase = "asking"
  /\ LET ends == Ends(r, complete)
         due == ~streaming /\ NoticeDue(r)
         state == [req[r] EXCEPT !.phase = "closing",
                     !.w = [@ EXCEPT !.turn = req[r].said, !.led = req[r].lead,
                                     !.ends = ends]]
     IN  /\ Emit(r, Marked(state, due, marked),
                 Notice(due) \cup {"answer"}
                   \cup (IF req[r].lead /\ ~streaming THEN {"instruction"} ELSE {})
                   \cup (IF ends THEN {"endCall"} ELSE {}))
         /\ Counted(~marked) /\ (marked \/ due)
  /\ UNCHANGED <<settled, lock, moves>>

\* The provider fails, its answer cannot be read, or the turn cannot be
\* written: its words may be out by then.
FailTurn(r, speaks) ==
  /\ req[r].phase = "asking"
  /\ Emit(r, [req[r] EXCEPT !.phase = "outage"],
          IF streaming /\ speaks THEN {"answer"} ELSE {})
  /\ UNCHANGED <<settled, lock, failures, moves>>

\* The outage reply itself breaks: the fixed sentence is left.
OutageBreaks(r) ==
  /\ req[r].phase = "outage"
  /\ Counted(TRUE)
  /\ Emit(r, [req[r] EXCEPT !.phase = "closing"],
          {"fallback"} \cup (IF streaming THEN {} ELSE {"endCall"}))
  /\ UNCHANGED <<settled, lock, moves>>

-----------------------------------------------------------------------------
(* The end of a transaction, which releases the lock.                      *)

Commit(r) ==
  /\ req[r].phase = "closing"
  /\ LET w == req[r].w
     IN  /\ row' = [known |-> row.known \/ w.known,
                    noticed |-> row.noticed \/ w.noticed,
                    completed |-> row.completed \/ w.ends,
                    moved |-> row.moved \/ w.moved]
         /\ transcript' =
              IF w.turn = 0 THEN transcript
              ELSE Append(transcript,
                          [said |-> w.turn, proc |-> req[r].proc, led |-> w.led])
         /\ over' = (over \/ w.ends)
  /\ req' = [req EXCEPT ![r] = Idle]
  /\ lock' = NoRequest
  /\ UNCHANGED <<streaming, said, ended, tenant, latest, sent, failures, history>>

\* Mutant: the lock outlives its transaction.
UndoWritesOnly(gone) ==
  /\ req' = [r \in Requests |-> IF r \in gone THEN Idle ELSE req[r]]
  /\ UNCHANGED <<database, lock, wire, moves>>

\* The transactions of these requests are undone; a transfer they recorded is
\* forgotten, not taken back.
Undo(gone) ==
  /\ req' = [r \in Requests |-> IF r \in gone THEN Idle ELSE req[r]]
  /\ lock' = IF lock \in gone THEN NoRequest ELSE lock
  /\ moves' = [moves EXCEPT
                 !.lost = @ + Cardinality({r \in gone : req[r].w.moved})]
  /\ UNCHANGED <<database, wire>>

\* The database refuses the commit, or its connection is lost on the way.
RollBack(r) ==
  /\ req[r].phase # "idle"
  /\ Counted(TRUE)
  /\ Undo({r})
  /\ UNCHANGED <<streaming, said, ended, tenant, latest, sent>>

\* A streamed turn that its caller has hung up on outlives the drain: it is
\* cancelled.
Abandon(r) ==
  /\ req[r].phase # "idle"
  /\ streaming
  /\ Counted(TRUE)
  /\ Undo({r})
  /\ UNCHANGED <<streaming, said, ended, tenant, latest, sent>>

\* A worker process dies, its requests and its registry with it.
Crash(p) ==
  /\ Counted(TRUE)
  /\ latest' = [latest EXCEPT ![p] = 0]
  /\ Undo({r \in Requests : req[r].phase # "idle" /\ req[r].proc = p})
  /\ UNCHANGED <<streaming, said, ended, tenant, sent>>

\* The end-of-call report reaches process p.  It takes no call lock, and waits
\* only for the rows a turn has changed.
Report(p) ==
  /\ ~ended
  /\ sent > 0
  /\ \A r \in Requests : ~req[r].w.noticed /\ ~req[r].w.ends
  /\ ended' = TRUE
  /\ latest' = [latest EXCEPT ![p] = 0]
  /\ row' = [row EXCEPT !.completed = @ \/ row.known]
  /\ UNCHANGED <<streaming, said, tenant, transcript, over, lock, req, sent, failures,
                 history>>

-----------------------------------------------------------------------------

Step(r) ==
  \/ RefuseDisabled(r)
  \/ RefuseUnmapped(r)
  \/ \E marked \in BOOLEAN :
       \/ OpenCall(r, marked)
       \/ ReuseReply(r, marked)
       \/ RefuseTurn(r, marked)
       \/ BeginTurn(r, marked)
       \/ \E complete \in BOOLEAN : Answer(r, complete, marked)
  \/ \E speaks \in BOOLEAN :
       \/ \E ok \in BOOLEAN : RunTool(r, speaks, ok) \/ BookTool(r, speaks, ok)
       \/ FindTransfer(r, speaks)
       \/ RefuseTransfer(r, speaks)
       \/ TransferAccepted(r, speaks)
       \/ TransferForgotten(r, speaks)
       \/ FailTurn(r, speaks)
  \/ Commit(r)

Environment ==
  \/ \E r \in Requests, p \in Processes :
       Send(r, p, said) \/ \E text \in Texts : Send(r, p, Append(said, text))
  \/ \E r \in Requests : OutageBreaks(r) \/ RollBack(r) \/ Abandon(r)
  \/ \E state \in {"on", "off", "unmapped"} \ {tenant} : SetTenant(state)
  \/ \E p \in Processes : Crash(p) \/ Report(p)

Next == Environment \/ \E r \in Requests : Step(r)

Spec == Init /\ [][Next]_vars

\* Every wait of a request is bounded: the model's by its timeout, the transfer's by
\* the provider's, the lock's by its holder's end, and the lock is taken in the order
\* asked for.
FairSpec == Spec /\ \A r \in Requests : WF_vars(Step(r))

-----------------------------------------------------------------------------
(* Types.                                                                  *)

\* Every variable holds what the code can put there.
TypeOK ==
  /\ said \in Seq(Texts) /\ Len(said) <= MaxSaid
  /\ ended \in BOOLEAN /\ over \in BOOLEAN /\ unled \in BOOLEAN
  /\ tenant \in {"on", "off", "unmapped"}
  /\ row \in [known : BOOLEAN, noticed : BOOLEAN, completed : BOOLEAN,
              moved : BOOLEAN]
  /\ transcript \in Seq([said : DOMAIN said, proc : Processes, led : BOOLEAN])
  /\ latest \in [Processes -> 0..MaxSent]
  /\ lock \in Requests \cup {NoRequest}
  /\ \A r \in Requests :
       /\ req[r].phase \in {"idle", "waiting", "asking", "outage", "closing"}
       /\ req[r].said \in 0..Len(said)
       /\ req[r].round \in 0..MaxRounds
       /\ req[r].out \subseteq Frames
       /\ req[r].phase \notin {"idle", "waiting"} <=> lock = r
  /\ sent \in 0..MaxSent /\ failures \in 0..MaxFailures
  /\ onWire \subseteq Fixed /\ instructed \in BOOLEAN
  /\ moves \in [accepted : Nat, lost : Nat]

-----------------------------------------------------------------------------
(* Safety.                                                                 *)

\* No word of the model's, new or repeated, reaches a wire on a call before the
\* caller notice has, whichever transport, worker or opening comes first and
\* whatever is rolled back on the way (VoiceService._take_disclosure).
NoticeLeadsWords == ~unled

\* A request is answered with an older reply only when a newer request has
\* arrived: the newest words are never passed over, whatever the registry of
\* the process has lived through (TranscriptSupersession).
StaleReplyOnlyIfOvertaken ==
  \A r \in Requests : "stale" \in req[r].out /\ ~ended => req[r].n < sent

\* Where the transcript holds words after newer ones, different processes
\* answered them: within one, an overtaken request generates nothing once
\* there is a reply (VoiceService.handle_chat_completion claims before it
\* waits).
OlderWordsOnlyFromAnotherProcess ==
  \A i, j \in DOMAIN transcript :
    i < j /\ transcript[i].said > transcript[j].said
      => transcript[i].proc # transcript[j].proc

\* Whoever answers words that describe a hazard, with a new reply or a stored
\* one, does so on a call whose wire has carried the fixed instruction: the
\* replies of requests that raced, failed or were rolled back included
\* (AIBrainService._prepare_turn).
AlarmedCallerInstructed ==
  \A r \in Requests :
    "answer" \in req[r].out /\ IsAlarming(req[r].said) => "instruction" \in onWire

\* The provider is asked to move a call it has already accepted only if the
\* record of that was lost with its transaction or never made
\* (CallTransferService.transfer).
MovedAgainOnlyIfLost == moves.accepted > 1 => moves.lost > 0

\* A streamed response whose turn moved the call to a person does not also hang
\* up, however the turn ended (AIBrainService._write_turn, _turn_frames).
StreamedMoveNotHungUp ==
  \A r \in Requests :
    streaming /\ req[r].moved => "endCall" \notin req[r].out

\* Types, and what may be said in which order, whichever process says it.
VoiceInv ==
  /\ TypeOK
  /\ StaleReplyOnlyIfOvertaken
  /\ OlderWordsOnlyFromAnotherProcess
  /\ StreamedMoveNotHungUp
  /\ MovedAgainOnlyIfLost

\* The call's transcript is what CallTranscript promises, however many requests
\* raced for it (PostgresAdvisoryCallLock, VoiceService._answer_locked).
Words == [i \in DOMAIN transcript |-> said[transcript[i].said]]
Promised == INSTANCE CallTranscript WITH transcript <- Words
ImplementsTranscript == Promised!Spec

-----------------------------------------------------------------------------
(* Liveness.                                                               *)

\* Every request ends and lets the call's lock go, its caller gone or not
\* (_streamed_completion).
RequestSettles == \A r \in Requests : req[r].phase # "idle" ~> req[r].phase = "idle"

-----------------------------------------------------------------------------
(* What the documentation says and the code does not do.                   *)

\* docs/RUNBOOK.md, "Life safety": the first time a hazard is reported, a fixed
\* instruction is spoken before any model output.  Here: whoever is still
\* listening to an answer to alarming words has had the instruction.
ListenerWasInstructed ==
  \A r \in Requests :
    /\ Listened(r) /\ "answer" \in req[r].out /\ IsAlarming(req[r].said)
    => instructed

=============================================================================
