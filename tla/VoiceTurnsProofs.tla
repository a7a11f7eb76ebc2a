-------------------------- MODULE VoiceTurnsProofs --------------------------
(***************************************************************************)
(* One live call, for any requests, workers, failures and bounds: what     *)
(* VoiceInv says of it; that nobody hears the model before the notice, nor *)
(* an answer to a hazard on a call that never carried the instruction;     *)
(* that its transcript is the one CallTranscript promises; and that one    *)
(* reply is what its caller heard.                                         *)
(*                                                                         *)
(* Only the holder of the lock writes, so what it found when it took the   *)
(* lock is true when it commits (Holder, Fits). What it found rests on the *)
(* order of arrival: a request overtaken within its process is never taken *)
(* for current again, though the process may count from the start          *)
(* (Arrivals, Overtaken).                                                  *)
(*                                                                         *)
(* Within a turn, what earlier rounds of the model called and heard is     *)
(* settled (EarlierTold, EarlierUnheard), and a round's words are with the *)
(* caller only as far as its calls allow (HeardOfRound).                   *)
(***************************************************************************)
EXTENDS VoiceTurns, ReplyStream, FiniteSetTheorems, TLAPS

-----------------------------------------------------------------------------
(* What holds of a call.                                                   *)

Phases == {"idle", "waiting", "asking", "outage", "closing"}
Writes == [known : BOOLEAN, noticed : BOOLEAN, turn : 0..MaxSaid, led : BOOLEAN,
           ends : BOOLEAN, moved : BOOLEAN]
States ==
  [phase : Phases, proc : Processes \union {"none"}, seq : 0..MaxSent, n : 0..MaxSent,
   said : 0..MaxSaid, lead : BOOLEAN, round : 0..MaxRounds, held : BOOLEAN,
   unbooked : BOOLEAN, moved : BOOLEAN, w : Writes, out : SUBSET Frames]
Rows == [known : BOOLEAN, noticed : BOOLEAN, completed : BOOLEAN, moved : BOOLEAN]
Entries == [said : 1..MaxSaid, proc : Processes, led : BOOLEAN]
MoveCounts == [accepted : Nat, lost : Nat]

Typed ==
  /\ streaming \in BOOLEAN /\ ended \in BOOLEAN /\ over \in BOOLEAN
  /\ unled \in BOOLEAN /\ instructed \in BOOLEAN
  /\ said \in Seq(Texts) /\ Len(said) <= MaxSaid
  /\ tenant \in {"on", "off", "unmapped"} /\ row \in Rows
  /\ transcript \in Seq(Entries)
  /\ latest \in [Processes -> 0..MaxSent]
  /\ lock \in Requests \union {NoRequest} /\ req \in [Requests -> States]
  /\ sent \in 0..MaxSent /\ failures \in 0..MaxFailures
  /\ onWire \subseteq Fixed /\ moves \in MoveCounts

Open(q) == q.phase # "idle"
Inside(q) == q.phase \in {"asking", "outage", "closing"}

\* Whoever is outside has done nothing; whoever is inside has the lock.
Quiet ==
  \A r \in Requests :
    /\ ~Open(req[r]) => req[r] = Idle
    /\ req[r].phase = "waiting" =>
         req[r].w = NoWrites /\ ~req[r].moved /\ req[r].out = {}

LockHeld == \A r \in Requests : Inside(req[r]) <=> lock = r

\* The places of the requests, and what a process remembers of its own.
Arrivals ==
  /\ \A i \in DOMAIN transcript : transcript[i].said <= Len(said)
  /\ \A p \in Processes : latest[p] <= sent
  /\ \A r \in Requests : Open(req[r]) =>
       /\ req[r].proc \in Processes /\ req[r].n <= sent /\ req[r].said <= Len(said)
       /\ req[r].said # 0 => req[r].seq # 0
       /\ ~ended => /\ req[r].seq <= latest[req[r].proc]
                    /\ IsCurrent(r) \/ req[r].n < sent

\* Who carries older words than a request, or a reply, of the same process is
\* not its current one.
Overtaken ==
  \A r \in Requests : Open(req[r]) /\ req[r].said # 0 =>
    /\ \A s \in Requests :
         Open(req[s]) /\ req[s].proc = req[r].proc /\ req[r].said < req[s].said =>
           ~IsCurrent(r)
    /\ \A i \in DOMAIN transcript :
         transcript[i].proc = req[r].proc /\ req[r].said < transcript[i].said =>
           ~IsCurrent(r)

\* An answer to q may be written after what is there.
Fits(q) ==
  /\ q.said \in 1..Len(said)
  /\ ~over
  /\ transcript # <<>> => said[LastAnswered] # said[q.said]
  /\ \A i \in DOMAIN transcript : q.said < transcript[i].said => transcript[i].proc # q.proc

\* What is known of the request that holds the lock.
Holder(q) ==
  /\ q.w.noticed => "notice" \in onWire
  /\ streaming /\ q.phase = "asking" => "notice" \in onWire
  /\ q.phase = "asking" =>
       /\ Fits(q)
       /\ IsAlarming(q.said) => "instruction" \in onWire \/ (q.lead /\ ~streaming)
  /\ "answer" \in q.out =>
       q.said # 0 /\ (IsAlarming(q.said) => "instruction" \in onWire)
  /\ q.w.turn # 0 =>
       q.phase = "closing" /\ q.w.turn = q.said /\ Fits(q) /\ "answer" \in q.out
  /\ q.w.ends => q.w.turn # 0
  /\ q.phase # "closing" \/ (streaming /\ q.moved) => "endCall" \notin q.out
  /\ "stale" \in q.out /\ ~ended => q.n < sent

Holders == \A r \in Requests : Inside(req[r]) => Holder(req[r])

\* What is on the wire, for what is written.
Wire ==
  /\ row.noticed => "notice" \in onWire
  /\ ~unled
  /\ \A i \in DOMAIN transcript :
       IsAlarming(transcript[i].said) => "instruction" \in onWire

Written ==
  /\ over => row.completed
  /\ OlderWordsOnlyFromAnotherProcess

\* A move is on record, or in the writes of the lock's holder, or lost.
MoveKnown ==
  moves.lost = 0 /\ moves.accepted # 0 =>
    moves.accepted = 1 /\ (row.moved \/ \E r \in Requests : req[r].w.moved)

VoiceIInv ==
  /\ Typed /\ Quiet /\ LockHeld /\ Arrivals /\ Overtaken /\ Holders /\ Wire /\ Written
  /\ MoveKnown

-----------------------------------------------------------------------------
(* Initial states.                                                         *)

LEMMA Bounds ==
  /\ TurnLimit \in Nat /\ MaxRounds \in Nat /\ MaxSaid \in Nat /\ MaxSent \in Nat
  /\ MaxFailures \in Nat
BY BoundsAssumption

LEMMA Nothing ==
  /\ Idle \in States /\ ~Open(Idle) /\ ~Inside(Idle) /\ Idle.w = NoWrites
  /\ NoWrites \in Writes /\ ~NoWrites.noticed /\ NoWrites.turn = 0 /\ ~NoWrites.ends
  /\ ~NoWrites.moved
<1>1. /\ NoWrites \in Writes /\ ~NoWrites.noticed /\ NoWrites.turn = 0 /\ ~NoWrites.ends
      /\ ~NoWrites.moved
  BY Bounds DEF NoWrites, Writes
<1>2. Idle \in States
  BY <1>1, Bounds DEF Idle, States, Phases
<1>3. ~Open(Idle) /\ ~Inside(Idle) /\ Idle.w = NoWrites
  BY DEF Idle, Open, Inside
<1>4. QED BY <1>1, <1>2, <1>3

LEMMA InitVoiceIInv == Init => VoiceIInv
<1> SUFFICES ASSUME Init PROVE VoiceIInv
  OBVIOUS
<1>1. Typed
  <2>1. /\ said \in Seq(Texts) /\ Len(said) <= MaxSaid /\ transcript \in Seq(Entries)
        /\ latest \in [Processes -> 0..MaxSent] /\ req \in [Requests -> States]
    BY Nothing, Bounds DEF Init
  <2>2. row \in Rows /\ moves \in MoveCounts /\ sent \in 0..MaxSent /\ failures \in 0..MaxFailures
    BY Bounds DEF Init, Rows, MoveCounts
  <2>3. QED BY <2>1, <2>2 DEF Init, Typed
<1>2. /\ \A r \in Requests : req[r] = Idle
      /\ transcript = <<>> /\ said = <<>> /\ lock = NoRequest
      /\ DOMAIN transcript = {}
  BY DEF Init
<1>3. Quiet /\ LockHeld /\ Holders /\ Overtaken
  BY <1>2, Nothing, NoRequestAssumption
     DEF Quiet, LockHeld, Holders, Overtaken, Open, Idle, Inside
<1>4. Arrivals /\ Wire
  BY <1>2, Nothing DEF Init, Arrivals, Wire
<1>5. Written /\ MoveKnown
  BY <1>2 DEF Init, Written, OlderWordsOnlyFromAnotherProcess, MoveKnown
<1>6. QED BY <1>1, <1>3, <1>4, <1>5 DEF VoiceIInv

-----------------------------------------------------------------------------
(* A step of the request that has the lock, or takes it.                   *)

\* What stays while nothing is settled.
Frame ==
  /\ streaming' = streaming /\ said' = said /\ ended' = ended /\ tenant' = tenant
  /\ row' = row /\ transcript' = transcript /\ over' = over /\ latest' = latest
  /\ sent' = sent

\* r answers as state with these frames, and goes on as the same request.
Speaks(r, state, frames) ==
  /\ Emit(r, state, frames)
  /\ state \in States /\ frames \subseteq Frames
  /\ Open(req[r]) /\ Inside(state) /\ state.out = req[r].out
  /\ state.proc = req[r].proc /\ state.seq = req[r].seq
  /\ state.n = req[r].n /\ state.said = req[r].said
  /\ lock \in {r, NoRequest} /\ lock' = r
  /\ Frame
  /\ failures' \in 0..MaxFailures /\ moves' \in MoveCounts

\* The wire once these frames are on it.
Carried(frames) == onWire \union frames

\* What Speaks must add to keep what is known of the lock's holder, and of moves.
Lawful(r, state, frames) ==
  /\ (state.w.noticed \/ (streaming /\ state.phase = "asking")
        \/ "answer" \in frames \/ "stale" \in frames)
       => "notice" \in Carried(frames)
  /\ state.phase = "asking" =>
       /\ Fits(state)
       /\ IsAlarming(state.said) =>
            "instruction" \in Carried(frames) \/ (state.lead /\ ~streaming)
  /\ "answer" \in state.out \union frames =>
       /\ state.said # 0
       /\ IsAlarming(state.said) => "instruction" \in Carried(frames)
  /\ state.w.turn # 0 =>
       /\ state.phase = "closing" /\ state.w.turn = state.said /\ Fits(state)
       /\ "answer" \in frames
  /\ state.w.ends => state.w.turn # 0
  /\ state.phase # "closing" \/ (streaming /\ state.moved) =>
       "endCall" \notin state.out \union frames
  /\ "stale" \in state.out \union frames /\ ~ended => state.n < sent
  /\ \/ moves' = moves /\ state.w.moved = req[r].w.moved
     \/ /\ moves' = [moves EXCEPT !.accepted = moves.accepted + 1]
        /\ ~row.moved /\ ~req[r].w.moved /\ state.w.moved
     \/ moves'.lost > 0

LEMMA SpeaksIInv ==
  ASSUME VoiceIInv, NEW r \in Requests, NEW state, NEW frames, Speaks(r, state, frames),
         Lawful(r, state, frames)
  PROVE  VoiceIInv'
<1> Typed
  BY DEF VoiceIInv
<1>0. PICK q : q = [state EXCEPT !.out = state.out \union frames]
  OBVIOUS
<1>1. /\ req' = [req EXCEPT ![r] = q]
      /\ onWire' = onWire \union (frames \intersect Fixed)
      /\ instructed' \in BOOLEAN
  BY <1>0 DEF Speaks, Emit, Typed
<1>2. /\ q \in States /\ Inside(q) /\ q.out = state.out \union frames
      /\ q.phase = state.phase /\ q.proc = state.proc /\ q.seq = state.seq
      /\ q.n = state.n /\ q.said = state.said /\ q.lead = state.lead
      /\ q.moved = state.moved /\ q.w = state.w
  BY <1>0 DEF Speaks, States, Inside
<1>3. /\ req' \in [Requests -> States] /\ req'[r] = q
      /\ \A s \in Requests : s # r => req'[s] = req[s]
  BY <1>1, <1>2 DEF Typed
<1>4. \A s \in Requests : s # r => ~Inside(req[s])
  BY NoRequestAssumption DEF VoiceIInv, LockHeld, Speaks
<1>5. /\ onWire \subseteq onWire' /\ onWire' \subseteq Fixed
      /\ "notice" \in Carried(frames) => "notice" \in onWire'
      /\ "instruction" \in Carried(frames) => "instruction" \in onWire'
  BY <1>1 DEF Carried, Typed, Fixed
<1>6. unled' \in BOOLEAN /\ ~unled'
  BY DEF Speaks, Emit, VoiceIInv, Wire, Lawful, Carried
<1>7. Typed'
  BY <1>1, <1>3, <1>5, <1>6 DEF Typed, Speaks, Frame
<1>8. Quiet' /\ LockHeld'
  BY <1>2, <1>3, <1>4 DEF VoiceIInv, Quiet, LockHeld, Inside, Open, Speaks
<1>9. /\ \A s \in Requests : /\ Open(req'[s]) <=> Open(req[s])
                             /\ req'[s].proc = req[s].proc /\ req'[s].seq = req[s].seq
                             /\ req'[s].n = req[s].n /\ req'[s].said = req[s].said
      /\ \A s \in Requests : IsCurrent(s)' <=> IsCurrent(s)
  BY <1>2, <1>3 DEF Speaks, Frame, IsCurrent, Open, Inside
<1>10. Arrivals' /\ Overtaken'
  BY <1>9 DEF VoiceIInv, Arrivals, Overtaken, Speaks, Frame
<1>11. Holders'
  <2>1. Fits(state) => Fits(q)'
    BY <1>2 DEF Fits, Speaks, Frame, LastAnswered
  <2>2. Holder(q)'
    <3>1. /\ q.w.noticed => "notice" \in onWire'
          /\ streaming' /\ q.phase = "asking" => "notice" \in onWire'
      BY <1>2, <1>5 DEF Lawful, Speaks, Frame
    <3>2. q.phase = "asking" =>
            /\ Fits(q)'
            /\ IsAlarming(q.said)' => "instruction" \in onWire' \/ (q.lead /\ ~streaming')
      BY <1>2, <1>5, <2>1 DEF Lawful, Speaks, Frame, IsAlarming
    <3>3. "answer" \in q.out =>
            q.said # 0 /\ (IsAlarming(q.said)' => "instruction" \in onWire')
      BY <1>2, <1>5 DEF Lawful, Speaks, Frame, IsAlarming
    <3>4. /\ q.w.turn # 0 =>
               q.phase = "closing" /\ q.w.turn = q.said /\ Fits(q)' /\ "answer" \in q.out
          /\ q.w.ends => q.w.turn # 0
      BY <1>2, <2>1 DEF Lawful
    <3>5. /\ q.phase # "closing" \/ (streaming' /\ q.moved) => "endCall" \notin q.out
          /\ "stale" \in q.out /\ ~ended' => q.n < sent'
      BY <1>2 DEF Lawful, Speaks, Frame
    <3>6. QED BY <3>1, <3>2, <3>3, <3>4, <3>5 DEF Holder
  <2>3. QED BY <1>3, <1>4, <2>2 DEF Holders, Holder, Fits, LastAnswered, IsAlarming
<1>12. Wire'
  BY <1>5, <1>6 DEF VoiceIInv, Wire, Speaks, Frame, IsAlarming
<1>13. Written'
  BY DEF VoiceIInv, Written, OlderWordsOnlyFromAnotherProcess, Speaks, Frame
<1>14. MoveKnown'
  <2>1. CASE moves' = moves /\ state.w.moved = req[r].w.moved
    <3>1. \A s \in Requests : req'[s].w.moved = req[s].w.moved
      BY <1>2, <1>3, <2>1
    <3>2. QED BY <2>1, <3>1 DEF VoiceIInv, MoveKnown, Speaks, Frame
  <2>2. CASE /\ moves' = [moves EXCEPT !.accepted = moves.accepted + 1]
             /\ ~row.moved /\ ~req[r].w.moved /\ state.w.moved
    <3>1. \A s \in Requests : ~req[s].w.moved
      BY <1>4, <2>2, Nothing DEF VoiceIInv, Quiet, Inside, Open, Typed, States, Phases
    <3>2. moves.lost = 0 => moves.accepted = 0
      BY <2>2, <3>1 DEF VoiceIInv, MoveKnown
    <3>3. moves'.lost = moves.lost /\ moves'.accepted = moves.accepted + 1
      BY <2>2 DEF Typed, MoveCounts
    <3>4. req'[r].w.moved
      BY <1>2, <1>3, <2>2
    <3>5. QED BY <3>2, <3>3, <3>4 DEF MoveKnown
  <2>3. CASE moves'.lost > 0
    BY <2>3 DEF MoveKnown, Speaks, MoveCounts
  <2>4. QED BY <2>1, <2>2, <2>3 DEF Lawful
<1>15. QED BY <1>7, <1>8, <1>10, <1>11, <1>12, <1>13, <1>14 DEF VoiceIInv

-----------------------------------------------------------------------------
(* Taking the lock.                                                        *)

\* What is known of the request that takes the lock.
LEMMA Taken ==
  ASSUME VoiceIInv, NEW r \in Requests, Acquire(r)
  PROVE  /\ req[r] \in States /\ req[r].phase = "waiting" /\ Open(req[r])
         /\ req[r].w = NoWrites /\ ~req[r].moved /\ req[r].out = {}
         /\ req[r].proc \in Processes /\ req[r].n <= sent /\ req[r].said <= Len(said)
         /\ lock = NoRequest /\ lock' = r
BY DEF VoiceIInv, Typed, Quiet, Arrivals, Acquire, Open

\* What it says first, of itself and with a mark or without.
Begins(r, state, frames) ==
  /\ Acquire(r) /\ Emit(r, state, frames) /\ Frame
  /\ failures' \in 0..MaxFailures /\ moves' = moves
  /\ state \in States /\ frames \subseteq Frames /\ Inside(state)
  /\ state.proc = req[r].proc /\ state.seq = req[r].seq /\ state.n = req[r].n
  /\ state.said = req[r].said /\ state.out = {} /\ ~state.moved
  /\ state.w.turn = 0 /\ ~state.w.ends /\ ~state.w.moved
  /\ state.w.noticed => "notice" \in frames

LEMMA BeginsIInv ==
  ASSUME VoiceIInv, NEW r \in Requests, NEW state, NEW frames, Begins(r, state, frames),
         (streaming /\ state.phase = "asking") \/ "answer" \in frames \/ "stale" \in frames
           => "notice" \in Carried(frames),
         state.phase = "asking" =>
           /\ Fits(req[r])
           /\ IsAlarming(req[r].said) =>
                "instruction" \in Carried(frames) \/ (state.lead /\ ~streaming),
         "answer" \in frames =>
           /\ req[r].said # 0
           /\ IsAlarming(req[r].said) => "instruction" \in Carried(frames),
         state.phase # "closing" => "endCall" \notin frames,
         "stale" \in frames /\ ~ended => req[r].n < sent
  PROVE  VoiceIInv'
<1>1. Acquire(r)
  BY DEF Begins
<1>2. Speaks(r, state, frames)
  BY <1>1, Taken DEF Begins, Speaks, VoiceIInv, Typed
<1>3. Fits(req[r]) => Fits(state)
  BY DEF Begins, Fits
<1>4. /\ state.w.moved = req[r].w.moved /\ state.said = req[r].said
      /\ state.w.turn = 0 /\ ~state.w.ends /\ ~state.moved /\ state.n = req[r].n
      /\ state.out \union frames = frames /\ moves' = moves
      /\ state.w.noticed => "notice" \in frames
  BY <1>1, Taken, Nothing DEF Begins, States, Writes
<1>5. Lawful(r, state, frames)
  BY <1>3, <1>4 DEF Lawful, Carried
<1>6. QED BY <1>2, <1>5, SpeaksIInv

LEMMA CountedStays ==
  ASSUME VoiceIInv, NEW wrong \in BOOLEAN, Counted(wrong)
  PROVE  failures' \in 0..MaxFailures
BY Bounds DEF Counted, VoiceIInv, Typed

\* A request that takes the lock with the notice's mark: the mark changes what is
\* to be written and nothing else.
Notes(r, due, marked, phase, lead, state, frames) ==
  /\ Acquire(r) /\ Emit(r, state, frames) /\ Frame
  /\ moves' = moves /\ failures' \in 0..MaxFailures
  /\ due \in BOOLEAN /\ marked \in BOOLEAN /\ lead \in BOOLEAN
  /\ phase \in {"asking", "closing"}
  /\ frames \subseteq Frames /\ (due => "notice" \in frames)
  /\ state = [Marked(req[r], due, marked) EXCEPT !.phase = phase, !.lead = lead]

LEMMA BeginsMarked ==
  ASSUME VoiceIInv, NEW r \in Requests, NEW due, NEW marked, NEW phase, NEW lead,
         NEW state, NEW frames, Notes(r, due, marked, phase, lead, state, frames)
  PROVE  Begins(r, state, frames) /\ state.phase = phase /\ state.lead = lead
<1> USE DEF Notes
<1>1. phase \in Phases /\ req[r] \in States
  BY Taken DEF Phases
<1>2. /\ state \in States /\ state.phase = phase /\ state.lead = lead
      /\ state.proc = req[r].proc /\ state.seq = req[r].seq /\ state.n = req[r].n
      /\ state.said = req[r].said /\ state.out = req[r].out /\ state.moved = req[r].moved
      /\ state.w.turn = req[r].w.turn /\ state.w.ends = req[r].w.ends
      /\ state.w.moved = req[r].w.moved
      /\ state.w.noticed <=> req[r].w.noticed \/ (due /\ marked)
  BY <1>1 DEF Marked, States, Writes
<1>3. QED BY <1>2, Taken, Nothing DEF Begins, Inside

\* A request that takes the lock finds what follows of the call it is for.
LEMMA Found ==
  ASSUME VoiceIInv, NEW r \in Requests, Acquire(r)
  PROVE  /\ NoticeDue(r) \in BOOLEAN /\ Notice(NoticeDue(r)) \subseteq Frames
         /\ req[r].lead \in BOOLEAN /\ streaming \in BOOLEAN
BY Taken, Nothing
   DEF VoiceIInv, Typed, Rows, NoticeDue, Notice, Frames, States

LEMMA UnansweredCall ==
  ASSUME VoiceIInv
  PROVE  /\ ~Answered => DOMAIN transcript = {}
         /\ Answered => /\ Len(transcript) \in DOMAIN transcript
                        /\ LastAnswered \in 1..Len(said)
<1>1. ~Answered => DOMAIN transcript = {}
  BY DEF Answered
<1>2. Answered => Len(transcript) \in DOMAIN transcript
  BY DEF VoiceIInv, Typed, Answered
<1>3. \A i \in DOMAIN transcript : transcript[i].said \in 1..Len(said)
  <2>1. \A i \in DOMAIN transcript : transcript[i] \in Entries
    BY DEF VoiceIInv, Typed
  <2>2. QED BY <2>1, Bounds DEF VoiceIInv, Typed, Arrivals, Entries
<1>4. QED BY <1>1, <1>2, <1>3 DEF LastAnswered

\* The notice is said by whoever finds it due, or is on the wire.
LEMMA NoticeOut ==
  ASSUME VoiceIInv, NEW r \in Requests, Acquire(r), NEW frames,
         NoticeDue(r) => "notice" \in frames
  PROVE  "notice" \in Carried(frames)
BY Taken, Nothing DEF VoiceIInv, Wire, NoticeDue, Carried

LEMMA RefuseDisabledIInv ==
  ASSUME VoiceIInv, NEW r \in Requests, RefuseDisabled(r) PROVE VoiceIInv'
<1>0. PICK state : state = [req[r] EXCEPT !.phase = "closing"]
  OBVIOUS
<1> DEFINE frames == {"fallback", "endCall"}
<1>1. Acquire(r) /\ Emit(r, state, frames) /\ Frame /\ failures' = failures /\ moves' = moves
  BY <1>0 DEF RefuseDisabled, Frame, settled, database
<1>2. Begins(r, state, frames) /\ state.phase = "closing"
  <2>1. /\ state \in States /\ state.phase = "closing"
        /\ state.proc = req[r].proc /\ state.seq = req[r].seq /\ state.n = req[r].n
        /\ state.said = req[r].said /\ state.out = req[r].out /\ state.moved = req[r].moved
        /\ state.w = req[r].w
    BY <1>0, <1>1, Taken DEF States, Phases
  <2>2. failures' \in 0..MaxFailures /\ frames \subseteq Frames
    BY <1>1 DEF VoiceIInv, Typed, Frames
  <2>3. QED BY <1>1, <2>1, <2>2, Taken, Nothing DEF Begins, Inside
<1>3. QED BY <1>2, BeginsIInv

LEMMA RefuseUnmappedIInv ==
  ASSUME VoiceIInv, NEW r \in Requests, RefuseUnmapped(r) PROVE VoiceIInv'
<1>1. PICK phase \in {"outage", "closing"}, frames \in SUBSET {"fallback", "endCall"} :
        /\ Emit(r, [req[r] EXCEPT !.phase = phase], frames)
        /\ phase = "outage" => frames = {}
  BY DEF RefuseUnmapped, Silent
<1>0. PICK state : state = [req[r] EXCEPT !.phase = phase]
  OBVIOUS
<1>2. Acquire(r) /\ Emit(r, state, frames) /\ Frame /\ failures' = failures /\ moves' = moves
  BY <1>0, <1>1 DEF RefuseUnmapped, Frame, settled, database
<1>3. Begins(r, state, frames) /\ state.phase = phase
  <2>1. /\ state \in States /\ state.phase = phase
        /\ state.proc = req[r].proc /\ state.seq = req[r].seq /\ state.n = req[r].n
        /\ state.said = req[r].said /\ state.out = req[r].out /\ state.moved = req[r].moved
        /\ state.w = req[r].w
    BY <1>0, <1>2, Taken DEF States, Phases
  <2>2. failures' \in 0..MaxFailures /\ frames \subseteq Frames
    BY <1>2 DEF VoiceIInv, Typed, Frames
  <2>3. QED BY <1>2, <2>1, <2>2, Taken, Nothing DEF Begins, Inside
<1>4. "answer" \notin frames /\ "stale" \notin frames /\ phase # "asking"
  OBVIOUS
<1>5. QED BY <1>1, <1>3, <1>4, BeginsIInv

LEMMA OpenCallIInv ==
  ASSUME VoiceIInv, NEW r \in Requests, NEW marked \in BOOLEAN, OpenCall(r, marked)
  PROVE  VoiceIInv'
<1>0. PICK due \in BOOLEAN, frames \in SUBSET Frames :
        /\ due = (~Answered /\ NoticeDue(r))
        /\ frames = IF Answered THEN {"fallback"} ELSE Notice(due)
  BY Found DEF OpenCall, Notice, Frames
<1>1. PICK state : state = [Marked(req[r], due, marked) EXCEPT !.phase = "closing",
                                                              !.lead = req[r].lead]
  BY Zenon
<1>2. state = [Marked(req[r], due, marked) EXCEPT !.phase = "closing"]
  BY <1>1, Taken DEF OpenCall, Marked, States
<1>3. /\ Acquire(r) /\ Emit(r, state, frames)
      /\ Frame /\ moves' = moves /\ failures' \in 0..MaxFailures
  BY <1>0, <1>2, CountedStays DEF OpenCall, Frame, settled, database
<1>4. /\ due => "notice" \in frames
      /\ "answer" \notin frames /\ "stale" \notin frames /\ req[r].lead \in BOOLEAN
  BY <1>0, <1>3, Taken DEF Notice, States
<1>5. Begins(r, state, frames) /\ state.phase = "closing"
  <2>1. Notes(r, due, marked, "closing", req[r].lead, state, frames)
    BY <1>1, <1>3, <1>4 DEF Notes
  <2>2. QED BY <2>1, BeginsMarked
<1>6. QED BY <1>4, <1>5, BeginsIInv

LEMMA ReuseReplyIInv ==
  ASSUME VoiceIInv, NEW r \in Requests, NEW marked \in BOOLEAN, ReuseReply(r, marked)
  PROVE  VoiceIInv'
<1>0. PICK due \in BOOLEAN, frames \in SUBSET Frames :
        /\ due = NoticeDue(r)
        /\ frames = Notice(due)
             \union {IF SameWords(r) THEN "answer" ELSE "stale"}
             \union (IF transcript[Len(transcript)].led THEN {"instruction"} ELSE {})
             \union (IF row.completed THEN {"endCall"} ELSE {})
  BY Found DEF ReuseReply, Enter, Frames
<1>1. PICK state : state = [Marked(req[r], due, marked) EXCEPT !.phase = "closing",
                                                              !.lead = req[r].lead]
  BY Zenon
<1>2. state = [Marked(req[r], due, marked) EXCEPT !.phase = "closing"]
  BY <1>1, Taken DEF ReuseReply, Enter, Marked, States
<1>3. /\ Acquire(r) /\ Emit(r, state, frames)
      /\ Frame /\ moves' = moves /\ failures' \in 0..MaxFailures
      /\ req[r].said # 0 /\ Redundant(r)
  BY <1>0, <1>2, CountedStays DEF ReuseReply, Enter, Frame, settled, database
<1>4. /\ due => "notice" \in frames
      /\ "answer" \in frames => SameWords(r)
      /\ "stale" \in frames => ~SameWords(r)
      /\ req[r].lead \in BOOLEAN
  BY <1>0, <1>3, Taken DEF Notice, States
<1>5. Begins(r, state, frames) /\ state.phase = "closing"
  <2>1. Notes(r, due, marked, "closing", req[r].lead, state, frames)
    BY <1>1, <1>3, <1>4 DEF Notes
  <2>2. QED BY <2>1, BeginsMarked
<1>6. "notice" \in Carried(frames)
  BY <1>0, <1>3, <1>4, NoticeOut
<1>7. SameWords(r) /\ IsAlarming(req[r].said) => "instruction" \in Carried(frames)
  BY <1>3, UnansweredCall
     DEF VoiceIInv, Wire, SameWords, Redundant, TextOf, LastAnswered, IsAlarming, Carried
<1>8. "stale" \in frames /\ ~ended => req[r].n < sent
  BY <1>3, <1>4, Taken DEF VoiceIInv, Arrivals, Redundant
<1>9. QED BY <1>3, <1>4, <1>5, <1>6, <1>7, <1>8, BeginsIInv

LEMMA RefuseTurnIInv ==
  ASSUME VoiceIInv, NEW r \in Requests, NEW marked \in BOOLEAN, RefuseTurn(r, marked)
  PROVE  VoiceIInv'
<1>0. PICK due \in BOOLEAN, frames \in SUBSET Frames :
        /\ due = LeadDue(r)
        /\ frames = Notice(due) \union {"fallback", "endCall"}
  BY Found DEF RefuseTurn, Enter, LeadDue, Notice, Frames
<1>1. PICK state : state = [Marked(req[r], due, marked) EXCEPT !.phase = "closing",
                                                              !.lead = req[r].lead]
  BY Zenon
<1>2. state = [Entered(r, marked) EXCEPT !.phase = "closing"]
  BY <1>0, <1>1, Taken DEF RefuseTurn, Enter, Entered, Marked, States
<1>3. /\ Acquire(r) /\ Emit(r, state, frames)
      /\ Frame /\ moves' = moves /\ failures' \in 0..MaxFailures
  BY <1>0, <1>2, CountedStays DEF RefuseTurn, Enter, Frame, settled, database
<1>4. /\ due => "notice" \in frames
      /\ "answer" \notin frames /\ "stale" \notin frames /\ req[r].lead \in BOOLEAN
  BY <1>0, <1>3, Found DEF Notice
<1>5. Begins(r, state, frames) /\ state.phase = "closing"
  <2>1. Notes(r, due, marked, "closing", req[r].lead, state, frames)
    BY <1>1, <1>3, <1>4 DEF Notes
  <2>2. QED BY <2>1, BeginsMarked
<1>6. QED BY <1>4, <1>5, BeginsIInv

\* A request that is not refused may answer: nothing newer of its process is
\* written, and a hazard it reports is new or has had its instruction.
LEMMA MayAnswer ==
  ASSUME VoiceIInv, NEW r \in Requests, Acquire(r), req[r].said # 0, ~Redundant(r),
         ~row.completed
  PROVE  /\ Fits(req[r])
         /\ IsAlarming(req[r].said) /\ ~NewHazard(r) => "instruction" \in onWire
<1>1. Open(req[r]) /\ req[r].said \in 1..Len(said)
  BY Taken, Bounds DEF VoiceIInv, Typed, States
<1>2. ~over
  BY DEF VoiceIInv, Written
<1>3. transcript # <<>> => said[LastAnswered] # said[req[r].said]
  BY DEF Redundant, Answered, SameWords, TextOf
<1>4. \A i \in DOMAIN transcript :
        req[r].said < transcript[i].said => transcript[i].proc # req[r].proc
  <2>1. DOMAIN transcript # {} => IsCurrent(r)
    BY UnansweredCall DEF Redundant
  <2>2. QED BY <1>1, <2>1 DEF VoiceIInv, Overtaken
<1>5. IsAlarming(req[r].said) /\ ~NewHazard(r) => "instruction" \in onWire
  BY DEF NewHazard, VoiceIInv, Wire
<1>6. QED BY <1>1, <1>2, <1>3, <1>4, <1>5 DEF Fits

LEMMA BeginTurnIInv ==
  ASSUME VoiceIInv, NEW r \in Requests, NEW marked \in BOOLEAN, BeginTurn(r, marked)
  PROVE  VoiceIInv'
<1>0. PICK due \in BOOLEAN, lead \in BOOLEAN, frames \in SUBSET Frames :
        /\ due = LeadDue(r) /\ lead = NewHazard(r)
        /\ frames = Notice(due) \union (IF streaming /\ lead THEN {"instruction"} ELSE {})
  <2>1. LeadDue(r) \in BOOLEAN /\ NewHazard(r) \in BOOLEAN
    BY Found DEF BeginTurn, Enter, LeadDue, NewHazard, IsAlarming
  <2>2. QED BY <2>1 DEF Notice, Frames
<1>1. PICK state : state = [Marked(req[r], due, marked) EXCEPT !.phase = "asking",
                                                              !.lead = lead]
  BY Zenon
<1>2. state = [Entered(r, marked) EXCEPT !.phase = "asking", !.lead = NewHazard(r)]
  BY <1>0, <1>1 DEF Entered
<1>3. /\ Acquire(r) /\ Emit(r, state, frames)
      /\ Frame /\ moves' = moves /\ failures' \in 0..MaxFailures
      /\ req[r].said # 0 /\ ~Redundant(r) /\ ~row.completed
  BY <1>0, <1>2, CountedStays DEF BeginTurn, Enter, Frame, settled, database
<1>4. /\ due => "notice" \in frames
      /\ "answer" \notin frames /\ "stale" \notin frames /\ "endCall" \notin frames
      /\ streaming /\ lead => "instruction" \in Carried(frames)
  BY <1>0 DEF Notice, Carried
<1>5. Begins(r, state, frames) /\ state.phase = "asking" /\ state.lead = lead
  <2>1. Notes(r, due, marked, "asking", lead, state, frames)
    BY <1>1, <1>3, <1>4 DEF Notes
  <2>2. QED BY <2>1, BeginsMarked
<1>6. streaming => "notice" \in Carried(frames)
  <2>1. CASE streaming
    <3>1. NoticeDue(r) => "notice" \in frames
      BY <1>0, <1>4, <2>1 DEF LeadDue
    <3>2. QED BY <1>3, <3>1, NoticeOut
  <2>2. QED BY <2>1
<1>7. /\ Fits(req[r])
      /\ IsAlarming(req[r].said) =>
           "instruction" \in Carried(frames) \/ (state.lead /\ ~streaming)
  BY <1>0, <1>3, <1>4, <1>5, MayAnswer, Found DEF Carried
<1>8. QED BY <1>4, <1>5, <1>6, <1>7, BeginsIInv

-----------------------------------------------------------------------------
(* The rounds of the lock's holder.                                        *)

\* A request that has the lock, and is not to leave it.
LEMMA Held ==
  ASSUME VoiceIInv, NEW r \in Requests, req[r].phase \in {"asking", "outage"}
  PROVE  /\ req[r] \in States /\ Open(req[r]) /\ Inside(req[r]) /\ lock = r
         /\ Holder(req[r]) /\ req[r].w.turn = 0 /\ ~req[r].w.ends
         /\ "endCall" \notin req[r].out
BY DEF VoiceIInv, Typed, LockHeld, Holders, Holder, Open, Inside

\* It goes on as the same request, writing no turn.
Continues(r, state, frames) ==
  /\ Emit(r, state, frames) /\ Frame /\ lock' = lock
  /\ failures' \in 0..MaxFailures /\ moves' \in MoveCounts
  /\ state \in States /\ frames \subseteq Frames /\ Inside(state)
  /\ state.proc = req[r].proc /\ state.seq = req[r].seq /\ state.n = req[r].n
  /\ state.said = req[r].said /\ state.lead = req[r].lead /\ state.out = req[r].out
  /\ state.w.noticed = req[r].w.noticed /\ state.w.turn = 0 /\ ~state.w.ends
  /\ "stale" \notin frames
  /\ "answer" \in frames => req[r].phase = "asking" /\ streaming
  /\ state.phase = "asking" => req[r].phase = "asking"
  /\ state.phase # "closing" \/ streaming => "endCall" \notin frames
  /\ \/ moves' = moves /\ state.w.moved = req[r].w.moved
     \/ /\ moves' = [moves EXCEPT !.accepted = moves.accepted + 1]
        /\ ~row.moved /\ ~req[r].w.moved /\ state.w.moved
     \/ moves'.lost > 0

LEMMA ContinuesIInv ==
  ASSUME VoiceIInv, NEW r \in Requests, req[r].phase \in {"asking", "outage"},
         NEW state, NEW frames, Continues(r, state, frames)
  PROVE  VoiceIInv'
<1>1. Speaks(r, state, frames)
  BY Held DEF Continues, Speaks
<1>2. Fits(req[r]) => Fits(state)
  BY DEF Continues, Fits
<1>3. Lawful(r, state, frames)
  <2>1. (state.w.noticed \/ (streaming /\ state.phase = "asking")
          \/ "answer" \in frames \/ "stale" \in frames) => "notice" \in Carried(frames)
    BY Held DEF Continues, Holder, Carried
  <2>2. state.phase = "asking" =>
          /\ Fits(state)
          /\ IsAlarming(state.said) =>
               "instruction" \in Carried(frames) \/ (state.lead /\ ~streaming)
    BY <1>2, Held DEF Continues, Holder, Carried
  <2>3. "answer" \in state.out \union frames =>
          /\ state.said # 0
          /\ IsAlarming(state.said) => "instruction" \in Carried(frames)
    BY Held DEF Continues, Holder, Carried, Fits
  <2>4. /\ state.phase # "closing" \/ (streaming /\ state.moved) =>
             "endCall" \notin state.out \union frames
        /\ "stale" \in state.out \union frames /\ ~ended => state.n < sent
    BY Held DEF Continues, Holder
  <2>5. QED BY <2>1, <2>2, <2>3, <2>4 DEF Lawful, Continues
<1>4. QED BY <1>1, <1>3, SpeaksIInv

\* What the tools of a round, or the outage reply, leave of the request, and what
\* they do to the moves.
Kept(r, state) ==
  /\ Frame /\ lock' = lock /\ failures' \in 0..MaxFailures /\ moves' \in MoveCounts
  /\ state \in States /\ state.phase = req[r].phase /\ state.proc = req[r].proc
  /\ state.seq = req[r].seq /\ state.n = req[r].n /\ state.said = req[r].said
  /\ state.lead = req[r].lead /\ state.out = req[r].out /\ state.round = req[r].round
  /\ state.w.noticed = req[r].w.noticed /\ state.w.turn = req[r].w.turn
  /\ state.w.ends = req[r].w.ends
  /\ \/ moves' = moves /\ state.w.moved = req[r].w.moved
     \/ /\ moves' = [moves EXCEPT !.accepted = moves.accepted + 1]
        /\ ~row.moved /\ ~req[r].w.moved /\ state.w.moved
     \/ moves'.lost > 0

LEMMA RoundIInv ==
  ASSUME VoiceIInv, NEW r \in Requests, NEW speaks \in BOOLEAN, NEW ok \in BOOLEAN,
         NEW state, Kept(r, state), Round(r, speaks, ok, state)
  PROVE  VoiceIInv'
<1>1. PICK next, frames :
        /\ next = [state EXCEPT !.round = state.round + 1, !.held = state.held \/ ~ok]
        /\ frames = Narration(r, speaks)
  OBVIOUS
<1>2. Emit(r, next, frames) /\ req[r].phase = "asking" /\ req[r].round < MaxRounds
  BY <1>1 DEF Round
<1>3. /\ next \in States /\ next.phase = state.phase /\ next.proc = state.proc
      /\ next.seq = state.seq /\ next.n = state.n /\ next.said = state.said
      /\ next.lead = state.lead /\ next.out = state.out /\ next.w = state.w
  <2>1. /\ state \in States /\ state.round + 1 \in 0..MaxRounds
        /\ (state.held \/ ~ok) \in BOOLEAN
    BY <1>2, Bounds DEF Kept, States
  <2>2. QED BY <1>1, <2>1 DEF States
<1>4. /\ frames \subseteq {"answer", "phrase"}
      /\ "answer" \in frames => streaming
  BY <1>1 DEF Narration
<1>5. Continues(r, next, frames)
  <2>1. Inside(next) /\ frames \subseteq Frames /\ "stale" \notin frames /\ "endCall" \notin frames
    BY <1>2, <1>3, <1>4 DEF Kept, Inside, Frames
  <2>2. QED BY <1>2, <1>3, <1>4, <2>1, Held DEF Continues, Kept
<1>6. QED BY <1>2, <1>5, ContinuesIInv

LEMMA OutageReplyIInv ==
  ASSUME VoiceIInv, NEW r \in Requests, NEW success \in BOOLEAN,
         NEW state, Kept(r, state), OutageReply(r, state, success)
  PROVE  VoiceIInv'
<1>1. PICK next, frames :
        /\ next = [state EXCEPT !.phase = "closing"]
        /\ frames = IF success THEN {}
                    ELSE {"fallback"}
                           \union (IF IsAlarming(req[r].said) /\ "instruction" \notin req[r].out
                                   THEN {"instruction"} ELSE {})
                           \union (IF streaming THEN {} ELSE {"endCall"})
  OBVIOUS
<1>2. Emit(r, next, frames) /\ req[r].phase = "outage"
  BY <1>1 DEF OutageReply
<1>3. /\ next \in States /\ next.phase = "closing" /\ next.proc = state.proc
      /\ next.seq = state.seq /\ next.n = state.n /\ next.said = state.said
      /\ next.lead = state.lead /\ next.out = state.out /\ next.w = state.w
  BY <1>1 DEF Kept, States, Phases
<1>4. /\ frames \subseteq {"fallback", "instruction", "endCall"}
      /\ streaming => "endCall" \notin frames
  BY <1>1
<1>5. Continues(r, next, frames)
  <2>1. Inside(next) /\ frames \subseteq Frames /\ "stale" \notin frames /\ "answer" \notin frames
    BY <1>3, <1>4 DEF Inside, Frames
  <2>2. QED BY <1>2, <1>3, <1>4, <2>1, Held DEF Continues, Kept
<1>6. QED BY <1>2, <1>5, ContinuesIInv

LEMMA TransferredIInv ==
  ASSUME VoiceIInv, NEW r \in Requests, NEW speaks \in BOOLEAN, NEW success \in BOOLEAN,
         NEW state, Kept(r, state), Transferred(r, speaks, state, success)
  PROVE  VoiceIInv'
<1>1. PICK moved : moved = [state EXCEPT !.moved = state.moved \/ success]
  OBVIOUS
<1>2. Round(r, speaks, success, moved) \/ OutageReply(r, moved, success)
  BY <1>1 DEF Transferred
<1>3. Kept(r, moved)
  BY <1>1 DEF Kept, States
<1>4. QED BY <1>2, <1>3, RoundIInv, OutageReplyIInv

LEMMA KeptAsIs ==
  ASSUME VoiceIInv, NEW r \in Requests, Frame, lock' = lock, failures' \in 0..MaxFailures,
         \/ moves' = moves
         \/ moves' = [accepted |-> moves.accepted + 1, lost |-> moves.lost + 1]
  PROVE  Kept(r, req[r])
BY DEF Kept, VoiceIInv, Typed, MoveCounts

LEMMA ToolsIInv ==
  ASSUME VoiceIInv, NEW r \in Requests, NEW speaks \in BOOLEAN, NEW ok \in BOOLEAN,
         RunTool(r, speaks, ok) \/ BookTool(r, speaks, ok)
  PROVE  VoiceIInv'
<1>1. Frame /\ lock' = lock /\ failures' \in 0..MaxFailures /\ moves' = moves
  BY DEF RunTool, BookTool, Frame, settled, database, VoiceIInv, Typed
<1>2. Kept(r, req[r])
  BY <1>1, KeptAsIs
<1>3. CASE RunTool(r, speaks, ok)
  BY <1>2, <1>3, RoundIInv DEF RunTool
<1>4. CASE BookTool(r, speaks, ok)
  <2>1. PICK state : state = [req[r] EXCEPT !.unbooked = ~ok]
    OBVIOUS
  <2>2. Kept(r, state)
    BY <1>2, <2>1 DEF Kept, States
  <2>3. QED BY <1>4, <2>1, <2>2, RoundIInv DEF BookTool
<1>5. QED BY <1>3, <1>4

LEMMA TransfersIInv ==
  ASSUME VoiceIInv, NEW r \in Requests, NEW speaks \in BOOLEAN,
         \/ FindTransfer(r, speaks) \/ RefuseTransfer(r, speaks)
         \/ TransferAccepted(r, speaks) \/ TransferForgotten(r, speaks)
  PROVE  VoiceIInv'
<1>1. CASE FindTransfer(r, speaks) \/ RefuseTransfer(r, speaks)
  <2>1. Frame /\ lock' = lock /\ failures' \in 0..MaxFailures /\ moves' = moves
    BY <1>1 DEF FindTransfer, RefuseTransfer, Frame, settled, database, VoiceIInv, Typed
  <2>2. Kept(r, req[r])
    BY <2>1, KeptAsIs
  <2>3. QED BY <1>1, <2>2, TransferredIInv DEF FindTransfer, RefuseTransfer
<1>2. CASE TransferAccepted(r, speaks)
  <2>1. PICK state : state = [req[r] EXCEPT !.w = [req[r].w EXCEPT !.moved = TRUE]]
    OBVIOUS
  <2>2. /\ Frame /\ lock' = lock /\ failures' \in 0..MaxFailures
        /\ moves' = [moves EXCEPT !.accepted = moves.accepted + 1] /\ moves' \in MoveCounts
        /\ ~row.moved /\ ~req[r].w.moved
    <3>1. /\ UNCHANGED <<settled, lock, failures>> /\ ~AlreadyMoved(r)
          /\ moves' = [moves EXCEPT !.accepted = moves.accepted + 1]
      BY <1>2 DEF TransferAccepted
    <3>2. moves \in MoveCounts /\ failures \in 0..MaxFailures
      BY DEF VoiceIInv, Typed
    <3>3. moves' \in MoveCounts
      BY <3>1, <3>2 DEF MoveCounts
    <3>4. QED BY <3>1, <3>2, <3>3 DEF AlreadyMoved, Frame, settled, database
  <2>3. /\ state \in States /\ state.w = [req[r].w EXCEPT !.moved = TRUE]
        /\ req[r].w \in Writes /\ state.phase = req[r].phase /\ state.proc = req[r].proc
        /\ state.seq = req[r].seq /\ state.n = req[r].n /\ state.said = req[r].said
        /\ state.lead = req[r].lead /\ state.out = req[r].out
        /\ state.round = req[r].round
    <3>1. req[r] \in States /\ req[r].w \in Writes
      BY DEF VoiceIInv, Typed, States
    <3>2. [req[r].w EXCEPT !.moved = TRUE] \in Writes
      BY <3>1 DEF Writes
    <3>3. QED BY <2>1, <3>1, <3>2 DEF States
  <2>4. /\ state.w.noticed = req[r].w.noticed /\ state.w.turn = req[r].w.turn
        /\ state.w.ends = req[r].w.ends /\ state.w.moved
    BY <2>3 DEF Writes
  <2>5. Kept(r, state)
    BY <2>2, <2>3, <2>4 DEF Kept
  <2>6. Transferred(r, speaks, state, TRUE)
    BY <1>2, <2>1 DEF TransferAccepted
  <2>7. QED BY <2>5, <2>6, TransferredIInv
<1>3. CASE TransferForgotten(r, speaks)
  <2>1. /\ Frame /\ lock' = lock /\ failures' \in 0..MaxFailures
        /\ moves' = [accepted |-> moves.accepted + 1, lost |-> moves.lost + 1]
    BY <1>3, CountedStays DEF TransferForgotten, Frame, settled, database
  <2>2. Kept(r, req[r])
    BY <2>1, KeptAsIs
  <2>3. QED BY <1>3, <2>2, TransferredIInv DEF TransferForgotten
<1>4. QED BY <1>1, <1>2, <1>3

LEMMA FailTurnIInv ==
  ASSUME VoiceIInv, NEW r \in Requests, NEW speaks \in BOOLEAN, FailTurn(r, speaks)
  PROVE  VoiceIInv'
<1>1. PICK next, frames :
        /\ next = [req[r] EXCEPT !.phase = "outage"]
        /\ frames = IF streaming /\ speaks THEN {"answer"} ELSE {}
  OBVIOUS
<1>2. /\ Emit(r, next, frames) /\ req[r].phase = "asking"
      /\ Frame /\ lock' = lock /\ failures' \in 0..MaxFailures /\ moves' = moves
  BY <1>1 DEF FailTurn, Frame, settled, database, VoiceIInv, Typed
<1>3. /\ next \in States /\ next.phase = "outage" /\ next.proc = req[r].proc
      /\ next.seq = req[r].seq /\ next.n = req[r].n /\ next.said = req[r].said
      /\ next.lead = req[r].lead /\ next.out = req[r].out /\ next.w = req[r].w
  BY <1>1 DEF VoiceIInv, Typed, States, Phases
<1>4. /\ frames \subseteq {"answer"} /\ ("answer" \in frames => streaming)
      /\ frames \subseteq Frames /\ Inside(next) /\ moves' \in MoveCounts
  BY <1>1, <1>2, <1>3 DEF Frames, Inside, VoiceIInv, Typed
<1>5. Continues(r, next, frames)
  BY <1>2, <1>3, <1>4, Held DEF Continues
<1>6. QED BY <1>2, <1>5, ContinuesIInv

LEMMA OutageBreaksIInv ==
  ASSUME VoiceIInv, NEW r \in Requests, OutageBreaks(r)
  PROVE  VoiceIInv'
<1>1. PICK next, frames :
        /\ next = [req[r] EXCEPT !.phase = "closing"]
        /\ frames = {"fallback"} \union (IF streaming THEN {} ELSE {"endCall"})
  OBVIOUS
<1>2. /\ Emit(r, next, frames) /\ req[r].phase = "outage"
      /\ Frame /\ lock' = lock /\ failures' \in 0..MaxFailures /\ moves' = moves
  BY <1>1, CountedStays DEF OutageBreaks, Frame, settled, database
<1>3. /\ next \in States /\ next.phase = "closing" /\ next.proc = req[r].proc
      /\ next.seq = req[r].seq /\ next.n = req[r].n /\ next.said = req[r].said
      /\ next.lead = req[r].lead /\ next.out = req[r].out /\ next.w = req[r].w
  BY <1>1 DEF VoiceIInv, Typed, States, Phases
<1>4. /\ frames \subseteq {"fallback", "endCall"} /\ (streaming => "endCall" \notin frames)
      /\ frames \subseteq Frames /\ Inside(next) /\ moves' \in MoveCounts
  BY <1>1, <1>2, <1>3 DEF Frames, Inside, VoiceIInv, Typed
<1>5. Continues(r, next, frames)
  BY <1>2, <1>3, <1>4, Held DEF Continues
<1>6. QED BY <1>2, <1>5, ContinuesIInv

LEMMA AnswerIInv ==
  ASSUME VoiceIInv, NEW r \in Requests, NEW complete \in BOOLEAN, NEW marked \in BOOLEAN,
         Answer(r, complete, marked)
  PROVE  VoiceIInv'
<1>1. req[r].phase = "asking"
  BY DEF Answer
<1>2. /\ req[r] \in States /\ req[r].w \in Writes /\ Fits(req[r])
      /\ req[r].said \in 1..MaxSaid /\ streaming \in BOOLEAN /\ row \in Rows
  BY <1>1, Held, Bounds DEF Holder, Fits, States, VoiceIInv, Typed
<1>3. PICK ends \in BOOLEAN, due \in BOOLEAN :
        ends = Ends(r, complete) /\ due = (~streaming /\ NoticeDue(r))
  BY <1>2 DEF Ends, NoticeDue, States, Writes, Rows
<1>4. PICK w, next, frames :
        /\ w = [req[r].w EXCEPT !.turn = req[r].said, !.led = req[r].lead, !.ends = ends]
        /\ next = Marked([req[r] EXCEPT !.phase = "closing", !.w = w], due, marked)
        /\ frames = Notice(due) \union {"answer"}
              \union (IF req[r].lead /\ ~streaming THEN {"instruction"} ELSE {})
              \union (IF ends THEN {"endCall"} ELSE {})
  BY Zenon
<1>5. Emit(r, next, frames)
  BY <1>3, <1>4 DEF Answer
<1>6. Frame /\ lock' = lock /\ failures' \in 0..MaxFailures /\ moves' = moves
  BY CountedStays DEF Answer, Frame, settled, database
<1>7. /\ w \in Writes /\ w.turn = req[r].said /\ w.ends = ends
      /\ w.noticed = req[r].w.noticed /\ w.moved = req[r].w.moved
  BY <1>2, <1>4 DEF Writes, States
<1>8. /\ next \in States /\ next.phase = "closing" /\ next.proc = req[r].proc
      /\ next.seq = req[r].seq /\ next.n = req[r].n /\ next.said = req[r].said
      /\ next.lead = req[r].lead /\ next.out = req[r].out /\ next.moved = req[r].moved
      /\ next.w.turn = w.turn /\ next.w.ends = w.ends /\ next.w.moved = w.moved
      /\ next.w.noticed <=> w.noticed \/ (due /\ marked)
  <2>1. PICK mid : mid = [req[r] EXCEPT !.phase = "closing", !.w = w]
    OBVIOUS
  <2>2. /\ mid \in States /\ mid.phase = "closing" /\ mid.proc = req[r].proc
        /\ mid.seq = req[r].seq /\ mid.n = req[r].n /\ mid.said = req[r].said
        /\ mid.lead = req[r].lead /\ mid.out = req[r].out /\ mid.moved = req[r].moved
        /\ mid.w = w
    BY <1>2, <1>7, <2>1 DEF States, Phases
  <2>3. next = Marked(mid, due, marked)
    BY <1>4, <2>1
  <2>4. QED BY <1>7, <2>2, <2>3 DEF Marked, States, Writes
<1>9. /\ due => "notice" \in frames
      /\ req[r].lead /\ ~streaming => "instruction" \in Carried(frames)
      /\ "answer" \in frames /\ "stale" \notin frames /\ frames \subseteq Frames
      /\ "endCall" \in frames => ends
  BY <1>4 DEF Notice, Frames, Carried
<1>10. "notice" \in Carried(frames)
  <2>1. CASE due
    BY <1>9, <2>1 DEF Carried
  <2>2. CASE ~due
    BY <1>1, <1>3, <2>2, Held DEF Holder, NoticeDue, VoiceIInv, Wire, Carried
  <2>3. QED BY <2>1, <2>2
<1>11. IsAlarming(req[r].said) => "instruction" \in Carried(frames)
  BY <1>1, <1>9, Held DEF Holder, Carried
<1>12. ends => ~req[r].moved
  BY <1>3 DEF Ends
<1>13. Speaks(r, next, frames)
  BY <1>1, <1>5, <1>6, <1>8, <1>9, Held DEF Speaks, Inside, VoiceIInv, Typed
<1>14. Fits(next)
  BY <1>2, <1>8 DEF Fits
<1>15. Lawful(r, next, frames)
  <2>1. /\ next.phase # "closing" \/ (streaming /\ next.moved) =>
             "endCall" \notin next.out \union frames
        /\ "stale" \in next.out \union frames /\ ~ended => next.n < sent
    BY <1>1, <1>8, <1>9, <1>12, Held DEF Holder
  <2>2. /\ next.w.turn # 0 => next.phase = "closing" /\ next.w.turn = next.said
        /\ next.w.ends => next.w.turn # 0
        /\ next.said # 0 /\ next.phase # "asking"
    BY <1>2, <1>7, <1>8
  <2>3. moves' = moves /\ next.w.moved = req[r].w.moved
    BY <1>6, <1>7, <1>8
  <2>4. QED BY <1>8, <1>9, <1>10, <1>11, <1>14, <2>1, <2>2, <2>3 DEF Lawful
<1>16. QED BY <1>13, <1>15, SpeaksIInv

-----------------------------------------------------------------------------
(* The end of a transaction.                                               *)

\* A request that is outside has nothing to write.
LEMMA OthersOutside ==
  ASSUME VoiceIInv, NEW r \in Requests, lock # r
  PROVE  /\ ~Inside(req[r]) /\ req[r].w = NoWrites
         /\ ~req[r].w.moved /\ ~req[r].w.noticed /\ ~req[r].w.ends
BY Nothing DEF VoiceIInv, Typed, Quiet, LockHeld, Inside, Open, States, Phases

LEMMA CommitIInv ==
  ASSUME VoiceIInv, NEW r \in Requests, Commit(r) PROVE VoiceIInv'
<1> Typed
  BY DEF VoiceIInv
<1>1. PICK w : w = req[r].w
  OBVIOUS
<1>2. /\ req[r].phase = "closing" /\ req' = [req EXCEPT ![r] = Idle]
      /\ row' = [known |-> row.known \/ w.known, noticed |-> row.noticed \/ w.noticed,
                 completed |-> row.completed \/ w.ends, moved |-> row.moved \/ w.moved]
      /\ transcript' = IF w.turn = 0 THEN transcript
                       ELSE Append(transcript, [said |-> w.turn, proc |-> req[r].proc,
                                                led |-> w.led])
      /\ over' = (over \/ w.ends) /\ lock' = NoRequest
  BY <1>1 DEF Commit
<1>3. /\ streaming' = streaming /\ said' = said /\ ended' = ended /\ tenant' = tenant
      /\ latest' = latest /\ sent' = sent /\ failures' = failures
      /\ onWire' = onWire /\ instructed' = instructed /\ unled' = unled /\ moves' = moves
  BY DEF Commit, history, wire
<1>4. /\ lock = r /\ Open(req[r]) /\ Inside(req[r]) /\ Holder(req[r])
      /\ w \in Writes /\ req[r] \in States /\ req[r].proc \in Processes
  <2>1. Open(req[r]) /\ Inside(req[r]) /\ req[r] \in States
    BY <1>2 DEF Typed, Open, Inside
  <2>2. lock = r /\ Holder(req[r]) /\ req[r].proc \in Processes
    BY <2>1 DEF VoiceIInv, LockHeld, Holders, Arrivals
  <2>3. QED BY <1>1, <2>1, <2>2 DEF States
<1>5. /\ req' \in [Requests -> States] /\ req'[r] = Idle
      /\ \A s \in Requests : s # r => req'[s] = req[s]
      /\ \A s \in Requests : ~Inside(req'[s])
  <2>1. /\ req' \in [Requests -> States] /\ req'[r] = Idle
        /\ \A s \in Requests : s # r => req'[s] = req[s]
    BY <1>2, Nothing DEF Typed
  <2>2. \A s \in Requests : s # r => ~Inside(req[s])
    BY <1>4 DEF VoiceIInv, LockHeld
  <2>3. QED BY <2>1, <2>2, Nothing
<1>6. w.turn # 0 =>
        /\ w.turn = req[r].said /\ Fits(req[r])
        /\ IsAlarming(w.turn) => "instruction" \in onWire
  BY <1>1, <1>4 DEF Holder
<1>7. w.turn = 0 \/ [said |-> w.turn, proc |-> req[r].proc, led |-> w.led] \in Entries
  BY <1>4, <1>6, Bounds DEF Entries, Writes, Fits
<1>8. /\ transcript' \in Seq(Entries)
      /\ \A i \in DOMAIN transcript' :
           \/ i \in DOMAIN transcript /\ transcript'[i] = transcript[i]
           \/ /\ w.turn # 0 /\ i = Len(transcript) + 1
              /\ transcript'[i].said = w.turn /\ transcript'[i].proc = req[r].proc
  <2>1. CASE w.turn = 0
    BY <1>2, <2>1 DEF Typed
  <2>2. CASE w.turn # 0
    <3>1. PICK e \in Entries : e.said = w.turn /\ e.proc = req[r].proc
                               /\ transcript' = Append(transcript, e)
      BY <1>2, <1>7, <2>2
    <3>2. QED BY <2>2, <3>1 DEF Typed
  <2>3. QED BY <2>1, <2>2
<1>9. Typed'
  <2>1. row' \in Rows
    BY <1>2, <1>4 DEF Typed, Rows, Writes
  <2>2. over' \in BOOLEAN
    BY <1>2, <1>4 DEF Typed, Writes
  <2>3. QED BY <1>2, <1>3, <1>5, <1>8, <2>1, <2>2 DEF Typed
<1>10. Quiet' /\ LockHeld' /\ Holders'
  <2>1. Quiet'
    BY <1>5, Nothing DEF VoiceIInv, Quiet, Open, Idle
  <2>2. LockHeld' /\ Holders'
    BY <1>2, <1>5, NoRequestAssumption DEF LockHeld, Holders
  <2>3. QED BY <2>1, <2>2
<1>11. \A s \in Requests : Open(req'[s]) =>
         s # r /\ req'[s] = req[s] /\ (IsCurrent(s)' <=> IsCurrent(s))
  BY <1>3, <1>5, Nothing DEF IsCurrent
<1>12. Arrivals'
  <2>1. \A i \in DOMAIN transcript' : transcript'[i].said <= Len(said)
    BY <1>6, <1>8 DEF VoiceIInv, Arrivals, Fits
  <2>2. QED BY <1>3, <1>11, <2>1 DEF VoiceIInv, Arrivals
<1>13. Overtaken'
  <2> SUFFICES ASSUME NEW s \in Requests, Open(req'[s]), req'[s].said # 0
               PROVE  /\ \A t \in Requests :
                            Open(req'[t]) /\ req'[t].proc = req'[s].proc
                              /\ req'[s].said < req'[t].said => ~IsCurrent(s)'
                      /\ \A i \in DOMAIN transcript' :
                            transcript'[i].proc = req'[s].proc
                              /\ req'[s].said < transcript'[i].said => ~IsCurrent(s)'
    BY DEF Overtaken
  <2>1. s # r /\ req'[s] = req[s] /\ (IsCurrent(s)' <=> IsCurrent(s))
    BY <1>11
  <2>2. \A t \in Requests : Open(req'[t]) /\ req'[t].proc = req'[s].proc
                              /\ req'[s].said < req'[t].said => ~IsCurrent(s)'
    BY <1>11, <2>1 DEF VoiceIInv, Overtaken
  <2>3. \A i \in DOMAIN transcript' : transcript'[i].proc = req'[s].proc
                              /\ req'[s].said < transcript'[i].said => ~IsCurrent(s)'
    BY <1>4, <1>6, <1>8, <2>1 DEF VoiceIInv, Overtaken
  <2>4. QED BY <2>2, <2>3
<1>14. Wire'
  <2>1. row'.noticed => "notice" \in onWire
    BY <1>1, <1>2, <1>4 DEF Holder, VoiceIInv, Wire
  <2>2. \A i \in DOMAIN transcript' :
          said[transcript'[i].said] \in Alarming => "instruction" \in onWire
    BY <1>6, <1>8 DEF VoiceIInv, Wire, IsAlarming
  <2>3. QED BY <1>3, <2>1, <2>2 DEF VoiceIInv, Wire, IsAlarming
<1>15. Written'
  <2>1. over' => row'.completed
    BY <1>2 DEF VoiceIInv, Written
  <2>2. OlderWordsOnlyFromAnotherProcess'
    <3> SUFFICES ASSUME NEW i \in DOMAIN transcript', NEW j \in DOMAIN transcript', i < j,
                        transcript'[i].said > transcript'[j].said
                 PROVE  transcript'[i].proc # transcript'[j].proc
      BY DEF OlderWordsOnlyFromAnotherProcess
    <3>1. i \in DOMAIN transcript /\ transcript'[i] = transcript[i]
      BY <1>8 DEF Typed
    <3>2. CASE j \in DOMAIN transcript /\ transcript'[j] = transcript[j]
      BY <3>1, <3>2 DEF VoiceIInv, Written, OlderWordsOnlyFromAnotherProcess
    <3>3. CASE w.turn # 0 /\ transcript'[j].said = w.turn /\ transcript'[j].proc = req[r].proc
      <4>1. transcript[i].said \in Nat /\ req[r].said \in Nat
        <5>1. transcript[i] \in Entries
          BY <3>1 DEF Typed
        <5>2. QED BY <1>4, <5>1, Bounds DEF Entries, States
      <4>2. QED BY <1>6, <3>1, <3>3, <4>1 DEF Fits
    <3>4. QED BY <1>8, <3>2, <3>3
  <2>3. QED BY <2>1, <2>2 DEF Written
<1>16. MoveKnown'
  <2>1. row'.moved <=> row.moved \/ w.moved
    BY <1>2
  <2>2. \A s \in Requests : req[s].w.moved => s = r
    BY <1>4, OthersOutside
  <2>3. QED BY <1>1, <1>3, <2>1, <2>2 DEF VoiceIInv, MoveKnown
<1>17. QED BY <1>9, <1>10, <1>12, <1>13, <1>14, <1>15, <1>16 DEF VoiceIInv

\* Undone requests leave nothing but the loss of the move they had recorded.
LEMMA UndoIInv ==
  ASSUME VoiceIInv, NEW gone \in SUBSET Requests, Undo(gone),
         UNCHANGED <<streaming, said, ended, tenant, sent>>, failures' \in 0..MaxFailures,
         latest' \in [Processes -> 0..MaxSent],
         \A p \in Processes : latest'[p] <= sent,
         \A r \in Requests \ gone : Open(req[r]) => latest'[req[r].proc] = latest[req[r].proc]
  PROVE  VoiceIInv'
<1> Typed
  BY DEF VoiceIInv
<1>1. /\ \A r \in gone : req'[r] = Idle
      /\ \A r \in Requests \ gone : req'[r] = req[r]
      /\ req' \in [Requests -> States]
  BY Nothing DEF Undo, Typed
<1>2. /\ row' = row /\ transcript' = transcript /\ over' = over
      /\ onWire' = onWire /\ instructed' = instructed /\ unled' = unled
      /\ streaming' = streaming /\ said' = said /\ ended' = ended /\ tenant' = tenant
      /\ sent' = sent /\ lock' = IF lock \in gone THEN NoRequest ELSE lock
  BY DEF Undo, database, wire
<1>3. \A r \in Requests : r \notin gone \/ (~Open(req'[r]) /\ ~Inside(req'[r])
                                            /\ ~req'[r].w.moved)
  BY <1>1, Nothing
<1> DEFINE Lost == {r \in gone : req[r].w.moved}
<1>4. /\ Cardinality(Lost) \in Nat
      /\ Cardinality(Lost) = 0 => \A r \in gone : ~req[r].w.moved
  <2>1. Lost \subseteq {lock}
    BY OthersOutside
  <2>2. IsFiniteSet({lock})
    BY FS_Singleton
  <2>3. IsFiniteSet(Lost)
    BY <2>1, <2>2, FS_Subset
  <2>4. QED BY <2>3, FS_CardinalityType, FS_EmptySet
<1>5. moves' \in MoveCounts /\ moves'.accepted = moves.accepted
      /\ moves'.lost = moves.lost + Cardinality(Lost)
  <2> HIDE DEF Lost
  <2>1. moves' = [moves EXCEPT !.lost = moves.lost + Cardinality(Lost)]
    BY DEF Undo, Lost
  <2>2. PICK n \in Nat : n = Cardinality(Lost)
    BY <1>4
  <2>3. moves' = [moves EXCEPT !.lost = moves.lost + n] /\ moves \in MoveCounts
    BY <2>1, <2>2 DEF Typed
  <2>4. moves' \in MoveCounts /\ moves'.accepted = moves.accepted /\ moves'.lost = moves.lost + n
    BY <2>3 DEF MoveCounts
  <2>5. QED BY <2>2, <2>4
<1>6. Typed'
  BY <1>1, <1>2, <1>5 DEF Typed
<1>7. Quiet'
  BY <1>1, Nothing DEF VoiceIInv, Quiet, Open, Idle
<1>8. LockHeld'
  BY <1>1, <1>2, <1>3, NoRequestAssumption DEF VoiceIInv, LockHeld
<1>9. \A r \in Requests : Open(req'[r]) =>
        r \notin gone /\ req'[r] = req[r] /\ (IsCurrent(r)' <=> IsCurrent(r))
  BY <1>1, <1>3 DEF IsCurrent
<1>10. Arrivals'
  <2> SUFFICES ASSUME NEW r \in Requests, Open(req'[r])
               PROVE  /\ req'[r].proc \in Processes /\ req'[r].n <= sent
                      /\ req'[r].said <= Len(said) /\ (req'[r].said # 0 => req'[r].seq # 0)
                      /\ ~ended => /\ req'[r].seq <= latest'[req'[r].proc]
                                   /\ IsCurrent(r)' \/ req'[r].n < sent
    BY <1>2 DEF VoiceIInv, Arrivals
  <2>1. QED BY <1>9 DEF VoiceIInv, Arrivals
<1>11. Overtaken'
  BY <1>2, <1>9 DEF VoiceIInv, Overtaken
<1>12. Holders'
  <2> SUFFICES ASSUME NEW r \in Requests, Inside(req'[r]) PROVE Holder(req[r])'
    BY DEF Holders
  <2>1. req'[r] = req[r] /\ Holder(req[r])
    BY <1>1, <1>3 DEF VoiceIInv, Holders
  <2>2. QED BY <1>2, <2>1 DEF Holder, Fits, LastAnswered, IsAlarming
<1>13. Wire' /\ Written'
  BY <1>2 DEF VoiceIInv, Wire, Written, OlderWordsOnlyFromAnotherProcess, IsAlarming
<1>14. MoveKnown'
  <2> SUFFICES ASSUME moves'.lost = 0, moves'.accepted # 0
               PROVE  moves'.accepted = 1 /\ (row'.moved \/ \E r \in Requests : req'[r].w.moved)
    BY DEF MoveKnown
  <2>1. moves.lost = 0 /\ Cardinality(Lost) = 0
    BY <1>4, <1>5 DEF Typed, MoveCounts
  <2>2. \A r \in gone : ~req[r].w.moved
    BY <1>4, <2>1
  <2>3. moves.accepted = 1 /\ (row.moved \/ \E r \in Requests : req[r].w.moved)
    BY <1>5, <2>1 DEF VoiceIInv, MoveKnown
  <2>4. QED BY <1>1, <1>2, <1>5, <2>2, <2>3
<1>15. QED
  BY <1>6, <1>7, <1>8, <1>10, <1>11, <1>12, <1>13, <1>14 DEF VoiceIInv

LEMMA UndoneIInv ==
  ASSUME VoiceIInv,
         \/ \E r \in Requests : RollBack(r) \/ Abandon(r)
         \/ \E p \in Processes : Crash(p)
  PROVE  VoiceIInv'
<1>1. /\ latest \in [Processes -> 0..MaxSent] /\ sent \in 0..MaxSent
      /\ \A p \in Processes : latest[p] <= sent
      /\ \A r \in Requests : Open(req[r]) => req[r].proc \in Processes
  BY DEF VoiceIInv, Typed, Arrivals
<1>2. ASSUME NEW r \in Requests, RollBack(r) \/ Abandon(r) PROVE VoiceIInv'
  <2>1. Undo({r}) /\ Counted(TRUE) /\ latest' = latest
        /\ UNCHANGED <<streaming, said, ended, tenant, sent>>
    BY <1>2 DEF RollBack, Abandon
  <2>2. failures' \in 0..MaxFailures
    BY <2>1, CountedStays
  <2>3. QED BY <1>1, <2>1, <2>2, UndoIInv
<1>3. ASSUME NEW p \in Processes, Crash(p) PROVE VoiceIInv'
  <2> DEFINE gone == {r \in Requests : Open(req[r]) /\ req[r].proc = p}
  <2>1. Undo(gone) /\ Counted(TRUE) /\ latest' = [latest EXCEPT ![p] = 0]
        /\ UNCHANGED <<streaming, said, ended, tenant, sent>>
    BY <1>3 DEF Crash, Open
  <2>2. failures' \in 0..MaxFailures
    BY <2>1, CountedStays
  <2>3. /\ latest' \in [Processes -> 0..MaxSent]
        /\ \A o \in Processes : latest'[o] <= sent
        /\ \A r \in Requests \ gone :
             Open(req[r]) => latest'[req[r].proc] = latest[req[r].proc]
    BY <1>1, <2>1, Bounds
  <2>4. gone \in SUBSET Requests
    OBVIOUS
  <2> HIDE DEF gone
  <2>5. QED BY <2>1, <2>2, <2>3, <2>4, UndoIInv
<1>4. QED BY <1>2, <1>3

LEMMA ReportIInv ==
  ASSUME VoiceIInv, NEW p \in Processes, Report(p) PROVE VoiceIInv'
<1> Typed
  BY DEF VoiceIInv
<1>1. /\ ended' = TRUE /\ latest' = [latest EXCEPT ![p] = 0]
      /\ row' = [row EXCEPT !.completed = row.completed \/ row.known]
      /\ streaming' = streaming /\ said' = said /\ tenant' = tenant
      /\ transcript' = transcript /\ over' = over /\ lock' = lock /\ req' = req
      /\ sent' = sent /\ failures' = failures /\ onWire' = onWire
      /\ instructed' = instructed /\ unled' = unled /\ moves' = moves
  BY DEF Report, history, wire
<1>2. /\ row' \in Rows /\ row'.noticed = row.noticed /\ row'.moved = row.moved
      /\ row.completed => row'.completed
  BY <1>1 DEF Typed, Rows
<1>3. Typed'
  BY <1>1, <1>2, Bounds DEF Typed
<1>4. Quiet' /\ LockHeld'
  BY <1>1 DEF VoiceIInv, Quiet, LockHeld
<1>5. Arrivals'
  BY <1>1 DEF VoiceIInv, Arrivals, Typed
<1>6. \A r \in Requests : Open(req[r]) /\ req[r].said # 0 /\ ~IsCurrent(r) => ~IsCurrent(r)'
  BY <1>1 DEF VoiceIInv, Arrivals, IsCurrent, Typed
<1>7. Overtaken'
  BY <1>1, <1>6 DEF VoiceIInv, Overtaken
<1>8. Holders'
  <2> SUFFICES ASSUME NEW r \in Requests, Inside(req[r]) PROVE Holder(req[r])'
    BY <1>1 DEF Holders
  <2>1. Holder(req[r])
    BY DEF VoiceIInv, Holders
  <2>2. QED BY <1>1, <2>1 DEF Holder, Fits, LastAnswered, IsAlarming
<1>9. Wire' /\ Written'
  BY <1>1, <1>2 DEF VoiceIInv, Wire, Written, OlderWordsOnlyFromAnotherProcess, IsAlarming
<1>10. MoveKnown'
  BY <1>1, <1>2 DEF VoiceIInv, MoveKnown
<1>11. QED BY <1>3, <1>4, <1>5, <1>7, <1>8, <1>9, <1>10 DEF VoiceIInv

LEMMA SetTenantIInv ==
  ASSUME VoiceIInv, NEW state \in {"on", "off", "unmapped"}, SetTenant(state)
  PROVE  VoiceIInv'
<1>1. /\ tenant' = state /\ failures' \in 0..MaxFailures
      /\ streaming' = streaming /\ said' = said /\ ended' = ended /\ latest' = latest
      /\ row' = row /\ transcript' = transcript /\ over' = over /\ lock' = lock /\ req' = req
      /\ sent' = sent /\ onWire' = onWire /\ instructed' = instructed /\ unled' = unled
      /\ moves' = moves
  BY CountedStays DEF SetTenant, database, history, wire
<1>2. Typed'
  BY <1>1 DEF VoiceIInv, Typed
<1>3. Quiet' /\ LockHeld' /\ Arrivals' /\ Overtaken'
  BY <1>1 DEF VoiceIInv, Quiet, LockHeld, Arrivals, Overtaken, IsCurrent
<1>4. Holders' /\ Wire' /\ Written' /\ MoveKnown'
  BY <1>1 DEF VoiceIInv, Holders, Holder, Fits, LastAnswered, IsAlarming, Wire, Written,
              OlderWordsOnlyFromAnotherProcess, MoveKnown
<1>5. QED BY <1>2, <1>3, <1>4 DEF VoiceIInv

-----------------------------------------------------------------------------
(* A request arrives.                                                      *)

LEMMA SendIInv ==
  ASSUME VoiceIInv, NEW r \in Requests, NEW p \in Processes, NEW words \in Seq(Texts),
         Len(said) <= Len(words), \A i \in 1..Len(said) : words[i] = said[i],
         Send(r, p, words)
  PROVE  VoiceIInv'
<1> Typed
  BY DEF VoiceIInv
<1>1. /\ req[r].phase = "idle" /\ ~ended /\ sent < MaxSent
      /\ sent' = sent + 1 /\ Len(words) <= MaxSaid /\ said' = words
      /\ latest' = IF words = <<>> THEN latest ELSE [latest EXCEPT ![p] = latest[p] + 1]
      /\ streaming' = streaming /\ ended' = ended /\ tenant' = tenant /\ row' = row
      /\ transcript' = transcript /\ over' = over /\ lock' = lock /\ failures' = failures
      /\ onWire' = onWire /\ instructed' = instructed /\ unled' = unled /\ moves' = moves
  BY DEF Send, database, history, wire
<1>2. PICK q : /\ q = [Idle EXCEPT !.phase = "waiting", !.proc = p, !.n = sent',
                                   !.seq = latest'[p], !.said = Len(words)]
               /\ req' = [req EXCEPT ![r] = q]
  BY DEF Send
<1>3. /\ Len(said) \in Nat /\ Len(words) \in 0..MaxSaid /\ sent \in Nat /\ sent' \in 0..MaxSent
      /\ \A o \in Processes : latest[o] \in Nat /\ latest[o] <= sent
  BY <1>1, Bounds DEF Typed, VoiceIInv, Arrivals
<1>4. /\ latest' \in [Processes -> 0..MaxSent]
      /\ \A o \in Processes : /\ latest'[o] <= sent' /\ latest[o] <= latest'[o]
                              /\ latest'[o] = latest[o] \/ (o = p /\ latest'[o] = latest[o] + 1)
      /\ Len(words) # 0 => latest'[p] = latest[p] + 1
  BY <1>1, <1>3, Bounds DEF Typed
<1>5. /\ q \in States /\ q.phase = "waiting" /\ q.proc = p /\ q.n = sent' /\ q.seq = latest'[p]
      /\ q.said = Len(words) /\ q.w = NoWrites /\ ~q.moved /\ q.out = {}
  <2>1. Idle \in States /\ latest'[p] \in 0..MaxSent /\ "waiting" \in Phases
    BY <1>4, Nothing DEF Phases
  <2>2. q \in States
    BY <1>2, <1>3, <2>1 DEF States
  <2>3. /\ q.phase = "waiting" /\ q.proc = p /\ q.n = sent' /\ q.seq = latest'[p]
        /\ q.said = Len(words) /\ q.w = Idle.w /\ q.moved = Idle.moved /\ q.out = Idle.out
    BY <1>2, <2>1 DEF States
  <2>4. QED BY <2>2, <2>3 DEF Idle
<1>6. /\ req' \in [Requests -> States] /\ req'[r] = q
      /\ \A s \in Requests : s # r => req'[s] = req[s]
      /\ Open(q) /\ ~Inside(q) /\ ~Inside(req[r]) /\ ~Open(req[r])
  BY <1>1, <1>2, <1>5 DEF Typed, Open, Inside
<1>7. Typed'
  BY <1>1, <1>3, <1>4, <1>6 DEF Typed
<1>8. Quiet' /\ LockHeld'
  BY <1>1, <1>5, <1>6, Nothing DEF VoiceIInv, Quiet, LockHeld
<1>9. IsCurrent(r)'
  BY <1>5, <1>6 DEF IsCurrent
<1>10. \A s \in Requests : Open(req[s]) =>
         /\ s # r /\ req'[s] = req[s]
         /\ req[s].said \in Nat /\ req[s].seq \in Nat /\ req[s].n \in Nat
         /\ req[s].proc \in Processes /\ req[s].n <= sent /\ req[s].said <= Len(said)
         /\ req[s].said # 0 => req[s].seq # 0
         /\ req[s].seq <= latest[req[s].proc]
         /\ ~IsCurrent(s) => ~IsCurrent(s)'
  <2> SUFFICES ASSUME NEW s \in Requests, Open(req[s])
               PROVE  /\ s # r /\ req'[s] = req[s] /\ req[s].said \in Nat /\ req[s].seq \in Nat
                      /\ req[s].n \in Nat
                      /\ req[s].proc \in Processes /\ req[s].n <= sent /\ req[s].said <= Len(said)
                      /\ req[s].said # 0 => req[s].seq # 0
                      /\ req[s].seq <= latest[req[s].proc]
                      /\ ~IsCurrent(s) => ~IsCurrent(s)'
    OBVIOUS
  <2>1. s # r /\ req'[s] = req[s]
    BY <1>6
  <2>2. /\ req[s].proc \in Processes /\ req[s].n <= sent /\ req[s].said <= Len(said)
        /\ req[s].said # 0 => req[s].seq # 0
        /\ req[s].seq <= latest[req[s].proc]
    BY <1>1 DEF VoiceIInv, Arrivals
  <2>3. req[s].said \in Nat /\ req[s].seq \in Nat /\ req[s].n \in Nat
    <3>1. req[s] \in States
      BY DEF Typed
    <3>2. QED BY <3>1, Bounds DEF States
  <2>4. ~IsCurrent(s) => ~IsCurrent(s)'
    BY <1>3, <1>4, <2>1, <2>2, <2>3 DEF IsCurrent
  <2>5. QED BY <2>1, <2>2, <2>3, <2>4
<1>11. Arrivals'
  <2>1. \A i \in DOMAIN transcript : transcript[i].said <= Len(said')
    <3>1. \A i \in DOMAIN transcript : transcript[i] \in Entries /\ transcript[i].said <= Len(said)
      BY DEF Typed, VoiceIInv, Arrivals
    <3>2. QED BY <1>1, <1>3, <3>1, Bounds DEF Entries
  <2>2. ASSUME NEW s \in Requests, Open(req'[s])
        PROVE  /\ req'[s].proc \in Processes /\ req'[s].n <= sent' /\ req'[s].said <= Len(said')
               /\ req'[s].said # 0 => req'[s].seq # 0
               /\ ~ended' => /\ req'[s].seq <= latest'[req'[s].proc]
                             /\ IsCurrent(s)' \/ req'[s].n < sent'
    <3>1. CASE s = r
      BY <1>1, <1>3, <1>4, <1>5, <1>6, <1>9, <3>1
    <3>2. CASE s # r
      <4>1. Open(req[s]) /\ req'[s] = req[s]
        BY <1>6, <2>2, <3>2
      <4>2. /\ req[s].said \in Nat /\ req[s].seq \in Nat /\ req[s].n \in Nat
            /\ req[s].proc \in Processes /\ req[s].n <= sent /\ req[s].said <= Len(said)
            /\ req[s].said # 0 => req[s].seq # 0
            /\ req[s].seq <= latest[req[s].proc]
        BY <1>10, <4>1
      <4>3. /\ latest[req[s].proc] \in Nat /\ latest'[req[s].proc] \in Nat
            /\ latest[req[s].proc] <= latest'[req[s].proc]
        BY <1>3, <1>4, <4>2
      <4>4. QED BY <1>1, <1>3, <4>1, <4>2, <4>3
    <3>3. QED BY <3>1, <3>2
  <2>3. QED BY <1>4, <1>1, <2>1, <2>2 DEF Arrivals
<1>12. Overtaken'
  <2>1. ASSUME NEW s \in Requests, Open(req'[s]), req'[s].said # 0
        PROVE  /\ \A t \in Requests :
                     Open(req'[t]) /\ req'[t].proc = req'[s].proc
                       /\ req'[s].said < req'[t].said => ~IsCurrent(s)'
               /\ \A i \in DOMAIN transcript :
                     transcript[i].proc = req'[s].proc
                       /\ req'[s].said < transcript[i].said => ~IsCurrent(s)'
    <3>0. \A i \in DOMAIN transcript : transcript[i].said \in Nat /\ transcript[i].said <= Len(said)
      <4>1. \A i \in DOMAIN transcript :
              transcript[i] \in Entries /\ transcript[i].said <= Len(said)
        BY DEF Typed, VoiceIInv, Arrivals
      <4>2. QED BY <4>1, Bounds DEF Entries
    <3>1. CASE s = r
      <4>1. req'[s].said = Len(words)
        BY <1>5, <1>6, <3>1
      <4>2. \A t \in Requests : Open(req'[t]) => req'[t].said \in Nat /\ req'[t].said <= Len(words)
        BY <1>3, <1>5, <1>6, <1>10
      <4>3. \A i \in DOMAIN transcript : transcript[i].said <= Len(words)
        BY <1>3, <3>0
      <4>4. QED BY <1>3, <3>0, <4>1, <4>2, <4>3
    <3>2. CASE s # r
      <4>1. Open(req[s]) /\ req'[s] = req[s] /\ (~IsCurrent(s) => ~IsCurrent(s)')
        BY <1>6, <1>10, <2>1, <3>2
      <4>2. \A i \in DOMAIN transcript :
              transcript[i].proc = req'[s].proc
                /\ req'[s].said < transcript[i].said => ~IsCurrent(s)'
        BY <2>1, <4>1 DEF VoiceIInv, Overtaken
      <4>3. ASSUME NEW t \in Requests, Open(req'[t]), req'[t].proc = req'[s].proc,
                   req'[s].said < req'[t].said
            PROVE  ~IsCurrent(s)'
        <5>1. CASE t # r
          BY <1>6, <2>1, <4>1, <4>3, <5>1 DEF VoiceIInv, Overtaken
        <5>2. CASE t = r
          <6>1. req[s].proc = p /\ Len(words) # 0
            BY <1>3, <1>5, <1>6, <1>10, <4>1, <4>3, <5>2
          <6>2. latest'[p] = latest[p] + 1 /\ req[s].seq <= latest[p] /\ req[s].seq \in Nat
            BY <1>4, <1>10, <4>1, <6>1
          <6>3. QED BY <1>3, <4>1, <6>1, <6>2 DEF IsCurrent
        <5>3. QED BY <5>1, <5>2
      <4>4. QED BY <4>2, <4>3
    <3>3. QED BY <3>1, <3>2
  <2>2. QED BY <1>1, <2>1 DEF Overtaken
<1>13. /\ \A i \in DOMAIN transcript : transcript[i].said \in 1..Len(said)
       /\ \A i \in 1..Len(said) : said'[i] = said[i] /\ i \in 1..Len(said')
       /\ transcript # <<>> => LastAnswered \in 1..Len(said)
  <2>1. transcript # <<>> => Len(transcript) \in DOMAIN transcript
    BY DEF Typed
  <2>2. \A i \in DOMAIN transcript : transcript[i] \in Entries /\ transcript[i].said <= Len(said)
    BY DEF Typed, VoiceIInv, Arrivals
  <2>3. QED BY <1>1, <1>3, <2>1, <2>2, Bounds DEF Entries, LastAnswered
<1>14. Holders'
  <2> SUFFICES ASSUME NEW s \in Requests, Inside(req'[s]) PROVE Holder(req[s])'
    BY DEF Holders
  <2>1. /\ req'[s] = req[s] /\ Holder(req[s]) /\ Open(req[s]) /\ req[s].n <= sent
        /\ req[s].said \in 0..Len(said) /\ req[s].n \in Nat
    BY <1>3, <1>6, <1>10 DEF VoiceIInv, Holders, Inside, Open
  <2>2. Fits(req[s]) => Fits(req[s])'
    BY <1>1, <1>13, <2>1 DEF Fits, LastAnswered
  <2>3. req[s].said # 0 => (IsAlarming(req[s].said)' <=> IsAlarming(req[s].said))
    BY <1>3, <1>13, <2>1 DEF IsAlarming
  <2>4. Fits(req[s]) => req[s].said # 0
    BY <1>3 DEF Fits
  <2>5. QED BY <1>1, <1>3, <2>1, <2>2, <2>3, <2>4 DEF Holder
<1>15. Wire' /\ Written'
  BY <1>1, <1>13 DEF VoiceIInv, Wire, Written, OlderWordsOnlyFromAnotherProcess, IsAlarming
<1>16. MoveKnown'
  <2>1. \A s \in Requests : req'[s].w.moved <=> req[s].w.moved
    BY <1>5, <1>6, Nothing DEF VoiceIInv, Quiet
  <2>2. QED BY <1>1, <2>1 DEF VoiceIInv, MoveKnown
<1>17. QED
  BY <1>7, <1>8, <1>11, <1>12, <1>14, <1>15, <1>16 DEF VoiceIInv

-----------------------------------------------------------------------------
(* Every step.                                                             *)

LEMMA SaidGrows ==
  ASSUME VoiceIInv, NEW r \in Requests, NEW p \in Processes,
         \/ Send(r, p, said)
         \/ \E text \in Texts : Send(r, p, Append(said, text))
  PROVE  \E words \in Seq(Texts) :
           /\ Len(said) <= Len(words) /\ \A i \in 1..Len(said) : words[i] = said[i]
           /\ Send(r, p, words)
<1>1. said \in Seq(Texts)
  BY DEF VoiceIInv, Typed
<1>2. CASE Send(r, p, said)
  BY <1>1, <1>2
<1>3. ASSUME NEW text \in Texts, Send(r, p, Append(said, text))
      PROVE  \E words \in Seq(Texts) :
               /\ Len(said) <= Len(words) /\ \A i \in 1..Len(said) : words[i] = said[i]
               /\ Send(r, p, words)
  <2>1. PICK words : words = Append(said, text)
    OBVIOUS
  <2>2. /\ words \in Seq(Texts) /\ Len(said) <= Len(words)
        /\ \A i \in 1..Len(said) : words[i] = said[i]
    BY <1>1, <2>1
  <2>3. QED BY <1>3, <2>1, <2>2
<1>4. QED BY <1>2, <1>3

LEMMA StepIInv == ASSUME VoiceIInv, NEW r \in Requests, Step(r) PROVE VoiceIInv'
<1>1. CASE RefuseDisabled(r)
  BY <1>1, RefuseDisabledIInv
<1>2. CASE RefuseUnmapped(r)
  BY <1>2, RefuseUnmappedIInv
<1>3. ASSUME NEW marked \in BOOLEAN,
             \/ OpenCall(r, marked) \/ ReuseReply(r, marked)
             \/ RefuseTurn(r, marked) \/ BeginTurn(r, marked)
             \/ \E complete \in BOOLEAN : Answer(r, complete, marked)
      PROVE  VoiceIInv'
  BY <1>3, OpenCallIInv, ReuseReplyIInv, RefuseTurnIInv, BeginTurnIInv, AnswerIInv
<1>4. ASSUME NEW speaks \in BOOLEAN,
             \/ \E ok \in BOOLEAN : RunTool(r, speaks, ok) \/ BookTool(r, speaks, ok)
             \/ FindTransfer(r, speaks) \/ RefuseTransfer(r, speaks)
             \/ TransferAccepted(r, speaks) \/ TransferForgotten(r, speaks)
             \/ FailTurn(r, speaks)
      PROVE  VoiceIInv'
  BY <1>4, ToolsIInv, TransfersIInv, FailTurnIInv
<1>5. CASE Commit(r)
  BY <1>5, CommitIInv
<1>6. QED BY <1>1, <1>2, <1>3, <1>4, <1>5 DEF Step

LEMMA NextVoiceIInv == VoiceIInv /\ [Next]_vars => VoiceIInv'
<1> SUFFICES ASSUME VoiceIInv, [Next]_vars PROVE VoiceIInv'
  OBVIOUS
<1>1. ASSUME NEW r \in Requests, NEW p \in Processes,
             \/ Send(r, p, said)
             \/ \E text \in Texts : Send(r, p, Append(said, text))
      PROVE  VoiceIInv'
  BY <1>1, SaidGrows, SendIInv
<1>2. ASSUME NEW r \in Requests, OutageBreaks(r) PROVE VoiceIInv'
  BY <1>2, OutageBreaksIInv
<1>3. CASE \/ \E r \in Requests : RollBack(r) \/ Abandon(r)
           \/ \E p \in Processes : Crash(p)
  BY <1>3, UndoneIInv
<1>4. ASSUME NEW state \in {"on", "off", "unmapped"}, SetTenant(state) PROVE VoiceIInv'
  BY <1>4, SetTenantIInv
<1>5. ASSUME NEW p \in Processes, Report(p) PROVE VoiceIInv'
  BY <1>5, ReportIInv
<1>6. ASSUME NEW r \in Requests, Step(r) PROVE VoiceIInv'
  BY <1>6, StepIInv
<1>7. CASE UNCHANGED vars
  <2>1. /\ lock' = lock /\ req' = req /\ failures' = failures /\ moves' = moves
        /\ onWire' = onWire /\ instructed' = instructed /\ unled' = unled /\ Frame
    BY <1>7 DEF vars, settled, history, wire, database, Frame
  <2>2. Typed' /\ Quiet' /\ LockHeld' /\ Arrivals' /\ Overtaken'
    BY <2>1 DEF Frame, VoiceIInv, Typed, Quiet, LockHeld, Arrivals, Overtaken, IsCurrent
  <2>3. Holders' /\ Wire' /\ Written' /\ MoveKnown'
    BY <2>1 DEF Frame, VoiceIInv, Holders, Holder, Fits, LastAnswered, IsAlarming, Wire,
                Written, OlderWordsOnlyFromAnotherProcess, MoveKnown
  <2>4. QED BY <2>2, <2>3 DEF VoiceIInv
<1>8. QED
  BY <1>1, <1>2, <1>3, <1>4, <1>5, <1>6, <1>7 DEF Next, Environment

-----------------------------------------------------------------------------
(* What follows.                                                           *)

\* Whoever has spoken or moved the call has the lock.
LEMMA SpeakerHolds ==
  ASSUME VoiceIInv, NEW r \in Requests, req[r].out # {} \/ req[r].moved
  PROVE  Holder(req[r])
<1>1. Inside(req[r])
  BY DEF VoiceIInv, Typed, Quiet, Inside, Open, Idle, States, Phases
<1>2. QED BY <1>1 DEF VoiceIInv, Holders

LEMMA MembersMakeSeq ==
  ASSUME NEW A, NEW S, NEW t \in Seq(A), \A i \in 1..Len(t) : t[i] \in S
  PROVE  t \in Seq(S)
OBVIOUS

LEMMA VoiceIInvImplies == VoiceIInv => VoiceInv /\ NoticeLeadsWords /\ AlarmedCallerInstructed
<1> SUFFICES ASSUME VoiceIInv PROVE VoiceInv /\ NoticeLeadsWords /\ AlarmedCallerInstructed
  OBVIOUS
<1>1. TypeOK
  <2>1. transcript \in Seq([said : DOMAIN said, proc : Processes, led : BOOLEAN])
    <3>1. transcript \in Seq(Entries) /\ said \in Seq(Texts)
      BY DEF VoiceIInv, Typed
    <3>2. \A i \in 1..Len(transcript) : transcript[i] \in Entries
      BY <3>1
    <3>3. \A i \in 1..Len(transcript) : transcript[i].said <= Len(said)
      BY <3>1 DEF VoiceIInv, Arrivals
    <3>4. \A i \in 1..Len(transcript) :
            transcript[i] \in [said : DOMAIN said, proc : Processes, led : BOOLEAN]
      <4>1. DOMAIN said = 1..Len(said) /\ Len(said) \in Nat
        BY <3>1
      <4>2. \A i \in 1..Len(transcript) :
              transcript[i].said \in 1..MaxSaid /\ transcript[i].said <= Len(said)
        BY <3>2, <3>3 DEF Entries
      <4>3. \A i \in 1..Len(transcript) : transcript[i].said \in DOMAIN said
        BY <4>1, <4>2, Bounds
      <4>4. ASSUME NEW S, NEW e \in Entries, e.said \in S
            PROVE  e \in [said : S, proc : Processes, led : BOOLEAN]
        <5>1. /\ e = [said |-> e.said, proc |-> e.proc, led |-> e.led]
              /\ e.proc \in Processes /\ e.led \in BOOLEAN
          BY <4>4 DEF Entries
        <5>2. QED BY <4>4, <5>1
      <4>5. QED
        <5>1. ASSUME NEW i \in 1..Len(transcript)
              PROVE  transcript[i] \in [said : DOMAIN said, proc : Processes, led : BOOLEAN]
          BY <3>2, <4>3, <4>4
        <5>2. QED BY <5>1
    <3>5. QED BY <3>1, <3>4, MembersMakeSeq
  <2>2. ASSUME NEW r \in Requests
        PROVE  /\ req[r].phase \in {"idle", "waiting", "asking", "outage", "closing"}
               /\ req[r].said \in 0..Len(said)
               /\ req[r].round \in 0..MaxRounds
               /\ req[r].out \subseteq Frames
               /\ req[r].phase \notin {"idle", "waiting"} <=> lock = r
    <3>1. req[r] \in States /\ Len(said) \in Nat
      BY DEF VoiceIInv, Typed
    <3>2. req[r].said <= Len(said)
      BY <3>1 DEF VoiceIInv, Arrivals, Quiet, Idle
    <3>3. req[r].phase \notin {"idle", "waiting"} <=> lock = r
      BY <3>1 DEF VoiceIInv, LockHeld, Inside, States, Phases
    <3>4. QED BY <3>1, <3>2, <3>3, Bounds DEF States, Phases
  <2>3. QED BY <2>1, <2>2 DEF VoiceIInv, Typed, TypeOK, Rows, MoveCounts
<1>2. StaleReplyOnlyIfOvertaken /\ StreamedMoveNotHungUp /\ AlarmedCallerInstructed
  BY SpeakerHolds
     DEF StaleReplyOnlyIfOvertaken, StreamedMoveNotHungUp, AlarmedCallerInstructed, Holder
<1>3. MovedAgainOnlyIfLost
  BY DEF VoiceIInv, MoveKnown, MovedAgainOnlyIfLost, Typed, MoveCounts
<1>4. OlderWordsOnlyFromAnotherProcess /\ NoticeLeadsWords
  BY DEF VoiceIInv, Written, Wire, NoticeLeadsWords
<1>5. QED BY <1>1, <1>2, <1>3, <1>4 DEF VoiceInv

\* The inductive invariant holds of every behaviour.
THEOREM VoiceInductive == Spec => []VoiceIInv
<1>1. QED BY InitVoiceIInv, NextVoiceIInv, PTL DEF Spec

\* The types, and the order of what is said on a call: a stale reply only to who
\* was overtaken, older words after newer ones only from another process, no
\* hanging up on a moved call, no second move but for a lost record
\* (VoiceService, TranscriptSupersession, CallTransferService).
THEOREM CallInOrder == Spec => []VoiceInv
<1>1. QED BY VoiceInductive, VoiceIInvImplies, PTL

\* No word of the model's reaches a wire before the caller notice has
\* (VoiceService._take_disclosure).
THEOREM NoticeFirst == Spec => []NoticeLeadsWords
<1>1. QED BY VoiceInductive, VoiceIInvImplies, PTL

\* Whoever answers words that describe a hazard does so on a call whose wire has
\* carried the safety instruction (AIBrainService._prepare_turn).
THEOREM InstructionFirst == Spec => []AlarmedCallerInstructed
<1>1. QED BY VoiceInductive, VoiceIInvImplies, PTL

-----------------------------------------------------------------------------
(* The transcript.                                                         *)

LEMMA WordsAreTexts ==
  ASSUME VoiceIInv
  PROVE  /\ Words \in Seq(Texts) /\ Len(Words) = Len(transcript)
         /\ DOMAIN Words = 1..Len(transcript) /\ Len(transcript) \in Nat
         /\ \A i \in 1..Len(transcript) : /\ transcript[i].said \in 1..Len(said)
                                          /\ Words[i] = said[transcript[i].said]
<1>1. /\ transcript \in Seq(Entries) /\ said \in Seq(Texts)
      /\ Len(transcript) \in Nat /\ DOMAIN transcript = 1..Len(transcript)
  BY DEF VoiceIInv, Typed
<1>2. \A i \in 1..Len(transcript) : transcript[i].said \in 1..Len(said)
  <2>1. \A i \in 1..Len(transcript) : transcript[i] \in Entries
    BY <1>1
  <2>2. \A i \in 1..Len(transcript) : transcript[i].said \in 1..MaxSaid
    BY <2>1 DEF Entries
  <2>3. \A i \in 1..Len(transcript) : transcript[i].said <= Len(said)
    BY <1>1 DEF VoiceIInv, Arrivals
  <2>4. QED BY <1>1, <2>2, <2>3, Bounds
<1>3. Words = [i \in 1..Len(transcript) |-> said[transcript[i].said]]
  BY <1>1 DEF Words
<1>4. \A i \in 1..Len(transcript) : said[transcript[i].said] \in Texts
  BY <1>1, <1>2
<1>5. QED BY <1>1, <1>2, <1>3, <1>4

LEMMA WordsKept ==
  ASSUME VoiceIInv, transcript' = transcript,
         \A i \in 1..Len(said) : said'[i] = said[i]
  PROVE  Words' = Words
BY WordsAreTexts DEF Words

LEMMA CommitAnswers ==
  ASSUME VoiceIInv, VoiceIInv', NEW r \in Requests, Commit(r)
  PROVE  Promised!Next \/ UNCHANGED <<Words, over>>
<1>1. PICK w : w = req[r].w
  OBVIOUS
<1>2. /\ transcript' = IF w.turn = 0 THEN transcript
                       ELSE Append(transcript, [said |-> w.turn, proc |-> req[r].proc,
                                                led |-> w.led])
      /\ over' = (over \/ w.ends) /\ said' = said /\ req[r].phase = "closing"
  BY <1>1 DEF Commit
<1>3. Holder(req[r])
  BY <1>2 DEF VoiceIInv, Holders, Inside
<1>4. over \in BOOLEAN /\ over' \in BOOLEAN /\ said \in Seq(Texts)
  BY DEF VoiceIInv, Typed
<1>5. CASE w.turn = 0
  BY <1>1, <1>2, <1>3, <1>4, <1>5, WordsKept DEF Holder
<1>6. CASE w.turn # 0
  <2>1. /\ w.turn = req[r].said /\ w.turn \in 1..Len(said) /\ ~over
        /\ transcript # <<>> => said[LastAnswered] # said[w.turn]
    BY <1>1, <1>3, <1>6 DEF Holder, Fits
  <2>2. PICK text \in Texts : text = said[w.turn]
    BY <1>4, <2>1
  <2>3. PICK e : /\ transcript' = Append(transcript, e) /\ e.said = w.turn
    BY <1>2, <1>6
  <2>4. Words' = Append(Words, text)
    <3>1. /\ Len(transcript') = Len(transcript) + 1
          /\ \A i \in 1..Len(transcript) : transcript'[i] = transcript[i]
          /\ transcript'[Len(transcript) + 1] = e
      BY <2>3 DEF VoiceIInv, Typed
    <3>2. /\ Words \in Seq(Texts) /\ Len(Words) = Len(transcript)
          /\ \A i \in 1..Len(transcript) : Words[i] = said[transcript[i].said]
      BY WordsAreTexts
    <3>3. /\ Words' \in Seq(Texts) /\ Len(Words') = Len(Words) + 1
          /\ \A i \in 1..Len(transcript') : Words'[i] = said[transcript'[i].said]
      <4>1. DOMAIN transcript' = 1..Len(transcript') /\ Len(transcript') \in Nat
        BY DEF VoiceIInv, Typed
      <4>2. Words' = [i \in 1..Len(transcript') |-> said[transcript'[i].said]]
        BY <1>2, <4>1 DEF Words
      <4>3. \A i \in 1..Len(transcript') : said[transcript'[i].said] \in Texts
        <5>1. \A i \in 1..Len(transcript') :
                transcript'[i] \in Entries /\ transcript'[i].said <= Len(said')
          BY <4>1 DEF VoiceIInv, Typed, Arrivals
        <5>2. QED BY <1>2, <1>4, <5>1, Bounds DEF Entries
      <4>4. QED BY <3>1, <3>2, <4>1, <4>2, <4>3
    <3>4. \A i \in 1..Len(Words') : Words'[i] = Append(Words, text)[i]
      BY <2>2, <2>3, <3>1, <3>2, <3>3
    <3>5. QED BY <3>2, <3>3, <3>4
  <2>5. Words # <<>> => Words[Len(Words)] # text
    BY <2>1, <2>2, WordsAreTexts DEF LastAnswered
  <2>6. Promised!Answer(text)
    BY <1>4, <2>1, <2>4, <2>5 DEF Promised!Answer
  <2>7. QED BY <2>6 DEF Promised!Next
<1>7. QED BY <1>5, <1>6

\* What every other step leaves of the transcript, and of what has been said.
LEMMA OthersKeepTranscript ==
  ASSUME VoiceIInv, [Next]_vars, \A r \in Requests : ~Commit(r)
  PROVE  /\ transcript' = transcript /\ over' = over
         /\ \A i \in 1..Len(said) : said'[i] = said[i]
<1>1. ASSUME NEW r \in Requests, NEW p \in Processes,
             \/ Send(r, p, said)
             \/ \E text \in Texts : Send(r, p, Append(said, text))
      PROVE  /\ transcript' = transcript /\ over' = over
             /\ \A i \in 1..Len(said) : said'[i] = said[i]
  <2>1. PICK words \in Seq(Texts) : /\ \A i \in 1..Len(said) : words[i] = said[i]
                                    /\ Send(r, p, words)
    BY <1>1, SaidGrows
  <2>2. QED BY <2>1 DEF Send, database
<1>2. CASE \/ \E r \in Requests : OutageBreaks(r) \/ RollBack(r) \/ Abandon(r)
           \/ \E state \in {"on", "off", "unmapped"} \ {tenant} : SetTenant(state)
           \/ \E p \in Processes : Crash(p) \/ Report(p)
  BY <1>2 DEF OutageBreaks, RollBack, Abandon, SetTenant, Crash, Report, Undo, settled,
              database
<1>3. ASSUME NEW r \in Requests, Step(r)
      PROVE  transcript' = transcript /\ over' = over /\ said' = said
  <2>1. settled' = settled
    BY <1>3 DEF Step, RefuseDisabled, RefuseUnmapped, OpenCall, ReuseReply, RefuseTurn,
                BeginTurn, Answer, RunTool, BookTool, FindTransfer, RefuseTransfer,
                TransferAccepted, TransferForgotten, FailTurn
  <2>2. QED BY <2>1 DEF settled, database
<1>4. CASE UNCHANGED vars
  BY <1>4 DEF vars, settled, database
<1>5. QED BY <1>1, <1>2, <1>3, <1>4 DEF Next, Environment

\* The transcript of a call is the one CallTranscript promises: turns appended
\* one at a time, no words answered twice running, and none after the end
\* (PostgresAdvisoryCallLock, VoiceService._answer_locked).
THEOREM TranscriptRefinement == Spec => ImplementsTranscript
<1>1. Init => Promised!Init
  BY DEF Init, Promised!Init, Words
<1>2. VoiceIInv /\ VoiceIInv' /\ [Next]_vars => [Promised!Next]_<<Words, over>>
  <2> SUFFICES ASSUME VoiceIInv, VoiceIInv', [Next]_vars
               PROVE  Promised!Next \/ UNCHANGED <<Words, over>>
    OBVIOUS
  <2>1. CASE \E r \in Requests : Commit(r)
    BY <2>1, CommitAnswers
  <2>2. CASE \A r \in Requests : ~Commit(r)
    BY <2>2, OthersKeepTranscript, WordsKept
  <2>3. QED BY <2>1, <2>2
<1>3. QED BY <1>1, <1>2, VoiceInductive, PTL DEF Spec, ImplementsTranscript, Promised!Spec

-----------------------------------------------------------------------------
(* One turn of the AI provider.                                            *)

CallRows == [name : Tools, arguments : {"empty", "cut", "whole"}] \union {NoCall}
ResultRows == [name : Tools, gave : {"success", "failure"}] \union {NoResult}
ResponseRows ==
  [pieces : 0..MaxPieces, content : Nat, words : Nat, held : Nat,
   calls : [CallSlots -> CallRows]]

ReplyShape ==
  /\ live \in BOOLEAN /\ now \in Rounds
  /\ stage \in {"asking", "receiving", "acting", "ending", "done", "failed", "abandoned"}
  /\ response \in ResponseRows
  /\ response.held <= response.words /\ response.words <= response.content
  /\ response.content <= response.pieces
  /\ results \in [Rounds -> [CallSlots -> ResultRows]]
  /\ heard \in [Rounds -> 0..MaxPieces]
  /\ told \in [Rounds -> [words : 0..MaxPieces, calls : SUBSET CallSlots]]
  /\ flags \in [failed : BOOLEAN, unbooked : BOOLEAN, moved : BOOLEAN]
  /\ usage \in [made : Nat, reported : Nat, pending : BOOLEAN]
  /\ reply \in [given : BOOLEAN, words : Nat, unbooked : BOOLEAN, moved : BOOLEAN]

\* Where the turn may be by what the round has had.
StageOfRound ==
  /\ stage = "asking" =>
       /\ response.words = 0 /\ response.held = 0 /\ response.content = 0
       /\ Asked = {}
  /\ stage = "acting" => Run(now) \subseteq Asked /\ now < ToolRounds
  /\ stage \in {"asking", "receiving", "ending", "done"} => Run(now) = {}

\* What was heard of this round is what was not held of it, and nothing of it while
\* a tool of an earlier one had failed; nothing is heard or run of later ones.
HeardOfRound ==
  /\ stage \in {"asking", "receiving", "acting", "ending"} =>
       heard[now] = response.words - response.held
  /\ flags.failed /\ stage # "done" => heard[now] = 0
  /\ \A r \in Rounds : r > now => heard[r] = 0 /\ Run(r) = {}

\* Of the rounds before this one, the model is told what was heard and run.
EarlierTold ==
  \A r \in Rounds : r < now => told[r].words = heard[r] /\ told[r].calls = Run(r)

EarlierUnheard ==
  \A r \in Rounds :
    r < now /\ Run(r) # {} /\ (\E q \in 0..r - 1 : Gave(q, "failure", Tools)) => heard[r] = 0

\* A booking of the rounds before round n failed, and none succeeded since.
UnbookedBefore(n) ==
  \E r \in Rounds :
    /\ r < n /\ Gave(r, "failure", {Books})
    /\ \A q \in Rounds : r <= q /\ q < n => ~Gave(q, "success", {Books})

FlagsOfEarlier ==
  /\ flags.failed <=> \E r \in Rounds : r < now /\ Gave(r, "failure", Tools)
  /\ flags.unbooked <=> UnbookedBefore(now)
  /\ flags.moved <=> \E r \in Rounds : r < now /\ Gave(r, "success", {Moves})

\* Of a reply, all the words were heard, and what it says of the turn is as the
\* rounds were.
ReplyOfTurn ==
  /\ reply.given <=> stage = "done"
  /\ reply.given => /\ heard[now] = reply.words
                    /\ reply.unbooked = flags.unbooked /\ reply.moved = flags.moved

\* One request at most is still to be reported.
Reports ==
  /\ usage.pending <=> stage = "receiving" /\ live
  /\ usage.made = usage.reported + (IF stage = "receiving" THEN 1 ELSE 0)
       \/ (stage = "abandoned" /\ ~live)

ReplyIInv ==
  /\ ReplyShape /\ StageOfRound /\ HeardOfRound /\ EarlierTold /\ EarlierUnheard
  /\ FlagsOfEarlier /\ ReplyOfTurn /\ Reports

LEMMA RoundsAreNumbers ==
  /\ ToolRounds \in Nat /\ MaxPieces \in Nat /\ Rounds = 0..ToolRounds
  /\ Rounds \subseteq Nat /\ 0 \in Rounds
  BY ReplyAssumption DEF Rounds

LEMMA NoResponseShape ==
  /\ NoResponse \in ResponseRows /\ NoResponse.pieces = 0 /\ NoResponse.content = 0
  /\ NoResponse.words = 0 /\ NoResponse.held = 0
  /\ \A i \in CallSlots : NoResponse.calls[i] = NoCall
<1>1. NoResponse.calls = [i \in CallSlots |-> NoCall]
  BY DEF NoResponse
<1>2. NoCall \in CallRows /\ 0 \in 0..MaxPieces
  BY RoundsAreNumbers DEF CallRows
<1>3. NoResponse \in ResponseRows
  BY <1>2 DEF NoResponse, ResponseRows
<1> QED
  BY <1>1, <1>3 DEF NoResponse

\* A round that has run nothing gave nothing.
LEMMA NothingGiven ==
  \A r, result, tools : Run(r) = {} => ~Gave(r, result, tools)
  BY DEF Gave

LEMMA ReplyStart ==
  ASSUME ReplyInit
  PROVE  ReplyIInv
<1>1. \A r \in Rounds : Run(r) = {}
  BY DEF ReplyInit, Run
<1>2. now = 0 /\ stage = "asking" /\ response = NoResponse /\ heard = [r \in Rounds |-> 0]
  BY DEF ReplyInit
<1>3. ReplyShape
  <2>1. /\ live \in BOOLEAN /\ now \in Rounds
        /\ heard \in [Rounds -> 0..MaxPieces]
        /\ response \in ResponseRows
        /\ response.held <= response.words /\ response.words <= response.content
        /\ response.content <= response.pieces
    BY <1>2, RoundsAreNumbers, NoResponseShape DEF ReplyInit
  <2>2. results \in [Rounds -> [CallSlots -> ResultRows]]
    BY DEF ReplyInit, ResultRows
  <2>3. told \in [Rounds -> [words : 0..MaxPieces, calls : SUBSET CallSlots]]
    BY RoundsAreNumbers DEF ReplyInit
  <2>4. /\ flags \in [failed : BOOLEAN, unbooked : BOOLEAN, moved : BOOLEAN]
        /\ usage \in [made : Nat, reported : Nat, pending : BOOLEAN]
        /\ reply \in [given : BOOLEAN, words : Nat, unbooked : BOOLEAN, moved : BOOLEAN]
    BY DEF ReplyInit, NoReply
  <2> QED
    BY <1>2, <2>1, <2>2, <2>3, <2>4 DEF ReplyShape
<1>4. StageOfRound
  BY <1>1, <1>2, RoundsAreNumbers, NoResponseShape DEF StageOfRound, Asked
<1>5. HeardOfRound
  BY <1>1, <1>2, RoundsAreNumbers, NoResponseShape DEF HeardOfRound
<1>6. EarlierTold /\ EarlierUnheard
  BY <1>2, RoundsAreNumbers DEF EarlierTold, EarlierUnheard
<1>7. FlagsOfEarlier
  BY <1>2, RoundsAreNumbers DEF FlagsOfEarlier, ReplyInit, UnbookedBefore
<1>8. ReplyOfTurn /\ Reports
  BY DEF ReplyOfTurn, Reports, ReplyInit, NoReply
<1> QED
  BY <1>3, <1>4, <1>5, <1>6, <1>7, <1>8 DEF ReplyIInv

-----------------------------------------------------------------------------
(* A request, and how it ends.                                             *)

\* A step within a round leaves the earlier ones as they were told.
LEMMA EarlierStay ==
  ASSUME ReplyIInv, UNCHANGED <<now, told, flags>>,
         \A r \in Rounds : r < now => results'[r] = results[r] /\ heard'[r] = heard[r]
  PROVE  EarlierTold' /\ EarlierUnheard' /\ FlagsOfEarlier'
<1>1. now' = now /\ told' = told /\ flags' = flags
  OBVIOUS
<1>2. Rounds = 0..ToolRounds /\ ToolRounds \in Nat /\ now \in Nat
  BY RoundsAreNumbers DEF ReplyIInv, ReplyShape
<1>3. ASSUME NEW r \in Rounds, r < now
      PROVE  /\ Run(r)' = Run(r)
             /\ \A result, tools : Gave(r, result, tools)' <=> Gave(r, result, tools)
  BY <1>3 DEF Run, Gave
<1>4. EarlierTold'
  BY <1>1, <1>3 DEF ReplyIInv, EarlierTold
<1>5. EarlierUnheard'
  <2> SUFFICES ASSUME NEW r \in Rounds, r < now, Run(r)' # {},
                      NEW q \in 0..r - 1, Gave(q, "failure", Tools)'
               PROVE  heard'[r] = 0
    BY <1>1 DEF EarlierUnheard
  <2>1. q \in Rounds /\ q < now
    BY <1>2
  <2>2. Run(r) # {} /\ Gave(q, "failure", Tools)
    BY <1>3, <2>1
  <2>3. heard[r] = 0
    BY <2>2 DEF ReplyIInv, EarlierUnheard
  <2> QED
    BY <2>3
<1>6. FlagsOfEarlier'
  <2>1. UnbookedBefore(now)' <=> UnbookedBefore(now)
    BY <1>1, <1>2, <1>3 DEF UnbookedBefore
  <2> QED
    BY <1>1, <1>3, <2>1 DEF ReplyIInv, FlagsOfEarlier
<1> QED
  BY <1>4, <1>5, <1>6

\* What the requests and what the end of the turn have in common: the stage moves,
\* and no word or tool.
LEMMA StageMoves ==
  ASSUME ReplyIInv, UNCHANGED <<live, now, response, results, heard, told, flags, reply>>,
         usage' \in [made : Nat, reported : Nat, pending : BOOLEAN],
         stage # "done",
         \/ stage = "asking" /\ stage' = "receiving"
         \/ stage = "receiving" /\ stage' = "acting" /\ now < ToolRounds
         \/ stage = "receiving" /\ stage' = "ending"
         \/ stage' \in {"failed", "abandoned"},
         Reports'
  PROVE  ReplyIInv'
<1>1. /\ live' = live /\ now' = now /\ response' = response /\ results' = results
      /\ heard' = heard /\ told' = told /\ flags' = flags /\ reply' = reply
  OBVIOUS
<1>2. ReplyShape'
  BY <1>1 DEF ReplyIInv, ReplyShape
<1>3. StageOfRound'
  BY <1>1 DEF ReplyIInv, StageOfRound, Run, Asked
<1>4. HeardOfRound'
  BY <1>1 DEF ReplyIInv, HeardOfRound, StageOfRound, Run
<1>5. EarlierTold' /\ EarlierUnheard' /\ FlagsOfEarlier'
  BY <1>1, EarlierStay
<1>6. ReplyOfTurn'
  BY <1>1 DEF ReplyIInv, ReplyOfTurn
<1> QED
  BY <1>2, <1>3, <1>4, <1>5, <1>6 DEF ReplyIInv

LEMMA UsageCounts ==
  ASSUME ReplyIInv
  PROVE  /\ usage \in [made : Nat, reported : Nat, pending : BOOLEAN]
         /\ usage.made \in Nat /\ usage.reported \in Nat /\ usage.pending \in BOOLEAN
         /\ live \in BOOLEAN
  BY DEF ReplyIInv, ReplyShape

LEMMA RequestKeeps ==
  ASSUME ReplyIInv, Request
  PROVE  ReplyIInv'
<1> PICK u : u = usage
  OBVIOUS
<1>1. /\ u \in [made : Nat, reported : Nat, pending : BOOLEAN] /\ live \in BOOLEAN
      /\ u.made = u.reported
  BY UsageCounts DEF ReplyIInv, Reports, Request
<1>2. usage' = [u EXCEPT !.made = u.made + 1, !.pending = live]
  BY DEF Request
<1> PICK n : n = [u EXCEPT !.made = u.made + 1, !.pending = live]
  OBVIOUS
<1>3. u.made \in Nat /\ u.made + 1 \in Nat
  BY <1>1
<1>4. n \in [made : Nat, reported : Nat, pending : BOOLEAN]
  BY <1>1, <1>3
<1>5. n.made = u.made + 1 /\ n.reported = u.reported /\ n.pending = live
  BY <1>1
<1>6. n.made = n.reported + 1 /\ (n.pending <=> live)
  BY <1>1, <1>5
<1>7. Reports'
  BY <1>2, <1>6 DEF Reports, Request
<1> QED
  BY <1>2, <1>4, <1>7, StageMoves DEF Request

\* The round's request is reported once it is over.
LEMMA ReportCounts ==
  ASSUME ReplyIInv, stage = "receiving",
         usage' = [usage EXCEPT !.reported = @ + 1, !.pending = FALSE]
  PROVE  /\ usage' \in [made : Nat, reported : Nat, pending : BOOLEAN]
         /\ usage'.made = usage'.reported /\ ~usage'.pending
<1> PICK u : u = usage
  OBVIOUS
<1>1. /\ u \in [made : Nat, reported : Nat, pending : BOOLEAN]
      /\ u.made = u.reported + 1
  BY UsageCounts DEF ReplyIInv, Reports
<1>2. usage' = [u EXCEPT !.reported = u.reported + 1, !.pending = FALSE]
  OBVIOUS
<1> QED
  BY <1>1, <1>2

LEMMA EndResponseKeeps ==
  ASSUME ReplyIInv, EndResponse
  PROVE  ReplyIInv'
<1>1. /\ usage' \in [made : Nat, reported : Nat, pending : BOOLEAN]
      /\ usage'.made = usage'.reported /\ ~usage'.pending
  BY ReportCounts DEF EndResponse
<1>a. stage' # "receiving" /\ usage'.reported \in Nat
  BY <1>1 DEF EndResponse
<1>2. Reports'
  BY <1>1, <1>a DEF Reports
<1>3. stage = "receiving"
        /\ (stage' = "ending" \/ (stage' = "acting" /\ now < ToolRounds))
  BY DEF EndResponse, AllowTools
<1> QED
  BY <1>1, <1>2, <1>3, StageMoves DEF EndResponse

LEMMA ProviderFailsKeeps ==
  ASSUME ReplyIInv, ProviderFails
  PROVE  ReplyIInv'
<1>1. /\ usage' \in [made : Nat, reported : Nat, pending : BOOLEAN]
      /\ usage'.made = usage'.reported /\ ~usage'.pending
  BY ReportCounts DEF ProviderFails
<1>a. stage' # "receiving" /\ usage'.reported \in Nat
  BY <1>1 DEF ProviderFails
<1>2. Reports'
  BY <1>1, <1>a DEF Reports
<1> QED
  BY <1>1, <1>2, StageMoves DEF ProviderFails

LEMMA NoDocumentKeeps ==
  ASSUME ReplyIInv, NoDocument
  PROVE  ReplyIInv'
<1>1. Reports'
  BY DEF Reports, NoDocument, ReplyIInv
<1> QED
  BY <1>1, UsageCounts, StageMoves DEF NoDocument

LEMMA AbandonReplyKeeps ==
  ASSUME ReplyIInv, AbandonReply
  PROVE  ReplyIInv'
<1> PICK u : u = usage
  OBVIOUS
<1>1. /\ u \in [made : Nat, reported : Nat, pending : BOOLEAN]
      /\ u.pending <=> stage = "receiving" /\ live
      /\ u.made = u.reported + (IF stage = "receiving" THEN 1 ELSE 0)
      /\ live \in BOOLEAN
  BY UsageCounts DEF ReplyIInv, Reports, AbandonReply
<1>2. usage' = [u EXCEPT !.reported = u.reported + (IF u.pending THEN 1 ELSE 0),
                         !.pending = FALSE]
  BY DEF AbandonReply
<1> PICK more : more = IF u.pending THEN 1 ELSE 0
  OBVIOUS
<1>3. /\ more \in Nat /\ u.reported \in Nat /\ u.reported + more \in Nat
      /\ u.made = u.reported + more \/ ~live
  BY <1>1
<1> PICK n : n = [u EXCEPT !.reported = u.reported + more, !.pending = FALSE]
  OBVIOUS
<1>4. n \in [made : Nat, reported : Nat, pending : BOOLEAN]
  BY <1>1, <1>3
<1>5. n.made = u.made /\ n.reported = u.reported + more /\ n.pending = FALSE
  BY <1>1
<1>6. (n.made = n.reported \/ ~live) /\ ~n.pending
  BY <1>3, <1>5
<1>7. n.made \in Nat /\ n.reported \in Nat
  BY <1>4
<1>8. usage' = n
  BY <1>2
<1>9. Reports'
  BY <1>6, <1>7, <1>8 DEF Reports, AbandonReply
<1> QED
  BY <1>4, <1>8, <1>9, StageMoves DEF AbandonReply

-----------------------------------------------------------------------------
(* What a chunk brings.                                                    *)

\* A chunk of a response leaves the round's tools and all else as they were.
LEMMA PieceKeeps ==
  ASSUME ReplyIInv, Piece, response' \in ResponseRows,
         response'.held <= response'.words, response'.words <= response'.content,
         response'.content <= response'.pieces,
         heard' \in [Rounds -> 0..MaxPieces],
         heard'[now] = response'.words - response'.held,
         flags.failed => heard'[now] = 0,
         \A r \in Rounds : r # now => heard'[r] = heard[r]
  PROVE  ReplyIInv'
<1>1. /\ stage = "receiving" /\ live' = live /\ stage' = stage /\ now' = now
      /\ results' = results /\ told' = told /\ flags' = flags /\ usage' = usage
      /\ reply' = reply
  BY DEF Piece
<1>2. ReplyShape'
  BY <1>1 DEF ReplyIInv, ReplyShape
<1>3. StageOfRound'
  BY <1>1 DEF ReplyIInv, StageOfRound, Run
<1>4. now \in Nat /\ Rounds \subseteq Nat
  BY RoundsAreNumbers DEF ReplyIInv, ReplyShape
<1>5. HeardOfRound'
  <2>1. \A r \in Rounds : r > now => heard'[r] = 0 /\ Run(r)' = {}
    BY <1>1, <1>4 DEF ReplyIInv, HeardOfRound, Run
  <2> QED
    BY <1>1, <2>1 DEF HeardOfRound
<1>6. EarlierTold' /\ EarlierUnheard' /\ FlagsOfEarlier'
  BY <1>1, <1>4, EarlierStay
<1>7. ReplyOfTurn' /\ Reports'
  BY <1>1 DEF ReplyIInv, ReplyOfTurn, Reports
<1> QED
  BY <1>2, <1>3, <1>5, <1>6, <1>7 DEF ReplyIInv

LEMMA ContentKeeps ==
  ASSUME ReplyIInv, NEW spoken \in BOOLEAN, Content(spoken)
  PROVE  ReplyIInv'
<1> PICK p : p = response
  OBVIOUS
<1> DEFINE more == Asked = {}
           holds == more /\ spoken /\ (~live \/ flags.failed)
           c == IF more THEN 1 ELSE 0
           s == IF more /\ spoken THEN 1 ELSE 0
           h == IF holds THEN 1 ELSE 0
<1>1. /\ p \in ResponseRows /\ p.held <= p.words /\ p.words <= p.content
      /\ p.content <= p.pieces /\ p.pieces < MaxPieces
      /\ heard \in [Rounds -> 0..MaxPieces] /\ now \in Rounds
      /\ heard[now] = p.words - p.held
      /\ flags.failed => heard[now] = 0
      /\ Piece /\ MaxPieces \in Nat
  BY RoundsAreNumbers DEF Content, Piece, ReplyIInv, ReplyShape, HeardOfRound
<1>2. response' = [p EXCEPT !.pieces = p.pieces + 1, !.content = p.content + c,
                            !.words = p.words + s, !.held = p.held + h]
  BY DEF Content
<1>3. /\ c \in 0..1 /\ s \in 0..1 /\ h \in 0..1 /\ h <= s /\ s <= c
      /\ flags.failed => h = s
  OBVIOUS
<1>4. heard' = IF more /\ spoken /\ ~holds THEN [heard EXCEPT ![now] = heard[now] + 1]
               ELSE heard
  BY DEF Content
<1>5. heard' = [heard EXCEPT ![now] = heard[now] + (s - h)]
  <2>1. CASE more /\ spoken /\ ~holds
    BY <1>4, <2>1
  <2>2. CASE ~(more /\ spoken /\ ~holds)
    <3>1. s - h = 0
      BY <2>2
    <3>2. heard[now] \in Nat
      BY <1>1
    <3>3. heard[now] + (s - h) = heard[now] /\ heard' = heard
      BY <1>4, <2>2, <3>1, <3>2
    <3> HIDE DEF s, h
    <3> QED
      BY <1>1, <3>3
  <2> QED
    BY <2>1, <2>2
<1> HIDE DEF c, s, h
<1>6. /\ p.pieces \in Nat /\ p.content \in Nat /\ p.words \in Nat /\ p.held \in Nat
  BY <1>1 DEF ResponseRows
<1>a. /\ p.pieces + 1 \in 0..MaxPieces /\ p.content + c \in Nat
      /\ p.words + s \in Nat /\ p.held + h \in Nat
  BY <1>1, <1>3, <1>6
<1>7. /\ response' \in ResponseRows /\ response'.pieces = p.pieces + 1
      /\ response'.content = p.content + c /\ response'.words = p.words + s
      /\ response'.held = p.held + h
  <2>1. p \in ResponseRows
    BY <1>1
  <2> QED
    BY <2>1, <1>2, <1>a DEF ResponseRows
<1>8. heard[now] + (s - h) \in 0..MaxPieces
  BY <1>1, <1>3, <1>6
<1>9. /\ heard' \in [Rounds -> 0..MaxPieces]
      /\ heard'[now] = heard[now] + (s - h)
      /\ \A r \in Rounds : r # now => heard'[r] = heard[r]
  BY <1>1, <1>5, <1>8
<1>10. /\ response'.held <= response'.words /\ response'.words <= response'.content
       /\ response'.content <= response'.pieces
       /\ heard'[now] = response'.words - response'.held
       /\ flags.failed => heard'[now] = 0
  BY <1>1, <1>3, <1>6, <1>7, <1>9
<1> QED
  BY <1>1, <1>7, <1>9, <1>10, PieceKeeps

LEMMA FragmentKeeps ==
  ASSUME ReplyIInv, NEW i \in CallSlots, NEW name \in Tools,
         NEW arguments \in {"empty", "cut", "whole"},
         Fragment(i, [name |-> name, arguments |-> arguments])
  PROVE  ReplyIInv'
<1> PICK p : p = response
  OBVIOUS
<1> PICK call : call = [name |-> name, arguments |-> arguments]
  OBVIOUS
<1>1. /\ p \in ResponseRows /\ p.held <= p.words /\ p.words <= p.content
      /\ p.content <= p.pieces /\ p.pieces < MaxPieces
      /\ heard \in [Rounds -> 0..MaxPieces] /\ now \in Rounds
      /\ heard[now] = p.words - p.held
      /\ flags.failed => heard[now] = 0
      /\ Piece /\ MaxPieces \in Nat
  BY RoundsAreNumbers DEF Fragment, Piece, ReplyIInv, ReplyShape, HeardOfRound
<1>2. response' = [p EXCEPT !.pieces = p.pieces + 1, !.calls[i] = call] /\ heard' = heard
  BY DEF Fragment
<1>3. call \in CallRows
  BY DEF CallRows
<1>5. p.pieces \in Nat /\ p.content \in Nat
  BY <1>1 DEF ResponseRows
<1>a. p.pieces + 1 \in 0..MaxPieces /\ p \in ResponseRows
  BY <1>1, <1>5
<1>4. /\ response' \in ResponseRows /\ response'.pieces = p.pieces + 1
      /\ response'.content = p.content /\ response'.words = p.words
      /\ response'.held = p.held
  BY <1>a, <1>2, <1>3 DEF ResponseRows
<1> QED
  BY <1>1, <1>2, <1>4, <1>5, PieceKeeps

-----------------------------------------------------------------------------
(* Tools run, and the round ends.                                          *)

LEMMA RunCallKeeps ==
  ASSUME ReplyIInv, NEW i \in CallSlots, NEW ok \in BOOLEAN, RunCall(i, ok)
  PROVE  ReplyIInv'
<1> PICK gave \in {"success", "failure"} : gave = IF ok THEN "success" ELSE "failure"
  OBVIOUS
<1> PICK result : result = [name |-> response.calls[i].name, gave |-> gave]
  OBVIOUS
<1>1. /\ stage = "acting" /\ i \in Asked \ Run(now)
      /\ results' = [results EXCEPT ![now][i] = result]
      /\ live' = live /\ stage' = stage /\ now' = now /\ response' = response
      /\ heard' = heard /\ told' = told /\ flags' = flags /\ usage' = usage
      /\ reply' = reply
  BY DEF RunCall
<1>2. /\ now \in Rounds /\ Rounds \subseteq Nat
      /\ results \in [Rounds -> [CallSlots -> ResultRows]]
      /\ response.calls \in [CallSlots -> CallRows]
  BY RoundsAreNumbers DEF ReplyIInv, ReplyShape, ResponseRows
<1>3. response.calls[i] \in [name : Tools, arguments : {"empty", "cut", "whole"}]
  BY <1>1, <1>2 DEF Asked, CallRows
<1>4. result \in ResultRows
  BY <1>3 DEF ResultRows
<1>5. /\ results' \in [Rounds -> [CallSlots -> ResultRows]]
      /\ \A r \in Rounds : r # now => results'[r] = results[r]
      /\ \A k \in CallSlots : k # i => results'[now][k] = results[now][k]
  BY <1>1, <1>2, <1>4
<1>6. ReplyShape'
  BY <1>1, <1>5 DEF ReplyIInv, ReplyShape
<1>7. StageOfRound'
  <2>1. Run(now)' \subseteq Run(now) \union {i}
    BY <1>1, <1>5 DEF Run
  <2>2. Asked' = Asked
    BY <1>1 DEF Asked
  <2> QED
    BY <1>1, <2>1, <2>2 DEF ReplyIInv, StageOfRound
<1>8. HeardOfRound'
  <2>1. \A r \in Rounds : r > now => Run(r)' = Run(r)
    BY <1>2, <1>5 DEF Run
  <2> QED
    BY <1>1, <2>1 DEF ReplyIInv, HeardOfRound
<1>9. EarlierTold' /\ EarlierUnheard' /\ FlagsOfEarlier'
  <2>1. \A r \in Rounds : r < now => results'[r] = results[r] /\ heard'[r] = heard[r]
    BY <1>1, <1>2, <1>5
  <2> QED
    BY <1>1, <2>1, EarlierStay
<1>10. ReplyOfTurn' /\ Reports'
  BY <1>1 DEF ReplyIInv, ReplyOfTurn, Reports
<1> QED
  BY <1>6, <1>7, <1>8, <1>9, <1>10 DEF ReplyIInv

LEMMA EndRoundKeeps ==
  ASSUME ReplyIInv, EndRound
  PROVE  ReplyIInv'
<1>1. /\ stage = "acting" /\ Run(now) = Asked /\ stage' = "asking" /\ now' = now + 1
      /\ live' = live /\ results' = results /\ heard' = heard /\ usage' = usage
      /\ reply' = reply
      /\ response' = [NoResponse EXCEPT !.pieces = response.pieces]
      /\ told' = [told EXCEPT ![now] =
                    [words |-> response.words - response.held, calls |-> Asked]]
  BY DEF EndRound
<1>2. /\ now \in Nat /\ now < ToolRounds /\ Rounds = 0..ToolRounds /\ ToolRounds \in Nat
      /\ now \in Rounds /\ now + 1 \in Rounds
  BY <1>1, RoundsAreNumbers DEF ReplyIInv, ReplyShape, StageOfRound
<1>3. /\ heard[now] = response.words - response.held /\ heard[now] \in 0..MaxPieces
      /\ flags.failed => heard[now] = 0
      /\ heard[now + 1] = 0 /\ Run(now + 1) = {}
      /\ \A r \in Rounds : r > now => heard[r] = 0 /\ Run(r) = {}
  BY <1>1, <1>2 DEF ReplyIInv, ReplyShape, HeardOfRound
<1>4. /\ response' \in ResponseRows /\ response'.content = 0
      /\ response'.words = 0 /\ response'.held = 0
      /\ response'.pieces = response.pieces
      /\ \A i \in CallSlots : response'.calls[i] = NoCall
      /\ response.pieces \in Nat
  <2>1. response.pieces \in 0..MaxPieces
    BY DEF ReplyIInv, ReplyShape, ResponseRows
  <2> QED
    BY <1>1, <2>1, NoResponseShape, RoundsAreNumbers DEF ResponseRows
<1> PICK failed \in BOOLEAN : failed <=> FailedSoFar
  OBVIOUS
<1> PICK unbooked \in BOOLEAN : unbooked <=> UnbookedSoFar
  OBVIOUS
<1> PICK moved \in BOOLEAN : moved <=> flags.moved \/ Gave(now, "success", {Moves})
  OBVIOUS
<1>5. flags' = [failed |-> failed, unbooked |-> unbooked, moved |-> moved]
  <2>1. failed = FailedSoFar
    BY DEF FailedSoFar, Gave
  <2>2. unbooked = UnbookedSoFar
    BY DEF UnbookedSoFar, Gave
  <2>3. moved = (flags.moved \/ Gave(now, "success", {Moves}))
    OBVIOUS
  <2> QED
    BY <2>1, <2>2, <2>3 DEF EndRound
<1>6. /\ flags' \in [failed : BOOLEAN, unbooked : BOOLEAN, moved : BOOLEAN]
      /\ flags'.failed <=> flags.failed \/ Gave(now, "failure", Tools)
      /\ flags'.unbooked <=>
           ~Gave(now, "success", {Books}) /\ (flags.unbooked \/ Gave(now, "failure", {Books}))
      /\ flags'.moved <=> flags.moved \/ Gave(now, "success", {Moves})
  BY <1>5 DEF FailedSoFar, UnbookedSoFar
<1>7. \A r : /\ Run(r)' = Run(r)
             /\ \A result, tools : Gave(r, result, tools)' <=> Gave(r, result, tools)
  BY <1>1 DEF Run, Gave
<1>8. /\ told' \in [Rounds -> [words : 0..MaxPieces, calls : SUBSET CallSlots]]
      /\ told'[now].words = heard[now] /\ told'[now].calls = Run(now)
      /\ \A r \in Rounds : r # now => told'[r] = told[r]
  <2>1. told \in [Rounds -> [words : 0..MaxPieces, calls : SUBSET CallSlots]]
    BY DEF ReplyIInv, ReplyShape
  <2>2. Asked \in SUBSET CallSlots
    BY DEF Asked
  <2> PICK turn : turn = [words |-> response.words - response.held, calls |-> Asked]
    OBVIOUS
  <2>3. turn \in [words : 0..MaxPieces, calls : SUBSET CallSlots]
    BY <1>3, <2>2
  <2>4. turn.words = heard[now] /\ turn.calls = Run(now)
    BY <1>1, <1>3
  <2>5. told' = [told EXCEPT ![now] = turn]
    BY <1>1
  <2> QED
    BY <1>2, <2>1, <2>3, <2>4, <2>5
<1>9. ReplyShape'
  BY <1>1, <1>2, <1>4, <1>6, <1>8 DEF ReplyIInv, ReplyShape
<1>10. StageOfRound'
  <2>1. Asked' = {}
    BY <1>4 DEF Asked
  <2>2. Run(now)' = {}
    BY <1>1, <1>3 DEF Run
  <2> QED
    BY <1>1, <1>4, <2>1, <2>2 DEF StageOfRound, Run
<1>11. HeardOfRound'
  <2>1. \A r \in Rounds : r > now + 1 => heard'[r] = 0 /\ Run(r)' = {}
    BY <1>1, <1>2, <1>3, <1>7
  <2> QED
    BY <1>1, <1>3, <1>4, <2>1 DEF HeardOfRound
<1>12. \A r \in Rounds : r < now + 1 <=> r < now \/ r = now
  BY <1>2
<1>13. EarlierTold'
  <2>1. ASSUME NEW r \in Rounds, r < now + 1
        PROVE  told'[r].words = heard[r] /\ told'[r].calls = Run(r)
    BY <1>2, <1>8, <1>12, <2>1 DEF ReplyIInv, EarlierTold
  <2> QED
    BY <1>1, <1>7, <2>1 DEF EarlierTold
<1>14. EarlierUnheard'
  <2> SUFFICES ASSUME NEW r \in Rounds, r < now + 1, Run(r) # {},
                      NEW q \in 0..r - 1, Gave(q, "failure", Tools)
               PROVE  heard[r] = 0
    BY <1>1, <1>7 DEF EarlierUnheard
  <2>1. CASE r < now
    BY <2>1 DEF ReplyIInv, EarlierUnheard
  <2>2. CASE r = now
    <3>1. q \in Rounds /\ q < now
      BY <1>2, <2>2
    <3>2. flags.failed
      BY <3>1 DEF ReplyIInv, FlagsOfEarlier
    <3> QED
      BY <1>3, <2>2, <3>2
  <2> QED
    BY <1>12, <2>1, <2>2
<1>15. FlagsOfEarlier'
  <2>1. UnbookedBefore(now + 1) <=>
          ~Gave(now, "success", {Books})
            /\ (UnbookedBefore(now) \/ Gave(now, "failure", {Books}))
    <3>1. ASSUME UnbookedBefore(now + 1)
          PROVE  ~Gave(now, "success", {Books})
                   /\ (UnbookedBefore(now) \/ Gave(now, "failure", {Books}))
      <4>1. PICK r \in Rounds :
              /\ r < now + 1 /\ Gave(r, "failure", {Books})
              /\ \A q \in Rounds : r <= q /\ q < now + 1 => ~Gave(q, "success", {Books})
        BY <3>1 DEF UnbookedBefore
      <4>2. r \in Nat /\ r <= now
        BY <1>2, <4>1
      <4>3. ~Gave(now, "success", {Books})
        BY <1>2, <4>1, <4>2
      <4>4. CASE r = now
        BY <4>1, <4>3, <4>4
      <4>5. CASE r < now
        <5>1. \A q \in Rounds : r <= q /\ q < now => ~Gave(q, "success", {Books})
          BY <1>12, <4>1
        <5> QED
          BY <4>1, <4>3, <4>5, <5>1 DEF UnbookedBefore
      <4> QED
        BY <1>2, <4>2, <4>4, <4>5
    <3>2. ASSUME ~Gave(now, "success", {Books}), UnbookedBefore(now)
          PROVE  UnbookedBefore(now + 1)
      BY <1>12, <3>2 DEF UnbookedBefore
    <3>3. ASSUME ~Gave(now, "success", {Books}), Gave(now, "failure", {Books})
          PROVE  UnbookedBefore(now + 1)
      <4>1. \A q \in Rounds : now <= q /\ q < now + 1 => q = now
        BY <1>2
      <4>2. now < now + 1
        BY <1>2
      <4> QED
        BY <1>2, <3>3, <4>1, <4>2 DEF UnbookedBefore
    <3> QED
      BY <3>1, <3>2, <3>3
  <2>2. UnbookedBefore(now)' <=> UnbookedBefore(now + 1)
    BY <1>1, <1>7 DEF UnbookedBefore
  <2>3. flags.unbooked <=> UnbookedBefore(now)
    BY DEF ReplyIInv, FlagsOfEarlier
  <2>4. flags'.unbooked <=> UnbookedBefore(now)'
    BY <1>6, <2>1, <2>2, <2>3
  <2>5. flags'.failed <=> \E r \in Rounds : r < now + 1 /\ Gave(r, "failure", Tools)
    BY <1>2, <1>6, <1>12 DEF ReplyIInv, FlagsOfEarlier
  <2>6. flags'.moved <=> \E r \in Rounds : r < now + 1 /\ Gave(r, "success", {Moves})
    BY <1>2, <1>6, <1>12 DEF ReplyIInv, FlagsOfEarlier
  <2> QED
    BY <1>1, <1>7, <2>4, <2>5, <2>6 DEF FlagsOfEarlier
<1>16. ReplyOfTurn' /\ Reports'
  BY <1>1 DEF ReplyIInv, ReplyOfTurn, Reports
<1> QED
  BY <1>9, <1>10, <1>11, <1>13, <1>14, <1>15, <1>16 DEF ReplyIInv

LEMMA EndTurnKeeps ==
  ASSUME ReplyIInv, EndTurn
  PROVE  ReplyIInv'
<1>1. /\ stage = "ending" /\ stage' = "done"
      /\ live' = live /\ now' = now /\ response' = response /\ results' = results
      /\ told' = told /\ flags' = flags /\ usage' = usage
      /\ heard' = [heard EXCEPT ![now] = heard[now] + response.held]
      /\ reply' = [given |-> TRUE, words |-> response.words,
                   unbooked |-> flags.unbooked, moved |-> flags.moved]
  BY DEF EndTurn
<1>2. /\ now \in Rounds /\ Rounds \subseteq Nat /\ heard \in [Rounds -> 0..MaxPieces]
      /\ response \in ResponseRows /\ response.words <= response.content
      /\ response.content <= response.pieces
      /\ heard[now] = response.words - response.held /\ MaxPieces \in Nat
      /\ flags \in [failed : BOOLEAN, unbooked : BOOLEAN, moved : BOOLEAN]
  BY <1>1, RoundsAreNumbers DEF ReplyIInv, ReplyShape, HeardOfRound
<1>3. /\ response.words \in Nat /\ response.held \in Nat /\ response.content \in Nat
      /\ response.pieces \in 0..MaxPieces
  BY <1>2 DEF ResponseRows
<1>4. heard[now] + response.held = response.words /\ response.words \in 0..MaxPieces
  BY <1>2, <1>3
<1>5. /\ heard' \in [Rounds -> 0..MaxPieces] /\ heard'[now] = response.words
      /\ \A r \in Rounds : r # now => heard'[r] = heard[r]
  BY <1>1, <1>2, <1>4
<1>6. /\ reply' \in [given : BOOLEAN, words : Nat, unbooked : BOOLEAN, moved : BOOLEAN]
      /\ reply'.given /\ reply'.words = response.words
      /\ reply'.unbooked = flags.unbooked /\ reply'.moved = flags.moved
  BY <1>1, <1>2, <1>3
<1>7. ReplyShape'
  BY <1>1, <1>5, <1>6 DEF ReplyIInv, ReplyShape
<1>8. StageOfRound'
  BY <1>1 DEF ReplyIInv, StageOfRound, Run
<1>9. HeardOfRound'
  <2>1. \A r \in Rounds : r > now => heard'[r] = 0 /\ Run(r)' = {}
    BY <1>1, <1>2, <1>5 DEF ReplyIInv, HeardOfRound, Run
  <2> QED
    BY <1>1, <2>1 DEF HeardOfRound
<1>10. EarlierTold' /\ EarlierUnheard' /\ FlagsOfEarlier'
  <2>1. \A r \in Rounds : r < now => results'[r] = results[r] /\ heard'[r] = heard[r]
    BY <1>1, <1>2, <1>5
  <2> QED
    BY <1>1, <2>1, EarlierStay
<1>11. ReplyOfTurn'
  BY <1>1, <1>5, <1>6 DEF ReplyOfTurn
<1>12. Reports'
  BY <1>1 DEF ReplyIInv, Reports
<1> QED
  BY <1>7, <1>8, <1>9, <1>10, <1>11, <1>12 DEF ReplyIInv

-----------------------------------------------------------------------------
(* The turn.                                                               *)

LEMMA ReplyStep ==
  ReplyIInv /\ [ReplyNext]_replyVars => ReplyIInv'
<1> SUFFICES ASSUME ReplyIInv, [ReplyNext]_replyVars
             PROVE  ReplyIInv'
  OBVIOUS
<1>1. CASE UNCHANGED replyVars
  <2>1. /\ live' = live /\ stage' = stage /\ now' = now /\ response' = response
        /\ results' = results /\ heard' = heard /\ told' = told /\ flags' = flags
        /\ usage' = usage /\ reply' = reply
    BY <1>1 DEF replyVars
  <2>2. ReplyShape' /\ StageOfRound' /\ HeardOfRound'
    BY <2>1 DEF ReplyIInv, ReplyShape, StageOfRound, HeardOfRound, Run, Asked
  <2>3. EarlierTold' /\ EarlierUnheard' /\ FlagsOfEarlier'
    BY <2>1, EarlierStay
  <2>4. ReplyOfTurn' /\ Reports'
    BY <2>1 DEF ReplyIInv, ReplyOfTurn, Reports
  <2> QED
    BY <2>2, <2>3, <2>4 DEF ReplyIInv
<1>2. ASSUME NEW spoken \in BOOLEAN, Content(spoken)
      PROVE  ReplyIInv'
  BY <1>2, ContentKeeps
<1>3. ASSUME NEW i \in CallSlots, NEW name \in Tools,
             NEW arguments \in {"empty", "cut", "whole"},
             Fragment(i, [name |-> name, arguments |-> arguments])
      PROVE  ReplyIInv'
  BY <1>3, FragmentKeeps
<1>4. ASSUME NEW i \in CallSlots, NEW ok \in BOOLEAN, RunCall(i, ok)
      PROVE  ReplyIInv'
  BY <1>4, RunCallKeeps
<1>5. CASE Request \/ EndResponse \/ ProviderFails
  BY <1>5, RequestKeeps, EndResponseKeeps, ProviderFailsKeeps
<1>6. CASE EndRound \/ EndTurn \/ NoDocument \/ AbandonReply
  BY <1>6, EndRoundKeeps, EndTurnKeeps, NoDocumentKeeps, AbandonReplyKeeps
<1> QED
  BY <1>1, <1>2, <1>3, <1>4, <1>5, <1>6 DEF ReplyNext

LEMMA GoodReplyIsTold ==
  ReplyIInv => ReplyInv
<1> SUFFICES ASSUME ReplyIInv
             PROVE  ReplyInv
  OBVIOUS
<1>1. /\ Rounds = 0..ToolRounds /\ ToolRounds \in Nat /\ now \in Rounds
      /\ MaxPieces \in Nat /\ response \in ResponseRows
  BY RoundsAreNumbers DEF ReplyIInv, ReplyShape
<1>2. ReplyTypeOK
  <2>1. /\ response.pieces \in 0..MaxPieces /\ response.content \in Nat
        /\ response.words \in Nat /\ response.held \in Nat
    BY <1>1 DEF ResponseRows
  <2>2. /\ response.content \in 0..response.pieces
        /\ response.words \in 0..response.content /\ response.held \in 0..response.words
    BY <1>1, <2>1 DEF ReplyIInv, ReplyShape
  <2>3. \A r \in Rounds : told[r].words \in 0..MaxPieces /\ told[r].calls \subseteq CallSlots
    BY DEF ReplyIInv, ReplyShape
  <2> QED
    BY <2>2, <2>3 DEF ReplyTypeOK, ReplyIInv, ReplyShape, ReplyOfTurn
<1>3. ToldWhatWasHeard
  <2>1. \A r \in 0..now - 1 : r \in Rounds /\ r < now
    BY <1>1
  <2> QED
    BY <2>1 DEF ToldWhatWasHeard, ReplyIInv, EarlierTold
<1>4. RetriedFailureUnheard
  <2> SUFFICES ASSUME NEW r \in Rounds, Run(r) # {},
                      NEW q \in 0..r - 1, Gave(q, "failure", Tools)
               PROVE  heard[r] = 0
    BY DEF RetriedFailureUnheard
  <2>1. CASE r < now
    BY <2>1 DEF ReplyIInv, EarlierUnheard
  <2>2. CASE r = now
    <3>1. q \in Rounds /\ q < now
      BY <1>1, <2>2
    <3>2. flags.failed
      BY <3>1 DEF ReplyIInv, FlagsOfEarlier
    <3>3. stage # "done"
      BY <2>2 DEF ReplyIInv, StageOfRound
    <3> QED
      BY <2>2, <3>2, <3>3 DEF ReplyIInv, HeardOfRound
  <2>3. CASE r > now
    BY <2>3 DEF ReplyIInv, HeardOfRound
  <2> QED
    BY <1>1, <2>1, <2>2, <2>3
<1>5. ReplyIsHeard
  BY DEF ReplyIsHeard, ReplyIInv, ReplyOfTurn
<1>6. FlagsTellTheTurn
  <2> SUFFICES ASSUME reply.given
               PROVE  /\ reply.unbooked <=> \E r \in Rounds :
                           /\ Gave(r, "failure", {Books})
                           /\ \A q \in r..ToolRounds : ~Gave(q, "success", {Books})
                      /\ reply.moved <=> \E r \in Rounds : Gave(r, "success", {Moves})
    BY DEF FlagsTellTheTurn
  <2>1. reply.unbooked = flags.unbooked /\ reply.moved = flags.moved /\ stage = "done"
    BY DEF ReplyIInv, ReplyOfTurn
  <2>2. ASSUME NEW r \in Rounds, ~(r < now), NEW result, NEW tools
        PROVE  ~Gave(r, result, tools)
    <3>1. Run(r) = {}
      BY <1>1, <2>1, <2>2 DEF ReplyIInv, StageOfRound, HeardOfRound
    <3> QED
      BY <3>1, NothingGiven
  <2>3. UnbookedBefore(now) <=>
          \E r \in Rounds : /\ Gave(r, "failure", {Books})
                            /\ \A q \in r..ToolRounds : ~Gave(q, "success", {Books})
    <3>1. ASSUME NEW r \in Rounds
          PROVE  (\A q \in Rounds : r <= q /\ q < now => ~Gave(q, "success", {Books}))
                   <=> (\A q \in r..ToolRounds : ~Gave(q, "success", {Books}))
      <4>1. \A q \in Rounds : q \in r..ToolRounds <=> r <= q
        BY <1>1, <3>1
      <4>2. \A q \in r..ToolRounds : q \in Rounds
        BY <1>1, <3>1
      <4> QED
        BY <2>2, <4>1, <4>2
    <3>2. \A r \in Rounds : Gave(r, "failure", {Books}) => r < now
      BY <2>2
    <3> QED
      BY <3>1, <3>2 DEF UnbookedBefore
  <2>4. flags.moved <=> \E r \in Rounds : Gave(r, "success", {Moves})
    BY <2>2 DEF ReplyIInv, FlagsOfEarlier
  <2> QED
    BY <2>1, <2>3, <2>4 DEF ReplyIInv, FlagsOfEarlier
<1>7. EveryRequestReported
  <2>1. usage.made \in Nat /\ usage.reported \in Nat
    BY UsageCounts
  <2> QED
    BY <2>1 DEF EveryRequestReported, ReplyIInv, Reports
<1> QED
  BY <1>2, <1>3, <1>4, <1>5, <1>6, <1>7 DEF ReplyInv

\* Every reachable state of a turn's rounds satisfies ReplyIInv.
THEOREM ReplyInductive == ReplySpec => []ReplyIInv
<1>1. ReplyInit => ReplyIInv
  BY ReplyStart
<1>2. ReplyIInv /\ [ReplyNext]_replyVars => ReplyIInv'
  BY ReplyStep
<1> QED
  BY <1>1, <1>2, PTL DEF ReplySpec

\* Whatever the provider sends and however the turn ends: the model is told what the
\* caller heard, a failure that is retried is not heard, the flags of a reply are those
\* of its tools, and every request is counted once (stream_reply, reply).
THEOREM ReplyIsAsHeard == ReplySpec => []ReplyInv
<1>1. ReplyIInv => ReplyInv
  BY GoodReplyIsTold
<1> QED
  BY <1>1, ReplyInductive, PTL
=============================================================================
