------------------------------- MODULE Booking -------------------------------
(***************************************************************************)
(* Appointments of one organization.  Callers reach a booking through the  *)
(* consent ladder (offered, selected, validated, booked), one turn after   *)
(* another, each turn a transaction holding the call's advisory lock.      *)
(* Dispatchers schedule and close the same appointments from the           *)
(* dashboard.  Both write a time only under the organization's booking     *)
(* lock, an advisory lock kept until the transaction ends.                 *)
(*                                                                         *)
(* READ COMMITTED: a transaction sees its own writes and what others have  *)
(* committed.  A turn keeps its writes in turn[c] until it commits.  A     *)
(* dispatcher's request writes last, so its write and commit are one step. *)
(* An UPDATE names only the columns whose value differs from the row as it *)
(* was loaded, and waits for a row another transaction has written.        *)
(***************************************************************************)
EXTENDS Naturals, FiniteSets

CONSTANTS
  Calls,        \* conversations; each has at most one appointment
  Dispatchers,  \* requests from the dashboard that may be open at once
  NoCall,       \* the call of no request
  Starts,       \* start times on the slot grid
  Lengths,      \* visit lengths, in grid steps
  Capacity,     \* technicians on call
  Opens,        \* opening time
  Closes,       \* closing time
  Horizon,      \* bound: how far the earliest bookable time moves
  MaxTurns,     \* AI_MAX_CONVERSATION_TURNS
  MaxSilent     \* bound: committed turns of which the caller heard nothing

ASSUME NoCallAssumption == NoCall \notin Calls
ASSUME PartiesAssumption == Calls \cap Dispatchers = {}
ASSUME StartsAssumption == Starts \subseteq Nat \ {0}
ASSUME LengthsAssumption == Lengths \subseteq Nat \ {0}
ASSUME NumbersAssumption ==
  {Capacity, Opens, Closes, Horizon, MaxTurns, MaxSilent} \subseteq Nat

Status == {"requested", "scheduled", "completed", "canceled", "no_show"}
Closed == {"completed", "canceled", "no_show"}

\* The statuses the status endpoint may move an appointment to.
AllowedTransitions(status) ==
  CASE status = "requested" -> {"canceled"}
    [] status = "scheduled" -> Closed
    [] OTHER -> {}

VARIABLES
  appointment,  \* the appointments table
  offered,      \* the conversation_offered_slots table, per call
  turns,        \* completed turns in the message history, per call
  earliest,     \* now + SCHEDULING_MIN_LEAD_MINUTES
  turn,         \* the open turn of each call
  staff,        \* the open request of each dispatcher
  counted,      \* history: the appointment's time was checked for capacity
  heard,        \* history: the times and lengths read out to the caller
  silent        \* how many committed turns were not spoken

tables == <<appointment, offered, turns>>
history == <<counted, heard, silent>>
vars == <<tables, earliest, turn, staff, history>>

NoAppointment == [status |-> "none", start |-> 0, length |-> 0, closed |-> FALSE]
NoOffer == [length |-> 0, turn |-> 0, selected |-> FALSE]
NoWrites == [created |-> FALSE, start |-> 0, length |-> 0, schedules |-> FALSE]

\* offers: the call's offered slots as the turn sees them; writes: its writes
\* to the appointment; row: it holds the appointment's row lock; lock: it holds
\* the booking lock, since the running tool or since an earlier one; told: what
\* its searches returned; start, length, loaded: the booking under way.
NoTurn ==
  [phase |-> "idle", offers |-> [s \in Starts |-> NoOffer], writes |-> NoWrites,
   row |-> FALSE, lock |-> "none", told |-> {}, start |-> 0, length |-> 0,
   loaded |-> "none"]

NoRequest ==
  [phase |-> "idle", call |-> NoCall, start |-> 0, length |-> 0, to |-> "none",
   loaded |-> "none", counted |-> FALSE]

Init ==
  /\ appointment = [c \in Calls |-> NoAppointment]
  /\ offered = [c \in Calls |-> [s \in Starts |-> NoOffer]]
  /\ turns = [c \in Calls |-> 0]
  /\ earliest = 0
  /\ turn = [c \in Calls |-> NoTurn]
  /\ staff = [d \in Dispatchers |-> NoRequest]
  /\ counted = [c \in Calls |-> FALSE]
  /\ heard = [c \in Calls |-> {}]
  /\ silent = 0

AppointmentRows ==
  [status : Status \union {"none"}, start : Starts \union {0},
   length : Lengths \union {0}, closed : BOOLEAN]
OfferRows == [length : Lengths \union {0}, turn : Nat, selected : BOOLEAN]
Writes ==
  [created : BOOLEAN, start : Starts \union {0}, length : Lengths \union {0},
   schedules : BOOLEAN]
Turns ==
  [phase : {"idle", "open", "waiting", "writing"}, offers : [Starts -> OfferRows],
   writes : Writes, row : BOOLEAN, lock : {"none", "tool", "turn"},
   told : SUBSET (Starts \X Lengths), start : Starts \union {0},
   length : Lengths \union {0}, loaded : Status \union {"none"}]
Requests ==
  [phase : {"idle", "waiting", "writing", "closing", "loaded"}, call : Calls \union {NoCall},
   start : Starts \union {0}, length : Lengths \union {0},
   to : Status \union {"none"}, loaded : Status \union {"none"},
   counted : BOOLEAN]

TypeOK ==
  /\ appointment \in [Calls -> AppointmentRows]
  /\ offered \in [Calls -> [Starts -> OfferRows]]
  /\ turns \in [Calls -> 0..MaxTurns]
  /\ earliest \in 0..Horizon
  /\ turn \in [Calls -> Turns]
  /\ staff \in [Dispatchers -> Requests]
  /\ counted \in [Calls -> BOOLEAN]
  /\ heard \in [Calls -> SUBSET (Starts \X Lengths)]
  /\ silent \in 0..MaxSilent

-----------------------------------------------------------------------------
(* Availability.                                                           *)

\* Slip: only a visit that starts at the same time is a conflict.
OverlappingSameStart(c, s, l) ==
  {o \in Calls \ {c} : appointment[o].status = "scheduled"
                       /\ appointment[o].start = s}

\* count_overlapping: the other scheduled visits that share a moment with
\* [s, s + l), both half-open.
Overlapping(c, s, l) ==
  {o \in Calls \ {c} : /\ appointment[o].status = "scheduled"
                       /\ appointment[o].start < s + l
                       /\ appointment[o].start + appointment[o].length > s}

WithinOpenHours(s, l) == Opens <= s /\ s + l <= Closes

\* verify_slot: the first test that fails gives the verdict.
Verdict(c, s, l) ==
  IF s < earliest THEN "in_the_past"
  ELSE IF ~WithinOpenHours(s, l) THEN "outside_business_hours"
  ELSE IF Cardinality(Overlapping(c, s, l)) >= Capacity THEN "full"
  ELSE "bookable"

\* Slip: the last slot may start at closing time.
FindSlotsUntilClose(c, l) ==
  {s \in Starts :
     LET taken == {o \in Calls \ {c} :
                     /\ appointment[o].status = "scheduled"
                     /\ appointment[o].start < s + l
                     /\ appointment[o].start + appointment[o].length > s}
     IN  /\ Opens <= s /\ s <= Closes
         /\ s >= earliest
         /\ Cardinality(taken) < Capacity}

\* find_slots: candidates from opening time to the last start that still ends
\* by closing time, each compared with the visits booked in the window.
FindSlots(c, l) ==
  {s \in Starts :
     LET taken == {o \in Calls \ {c} :
                     /\ appointment[o].status = "scheduled"
                     /\ appointment[o].start < s + l
                     /\ appointment[o].start + appointment[o].length > s}
     IN  /\ Opens <= s /\ Closes >= l /\ s <= Closes - l
         /\ s >= earliest
         /\ Cardinality(taken) < Capacity}

-----------------------------------------------------------------------------
(* Locks and rows.                                                         *)

LockHolders ==
  {c \in Calls : turn[c].lock # "none"}
    \union {d \in Dispatchers : staff[d].phase = "writing"}

\* Row c of the table after a turn's writes.
Written(row, w) ==
  LET made  == IF w.created THEN [row EXCEPT !.status = "requested"] ELSE row
      timed == IF w.start # 0
               THEN [made EXCEPT !.start = w.start, !.length = w.length]
               ELSE made
  IN  IF w.schedules THEN [timed EXCEPT !.status = "scheduled"] ELSE timed

\* The call's own appointment as its turn sees it.
Own(c) == Written(appointment[c], turn[c].writes)

\* The slot the caller chose, instead of any chosen before.
MarkSelected(offers, s) ==
  [x \in Starts |-> [offers[x] EXCEPT !.selected = x = s]]

Retract(offers) == [s \in Starts |-> [offers[s] EXCEPT !.selected = FALSE]]

-----------------------------------------------------------------------------
(* A turn of a call and the tools the assistant uses in it.                *)

BeginTurn(c) ==
  /\ turn[c].phase = "idle"
  /\ turns[c] < MaxTurns
  /\ turn' = [turn EXCEPT ![c] =
                [NoTurn EXCEPT !.phase = "open", !.offers = offered[c]]]
  /\ UNCHANGED <<tables, earliest, staff, history>>

\* The appointment is created from the outcome, or its contact details are
\* brought up to date: a write to its row, which locks it.
Requested(c, w) ==
  IF Own(c).status = "none" THEN [w EXCEPT !.created = TRUE] ELSE w

CreateServiceRequest(c) ==
  /\ turn[c].phase = "open"
  /\ turn' = [turn EXCEPT ![c] =
       [turn[c] EXCEPT !.writes = Requested(c, turn[c].writes),
                       !.row = turn[c].row \/ appointment[c].status # "none"]]
  /\ UNCHANGED <<tables, earliest, staff, history>>

\* ON CONFLICT DO UPDATE of the length alone: neither the turn of the offer
\* nor the selection moves.
RecordOffered(offers, found, l, index) ==
  [s \in Starts |->
     IF s \notin found THEN offers[s]
     ELSE IF offers[s].length = 0
          THEN [length |-> l, turn |-> index, selected |-> FALSE]
          ELSE [offers[s] EXCEPT !.length = l]]

CheckAvailability(c, l) ==
  /\ turn[c].phase = "open"
  /\ \E found \in SUBSET FindSlots(c, l) :
       turn' = [turn EXCEPT ![c] =
         [turn[c] EXCEPT !.offers = RecordOffered(turn[c].offers, found, l, turns[c]),
                         !.told = turn[c].told \union {<<s, l>> : s \in found}]]
  /\ UNCHANGED <<tables, earliest, staff, history>>

\* Slip: an offer may be answered in the turn that makes it.
SelectAtOnce(c, s) ==
  /\ turn[c].phase = "open"
  /\ turn[c].offers[s].length # 0
  /\ turn' = [turn EXCEPT ![c] = [turn[c] EXCEPT !.offers = MarkSelected(turn[c].offers, s)]]
  /\ UNCHANGED <<tables, earliest, staff, history>>

SelectAppointmentSlot(c, s) ==
  /\ turn[c].phase = "open"
  /\ turn[c].offers[s].length # 0
  /\ turn[c].offers[s].turn < turns[c]
  /\ turn' = [turn EXCEPT ![c] = [turn[c] EXCEPT !.offers = MarkSelected(turn[c].offers, s)]]
  /\ UNCHANGED <<tables, earliest, staff, history>>

\* A slot_id quoted from a search of this turn carries a length, and that one
\* is booked; a date and time carry none, and the offer's is.
QuotedLengths(c, s) == {0} \union {l \in Lengths : <<s, l>> \in turn[c].told}

BookForConversation(c, s) ==
  /\ turn[c].phase = "open"
  /\ Own(c).status \notin Closed \union {"none"}
  /\ turn[c].offers[s].length # 0
  /\ turn[c].offers[s].selected
  /\ \E l \in QuotedLengths(c, s) :
       turn' = [turn EXCEPT ![c] =
         [turn[c] EXCEPT !.phase = "waiting", !.start = s,
                         !.length = IF l # 0 THEN l ELSE turn[c].offers[s].length]]
  /\ UNCHANGED <<tables, earliest, staff, history>>

\* The tool is done; the turn goes on.
Done(t) ==
  [t EXCEPT !.phase = "open", !.start = 0, !.length = 0, !.loaded = "none"]

\* Slip: the slot is verified before the booking lock is held.
VerifySlotUnlocked(c) ==
  /\ turn[c].phase = "waiting"
  /\ IF Verdict(c, turn[c].start, turn[c].length) = "bookable"
     THEN turn' = [turn EXCEPT ![c] =
            [@ EXCEPT !.phase = "writing", !.loaded = Own(c).status]]
     ELSE turn' = [turn EXCEPT ![c] =
            [Done(@) EXCEPT !.offers = Retract(turn[c].offers)]]
  /\ UNCHANGED <<tables, earliest, staff, history>>

\* The booking lock is obtained, the slot verified, the row loaded.  A slot
\* that is no longer bookable loses its selection, which is committed with the
\* turn; the lock stays with the turn.
VerifySlot(c) ==
  /\ turn[c].phase = "waiting"
  /\ LockHolders \subseteq {c}
  /\ IF Verdict(c, turn[c].start, turn[c].length) = "bookable"
     THEN turn' = [turn EXCEPT ![c] =
            [turn[c] EXCEPT !.phase = "writing", !.loaded = Own(c).status,
                            !.lock = IF turn[c].lock = "none" THEN "tool" ELSE turn[c].lock]]
     ELSE turn' = [turn EXCEPT ![c] =
            [Done(turn[c]) EXCEPT !.lock = "turn",
                                  !.offers = Retract(turn[c].offers)]]
  /\ UNCHANGED <<tables, earliest, staff, history>>

BookSlot(c) ==
  /\ turn[c].phase = "writing"
  /\ turn' = [turn EXCEPT ![c] =
       [Done(turn[c]) EXCEPT !.lock = "turn",
                             !.row = turn[c].row \/ appointment[c].status # "none",
                             !.writes = [created |-> turn[c].writes.created,
                                         start |-> turn[c].start,
                                         length |-> turn[c].length,
                                         schedules |-> turn[c].writes.schedules
                                           \/ turn[c].loaded # "scheduled"]]]
  /\ UNCHANGED <<tables, earliest, staff, history>>

\* Slip: nothing ends a tool that waits for the booking lock.
ToolFailsWriting(c) ==
  /\ turn[c].phase = "writing"
  /\ turn' = [turn EXCEPT ![c] =
       [Done(turn[c]) EXCEPT !.lock = IF turn[c].lock = "tool" THEN "none" ELSE turn[c].lock]]
  /\ UNCHANGED <<tables, earliest, staff, history>>

\* AI_TOOL_TIMEOUT_SECONDS runs out, or a statement fails (a deadlock's
\* victim): the tool's savepoint is rolled back, with the lock it took.
ToolFails(c) ==
  /\ turn[c].phase \in {"waiting", "writing"}
  /\ turn' = [turn EXCEPT ![c] =
       [Done(turn[c]) EXCEPT !.lock = IF turn[c].lock = "tool" THEN "none" ELSE turn[c].lock]]
  /\ UNCHANGED <<tables, earliest, staff, history>>

\* What every turn that ends with a commit leaves behind.
CommitWrites(c, w) ==
  /\ appointment' = [appointment EXCEPT ![c] = Written(@, w)]
  /\ offered' = [offered EXCEPT ![c] = turn[c].offers]
  /\ counted' = [counted EXCEPT ![c] = @ \/ w.start # 0]
  /\ turn' = [turn EXCEPT ![c] = NoTurn]
  /\ UNCHANGED <<earliest, staff>>

\* The reply is spoken and persisted; the outcome sync may create the
\* appointment or bring its contact details up to date.
CompleteTurn(c) ==
  /\ turn[c].phase = "open"
  /\ \E w \in {turn[c].writes, Requested(c, turn[c].writes)} : CommitWrites(c, w)
  /\ turns' = [turns EXCEPT ![c] = @ + 1]
  /\ heard' = [heard EXCEPT ![c] = @ \union turn[c].told]
  /\ UNCHANGED silent

\* The reply is spoken, but persisting it fails and is rolled back alone.
LoseTurn(c) ==
  /\ turn[c].phase = "open"
  /\ CommitWrites(c, turn[c].writes)
  /\ heard' = [heard EXCEPT ![c] = @ \union turn[c].told]
  /\ UNCHANGED <<turns, silent>>

\* The provider fails after tools have run: the caller hears an apology, and
\* what the tools wrote is committed.
SilentTurn(c) ==
  /\ turn[c].phase = "open"
  /\ silent < MaxSilent
  /\ silent' = silent + 1
  /\ CommitWrites(c, turn[c].writes)
  /\ UNCHANGED <<turns, heard>>

\* The process dies or the connection is lost: the transaction is rolled back.
RollBackTurn(c) ==
  /\ turn[c].phase # "idle"
  /\ turn' = [turn EXCEPT ![c] = NoTurn]
  /\ UNCHANGED <<tables, earliest, staff, history>>

-----------------------------------------------------------------------------
(* The dashboard.                                                          *)

\* schedule_appointment up to its wait for the booking lock.  Only the start
\* must fall within business hours.
ScheduleAppointment(d, c, s, l) ==
  /\ staff[d].phase = "idle"
  /\ appointment[c].status \notin Closed \union {"none"}
  /\ Opens <= s /\ s < Closes
  /\ staff' = [staff EXCEPT ![d] =
       [NoRequest EXCEPT !.phase = "waiting", !.call = c, !.start = s, !.length = l]]
  /\ UNCHANGED <<tables, earliest, turn, history>>

\* Only a full slot is refused; verify_slot counts overlapping visits last.
VerifyForStaff(d) ==
  LET r == staff[d]
      verdict == Verdict(r.call, r.start, r.length)
  IN  /\ r.phase = "waiting"
      /\ LockHolders = {}
      /\ staff' = [staff EXCEPT ![d] =
           IF verdict = "full" THEN NoRequest
           ELSE [r EXCEPT !.phase = "writing",
                          !.loaded = appointment[r.call].status,
                          !.counted = verdict = "bookable"]]
      /\ UNCHANGED <<tables, earliest, turn, history>>

WriteSchedule(d) ==
  LET r == staff[d]
  IN  /\ r.phase = "writing"
      /\ ~turn[r.call].row
      /\ appointment' = [appointment EXCEPT ![r.call] =
           [appointment[r.call] EXCEPT !.start = r.start, !.length = r.length,
              !.status = IF r.loaded # "scheduled" THEN "scheduled"
                         ELSE appointment[r.call].status]]
      /\ counted' = [counted EXCEPT ![r.call] = r.counted]
      /\ staff' = [staff EXCEPT ![d] = NoRequest]
      /\ UNCHANGED <<offered, turns, earliest, turn, heard, silent>>

\* update_appointment_status checks the transition, loads the row again, then
\* writes; no lock is held from the check to the write.
UpdateStatus(d, c, to) ==
  /\ staff[d].phase = "idle"
  /\ to \in AllowedTransitions(appointment[c].status)
  /\ staff' = [staff EXCEPT ![d] =
                [NoRequest EXCEPT !.phase = "closing", !.call = c, !.to = to]]
  /\ UNCHANGED <<tables, earliest, turn, history>>

LoadForStatus(d) ==
  LET r == staff[d]
  IN  /\ r.phase = "closing"
      /\ staff' = [staff EXCEPT ![d] =
           [r EXCEPT !.phase = "loaded", !.loaded = appointment[r.call].status]]
      /\ UNCHANGED <<tables, earliest, turn, history>>

WriteStatus(d) ==
  LET r == staff[d]
  IN  /\ r.phase = "loaded"
      /\ ~turn[r.call].row
      /\ appointment' = [appointment EXCEPT ![r.call] =
           [appointment[r.call] EXCEPT !.closed = TRUE,
              !.status = IF r.loaded # r.to THEN r.to ELSE appointment[r.call].status]]
      /\ staff' = [staff EXCEPT ![d] = NoRequest]
      /\ UNCHANGED <<offered, turns, earliest, turn, history>>

\* The request fails (a deadlock's victim, a lost connection).
RequestFails(d) ==
  /\ staff[d].phase # "idle"
  /\ staff' = [staff EXCEPT ![d] = NoRequest]
  /\ UNCHANGED <<tables, earliest, turn, history>>

TimePasses ==
  /\ earliest < Horizon
  /\ earliest' = earliest + 1
  /\ UNCHANGED <<tables, turn, staff, history>>

-----------------------------------------------------------------------------
ToolStep(c) ==
  \/ CreateServiceRequest(c)
  \/ \E l \in Lengths : CheckAvailability(c, l)
  \/ \E s \in Starts : SelectAppointmentSlot(c, s) \/ BookForConversation(c, s)
  \/ VerifySlot(c) \/ BookSlot(c) \/ ToolFails(c)

EndTurn(c) == CompleteTurn(c) \/ LoseTurn(c) \/ SilentTurn(c) \/ RollBackTurn(c)

StaffStep(d) ==
  \/ \E c \in Calls, s \in Starts, l \in Lengths : ScheduleAppointment(d, c, s, l)
  \/ \E c \in Calls, to \in Closed : UpdateStatus(d, c, to)
  \/ VerifyForStaff(d) \/ WriteSchedule(d)
  \/ LoadForStatus(d) \/ WriteStatus(d) \/ RequestFails(d)

Next ==
  \/ \E c \in Calls : BeginTurn(c) \/ ToolStep(c) \/ EndTurn(c)
  \/ \E d \in Dispatchers : StaffStep(d)
  \/ TimePasses

Spec == Init /\ [][Next]_vars

\* Locks and rows are granted in turn, so whoever asks again and again gets
\* them; a turn runs at most AI_MAX_TOOL_ROUNDS rounds of tools, each ended by
\* its timeout, and then replies.  Nothing makes a caller speak, a dispatcher
\* ask or a process die.
Fairness ==
  /\ \A c \in Calls :
       /\ WF_vars(BookSlot(c)) /\ WF_vars(ToolFails(c))
       /\ SF_vars(VerifySlot(c)) /\ SF_vars(CompleteTurn(c))
  /\ \A d \in Dispatchers :
       /\ WF_vars(LoadForStatus(d)) /\ SF_vars(VerifyForStaff(d))
       /\ SF_vars(WriteSchedule(d)) /\ SF_vars(WriteStatus(d))

FairSpec == Spec /\ Fairness

-----------------------------------------------------------------------------
(* Properties.                                                             *)

Scheduled == {c \in Calls : appointment[c].status = "scheduled"}

\* The visits among cs under way at moment t.
UnderWay(cs, t) ==
  {c \in cs : /\ appointment[c].start <= t
              /\ t < appointment[c].start + appointment[c].length}

\* The booking lock: of the visits whose time was compared with the capacity,
\* no more than there are technicians are ever under way at once, whatever
\* callers and dispatchers do at the same time.
CountedWithinCapacity ==
  \A t \in Starts :
    Cardinality(UnderWay({c \in Scheduled : counted[c]}, t)) <= Capacity

\* A scheduled visit has a time and a length; without them no conflict check
\* would see it.
ScheduledHasTime ==
  \A c \in Scheduled : appointment[c].start # 0 /\ appointment[c].length # 0

\* Types, visits with their times, and no more of them than technicians.
BookingInv == TypeOK /\ ScheduledHasTime /\ CountedWithinCapacity

\* A slot a search would offer now is one a booking would accept now.
SearchAgreesWithBooking ==
  \A c \in Calls, l \in Lengths : \A s \in FindSlots(c, l) :
    Verdict(c, s, l) = "bookable"

\* The consent ladder: a turn writes a time into the appointment only if the
\* time was read out to the caller in an earlier turn.
HeardBeforeBooked ==
  \A c \in Calls :
    LET w == turn[c].writes
    IN  w.start # 0 => \E l \in Lengths : <<w.start, l>> \in heard[c]

\* A caller and a dispatcher are never both given the last free technician.
NoOverbooking ==
  \A t \in Starts : Cardinality(UnderWay(Scheduled, t)) <= Capacity

\* A completed, canceled or missed appointment stays what it is.
ClosedStaysClosed ==
  [][\A c \in Calls : appointment[c].status \in Closed =>
       appointment'[c].status = appointment[c].status]_vars

\* Every request of the dashboard is answered, although a turn keeps the
\* booking lock and its rows until it ends.
StaffAnswered ==
  \A d \in Dispatchers : staff[d].phase # "idle" ~> staff[d].phase = "idle"
=============================================================================
