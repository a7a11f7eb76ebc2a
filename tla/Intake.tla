------------------------------- MODULE Intake -------------------------------
(***************************************************************************)
(* What one call makes of what its caller says: the outcome the assistant  *)
(* reports, the emergency ticket and the appointment that are opened from  *)
(* it, and the contact details copied onto them.                           *)
(*                                                                         *)
(* The turns of a call follow each other; each is one transaction whose    *)
(* tools, whose reply and whose three syncs run in savepoints of their own *)
(* and see the turn's writes.  The end-of-call report is a transaction     *)
(* beside them, and may open the call's ticket.  What staff do is Booking's *)
(* and Dispatch's.                                                         *)
(***************************************************************************)
EXTENDS Naturals

CONSTANTS
  Details,    \* what a caller may give as name and address
  PhonesSaid, \* the numbers a caller may say
  OwnPhone,   \* the number the call comes from
  Garbled,    \* words that hold no number
  Blank,      \* nothing known
  MaxTurns,   \* bound: turns of the call
  MaxTools,   \* bound: tools run in a turn
  MaxFaults   \* bound: savepoints and transactions that fail

ASSUME IntakeAssumption ==
  /\ Blank \notin Details \union PhonesSaid \union {OwnPhone}
  /\ Garbled \notin PhonesSaid \union {OwnPhone, Blank}
  /\ {MaxTurns, MaxTools, MaxFaults} \subseteq Nat

VARIABLES
  callerId,  \* the number the provider reports the call to be from
  outcomeRow,   \* the call's row in conversation_outcomes
  ticketRow,    \* its row in emergency_tickets
  visitRow,     \* its row in appointments
  followUp,  \* whether it has a row in call_follow_ups
  turn,      \* the open turn: the rows as it sees them
  turns,     \* turns begun
  faults     \* savepoints and transactions that failed

intakeVars == <<callerId, outcomeRow, ticketRow, visitRow, followUp, turn, turns, faults>>

KeptPhones == PhonesSaid \union {OwnPhone, Blank}
NoOutcome == [class |-> "none", action |-> "none", detail |-> Blank, phone |-> Blank]
NoTicket == [open |-> FALSE, detail |-> Blank, phone |-> Blank]
NoVisit == [open |-> FALSE, detail |-> Blank, phone |-> Blank,
            chosen |-> FALSE, booked |-> FALSE]

\* ticket: NoTicket until the turn writes it; began: whether the call had a
\* ticket when the turn began; books: the turn booked a time.
NoIntake ==
  [at |-> "none", tools |-> 0, outcome |-> NoOutcome, ticket |-> NoTicket,
   visit |-> NoVisit, followUp |-> FALSE, began |-> FALSE, books |-> FALSE]

IntakeInit ==
  /\ callerId \in {OwnPhone, Blank}
  /\ outcomeRow = NoOutcome
  /\ ticketRow = NoTicket
  /\ visitRow = NoVisit
  /\ followUp = FALSE
  /\ turn = NoIntake
  /\ turns = 0
  /\ faults = 0

committed == <<outcomeRow, ticketRow, visitRow, followUp>>

\* The ticket as the turn sees it: its own write, or what is committed.
SeenTicket == IF turn.ticket.open THEN turn.ticket ELSE ticketRow

-----------------------------------------------------------------------------
(* Contact details.                                                        *)

\* storable_phone_number: the number in what was said, if there is one.
Storable(said) == IF said \in KeptPhones THEN said ELSE Blank

Or(value, otherwise) == IF value # Blank THEN value ELSE otherwise

\* Mutant: what the call knows now, blanks and all.
BackfillAll(row, detail, phone) ==
  [row EXCEPT !.detail = detail, !.phone = phone]

\* _backfill_contact_details: what is known replaces what the row has.
Backfill(row, detail, phone) ==
  [row EXCEPT !.detail = Or(detail, row.detail), !.phone = Or(phone, row.phone)]

\* Mutant: a ticket has the number the outcome has.
CallbackStated(row, phone) == phone

\* _with_caller_id_fallback: the caller's own number, where none is known.
Callback(row, phone) ==
  IF phone = Blank /\ row.phone = Blank THEN callerId ELSE phone

\* sync_ticket_from_outcome
SyncedTicket(o, row) ==
  IF o.class # "emergency" \/ o.action # "ticket" THEN row
  ELSE Backfill([row EXCEPT !.open = TRUE], o.detail, Callback(row, o.phone))

\* sync_appointment_from_outcome
SyncedVisit(o, row) ==
  IF ~row.open /\ o.action # "book" THEN row
  ELSE Backfill([row EXCEPT !.open = TRUE], o.detail, o.phone)

-----------------------------------------------------------------------------
(* A turn.                                                                 *)

BeginIntake ==
  /\ turn.at = "none" /\ turns < MaxTurns
  /\ turns' = turns + 1
  /\ turn' = [NoIntake EXCEPT !.at = "tools", !.outcome = outcomeRow, !.visit = visitRow,
                            !.followUp = followUp, !.began = ticketRow.open]
  /\ UNCHANGED <<callerId, committed, faults>>

Tool(next) ==
  /\ turn.at = "tools" /\ turn.tools < MaxTools
  /\ turn' = [next EXCEPT !.tools = @ + 1]
  /\ UNCHANGED <<callerId, committed, turns, faults>>

\* Without what it needs the tool is refused and nothing written: an emergency
\* needs a number, a visit a name and an address too.
CreateServiceRequest(class, detail, said) ==
  LET phone == Or(Storable(said), Or(turn.outcome.phone, callerId))
      known == Or(detail, turn.outcome.detail)
      o == [class |-> class, detail |-> known, phone |-> phone,
            action |-> IF class = "emergency" THEN "ticket" ELSE "book"]
  IN  /\ phone # Blank
      /\ class # "emergency" => known # Blank
      /\ Tool([turn EXCEPT !.outcome = o,
                           !.ticket = SyncedTicket(o, SeenTicket),
                           !.visit = SyncedVisit(o, turn.visit)])

\* An emergency call is not to be booked.
SelectSlot ==
  /\ ~SeenTicket.open
  /\ Tool([turn EXCEPT !.visit.chosen = TRUE])

\* Mutant: only the turn's own ticket is looked for.
BookUnlessTicketed ==
  /\ ~turn.ticket.open
  /\ turn.visit.open /\ turn.visit.chosen
  /\ Tool([turn EXCEPT !.visit.booked = TRUE, !.books = TRUE])

BookAppointment ==
  /\ ~SeenTicket.open
  /\ turn.visit.open /\ turn.visit.chosen
  /\ Tool([turn EXCEPT !.visit.booked = TRUE, !.books = TRUE])

\* The reply is persisted: a number that is none keeps the one that is known, a
\* name that is not repeated is not kept.
PersistTurn(class, action, detail, said) ==
  /\ turn.at = "tools"
  /\ turn' = [turn EXCEPT !.at = "ticket",
       !.outcome = [class |-> class, action |-> action, detail |-> detail,
                    phone |-> Or(Storable(said), turn.outcome.phone)]]
  /\ UNCHANGED <<callerId, committed, turns, faults>>

SyncTicket ==
  /\ turn.at = "ticket"
  /\ turn' = [turn EXCEPT !.at = "visit",
                          !.ticket = SyncedTicket(turn.outcome, SeenTicket)]
  /\ UNCHANGED <<callerId, committed, turns, faults>>

SyncVisit ==
  /\ turn.at = "visit"
  /\ turn' = [turn EXCEPT !.at = "done",
                          !.visit = SyncedVisit(turn.outcome, turn.visit)]
  /\ UNCHANGED <<callerId, committed, turns, faults>>

Commits(t, at) ==
  /\ outcomeRow' = t.outcome
  /\ ticketRow' = IF t.ticket.open THEN t.ticket ELSE ticketRow
  /\ visitRow' = t.visit
  /\ followUp' = t.followUp
  /\ turn' = [NoIntake EXCEPT !.at = at]
  /\ UNCHANGED <<callerId, turns>>

CommitIntake == turn.at = "done" /\ Commits(turn, "none") /\ UNCHANGED faults

\* open_unconfirmed_emergency: the ticket of a call that has none.
Unconfirmed == [NoTicket EXCEPT !.open = TRUE, !.phone = callerId]

IntakeFault == faults < MaxFaults /\ faults' = faults + 1

\* One sync fails; the next is run.
IntakeSyncFails ==
  /\ IntakeFault
  /\ turn.at \in {"ticket", "visit"}
  /\ turn' = [turn EXCEPT !.at = IF @ = "ticket" THEN "visit" ELSE "done"]
  /\ UNCHANGED <<callerId, committed, turns>>

\* Persisting the reply fails, or the assistant does: the tools' work is
\* committed, and an outage leaves a follow-up, with a ticket if need be.
OutageTurn ==
  /\ IntakeFault
  /\ turn.at = "tools"
  /\ \/ Commits(turn, "none")
     \/ Commits([turn EXCEPT !.followUp = TRUE], "none")
     \/ Commits([turn EXCEPT !.followUp = TRUE,
                   !.ticket = IF SeenTicket.open THEN SeenTicket ELSE Unconfirmed],
                "none")

RollBackIntake ==
  /\ IntakeFault
  /\ turn.at # "none"
  /\ turn' = NoIntake
  /\ UNCHANGED <<callerId, committed, turns>>

\* The end-of-call report: for a call with no record, or one that an outage left
\* a follow-up for, the words may be an emergency.  It waits for a ticket that
\* the turn has inserted.
ReportOpensTicket ==
  /\ followUp \/ ~visitRow.open
  /\ ~ticketRow.open
  /\ ~turn.ticket.open
  /\ ticketRow' = Unconfirmed
  /\ followUp' = TRUE
  /\ UNCHANGED <<callerId, outcomeRow, visitRow, turn, turns, faults>>

IntakeNext ==
  \/ BeginIntake
  \/ \E detail \in Details \union {Blank}, said \in PhonesSaid \union {Garbled, Blank} :
       \/ \E class \in {"emergency", "other"} : CreateServiceRequest(class, detail, said)
       \/ \E class \in {"emergency", "other"}, action \in {"ticket", "book", "none"} :
            PersistTurn(class, action, detail, said)
  \/ SelectSlot \/ BookAppointment
  \/ SyncTicket \/ SyncVisit \/ IntakeSyncFails \/ CommitIntake
  \/ OutageTurn \/ RollBackIntake
  \/ ReportOpensTicket

IntakeSpec == IntakeInit /\ [][IntakeNext]_intakeVars

-----------------------------------------------------------------------------
(* Properties.                                                             *)

Contacts(row) == row.detail \in Details \union {Blank} /\ row.phone \in KeptPhones

\* Every variable holds what the code can put there.
IntakeTypeOK ==
  /\ callerId \in {OwnPhone, Blank}
  /\ \A o \in {outcomeRow, turn.outcome} :
       Contacts(o) /\ o.class \in {"none", "emergency", "other"}
                   /\ o.action \in {"none", "ticket", "book"}
  /\ \A row \in {ticketRow, turn.ticket, visitRow, turn.visit} : Contacts(row)
  /\ \A row \in {visitRow, turn.visit} : row.booked => row.open
  /\ turns \in 0..MaxTurns /\ faults \in 0..MaxFaults

\* Whoever opened it, a ticket has a number to call back if the call had one
\* (DispatchService._with_caller_id_fallback, open_unconfirmed_emergency).
CallbackKnown ==
  ticketRow.open /\ callerId = OwnPhone => ticketRow.phone # Blank

\* A call that has a ticket when a turn begins is not booked in that turn.
EmergencyNotBooked == turn.books => ~turn.began

\* A turn whose syncs ran leaves the appointment with what the call knows.
VisitUpToDate ==
  turn.at = "done" /\ faults = 0 /\ turn.visit.open =>
    /\ turn.outcome.detail \in {Blank, turn.visit.detail}
    /\ turn.outcome.phone \in {Blank, turn.visit.phone}

\* Types, a callback number, no booked emergency, and details brought over.
IntakeInv ==
  IntakeTypeOK /\ CallbackKnown /\ EmergencyNotBooked /\ VisitUpToDate

\* A detail on a ticket or an appointment may be corrected but is never blanked,
\* whatever a later turn leaves out or garbles.
NothingBlanked ==
  [][\A rows \in {<<ticketRow, ticketRow'>>, <<visitRow, visitRow'>>} :
       /\ rows[1].open => rows[2].open
       /\ rows[1].detail # Blank => rows[2].detail # Blank
       /\ rows[1].phone # Blank => rows[2].phone # Blank]_intakeVars

\* What the call knows is on its ticket once the syncs ran.
TicketLearns ==
  turn.at = "done" /\ faults = 0 /\ SeenTicket.open /\ turn.outcome.detail # Blank =>
    SeenTicket.detail # Blank
=============================================================================
