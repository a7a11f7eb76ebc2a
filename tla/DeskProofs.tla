----------------------------- MODULE DeskProofs -----------------------------
(***************************************************************************)
(* For any callers, dispatchers, times and technicians: of the visits      *)
(* whose time was compared with the capacity no more are under way at once *)
(* than there are technicians; a search offers only what a booking         *)
(* accepts; and no time is booked that the caller has not heard. And for   *)
(* any businesses, assistants, phones and commands: a call is answered for *)
(* whom operators last gave its line to, while commands do not overlap.    *)
(*                                                                         *)
(* The capacity holds because whoever has compared still has the booking   *)
(* lock when he writes, and without the lock visits only disappear         *)
(* (Claims). Consent holds because an offer is recorded with the turn it   *)
(* was made in, and is known to the caller once that turn has ended        *)
(* (OffersHeard, TurnHeard).                                               *)
(*                                                                         *)
(* No lock keeps commands on lines apart: what one has read is the table   *)
(* as long as none has overtaken it (UpToDate), and what it may write is   *)
(* what its arguments name (WritesAsNamed).                                *)
(***************************************************************************)
EXTENDS Booking, VoiceLines, FiniteSetTheorems, WellFoundedInduction, TLAPS

-----------------------------------------------------------------------------
(* Who may hold a time.                                                    *)

\* There are finitely many appointments at a time, however many calls.
Made == {c \in Calls : appointment[c].status # "none"}

HasLock(c) == turn[c].lock # "none"
StaffHasLock(d) == staff[d].phase = "writing"

OneHolder ==
  /\ \A c, o \in Calls : HasLock(c) /\ HasLock(o) => c = o
  /\ \A d, e \in Dispatchers : StaffHasLock(d) /\ StaffHasLock(e) => d = e
  /\ \A c \in Calls : \A d \in Dispatchers : ~(HasLock(c) /\ StaffHasLock(d))

\* A turn t of a call.
TurnShape(t) ==
  /\ t.phase = "idle" => t = NoTurn
  /\ t.phase \in {"waiting", "writing"} => t.start # 0 /\ t.length # 0
  /\ t.phase = "writing" => t.lock # "none"
  /\ t.writes.start # 0 => t.writes.length # 0 /\ t.lock = "turn"
  /\ t.writes.schedules => t.writes.start # 0

\* A request r of the dashboard.
StaffShape(r) ==
  /\ r.phase \in {"waiting", "writing"} => r.start # 0 /\ r.length # 0
  /\ r.phase \in {"closing", "loaded"} => r.to \in Closed
  /\ r.phase # "idle" => r.call \in Calls

\* There is a technician for c from s to s + l.
Room(c, s, l) == Cardinality(Overlapping(c, s, l)) < Capacity

\* A time that a turn or a request has compared with the capacity.
Claims(t, s, l) ==
  \/ t.phase = "writing" /\ t.start = s /\ t.length = l
  \/ t.writes.start = s /\ t.writes.length = l

StaffClaims(r, c, s, l) ==
  r.phase = "writing" /\ r.counted /\ r.call = c /\ r.start = s /\ r.length = l

RoomForClaims ==
  \A c \in Calls : \A s \in Starts, l \in Lengths :
    /\ Claims(turn[c], s, l) => Room(c, s, l)
    /\ \A d \in Dispatchers : StaffClaims(staff[d], c, s, l) => Room(c, s, l)

\* The caller of c was told of a visit at s, when earlier turns ended.
Heard(c, s) == \E l \in Lengths : <<s, l>> \in heard[c]

OffersHeard ==
  silent = 0 =>
    \A c \in Calls : \A s \in Starts :
      offered[c][s].length # 0 \/ offered[c][s].selected => Heard(c, s)

TurnHeard(c, t) ==
  /\ \A s \in Starts :
       /\ t.offers[s].length # 0 =>
            \/ Heard(c, s)
            \/ t.offers[s].turn = turns[c] /\ \E l \in Lengths : <<s, l>> \in t.told
       /\ t.offers[s].selected => Heard(c, s)
  /\ t.phase \in {"waiting", "writing"} => Heard(c, t.start)
  /\ t.writes.start # 0 => Heard(c, t.writes.start)

BookingIInv ==
  /\ TypeOK /\ ScheduledHasTime /\ CountedWithinCapacity
  /\ IsFiniteSet(Made) /\ OneHolder /\ RoomForClaims /\ OffersHeard
  /\ \A c \in Calls :
       /\ TurnShape(turn[c])
       /\ turn[c].phase # "idle" => turns[c] < MaxTurns
       /\ silent = 0 => TurnHeard(c, turn[c])
  /\ \A d \in Dispatchers : StaffShape(staff[d])

-----------------------------------------------------------------------------
(* Initial states, and what several steps have in common.                  *)

LEMMA Bounds ==
  /\ Starts \subseteq Nat \ {0} /\ Lengths \subseteq Nat \ {0}
  /\ Capacity \in Nat /\ Opens \in Nat /\ Closes \in Nat /\ Horizon \in Nat
  /\ MaxTurns \in Nat /\ MaxSilent \in Nat
BY StartsAssumption, LengthsAssumption, NumbersAssumption

LEMMA Nothing ==
  /\ NoTurn \in Turns /\ TurnShape(NoTurn) /\ NoTurn.lock = "none" /\ NoTurn.phase = "idle"
  /\ NoTurn.writes.start = 0
  /\ \A s \in Starts : ~NoTurn.offers[s].selected /\ NoTurn.offers[s].length = 0
  /\ NoRequest \in Requests /\ NoRequest.phase = "idle" /\ StaffShape(NoRequest)
  /\ NoAppointment \in AppointmentRows /\ NoAppointment.status = "none"
  /\ NoOffer \in OfferRows /\ ~NoOffer.selected /\ NoOffer.length = 0
<1>1. NoOffer \in OfferRows /\ ~NoOffer.selected /\ NoOffer.length = 0
  BY DEF NoOffer, OfferRows
<1>2. NoWrites \in Writes /\ NoWrites.start = 0 /\ ~NoWrites.schedules
  BY DEF NoWrites, Writes
<1>3. /\ NoTurn \in Turns /\ NoTurn.lock = "none" /\ NoTurn.phase = "idle"
      /\ NoTurn.writes = NoWrites
  BY <1>1, <1>2 DEF NoTurn, Turns
<1>4. \A s \in Starts : ~NoTurn.offers[s].selected /\ NoTurn.offers[s].length = 0
  BY <1>1 DEF NoTurn
<1>5. TurnShape(NoTurn)
  BY <1>2, <1>3 DEF TurnShape
<1>6. NoRequest \in Requests /\ NoRequest.phase = "idle" /\ StaffShape(NoRequest)
  BY DEF NoRequest, Requests, StaffShape
<1>7. NoAppointment \in AppointmentRows /\ NoAppointment.status = "none"
  BY DEF NoAppointment, AppointmentRows
<1>8. QED BY <1>1, <1>2, <1>3, <1>4, <1>5, <1>6, <1>7

\* The visits that the property counts.
Busy(t) == UnderWay({c \in Scheduled : counted[c]}, t)

LEMMA SomeAreMade ==
  ASSUME IsFiniteSet(Made)
  PROVE  /\ \A t : IsFiniteSet(Busy(t)) /\ Cardinality(Busy(t)) \in Nat
         /\ \A c, s, l : /\ IsFiniteSet(Overlapping(c, s, l))
                         /\ Cardinality(Overlapping(c, s, l)) \in Nat
<1>1. ASSUME NEW t PROVE IsFiniteSet(Busy(t)) /\ Cardinality(Busy(t)) \in Nat
  <2>1. Busy(t) \in SUBSET Made
    BY DEF Busy, UnderWay, Scheduled, Made
  <2>2. IsFiniteSet(Busy(t))
    BY <2>1, FS_Subset
  <2>3. QED BY <2>2, FS_CardinalityType
<1>2. ASSUME NEW c, NEW s, NEW l
      PROVE  /\ IsFiniteSet(Overlapping(c, s, l))
             /\ Cardinality(Overlapping(c, s, l)) \in Nat
  <2>1. Overlapping(c, s, l) \in SUBSET Made
    BY DEF Overlapping, Made
  <2>2. IsFiniteSet(Overlapping(c, s, l))
    BY <2>1, FS_Subset
  <2>3. QED BY <2>2, FS_CardinalityType
<1>3. QED BY <1>1, <1>2

LEMMA InitBookingIInv == Init => BookingIInv
<1> SUFFICES ASSUME Init PROVE BookingIInv
  OBVIOUS
<1>1. TypeOK
  BY Nothing, Bounds DEF Init, TypeOK
<1>2. Made = {} /\ Scheduled = {}
  BY Nothing DEF Init, Made, Scheduled
<1>3. ScheduledHasTime
  BY <1>2 DEF ScheduledHasTime
<1>4. CountedWithinCapacity
  <2>1. \A t \in Starts : UnderWay({c \in Scheduled : counted[c]}, t) = {}
    BY <1>2 DEF UnderWay
  <2>2. QED BY <2>1, FS_EmptySet, Bounds DEF CountedWithinCapacity
<1>5. OneHolder
  BY Nothing DEF Init, OneHolder, HasLock, StaffHasLock
<1>6. RoomForClaims
  BY Nothing, Bounds DEF Init, RoomForClaims, Claims, StaffClaims
<1>7. OffersHeard
  BY Nothing DEF Init, OffersHeard
<1>8. /\ \A c \in Calls : TurnShape(turn[c]) /\ turn[c].phase = "idle" /\ TurnHeard(c, turn[c])
      /\ \A d \in Dispatchers : StaffShape(staff[d])
  BY Nothing DEF Init, TurnHeard
<1>9. QED BY <1>1, <1>2, <1>3, <1>4, <1>5, <1>6, <1>7, <1>8, FS_EmptySet DEF BookingIInv

\* Only the holder of the booking lock has a claim.
LEMMA ClaimsHaveLock ==
  ASSUME BookingIInv
  PROVE  /\ \A c \in Calls : \A s \in Starts, l \in Lengths :
              Claims(turn[c], s, l) => HasLock(c)
         /\ \A d \in Dispatchers : \A c, s, l :
              StaffClaims(staff[d], c, s, l) => StaffHasLock(d)
<1>1. ASSUME NEW c \in Calls, NEW s \in Starts, NEW l \in Lengths, Claims(turn[c], s, l)
      PROVE  HasLock(c)
  BY <1>1, Bounds DEF BookingIInv, TurnShape, Claims, HasLock
<1>2. QED BY <1>1 DEF StaffClaims, StaffHasLock

-----------------------------------------------------------------------------
(* A step that only changes a turn.                                        *)

TurnKept(c, t) ==
  /\ t \in Turns /\ TurnShape(t)
  /\ t.phase # "idle" => turns[c] < MaxTurns
  /\ t.lock # "none" => HasLock(c) \/ LockHolders \subseteq {c}
  /\ \A s \in Starts, l \in Lengths : Claims(t, s, l) => Room(c, s, l)
  /\ silent = 0 => TurnHeard(c, t)

LEMMA TurnStepIInv ==
  ASSUME BookingIInv, NEW c \in Calls, NEW t, TurnKept(c, t),
         turn' = [turn EXCEPT ![c] = t],
         UNCHANGED <<tables, earliest, staff, history>>
  PROVE  BookingIInv'
<1>1. /\ appointment' = appointment /\ offered' = offered /\ turns' = turns
      /\ earliest' = earliest /\ staff' = staff /\ counted' = counted /\ heard' = heard
      /\ silent' = silent
  BY DEF tables, history
<1>2. /\ turn \in [Calls -> Turns] /\ t \in Turns /\ TurnShape(t)
      /\ turn' \in [Calls -> Turns] /\ turn'[c] = t
      /\ \A o \in Calls \ {c} : turn'[o] = turn[o]
  BY DEF BookingIInv, TypeOK, TurnKept
<1>3. TypeOK'
  BY <1>1, <1>2 DEF BookingIInv, TypeOK
<1>4. ScheduledHasTime' /\ CountedWithinCapacity' /\ Made' = Made
  BY <1>1 DEF BookingIInv, ScheduledHasTime, CountedWithinCapacity, UnderWay, Scheduled, Made
<1>5. OneHolder'
  <2>1. \A o \in Calls : HasLock(o)' /\ o # c => HasLock(o)
    BY <1>2 DEF HasLock
  <2>2. HasLock(c)' => HasLock(c) \/ LockHolders \subseteq {c}
    BY <1>2 DEF HasLock, TurnKept
  <2>3. \A d \in Dispatchers : StaffHasLock(d)' = StaffHasLock(d)
    BY <1>1 DEF StaffHasLock
  <2>4. LockHolders \subseteq {c} =>
          /\ \A o \in Calls : HasLock(o) => o = c
          /\ \A d \in Dispatchers : ~StaffHasLock(d)
    BY PartiesAssumption DEF LockHolders, HasLock, StaffHasLock
  <2>5. \A o \in Calls : HasLock(o)' /\ HasLock(c)' => o = c
    BY <2>1, <2>2, <2>4 DEF BookingIInv, OneHolder
  <2>6. \A o \in Calls, d \in Dispatchers : ~(HasLock(o)' /\ StaffHasLock(d)')
    BY <2>1, <2>2, <2>3, <2>4 DEF BookingIInv, OneHolder
  <2>7. QED BY <2>1, <2>3, <2>5, <2>6 DEF BookingIInv, OneHolder
<1>6. RoomForClaims'
  <2>1. \A o, s, l : Room(o, s, l)' <=> Room(o, s, l)
    BY <1>1 DEF Room, Overlapping
  <2>2. \A o \in Calls : \A s \in Starts, l \in Lengths : Claims(turn'[o], s, l) => Room(o, s, l)
    BY <1>2 DEF BookingIInv, RoomForClaims, TurnKept
  <2>3. QED BY <1>1, <2>1, <2>2 DEF BookingIInv, RoomForClaims, Claims, StaffClaims
<1>7. OffersHeard'
  BY <1>1 DEF BookingIInv, OffersHeard, Heard
<1>8. \A o \in Calls : /\ TurnShape(turn'[o])
                       /\ turn'[o].phase # "idle" => turns[o] < MaxTurns
                       /\ silent = 0 => TurnHeard(o, turn'[o])
  BY <1>2 DEF BookingIInv, TurnKept
<1>9. \A o \in Calls : /\ TurnShape(turn[o])'
                       /\ turn'[o].phase # "idle" => turns'[o] < MaxTurns
                       /\ silent' = 0 => TurnHeard(o, turn[o])'
  BY <1>1, <1>8 DEF TurnShape, TurnHeard, Heard
<1>10. \A d \in Dispatchers : StaffShape(staff[d])'
  BY <1>1 DEF BookingIInv, StaffShape
<1>11. QED BY <1>3, <1>4, <1>5, <1>6, <1>7, <1>9, <1>10 DEF BookingIInv

LEMMA TurnTyped ==
  ASSUME BookingIInv, NEW c \in Calls
  PROVE  /\ turn[c] \in Turns /\ turn[c].offers \in [Starts -> OfferRows]
         /\ turn[c].writes \in Writes /\ turns[c] \in 0..MaxTurns
         /\ TurnShape(turn[c]) /\ offered[c] \in [Starts -> OfferRows]
         /\ appointment[c] \in AppointmentRows
BY DEF BookingIInv, TypeOK, Turns

LEMMA BeginTurnIInv ==
  ASSUME BookingIInv, NEW c \in Calls, BeginTurn(c) PROVE BookingIInv'
<1>1. PICK t : t = [NoTurn EXCEPT !.phase = "open", !.offers = offered[c]]
  OBVIOUS
<1>2. /\ turn' = [turn EXCEPT ![c] = t] /\ UNCHANGED <<tables, earliest, staff, history>>
      /\ turns[c] < MaxTurns
  BY <1>1 DEF BeginTurn
<1>3. /\ t \in Turns /\ t.phase = "open" /\ t.lock = "none" /\ t.writes = NoWrites
      /\ t.offers = offered[c]
  BY <1>1, TurnTyped DEF NoTurn, NoWrites, Turns, Writes
<1>4. NoWrites.start = 0 /\ ~NoWrites.schedules
  BY DEF NoWrites
<1>5. silent = 0 => TurnHeard(c, t)
  BY <1>3, <1>4 DEF BookingIInv, OffersHeard, TurnHeard
<1>6. TurnKept(c, t)
  BY <1>2, <1>3, <1>4, <1>5, Bounds DEF TurnKept, TurnShape, Claims
<1>7. QED BY <1>2, <1>6, TurnStepIInv

\* What a request for service, or the sync after a reply, adds to the writes.
LEMMA RequestedKeeps ==
  ASSUME BookingIInv, NEW c \in Calls, NEW w, w = Requested(c, turn[c].writes)
  PROVE  /\ w \in Writes /\ w.start = turn[c].writes.start
         /\ w.length = turn[c].writes.length /\ w.schedules = turn[c].writes.schedules
BY TurnTyped DEF Requested, Writes

LEMMA CreateServiceRequestIInv ==
  ASSUME BookingIInv, NEW c \in Calls, CreateServiceRequest(c) PROVE BookingIInv'
<1>1. PICK w : w = Requested(c, turn[c].writes)
  OBVIOUS
<1>2. PICK row \in BOOLEAN : row = (turn[c].row \/ appointment[c].status # "none")
  OBVIOUS
<1>3. PICK t : t = [turn[c] EXCEPT !.writes = w, !.row = row]
  OBVIOUS
<1>4. /\ turn' = [turn EXCEPT ![c] = t] /\ UNCHANGED <<tables, earliest, staff, history>>
      /\ turn[c].phase = "open"
  BY <1>1, <1>2, <1>3 DEF CreateServiceRequest
<1>5. /\ w \in Writes /\ w.start = turn[c].writes.start
      /\ w.length = turn[c].writes.length /\ w.schedules = turn[c].writes.schedules
  BY <1>1, RequestedKeeps
<1>6. /\ t \in Turns /\ t.phase = "open" /\ t.lock = turn[c].lock /\ t.writes = w
      /\ t.offers = turn[c].offers /\ t.told = turn[c].told
  BY <1>3, <1>4, <1>5, TurnTyped DEF Turns
<1>7. silent = 0 => TurnHeard(c, t)
  BY <1>4, <1>5, <1>6 DEF BookingIInv, TurnHeard
<1>8. \A s \in Starts, l \in Lengths : Claims(t, s, l) => Claims(turn[c], s, l)
  BY <1>5, <1>6 DEF Claims
<1>9. TurnShape(t)
  BY <1>4, <1>5, <1>6, TurnTyped DEF TurnShape
<1>10. TurnKept(c, t)
  BY <1>4, <1>6, <1>7, <1>8, <1>9 DEF TurnKept, BookingIInv, RoomForClaims, HasLock
<1>11. QED BY <1>4, <1>10, TurnStepIInv

\* Tools that change nothing but the offers and what was told.
LEMMA OffersIInv ==
  ASSUME BookingIInv, NEW c \in Calls, turn[c].phase = "open",
         NEW offers \in [Starts -> OfferRows], NEW told \in SUBSET (Starts \X Lengths),
         turn' = [turn EXCEPT ![c] = [turn[c] EXCEPT !.offers = offers, !.told = told]],
         UNCHANGED <<tables, earliest, staff, history>>,
         silent = 0 =>
           \A s \in Starts :
             /\ offers[s].length # 0 =>
                  \/ Heard(c, s)
                  \/ offers[s].turn = turns[c] /\ \E l \in Lengths : <<s, l>> \in told
             /\ offers[s].selected => Heard(c, s)
  PROVE  BookingIInv'
<1>1. PICK t : t = [turn[c] EXCEPT !.offers = offers, !.told = told]
  OBVIOUS
<1>2. turn' = [turn EXCEPT ![c] = t]
  BY <1>1
<1>3. /\ t \in Turns /\ t.phase = "open" /\ t.lock = turn[c].lock
      /\ t.writes = turn[c].writes /\ t.offers = offers /\ t.told = told
  BY <1>1, TurnTyped DEF Turns
<1>4. silent = 0 => TurnHeard(c, t)
  BY <1>3 DEF BookingIInv, TurnHeard
<1>5. \A s \in Starts, l \in Lengths : Claims(t, s, l) => Claims(turn[c], s, l)
  BY <1>3 DEF Claims
<1>6. TurnShape(t)
  BY <1>3, TurnTyped DEF TurnShape
<1>7. TurnKept(c, t)
  BY <1>3, <1>4, <1>5, <1>6 DEF TurnKept, BookingIInv, RoomForClaims, HasLock
<1>8. QED BY <1>2, <1>7, TurnStepIInv

LEMMA CheckAvailabilityIInv ==
  ASSUME BookingIInv, NEW c \in Calls, NEW l \in Lengths, CheckAvailability(c, l)
  PROVE  BookingIInv'
<1>1. PICK found \in SUBSET FindSlots(c, l) :
        turn' = [turn EXCEPT ![c] =
          [turn[c] EXCEPT !.offers = RecordOffered(turn[c].offers, found, l, turns[c]),
                          !.told = turn[c].told \union {<<s, l>> : s \in found}]]
  BY DEF CheckAvailability
<1>2. PICK offers : offers = RecordOffered(turn[c].offers, found, l, turns[c])
  OBVIOUS
<1>3. PICK told : told = turn[c].told \union {<<s, l>> : s \in found}
  OBVIOUS
<1>4. found \subseteq Starts
  BY DEF FindSlots
<1>5. /\ turn[c].told \in SUBSET (Starts \X Lengths)
      /\ turn[c].offers \in [Starts -> OfferRows] /\ turns[c] \in Nat
  BY TurnTyped, Bounds DEF Turns
<1>6. ASSUME NEW s \in Starts
      PROVE  /\ offers[s] \in OfferRows
             /\ s \notin found => offers[s] = turn[c].offers[s]
             /\ s \in found /\ turn[c].offers[s].length = 0 =>
                  offers[s].turn = turns[c] /\ ~offers[s].selected
             /\ s \in found /\ turn[c].offers[s].length # 0 =>
                  /\ offers[s].turn = turn[c].offers[s].turn
                  /\ offers[s].selected = turn[c].offers[s].selected
  <2>1. turn[c].offers[s] \in OfferRows
    BY <1>5
  <2>2. CASE s \notin found
    <3>1. offers[s] = turn[c].offers[s]
      BY <1>2, <2>2 DEF RecordOffered
    <3>2. QED BY <2>1, <2>2, <3>1
  <2>3. CASE s \in found /\ turn[c].offers[s].length = 0
    <3>1. offers[s] = [length |-> l, turn |-> turns[c], selected |-> FALSE]
      BY <1>2, <2>3 DEF RecordOffered
    <3>2. QED BY <1>5, <2>3, <3>1 DEF OfferRows
  <2>4. CASE s \in found /\ turn[c].offers[s].length # 0
    <3>1. offers[s] = [turn[c].offers[s] EXCEPT !.length = l]
      BY <1>2, <2>4 DEF RecordOffered
    <3>2. QED BY <2>1, <2>4, <3>1 DEF OfferRows
  <2>5. QED BY <2>2, <2>3, <2>4
<1>7. offers \in [Starts -> OfferRows]
  BY <1>2, <1>6 DEF RecordOffered
<1>8. told \in SUBSET (Starts \X Lengths)
  BY <1>3, <1>4, <1>5
<1>9. ASSUME silent = 0, NEW s \in Starts
      PROVE  /\ offers[s].length # 0 =>
                  \/ Heard(c, s)
                  \/ offers[s].turn = turns[c] /\ \E k \in Lengths : <<s, k>> \in told
             /\ offers[s].selected => Heard(c, s)
  <2>1. /\ turn[c].offers[s].length # 0 =>
             \/ Heard(c, s)
             \/ /\ turn[c].offers[s].turn = turns[c]
                /\ \E k \in Lengths : <<s, k>> \in turn[c].told
        /\ turn[c].offers[s].selected => Heard(c, s)
    BY <1>9 DEF BookingIInv, TurnHeard
  <2>2. turn[c].told \subseteq told
    BY <1>3
  <2>3. CASE s \notin found
    BY <1>6, <2>1, <2>2, <2>3
  <2>4. CASE s \in found
    <3>1. <<s, l>> \in told
      BY <1>3, <2>4
    <3>2. CASE turn[c].offers[s].length = 0
      BY <1>6, <2>4, <3>1, <3>2
    <3>3. CASE turn[c].offers[s].length # 0
      BY <1>6, <2>1, <2>4, <3>1, <3>3
    <3>4. QED BY <3>2, <3>3
  <2>5. QED BY <2>3, <2>4
<1>10. /\ turn' = [turn EXCEPT ![c] = [turn[c] EXCEPT !.offers = offers, !.told = told]]
       /\ turn[c].phase = "open" /\ UNCHANGED <<tables, earliest, staff, history>>
  BY <1>1, <1>2, <1>3 DEF CheckAvailability
<1>11. QED BY <1>7, <1>8, <1>9, <1>10, OffersIInv

LEMMA SelectAppointmentSlotIInv ==
  ASSUME BookingIInv, NEW c \in Calls, NEW s \in Starts, SelectAppointmentSlot(c, s)
  PROVE  BookingIInv'
<1>1. PICK offers : offers = MarkSelected(turn[c].offers, s)
  OBVIOUS
<1>2. PICK told : told = turn[c].told
  OBVIOUS
<1>3. /\ turn' = [turn EXCEPT ![c] = [turn[c] EXCEPT !.offers = offers]]
      /\ turn[c].phase = "open" /\ UNCHANGED <<tables, earliest, staff, history>>
      /\ turn[c].offers[s].length # 0 /\ turn[c].offers[s].turn < turns[c]
  BY <1>1 DEF SelectAppointmentSlot
<1>4. turn[c] \in Turns /\ told \in SUBSET (Starts \X Lengths)
  BY <1>2, TurnTyped DEF Turns
<1>5. turn' = [turn EXCEPT ![c] = [turn[c] EXCEPT !.offers = offers, !.told = told]]
  <2>1. [turn[c] EXCEPT !.offers = offers] = [turn[c] EXCEPT !.offers = offers, !.told = told]
    BY <1>2, <1>4 DEF Turns
  <2>2. QED BY <1>3, <2>1
<1>6. \A x \in Starts : turn[c].offers[x] \in OfferRows
  BY TurnTyped
<1>7. \A x \in Starts : /\ offers[x] \in OfferRows /\ offers[x].selected = (x = s)
                        /\ offers[x].length = turn[c].offers[x].length
                        /\ offers[x].turn = turn[c].offers[x].turn
  BY <1>1, <1>6 DEF MarkSelected, OfferRows
<1>8. offers \in [Starts -> OfferRows]
  BY <1>1, <1>7 DEF MarkSelected
<1>9. silent = 0 => Heard(c, s)
  <2>1. turn[c].offers[s].turn \in Nat /\ turns[c] \in Nat
    BY <1>6, TurnTyped, Bounds DEF OfferRows
  <2>2. QED BY <1>3, <2>1 DEF BookingIInv, TurnHeard
<1>10. silent = 0 =>
         \A x \in Starts :
           /\ offers[x].length # 0 =>
                \/ Heard(c, x)
                \/ offers[x].turn = turns[c] /\ \E l \in Lengths : <<x, l>> \in told
           /\ offers[x].selected => Heard(c, x)
  BY <1>2, <1>7, <1>9 DEF BookingIInv, TurnHeard
<1>11. QED BY <1>3, <1>4, <1>5, <1>8, <1>10, OffersIInv

LEMMA BookForConversationIInv ==
  ASSUME BookingIInv, NEW c \in Calls, NEW s \in Starts, BookForConversation(c, s)
  PROVE  BookingIInv'
<1>1. PICK l \in QuotedLengths(c, s) :
        turn' = [turn EXCEPT ![c] =
          [turn[c] EXCEPT !.phase = "waiting", !.start = s,
                          !.length = IF l # 0 THEN l ELSE turn[c].offers[s].length]]
  BY DEF BookForConversation
<1>2. PICK length : length = IF l # 0 THEN l ELSE turn[c].offers[s].length
  OBVIOUS
<1>3. PICK t : t = [turn[c] EXCEPT !.phase = "waiting", !.start = s, !.length = length]
  OBVIOUS
<1>4. /\ turn' = [turn EXCEPT ![c] = t] /\ UNCHANGED <<tables, earliest, staff, history>>
      /\ turn[c].phase = "open" /\ turn[c].offers[s].length # 0 /\ turn[c].offers[s].selected
  BY <1>1, <1>2, <1>3 DEF BookForConversation
<1>5. length \in Lengths
  BY <1>2, <1>4, TurnTyped DEF QuotedLengths, OfferRows
<1>6. /\ t \in Turns /\ t.phase = "waiting" /\ t.lock = turn[c].lock
      /\ t.writes = turn[c].writes /\ t.offers = turn[c].offers /\ t.told = turn[c].told
      /\ t.start = s /\ t.length = length
  BY <1>3, <1>5, TurnTyped DEF Turns
<1>7. silent = 0 => TurnHeard(c, t)
  BY <1>4, <1>6 DEF BookingIInv, TurnHeard
<1>8. \A x \in Starts, l1 \in Lengths : Claims(t, x, l1) => Claims(turn[c], x, l1)
  BY <1>6 DEF Claims
<1>9. TurnShape(t)
  BY <1>4, <1>5, <1>6, TurnTyped, Bounds DEF TurnShape
<1>10. TurnKept(c, t)
  BY <1>4, <1>6, <1>7, <1>8, <1>9 DEF TurnKept, BookingIInv, RoomForClaims, HasLock
<1>11. QED BY <1>4, <1>10, TurnStepIInv

\* A tool that is done, with what it leaves of the lock, the offers and the writes.
LEMMA DoneKeeps ==
  ASSUME BookingIInv, NEW c \in Calls, NEW t \in Turns,
         turn[c].phase \in {"waiting", "writing"},
         t.phase = "open", t.writes = turn[c].writes, t.told = turn[c].told,
         t.lock # "none" => HasLock(c) \/ LockHolders \subseteq {c},
         turn[c].lock = "turn" => t.lock = "turn",
         \A s \in Starts : /\ t.offers[s].length = turn[c].offers[s].length
                           /\ t.offers[s].turn = turn[c].offers[s].turn
                           /\ t.offers[s].selected => turn[c].offers[s].selected
  PROVE  TurnKept(c, t)
<1>1. silent = 0 => TurnHeard(c, t)
  BY DEF BookingIInv, TurnHeard
<1>2. \A s \in Starts, l \in Lengths : Claims(t, s, l) => Claims(turn[c], s, l)
  BY DEF Claims
<1>3. TurnShape(t)
  BY TurnTyped DEF TurnShape
<1>4. QED BY <1>1, <1>2, <1>3 DEF TurnKept, BookingIInv, RoomForClaims

LEMMA VerifySlotIInv ==
  ASSUME BookingIInv, NEW c \in Calls, VerifySlot(c) PROVE BookingIInv'
<1> UNCHANGED <<tables, earliest, staff, history>> /\ turn[c].phase = "waiting"
      /\ LockHolders \subseteq {c}
  BY DEF VerifySlot
<1>1. /\ turn[c] \in Turns /\ turn[c].start \in Starts /\ turn[c].length \in Lengths
  BY TurnTyped DEF Turns, TurnShape
<1>2. CASE Verdict(c, turn[c].start, turn[c].length) = "bookable"
  <2>1. PICK lock : lock = IF turn[c].lock = "none" THEN "tool" ELSE turn[c].lock
    OBVIOUS
  <2>2. PICK loaded : loaded = Own(c).status
    OBVIOUS
  <2>3. PICK t : t = [turn[c] EXCEPT !.phase = "writing", !.loaded = loaded, !.lock = lock]
    OBVIOUS
  <2>4. turn' = [turn EXCEPT ![c] = t]
    BY <1>2, <2>1, <2>2, <2>3 DEF VerifySlot
  <2>5. loaded \in Status \union {"none"}
    BY <2>2, TurnTyped DEF Own, Written, AppointmentRows, Status
  <2>6. lock \in {"tool", "turn"} /\ (turn[c].lock = "turn" => lock = "turn")
    BY <1>1, <2>1 DEF Turns
  <2>7. /\ t \in Turns /\ t.phase = "writing" /\ t.lock = lock /\ t.writes = turn[c].writes
        /\ t.offers = turn[c].offers /\ t.told = turn[c].told
        /\ t.start = turn[c].start /\ t.length = turn[c].length
    BY <1>1, <2>3, <2>5, <2>6 DEF Turns
  <2>8. Room(c, turn[c].start, turn[c].length)
    <3>1. ~(Cardinality(Overlapping(c, turn[c].start, turn[c].length)) >= Capacity)
      BY <1>2 DEF Verdict
    <3>2. Cardinality(Overlapping(c, turn[c].start, turn[c].length)) \in Nat
      BY SomeAreMade DEF BookingIInv
    <3>3. QED BY <3>1, <3>2, Bounds DEF Room
  <2>9. \A s \in Starts, l \in Lengths : Claims(t, s, l) => Room(c, s, l)
    <3>1. ASSUME NEW s \in Starts, NEW l \in Lengths, Claims(t, s, l) PROVE Room(c, s, l)
      <4>1. CASE t.start = s /\ t.length = l
        BY <2>7, <2>8, <4>1
      <4>2. CASE t.writes.start = s /\ t.writes.length = l
        <5>1. Claims(turn[c], s, l)
          BY <2>7, <4>2 DEF Claims
        <5>2. QED BY <5>1 DEF BookingIInv, RoomForClaims
      <4>3. QED BY <3>1, <4>1, <4>2 DEF Claims
    <3>2. QED BY <3>1
  <2>10. silent = 0 => TurnHeard(c, t)
    BY <2>7 DEF BookingIInv, TurnHeard
  <2>11. TurnShape(t)
    BY <2>6, <2>7, TurnTyped DEF TurnShape
  <2>12. TurnKept(c, t)
    BY <2>7, <2>9, <2>10, <2>11 DEF TurnKept, BookingIInv
  <2>13. QED BY <2>4, <2>12, TurnStepIInv
<1>3. CASE Verdict(c, turn[c].start, turn[c].length) # "bookable"
  <2>1. PICK offers : offers = Retract(turn[c].offers)
    OBVIOUS
  <2>2. PICK t : t = [Done(turn[c]) EXCEPT !.lock = "turn", !.offers = offers]
    OBVIOUS
  <2>3. turn' = [turn EXCEPT ![c] = t]
    BY <1>3, <2>1, <2>2 DEF VerifySlot
  <2>4. \A s \in Starts : turn[c].offers[s] \in OfferRows
    BY TurnTyped
  <2>5. \A s \in Starts : /\ offers[s] \in OfferRows /\ ~offers[s].selected
                          /\ offers[s].length = turn[c].offers[s].length
                          /\ offers[s].turn = turn[c].offers[s].turn
    BY <2>1, <2>4 DEF Retract, OfferRows
  <2>6. offers \in [Starts -> OfferRows]
    BY <2>1, <2>5 DEF Retract
  <2>7. /\ t \in Turns /\ t.phase = "open" /\ t.lock = "turn" /\ t.writes = turn[c].writes
        /\ t.told = turn[c].told /\ t.offers = offers
    BY <1>1, <2>2, <2>6 DEF Done, Turns
  <2>8. TurnKept(c, t)
    BY <2>5, <2>7, DoneKeeps
  <2>9. QED BY <2>3, <2>8, TurnStepIInv
<1>4. QED BY <1>2, <1>3

LEMMA BookSlotIInv ==
  ASSUME BookingIInv, NEW c \in Calls, BookSlot(c) PROVE BookingIInv'
<1> UNCHANGED <<tables, earliest, staff, history>> /\ turn[c].phase = "writing"
  BY DEF BookSlot
<1>1. /\ turn[c] \in Turns /\ turn[c].writes \in Writes
      /\ turn[c].start \in Starts /\ turn[c].length \in Lengths
  BY TurnTyped DEF Turns, TurnShape
<1>2. PICK w : w = [created |-> turn[c].writes.created, start |-> turn[c].start,
                    length |-> turn[c].length,
                    schedules |-> turn[c].writes.schedules \/ turn[c].loaded # "scheduled"]
  OBVIOUS
<1>3. PICK row \in BOOLEAN : row = (turn[c].row \/ appointment[c].status # "none")
  OBVIOUS
<1>4. PICK t : t = [Done(turn[c]) EXCEPT !.lock = "turn", !.row = row, !.writes = w]
  OBVIOUS
<1>5. turn' = [turn EXCEPT ![c] = t]
  BY <1>2, <1>3, <1>4 DEF BookSlot
<1>6. w \in Writes /\ w.start = turn[c].start /\ w.length = turn[c].length
  BY <1>1, <1>2 DEF Writes
<1>7. /\ t \in Turns /\ t.phase = "open" /\ t.lock = "turn" /\ t.writes = w
      /\ t.offers = turn[c].offers /\ t.told = turn[c].told
  BY <1>1, <1>4, <1>6 DEF Done, Turns
<1>8. TurnShape(t) /\ HasLock(c)
  BY <1>1, <1>6, <1>7, TurnTyped, Bounds DEF TurnShape, HasLock
<1>9. \A s \in Starts, l \in Lengths : Claims(t, s, l) => Claims(turn[c], s, l)
  BY <1>6, <1>7 DEF Claims
<1>10. silent = 0 => TurnHeard(c, t)
  BY <1>6, <1>7 DEF BookingIInv, TurnHeard
<1>11. TurnKept(c, t)
  BY <1>7, <1>8, <1>9, <1>10 DEF TurnKept, BookingIInv, RoomForClaims
<1>12. QED BY <1>5, <1>11, TurnStepIInv

LEMMA ToolFailsIInv ==
  ASSUME BookingIInv, NEW c \in Calls, ToolFails(c) PROVE BookingIInv'
<1>1. PICK lock : lock = IF turn[c].lock = "tool" THEN "none" ELSE turn[c].lock
  OBVIOUS
<1>2. PICK t : t = [Done(turn[c]) EXCEPT !.lock = lock]
  OBVIOUS
<1>3. /\ turn' = [turn EXCEPT ![c] = t] /\ UNCHANGED <<tables, earliest, staff, history>>
      /\ turn[c].phase \in {"waiting", "writing"}
  BY <1>1, <1>2 DEF ToolFails
<1>4. /\ turn[c] \in Turns /\ turn[c].lock \in {"none", "tool", "turn"}
  BY TurnTyped DEF Turns
<1>5. lock \in {"none", "turn"} /\ (lock = "turn" <=> turn[c].lock = "turn")
  BY <1>1, <1>4
<1>6. /\ t \in Turns /\ t.phase = "open" /\ t.lock = lock /\ t.writes = turn[c].writes
      /\ t.told = turn[c].told /\ t.offers = turn[c].offers
  BY <1>2, <1>4, <1>5 DEF Done, Turns
<1>7. TurnKept(c, t)
  BY <1>3, <1>5, <1>6, DoneKeeps DEF HasLock
<1>8. QED BY <1>3, <1>7, TurnStepIInv

LEMMA RollBackTurnIInv ==
  ASSUME BookingIInv, NEW c \in Calls, RollBackTurn(c) PROVE BookingIInv'
<1>1. /\ turn' = [turn EXCEPT ![c] = NoTurn] /\ UNCHANGED <<tables, earliest, staff, history>>
  BY DEF RollBackTurn
<1>2. TurnKept(c, NoTurn)
  BY Nothing, Bounds DEF TurnKept, TurnHeard, Claims
<1>3. QED BY <1>1, <1>2, TurnStepIInv

-----------------------------------------------------------------------------
(* A step that only changes a request of the dashboard.                    *)

StaffKept(r) ==
  /\ r \in Requests /\ StaffShape(r)
  /\ r.phase = "writing" => LockHolders = {}
  /\ \A c \in Calls : \A s \in Starts, l \in Lengths :
       StaffClaims(r, c, s, l) => Room(c, s, l)

LEMMA StaffStepIInv ==
  ASSUME BookingIInv, NEW d \in Dispatchers, NEW r, StaffKept(r),
         staff' = [staff EXCEPT ![d] = r],
         UNCHANGED <<tables, earliest, turn, history>>
  PROVE  BookingIInv'
<1>1. /\ appointment' = appointment /\ offered' = offered /\ turns' = turns
      /\ earliest' = earliest /\ turn' = turn /\ counted' = counted /\ heard' = heard
      /\ silent' = silent
  BY DEF tables, history
<1>2. /\ staff \in [Dispatchers -> Requests] /\ r \in Requests /\ StaffShape(r)
      /\ staff' \in [Dispatchers -> Requests] /\ staff'[d] = r
      /\ \A e \in Dispatchers \ {d} : staff'[e] = staff[e]
  BY DEF BookingIInv, TypeOK, StaffKept
<1>3. TypeOK'
  BY <1>1, <1>2 DEF BookingIInv, TypeOK
<1>4. ScheduledHasTime' /\ CountedWithinCapacity' /\ Made' = Made
  BY <1>1 DEF BookingIInv, ScheduledHasTime, CountedWithinCapacity, UnderWay, Scheduled, Made
<1>5. OneHolder'
  <2>1. \A e \in Dispatchers : StaffHasLock(e)' /\ e # d => StaffHasLock(e)
    BY <1>2 DEF StaffHasLock
  <2>2. StaffHasLock(d)' => LockHolders = {}
    BY <1>2 DEF StaffHasLock, StaffKept
  <2>3. \A c \in Calls : HasLock(c)' = HasLock(c)
    BY <1>1 DEF HasLock
  <2>4. LockHolders = {} => /\ \A c \in Calls : ~HasLock(c)
                            /\ \A e \in Dispatchers : ~StaffHasLock(e)
    BY DEF LockHolders, HasLock, StaffHasLock
  <2>5. QED BY <2>1, <2>2, <2>3, <2>4 DEF BookingIInv, OneHolder
<1>6. RoomForClaims'
  <2>1. \A c, s, l : Room(c, s, l)' <=> Room(c, s, l)
    BY <1>1 DEF Room, Overlapping
  <2>2. \A e \in Dispatchers, c \in Calls : \A s \in Starts, l \in Lengths :
          StaffClaims(staff'[e], c, s, l) => Room(c, s, l)
    BY <1>2 DEF BookingIInv, RoomForClaims, StaffKept
  <2>3. QED BY <1>1, <2>1, <2>2 DEF BookingIInv, RoomForClaims, Claims, StaffClaims
<1>7. OffersHeard'
  BY <1>1 DEF BookingIInv, OffersHeard, Heard
<1>8. \A c \in Calls : /\ TurnShape(turn[c])'
                       /\ turn'[c].phase # "idle" => turns'[c] < MaxTurns
                       /\ silent' = 0 => TurnHeard(c, turn[c])'
  BY <1>1 DEF BookingIInv, TurnShape, TurnHeard, Heard
<1>9. \A e \in Dispatchers : StaffShape(staff'[e])
  BY <1>2 DEF BookingIInv
<1>10. \A e \in Dispatchers : StaffShape(staff[e])'
  BY <1>9 DEF StaffShape
<1>11. QED BY <1>3, <1>4, <1>5, <1>6, <1>7, <1>8, <1>10 DEF BookingIInv

LEMMA StaffTyped ==
  ASSUME BookingIInv, NEW d \in Dispatchers
  PROVE  staff[d] \in Requests /\ StaffShape(staff[d])
BY DEF BookingIInv, TypeOK

LEMMA ScheduleAppointmentIInv ==
  ASSUME BookingIInv, NEW d \in Dispatchers, NEW c \in Calls, NEW s \in Starts,
         NEW l \in Lengths, ScheduleAppointment(d, c, s, l)
  PROVE  BookingIInv'
<1>1. PICK r : r = [NoRequest EXCEPT !.phase = "waiting", !.call = c, !.start = s,
                                     !.length = l]
  OBVIOUS
<1>2. staff' = [staff EXCEPT ![d] = r] /\ UNCHANGED <<tables, earliest, turn, history>>
  BY <1>1 DEF ScheduleAppointment
<1>3. /\ r \in Requests /\ r.phase = "waiting" /\ r.call = c /\ r.start = s /\ r.length = l
  BY <1>1 DEF NoRequest, Requests
<1>4. StaffKept(r)
  BY <1>3, Bounds DEF StaffKept, StaffShape, StaffClaims
<1>5. QED BY <1>2, <1>4, StaffStepIInv

LEMMA VerifyForStaffIInv ==
  ASSUME BookingIInv, NEW d \in Dispatchers, VerifyForStaff(d) PROVE BookingIInv'
<1>1. PICK q, verdict : q = staff[d] /\ verdict = Verdict(q.call, q.start, q.length)
  OBVIOUS
<1>2. /\ q.phase = "waiting" /\ LockHolders = {}
      /\ UNCHANGED <<tables, earliest, turn, history>>
  BY <1>1 DEF VerifyForStaff
<1>3. /\ q \in Requests /\ q.call \in Calls /\ q.start \in Starts /\ q.length \in Lengths
  BY <1>1, <1>2, StaffTyped DEF StaffShape, Requests
<1>4. CASE verdict = "full"
  <2>1. staff' = [staff EXCEPT ![d] = NoRequest]
    BY <1>1, <1>4 DEF VerifyForStaff
  <2>2. StaffKept(NoRequest)
    BY Nothing DEF StaffKept, StaffClaims
  <2>3. QED BY <1>2, <2>1, <2>2, StaffStepIInv
<1>5. CASE verdict # "full"
  <2>1. PICK loaded : loaded = appointment[q.call].status
    OBVIOUS
  <2>2. PICK compared \in BOOLEAN : compared = (verdict = "bookable")
    OBVIOUS
  <2>3. PICK r : r = [q EXCEPT !.phase = "writing", !.loaded = loaded, !.counted = compared]
    OBVIOUS
  <2>4. staff' = [staff EXCEPT ![d] = r]
    BY <1>1, <1>5, <2>1, <2>2, <2>3 DEF VerifyForStaff
  <2>5. loaded \in Status \union {"none"}
    BY <1>3, <2>1, TurnTyped DEF AppointmentRows
  <2>6. /\ r \in Requests /\ r.phase = "writing" /\ r.call = q.call /\ r.start = q.start
        /\ r.length = q.length /\ r.counted = compared
    BY <1>3, <2>3, <2>5 DEF Requests
  <2>7. compared => Room(q.call, q.start, q.length)
    <3>1. compared => ~(Cardinality(Overlapping(q.call, q.start, q.length)) >= Capacity)
      BY <1>1, <2>2 DEF Verdict
    <3>2. Cardinality(Overlapping(q.call, q.start, q.length)) \in Nat
      BY SomeAreMade DEF BookingIInv
    <3>3. QED BY <3>1, <3>2, Bounds DEF Room
  <2>8. StaffKept(r)
    BY <1>2, <1>3, <2>6, <2>7, Bounds DEF StaffKept, StaffShape, StaffClaims
  <2>9. QED BY <1>2, <2>4, <2>8, StaffStepIInv
<1>6. QED BY <1>4, <1>5

LEMMA UpdateStatusIInv ==
  ASSUME BookingIInv, NEW d \in Dispatchers, NEW c \in Calls, NEW to \in Closed,
         UpdateStatus(d, c, to)
  PROVE  BookingIInv'
<1>1. PICK r : r = [NoRequest EXCEPT !.phase = "closing", !.call = c, !.to = to]
  OBVIOUS
<1>2. staff' = [staff EXCEPT ![d] = r] /\ UNCHANGED <<tables, earliest, turn, history>>
  BY <1>1 DEF UpdateStatus
<1>3. r \in Requests /\ r.phase = "closing" /\ r.call = c /\ r.to = to
  BY <1>1 DEF NoRequest, Requests, Status, Closed
<1>4. StaffKept(r)
  BY <1>3 DEF StaffKept, StaffShape, StaffClaims
<1>5. QED BY <1>2, <1>4, StaffStepIInv

LEMMA LoadForStatusIInv ==
  ASSUME BookingIInv, NEW d \in Dispatchers, LoadForStatus(d) PROVE BookingIInv'
<1>1. PICK loaded : loaded = appointment[staff[d].call].status
  OBVIOUS
<1>2. PICK r : r = [staff[d] EXCEPT !.phase = "loaded", !.loaded = loaded]
  OBVIOUS
<1>3. /\ staff' = [staff EXCEPT ![d] = r] /\ UNCHANGED <<tables, earliest, turn, history>>
      /\ staff[d].phase = "closing"
  BY <1>1, <1>2 DEF LoadForStatus
<1>4. /\ staff[d] \in Requests /\ staff[d].call \in Calls /\ staff[d].to \in Closed
  BY <1>3, StaffTyped DEF StaffShape
<1>5. loaded \in Status \union {"none"}
  BY <1>1, <1>4, TurnTyped DEF AppointmentRows
<1>6. /\ r \in Requests /\ r.phase = "loaded" /\ r.call = staff[d].call /\ r.to = staff[d].to
  BY <1>2, <1>4, <1>5 DEF Requests
<1>7. StaffKept(r)
  BY <1>4, <1>6 DEF StaffKept, StaffShape, StaffClaims
<1>8. QED BY <1>3, <1>7, StaffStepIInv

LEMMA RequestFailsIInv ==
  ASSUME BookingIInv, NEW d \in Dispatchers, RequestFails(d) PROVE BookingIInv'
<1>1. StaffKept(NoRequest)
  BY Nothing DEF StaffKept, StaffClaims
<1>2. QED BY <1>1, StaffStepIInv DEF RequestFails

LEMMA TimePassesIInv == ASSUME BookingIInv, TimePasses PROVE BookingIInv'
<1>1. /\ appointment' = appointment /\ offered' = offered /\ turns' = turns /\ turn' = turn
      /\ staff' = staff /\ counted' = counted /\ heard' = heard /\ silent' = silent
      /\ earliest' = earliest + 1 /\ earliest < Horizon
  BY DEF TimePasses, tables, history
<1>2. TypeOK'
  BY <1>1, Bounds DEF BookingIInv, TypeOK
<1>3. ScheduledHasTime' /\ CountedWithinCapacity' /\ Made' = Made
  BY <1>1 DEF BookingIInv, ScheduledHasTime, CountedWithinCapacity, UnderWay, Scheduled, Made
<1>4. OneHolder' /\ OffersHeard'
  BY <1>1 DEF BookingIInv, OneHolder, HasLock, StaffHasLock, OffersHeard, Heard
<1>5. RoomForClaims'
  BY <1>1 DEF BookingIInv, RoomForClaims, Claims, StaffClaims, Room, Overlapping
<1>6. \A c \in Calls : /\ TurnShape(turn[c])'
                       /\ turn'[c].phase # "idle" => turns'[c] < MaxTurns
                       /\ silent' = 0 => TurnHeard(c, turn[c])'
  BY <1>1 DEF BookingIInv, TurnShape, TurnHeard, Heard
<1>7. \A e \in Dispatchers : StaffShape(staff[e])'
  BY <1>1 DEF BookingIInv, StaffShape
<1>8. QED BY <1>2, <1>3, <1>4, <1>5, <1>6, <1>7 DEF BookingIInv

-----------------------------------------------------------------------------
(* A step that writes the row of one appointment.                          *)

Writing(c, row) ==
  /\ row \in AppointmentRows /\ appointment' = [appointment EXCEPT ![c] = row]
  /\ \A o \in Calls \ {c} : counted'[o] = counted[o]

LEMMA WritingAt ==
  ASSUME BookingIInv, NEW c \in Calls, NEW row, Writing(c, row)
  PROVE  /\ appointment' \in [Calls -> AppointmentRows] /\ appointment'[c] = row
         /\ \A o \in Calls \ {c} : appointment'[o] = appointment[o]
         /\ IsFiniteSet(Made)'
<1>1. /\ appointment' \in [Calls -> AppointmentRows] /\ appointment'[c] = row
      /\ \A o \in Calls \ {c} : appointment'[o] = appointment[o]
  BY DEF BookingIInv, TypeOK, Writing
<1>2. Made' \in SUBSET (Made \union {c})
  BY <1>1 DEF Made
<1>3. IsFiniteSet(Made \union {c})
  BY FS_AddElement DEF BookingIInv
<1>4. IsFiniteSet(Made')
  BY <1>2, <1>3, FS_Subset
<1>5. QED BY <1>1, <1>4

\* A visit that is scheduled after the write was scheduled then before it.
Disappears(c, row) ==
  row.status = "scheduled" =>
    /\ appointment[c].status = "scheduled" /\ appointment[c].start = row.start
    /\ appointment[c].length = row.length

\* The capacity is kept by a write of a row that does not count, that counted
\* before, or for which there is room.
LEMMA CapacityKept ==
  ASSUME BookingIInv, NEW c \in Calls, NEW row, Writing(c, row),
         \/ ~counted'[c]
         \/ counted'[c] = counted[c] /\ Disappears(c, row)
         \/ Room(c, row.start, row.length)
  PROVE  CountedWithinCapacity'
<1> /\ appointment' \in [Calls -> AppointmentRows] /\ appointment'[c] = row
    /\ \A o \in Calls \ {c} : appointment'[o] = appointment[o] /\ counted'[o] = counted[o]
    /\ IsFiniteSet(Made)'
  BY WritingAt DEF Writing
<1> SUFFICES ASSUME NEW t \in Starts PROVE Cardinality(Busy(t)') <= Capacity
  BY DEF CountedWithinCapacity, Busy
<1>1. IsFiniteSet(Busy(t)) /\ Cardinality(Busy(t)) \in Nat /\ Cardinality(Busy(t)) <= Capacity
  BY SomeAreMade DEF BookingIInv, CountedWithinCapacity, Busy
<1>2. \A o \in Calls \ {c} : o \in Busy(t)' => o \in Busy(t)
  BY DEF Busy, UnderWay, Scheduled
<1>3. Busy(t)' \subseteq Calls
  BY DEF Busy, UnderWay, Scheduled
<1>4. CASE c \in Busy(t)' => c \in Busy(t)
  <2>1. Busy(t)' \in SUBSET Busy(t)
    BY <1>2, <1>3, <1>4
  <2>2. IsFiniteSet(Busy(t)') /\ Cardinality(Busy(t)') <= Cardinality(Busy(t))
    BY <1>1, <2>1, FS_Subset
  <2>3. Cardinality(Busy(t)') \in Nat
    BY <2>2, FS_CardinalityType
  <2>4. QED BY <1>1, <2>2, <2>3, Bounds
<1>5. CASE c \in Busy(t)' /\ c \notin Busy(t)
  <2>1. /\ row.status = "scheduled" /\ counted'[c] /\ row.start <= t /\ t < row.start + row.length
    BY <1>5 DEF Busy, UnderWay, Scheduled
  <2>2. ~(counted'[c] = counted[c] /\ Disappears(c, row))
    BY <1>5, <2>1 DEF Disappears, Busy, UnderWay, Scheduled
  <2>3. Room(c, row.start, row.length)
    BY <2>1, <2>2
  <2>4. PICK others : others = Overlapping(c, row.start, row.length)
    OBVIOUS
  <2>5. IsFiniteSet(others) /\ Cardinality(others) \in Nat /\ Cardinality(others) < Capacity
    BY <2>3, <2>4, SomeAreMade DEF BookingIInv, Room
  <2>6. Busy(t)' \in SUBSET (others \union {c})
    <3>1. ASSUME NEW o \in Busy(t)', o # c PROVE o \in others
      <4>1. /\ o \in Calls \ {c} /\ appointment[o].status = "scheduled"
            /\ appointment[o].start <= t /\ t < appointment[o].start + appointment[o].length
        BY <1>2, <1>3, <3>1 DEF Busy, UnderWay, Scheduled
      <4>2. /\ appointment[o].start \in Nat /\ appointment[o].length \in Nat
            /\ row.start \in Nat /\ row.length \in Nat /\ t \in Nat
        <5>1. appointment[o] \in AppointmentRows /\ row \in AppointmentRows
          BY <4>1, TurnTyped DEF Writing
        <5>2. /\ appointment[o].start \in Starts \union {0} /\ row.start \in Starts \union {0}
              /\ appointment[o].length \in Lengths \union {0}
              /\ row.length \in Lengths \union {0}
          BY <5>1 DEF AppointmentRows
        <5>3. /\ Starts \union {0} \subseteq Nat /\ Lengths \union {0} \subseteq Nat /\ t \in Nat
          BY Bounds
        <5>4. QED BY <5>2, <5>3
      <4>3. /\ appointment[o].start < row.start + row.length
            /\ appointment[o].start + appointment[o].length > row.start
        BY <2>1, <4>1, <4>2
      <4>4. QED BY <2>4, <4>1, <4>3 DEF Overlapping
    <3>2. QED BY <3>1
  <2>7. /\ IsFiniteSet(others \union {c}) /\ Cardinality(others \union {c}) <= Capacity
    <3>1. /\ IsFiniteSet(others \union {c})
          /\ Cardinality(others \union {c}) \in {Cardinality(others), Cardinality(others) + 1}
      BY <2>5, FS_AddElement
    <3>2. QED BY <2>5, <3>1, Bounds
  <2>8. /\ IsFiniteSet(Busy(t)') /\ Cardinality(Busy(t)') <= Cardinality(others \union {c})
    BY <2>6, <2>7, FS_Subset
  <2>9. Cardinality(Busy(t)') \in Nat /\ Cardinality(others \union {c}) \in Nat
    BY <2>7, <2>8, FS_CardinalityType
  <2>10. QED BY <2>7, <2>8, <2>9, Bounds
<1>6. QED BY <1>4, <1>5

\* Where there was room there is room, if a visit at most disappears.
LEMMA RoomKept ==
  ASSUME BookingIInv, NEW c \in Calls, NEW row, Writing(c, row), Disappears(c, row)
  PROVE  \A o \in Calls : \A s \in Starts, l \in Lengths : Room(o, s, l) => Room(o, s, l)'
<1> /\ appointment'[c] = row /\ \A o \in Calls \ {c} : appointment'[o] = appointment[o]
    /\ IsFiniteSet(Made)'
  BY WritingAt
<1> SUFFICES ASSUME NEW o \in Calls, NEW s \in Starts, NEW l \in Lengths, Room(o, s, l)
             PROVE  Room(o, s, l)'
  OBVIOUS
<1>1. /\ IsFiniteSet(Overlapping(o, s, l)) /\ Cardinality(Overlapping(o, s, l)) \in Nat
      /\ Cardinality(Overlapping(o, s, l)) < Capacity
  BY SomeAreMade DEF BookingIInv, Room
<1>2. Overlapping(o, s, l)' \in SUBSET Overlapping(o, s, l)
  BY DEF Overlapping, Disappears
<1>3. /\ IsFiniteSet(Overlapping(o, s, l)')
      /\ Cardinality(Overlapping(o, s, l)') <= Cardinality(Overlapping(o, s, l))
  BY <1>1, <1>2, FS_Subset
<1>4. Cardinality(Overlapping(o, s, l)') \in Nat
  BY <1>3, FS_CardinalityType
<1>5. QED BY <1>1, <1>3, <1>4, Bounds DEF Room

-----------------------------------------------------------------------------
(* The end of a turn that commits.                                         *)

LEMMA WrittenRow ==
  ASSUME BookingIInv, NEW c \in Calls, NEW w \in Writes,
         w.start = turn[c].writes.start, w.length = turn[c].writes.length,
         w.schedules = turn[c].writes.schedules,
         NEW row, row = Written(appointment[c], w)
  PROVE  /\ row \in AppointmentRows
         /\ row.status = "scheduled" => row.start # 0 /\ row.length # 0
         /\ w.start = 0 => Disappears(c, row)
         /\ w.start # 0 => row.start = w.start /\ row.length = w.length
<1> /\ appointment[c] \in AppointmentRows /\ turn[c].writes \in Writes /\ TurnShape(turn[c])
  BY TurnTyped
<1> appointment[c].status = "scheduled" =>
      appointment[c].start # 0 /\ appointment[c].length # 0
  BY DEF BookingIInv, ScheduledHasTime, Scheduled
<1>1. /\ w.start # 0 => w.length # 0
      /\ w.schedules => w.start # 0
  BY DEF TurnShape
<1>2. PICK made : made = IF w.created THEN [appointment[c] EXCEPT !.status = "requested"]
                         ELSE appointment[c]
  OBVIOUS
<1>3. /\ made \in AppointmentRows
      /\ made.start = appointment[c].start /\ made.length = appointment[c].length
      /\ made.status \in {"requested", appointment[c].status}
  BY <1>2 DEF AppointmentRows, Status
<1>4. PICK timed : timed = IF w.start # 0
                          THEN [made EXCEPT !.start = w.start, !.length = w.length]
                          ELSE made
  OBVIOUS
<1>5. /\ timed \in AppointmentRows /\ timed.status = made.status
      /\ w.start = 0 => timed = made
      /\ w.start # 0 => timed.start = w.start /\ timed.length = w.length
  BY <1>3, <1>4 DEF AppointmentRows, Writes
<1>6. row = IF w.schedules THEN [timed EXCEPT !.status = "scheduled"] ELSE timed
  BY <1>2, <1>4 DEF Written
<1>7. /\ row \in AppointmentRows /\ row.start = timed.start /\ row.length = timed.length
      /\ ~w.schedules => row = timed
  BY <1>5, <1>6 DEF AppointmentRows, Status
<1>8. CASE w.start = 0
  BY <1>1, <1>3, <1>5, <1>7, <1>8 DEF Disappears
<1>9. CASE w.start # 0
  BY <1>1, <1>5, <1>7, <1>9
<1>10. QED BY <1>8, <1>9

\* What the ends of a turn have in common: w is what it commits.
Ending(c, w) ==
  /\ turn[c].phase = "open" /\ CommitWrites(c, w)
  /\ w \in {turn[c].writes, Requested(c, turn[c].writes)}
  /\ turns' \in [Calls -> 0..MaxTurns] /\ \A o \in Calls \ {c} : turns'[o] = turns[o]
  /\ heard' \in [Calls -> SUBSET (Starts \X Lengths)]
  /\ \A o \in Calls : heard[o] \subseteq heard'[o]
  /\ silent' \in 0..MaxSilent
  /\ silent' = 0 => silent = 0 /\ turn[c].told \subseteq heard'[c]

LEMMA EndingIInv ==
  ASSUME BookingIInv, NEW c \in Calls, NEW w, Ending(c, w) PROVE BookingIInv'
<1> /\ turn[c] \in Turns /\ turn[c].writes \in Writes /\ TurnShape(turn[c])
    /\ turn[c].offers \in [Starts -> OfferRows]
  BY TurnTyped
<1>1. /\ w \in Writes /\ w.start = turn[c].writes.start
      /\ w.length = turn[c].writes.length /\ w.schedules = turn[c].writes.schedules
  BY RequestedKeeps DEF Ending
<1>2. PICK row : row = Written(appointment[c], w)
  OBVIOUS
<1>3. /\ row \in AppointmentRows
      /\ row.status = "scheduled" => row.start # 0 /\ row.length # 0
      /\ w.start = 0 => Disappears(c, row)
      /\ w.start # 0 => row.start = w.start /\ row.length = w.length
  BY <1>1, <1>2, WrittenRow
<1>4. /\ appointment' = [appointment EXCEPT ![c] = row]
      /\ offered' = [offered EXCEPT ![c] = turn[c].offers]
      /\ counted' = [counted EXCEPT ![c] = counted[c] \/ w.start # 0]
      /\ turn' = [turn EXCEPT ![c] = NoTurn]
      /\ earliest' = earliest /\ staff' = staff
  BY <1>2 DEF Ending, CommitWrites
<1>5. /\ counted \in [Calls -> BOOLEAN] /\ offered \in [Calls -> [Starts -> OfferRows]]
      /\ turn \in [Calls -> Turns]
  BY DEF BookingIInv, TypeOK
<1>6. /\ counted' \in [Calls -> BOOLEAN] /\ counted'[c] = (counted[c] \/ w.start # 0)
      /\ \A o \in Calls \ {c} : counted'[o] = counted[o]
  BY <1>4, <1>5
<1>7. /\ offered' \in [Calls -> [Starts -> OfferRows]] /\ offered'[c] = turn[c].offers
      /\ \A o \in Calls \ {c} : offered'[o] = offered[o]
  BY <1>4, <1>5
<1>8. /\ turn' \in [Calls -> Turns] /\ turn'[c] = NoTurn
      /\ \A o \in Calls \ {c} : turn'[o] = turn[o]
  BY <1>4, <1>5, Nothing
<1>9. Writing(c, row)
  BY <1>3, <1>4, <1>6 DEF Writing
<1>10. /\ appointment' \in [Calls -> AppointmentRows] /\ appointment'[c] = row
       /\ \A o \in Calls \ {c} : appointment'[o] = appointment[o]
       /\ IsFiniteSet(Made)'
  BY <1>9, WritingAt
<1>11. TypeOK'
  BY <1>4, <1>6, <1>7, <1>8, <1>10 DEF BookingIInv, TypeOK, Ending
<1>12. ScheduledHasTime'
  BY <1>3, <1>10 DEF BookingIInv, ScheduledHasTime, Scheduled
<1>13. CountedWithinCapacity'
  <2>1. CASE w.start = 0
    BY <1>3, <1>5, <1>6, <1>9, <2>1, CapacityKept
  <2>2. CASE w.start # 0
    <3>1. w.start \in Starts /\ w.length \in Lengths
      BY <1>1, <2>2 DEF TurnShape, Writes
    <3>2. Claims(turn[c], w.start, w.length)
      BY <1>1 DEF Claims
    <3>3. Room(c, row.start, row.length)
      BY <1>3, <2>2, <3>1, <3>2 DEF BookingIInv, RoomForClaims
    <3>4. QED BY <1>9, <3>3, CapacityKept
  <2>3. QED BY <2>1, <2>2
<1>14. OneHolder'
  <2>1. ~HasLock(c)' /\ \A o \in Calls : HasLock(o)' => HasLock(o)
    BY <1>8, Nothing DEF HasLock
  <2>2. \A d \in Dispatchers : StaffHasLock(d)' = StaffHasLock(d)
    BY <1>4 DEF StaffHasLock
  <2>3. QED BY <2>1, <2>2 DEF BookingIInv, OneHolder
<1>15. RoomForClaims'
  <2>1. \A s \in Starts, l \in Lengths : ~Claims(NoTurn, s, l)
    BY Nothing, Bounds DEF Claims
  <2>2. \A o \in Calls : \A s \in Starts, l \in Lengths :
          Claims(turn'[o], s, l) => o # c /\ Claims(turn[o], s, l)
    BY <1>8, <2>1
  <2>3. CASE w.start = 0
    <3>1. \A o \in Calls : \A s \in Starts, l \in Lengths : Room(o, s, l) => Room(o, s, l)'
      BY <1>3, <1>9, <2>3, RoomKept
    <3>2. \A o \in Calls : \A s \in Starts, l \in Lengths :
            Claims(turn[o], s, l)' => Room(o, s, l)'
      BY <2>2, <3>1 DEF BookingIInv, RoomForClaims, Claims
    <3>3. QED BY <1>4, <3>1, <3>2 DEF BookingIInv, RoomForClaims, StaffClaims
  <2>4. CASE w.start # 0
    <3>1. HasLock(c)
      BY <1>1, <2>4 DEF TurnShape, HasLock
    <3>2. \A o \in Calls : \A s \in Starts, l \in Lengths : ~Claims(turn[o], s, l)'
      BY <2>2, <3>1, ClaimsHaveLock DEF BookingIInv, OneHolder, Claims
    <3>3. \A d \in Dispatchers : \A o, s, l : ~StaffClaims(staff[d], o, s, l)'
      BY <1>4, <3>1, ClaimsHaveLock DEF BookingIInv, OneHolder, StaffClaims
    <3>4. QED BY <3>2, <3>3 DEF RoomForClaims
  <2>5. QED BY <2>3, <2>4
<1>16. \A o \in Calls : \A s : Heard(o, s) => Heard(o, s)'
  BY DEF Heard, Ending
<1>17. OffersHeard'
  <2>1. SUFFICES ASSUME silent' = 0, NEW o \in Calls, NEW s \in Starts,
                        offered'[o][s].length # 0 \/ offered'[o][s].selected
                 PROVE  Heard(o, s)'
    BY DEF OffersHeard
  <2>2. silent = 0 /\ turn[c].told \subseteq heard'[c]
    BY <2>1 DEF Ending
  <2>3. CASE o # c
    BY <1>7, <1>16, <2>1, <2>2, <2>3 DEF BookingIInv, OffersHeard
  <2>4. CASE o = c
    <3>1. Heard(c, s) \/ \E l \in Lengths : <<s, l>> \in turn[c].told
      BY <1>7, <2>1, <2>2, <2>4 DEF BookingIInv, TurnHeard
    <3>2. QED BY <1>16, <2>2, <2>4, <3>1 DEF Heard
  <2>5. QED BY <2>3, <2>4
<1>18. \A o \in Calls : /\ TurnShape(turn[o])'
                        /\ turn'[o].phase # "idle" => turns'[o] < MaxTurns
                        /\ silent' = 0 => TurnHeard(o, turn[o])'
  <2>1. ASSUME NEW o \in Calls, o # c
        PROVE  /\ TurnShape(turn[o])'
               /\ turn'[o].phase # "idle" => turns'[o] < MaxTurns
               /\ silent' = 0 => TurnHeard(o, turn[o])'
    <3>1. turn'[o] = turn[o] /\ turns'[o] = turns[o] /\ (silent' = 0 => silent = 0)
      BY <1>8, <2>1 DEF Ending
    <3>2. /\ TurnShape(turn[o])
          /\ turn[o].phase # "idle" => turns[o] < MaxTurns
          /\ silent = 0 => TurnHeard(o, turn[o])
      BY DEF BookingIInv
    <3>3. TurnShape(turn[o])'
      BY <3>1, <3>2 DEF TurnShape
    <3>4. TurnHeard(o, turn[o]) => TurnHeard(o, turn[o])'
      BY <1>16, <3>1 DEF TurnHeard
    <3>5. QED BY <3>1, <3>2, <3>3, <3>4
  <2>2. TurnShape(turn[c])' /\ turn'[c].phase = "idle"
    BY <1>8, Nothing DEF TurnShape
  <2>3. TurnHeard(c, turn[c])'
    BY <1>8, Nothing DEF TurnHeard
  <2>4. QED BY <2>1, <2>2, <2>3
<1>19. \A d \in Dispatchers : StaffShape(staff[d])'
  BY <1>4 DEF BookingIInv, StaffShape
<1>20. QED BY <1>10, <1>11, <1>12, <1>13, <1>14, <1>15, <1>17, <1>18, <1>19 DEF BookingIInv

LEMMA CompleteTurnIInv ==
  ASSUME BookingIInv, NEW c \in Calls, CompleteTurn(c) PROVE BookingIInv'
<1>1. PICK w \in {turn[c].writes, Requested(c, turn[c].writes)} : CommitWrites(c, w)
  BY DEF CompleteTurn
<1>2. /\ turn[c].phase = "open" /\ turns' = [turns EXCEPT ![c] = turns[c] + 1]
      /\ heard' = [heard EXCEPT ![c] = heard[c] \union turn[c].told] /\ silent' = silent
  BY DEF CompleteTurn
<1>3. /\ turns \in [Calls -> 0..MaxTurns] /\ turns[c] < MaxTurns
      /\ heard \in [Calls -> SUBSET (Starts \X Lengths)] /\ silent \in 0..MaxSilent
      /\ turn[c].told \in SUBSET (Starts \X Lengths)
  BY <1>2, TurnTyped DEF BookingIInv, TypeOK, Turns
<1>4. turns' \in [Calls -> 0..MaxTurns] /\ \A o \in Calls \ {c} : turns'[o] = turns[o]
  BY <1>2, <1>3, Bounds
<1>5. /\ heard' \in [Calls -> SUBSET (Starts \X Lengths)]
      /\ \A o \in Calls : heard[o] \subseteq heard'[o]
      /\ turn[c].told \subseteq heard'[c]
  BY <1>2, <1>3
<1>6. Ending(c, w)
  BY <1>1, <1>2, <1>3, <1>4, <1>5 DEF Ending
<1>7. QED BY <1>6, EndingIInv

LEMMA LoseTurnIInv ==
  ASSUME BookingIInv, NEW c \in Calls, LoseTurn(c) PROVE BookingIInv'
<1>1. /\ turn[c].phase = "open" /\ CommitWrites(c, turn[c].writes) /\ turns' = turns
      /\ heard' = [heard EXCEPT ![c] = heard[c] \union turn[c].told] /\ silent' = silent
  BY DEF LoseTurn
<1>2. /\ turns \in [Calls -> 0..MaxTurns] /\ silent \in 0..MaxSilent
      /\ heard \in [Calls -> SUBSET (Starts \X Lengths)]
      /\ turn[c].told \in SUBSET (Starts \X Lengths)
  BY TurnTyped DEF BookingIInv, TypeOK, Turns
<1>3. /\ heard' \in [Calls -> SUBSET (Starts \X Lengths)]
      /\ \A o \in Calls : heard[o] \subseteq heard'[o]
      /\ turn[c].told \subseteq heard'[c]
  BY <1>1, <1>2
<1>4. Ending(c, turn[c].writes)
  BY <1>1, <1>2, <1>3 DEF Ending
<1>5. QED BY <1>4, EndingIInv

\* What a turn found is not heard, but then the count of silent turns says so.
LEMMA SilentTurnIInv ==
  ASSUME BookingIInv, NEW c \in Calls, SilentTurn(c) PROVE BookingIInv'
<1>1. /\ turn[c].phase = "open" /\ CommitWrites(c, turn[c].writes) /\ turns' = turns
      /\ heard' = heard /\ silent < MaxSilent /\ silent' = silent + 1
  BY DEF SilentTurn
<1>2. /\ turns \in [Calls -> 0..MaxTurns] /\ silent \in 0..MaxSilent
      /\ heard \in [Calls -> SUBSET (Starts \X Lengths)]
  BY DEF BookingIInv, TypeOK
<1>3. silent' \in 0..MaxSilent /\ silent' # 0
  BY <1>1, <1>2, Bounds
<1>4. Ending(c, turn[c].writes)
  BY <1>1, <1>2, <1>3 DEF Ending
<1>5. QED BY <1>4, EndingIInv

-----------------------------------------------------------------------------
(* The writes of the dashboard.                                            *)

\* Dispatcher d writes row into appointment c and is done.
StaffWrites(d, c, row) ==
  /\ Writing(c, row)
  /\ row.status = "scheduled" => row.start # 0 /\ row.length # 0
  /\ counted' \in [Calls -> BOOLEAN] /\ CountedWithinCapacity'
  /\ StaffHasLock(d) \/ Disappears(c, row)
  /\ staff' = [staff EXCEPT ![d] = NoRequest]
  /\ UNCHANGED <<offered, turns, earliest, turn, heard, silent>>

LEMMA StaffWritesIInv ==
  ASSUME BookingIInv, NEW d \in Dispatchers, NEW c \in Calls, NEW row,
         StaffWrites(d, c, row)
  PROVE  BookingIInv'
<1> /\ offered' = offered /\ turns' = turns /\ earliest' = earliest /\ turn' = turn
    /\ heard' = heard /\ silent' = silent /\ Writing(c, row)
  BY DEF StaffWrites
<1>1. /\ appointment' \in [Calls -> AppointmentRows] /\ appointment'[c] = row
      /\ \A o \in Calls \ {c} : appointment'[o] = appointment[o]
      /\ IsFiniteSet(Made)'
  BY WritingAt
<1>2. /\ staff' \in [Dispatchers -> Requests] /\ staff'[d] = NoRequest
      /\ \A e \in Dispatchers \ {d} : staff'[e] = staff[e]
  BY Nothing DEF BookingIInv, TypeOK, StaffWrites
<1>3. TypeOK'
  BY <1>1, <1>2 DEF BookingIInv, TypeOK, StaffWrites
<1>4. ScheduledHasTime' /\ CountedWithinCapacity'
  BY <1>1 DEF BookingIInv, ScheduledHasTime, Scheduled, StaffWrites
<1>5. OneHolder'
  <2>1. \A e \in Dispatchers : StaffHasLock(e)' => StaffHasLock(e)
    BY <1>2, Nothing DEF StaffHasLock
  <2>2. \A o \in Calls : HasLock(o)' = HasLock(o)
    BY DEF HasLock
  <2>3. QED BY <2>1, <2>2 DEF BookingIInv, OneHolder
<1>6. RoomForClaims'
  <2>1. \A o, s, l : ~StaffClaims(NoRequest, o, s, l)
    BY Nothing DEF StaffClaims
  <2>2. \A e \in Dispatchers : \A o, s, l :
          StaffClaims(staff'[e], o, s, l) => e # d /\ StaffClaims(staff[e], o, s, l)
    BY <1>2, <2>1
  <2>3. CASE StaffHasLock(d)
    <3>1. \A o \in Calls : \A s \in Starts, l \in Lengths : ~Claims(turn[o], s, l)'
      BY <2>3, ClaimsHaveLock DEF BookingIInv, OneHolder, Claims
    <3>2. \A e \in Dispatchers : \A o, s, l : ~StaffClaims(staff[e], o, s, l)'
      BY <2>2, <2>3, ClaimsHaveLock DEF BookingIInv, OneHolder, StaffClaims
    <3>3. QED BY <3>1, <3>2 DEF RoomForClaims
  <2>4. CASE Disappears(c, row)
    <3>1. \A o \in Calls : \A s \in Starts, l \in Lengths : Room(o, s, l) => Room(o, s, l)'
      BY <2>4, RoomKept
    <3>2. \A o \in Calls : \A s \in Starts, l \in Lengths :
            Claims(turn[o], s, l)' => Room(o, s, l)'
      BY <3>1 DEF BookingIInv, RoomForClaims, Claims
    <3>3. \A o \in Calls : \A e \in Dispatchers : \A s \in Starts, l \in Lengths :
            StaffClaims(staff[e], o, s, l)' => Room(o, s, l)'
      BY <2>2, <3>1 DEF BookingIInv, RoomForClaims, StaffClaims
    <3>4. QED BY <3>2, <3>3 DEF RoomForClaims
  <2>5. QED BY <2>3, <2>4 DEF StaffWrites
<1>7. OffersHeard'
  BY DEF BookingIInv, OffersHeard, Heard
<1>8. \A o \in Calls : /\ TurnShape(turn[o])'
                       /\ turn'[o].phase # "idle" => turns'[o] < MaxTurns
                       /\ silent' = 0 => TurnHeard(o, turn[o])'
  BY DEF BookingIInv, TurnShape, TurnHeard, Heard
<1>9. \A e \in Dispatchers : StaffShape(staff'[e])
  BY <1>2, Nothing DEF BookingIInv
<1>10. \A e \in Dispatchers : StaffShape(staff[e])'
  BY <1>9 DEF StaffShape
<1>11. QED BY <1>1, <1>3, <1>4, <1>5, <1>6, <1>7, <1>8, <1>10 DEF BookingIInv

\* A time that was compared has room, since the booking lock is still held; one
\* that was booked regardless does not count.
LEMMA WriteScheduleIInv ==
  ASSUME BookingIInv, NEW d \in Dispatchers, WriteSchedule(d) PROVE BookingIInv'
<1>1. PICK r : r = staff[d]
  OBVIOUS
<1>2. PICK status : status = IF r.loaded # "scheduled" THEN "scheduled"
                             ELSE appointment[r.call].status
  OBVIOUS
<1>3. PICK row : row = [appointment[r.call] EXCEPT !.start = r.start, !.length = r.length,
                                                   !.status = status]
  OBVIOUS
<1>4. /\ r.phase = "writing"
      /\ appointment' = [appointment EXCEPT ![r.call] = row]
      /\ counted' = [counted EXCEPT ![r.call] = r.counted]
      /\ staff' = [staff EXCEPT ![d] = NoRequest]
      /\ UNCHANGED <<offered, turns, earliest, turn, heard, silent>>
  BY <1>1, <1>2, <1>3 DEF WriteSchedule
<1>5. /\ r \in Requests /\ r.call \in Calls /\ r.start \in Starts /\ r.length \in Lengths
      /\ r.counted \in BOOLEAN /\ StaffHasLock(d)
  BY <1>1, <1>4, StaffTyped DEF StaffShape, Requests, StaffHasLock
<1>6. /\ appointment[r.call] \in AppointmentRows
      /\ counted \in [Calls -> BOOLEAN]
  BY <1>5, TurnTyped DEF BookingIInv, TypeOK
<1>7. status \in Status \union {"none"}
  BY <1>2, <1>6 DEF AppointmentRows, Status
<1>8. row \in AppointmentRows /\ row.start = r.start /\ row.length = r.length
  BY <1>3, <1>5, <1>6, <1>7 DEF AppointmentRows
<1>9. /\ counted' \in [Calls -> BOOLEAN] /\ counted'[r.call] = r.counted
      /\ \A o \in Calls \ {r.call} : counted'[o] = counted[o]
  BY <1>4, <1>5, <1>6
<1>10. Writing(r.call, row)
  BY <1>4, <1>8, <1>9 DEF Writing
<1>11. CountedWithinCapacity'
  <2>1. r.counted => StaffClaims(staff[d], r.call, r.start, r.length)
    BY <1>1, <1>4 DEF StaffClaims
  <2>2. ~counted'[r.call] \/ Room(r.call, row.start, row.length)
    BY <1>5, <1>8, <1>9, <2>1 DEF BookingIInv, RoomForClaims
  <2>3. QED BY <1>5, <1>10, <2>2, CapacityKept
<1>12. StaffWrites(d, r.call, row)
  BY <1>4, <1>5, <1>8, <1>9, <1>10, <1>11, Bounds DEF StaffWrites
<1>13. QED BY <1>5, <1>12, StaffWritesIInv

LEMMA WriteStatusIInv ==
  ASSUME BookingIInv, NEW d \in Dispatchers, WriteStatus(d) PROVE BookingIInv'
<1>1. PICK r : r = staff[d]
  OBVIOUS
<1>2. PICK status : status = IF r.loaded # r.to THEN r.to ELSE appointment[r.call].status
  OBVIOUS
<1>3. PICK row : row = [appointment[r.call] EXCEPT !.closed = TRUE, !.status = status]
  OBVIOUS
<1>4. /\ r.phase = "loaded"
      /\ appointment' = [appointment EXCEPT ![r.call] = row]
      /\ staff' = [staff EXCEPT ![d] = NoRequest]
      /\ UNCHANGED <<offered, turns, earliest, turn, history>>
  BY <1>1, <1>2, <1>3 DEF WriteStatus
<1>5. r.call \in Calls /\ r.to \in Closed /\ r \in Requests
  BY <1>1, <1>4, StaffTyped DEF StaffShape
<1>6. appointment[r.call] \in AppointmentRows
  BY <1>5, TurnTyped
<1>7. /\ status \in Status \union {"none"}
      /\ status = "scheduled" => appointment[r.call].status = "scheduled"
  BY <1>2, <1>5, <1>6 DEF AppointmentRows, Status, Closed
<1>8. /\ row \in AppointmentRows /\ row.status = status
      /\ row.start = appointment[r.call].start /\ row.length = appointment[r.call].length
  BY <1>3, <1>6, <1>7 DEF AppointmentRows
<1>9. /\ counted' = counted /\ heard' = heard /\ silent' = silent
      /\ counted \in [Calls -> BOOLEAN]
  BY <1>4 DEF history, BookingIInv, TypeOK
<1>10. Writing(r.call, row) /\ Disappears(r.call, row)
  BY <1>4, <1>7, <1>8, <1>9 DEF Writing, Disappears
<1>11. row.status = "scheduled" => row.start # 0 /\ row.length # 0
  BY <1>5, <1>7, <1>8 DEF BookingIInv, ScheduledHasTime, Scheduled
<1>12. CountedWithinCapacity'
  BY <1>5, <1>9, <1>10, CapacityKept
<1>13. StaffWrites(d, r.call, row)
  BY <1>4, <1>9, <1>10, <1>11, <1>12 DEF StaffWrites
<1>14. QED BY <1>5, <1>13, StaffWritesIInv

-----------------------------------------------------------------------------
(* The specification.                                                      *)

LEMMA NextBookingIInv == BookingIInv /\ [Next]_vars => BookingIInv'
<1> SUFFICES ASSUME BookingIInv, [Next]_vars PROVE BookingIInv'
  OBVIOUS
<1>1. ASSUME NEW c \in Calls, BeginTurn(c) PROVE BookingIInv'
  BY <1>1, BeginTurnIInv
<1>2. ASSUME NEW c \in Calls, ToolStep(c) PROVE BookingIInv'
  <2>1. CASE CreateServiceRequest(c)
    BY <2>1, CreateServiceRequestIInv
  <2>2. ASSUME NEW l \in Lengths, CheckAvailability(c, l) PROVE BookingIInv'
    BY <2>2, CheckAvailabilityIInv
  <2>3. ASSUME NEW s \in Starts, SelectAppointmentSlot(c, s) PROVE BookingIInv'
    BY <2>3, SelectAppointmentSlotIInv
  <2>4. ASSUME NEW s \in Starts, BookForConversation(c, s) PROVE BookingIInv'
    BY <2>4, BookForConversationIInv
  <2>5. CASE VerifySlot(c)
    BY <2>5, VerifySlotIInv
  <2>6. CASE BookSlot(c)
    BY <2>6, BookSlotIInv
  <2>7. CASE ToolFails(c)
    BY <2>7, ToolFailsIInv
  <2>8. QED BY <1>2, <2>1, <2>2, <2>3, <2>4, <2>5, <2>6, <2>7 DEF ToolStep
<1>3. ASSUME NEW c \in Calls, EndTurn(c) PROVE BookingIInv'
  BY <1>3, CompleteTurnIInv, LoseTurnIInv, SilentTurnIInv, RollBackTurnIInv DEF EndTurn
<1>4. ASSUME NEW d \in Dispatchers, StaffStep(d) PROVE BookingIInv'
  <2>1. ASSUME NEW c \in Calls, NEW s \in Starts, NEW l \in Lengths,
               ScheduleAppointment(d, c, s, l)
        PROVE  BookingIInv'
    BY <2>1, ScheduleAppointmentIInv
  <2>2. ASSUME NEW c \in Calls, NEW to \in Closed, UpdateStatus(d, c, to) PROVE BookingIInv'
    BY <2>2, UpdateStatusIInv
  <2>3. CASE VerifyForStaff(d)
    BY <2>3, VerifyForStaffIInv
  <2>4. CASE WriteSchedule(d)
    BY <2>4, WriteScheduleIInv
  <2>5. CASE LoadForStatus(d)
    BY <2>5, LoadForStatusIInv
  <2>6. CASE WriteStatus(d)
    BY <2>6, WriteStatusIInv
  <2>7. CASE RequestFails(d)
    BY <2>7, RequestFailsIInv
  <2>8. QED BY <1>4, <2>1, <2>2, <2>3, <2>4, <2>5, <2>6, <2>7 DEF StaffStep
<1>5. CASE TimePasses
  BY <1>5, TimePassesIInv
<1>6. CASE UNCHANGED vars
  <2>1. /\ appointment' = appointment /\ offered' = offered /\ turns' = turns
        /\ earliest' = earliest /\ turn' = turn /\ staff' = staff /\ counted' = counted
        /\ heard' = heard /\ silent' = silent
    BY <1>6 DEF vars, tables, history
  <2>2. /\ TypeOK' /\ ScheduledHasTime' /\ CountedWithinCapacity' /\ Made' = Made
    BY <2>1 DEF BookingIInv, TypeOK, ScheduledHasTime, CountedWithinCapacity, UnderWay,
                Scheduled, Made
  <2>3. OneHolder' /\ OffersHeard'
    BY <2>1 DEF BookingIInv, OneHolder, HasLock, StaffHasLock, OffersHeard, Heard
  <2>4. RoomForClaims'
    BY <2>1 DEF BookingIInv, RoomForClaims, Claims, StaffClaims, Room, Overlapping
  <2>5. /\ \A c \in Calls : /\ TurnShape(turn[c])'
                            /\ turn'[c].phase # "idle" => turns'[c] < MaxTurns
                            /\ silent' = 0 => TurnHeard(c, turn[c])'
        /\ \A d \in Dispatchers : StaffShape(staff[d])'
    BY <2>1 DEF BookingIInv, TurnShape, TurnHeard, Heard, StaffShape
  <2>6. QED BY <2>2, <2>3, <2>4, <2>5 DEF BookingIInv
<1>7. QED BY <1>1, <1>2, <1>3, <1>4, <1>5, <1>6 DEF Next

\* Every reachable state of the callers' turns, the dashboard's requests and
\* the tables satisfies the inductive invariant.
THEOREM BookingInductive == Spec => []BookingIInv
BY InitBookingIInv, NextBookingIInv, PTL DEF Spec

\* Types; a scheduled visit has a start and a length; and of the visits whose
\* time was compared, no more than there are technicians are under way at
\* once: what AppointmentService and PostgresAdvisoryBookingLock promise.
THEOREM BookingSafe == Spec => []BookingInv
<1>1. BookingIInv => BookingInv
  BY DEF BookingIInv, BookingInv
<1>2. QED BY <1>1, BookingInductive, PTL

\* The capacity alone: verify_slot under the booking lock never gives the last
\* technician away twice.
THEOREM CapacityHolds == Spec => []CountedWithinCapacity
<1>1. BookingIInv => CountedWithinCapacity
  BY DEF BookingIInv
<1>2. QED BY <1>1, BookingInductive, PTL

\* find_slots and verify_slot agree: a slot that a search would offer now is
\* one that a booking would accept now.
THEOREM SearchIsHonest == Spec => []SearchAgreesWithBooking
<1>1. BookingIInv => SearchAgreesWithBooking
  <2> SUFFICES ASSUME BookingIInv, NEW c \in Calls, NEW l \in Lengths,
                      NEW s \in FindSlots(c, l)
               PROVE  Verdict(c, s, l) = "bookable"
    BY DEF SearchAgreesWithBooking
  <2>1. /\ s \in Nat /\ l \in Nat /\ earliest \in Nat /\ Opens \in Nat /\ Closes \in Nat
        /\ Capacity \in Nat /\ Cardinality(Overlapping(c, s, l)) \in Nat
    BY Bounds, SomeAreMade DEF BookingIInv, TypeOK, FindSlots
  <2>2. /\ Opens <= s /\ s <= Closes - l /\ s >= earliest
        /\ Cardinality(Overlapping(c, s, l)) < Capacity
    BY DEF FindSlots, Overlapping
  <2>3. ~(s < earliest) /\ s + l <= Closes /\ ~(Cardinality(Overlapping(c, s, l)) >= Capacity)
    BY <2>1, <2>2
  <2>4. QED BY <2>2, <2>3 DEF Verdict, WithinOpenHours
<1>2. QED BY <1>1, BookingInductive, PTL

\* The consent ladder (mark_selected): unless a turn was committed of which the
\* caller heard nothing, no turn writes a time that was not read out to the
\* caller when an earlier turn ended.
THEOREM ConsentKept == Spec => [](silent = 0 => HeardBeforeBooked)
<1>1. BookingIInv => (silent = 0 => HeardBeforeBooked)
  BY DEF BookingIInv, TurnHeard, Heard, HeardBeforeBooked
<1>2. QED BY <1>1, BookingInductive, PTL

-----------------------------------------------------------------------------
(* The lines calls come in on.                                             *)

CommandRows ==
  [at : {"none", "assistant", "current", "phone", "read", "loaded"},
   kind : {"none", "assign", "activate", "deactivate"},
   org : Businesses \union {None}, assistant : Assistants \union {None},
   phone : PhoneIds \union {None}, from : Businesses \union {None},
   replace : BOOLEAN, overtaken : BOOLEAN,
   byAssistant : 0..MaxLines, seen : LineRows,
   current : 0..MaxLines, seenCurrent : LineRows, byPhone : 0..MaxLines,
   retires : 0..MaxLines, writes : 0..MaxLines, wanted : LineRows, loaded : LineRows]

LinesShape ==
  /\ routing \in [LineIds -> LineRows] /\ Unique(routing)
  /\ command \in [Commands -> CommandRows]
  /\ given \in 0..MaxCommands /\ mixed \in BOOLEAN
  /\ granted \in [Assistants -> Businesses \union {None}]

\* The rows a command has read are rows of what it was told to look for.
ReadsWhatItSought(o) ==
  /\ o.byAssistant = 0 <=> o.seen = NoLine
  /\ o.byAssistant # 0 => o.seen.assistant = o.assistant
  /\ o.current = 0 <=> o.seenCurrent = NoLine
  /\ o.current # 0 => o.seenCurrent.org = o.org

\* What a command that is as far as o is about to write.
CommandStage(o) ==
  /\ o.at = "none" => o = NoCommand
  /\ o.at # "none" => o.kind # "none" /\ o.org \in Businesses
  /\ o.kind = "assign" => o.assistant \in Assistants
  /\ o.at \in {"assistant", "phone"} => o.kind = "assign"
  /\ ReadsWhatItSought(o)
  /\ o.at = "loaded" <=> o.writes # 0
  /\ o.at = "loaded" =>
       /\ o.wanted # NoLine /\ o.loaded # NoLine /\ o.retires # o.writes
       /\ o.kind = "assign" => o.wanted.org = o.org /\ o.wanted.assistant = o.assistant

\* Why a command that no other overtook may write what it is about to: the line is
\* of its own organization or of the one it names, or is to be replaced.
WritesAsNamed(o, retires, i, wanted) ==
  IF o.kind = "assign"
  THEN /\ routing[i].assistant = o.assistant => routing[i].org \in {o.org, o.from}
       /\ routing[i].assistant # o.assistant => routing[i].org = o.org /\ o.replace
       /\ retires # 0 => routing[retires].org = o.org /\ o.replace
  ELSE /\ wanted.org = routing[i].org /\ wanted.assistant = routing[i].assistant
       /\ retires = 0

\* What a command remembers is as it is, if none overtook it.
UpToDate(o) ==
  /\ o.kind = "assign" /\ o.at \in {"current", "phone", "read"} =>
       IF o.byAssistant = 0 THEN \A j \in Mapped : routing[j].assistant # o.assistant
       ELSE o.byAssistant \in Mapped /\ routing[o.byAssistant] = o.seen
  /\ o.at \in {"phone", "read"} =>
       IF o.current = 0 THEN \A j \in Mapped : routing[j].org # o.org
       ELSE o.current \in Mapped /\ routing[o.current] = o.seenCurrent
  /\ o.at = "loaded" =>
       /\ o.writes \in Mapped /\ routing[o.writes] = o.loaded
       /\ WritesAsNamed(o, o.retires, o.writes, o.wanted)

GoodCommand(o) == CommandStage(o) /\ (~o.overtaken => UpToDate(o))

LinesIInv ==
  /\ LinesShape
  /\ \A w \in Commands : GoodCommand(command[w])
  /\ RoutesAsGranted

\* A line that there is has the columns of one, and none of them empty but the phone.
LEMMA LineColumns ==
  ASSUME NEW l \in LineRows, l # NoLine
  PROVE  /\ l \in [org : Businesses, assistant : Assistants,
                   phone : PhoneIds \union {None}, active : BOOLEAN]
         /\ l.org \in Businesses /\ l.assistant \in Assistants
  BY DEF LineRows

LEMMA EmptyLine ==
  /\ NoLine \in LineRows /\ NoLine.org = None /\ NoLine.assistant = None
  /\ ~NoLine.active /\ NoLine.phone = None
  /\ \A l \in [org : Businesses, assistant : Assistants,
               phone : PhoneIds \union {None}, active : BOOLEAN] : l # NoLine
<1>1. NoLine \in LineRows
  BY DEF LineRows
<1>2. NoLine.org = None /\ NoLine.assistant = None /\ ~NoLine.active /\ NoLine.phone = None
  BY DEF NoLine
<1>3. ASSUME NEW l \in [org : Businesses, assistant : Assistants,
                        phone : PhoneIds \union {None}, active : BOOLEAN]
      PROVE  l # NoLine
  <2>1. l.org # None
    BY LinesAssumption
  <2> QED
    BY <2>1, <1>2
<1> QED
  BY <1>1, <1>2, <1>3

\* The organization that the line of assistant a is of, in a table.
OwnerIn(table, a) ==
  IF \E i \in {k \in LineIds : table[k] # NoLine} : table[i].assistant = a
  THEN table[CHOOSE i \in {k \in LineIds : table[k] # NoLine} : table[i].assistant = a].org
  ELSE None

LEMMA OwnersOfTable == \A a : OwnerOf(a) = OwnerIn(routing, a)
  BY DEF OwnerOf, OwnerIn, Mapped

\* With one line to an assistant, its owner is the organization of its line.
LEMMA OwnerByLine ==
  ASSUME NEW table, Unique(table), NEW i \in LineIds, table[i] # NoLine
  PROVE  OwnerIn(table, table[i].assistant) = table[i].org
<1> DEFINE a == table[i].assistant
           with == {k \in LineIds : table[k] # NoLine}
           j == CHOOSE k \in with : table[k].assistant = a
<1>1. i \in with /\ table[i].assistant = a
  OBVIOUS
<1>2. j \in with /\ table[j].assistant = a
  BY <1>1
<1>3. j = i
  BY <1>2 DEF Unique
<1> QED
  BY <1>1, <1>3 DEF OwnerIn

LEMMA OwnerOfNone ==
  ASSUME NEW table, NEW a, \A i \in LineIds : table[i] # NoLine => table[i].assistant # a
  PROVE  OwnerIn(table, a) = None
  BY DEF OwnerIn

\* An assistant has an owner by a line of the table, or has none.
LEMMA OwnerHasLine ==
  ASSUME NEW table, NEW a, OwnerIn(table, a) # None, Unique(table)
  PROVE  \E i \in LineIds :
           /\ table[i] # NoLine /\ table[i].assistant = a
           /\ OwnerIn(table, a) = table[i].org
<1>1. PICK i \in LineIds : table[i] # NoLine /\ table[i].assistant = a
  BY DEF OwnerIn
<1> QED
  BY <1>1, OwnerByLine

LEMMA LineIdsAreNumbers ==
  /\ 0 \notin LineIds /\ LineIds \subseteq 0..MaxLines /\ 0 \in 0..MaxLines
  /\ LineIds \subseteq Nat
  BY LinesAssumption DEF LineIds

\* What a read by assistant, by organization and by phone finds.
LEMMA FindsByAssistant ==
  ASSUME NEW a
  PROVE  LET i == LineWhere(LAMBDA l : l.assistant = a)
         IN  \/ i = 0 /\ \A j \in Mapped : routing[j].assistant # a
             \/ i # 0 /\ i \in Mapped /\ routing[i].assistant = a
  BY LineIdsAreNumbers DEF LineWhere, Mapped

LEMMA FindsByOrg ==
  ASSUME NEW o
  PROVE  LET i == LineWhere(LAMBDA l : l.org = o)
         IN  \/ i = 0 /\ \A j \in Mapped : routing[j].org # o
             \/ i # 0 /\ i \in Mapped /\ routing[i].org = o
  BY LineIdsAreNumbers DEF LineWhere, Mapped

LEMMA FindsByPhone ==
  ASSUME NEW p
  PROVE  LET i == LineWhere(LAMBDA l : l.phone = p)
         IN  i = 0 \/ i \in Mapped
  BY DEF LineWhere

\* The key of a new line is one that no line has.
LEMMA NewLineIsNew ==
  ASSUME NewLine # 0
  PROVE  NewLine \in LineIds \ Mapped
<1> DEFINE remembered == UNION {{command[v].byAssistant, command[v].current,
                                 command[v].byPhone, command[v].retires,
                                 command[v].writes} : v \in Commands}
           fresh == LineIds \ (Mapped \union remembered)
<1>1. fresh # {} /\ NewLine = CHOOSE i \in fresh : \A j \in fresh : i <= j
  BY DEF NewLine
<1>2. fresh \subseteq Nat
  BY LineIdsAreNumbers
<1> HIDE DEF fresh
<1>3. PICK i \in fresh : \A j \in fresh : ~(<<j, i>> \in OpToRel(<, Nat))
  BY <1>1, <1>2, NatLessThanWellFounded, WFMin
<1>4. \A j \in fresh : i <= j
  <2> SUFFICES ASSUME NEW j \in fresh
               PROVE  i <= j
    OBVIOUS
  <2>1. i \in Nat /\ j \in Nat
    BY <1>2
  <2>2. ~(j < i)
    BY <2>1, <1>3 DEF OpToRel
  <2> QED
    BY <2>1, <2>2
<1>5. NewLine \in fresh
  BY <1>1, <1>3, <1>4
<1> QED
  BY <1>5 DEF fresh

LEMMA EmptyCommand ==
  /\ NoCommand \in CommandRows /\ GoodCommand(NoCommand)
  /\ NoCommand.at = "none" /\ ~NoCommand.overtaken
<1>1. NoLine \in LineRows
  BY EmptyLine
<1>2. NoCommand \in CommandRows
  BY <1>1, LineIdsAreNumbers DEF NoCommand, CommandRows
<1>3. NoCommand.at = "none" /\ ~NoCommand.overtaken /\ NoCommand.kind = "none"
  BY DEF NoCommand
<1>4. CommandStage(NoCommand)
  BY <1>3 DEF NoCommand, CommandStage, ReadsWhatItSought
<1>5. UpToDate(NoCommand)
  BY <1>3 DEF UpToDate
<1> QED
  BY <1>2, <1>3, <1>4, <1>5 DEF GoodCommand

LEMMA LinesStart ==
  ASSUME LinesInit
  PROVE  LinesIInv
<1>1. \A w \in Commands : command[w] = NoCommand
  BY DEF LinesInit
<1>2. command \in [Commands -> CommandRows]
  BY EmptyCommand DEF LinesInit
<1>3. ASSUME NEW a \in Assistants
      PROVE  OwnerOf(a) \in Businesses \union {None} /\ granted[a] = OwnerOf(a)
  <2>1. granted[a] = OwnerOf(a)
    BY <1>3 DEF LinesInit
  <2>2. CASE OwnerOf(a) = None
    BY <2>1, <2>2
  <2>3. CASE OwnerOf(a) # None
    <3>1. PICK i \in LineIds : routing[i] # NoLine /\ OwnerOf(a) = routing[i].org
      BY <2>3, OwnersOfTable, OwnerHasLine DEF LinesInit
    <3>2. routing[i] \in LineRows
      BY DEF LinesInit
    <3> QED
      BY <2>1, <3>1, <3>2, LineColumns
  <2> QED
    BY <2>2, <2>3
<1>4. granted = [a \in Assistants |-> OwnerOf(a)]
  BY DEF LinesInit
<1>5. granted \in [Assistants -> Businesses \union {None}]
  BY <1>3, <1>4
<1>6. given \in 0..MaxCommands /\ mixed \in BOOLEAN
  <2>1. given = 0 /\ mixed = FALSE
    BY DEF LinesInit
  <2>2. 0 \in 0..MaxCommands
    BY LinesAssumption
  <2> QED
    BY <2>1, <2>2
<1>7. LinesShape
  BY <1>2, <1>5, <1>6 DEF LinesShape, LinesInit
<1>8. \A w \in Commands : GoodCommand(command[w])
  BY <1>1, EmptyCommand
<1>9. RoutesAsGranted
  BY <1>3 DEF RoutesAsGranted
<1> QED
  BY <1>7, <1>8, <1>9 DEF LinesIInv

-----------------------------------------------------------------------------
(* A step of one command.                                                  *)

\* While the table stays, what is remembered of it stays as good as it was.
LEMMA MemoryStays ==
  ASSUME NEW o, GoodCommand(o), routing' = routing
  PROVE  GoodCommand(o)'
<1>1. UpToDate(o) => UpToDate(o)'
  BY DEF UpToDate, WritesAsNamed, Mapped
<1>2. CommandStage(o)'
  BY DEF GoodCommand, CommandStage, ReadsWhatItSought
<1> QED
  BY <1>1, <1>2 DEF GoodCommand

\* A command moves on, and nothing else changes.
LEMMA CommandMoves ==
  ASSUME LinesIInv, NEW w \in Commands, NEW next \in CommandRows, GoodCommand(next),
         command' = [command EXCEPT ![w] = next],
         UNCHANGED <<routing, granted, mixed>>, given' \in 0..MaxCommands
  PROVE  LinesIInv'
<1>1. command' \in [Commands -> CommandRows]
  BY DEF LinesIInv, LinesShape
<1>2. Unique(routing)'
  BY DEF LinesIInv, LinesShape, Unique
<1>3. LinesShape'
  BY <1>1, <1>2 DEF LinesIInv, LinesShape
<1>4. ASSUME NEW v \in Commands
      PROVE  GoodCommand(command[v])'
  <2> PICK o : o = command'[v]
    OBVIOUS
  <2>1. o = IF v = w THEN next ELSE command[v]
    BY <1>4 DEF LinesIInv, LinesShape
  <2>2. GoodCommand(o)
    BY <1>4, <2>1 DEF LinesIInv
  <2>3. GoodCommand(o)'
    BY <2>2, MemoryStays
  <2> QED
    BY <2>3 DEF GoodCommand, CommandStage, ReadsWhatItSought, UpToDate, WritesAsNamed
<1>5. RoutesAsGranted'
  BY DEF LinesIInv, RoutesAsGranted, OwnerOf, Mapped
<1> QED
  BY <1>3, <1>4, <1>5 DEF LinesIInv

LEMMA AssignKeeps ==
  ASSUME LinesIInv, NEW w \in Commands, NEW org \in Businesses, NEW a \in Assistants,
         NEW p \in PhoneIds \union {None}, NEW from \in Businesses, NEW replace \in BOOLEAN,
         Assign(w, org, a, p, from, replace)
  PROVE  LinesIInv'
<1> PICK next : next = [NoCommand EXCEPT !.at = "assistant", !.kind = "assign", !.org = org,
                          !.assistant = a, !.phone = p, !.from = from, !.replace = replace]
  OBVIOUS
<1>1. /\ next.at = "assistant" /\ next.kind = "assign" /\ next.org = org
      /\ next.assistant = a /\ next.byAssistant = 0 /\ next.seen = NoLine
      /\ next.current = 0 /\ next.seenCurrent = NoLine /\ next.writes = 0
  BY DEF NoCommand
<1>2. next \in CommandRows
  BY EmptyCommand DEF NoCommand, CommandRows
<1>3. CommandStage(next)
  BY <1>1 DEF CommandStage, ReadsWhatItSought
<1>4. UpToDate(next)
  BY <1>1 DEF UpToDate
<1>5. given' \in 0..MaxCommands
  BY LinesAssumption DEF Assign, Commands
<1>6. command' = [command EXCEPT ![w] = next] /\ UNCHANGED <<routing, granted, mixed>>
  BY DEF Assign
<1> QED
  BY <1>2, <1>3, <1>4, <1>5, <1>6, CommandMoves DEF GoodCommand

LEMMA SetActiveKeeps ==
  ASSUME LinesIInv, NEW w \in Commands, NEW org \in Businesses,
         NEW kind \in {"activate", "deactivate"}, SetActive(w, org, kind)
  PROVE  LinesIInv'
<1> PICK next : next = [NoCommand EXCEPT !.at = "current", !.kind = kind, !.org = org]
  OBVIOUS
<1>1. /\ next.at = "current" /\ next.kind = kind /\ next.org = org
      /\ next.byAssistant = 0 /\ next.seen = NoLine
      /\ next.current = 0 /\ next.seenCurrent = NoLine /\ next.writes = 0
  BY DEF NoCommand
<1>2. next \in CommandRows
  BY EmptyCommand DEF NoCommand, CommandRows
<1>3. CommandStage(next)
  BY <1>1 DEF CommandStage, ReadsWhatItSought
<1>4. UpToDate(next)
  BY <1>1 DEF UpToDate
<1>5. given' \in 0..MaxCommands
  BY LinesAssumption DEF SetActive, Commands
<1>6. command' = [command EXCEPT ![w] = next] /\ UNCHANGED <<routing, granted, mixed>>
  BY DEF SetActive
<1> QED
  BY <1>2, <1>3, <1>4, <1>5, <1>6, CommandMoves DEF GoodCommand

\* Row i is a line of the table, or there is none.
LEMMA RowFound ==
  ASSUME LinesIInv, NEW i, i = 0 \/ i \in Mapped
  PROVE  /\ i \in 0..MaxLines /\ Row(i) \in LineRows
         /\ i = 0 <=> Row(i) = NoLine
         /\ i # 0 => i \in LineIds /\ Row(i) = routing[i]
  BY EmptyLine, LineIdsAreNumbers DEF LinesIInv, LinesShape, Row, Mapped

LEMMA ReadByAssistantKeeps ==
  ASSUME LinesIInv, NEW w \in Commands, ReadByAssistant(w)
  PROVE  LinesIInv'
<1> DEFINE o == command[w]
           found == LineWhere(LAMBDA l : l.assistant = o.assistant)
<1> PICK i : i = found
  OBVIOUS
<1>a. \/ i = 0 /\ \A j \in Mapped : routing[j].assistant # o.assistant
      \/ i # 0 /\ i \in Mapped /\ routing[i].assistant = o.assistant
  BY FindsByAssistant DEF LineWhere
<1>1. Reading(w, "assistant") /\ OnlyCommand(w, [o EXCEPT !.at = "current",
                                                  !.byAssistant = i, !.seen = Row(i)])
  BY DEF ReadByAssistant
<1> HIDE DEF found
<1>2. o \in CommandRows /\ GoodCommand(o) /\ o.at = "assistant" /\ o.kind = "assign"
  BY <1>1 DEF LinesIInv, LinesShape, Reading, GoodCommand, CommandStage
<1>3. /\ i \in 0..MaxLines /\ Row(i) \in LineRows
      /\ i = 0 <=> Row(i) = NoLine
      /\ i # 0 => Row(i) = routing[i]
  BY <1>a, RowFound
<1> PICK next : next = [o EXCEPT !.at = "current", !.byAssistant = i, !.seen = Row(i)]
  OBVIOUS
<1>4. /\ next.at = "current" /\ next.kind = "assign" /\ next.org = o.org
      /\ next.assistant = o.assistant /\ next.byAssistant = i /\ next.seen = Row(i)
      /\ next.current = o.current /\ next.seenCurrent = o.seenCurrent
      /\ next.writes = o.writes
  BY <1>2 DEF CommandRows
<1>5. next \in CommandRows
  BY <1>2, <1>3 DEF CommandRows
<1>6. CommandStage(next)
  BY <1>2, <1>3, <1>4, <1>a DEF GoodCommand, CommandStage, ReadsWhatItSought
<1>7. UpToDate(next)
  BY <1>3, <1>4, <1>a DEF UpToDate
<1>8. /\ command' = [command EXCEPT ![w] = next] /\ UNCHANGED <<routing, granted, mixed>>
      /\ given' \in 0..MaxCommands
  BY <1>1 DEF OnlyCommand, LinesIInv, LinesShape
<1> QED
  BY <1>5, <1>6, <1>7, <1>8, CommandMoves DEF GoodCommand

LEMMA ReadCurrentKeeps ==
  ASSUME LinesIInv, NEW w \in Commands, ReadCurrent(w)
  PROVE  LinesIInv'
<1> DEFINE o == command[w]
           found == LineWhere(LAMBDA l : l.org = o.org)
<1> PICK i : i = found
  OBVIOUS
<1>a. \/ i = 0 /\ \A j \in Mapped : routing[j].org # o.org
      \/ i # 0 /\ i \in Mapped /\ routing[i].org = o.org
  BY FindsByOrg DEF LineWhere
<1>1. Reading(w, "current") /\ OnlyCommand(w,
        [o EXCEPT !.at = IF o.kind = "assign" THEN "phone" ELSE "read",
                  !.current = i, !.seenCurrent = Row(i)])
  BY DEF ReadCurrent
<1> HIDE DEF found
<1>2. o \in CommandRows /\ GoodCommand(o) /\ o.at = "current"
  BY <1>1 DEF LinesIInv, LinesShape, Reading
<1>3. /\ i \in 0..MaxLines /\ Row(i) \in LineRows
      /\ i = 0 <=> Row(i) = NoLine
      /\ i # 0 => Row(i) = routing[i]
  BY <1>a, RowFound
<1> PICK next : next = [o EXCEPT !.at = IF o.kind = "assign" THEN "phone" ELSE "read",
                                 !.current = i, !.seenCurrent = Row(i)]
  OBVIOUS
<1>4. /\ next.at = IF o.kind = "assign" THEN "phone" ELSE "read"
      /\ next.kind = o.kind /\ next.org = o.org
      /\ next.assistant = o.assistant /\ next.byAssistant = o.byAssistant
      /\ next.seen = o.seen /\ next.current = i /\ next.seenCurrent = Row(i)
      /\ next.writes = o.writes /\ next.overtaken = o.overtaken
  BY <1>2 DEF CommandRows
<1>5. next \in CommandRows
  BY <1>2, <1>3 DEF CommandRows
<1>6. CommandStage(next)
  BY <1>2, <1>3, <1>4, <1>a DEF GoodCommand, CommandStage, ReadsWhatItSought
<1>7. ~next.overtaken => UpToDate(next)
  BY <1>2, <1>3, <1>4, <1>a DEF GoodCommand, UpToDate
<1>8. /\ command' = [command EXCEPT ![w] = next] /\ UNCHANGED <<routing, granted, mixed>>
      /\ given' \in 0..MaxCommands
  BY <1>1 DEF OnlyCommand, LinesIInv, LinesShape
<1> QED
  BY <1>5, <1>6, <1>7, <1>8, CommandMoves DEF GoodCommand

LEMMA ReadByPhoneKeeps ==
  ASSUME LinesIInv, NEW w \in Commands, ReadByPhone(w)
  PROVE  LinesIInv'
<1> DEFINE o == command[w]
           found == IF o.phone = None THEN 0 ELSE LineWhere(LAMBDA l : l.phone = o.phone)
<1> PICK i : i = found
  OBVIOUS
<1>a. i = 0 \/ i \in Mapped
  BY FindsByPhone DEF LineWhere
<1>1. Reading(w, "phone") /\ OnlyCommand(w, [o EXCEPT !.at = "read", !.byPhone = i])
  BY DEF ReadByPhone
<1> HIDE DEF found
<1>2. o \in CommandRows /\ GoodCommand(o) /\ o.at = "phone"
  BY <1>1 DEF LinesIInv, LinesShape, Reading
<1>3. i \in 0..MaxLines
  BY <1>a, RowFound
<1> PICK next : next = [o EXCEPT !.at = "read", !.byPhone = i]
  OBVIOUS
<1>4. /\ next.at = "read" /\ next.kind = o.kind /\ next.org = o.org
      /\ next.assistant = o.assistant /\ next.byAssistant = o.byAssistant
      /\ next.seen = o.seen /\ next.current = o.current
      /\ next.seenCurrent = o.seenCurrent
      /\ next.writes = o.writes /\ next.overtaken = o.overtaken
  BY <1>2 DEF CommandRows
<1>5. next \in CommandRows
  BY <1>2, <1>3 DEF CommandRows
<1>6. CommandStage(next)
  BY <1>2, <1>4 DEF GoodCommand, CommandStage, ReadsWhatItSought
<1>7. ~next.overtaken => UpToDate(next)
  BY <1>2, <1>4 DEF GoodCommand, UpToDate
<1>8. /\ command' = [command EXCEPT ![w] = next] /\ UNCHANGED <<routing, granted, mixed>>
      /\ given' \in 0..MaxCommands
  BY <1>1 DEF OnlyCommand, LinesIInv, LinesShape
<1> QED
  BY <1>5, <1>6, <1>7, <1>8, CommandMoves DEF GoodCommand

LEMMA RefuseKeeps ==
  ASSUME LinesIInv, NEW w \in Commands, Refuse(w)
  PROVE  LinesIInv'
<1>1. /\ command' = [command EXCEPT ![w] = NoCommand]
      /\ UNCHANGED <<routing, granted, mixed>> /\ given' \in 0..MaxCommands
  BY DEF Refuse, OnlyCommand, LinesIInv, LinesShape
<1> QED
  BY <1>1, EmptyCommand, CommandMoves

-----------------------------------------------------------------------------
(* Its row.                                                                *)

\* A command that loads the row it is to write, for what it read allows that.
LEMMA LoadKeeps ==
  ASSUME LinesIInv, NEW w \in Commands, NEW retires \in 0..MaxLines, NEW i,
         NEW wanted \in LineRows, wanted # NoLine, Reading(w, "read"),
         command[w].kind = "assign" =>
           wanted.org = command[w].org /\ wanted.assistant = command[w].assistant,
         ~command[w].overtaken => WritesAsNamed(command[w], retires, i, wanted),
         Load(w, retires, i, wanted)
  PROVE  LinesIInv'
<1> DEFINE o == command[w]
<1> PICK next : next = [o EXCEPT !.at = "loaded", !.retires = retires, !.writes = i,
                          !.wanted = wanted, !.loaded = routing[i], !.byAssistant = 0,
                          !.seen = NoLine, !.current = 0, !.seenCurrent = NoLine, !.byPhone = 0]
  OBVIOUS
<1>1. i \in Mapped /\ i # retires /\ OnlyCommand(w, next)
  BY DEF Load
<1>2. o \in CommandRows /\ GoodCommand(o) /\ o.at = "read"
  BY DEF LinesIInv, LinesShape, Reading
<1>3. i \in 0..MaxLines /\ i # 0 /\ routing[i] \in LineRows /\ routing[i] # NoLine
  BY <1>1, LineIdsAreNumbers DEF LinesIInv, LinesShape, Mapped
<1>4. /\ next.at = "loaded" /\ next.kind = o.kind /\ next.org = o.org
      /\ next.assistant = o.assistant /\ next.from = o.from /\ next.replace = o.replace
      /\ next.overtaken = o.overtaken
      /\ next.byAssistant = 0 /\ next.seen = NoLine
      /\ next.current = 0 /\ next.seenCurrent = NoLine
      /\ next.retires = retires /\ next.writes = i /\ next.wanted = wanted
      /\ next.loaded = routing[i]
  BY <1>2 DEF CommandRows
<1>5. next \in CommandRows
  <2>1. NoLine \in LineRows /\ 0 \in 0..MaxLines
    BY EmptyLine, LineIdsAreNumbers
  <2> QED
    BY <2>1, <1>2, <1>3 DEF CommandRows
<1>6. CommandStage(next)
  BY <1>1, <1>2, <1>3, <1>4 DEF GoodCommand, CommandStage, ReadsWhatItSought
<1>7. ~next.overtaken => UpToDate(next)
  BY <1>1, <1>4 DEF UpToDate, WritesAsNamed
<1>8. /\ command' = [command EXCEPT ![w] = next] /\ UNCHANGED <<routing, granted, mixed>>
      /\ given' \in 0..MaxCommands
  BY <1>1 DEF OnlyCommand, LinesIInv, LinesShape
<1> QED
  BY <1>5, <1>6, <1>7, <1>8, CommandMoves DEF GoodCommand

LEMMA AssignedIsLine ==
  ASSUME NEW o \in CommandRows, NEW was \in LineRows,
         o.org \in Businesses, o.assistant \in Assistants
  PROVE  /\ Assigned(o, was) \in LineRows /\ Assigned(o, was) # NoLine
         /\ Assigned(o, was).org = o.org /\ Assigned(o, was).assistant = o.assistant
<1>1. was.phone \in PhoneIds \union {None} /\ o.phone \in PhoneIds \union {None}
  BY DEF LineRows, NoLine, CommandRows
<1>2. Assigned(o, was) \in [org : Businesses, assistant : Assistants,
                            phone : PhoneIds \union {None}, active : BOOLEAN]
  BY <1>1 DEF Assigned
<1>3. Assigned(o, was).org = o.org /\ Assigned(o, was).assistant = o.assistant
  BY DEF Assigned
<1> QED
  BY <1>2, <1>3, EmptyLine DEF LineRows

LEMMA ProvisionKeeps ==
  ASSUME LinesIInv, NEW w \in Commands, Provision(w)
  PROVE  LinesIInv'
<1> DEFINE o == command[w]
<1>1. /\ Reading(w, "read") /\ o.kind = "assign" /\ o.at = "read"
      /\ o \in CommandRows /\ GoodCommand(o)
      /\ o.org \in Businesses /\ o.assistant \in Assistants
  BY DEF Provision, Reading, LinesIInv, LinesShape, GoodCommand, CommandStage
<1>2. o.seen \in LineRows /\ o.seenCurrent \in LineRows /\ o.current \in 0..MaxLines
  BY <1>1 DEF CommandRows
<1>a. None \notin Businesses /\ 0 \in 0..MaxLines
  BY LinesAssumption, LineIdsAreNumbers
<1>3. ReadsWhatItSought(o) /\ (~o.overtaken => UpToDate(o))
  BY <1>1 DEF GoodCommand, CommandStage
<1>4. /\ Assigned(o, o.seen) \in LineRows /\ Assigned(o, o.seen) # NoLine
      /\ Assigned(o, o.seen).org = o.org /\ Assigned(o, o.seen).assistant = o.assistant
  BY <1>1, <1>2, AssignedIsLine
<1>5. /\ Assigned(o, o.seenCurrent) \in LineRows /\ Assigned(o, o.seenCurrent) # NoLine
      /\ Assigned(o, o.seenCurrent).org = o.org
      /\ Assigned(o, o.seenCurrent).assistant = o.assistant
  BY <1>1, <1>2, AssignedIsLine
<1>6. CASE MayReassign(o) /\ Load(w, o.current, o.byAssistant, Assigned(o, o.seen))
  <2>1. o.byAssistant # 0
    BY <1>6, <1>3, EmptyLine DEF MayReassign, ReadsWhatItSought
  <2>2. ~o.overtaken => WritesAsNamed(o, o.current, o.byAssistant, Assigned(o, o.seen))
    BY <1>1, <1>3, <1>6, <2>1 DEF MayReassign, UpToDate, WritesAsNamed, ReadsWhatItSought
  <2> HIDE DEF o
  <2> QED
    BY <1>1, <1>2, <1>4, <1>6, <2>2, LoadKeeps DEF o
<1>7. CASE MayUpdate(o) /\ Load(w, 0, o.byAssistant, Assigned(o, o.seen))
  <2>1. o.byAssistant # 0
    BY <1>1, <1>7, <1>3, <1>a, EmptyLine DEF MayUpdate, ReadsWhatItSought
  <2>2. ~o.overtaken => WritesAsNamed(o, 0, o.byAssistant, Assigned(o, o.seen))
    BY <1>1, <1>3, <1>7, <2>1 DEF MayUpdate, UpToDate, WritesAsNamed, ReadsWhatItSought
  <2> QED
    BY <1>1, <1>a, <1>4, <1>7, <2>2, LoadKeeps
<1>8. CASE MaySwitch(o) /\ Load(w, 0, o.current, Assigned(o, o.seenCurrent))
  <2>1. ~o.overtaken => WritesAsNamed(o, 0, o.current, Assigned(o, o.seenCurrent))
    BY <1>1, <1>3, <1>8 DEF MaySwitch, UpToDate, WritesAsNamed, ReadsWhatItSought
  <2> QED
    BY <1>1, <1>a, <1>5, <1>8, <2>1, LoadKeeps
<1> QED
  BY <1>6, <1>7, <1>8 DEF Provision

LEMMA ChangeActiveKeeps ==
  ASSUME LinesIInv, NEW w \in Commands, ChangeActive(w)
  PROVE  LinesIInv'
<1> DEFINE o == command[w]
<1> PICK wanted : wanted = [o.seenCurrent EXCEPT !.active = o.kind = "activate"]
  OBVIOUS
<1>1. /\ Reading(w, "read") /\ o.kind # "assign" /\ o.at = "read" /\ o.current # 0
      /\ o \in CommandRows /\ GoodCommand(o) /\ Load(w, 0, o.current, wanted)
  BY DEF ChangeActive, Reading, LinesIInv, LinesShape
<1>2. o.seenCurrent \in LineRows /\ o.seenCurrent # NoLine
  BY <1>1 DEF CommandRows, GoodCommand, CommandStage, ReadsWhatItSought
<1>3. o.seenCurrent \in [org : Businesses, assistant : Assistants,
                         phone : PhoneIds \union {None}, active : BOOLEAN]
  BY <1>2, LineColumns
<1>4. /\ wanted \in [org : Businesses, assistant : Assistants,
                     phone : PhoneIds \union {None}, active : BOOLEAN]
      /\ wanted.org = o.seenCurrent.org /\ wanted.assistant = o.seenCurrent.assistant
  BY <1>3
<1>5. wanted \in LineRows /\ wanted # NoLine
  BY <1>4, EmptyLine DEF LineRows
<1>6. ~o.overtaken => WritesAsNamed(o, 0, o.current, wanted)
  BY <1>1, <1>4 DEF GoodCommand, UpToDate, WritesAsNamed
<1>7. 0 \in 0..MaxLines
  BY LineIdsAreNumbers
<1> QED
  BY <1>1, <1>5, <1>6, <1>7, LoadKeeps

-----------------------------------------------------------------------------
(* What a commit does.                                                     *)

\* What a command that none overtook makes of the owners: it moves its assistant
\* from nobody, itself or whom it names, and takes from its own organization what it
\* had if that is to be replaced.
TakesAsNamed(o, table) ==
  /\ \A a \in Assistants :
       OwnerIn(table, a) = IF a = o.assistant THEN o.org
                           ELSE IF OwnerIn(routing, a) = o.org THEN None
                           ELSE OwnerIn(routing, a)
  /\ OwnerIn(routing, o.assistant) \in {None, o.org, o.from}
  /\ \A a \in Assistants \ {o.assistant} : OwnerIn(routing, a) = o.org => o.replace

ChangesAsNamed(o, table) ==
  IF o.kind = "assign" THEN TakesAsNamed(o, table)
  ELSE \A a \in Assistants : OwnerIn(table, a) = OwnerIn(routing, a)

\* A command that is done commits over a table, as it was named to unless it was
\* overtaken.
Commits(w, table) ==
  /\ table \in [LineIds -> LineRows]
  /\ command[w].at \in {"read", "loaded"}
  /\ CommitLines(w, table)
  /\ ~command[w].overtaken => ChangesAsNamed(command[w], table)

\* Whom assistants belong to once a command has committed over table.
GrantedBy(o) ==
  IF o.kind # "assign" THEN granted
  ELSE [a \in Assistants |-> IF a = o.assistant THEN o.org
                             ELSE IF granted[a] = o.org THEN None ELSE granted[a]]

\* A commit keeps the table as good as the command's reasons for it.
LEMMA CommitKeeps ==
  ASSUME LinesIInv, NEW w \in Commands, NEW table, Commits(w, table)
  PROVE  LinesIInv'
<1> DEFINE o == command[w]
<1>a. table \in [LineIds -> LineRows] /\ CommitLines(w, table) /\ o.at # "none"
  BY DEF Commits
<1>1. Unique(table) /\ routing' = table /\ given' = given /\ mixed' = (mixed \/ o.overtaken)
  BY <1>a DEF CommitLines
<1>2. granted' = GrantedBy(o)
  BY <1>a DEF CommitLines, GrantedBy
<1>3. /\ o \in CommandRows /\ CommandStage(o) /\ o.org \in Businesses
      /\ granted \in [Assistants -> Businesses \union {None}]
      /\ mixed \in BOOLEAN /\ given \in 0..MaxCommands
  BY <1>a DEF LinesIInv, LinesShape, GoodCommand, CommandStage
<1>4. o.overtaken \in BOOLEAN
  BY <1>3 DEF CommandRows
<1>5. granted' \in [Assistants -> Businesses \union {None}]
  BY <1>2, <1>3 DEF GrantedBy
<1>6. ASSUME NEW v \in Commands
      PROVE  command'[v] \in CommandRows /\ GoodCommand(command[v])'
  <2>1. CASE v = w
    <3>1. command'[v] = NoCommand
      BY <1>a, <1>6, <2>1 DEF CommitLines
    <3> PICK n : n = NoCommand
      OBVIOUS
    <3>2. n \in CommandRows /\ CommandStage(n) /\ n.at = "none"
      BY EmptyCommand DEF GoodCommand
    <3>3. UpToDate(n)'
      BY <3>2 DEF UpToDate
    <3>4. command'[v] = n
      BY <3>1
    <3>5. GoodCommand(n)'
      BY <3>2, <3>3 DEF GoodCommand, CommandStage, ReadsWhatItSought
    <3> QED
      BY <3>2, <3>4, <3>5 DEF GoodCommand, CommandStage, ReadsWhatItSought, UpToDate, WritesAsNamed
  <2>2. CASE v # w
    <3> PICK c : c = command[v]
      OBVIOUS
    <3>1. c \in CommandRows /\ GoodCommand(c)
      BY <1>6 DEF LinesIInv, LinesShape
    <3> PICK late \in BOOLEAN : late <=> c.overtaken \/ (c.at # "none" /\ table # routing)
      OBVIOUS
    <3> PICK n : n = [c EXCEPT !.overtaken = late]
      OBVIOUS
    <3>2. command'[v] = [c EXCEPT !.overtaken =
                           c.overtaken \/ (c.at # "none" /\ table # routing)]
      BY <1>a, <1>6, <2>2 DEF CommitLines
    <3>3. c.overtaken \in BOOLEAN
      BY <3>1 DEF CommandRows
    <3>4. late = (c.overtaken \/ (c.at # "none" /\ table # routing))
      BY <3>3
    <3>5. command'[v] = n
      BY <3>2, <3>4
    <3>6. n \in CommandRows /\ n.overtaken = late
      BY <3>1 DEF CommandRows
    <3>7. /\ n.at = c.at /\ n.kind = c.kind /\ n.org = c.org /\ n.assistant = c.assistant
          /\ n.from = c.from /\ n.replace = c.replace
          /\ n.byAssistant = c.byAssistant /\ n.seen = c.seen /\ n.current = c.current
          /\ n.seenCurrent = c.seenCurrent /\ n.retires = c.retires
          /\ n.writes = c.writes /\ n.wanted = c.wanted /\ n.loaded = c.loaded
      BY <3>1 DEF CommandRows
    <3>8. c.at = "none" => n = NoCommand
      <4> SUFFICES ASSUME c.at = "none"
                   PROVE  n = NoCommand
        OBVIOUS
      <4>1. c = NoCommand
        BY <3>1 DEF GoodCommand, CommandStage
      <4>2. c.overtaken = FALSE
        BY <4>1 DEF NoCommand
      <4>3. late = FALSE
        BY <4>2, <3>4
      <4>4. n = [NoCommand EXCEPT !.overtaken = FALSE]
        BY <4>1, <4>3
      <4> QED
        BY <4>4 DEF NoCommand
    <3>9. CommandStage(n)
      BY <3>1, <3>7, <3>8 DEF GoodCommand, CommandStage, ReadsWhatItSought
    <3>10. ASSUME ~n.overtaken
           PROVE  UpToDate(n)'
      <4>1. CASE n.at = "none"
        BY <4>1 DEF UpToDate
      <4>2. CASE n.at # "none"
        <5>1. table = routing /\ ~c.overtaken
          BY <3>4, <3>6, <3>7, <3>10, <4>2
        <5>2. GoodCommand(c)'
          BY <3>1, <5>1, <1>1, MemoryStays
        <5>3. UpToDate(c)'
          BY <5>1, <5>2 DEF GoodCommand
        <5> QED
          BY <5>3, <3>7 DEF UpToDate, WritesAsNamed
      <4> QED
        BY <4>1, <4>2
    <3>11. GoodCommand(n)'
      BY <3>9, <3>10 DEF GoodCommand, CommandStage, ReadsWhatItSought
    <3> QED
      BY <3>5, <3>6, <3>11 DEF GoodCommand, CommandStage, ReadsWhatItSought, UpToDate, WritesAsNamed
  <2> QED
    BY <2>1, <2>2
<1>7. command' \in [Commands -> CommandRows]
  <2>1. command' = [v \in Commands |-> command'[v]]
    BY <1>a DEF CommitLines
  <2> QED
    BY <2>1, <1>6
<1>8. LinesShape'
  BY <1>a, <1>1, <1>3, <1>4, <1>5, <1>7 DEF LinesShape
<1>9. \A v \in Commands : GoodCommand(command[v])'
  BY <1>6
<1>10. RoutesAsGranted'
  <2> SUFFICES ASSUME ~mixed', NEW a \in Assistants
               PROVE  OwnerOf(a)' = granted'[a]
    BY DEF RoutesAsGranted
  <2>1. OwnerOf(a)' = OwnerIn(table, a)
    BY <1>1 DEF OwnerOf, OwnerIn, Mapped
  <2>2. ~mixed /\ ~o.overtaken
    BY <1>1
  <2>3. granted[a] = OwnerIn(routing, a)
    BY <2>2, OwnersOfTable DEF LinesIInv, RoutesAsGranted
  <2>4. ChangesAsNamed(o, table)
    BY <2>2 DEF Commits
  <2>5. CASE o.kind = "assign"
    <3>1. OwnerIn(table, a) = IF a = o.assistant THEN o.org
                              ELSE IF OwnerIn(routing, a) = o.org THEN None
                              ELSE OwnerIn(routing, a)
      BY <2>4, <2>5 DEF ChangesAsNamed, TakesAsNamed
    <3>2. granted'[a] = IF a = o.assistant THEN o.org
                        ELSE IF granted[a] = o.org THEN None ELSE granted[a]
      BY <1>2, <2>5 DEF GrantedBy
    <3> QED
      BY <2>1, <2>3, <3>1, <3>2
  <2>6. CASE o.kind # "assign"
    <3>1. granted' = granted
      BY <1>2, <2>6 DEF GrantedBy
    <3> QED
      BY <2>1, <2>3, <2>4, <2>6, <3>1 DEF ChangesAsNamed
  <2> QED
    BY <2>5, <2>6
<1> QED
  BY <1>8, <1>9, <1>10 DEF LinesIInv

\* A commit takes an assistant from an organization only if it was named so.
LEMMA CommitTakes ==
  ASSUME LinesIInv, NEW w \in Commands, NEW table, Commits(w, table),
         NEW a \in Assistants, OwnerOf(a) # None, OwnerOf(a)' # OwnerOf(a)
  PROVE  /\ command[w].at \in {"read", "loaded"} /\ command'[w].at = "none"
         /\ \/ command[w].overtaken
            \/ command[w].from = OwnerOf(a)
            \/ command[w].org = OwnerOf(a) /\ command[w].replace
<1> DEFINE o == command[w]
<1>1. o.at \in {"read", "loaded"} /\ CommitLines(w, table)
  BY DEF Commits
<1>2. command'[w] = NoCommand /\ routing' = table
  BY <1>1 DEF CommitLines
<1>3. command'[w].at = "none"
  BY <1>2, EmptyCommand
<1>4. OwnerOf(a)' = OwnerIn(table, a) /\ OwnerOf(a) = OwnerIn(routing, a)
  BY <1>2 DEF OwnerOf, OwnerIn, Mapped
<1>5. ASSUME ~o.overtaken
      PROVE  o.from = OwnerOf(a) \/ (o.org = OwnerOf(a) /\ o.replace)
  <2>1. TakesAsNamed(o, table)
    BY <1>4, <1>5 DEF Commits, ChangesAsNamed
  <2>2. CASE a = o.assistant
    BY <1>4, <2>1, <2>2 DEF TakesAsNamed
  <2>3. CASE a # o.assistant
    BY <1>4, <2>1, <2>3 DEF TakesAsNamed
  <2> QED
    BY <2>2, <2>3
<1> QED
  BY <1>1, <1>3, <1>5

\* An assistant whose lines two tables agree on has the same owner in both.
LEMMA SameOwner ==
  ASSUME NEW old, NEW new, Unique(old), Unique(new), NEW a,
         \A i \in LineIds : old[i] # NoLine /\ old[i].assistant = a =>
           \E j \in LineIds : /\ new[j] # NoLine /\ new[j].assistant = a
                              /\ new[j].org = old[i].org,
         \A i \in LineIds : new[i] # NoLine /\ new[i].assistant = a =>
           \E j \in LineIds : old[j] # NoLine /\ old[j].assistant = a
  PROVE  OwnerIn(new, a) = OwnerIn(old, a)
<1>1. CASE \E i \in LineIds : old[i] # NoLine /\ old[i].assistant = a
  <2>1. PICK i \in LineIds : old[i] # NoLine /\ old[i].assistant = a
    BY <1>1
  <2>2. PICK j \in LineIds : /\ new[j] # NoLine /\ new[j].assistant = a
                             /\ new[j].org = old[i].org
    BY <2>1
  <2> QED
    BY <2>1, <2>2, OwnerByLine
<1>2. CASE ~(\E i \in LineIds : old[i] # NoLine /\ old[i].assistant = a)
  BY <1>2, OwnerOfNone
<1> QED
  BY <1>1, <1>2

\* What a table says of an assistant's owner, of its line.
LEMMA OwnerOfLines ==
  ASSUME LinesIInv, NEW a
  PROVE  /\ \A i \in Mapped : routing[i].assistant = a => OwnerIn(routing, a) = routing[i].org
         /\ OwnerIn(routing, a) # None =>
              \E i \in Mapped : routing[i].assistant = a /\ OwnerIn(routing, a) = routing[i].org
         /\ \A i \in Mapped : routing[i].org \in Businesses /\ routing[i].org # None
<1>1. Unique(routing) /\ routing \in [LineIds -> LineRows]
  BY DEF LinesIInv, LinesShape
<1>2. \A i \in Mapped : routing[i].assistant = a => OwnerIn(routing, a) = routing[i].org
  BY <1>1, OwnerByLine DEF Mapped
<1>3. OwnerIn(routing, a) # None =>
        \E i \in Mapped : routing[i].assistant = a /\ OwnerIn(routing, a) = routing[i].org
  BY <1>1, OwnerHasLine DEF Mapped
<1>4. \A i \in Mapped : routing[i].org \in Businesses
  BY <1>1, LineColumns DEF Mapped
<1> QED
  BY <1>2, <1>3, <1>4, LinesAssumption

LEMMA CreateCommits ==
  ASSUME LinesIInv, NEW w \in Commands, CreateLine(w)
  PROVE  \E table : Commits(w, table)
<1> DEFINE o == command[w]
           row == Assigned(o, NoLine)
           table == [routing EXCEPT ![NewLine] = row]
<1>1. /\ o.at = "read" /\ o.kind = "assign" /\ o \in CommandRows /\ GoodCommand(o)
      /\ o.org \in Businesses /\ o.assistant \in Assistants
      /\ MayCreate(o) /\ NewLine # 0 /\ CommitLines(w, table)
  BY DEF CreateLine, Reading, LinesIInv, LinesShape, GoodCommand, CommandStage
<1>2. row \in LineRows /\ row # NoLine /\ row.org = o.org /\ row.assistant = o.assistant
  BY <1>1, EmptyLine, AssignedIsLine
<1>3. NewLine \in LineIds \ Mapped
  BY <1>1, NewLineIsNew
<1> PICK n \in LineIds : n = NewLine
  BY <1>3
<1>4. routing \in [LineIds -> LineRows] /\ Unique(routing)
  BY DEF LinesIInv, LinesShape
<1> HIDE DEF row
<1>5. /\ table \in [LineIds -> LineRows] /\ Unique(table) /\ table[n] = row
      /\ routing[n] = NoLine
      /\ \A i \in LineIds : i # n => table[i] = routing[i]
  BY <1>1, <1>2, <1>3, <1>4 DEF CommitLines, Mapped
<1>6. ASSUME ~o.overtaken
      PROVE  TakesAsNamed(o, table)
  <2> HIDE DEF table
  <2>1. /\ \A j \in Mapped : routing[j].assistant # o.assistant
        /\ \A j \in Mapped : routing[j].org # o.org
    BY <1>1, <1>6 DEF GoodCommand, UpToDate, MayCreate
  <2>2. OwnerIn(table, o.assistant) = o.org
    BY <1>2, <1>5, OwnerByLine
  <2>3. OwnerIn(routing, o.assistant) = None
    BY <2>1, OwnerOfLines
  <2>4. ASSUME NEW a \in Assistants, a # o.assistant
        PROVE  OwnerIn(routing, a) # o.org /\ OwnerIn(table, a) = OwnerIn(routing, a)
    <3>1. OwnerIn(routing, a) # o.org
      <4>1. o.org # None
        BY <1>1, LinesAssumption
      <4> QED
        BY <2>1, <4>1, OwnerOfLines
    <3>2. \A i \in LineIds : routing[i] # NoLine /\ routing[i].assistant = a =>
            \E j \in LineIds : /\ table[j] # NoLine /\ table[j].assistant = a
                               /\ table[j].org = routing[i].org
      BY <1>5
    <3>3. \A i \in LineIds : table[i] # NoLine /\ table[i].assistant = a =>
            \E j \in LineIds : routing[j] # NoLine /\ routing[j].assistant = a
      BY <1>2, <1>5, <2>4
    <3>4. OwnerIn(table, a) = OwnerIn(routing, a)
      BY <1>4, <1>5, <3>2, <3>3, SameOwner
    <3> QED
      BY <3>1, <3>4
  <2> QED
    BY <2>2, <2>3, <2>4 DEF TakesAsNamed
<1>7. Commits(w, table)
  BY <1>1, <1>5, <1>6 DEF Commits, ChangesAsNamed
<1> QED
  BY <1>7

LEMMA LeaveCommits ==
  ASSUME LinesIInv, NEW w \in Commands, LeaveLine(w)
  PROVE  \E table : Commits(w, table)
<1> DEFINE o == command[w]
<1>1. /\ o.at = "read" /\ o.kind = "assign" /\ o \in CommandRows /\ GoodCommand(o)
      /\ o.org \in Businesses /\ o.assistant \in Assistants
      /\ MayUpdate(o) /\ CommitLines(w, routing)
  BY DEF LeaveLine, Reading, LinesIInv, LinesShape, GoodCommand, CommandStage
<1>2. routing \in [LineIds -> LineRows] /\ Unique(routing)
  BY DEF LinesIInv, LinesShape
<1>3. ASSUME ~o.overtaken
      PROVE  TakesAsNamed(o, routing)
  <2>1. o.seen.org = o.org /\ o.org # None
    BY <1>1, LinesAssumption DEF MayUpdate
  <2>2. o.byAssistant # 0 /\ o.seen.assistant = o.assistant
    BY <1>1, <2>1, EmptyLine DEF GoodCommand, CommandStage, ReadsWhatItSought
  <2>3. o.byAssistant \in Mapped /\ routing[o.byAssistant] = o.seen
    BY <1>1, <1>3, <2>2 DEF GoodCommand, UpToDate
  <2>4. OwnerIn(routing, o.assistant) = o.org
    BY <2>1, <2>2, <2>3, OwnerOfLines
  <2>5. ASSUME NEW a \in Assistants, a # o.assistant, OwnerIn(routing, a) = o.org
        PROVE  FALSE
    <3>1. PICK i \in Mapped : routing[i].assistant = a /\ routing[i].org = o.org
      BY <2>1, <2>5, OwnerOfLines
    <3>2. i # o.byAssistant
      BY <2>2, <2>3, <2>5, <3>1
    <3> QED
      BY <1>2, <2>1, <2>3, <3>1, <3>2 DEF Unique, Mapped
  <2> QED
    BY <2>4, <2>5 DEF TakesAsNamed
<1>4. Commits(w, routing)
  BY <1>1, <1>2, <1>3 DEF Commits, ChangesAsNamed
<1> QED
  BY <1>4

LEMMA WriteCommits ==
  ASSUME LinesIInv, NEW w \in Commands, WriteLine(w)
  PROVE  \E table : Commits(w, table)
<1> DEFINE o == command[w]
           kept == [i \in LineIds |-> IF i = o.retires THEN NoLine ELSE routing[i]]
           row  == [f \in DOMAIN NoLine |->
                      IF o.wanted[f] # o.loaded[f] THEN o.wanted[f] ELSE routing[o.writes][f]]
           table == [kept EXCEPT ![o.writes] = row]
<1>1. /\ o.at = "loaded" /\ o \in CommandRows /\ GoodCommand(o)
      /\ o.kind = "assign" => o.org \in Businesses /\ o.assistant \in Assistants
      /\ o.writes \in Mapped /\ CommitLines(w, table)
  BY DEF WriteLine, Reading, LinesIInv, LinesShape, GoodCommand, CommandStage
<1>2. routing \in [LineIds -> LineRows] /\ Unique(routing)
  BY DEF LinesIInv, LinesShape
<1>3. /\ o.wanted \in LineRows /\ o.wanted # NoLine /\ o.loaded # NoLine
      /\ o.loaded \in LineRows
      /\ routing[o.writes] \in LineRows /\ routing[o.writes] # NoLine
      /\ o.retires # o.writes /\ o.writes \in LineIds
      /\ o.kind = "assign" => o.wanted.org = o.org /\ o.wanted.assistant = o.assistant
  BY <1>1, <1>2 DEF GoodCommand, CommandStage, CommandRows, Mapped
<1> PICK was : was = routing[o.writes]
  OBVIOUS
<1> PICK wanted : wanted = o.wanted
  OBVIOUS
<1> DEFINE Full == [org : Businesses, assistant : Assistants,
                    phone : PhoneIds \union {None}, active : BOOLEAN]
<1>4. was \in Full /\ wanted \in Full /\ o.loaded \in Full
  BY <1>3, LineColumns
<1>5. DOMAIN NoLine = {"org", "assistant", "phone", "active"}
  BY DEF NoLine
<1> PICK written : written = row
  OBVIOUS
<1>6. /\ written.org \in {wanted.org, was.org}
      /\ written.assistant \in {wanted.assistant, was.assistant}
      /\ written.phone \in {wanted.phone, was.phone}
      /\ written.active \in {wanted.active, was.active}
      /\ DOMAIN written = {"org", "assistant", "phone", "active"}
      /\ written = [f \in {"org", "assistant", "phone", "active"} |-> written[f]]
  BY <1>5
<1>7. written \in Full
  BY <1>4, <1>6
<1>8. o.loaded = was => written.org = wanted.org /\ written.assistant = wanted.assistant
  BY <1>5
<1>9. /\ table \in [LineIds -> LineRows] /\ Unique(table)
      /\ table[o.writes] = written /\ written # NoLine
      /\ \A i \in LineIds : i # o.writes =>
           table[i] = IF i = o.retires THEN NoLine ELSE routing[i]
  <2>1. written \in LineRows /\ written # NoLine /\ NoLine \in LineRows
    BY <1>7, EmptyLine DEF LineRows
  <2>2. Unique(table)
    BY <1>1 DEF CommitLines
  <2>3. kept \in [LineIds -> LineRows]
    BY <1>2, <2>1
  <2> HIDE DEF row
  <2> QED
    BY <1>3, <2>1, <2>2, <2>3
<1> PICK new : new = table
  OBVIOUS
<1> HIDE DEF table, row, kept
<1>10. /\ new \in [LineIds -> LineRows] /\ Unique(new)
       /\ new[o.writes] = written /\ written # NoLine
       /\ \A i \in LineIds : i # o.writes =>
            new[i] = IF i = o.retires THEN NoLine ELSE routing[i]
       /\ CommitLines(w, new)
  BY <1>1, <1>9
<1>11. ASSUME ~o.overtaken
       PROVE  /\ WritesAsNamed(o, o.retires, o.writes, wanted)
              /\ written.org = wanted.org /\ written.assistant = wanted.assistant
  BY <1>1, <1>8, <1>11 DEF GoodCommand, UpToDate
<1>12. ASSUME ~o.overtaken, o.kind = "assign"
       PROVE  TakesAsNamed(o, new)
  <2>1. /\ was.assistant = o.assistant => was.org \in {o.org, o.from}
        /\ was.assistant # o.assistant => was.org = o.org /\ o.replace
        /\ o.retires # 0 => routing[o.retires].org = o.org /\ o.replace
        /\ written.org = o.org /\ written.assistant = o.assistant
    BY <1>3, <1>11, <1>12 DEF WritesAsNamed
  <2>2. OwnerIn(new, o.assistant) = o.org
    BY <1>3, <1>10, <2>1, OwnerByLine
  <2>3. ASSUME NEW i \in Mapped, i # o.writes, i # o.retires
        PROVE  /\ routing[i].assistant # o.assistant /\ routing[i].org # o.org
               /\ new[i] = routing[i]
    BY <1>3, <1>10, <2>1, <2>3 DEF Unique, Mapped
  <2>4. o.retires \in Mapped => o.retires # 0
    BY LineIdsAreNumbers DEF Mapped
  <2>5. \A i \in Mapped : routing[i].assistant = o.assistant => routing[i].org \in {o.org, o.from}
    BY <2>1, <2>3, <2>4
  <2>6. OwnerIn(routing, o.assistant) \in {None, o.org, o.from}
    BY <2>5, OwnerOfLines
  <2>7. ASSUME NEW i \in Mapped, routing[i].assistant # o.assistant, routing[i].org = o.org
        PROVE  o.replace /\ (i = o.writes \/ i = o.retires)
    BY <2>1, <2>3, <2>4, <2>7
  <2>8. ASSUME NEW a \in Assistants, a # o.assistant
        PROVE  /\ OwnerIn(routing, a) = o.org => o.replace /\ OwnerIn(new, a) = None
               /\ OwnerIn(routing, a) # o.org => OwnerIn(new, a) = OwnerIn(routing, a)
    <3>1. o.org # None
      BY <1>1, <1>12, LinesAssumption
    <3>2. ASSUME OwnerIn(routing, a) = o.org
          PROVE  o.replace /\ OwnerIn(new, a) = None
      <4>1. PICK i \in Mapped : routing[i].assistant = a /\ routing[i].org = o.org
        BY <3>1, <3>2, OwnerOfLines
      <4>2. o.replace /\ (i = o.writes \/ i = o.retires)
        BY <2>7, <2>8, <4>1
      <4>3. ASSUME NEW j \in LineIds, new[j] # NoLine, new[j].assistant = a
            PROVE  FALSE
        <5>1. j # o.writes
          BY <1>10, <2>1, <2>8, <4>3
        <5>2. j # o.retires /\ routing[j] = new[j] /\ j \in Mapped
          BY <1>10, <4>3, <5>1 DEF Mapped
        <5>3. j # i
          BY <4>2, <5>1, <5>2
        <5> QED
          BY <1>2, <4>1, <4>3, <5>2, <5>3 DEF Unique, Mapped
      <4> QED
        BY <4>2, <4>3, OwnerOfNone
    <3>3. ASSUME OwnerIn(routing, a) # o.org
          PROVE  OwnerIn(new, a) = OwnerIn(routing, a)
      <4>1. ASSUME NEW i \in LineIds, routing[i] # NoLine, routing[i].assistant = a
            PROVE  new[i] = routing[i]
        <5>1. i \in Mapped /\ routing[i].org # o.org
          BY <3>3, <4>1, OwnerOfLines DEF Mapped
        <5>2. i # o.writes
          BY <2>1, <2>8, <4>1, <5>1
        <5>3. i # o.retires
          BY <2>1, <2>4, <5>1
        <5> QED
          BY <1>10, <5>2, <5>3
      <4>2. ASSUME NEW i \in LineIds, new[i] # NoLine, new[i].assistant = a
            PROVE  new[i] = routing[i]
        BY <1>10, <2>1, <2>8, <4>2
      <4> QED
        BY <1>2, <1>10, <4>1, <4>2, SameOwner
    <3> QED
      BY <3>2, <3>3
  <2> QED
    BY <2>2, <2>6, <2>8 DEF TakesAsNamed
<1>13. ASSUME ~o.overtaken, o.kind # "assign", NEW a \in Assistants
       PROVE  OwnerIn(new, a) = OwnerIn(routing, a)
  <2>1. /\ written.org = was.org /\ written.assistant = was.assistant
        /\ o.retires = 0
    BY <1>11, <1>13 DEF WritesAsNamed
  <2>2. \A i \in LineIds : i # o.writes => new[i] = routing[i]
    BY <1>10, <2>1, LineIdsAreNumbers
  <2>3. /\ new[o.writes] # NoLine /\ routing[o.writes] # NoLine
        /\ new[o.writes].org = routing[o.writes].org
        /\ new[o.writes].assistant = routing[o.writes].assistant
    BY <1>3, <1>10, <2>1
  <2> QED
    BY <1>2, <1>3, <1>10, <2>2, <2>3, SameOwner
<1>14. Commits(w, new)
  BY <1>1, <1>10, <1>12, <1>13 DEF Commits, ChangesAsNamed
<1> QED
  BY <1>14

-----------------------------------------------------------------------------
(* The lines.                                                              *)

LEMMA LinesStep ==
  LinesIInv /\ [LinesNext]_linesVars => LinesIInv'
<1> SUFFICES ASSUME LinesIInv, [LinesNext]_linesVars
             PROVE  LinesIInv'
  OBVIOUS
<1>1. CASE UNCHANGED linesVars
  <2>1. /\ routing' = routing /\ command' = command /\ given' = given
        /\ granted' = granted /\ mixed' = mixed
    BY <1>1 DEF linesVars
  <2>2. LinesShape'
    BY <2>1 DEF LinesIInv, LinesShape, Unique
  <2>3. ASSUME NEW w \in Commands
        PROVE  GoodCommand(command[w])'
    <3> PICK o : o = command[w]
      OBVIOUS
    <3>1. GoodCommand(o)'
      BY <2>1, <2>3, MemoryStays DEF LinesIInv
    <3> QED
      BY <2>1, <3>1 DEF GoodCommand, CommandStage, ReadsWhatItSought, UpToDate, WritesAsNamed
  <2>4. RoutesAsGranted'
    BY <2>1 DEF LinesIInv, RoutesAsGranted, OwnerOf, Mapped
  <2> QED
    BY <2>2, <2>3, <2>4 DEF LinesIInv
<1>2. ASSUME NEW w \in Commands, NEW org \in Businesses, NEW a \in Assistants,
             NEW p \in PhoneIds \union {None}, NEW from \in Businesses,
             NEW replace \in BOOLEAN, Assign(w, org, a, p, from, replace)
      PROVE  LinesIInv'
  BY <1>2, AssignKeeps
<1>3. ASSUME NEW w \in Commands, NEW org \in Businesses,
             NEW kind \in {"activate", "deactivate"}, SetActive(w, org, kind)
      PROVE  LinesIInv'
  BY <1>3, SetActiveKeeps
<1>4. ASSUME NEW w \in Commands, ReadByAssistant(w) \/ ReadCurrent(w) \/ ReadByPhone(w)
      PROVE  LinesIInv'
  BY <1>4, ReadByAssistantKeeps, ReadCurrentKeeps, ReadByPhoneKeeps
<1>5. ASSUME NEW w \in Commands, Provision(w) \/ ChangeActive(w) \/ Refuse(w)
      PROVE  LinesIInv'
  BY <1>5, ProvisionKeeps, ChangeActiveKeeps, RefuseKeeps
<1>6. ASSUME NEW w \in Commands, CreateLine(w) \/ WriteLine(w) \/ LeaveLine(w)
      PROVE  LinesIInv'
  <2>1. PICK table : Commits(w, table)
    BY <1>6, CreateCommits, WriteCommits, LeaveCommits
  <2> QED
    BY <2>1, CommitKeeps
<1> QED
  BY <1>1, <1>2, <1>3, <1>4, <1>5, <1>6 DEF LinesNext

\* Only a commit changes an owner, and it changes it as it was named to.
LEMMA OwnersMove ==
  ASSUME LinesIInv, [LinesNext]_linesVars, NEW a \in Assistants,
         OwnerOf(a) # None, OwnerOf(a)' # OwnerOf(a)
  PROVE  \E w \in Commands :
           /\ command[w].at \in {"read", "loaded"} /\ command'[w].at = "none"
           /\ \/ command[w].overtaken
              \/ command[w].from = OwnerOf(a)
              \/ command[w].org = OwnerOf(a) /\ command[w].replace
<1>1. routing' # routing
  BY DEF OwnerOf, Mapped
<1>2. ASSUME NEW w \in Commands, CreateLine(w) \/ WriteLine(w) \/ LeaveLine(w)
      PROVE  \/ command[w].overtaken
             \/ command[w].from = OwnerOf(a)
             \/ command[w].org = OwnerOf(a) /\ command[w].replace
  <2>1. PICK table : Commits(w, table)
    BY <1>2, CreateCommits, WriteCommits, LeaveCommits
  <2> QED
    BY <2>1, CommitTakes
<1>3. ASSUME NEW w \in Commands, CreateLine(w) \/ WriteLine(w) \/ LeaveLine(w)
      PROVE  command[w].at \in {"read", "loaded"} /\ command'[w].at = "none"
  <2>1. PICK table : Commits(w, table)
    BY <1>3, CreateCommits, WriteCommits, LeaveCommits
  <2> QED
    BY <2>1, CommitTakes
<1>4. \A w \in Commands : ~(ReadByAssistant(w) \/ ReadCurrent(w) \/ ReadByPhone(w))
  BY <1>1 DEF ReadByAssistant, ReadCurrent, ReadByPhone, OnlyCommand
<1>5. \A w \in Commands : ~(Provision(w) \/ ChangeActive(w) \/ Refuse(w))
  BY <1>1 DEF Provision, ChangeActive, Refuse, Load, OnlyCommand
<1>6. PICK w \in Commands : CreateLine(w) \/ WriteLine(w) \/ LeaveLine(w)
  <2>1. LinesNext
    BY <1>1 DEF linesVars
  <2>2. \A w \in Commands, org \in Businesses, kind \in {"activate", "deactivate"} :
          ~SetActive(w, org, kind)
    BY <1>1 DEF SetActive
  <2>3. \A w \in Commands, org \in Businesses, assistant \in Assistants,
           p \in PhoneIds \union {None}, from \in Businesses, replace \in BOOLEAN :
          ~Assign(w, org, assistant, p, from, replace)
    BY <1>1 DEF Assign
  <2> QED
    BY <1>4, <1>5, <2>1, <2>2, <2>3 DEF LinesNext
<1> QED
  BY <1>2, <1>3, <1>6

LEMMA GoodLinesAreSafe ==
  LinesIInv => LinesInv
<1> SUFFICES ASSUME LinesIInv
             PROVE  LinesInv
  OBVIOUS
<1>1. LinesTypeOK
  <2>1. ASSUME NEW w \in Commands
        PROVE  LET o == command[w]
               IN  /\ {o.seen, o.seenCurrent, o.wanted, o.loaded} \subseteq LineRows
                   /\ o.byAssistant = 0 <=> o.seen = NoLine
                   /\ o.at = "loaded" <=> o.writes # 0
    BY <2>1 DEF LinesIInv, LinesShape, CommandRows, GoodCommand, CommandStage, ReadsWhatItSought
  <2> QED
    BY <2>1 DEF LinesTypeOK, LinesIInv, LinesShape
<1>2. RoutesAsGranted
  BY DEF LinesIInv
<1>3. AnswersIsolated
  <2> SUFFICES ASSUME ~mixed, NEW a \in Assistants, NEW p \in PhoneIds \union {None}
               PROVE  AnsweredFor(a, p) \in {None, granted[a]}
    BY DEF AnswersIsolated
  <2>1. granted[a] = OwnerIn(routing, a)
    BY <1>2, OwnersOfTable DEF RoutesAsGranted
  <2> PICK i : i = ResolveVoiceLine(a, p)
    OBVIOUS
  <2>2. i = LineWhere(LAMBDA l : l.assistant = a)
    BY LinesAssumption DEF ResolveVoiceLine, LineWhere
  <2>3. i = 0 \/ (i # 0 /\ i \in Mapped /\ routing[i].assistant = a)
    BY <2>2, FindsByAssistant DEF LineWhere
  <2>4. AnsweredFor(a, p) = IF Row(i).active THEN Row(i).org ELSE None
    BY DEF AnsweredFor
  <2>5. CASE i = 0
    BY <2>4, <2>5, EmptyLine DEF Row
  <2>6. CASE i \in Mapped /\ routing[i].assistant = a /\ i # 0
    <3>1. OwnerIn(routing, a) = routing[i].org
      BY <2>6, OwnerOfLines
    <3> QED
      BY <2>1, <2>4, <2>6, <3>1 DEF Row
  <2> QED
    BY <2>3, <2>5, <2>6
<1> QED
  BY <1>1, <1>2, <1>3 DEF LinesInv

\* Every reachable state of the routing table and its commands satisfies LinesIInv.
THEOREM LinesInductive == LinesSpec => []LinesIInv
<1>1. LinesInit => LinesIInv
  BY LinesStart
<1>2. LinesIInv /\ [LinesNext]_linesVars => LinesIInv'
  BY LinesStep
<1> QED
  BY <1>1, <1>2, PTL DEF LinesSpec

\* An organization, an assistant and a phone have one line, and while commands do not
\* overlap, calls are answered for whom operators last gave the assistant to
\* (VoiceLineProvisioningService, VoiceService._resolve_voice_line).
THEOREM LinesRouteAsGranted == LinesSpec => []LinesInv
<1>1. LinesIInv => LinesInv
  BY GoodLinesAreSafe
<1> QED
  BY <1>1, LinesInductive, PTL

\* Nobody loses an assistant but to a command that names them or replaces their own,
\* or to one that another overtook (VoiceLineProvisioningService.provision).
THEOREM AssistantsTakenAsNamed == LinesSpec => TakenOnlyAsNamed
<1>1. LinesIInv /\ [LinesNext]_linesVars =>
        [\A a \in Assistants :
           OwnerOf(a) # None /\ OwnerOf(a)' # OwnerOf(a) =>
             \E w \in Commands :
               /\ command[w].at \in {"read", "loaded"} /\ command'[w].at = "none"
               /\ \/ command[w].overtaken
                  \/ command[w].from = OwnerOf(a)
                  \/ command[w].org = OwnerOf(a) /\ command[w].replace]_linesVars
  BY OwnersMove
<1> QED
  BY <1>1, LinesInductive, PTL DEF LinesSpec, TakenOnlyAsNamed
=============================================================================
