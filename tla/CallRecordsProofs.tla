------------------------- MODULE CallRecordsProofs -------------------------
(***************************************************************************)
(* However its reports cross, repeat or contradict one another, a call is  *)
(* billed as what each of them said last, it stays in its month until one  *)
(* gives another time, and with the organization it was first found to be  *)
(* of: for any deliveries, reports and values of the clock. And for any    *)
(* calls, turns and edits: a number has one customer, and what a caller    *)
(* said stays with his ticket and his visit.                               *)
(*                                                                         *)
(* What a delivery is about to commit is the record as it is, with its     *)
(* report merged in, because no two hold the row (HoldersAlone) and the    *)
(* row stays as a holder has seen it (Merging).                            *)
(*                                                                         *)
(* Nothing is locked while a customer is looked for: the number is told    *)
(* apart by its index (OneToANumber), a sync fills in only what was blank  *)
(* when it read the row, or what others have saved over since (GoodSync),  *)
(* and an edit of staff writes only what they typed (GoodEdit).            *)
(*                                                                         *)
(* A turn writes to a ticket and a visit only more of what it knows of the *)
(* call (GoodTurn), and a turn whose syncs have run has written all of it. *)
(***************************************************************************)
EXTENDS Usage, Customers, Intake, TLAPS

-----------------------------------------------------------------------------
(* The bill of a call.                                                     *)

Decisions ==
  [period : Nat, minutes : Nat,
   exclusion : {"none", "duration_unknown", "under_minimum", "fault_ended_reason"}]
Records ==
  [facts : Facts, owner : Owners, decision : Decisions,
   count : Nat, first : Nat, last : Nat]
Slots ==
  [at : {"none", "looking", "inserting", "inserted", "merging", "merged"},
   report : Reports \union {Missing}, received : Nat, owner : Owners,
   seen : Bills, written : Bills]

Typed ==
  /\ clock \in Nat /\ sent \in Nat /\ routings \in Nat
  /\ route \in [{"assistant", "phone"} -> Orgs \union {NoOrg}]
  /\ callOwner \in Orgs \union {NoOrg}
  /\ bill \in Bills
  /\ kept \in Seq(Reports)
  /\ delivery \in [Deliveries -> Slots]
  /\ \A d \in Deliveries : delivery[d].at # "none" => delivery[d].report \in Reports

\* Who holds the row, or is inserting it.
Holds(d) == delivery[d].at \in {"inserted", "merging", "merged"}

HoldersAlone == \A c, d \in Deliveries : Holds(c) /\ Holds(d) => c = d

IsFirst(w, report, received) ==
  /\ w \in Records
  /\ w.facts = report /\ w.decision = Decide(report, received)
  /\ w.first = received /\ w.count = 1

IsMerge(w, seen, report) ==
  /\ w \in Records
  /\ w.facts = MergeFacts(seen.facts, report) /\ w.decision = Decide(w.facts, seen.first)
  /\ w.first = seen.first /\ w.count = seen.count + 1
  /\ seen.owner.org # NoOrg => w.owner = seen.owner

Inserting ==
  \A d \in Deliveries : Step(d, "inserted") =>
    bill = NoBill /\ IsFirst(delivery[d].written, delivery[d].report, delivery[d].received)

Merging ==
  /\ \A d \in Deliveries : Step(d, "merging") \/ Step(d, "merged") =>
       bill # NoBill /\ delivery[d].seen = bill
  /\ \A d \in Deliveries : Step(d, "merged") =>
       IsMerge(delivery[d].written, bill, delivery[d].report)

\* Facts that hold of every value the last one the reports carried.
Gathers(facts, reports) == \A f \in Fields : LastSaid(reports, f, facts[f])

Faithful ==
  /\ bill = NoBill => kept = <<>>
  /\ bill # NoBill =>
       /\ Gathers(bill.facts, kept)
       /\ bill.decision = Decide(bill.facts, bill.first)
       /\ bill.count = Len(kept)

UsageIInv == Typed /\ HoldersAlone /\ Inserting /\ Merging /\ Faithful

-----------------------------------------------------------------------------
(* The rules.                                                              *)

LEMMA Constants ==
  /\ NoOrg \notin Orgs /\ Reports \subseteq Facts
  /\ Missing \notin Nat /\ Missing \notin BOOLEAN /\ Missing # "id"
  /\ PerMonth \in Nat \ {0} /\ PerMinute \in Nat \ {0}
  /\ Minimum \in Nat /\ MaxClock \in Nat /\ MaxReports \in Nat /\ MaxRoutings \in Nat
BY UsageAssumption

LEMMA Nothing ==
  /\ NoBill \in Bills /\ NoBill.count = 0 /\ NoOne \in Owners /\ NoOne.org = NoOrg
  /\ NoDelivery \in Slots /\ NoDelivery.at = "none"
<1>1. NoOne \in Owners /\ NoOne.org = NoOrg
  BY DEF NoOne, Owners
<1>2. NoBill \in Bills /\ NoBill.count = 0
  BY DEF NoBill, Bills
<1>3. NoDelivery \in Slots /\ NoDelivery.at = "none"
  BY <1>1, <1>2 DEF NoDelivery, Slots
<1>4. QED BY <1>1, <1>2, <1>3

\* A call's length is a number, if it is known.
LEMMA MeasuredTyped ==
  ASSUME NEW f \in Facts
  PROVE  Measured(f) \in Nat \union {Missing}
<1>1. /\ f.duration \in Nat \union {Missing} /\ f.started \in Nat \union {Missing}
      /\ f.ended \in Nat \union {Missing}
  BY DEF Facts
<1>2. CASE f.duration # Missing
  BY <1>1, <1>2 DEF Measured
<1>3. CASE f.duration = Missing /\ ~(f.started # Missing /\ f.ended # Missing
                                      /\ f.ended >= f.started)
  BY <1>3 DEF Measured
<1>4. CASE f.duration = Missing /\ f.started # Missing /\ f.ended # Missing
           /\ f.ended >= f.started
  <2>1. Measured(f) = f.ended - f.started
    BY <1>4 DEF Measured
  <2>2. f.ended \in Nat /\ f.started \in Nat
    BY <1>1, <1>4
  <2>3. QED BY <1>4, <2>1, <2>2
<1>5. QED BY <1>2, <1>3, <1>4

LEMMA DivisionTyped ==
  ASSUME NEW a \in Nat, NEW b \in Nat \ {0}
  PROVE  a \div b \in Nat
OBVIOUS

\* Every record of a call is put in a month, for a number of minutes or none.
LEMMA DecideTyped ==
  ASSUME NEW f \in Facts, NEW received \in Nat
  PROVE  Decide(f, received) \in Decisions
<1>1. PeriodOf(f, received) \in Nat
  <2> DEFINE t == IF f.started # Missing THEN f.started
                  ELSE IF f.ended # Missing THEN f.ended ELSE received
  <2>1. t \in Nat
    BY DEF Facts
  <2> HIDE DEF t
  <2>2. t \div PerMonth \in Nat
    BY <2>1, Constants, DivisionTyped
  <2>3. QED BY <2>2 DEF PeriodOf, Month, t
<1>2. ExclusionOf(f) \in {"none", "duration_unknown", "under_minimum",
                          "fault_ended_reason"}
  <2>1. CASE Measured(f) = Missing
    BY <2>1 DEF ExclusionOf
  <2>2. CASE Measured(f) # Missing
    <3>1. Measured(f) \in Nat
      BY <2>2, MeasuredTyped
    <3>2. Measured(f) < Minimum \/ Measured(f) >= Minimum
      BY <3>1, Constants
    <3>3. QED BY <2>2, <3>1, <3>2 DEF ExclusionOf
  <2>3. QED BY <2>1, <2>2
<1>3. MinutesOf(f) \in Nat
  <2>1. CASE ExclusionOf(f) = "none"
    <3>1. Measured(f) \in Nat
      <4>1. Measured(f) # Missing
        BY <2>1 DEF ExclusionOf
      <4>2. QED BY <4>1, MeasuredTyped
    <3>2. Measured(f) + PerMinute - 1 \in Nat
      BY <3>1, Constants
    <3>3. (Measured(f) + PerMinute - 1) \div PerMinute \in Nat
      BY <3>2, Constants, DivisionTyped
    <3>4. QED BY <2>1, <3>3 DEF MinutesOf
  <2>2. CASE ExclusionOf(f) # "none"
    BY <2>2 DEF MinutesOf
  <2>3. QED BY <2>1, <2>2
<1>4. QED BY <1>1, <1>2, <1>3 DEF Decide, Decisions

LEMMA MergeTyped ==
  ASSUME NEW f \in Facts, NEW g \in Facts
  PROVE  MergeFacts(f, g) \in Facts
BY DEF MergeFacts, Fields, Facts

\* A report that is merged makes its values the last ones that were said.
LEMMA MergeGathers ==
  ASSUME NEW facts, NEW reports \in Seq(Reports), NEW report \in Reports,
         Gathers(facts, reports)
  PROVE  Gathers(MergeFacts(facts, report), Append(reports, report))
<1> DEFINE all == Append(reports, report)
           n == Len(reports)
<1>1. /\ n \in Nat /\ DOMAIN reports = 1..n /\ DOMAIN all = 1..(n + 1)
      /\ Len(all) = n + 1 /\ all[n + 1] = report
      /\ \A i \in 1..n : all[i] = reports[i]
  OBVIOUS
<1> HIDE DEF all, n
<1> SUFFICES ASSUME NEW f \in Fields
             PROVE  LastSaid(all, f, MergeFacts(facts, report)[f])
  BY DEF Gathers, all
<1>2. MergeFacts(facts, report)[f] = IF report[f] = Missing THEN facts[f] ELSE report[f]
  BY DEF MergeFacts
<1>3. LastSaid(reports, f, facts[f])
  BY DEF Gathers
<1>4. CASE report[f] # Missing
  <2>1. \A j \in (n + 1)..(n + 1) : all[j][f] = report[f]
    BY <1>1
  <2> QED  BY <1>1, <1>2, <1>4, <2>1 DEF LastSaid
<1>5. CASE report[f] = Missing /\ facts[f] = Missing
  <2>1. \A i \in 1..n : reports[i][f] = Missing
    BY <1>1, <1>3, <1>5 DEF LastSaid
  <2>2. \A i \in 1..(n + 1) : i \in 1..n \/ i = n + 1
    BY <1>1
  <2>3. \A i \in 1..(n + 1) : all[i][f] = Missing
    BY <1>1, <1>5, <2>1, <2>2
  <2> QED  BY <1>1, <1>2, <1>5, <2>3 DEF LastSaid
<1>6. CASE report[f] = Missing /\ facts[f] # Missing
  <2>1. PICK i \in 1..n : /\ reports[i][f] = facts[f]
                          /\ \A j \in i..n : reports[j][f] \in {Missing, facts[f]}
    BY <1>1, <1>3, <1>6 DEF LastSaid, n
  <2>2. i \in 1..(n + 1) /\ all[i][f] = facts[f]
    BY <1>1, <2>1
  <2>3. \A j \in i..(n + 1) : j \in i..n \/ j = n + 1
    BY <1>1
  <2>4. \A j \in i..(n + 1) : all[j][f] \in {Missing, facts[f]}
    BY <1>1, <1>6, <2>1, <2>3
  <2> QED  BY <1>1, <1>2, <1>6, <2>2, <2>4 DEF LastSaid
<1> QED  BY <1>4, <1>5, <1>6

\* Only one value was said last.
LEMMA LastSaidOnce ==
  ASSUME NEW reports \in Seq(Reports), NEW f, NEW value, NEW other,
         LastSaid(reports, f, value), LastSaid(reports, f, other), other # Missing
  PROVE  value = other
<1>1. Len(reports) \in Nat /\ DOMAIN reports = 1..Len(reports)
  OBVIOUS
<1>2. PICK i \in 1..Len(reports) :
        /\ reports[i][f] = other
        /\ \A j \in i..Len(reports) : reports[j][f] \in {Missing, other}
  BY <1>1 DEF LastSaid
<1>3. value # Missing
  BY <1>1, <1>2 DEF LastSaid
<1>4. PICK k \in 1..Len(reports) :
        /\ reports[k][f] = value
        /\ \A j \in k..Len(reports) : reports[j][f] \in {Missing, value}
  BY <1>1, <1>3 DEF LastSaid
<1>5. CASE i <= k
  <2>1. k \in i..Len(reports)  BY <1>1, <1>5
  <2> QED  BY <1>2, <1>3, <1>4, <2>1
<1>6. CASE k <= i
  <2>1. i \in k..Len(reports)  BY <1>1, <1>6
  <2> QED  BY <1>2, <1>4, <2>1
<1> QED  BY <1>5, <1>6

\* One that gives no other times changes none.
LEMMA TimesStand ==
  ASSUME NEW facts, NEW report, Gathers(facts, kept), kept \in Seq(Reports),
         SaysNoOtherTime(report), NEW f \in {"started", "ended"}
  PROVE  MergeFacts(facts, report)[f] = facts[f]
<1>1. f \in Fields /\ LastSaid(kept, f, facts[f])
  BY DEF Fields, Gathers
<1>2. MergeFacts(facts, report)[f] = IF report[f] = Missing THEN facts[f] ELSE report[f]
  BY <1>1 DEF MergeFacts
<1>3. report[f] = Missing \/ LastSaid(kept, f, report[f])
  BY DEF SaysNoOtherTime
<1> QED  BY <1>1, <1>2, <1>3, LastSaidOnce

LEMMA AttributeTyped ==
  ASSUME Typed, NEW f
  PROVE  Attribute(f) \in Owners
BY Nothing DEF Attribute, Owners, Typed

LEMMA RecordIsThere ==
  ASSUME NEW b \in Bills, b # NoBill
  PROVE  b \in Records
BY DEF Bills, Records, Decisions

-----------------------------------------------------------------------------
(* Initial states, and the steps of a delivery.                            *)

LEMMA InitUsageIInv == UsageInit => UsageIInv
<1> SUFFICES ASSUME UsageInit PROVE UsageIInv
  OBVIOUS
<1>1. Typed
  BY Nothing DEF UsageInit, Typed
<1>2. HoldersAlone /\ Inserting /\ Merging /\ Faithful
  BY Nothing DEF UsageInit, HoldersAlone, Holds, Inserting, Merging, Faithful, Step
<1>3. QED BY <1>1, <1>2 DEF UsageIInv

\* A step of one delivery that commits nothing.
Moves(d, new) ==
  /\ delivery' = [delivery EXCEPT ![d] = new]
  /\ new \in Slots
  /\ new.at # "none" => new.report \in Reports
  /\ clock' = clock /\ route' = route /\ callOwner' = callOwner /\ routings' = routings
  /\ bill' = bill /\ kept' = kept /\ sent' \in Nat

LEMMA MovesIInv ==
  ASSUME UsageIInv, NEW d \in Deliveries, NEW new, Moves(d, new),
         new.at \in {"inserted", "merging", "merged"} =>
           \A c \in Deliveries : c # d => ~Holds(c),
         new.at = "inserted" =>
           bill = NoBill /\ IsFirst(new.written, new.report, new.received),
         new.at \in {"merging", "merged"} => bill # NoBill /\ new.seen = bill,
         new.at = "merged" => IsMerge(new.written, bill, new.report)
  PROVE  UsageIInv'
<1> Typed
  BY DEF UsageIInv
<1>1. /\ delivery' \in [Deliveries -> Slots] /\ delivery'[d] = new
      /\ \A c \in Deliveries : c # d => delivery'[c] = delivery[c]
      /\ bill' = bill /\ kept' = kept
  BY DEF Typed, Moves
<1>2. Typed'
  BY <1>1 DEF Typed, Moves
<1>3. HoldersAlone'
  BY <1>1 DEF UsageIInv, HoldersAlone, Holds
<1>4. Inserting'
  BY <1>1 DEF UsageIInv, Inserting, Step
<1>5. Merging'
  BY <1>1 DEF UsageIInv, Merging, Step
<1>6. Faithful'
  BY <1>1 DEF UsageIInv, Faithful
<1>7. QED BY <1>2, <1>3, <1>4, <1>5, <1>6 DEF UsageIInv

LEMMA DeliverIInv ==
  ASSUME UsageIInv, NEW d \in Deliveries, NEW report \in Reports, Deliver(d, report)
  PROVE  UsageIInv'
<1> DEFINE new == [NoDelivery EXCEPT !.at = "looking", !.report = report,
                                     !.received = clock]
<1>1. clock \in Nat /\ sent \in Nat
  BY DEF UsageIInv, Typed
<1>2. new \in Slots /\ new.at = "looking" /\ new.report = report
  BY <1>1, Nothing DEF Slots
<1>3. Moves(d, new)
  BY <1>1, <1>2 DEF Deliver, Moves, outside
<1> HIDE DEF new
<1>4. QED BY <1>2, <1>3, MovesIInv

LEMMA FindIInv ==
  ASSUME UsageIInv, NEW d \in Deliveries, Find(d)
  PROVE  UsageIInv'
<1> DEFINE new == [delivery[d] EXCEPT !.at = "merging", !.seen = bill]
<1>1. /\ delivery[d] \in Slots /\ bill \in Bills /\ sent \in Nat
      /\ delivery[d].report \in Reports
  BY DEF UsageIInv, Typed, Find, Step
<1>2. new \in Slots /\ new.at = "merging" /\ new.report = delivery[d].report /\ new.seen = bill
  BY <1>1 DEF Slots
<1>3. Moves(d, new)
  BY <1>1, <1>2 DEF Find, Moves, outside
<1>4. bill # NoBill /\ \A c \in Deliveries : c # d => ~Holds(c)
  BY DEF Find, Unlocked, Others, Holds, UsageIInv, Inserting, Step
<1> HIDE DEF new
<1>5. QED BY <1>2, <1>3, <1>4, MovesIInv

LEMMA FindNoneIInv ==
  ASSUME UsageIInv, NEW d \in Deliveries, FindNone(d)
  PROVE  UsageIInv'
<1> DEFINE new == [delivery[d] EXCEPT !.at = "inserting",
                                      !.owner = Attribute(delivery[d].report)]
<1>1. delivery[d] \in Slots /\ sent \in Nat /\ delivery[d].report \in Reports
  BY DEF UsageIInv, Typed, FindNone, Step
<1>2. Attribute(delivery[d].report) \in Owners
  BY AttributeTyped DEF UsageIInv
<1>3. new \in Slots /\ new.at = "inserting" /\ new.report = delivery[d].report
  BY <1>1, <1>2 DEF Slots
<1>4. Moves(d, new)
  BY <1>1, <1>3 DEF FindNone, Moves, outside
<1> HIDE DEF new
<1>5. QED BY <1>3, <1>4, MovesIInv

LEMMA InsertIInv ==
  ASSUME UsageIInv, NEW d \in Deliveries, Insert(d)
  PROVE  UsageIInv'
<1> DEFINE report == delivery[d].report
           received == delivery[d].received
           w == [facts |-> report, owner |-> delivery[d].owner,
                 decision |-> Decide(report, received),
                 count |-> 1, first |-> received, last |-> received]
           new == [delivery[d] EXCEPT !.at = "inserted", !.written = w]
<1>1. /\ delivery[d] \in Slots /\ sent \in Nat
      /\ report \in Reports /\ report \in Facts /\ received \in Nat
      /\ delivery[d].owner \in Owners
  BY Constants DEF UsageIInv, Typed, Insert, Step, Slots
<1>2. Decide(report, received) \in Decisions
  BY <1>1, DecideTyped
<1>3. w \in Records /\ IsFirst(w, report, received)
  BY <1>1, <1>2 DEF Records, IsFirst
<1>4. w \in Bills
  BY <1>3 DEF Bills, Records, Decisions
<1>5. delivery' = [delivery EXCEPT ![d] = new]
  BY DEF Insert
<1>6. bill = NoBill /\ \A c \in Deliveries : c # d => ~Holds(c)
  BY DEF Insert, NoOtherInsert, Others, Holds, UsageIInv, Merging, Step
<1> HIDE DEF w
<1>7. /\ new \in Slots /\ new.at = "inserted" /\ new.report = report
      /\ new.received = received /\ new.written = w
  BY <1>1, <1>4 DEF Slots
<1> HIDE DEF new
<1>8. Moves(d, new)
  BY <1>1, <1>5, <1>7 DEF Insert, Moves, outside
<1>9. QED BY <1>3, <1>6, <1>7, <1>8, MovesIInv

LEMMA BackIInv ==
  ASSUME UsageIInv, NEW d \in Deliveries, Conflict(d) \/ LoseReport(d)
  PROVE  UsageIInv'
<1>1. CASE Conflict(d)
  <2> DEFINE new == [delivery[d] EXCEPT !.at = "looking"]
  <2>1. delivery[d] \in Slots /\ sent \in Nat /\ delivery[d].report \in Reports
    BY <1>1 DEF UsageIInv, Typed, Conflict, Step
  <2>2. new \in Slots /\ new.at = "looking" /\ new.report = delivery[d].report
    BY <2>1 DEF Slots
  <2>3. Moves(d, new)
    BY <1>1, <2>1, <2>2 DEF Conflict, Moves, outside
  <2> HIDE DEF new
  <2>4. QED BY <2>2, <2>3, MovesIInv
<1>2. CASE LoseReport(d)
  <2>1. Moves(d, NoDelivery)
    BY <1>2, Nothing DEF LoseReport, Moves, outside, UsageIInv, Typed
  <2>2. QED BY <2>1, Nothing, MovesIInv
<1>3. QED BY <1>1, <1>2

LEMMA MergeIInv ==
  ASSUME UsageIInv, NEW d \in Deliveries, Merge(d)
  PROVE  UsageIInv'
<1> DEFINE report == delivery[d].report
           facts == MergeFacts(bill.facts, report)
           w == [facts |-> facts, owner |-> OwnerAfter(d),
                 decision |-> Decide(facts, bill.first),
                 count |-> bill.count + 1, first |-> bill.first,
                 last |-> delivery[d].received]
           new == [delivery[d] EXCEPT !.at = "merged", !.written = w]
<1>1. /\ delivery[d] \in Slots /\ sent \in Nat
      /\ report \in Reports /\ report \in Facts /\ delivery[d].received \in Nat
      /\ Step(d, "merging")
  BY Constants DEF UsageIInv, Typed, Merge, Step, Slots
<1>2. bill # NoBill /\ delivery[d].seen = bill /\ bill \in Records
  BY <1>1, RecordIsThere DEF UsageIInv, Merging, Typed
<1>3. facts \in Facts /\ bill.first \in Nat /\ bill.count \in Nat /\ bill.owner \in Owners
  BY <1>1, <1>2, MergeTyped DEF Records
<1>4. OwnerAfter(d) \in Owners /\ (bill.owner.org # NoOrg => OwnerAfter(d) = bill.owner)
  BY <1>2, <1>3, Nothing, AttributeTyped DEF OwnerAfter, UsageIInv
<1>5. delivery' = [delivery EXCEPT ![d] = new]
  BY <1>2 DEF Merge, MergeAs
<1> HIDE DEF facts
<1>6. Decide(facts, bill.first) \in Decisions
  BY <1>3, DecideTyped
<1>7. w \in Records /\ w.facts = facts /\ w.decision = Decide(facts, bill.first)
      /\ w.first = bill.first /\ w.count = bill.count + 1 /\ w.owner = OwnerAfter(d)
  BY <1>1, <1>3, <1>4, <1>6 DEF Records
<1>8. w \in Bills
  BY <1>7 DEF Bills, Records, Decisions
<1>9. IsMerge(w, bill, report)
  BY <1>4, <1>7 DEF IsMerge, facts
<1>10. \A c \in Deliveries : c # d => ~Holds(c)
  BY <1>1 DEF UsageIInv, HoldersAlone, Holds, Step
<1> HIDE DEF w
<1>11. /\ new \in Slots /\ new.at = "merged" /\ new.report = report
       /\ new.seen = delivery[d].seen /\ new.written = w
  BY <1>1, <1>8 DEF Slots
<1> HIDE DEF new
<1>12. Moves(d, new)
  BY <1>1, <1>5, <1>11 DEF Merge, Moves, outside
<1>13. QED BY <1>2, <1>9, <1>10, <1>11, <1>12, MovesIInv

\* What a commit leaves: the first record of the call, or the one it had with
\* the report in it.
LEMMA CommitEffect ==
  ASSUME UsageIInv, NEW d \in Deliveries, CommitReport(d)
  PROVE  /\ bill' \in Records /\ bill' # NoBill /\ delivery[d].report \in Reports
         /\ kept' = Append(kept, delivery[d].report)
         /\ \/ bill = NoBill /\ IsFirst(bill', delivery[d].report, delivery[d].received)
            \/ bill # NoBill /\ IsMerge(bill', bill, delivery[d].report)
<1>1. bill' = delivery[d].written /\ kept' = Append(kept, delivery[d].report)
  BY DEF CommitReport
<1>2. delivery[d].report \in Reports
  BY DEF CommitReport, UsageIInv, Typed
<1>3. CASE Step(d, "inserted")
  <2>1. bill = NoBill /\ IsFirst(bill', delivery[d].report, delivery[d].received)
    BY <1>1, <1>3 DEF UsageIInv, Inserting
  <2>2. bill' \in Records /\ bill'.count = 1
    BY <2>1 DEF IsFirst
  <2>3. QED BY <1>1, <1>2, <2>1, <2>2, Nothing
<1>4. CASE Step(d, "merged")
  <2>1. bill # NoBill /\ IsMerge(bill', bill, delivery[d].report)
    BY <1>1, <1>4 DEF UsageIInv, Merging
  <2>2. bill \in Records
    BY <2>1, RecordIsThere DEF UsageIInv, Typed
  <2>3. bill' \in Records /\ bill'.count = bill.count + 1 /\ bill.count \in Nat
    BY <2>1, <2>2 DEF IsMerge, Records
  <2>4. bill'.count # 0
    BY <2>3
  <2>5. QED BY <1>1, <1>2, <2>1, <2>3, <2>4, Nothing
<1>5. QED BY <1>3, <1>4 DEF CommitReport, Step

LEMMA CommitReportIInv ==
  ASSUME UsageIInv, NEW d \in Deliveries, CommitReport(d)
  PROVE  UsageIInv'
<1> DEFINE report == delivery[d].report
<1> Typed
  BY DEF UsageIInv
<1>1. /\ bill' \in Records /\ bill' # NoBill /\ report \in Reports
      /\ kept' = Append(kept, report)
      /\ \/ bill = NoBill /\ IsFirst(bill', report, delivery[d].received)
         \/ bill # NoBill /\ IsMerge(bill', bill, report)
  BY CommitEffect
<1>2. /\ kept \in Seq(Reports) /\ kept' \in Seq(Reports)
      /\ Len(kept') = Len(kept) + 1
  BY <1>1 DEF Typed
<1>3. /\ delivery' \in [Deliveries -> Slots] /\ delivery'[d] = NoDelivery
      /\ \A c \in Deliveries : c # d => delivery'[c] = delivery[c]
  BY Nothing DEF CommitReport, Typed
<1>4. \A c \in Deliveries : c # d => ~Holds(c)
  BY DEF CommitReport, UsageIInv, HoldersAlone, Holds
<1>5. bill' \in Bills
  BY <1>1 DEF Bills, Records, Decisions
<1>6. Typed'
  BY <1>2, <1>3, <1>5, Nothing DEF CommitReport, Typed, outside
<1>7. HoldersAlone' /\ Inserting' /\ Merging'
  BY <1>3, <1>4, Nothing DEF HoldersAlone, Holds, Inserting, Merging, Step
<1>8. Faithful'
  <2>1. CASE bill = NoBill
    <3>1. kept = <<>>
      BY <2>1 DEF UsageIInv, Faithful
    <3>2. kept' = <<report>> /\ Len(kept') = 1
      BY <1>1, <3>1
    <3>3. Gathers(report, <<report>>)
      BY DEF Gathers, LastSaid
    <3>4. QED BY <1>1, <2>1, <3>2, <3>3 DEF Faithful, IsFirst
  <2>2. CASE bill # NoBill
    <3>1. /\ Gathers(bill.facts, kept) /\ bill.count = Len(kept)
      BY <2>2 DEF UsageIInv, Faithful
    <3>2. Gathers(MergeFacts(bill.facts, report), kept')
      BY <1>1, <1>2, <3>1, MergeGathers
    <3>3. QED BY <1>1, <1>2, <2>2, <3>1, <3>2 DEF Faithful, IsMerge
  <2>3. QED BY <2>1, <2>2
<1>9. QED BY <1>6, <1>7, <1>8 DEF UsageIInv

\* Time passes, the call gets its row, a line is mapped: the deliveries and the
\* record are as they were.
LEMMA OutsideIInv ==
  ASSUME UsageIInv,
         \/ PassTime \/ OpenCallRow
         \/ \E key \in DOMAIN route, org \in Orgs : RouteTo(key, org)
  PROVE  UsageIInv'
<1>1. bill' = bill /\ delivery' = delivery /\ kept' = kept /\ sent' = sent
  BY DEF PassTime, OpenCallRow, RouteTo
<1>2. /\ clock' \in Nat /\ routings' \in Nat /\ callOwner' \in Orgs \union {NoOrg}
      /\ route' \in [{"assistant", "phone"} -> Orgs \union {NoOrg}]
  <2>1. CASE PassTime
    BY <2>1 DEF PassTime, UsageIInv, Typed
  <2>2. CASE OpenCallRow
    BY <2>2 DEF OpenCallRow, UsageIInv, Typed
  <2>3. CASE \E key \in DOMAIN route, org \in Orgs : RouteTo(key, org)
    BY <2>3 DEF RouteTo, UsageIInv, Typed
  <2>4. QED BY <2>1, <2>2, <2>3
<1>3. Typed'
  BY <1>1, <1>2 DEF UsageIInv, Typed
<1>4. HoldersAlone' /\ Inserting' /\ Merging' /\ Faithful'
  BY <1>1 DEF UsageIInv, HoldersAlone, Holds, Inserting, Merging, Faithful, Step
<1>5. QED BY <1>3, <1>4 DEF UsageIInv

-----------------------------------------------------------------------------
(* Theorems.                                                               *)

\* Whatever crosses, is lost or comes late, the record and what the deliveries
\* hold of it satisfy the inductive invariant.
THEOREM UsageInductive == UsageSpec => []UsageIInv
<1>1. UsageInit => UsageIInv
  BY InitUsageIInv
<1>2. UsageIInv /\ [UsageNext]_usageVars => UsageIInv'
  <2> SUFFICES ASSUME UsageIInv, [UsageNext]_usageVars
               PROVE  UsageIInv'
    OBVIOUS
  <2>1. ASSUME NEW d \in Deliveries,
               \/ \E report \in Reports : Deliver(d, report)
               \/ Find(d) \/ FindNone(d) \/ Insert(d) \/ Conflict(d) \/ Merge(d)
               \/ CommitReport(d) \/ LoseReport(d)
        PROVE  UsageIInv'
    BY <2>1, DeliverIInv, FindIInv, FindNoneIInv, InsertIInv, BackIInv, MergeIInv,
       CommitReportIInv
  <2>2. CASE \/ PassTime \/ OpenCallRow
             \/ \E key \in DOMAIN route, org \in Orgs : RouteTo(key, org)
    BY <2>2, OutsideIInv
  <2>3. CASE UNCHANGED usageVars
    BY <2>3 DEF usageVars, outside, UsageIInv, Typed, HoldersAlone, Holds, Inserting,
                Merging, Faithful, Step
  <2>4. QED BY <2>1, <2>2, <2>3 DEF UsageNext
<1>3. QED BY <1>1, <1>2, PTL DEF UsageSpec

\* However the deliveries of a call cross, repeat and contradict one another, its record
\* holds of every value the last one a recorded report carried, is billed as that says,
\* and counts each delivery that was recorded once (merge_facts, decide_billing).
THEOREM BilledAsReported == UsageSpec => []UsageInv
<1>1. UsageIInv => UsageInv
  <2> SUFFICES ASSUME UsageIInv PROVE UsageInv
    OBVIOUS
  <2>1. UsageTypeOK
    BY DEF UsageIInv, Typed, UsageTypeOK, Slots, HoldersAlone, Holds
  <2>2. BillsWhatWasReported
    BY DEF UsageIInv, Faithful, Gathers, BillsWhatWasReported
  <2>3. CountsDeliveries
    <3>1. bill = NoBill => bill.count = 0 /\ kept = <<>>
      BY Nothing DEF UsageIInv, Faithful
    <3>2. QED BY <3>1 DEF UsageIInv, Faithful, CountsDeliveries
  <2>4. QED BY <2>1, <2>2, <2>3 DEF UsageInv
<1>2. QED BY <1>1, UsageInductive, PTL

\* A report that gives no other times than the last that were given never moves the call
\* to another month, at once or months later, and nothing moves a call that has an
\* organization to another (CallUsageService._record).
THEOREM BillIsStable == UsageSpec => BillStays
<1> DEFINE Stays ==
      /\ bill # NoBill /\ kept' # kept /\ SaysNoOtherTime(kept'[Len(kept')]) =>
           bill'.decision.period = bill.decision.period
      /\ bill.owner.org # NoOrg => bill'.owner = bill.owner
<1>1. ASSUME UsageIInv, [UsageNext]_usageVars
      PROVE  [Stays]_usageVars
  <2>1. ASSUME NEW d \in Deliveries, CommitReport(d)
        PROVE  Stays
    <3> DEFINE report == delivery[d].report
    <3>1. /\ kept' = Append(kept, report) /\ kept \in Seq(Reports)
          /\ \/ bill = NoBill
             \/ bill # NoBill /\ IsMerge(bill', bill, report)
      BY <1>1, <2>1, CommitEffect DEF UsageIInv, Typed
    <3>2. NoBill.owner.org = NoOrg
      BY DEF NoBill, NoOne
    <3>3. kept'[Len(kept')] = report
      BY <3>1
    <3>4. ASSUME bill # NoBill, SaysNoOtherTime(report)
          PROVE  bill'.decision.period = bill.decision.period
      <4>1. /\ Gathers(bill.facts, kept)
            /\ bill.decision = Decide(bill.facts, bill.first)
        BY <1>1, <3>4 DEF UsageIInv, Faithful
      <4>2. /\ bill'.facts = MergeFacts(bill.facts, report)
            /\ bill'.decision = Decide(bill'.facts, bill.first)
        BY <3>1, <3>4 DEF IsMerge
      <4>3. /\ bill'.facts["started"] = bill.facts["started"]
            /\ bill'.facts["ended"] = bill.facts["ended"]
        BY <3>1, <3>4, <4>1, <4>2, TimesStand
      <4>4. QED BY <4>1, <4>2, <4>3 DEF Decide, PeriodOf
    <3>5. QED BY <3>1, <3>2, <3>3, <3>4 DEF IsMerge
  <2>2. CASE bill' = bill /\ kept' = kept
    BY <2>2
  <2>3. CASE \E d \in Deliveries : CommitReport(d)
    BY <2>1, <2>3
  <2>4. QED
    BY <1>1, <2>2, <2>3
       DEF UsageNext, Deliver, Find, FindNone, Insert, Conflict, Merge, MergeAs, LoseReport,
           PassTime, OpenCallRow, RouteTo, usageVars
<1>2. QED BY <1>1, UsageInductive, PTL DEF UsageSpec, BillStays

-----------------------------------------------------------------------------
(* The customer a call is from.                                            *)

Jobs == [there : BOOLEAN, customer : 0..MaxCustomers]
CustomerRows == Customer \union {NoCustomer}
Syncs ==
  [at : {"none", "finding", "creating", "finding again", "filling", "linking", "ready"},
   number : Dialled \union {Unstated}, heard : BOOLEAN, job : Jobs,
   row : 0..MaxCustomers, seen : CustomerRows, made : 0..MaxCustomers,
   fills : BOOLEAN, edited : BOOLEAN, done : BOOLEAN]
Forms == [phone : Phones, name : Names]
Edits ==
  [at : {"none", "read", "created", "updated"}, row : 0..MaxCustomers,
   seen : CustomerRows, form : Forms \union {NoCustomer}]

CustomersShape ==
  /\ customer \in [CustomerIds -> CustomerRows]
  /\ job \in [Callers -> Jobs]
  /\ sync \in [Callers -> Syncs]
  /\ edit \in Edits
  /\ synced \in [Callers -> BOOLEAN]

OneToANumber ==
  \A i, j \in Stored : customer[i].phone = customer[j].phone => i = j

JobsStored == \A c \in Callers : job[c].customer # 0 => job[c].customer \in Stored

\* What a sync that is as far as s has done.
Stage(s) ==
  /\ s.at \in {"none", "finding", "creating", "finding again", "filling"} =>
       s.made = 0 /\ ~s.fills /\ ~s.done
  /\ s.at \in {"none", "finding", "creating", "finding again"} => s.row = 0
  /\ s.at \in {"finding", "creating", "finding again"} \/ s.made # 0 => s.number \in Dialled
  /\ s.at \in {"filling", "linking"} => s.row # 0
  /\ s.at = "linking" => ~s.done
  /\ s.made # 0 => s.row = s.made /\ ~s.fills
  /\ s.fills => s.row # 0
  /\ s.row # 0 => s.row \in Stored \union {s.made}

\* The work of the call is as it was, or linked to the customer of the sync.
WorkOf(c, s) ==
  s.at # "none" =>
    /\ \/ s.job.customer = job[c].customer
       \/ job[c].customer = 0 /\ s.at = "ready" /\ s.job.customer = s.row
    /\ s.done /\ s.job.there => s.job.customer # 0

\* A name that is to be written has none in its place, or one saved since.
NameOpen(s) ==
  s.fills \/ (s.at = "filling" /\ s.seen.name = "blank") =>
    s.edited \/ customer[s.row].name = "blank"

\* A row that is inserted has an id and a number no other has.
Alone(c, s) ==
  s.made # 0 =>
    /\ s.made \notin Stored
    /\ \A i \in Stored : customer[i].phone # Canonical(s.number)
    /\ \A d \in Callers \ {c} : sync[d].made # 0 =>
         sync[d].made # s.made /\ Canonical(sync[d].number) # Canonical(s.number)

\* So has the one that staff write.
Apart(c, s) ==
  s.made # 0 =>
    /\ edit.at = "created" => edit.row # s.made
    /\ edit.at \in {"created", "updated"} /\ NewKey =>
         edit.form.phone # Canonical(s.number)

GoodSync(c, s) ==
  s \in Syncs /\ Stage(s) /\ WorkOf(c, s) /\ NameOpen(s) /\ Alone(c, s) /\ Apart(c, s)

\* Staff alone change a number, one form at a time: it is as it was read.
GoodEdit ==
  /\ edit.at # "none" => edit.form \in Forms
  /\ (edit.at = "read" /\ edit.row # 0) \/ edit.at = "updated" =>
       edit.row \in Stored /\ customer[edit.row].phone = edit.seen.phone
  /\ (edit.at = "read" /\ edit.row = 0) \/ edit.at = "created" => edit.seen = NoCustomer
  /\ edit.at = "created" => edit.row \in CustomerIds /\ edit.row \notin Stored
  /\ edit.at \in {"created", "updated"} /\ NewKey =>
       \A i \in Stored : customer[i].phone # edit.form.phone

CustomersIInv ==
  /\ CustomersShape /\ OneToANumber /\ JobsStored /\ WorkHasCustomer
  /\ \A c \in Callers : GoodSync(c, sync[c])
  /\ GoodEdit

LEMMA CustomerConstants ==
  /\ Unstated \notin Dialled /\ Unstated \notin Phones
  /\ MaxCustomers \in Nat /\ 0 \in 0..MaxCustomers
  /\ CustomerIds \subseteq 0..MaxCustomers /\ 0 \notin CustomerIds
BY CustomersAssumption DEF Phones, CustomerIds

LEMMA CustomersInvFollows ==
  ASSUME CustomersIInv
  PROVE  CustomersInv
<1> USE DEF CustomersIInv
<1>1. \A i \in CustomerIds : customer[i] \in Customer \union {NoCustomer}
  BY DEF CustomersShape, CustomerRows
<1>2. job \in [Callers -> [there : BOOLEAN, customer : 0..MaxCustomers]]
  BY DEF CustomersShape, Jobs
<1>3. ASSUME NEW c \in Callers
      PROVE  /\ sync[c].at \in {"none", "finding", "creating", "finding again", "filling",
                                "linking", "ready"}
             /\ {sync[c].row, sync[c].made, sync[c].job.customer} \subseteq 0..MaxCustomers
             /\ job[c].customer # 0 => job[c].customer \in Stored
  <2>1. sync[c] \in Syncs  BY DEF CustomersShape
  <2> QED  BY <2>1 DEF Syncs, Jobs, JobsStored
<1>4. edit.at \in {"none", "read", "created", "updated"} /\ synced \in [Callers -> BOOLEAN]
  BY DEF CustomersShape, Edits
<1>5. CustomersTypeOK
  BY <1>1, <1>2, <1>3, <1>4 DEF CustomersTypeOK, OneToANumber
<1> QED  BY <1>5 DEF CustomersInv

-----------------------------------------------------------------------------
(* A step of one sync.                                                     *)

LEMMA CanonicalNumbers ==
  ASSUME NEW m \in Dialled
  PROVE  Canonical(m) \in Phones /\ Canonical(m) # Unstated
<1>1. Canonical(m) \in Phones  BY DEF Canonical, Phones
<1> QED  BY <1>1, CustomerConstants

LEMMA NoSyncIsGood ==
  ASSUME CustomersIInv, NEW c \in Callers
  PROVE  GoodSync(c, NoSync)
<1>1. NoJob \in Jobs  BY CustomerConstants DEF NoJob, Jobs
<1>2. NoSync \in Syncs
  BY <1>1, CustomerConstants DEF NoSync, Syncs, CustomerRows
<1> QED
  BY <1>2 DEF GoodSync, Stage, WorkOf, NameOpen, Alone, Apart, NoSync

\* A step of one sync that leaves it as one may be leaves the rest as it was.
LEMMA SyncMoves ==
  ASSUME CustomersIInv, NEW c \in Callers, NEW s, GoodSync(c, s), SyncIs(c, s),
         UNCHANGED <<customer, job, edit, synced>>
  PROVE  CustomersIInv'
<1>1. sync \in [Callers -> Syncs] /\ s \in Syncs
  BY DEF CustomersIInv, CustomersShape, GoodSync
<1>2. sync' \in [Callers -> Syncs] /\ sync'[c] = s
        /\ \A d \in Callers \ {c} : sync'[d] = sync[d]
  BY <1>1 DEF SyncIs
<1>3. CustomersShape'  BY <1>2 DEF CustomersIInv, CustomersShape
<1>4. Stored' = Stored  BY DEF Stored
<1>5. OneToANumber' /\ JobsStored' /\ WorkHasCustomer' /\ GoodEdit'
  <2>1. OneToANumber'  BY <1>4 DEF CustomersIInv, OneToANumber
  <2>2. JobsStored' /\ WorkHasCustomer'
    BY <1>4 DEF CustomersIInv, JobsStored, WorkHasCustomer
  <2>3. GoodEdit'  BY <1>4 DEF CustomersIInv, GoodEdit, NewKey
  <2> QED  BY <2>1, <2>2, <2>3
<1>6. ASSUME NEW d \in Callers
      PROVE  GoodSync(d, sync[d])'
  <2>1. PICK t : t = sync'[d]  OBVIOUS
  <2>2. GoodSync(d, t)
    <3>1. CASE d = c  BY <1>2, <2>1, <3>1
    <3>2. CASE d # c  BY <1>2, <2>1, <3>2 DEF CustomersIInv
    <3> QED  BY <3>1, <3>2
  <2>3. t \in Syncs /\ Stage(t)' /\ WorkOf(d, t)' /\ NameOpen(t)' /\ Apart(d, t)'
    BY <1>4, <2>2 DEF GoodSync, Stage, WorkOf, NameOpen, Apart, NewKey
  <2>4. Alone(d, t)'
    <3>1. CASE d = c  BY <1>2, <1>4, <2>2, <3>1 DEF GoodSync, Alone
    <3>2. CASE d # c
      <4>1. t.made # 0 /\ s.made # 0 =>
              t.made # s.made /\ Canonical(t.number) # Canonical(s.number)
        <5>1. t = sync[d]  BY <1>2, <2>1, <3>2
        <5> QED  BY <3>2, <5>1 DEF GoodSync, Alone
      <4> QED  BY <1>2, <1>4, <2>2, <3>2, <4>1 DEF GoodSync, Alone
    <3> QED  BY <3>1, <3>2
  <2>5. sync'[d] = t  BY <2>1
  <2> QED  BY <2>3, <2>4, <2>5 DEF GoodSync
<1> QED  BY <1>3, <1>5, <1>6 DEF CustomersIInv

\* The parts of the work of a sync that is good.
LEMMA SyncKnown ==
  ASSUME CustomersIInv, NEW c \in Callers
  PROVE  /\ sync[c] \in Syncs /\ GoodSync(c, sync[c]) /\ job[c] \in Jobs
         /\ sync[c].job \in Jobs
BY DEF CustomersIInv, CustomersShape, Syncs

LEMMA BeginTalkKeeps ==
  ASSUME CustomersIInv, NEW c \in Callers, NEW number \in Dialled \union {Unstated},
         NEW heard \in BOOLEAN, NEW opens \in BOOLEAN,
         BeginTalk(c, number, heard, opens)
  PROVE  CustomersIInv'
<1>1. PICK work : work = [job[c] EXCEPT !.there = job[c].there \/ opens]  OBVIOUS
<1>2. PICK at : at = IF number = Unstated THEN "ready" ELSE "finding"  OBVIOUS
<1>3. PICK s : s = [NoSync EXCEPT !.at = at, !.number = number, !.heard = heard,
                                  !.job = work]
  OBVIOUS
<1>4. SyncIs(c, s) /\ UNCHANGED <<customer, job, edit, synced>>
  BY <1>1, <1>2, <1>3 DEF BeginTalk
<1>5. work \in Jobs /\ work.customer = job[c].customer
  BY <1>1, SyncKnown DEF Jobs
<1>6. NoSync \in Syncs  BY NoSyncIsGood DEF GoodSync
<1>7. /\ s \in Syncs /\ s.at = at /\ s.number = number /\ s.job = work
      /\ s.made = 0 /\ s.row = 0 /\ ~s.fills /\ ~s.done
  BY <1>2, <1>3, <1>5, <1>6 DEF Syncs, NoSync
<1>8. Stage(s)  BY <1>2, <1>7 DEF Stage
<1>9. WorkOf(c, s)  BY <1>5, <1>7 DEF WorkOf
<1>10. NameOpen(s) /\ Alone(c, s) /\ Apart(c, s)
  BY <1>2, <1>7 DEF NameOpen, Alone, Apart
<1> QED  BY <1>4, <1>7, <1>8, <1>9, <1>10, SyncMoves DEF GoodSync

-----------------------------------------------------------------------------
(* The steps of a sync.                                                    *)

\* Of a sync that has made nothing, the rest is as before.
LEMMA MadeNothing ==
  ASSUME NEW c, NEW s, s.made = 0
  PROVE  Alone(c, s) /\ Apart(c, s)
BY DEF Alone, Apart

LEMMA FoundKeeps ==
  ASSUME CustomersIInv, NEW c \in Callers, NEW at \in {"filling", "linking"},
         Found(c, at), sync[c].at \in {"finding", "finding again"},
         UNCHANGED <<customer, job, edit, synced>>
  PROVE  CustomersIInv'
<1>1. PICK i \in WithPhone(Canonical(sync[c].number)) :
             SyncIs(c, [sync[c] EXCEPT !.at = at, !.row = i, !.seen = customer[i]])
  BY DEF Found
<1>2. PICK s : s = [sync[c] EXCEPT !.at = at, !.row = i, !.seen = customer[i]]  OBVIOUS
<1>3. i \in Stored /\ i \in 0..MaxCustomers /\ i # 0 /\ customer[i] \in CustomerRows
  BY CustomerConstants DEF WithPhone, Stored, CustomersIInv, CustomersShape
<1>4. /\ sync[c].number \in Dialled /\ sync[c].made = 0 /\ ~sync[c].fills /\ ~sync[c].done
      /\ sync[c].job.customer = job[c].customer
  BY SyncKnown DEF GoodSync, Stage, WorkOf
<1>5. /\ s \in Syncs /\ s.at = at /\ s.number \in Dialled /\ s.row = i
      /\ s.seen = customer[i] /\ s.made = 0 /\ ~s.fills /\ ~s.done
      /\ s.job.customer = job[c].customer
  BY <1>2, <1>3, <1>4, SyncKnown DEF Syncs
<1>6. Stage(s) /\ WorkOf(c, s) /\ NameOpen(s)
  BY <1>3, <1>5 DEF Stage, WorkOf, NameOpen
<1> QED  BY <1>1, <1>2, <1>5, <1>6, MadeNothing, SyncMoves DEF GoodSync

\* Going on to an insert, or to look again, changes nothing else.
LEMMA GoesOn ==
  ASSUME CustomersIInv, NEW c \in Callers, NEW at \in {"creating", "finding again"},
         sync[c].at \in {"finding", "creating"},
         SyncIs(c, [sync[c] EXCEPT !.at = at]),
         UNCHANGED <<customer, job, edit, synced>>
  PROVE  CustomersIInv'
<1>1. PICK s : s = [sync[c] EXCEPT !.at = at]  OBVIOUS
<1>2. /\ sync[c].number \in Dialled /\ sync[c].made = 0 /\ ~sync[c].fills /\ ~sync[c].done
      /\ sync[c].row = 0 /\ sync[c].job.customer = job[c].customer
  BY SyncKnown DEF GoodSync, Stage, WorkOf
<1>3. /\ s \in Syncs /\ s.at = at /\ s.number \in Dialled /\ s.row = 0
      /\ s.made = 0 /\ ~s.fills /\ ~s.done /\ s.job.customer = job[c].customer
  BY <1>1, <1>2, SyncKnown DEF Syncs
<1>4. Stage(s) /\ WorkOf(c, s) /\ NameOpen(s)
  BY <1>3 DEF Stage, WorkOf, NameOpen
<1> QED  BY <1>1, <1>3, <1>4, MadeNothing, SyncMoves DEF GoodSync

LEMMA FindCustomerKeeps ==
  ASSUME CustomersIInv, NEW c \in Callers, FindCustomer(c)
  PROVE  CustomersIInv'
<1>1. sync[c].at = "finding" /\ UNCHANGED <<customer, job, edit, synced>>
  BY DEF FindCustomer, OnlySync
<1>2. CASE Found(c, "filling")  BY <1>1, <1>2, FoundKeeps
<1>3. CASE SyncIs(c, [sync[c] EXCEPT !.at = "creating"])  BY <1>1, <1>3, GoesOn
<1> QED  BY <1>2, <1>3 DEF FindCustomer

LEMMA CreateConflictKeeps ==
  ASSUME CustomersIInv, NEW c \in Callers, CreateConflict(c)
  PROVE  CustomersIInv'
BY GoesOn DEF CreateConflict, OnlySync

LEMMA FindAgainKeeps ==
  ASSUME CustomersIInv, NEW c \in Callers, FindAgain(c)
  PROVE  CustomersIInv'
BY FoundKeeps DEF FindAgain, OnlySync

\* An insert waits for the key: nobody else has it, stored or pending.
LEMMA CreateCustomerKeeps ==
  ASSUME CustomersIInv, NEW c \in Callers, NEW i \in CustomerIds, CreateCustomer(c, i)
  PROVE  CustomersIInv'
<1>1. PICK s : s = [sync[c] EXCEPT !.at = "linking", !.row = i, !.made = i]  OBVIOUS
<1>2. /\ SyncIs(c, s) /\ sync[c].at = "creating" /\ NextId(i)
      /\ UNCHANGED <<customer, job, edit, synced>>
      /\ ~KeyPending(Canonical(sync[c].number))
      /\ WithPhone(Canonical(sync[c].number)) = {}
  BY <1>1 DEF CreateCustomer, OnlySync
<1>3. /\ sync[c].number \in Dialled /\ ~sync[c].fills /\ ~sync[c].done
      /\ sync[c].job.customer = job[c].customer
  BY <1>2, SyncKnown DEF GoodSync, Stage, WorkOf
<1>4. i \in 0..MaxCustomers /\ i # 0  BY CustomerConstants
<1>5. /\ s \in Syncs /\ s.at = "linking" /\ s.number = sync[c].number /\ s.row = i
      /\ s.made = i /\ ~s.fills /\ ~s.done /\ s.job.customer = job[c].customer
  BY <1>1, <1>3, <1>4, SyncKnown DEF Syncs
<1>6. Stage(s) /\ WorkOf(c, s) /\ NameOpen(s)
  BY <1>3, <1>4, <1>5 DEF Stage, WorkOf, NameOpen
<1>7. i \notin Stored /\ i \notin Inserted  BY <1>2 DEF NextId
<1>8. Alone(c, s)
  <2>1. \A j \in Stored : customer[j].phone # Canonical(s.number)
    BY <1>2, <1>5 DEF WithPhone
  <2>2. ASSUME NEW d \in Callers, sync[d].made # 0
        PROVE  sync[d].made # i /\ Canonical(sync[d].number) # Canonical(s.number)
    BY <1>2, <1>5, <1>7, <2>2 DEF Inserted, KeyPending
  <2> QED  BY <1>5, <1>7, <2>1, <2>2 DEF Alone
<1>9. Apart(c, s)
  <2>1. edit.at = "created" => edit.row # i  BY <1>7 DEF Inserted
  <2>2. edit.at \in {"created", "updated"} => edit.form.phone # Canonical(s.number)
    BY <1>2, <1>5 DEF KeyPending
  <2> QED  BY <1>5, <2>1, <2>2 DEF Apart
<1> QED  BY <1>2, <1>5, <1>6, <1>8, <1>9, SyncMoves DEF GoodSync

LEMMA FillInKeeps ==
  ASSUME CustomersIInv, NEW c \in Callers, FillIn(c)
  PROVE  CustomersIInv'
<1>1. PICK fills \in BOOLEAN : /\ FillTo(c, fills)
                               /\ fills => sync[c].seen.name = "blank"
  BY SyncKnown DEF FillIn, Syncs
<1>2. PICK s : s = [sync[c] EXCEPT !.at = "linking", !.fills = fills]  OBVIOUS
<1>3. SyncIs(c, s) /\ sync[c].at = "filling" /\ UNCHANGED <<customer, job, edit, synced>>
  BY <1>1, <1>2 DEF FillIn, OnlySync, FillTo
<1>4. /\ sync[c].row # 0 /\ sync[c].made = 0 /\ ~sync[c].done
      /\ sync[c].row \in Stored
      /\ sync[c].job.customer = job[c].customer
      /\ fills => sync[c].edited \/ customer[sync[c].row].name = "blank"
  BY <1>1, <1>3, SyncKnown DEF GoodSync, Stage, WorkOf, NameOpen, Stored, CustomerIds
<1>5. /\ s \in Syncs /\ s.at = "linking" /\ s.row = sync[c].row /\ s.made = 0
      /\ s.fills = fills /\ ~s.done /\ s.job.customer = job[c].customer
      /\ s.edited = sync[c].edited
  BY <1>2, <1>4, SyncKnown DEF Syncs
<1>6. Stage(s) /\ WorkOf(c, s) /\ NameOpen(s)
  BY <1>4, <1>5 DEF Stage, WorkOf, NameOpen
<1> QED  BY <1>3, <1>5, <1>6, MadeNothing, SyncMoves DEF GoodSync

LEMMA LinkKeeps ==
  ASSUME CustomersIInv, NEW c \in Callers, Link(c)
  PROVE  CustomersIInv'
<1>1. PICK work : work = IF sync[c].job.there /\ sync[c].job.customer = 0
                         THEN Linked(sync[c].job, sync[c].row) ELSE sync[c].job
  OBVIOUS
<1>2. PICK s : s = [sync[c] EXCEPT !.at = "ready", !.done = TRUE, !.job = work]  OBVIOUS
<1>3. SyncIs(c, s) /\ sync[c].at = "linking" /\ UNCHANGED <<customer, job, edit, synced>>
  BY <1>1, <1>2 DEF Link, OnlySync
<1>4. sync[c].row # 0 /\ sync[c].job.customer = job[c].customer
  BY <1>3, SyncKnown DEF GoodSync, Stage, WorkOf
<1>5. /\ work \in Jobs
      /\ \/ work.customer = job[c].customer
         \/ job[c].customer = 0 /\ work.customer = sync[c].row
      /\ work.there => work.customer # 0
  BY <1>1, <1>4, SyncKnown DEF Linked, Jobs, Syncs
<1>6. /\ s \in Syncs /\ s.at = "ready" /\ s.row = sync[c].row /\ s.made = sync[c].made
      /\ s.fills = sync[c].fills /\ s.job = work /\ s.number = sync[c].number
      /\ s.edited = sync[c].edited
  BY <1>2, <1>5, SyncKnown DEF Syncs
<1>7. Stage(s)  BY <1>4, <1>6, SyncKnown DEF GoodSync, Stage
<1>8. WorkOf(c, s)  BY <1>5, <1>6 DEF WorkOf
<1>9. NameOpen(s) /\ Alone(c, s) /\ Apart(c, s)
  BY <1>6, SyncKnown DEF GoodSync, NameOpen, Alone, Apart
<1> QED  BY <1>3, <1>6, <1>7, <1>8, <1>9, SyncMoves DEF GoodSync

LEMMA SyncFailsKeeps ==
  ASSUME CustomersIInv, NEW c \in Callers, SyncFails(c)
  PROVE  CustomersIInv'
<1>1. PICK s : s = [NoSync EXCEPT !.at = "ready", !.number = sync[c].number,
                                  !.job = sync[c].job]
  OBVIOUS
<1>2. /\ SyncIs(c, s) /\ sync[c].at \notin {"none", "ready"}
      /\ UNCHANGED <<customer, job, edit, synced>>
  BY <1>1 DEF SyncFails, OnlySync
<1>3. sync[c].job.customer = job[c].customer  BY <1>2, SyncKnown DEF GoodSync, WorkOf
<1>4. NoSync \in Syncs  BY NoSyncIsGood DEF GoodSync
<1>5. /\ s \in Syncs /\ s.at = "ready" /\ s.job = sync[c].job /\ s.made = 0
      /\ s.row = 0 /\ ~s.fills /\ ~s.done
  BY <1>1, <1>4, SyncKnown DEF Syncs, NoSync
<1>6. Stage(s) /\ WorkOf(c, s) /\ NameOpen(s)
  BY <1>3, <1>5 DEF Stage, WorkOf, NameOpen
<1> QED  BY <1>2, <1>5, <1>6, MadeNothing, SyncMoves DEF GoodSync

LEMMA LoseTalkKeeps ==
  ASSUME CustomersIInv, NEW c \in Callers, LoseTalk(c)
  PROVE  CustomersIInv'
BY NoSyncIsGood, SyncMoves DEF LoseTalk, OnlySync

-----------------------------------------------------------------------------
(* The commit of a turn.                                                   *)

LEMMA StoredAreCustomers ==
  ASSUME CustomersIInv
  PROVE  \A i \in Stored : customer[i] \in Customer /\ customer[i] # NoCustomer
BY DEF Stored, CustomersIInv, CustomersShape, CustomerRows

LEMMA CustomersHavePhones ==
  ASSUME NEW r \in Customer
  PROVE  r # NoCustomer /\ r \in CustomerRows
BY CustomerConstants DEF Customer, NoCustomer, CustomerRows

\* What the commit of a turn does to the table: a row is new, or has a name.
TalkWrites(s) ==
  /\ customer' \in [CustomerIds -> CustomerRows]
  /\ s.made # 0 =>
       s.made \in Stored' /\ customer'[s.made].phone = Canonical(s.number)
  /\ \A i \in Stored : /\ i \in Stored' /\ customer'[i].phone = customer[i].phone
                       /\ customer'[i] # customer[i] => s.fills /\ i = s.row
  /\ \A i \in Stored' : i \in Stored \/ (i = s.made /\ s.made # 0)

LEMMA CommitTalkWrites ==
  ASSUME CustomersIInv, NEW c \in Callers, CommitTalk(c)
  PROVE  TalkWrites(sync[c])
<1>1. PICK s : s = sync[c]  OBVIOUS
<1>2. PICK new : new = [phone |-> Canonical(s.number),
                        name |-> IF s.heard THEN c ELSE "blank"]
  OBVIOUS
<1>3. customer' = [i \in CustomerIds |->
                     CASE i = s.made /\ s.made # 0 -> new
                       [] i = s.row /\ s.fills -> [customer[i] EXCEPT !.name = c]
                       [] OTHER -> customer[i]]
  BY <1>1, <1>2 DEF CommitTalk
<1>4. s \in Syncs /\ Stage(s) /\ Alone(c, s)
  BY <1>1, SyncKnown DEF GoodSync
<1>5. s.made # 0 => /\ s.made \in CustomerIds /\ s.made \notin Stored
                    /\ s.number \in Dialled /\ ~s.fills
  <2>1. s.made \in 0..MaxCustomers  BY <1>4 DEF Syncs
  <2>2. s.made # 0 => s.made \in CustomerIds  BY <2>1, CustomerConstants DEF CustomerIds
  <2> QED  BY <1>4, <2>2 DEF Stage, Alone
<1>6. s.made # 0 => new \in Customer
  BY <1>2, <1>5, CanonicalNumbers DEF Customer, Names
<1>7. ASSUME NEW i \in CustomerIds, i # s.made \/ s.made = 0, ~(i = s.row /\ s.fills)
      PROVE  customer'[i] = customer[i]
  BY <1>3, <1>7
<1>8. s.made # 0 => customer'[s.made] = new
  BY <1>3, <1>5
<1>9. ASSUME s.fills, s.row \in CustomerIds
      PROVE  /\ s.row \in Stored /\ customer'[s.row] \in Customer
             /\ customer'[s.row].phone = customer[s.row].phone
  <2>1. s.made = 0 /\ s.row # 0  BY <1>5, <1>9, CustomerConstants
  <2>2. s.row \in Stored  BY <1>4, <2>1 DEF Stage
  <2>3. customer'[s.row] = [customer[s.row] EXCEPT !.name = c]
    BY <1>3, <1>9, <2>1
  <2> QED  BY <2>2, <2>3, StoredAreCustomers DEF Customer, Names
<1>10. customer \in [CustomerIds -> CustomerRows]  BY DEF CustomersIInv, CustomersShape
<1>11. ASSUME NEW i \in CustomerIds
       PROVE  customer'[i] \in CustomerRows
  BY <1>6, <1>7, <1>8, <1>9, <1>10, CustomersHavePhones
<1>12. customer' \in [CustomerIds -> CustomerRows]
  <2>1. customer' = [i \in CustomerIds |-> customer'[i]]  BY <1>3
  <2> QED  BY <1>11, <2>1
<1>13. s.made # 0 => s.made \in Stored' /\ customer'[s.made].phone = Canonical(s.number)
  BY <1>2, <1>5, <1>6, <1>8, CustomersHavePhones DEF Stored
<1>14. ASSUME NEW i \in Stored
       PROVE  /\ i \in Stored' /\ customer'[i].phone = customer[i].phone
              /\ customer'[i] # customer[i] => s.fills /\ i = s.row
  <2>1. i \in CustomerIds /\ customer[i] # NoCustomer /\ (s.made # 0 => i # s.made)
    BY <1>5 DEF Stored
  <2>2. CASE i = s.row /\ s.fills
    BY <1>9, <2>1, <2>2, CustomersHavePhones DEF Stored
  <2>3. CASE ~(i = s.row /\ s.fills)
    BY <1>7, <2>1, <2>3 DEF Stored
  <2> QED  BY <2>2, <2>3
<1>15. \A i \in Stored' : i \in Stored \/ (i = s.made /\ s.made # 0)
  <2> SUFFICES ASSUME NEW i \in Stored', i \notin Stored
               PROVE  i = s.made /\ s.made # 0
    OBVIOUS
  <2>1. i \in CustomerIds /\ customer'[i] # customer[i]  BY DEF Stored
  <2> QED  BY <1>7, <1>9, <2>1
<1>16. TalkWrites(s)
  <2>1. \A i \in Stored : /\ i \in Stored' /\ customer'[i].phone = customer[i].phone
                          /\ customer'[i] # customer[i] => s.fills /\ i = s.row
    BY <1>14
  <2> QED  BY <1>12, <1>13, <1>15, <2>1 DEF TalkWrites
<1> QED  BY <1>1, <1>16

\* A sync whose row others have saved meanwhile is as far as it was.
SavedOver(t, new) ==
  /\ new \in Syncs /\ new.at = t.at /\ new.number = t.number /\ new.job = t.job
  /\ new.row = t.row /\ new.seen = t.seen /\ new.made = t.made /\ new.fills = t.fills
  /\ new.done = t.done
  /\ t.edited => new.edited

LEMMA CommitTalkKeeps ==
  ASSUME CustomersIInv, NEW c \in Callers, CommitTalk(c)
  PROVE  CustomersIInv'
<1>1. PICK s : s = sync[c]  OBVIOUS
<1>2. /\ job' = [job EXCEPT ![c] = s.job] /\ synced' = [synced EXCEPT ![c] = s.done]
      /\ edit' = edit /\ s.at = "ready"
      /\ sync' = [d \in Callers |->
           CASE d = c -> NoSync
             [] d # c /\ s.fills /\ sync[d].row = s.row -> [sync[d] EXCEPT !.edited = TRUE]
             [] OTHER -> sync[d]]
  BY <1>1 DEF CommitTalk
<1>3. s \in Syncs /\ Stage(s) /\ WorkOf(c, s) /\ Alone(c, s) /\ Apart(c, s) /\ TalkWrites(s)
  BY <1>1, SyncKnown, CommitTalkWrites DEF GoodSync
<1>4. NoSync \in Syncs /\ NoSync.made = 0 /\ NoSync.at = "none"
  BY NoSyncIsGood DEF GoodSync, NoSync
<1>5. sync'[c] = NoSync
      /\ \A d \in Callers \ {c} :
           /\ SavedOver(sync[d], sync'[d])
           /\ s.fills /\ sync[d].row = s.row => sync'[d].edited
  BY <1>2, SyncKnown DEF SavedOver, Syncs
<1>14. sync' \in [Callers -> Syncs]
  <2>1. sync' = [d \in Callers |-> sync'[d]]  BY <1>2
  <2>2. \A d \in Callers : sync'[d] \in Syncs  BY <1>4, <1>5 DEF SavedOver
  <2> QED  BY <2>1, <2>2
<1>6. /\ job' \in [Callers -> Jobs] /\ job'[c] = s.job
      /\ \A d \in Callers \ {c} : job'[d] = job[d]
  BY <1>2, <1>3 DEF CustomersIInv, CustomersShape, Syncs
<1>7. /\ synced' \in [Callers -> BOOLEAN] /\ synced'[c] = s.done
      /\ \A d \in Callers \ {c} : synced'[d] = synced[d]
  BY <1>2, <1>3 DEF CustomersIInv, CustomersShape, Syncs
<1>8. CustomersShape'
  BY <1>2, <1>3, <1>14, <1>6, <1>7 DEF CustomersIInv, CustomersShape, TalkWrites
<1>9. OneToANumber'
  <2> SUFFICES ASSUME NEW i \in Stored', NEW j \in Stored',
                      customer'[i].phone = customer'[j].phone
               PROVE  i = j
    BY DEF OneToANumber
  <2>1. CASE i \in Stored /\ j \in Stored
    BY <1>3, <2>1 DEF TalkWrites, CustomersIInv, OneToANumber
  <2>2. CASE i \notin Stored /\ j \in Stored  BY <1>3, <2>2 DEF TalkWrites, Alone
  <2>3. CASE i \in Stored /\ j \notin Stored  BY <1>3, <2>3 DEF TalkWrites, Alone
  <2>4. CASE i \notin Stored /\ j \notin Stored  BY <1>3, <2>4 DEF TalkWrites
  <2> QED  BY <2>1, <2>2, <2>3, <2>4
<1>10. JobsStored'
  <2> SUFFICES ASSUME NEW d \in Callers, job'[d].customer # 0
               PROVE  job'[d].customer \in Stored'
    BY DEF JobsStored
  <2>1. CASE d # c
    BY <1>3, <1>6, <2>1 DEF CustomersIInv, JobsStored, TalkWrites
  <2>2. CASE d = c /\ s.job.customer = job[c].customer
    BY <1>3, <1>6, <2>2 DEF CustomersIInv, JobsStored, TalkWrites
  <2>3. CASE d = c /\ s.job.customer = s.row
    BY <1>3, <1>6, <2>3 DEF Stage, TalkWrites
  <2> QED  BY <1>2, <1>3, <2>1, <2>2, <2>3 DEF WorkOf
<1>11. WorkHasCustomer'
  <2> SUFFICES ASSUME NEW d \in Callers, synced'[d], job'[d].there
               PROVE  job'[d].customer # 0
    BY DEF WorkHasCustomer
  <2>1. CASE d # c  BY <1>6, <1>7, <2>1 DEF CustomersIInv, WorkHasCustomer
  <2>2. CASE d = c  BY <1>2, <1>3, <1>6, <1>7, <2>2 DEF WorkOf
  <2> QED  BY <2>1, <2>2
<1>12. GoodEdit'
  <2>1. ASSUME edit.at \in {"created", "updated"}, NewKey, NEW i \in Stored'
        PROVE  customer'[i].phone # edit.form.phone
    BY <1>3, <2>1 DEF CustomersIInv, GoodEdit, TalkWrites, Apart
  <2>2. ASSUME edit.at = "created"  PROVE edit.row \notin Stored'
    BY <1>3, <2>2 DEF CustomersIInv, GoodEdit, TalkWrites, Apart
  <2>3. ASSUME (edit.at = "read" /\ edit.row # 0) \/ edit.at = "updated"
        PROVE  edit.row \in Stored' /\ customer'[edit.row].phone = edit.seen.phone
    BY <1>3, <2>3 DEF CustomersIInv, GoodEdit, TalkWrites
  <2>4. NewKey' <=> NewKey  BY <1>2 DEF NewKey
  <2> QED
    BY <1>2, <2>1, <2>2, <2>3, <2>4 DEF CustomersIInv, GoodEdit
<1>13. ASSUME NEW d \in Callers
       PROVE  GoodSync(d, sync[d])'
  <2>1. CASE d = c
    <3>1. sync'[d] = NoSync  BY <1>5, <2>1
    <3> QED  BY <1>4, <3>1 DEF GoodSync, Stage, WorkOf, NameOpen, Alone, Apart, NoSync
  <2>2. CASE d # c
    <3>1. PICK t : t = sync[d]  OBVIOUS
    <3>2. PICK new : new = sync'[d]  OBVIOUS
    <3>3. GoodSync(d, t)  BY <3>1, SyncKnown
    <3>4. /\ SavedOver(t, new) /\ (s.fills /\ t.row = s.row => new.edited)
          /\ job'[d] = job[d]
      BY <1>5, <1>6, <2>2, <3>1, <3>2
    <3>5. Stage(new)'
      BY <1>3, <3>3, <3>4 DEF GoodSync, Stage, TalkWrites, SavedOver
    <3>6. WorkOf(d, new)'  BY <3>3, <3>4 DEF GoodSync, WorkOf, SavedOver
    <3>7. NameOpen(new)'
      <4>1. ASSUME new.fills \/ (new.at = "filling" /\ new.seen.name = "blank"), ~new.edited
            PROVE  customer'[new.row].name = "blank"
        <5>1. /\ t.fills \/ (t.at = "filling" /\ t.seen.name = "blank")
              /\ ~t.edited /\ t.row = new.row
          BY <3>4, <4>1 DEF SavedOver
        <5>2. customer[t.row].name = "blank"
          BY <3>3, <5>1 DEF GoodSync, NameOpen
        <5>3. t.row \in Stored
          BY <3>3, <5>1 DEF GoodSync, Stage
        <5>4. ~(s.fills /\ t.row = s.row)
          BY <3>4, <4>1
        <5> QED  BY <1>3, <5>1, <5>2, <5>3, <5>4 DEF TalkWrites
      <4> QED  BY <4>1 DEF NameOpen
    <3>8. Alone(d, new)'
      <4>1. t.made # 0 /\ s.made # 0 =>
              t.made # s.made /\ Canonical(t.number) # Canonical(s.number)
        BY <1>1, <1>3, <2>2, <3>1 DEF Alone
      <4>2. \A e \in Callers \ {d} : sync'[e].made # 0 =>
              sync'[e].made = sync[e].made /\ sync'[e].number = sync[e].number
        BY <1>4, <1>5 DEF SavedOver
      <4>3. new.made = t.made /\ new.number = t.number
        BY <3>4 DEF SavedOver
      <4> QED  BY <1>3, <3>3, <4>1, <4>2, <4>3 DEF GoodSync, Alone, TalkWrites
    <3>9. Apart(d, new)'
      BY <1>2, <3>3, <3>4 DEF GoodSync, Apart, NewKey, SavedOver
    <3>10. new \in Syncs  BY <3>4 DEF SavedOver
    <3> QED  BY <3>2, <3>5, <3>6, <3>7, <3>8, <3>9, <3>10 DEF GoodSync
  <2> QED  BY <2>1, <2>2
<1> QED  BY <1>8, <1>9, <1>10, <1>11, <1>12, <1>13 DEF CustomersIInv

-----------------------------------------------------------------------------
(* Staff.                                                                  *)

LEMMA EditMoves ==
  ASSUME CustomersIInv, UNCHANGED <<customer, job, sync, synced>>,
         edit' \in Edits, GoodEdit', \A c \in Callers : Apart(c, sync[c])'
  PROVE  CustomersIInv'
<1>1. Stored' = Stored  BY DEF Stored
<1>2. CustomersShape'  BY DEF CustomersIInv, CustomersShape
<1>3. OneToANumber' /\ JobsStored' /\ WorkHasCustomer'
  BY <1>1 DEF CustomersIInv, OneToANumber, JobsStored, WorkHasCustomer
<1>4. ASSUME NEW c \in Callers
      PROVE  GoodSync(c, sync[c])'
  <2>1. /\ (sync[c] \in Syncs)' /\ Stage(sync[c])' /\ WorkOf(c, sync[c])'
        /\ NameOpen(sync[c])' /\ Alone(c, sync[c])'
    BY <1>1, SyncKnown DEF GoodSync, Stage, WorkOf, NameOpen, Alone
  <2> QED  BY <2>1 DEF GoodSync
<1> QED  BY <1>2, <1>3, <1>4 DEF CustomersIInv

LEMMA NoEditKeeps ==
  ASSUME CustomersIInv, edit' = NoEdit, UNCHANGED <<customer, job, sync, synced>>
  PROVE  CustomersIInv'
<1>1. NoEdit \in Edits
  BY CustomerConstants DEF NoEdit, Edits, CustomerRows
<1>2. GoodEdit'  BY DEF GoodEdit, NoEdit
<1>3. \A c \in Callers : Apart(c, sync[c])'  BY DEF Apart, NoEdit
<1> QED  BY <1>1, <1>2, <1>3, EditMoves

LEMMA SendFormKeeps ==
  ASSUME CustomersIInv, NEW row \in CustomerIds \union {0}, NEW form \in Forms,
         SendForm(row, form)
  PROVE  CustomersIInv'
<1>1. PICK seen : seen = IF row = 0 THEN NoCustomer ELSE customer[row]  OBVIOUS
<1>2. /\ edit' = [at |-> "read", row |-> row, form |-> form, seen |-> seen]
      /\ row \in Stored \union {0} /\ UNCHANGED <<customer, job, sync, synced>>
  BY <1>1 DEF SendForm, OnlyEdit
<1>3. seen \in CustomerRows /\ row \in 0..MaxCustomers
  BY <1>1, <1>2, CustomerConstants, StoredAreCustomers DEF CustomerRows
<1>4. edit' \in Edits  BY <1>2, <1>3 DEF Edits
<1>5. Stored' = Stored /\ 0 \notin Stored  BY <1>2, CustomerConstants DEF Stored
<1>6. GoodEdit'  BY <1>1, <1>2, <1>5 DEF GoodEdit
<1>7. \A c \in Callers : Apart(c, sync[c])'  BY <1>2 DEF Apart
<1> QED  BY <1>2, <1>4, <1>6, <1>7, EditMoves

\* A form waits for its key and its row like any other.
LEMMA WriteFormKeeps ==
  ASSUME CustomersIInv, NEW i \in CustomerIds, WriteForm(i)
  PROVE  CustomersIInv'
<1>1. /\ edit.at = "read" /\ UNCHANGED <<customer, job, sync, synced>>
      /\ IF edit.row = 0 THEN NextId(i) ELSE i = edit.row
      /\ NewKey => ~KeyPending(edit.form.phone)
  BY DEF WriteForm, OnlyEdit
<1>2. CASE edit' = NoEdit  BY <1>1, <1>2, NoEditKeeps
<1>3. CASE edit' # NoEdit
  <2>1. PICK at : at = IF edit.row = 0 THEN "created" ELSE "updated"  OBVIOUS
  <2>2. /\ edit' = [edit EXCEPT !.at = at, !.row = i]
        /\ NewKey => WithPhone(edit.form.phone) = {}
    BY <1>3, <2>1 DEF WriteForm
  <2>3. edit \in Edits /\ edit.form \in Forms
    BY <1>1 DEF CustomersIInv, CustomersShape, GoodEdit
  <2>4. /\ edit' \in Edits /\ edit'.at = at /\ edit'.row = i
        /\ edit'.form = edit.form /\ edit'.seen = edit.seen
    BY <2>1, <2>2, <2>3, CustomerConstants DEF Edits
  <2>5. Stored' = Stored  BY <1>1 DEF Stored
  <2>6. NewKey' <=> NewKey  BY <2>4 DEF NewKey
  <2>7. edit.row = 0 => i \notin Stored /\ i \notin Inserted /\ edit.seen = NoCustomer
    BY <1>1 DEF NextId, CustomersIInv, GoodEdit
  <2>8. edit.row # 0 =>
          i = edit.row /\ i \in Stored /\ customer[i].phone = edit.seen.phone
    BY <1>1 DEF CustomersIInv, GoodEdit
  <2>9. NewKey => \A j \in Stored : customer[j].phone # edit.form.phone
    BY <2>2 DEF WithPhone
  <2>10. GoodEdit'
    BY <1>1, <2>1, <2>3, <2>4, <2>5, <2>6, <2>7, <2>8, <2>9 DEF GoodEdit
  <2>11. ASSUME NEW c \in Callers, sync[c].made # 0
         PROVE  /\ at = "created" => i # sync[c].made
                /\ NewKey => edit.form.phone # Canonical(sync[c].number)
    BY <1>1, <2>1, <2>7, <2>11 DEF Inserted, KeyPending
  <2>12. \A c \in Callers : Apart(c, sync[c])'
    BY <1>1, <2>4, <2>6, <2>11 DEF Apart
  <2> QED  BY <1>1, <2>4, <2>10, <2>12, EditMoves
<1> QED  BY <1>2, <1>3

LEMMA LoseFormKeeps ==
  ASSUME CustomersIInv, LoseForm
  PROVE  CustomersIInv'
BY NoEditKeeps DEF LoseForm, OnlyEdit

\* What the commit of a form does to the table: one row is new, or changed.
LEMMA CommitFormWrites ==
  ASSUME CustomersIInv, CommitForm
  PROVE  /\ customer' \in [CustomerIds -> CustomerRows]
         /\ edit.row \in CustomerIds
         /\ \A i \in CustomerIds \ {edit.row} : customer'[i] = customer[i]
         /\ Stored' = Stored \union {edit.row}
         /\ edit.row \in Stored =>
              customer'[edit.row].phone
                = IF NewKey THEN edit.form.phone ELSE customer[edit.row].phone
         /\ edit.row \notin Stored => NewKey
         /\ NewKey => customer'[edit.row].phone = edit.form.phone
<1>1. PICK new : new = [phone |-> IF NewKey THEN edit.form.phone
                                  ELSE customer[edit.row].phone,
                        name |-> IF edit.form.name # edit.seen.name THEN edit.form.name
                                 ELSE customer[edit.row].name]
  OBVIOUS
<1>2. /\ customer' = [customer EXCEPT ![edit.row] = new]
      /\ edit.at \in {"created", "updated"}
  BY <1>1 DEF CommitForm
<1>3. customer \in [CustomerIds -> CustomerRows]  BY DEF CustomersIInv, CustomersShape
<1>4. edit.row \in CustomerIds /\ edit.form \in Forms
  BY <1>2 DEF CustomersIInv, GoodEdit, Stored
<1>5. edit.row \notin Stored => NewKey
  <2>1. edit.row \notin Stored => edit.seen = NoCustomer
    BY <1>2 DEF CustomersIInv, GoodEdit
  <2>2. edit.form.phone \in Phones  BY <1>4 DEF Forms
  <2> QED  BY <2>1, <2>2, CustomerConstants DEF NewKey, NoCustomer
<1>6. customer[edit.row].name \in Names
  BY <1>3, <1>4 DEF CustomerRows, Customer, NoCustomer, Names
<1>7. new.phone \in Phones
  BY <1>1, <1>4, <1>5, StoredAreCustomers DEF Forms, Customer
<1>8. new.name \in Names  BY <1>1, <1>4, <1>6 DEF Forms
<1>9. new \in Customer  BY <1>1, <1>7, <1>8 DEF Customer
<1>10. new \in CustomerRows /\ new # NoCustomer  BY <1>9, CustomersHavePhones
<1>11. /\ customer' \in [CustomerIds -> CustomerRows] /\ customer'[edit.row] = new
       /\ \A i \in CustomerIds \ {edit.row} : customer'[i] = customer[i]
  BY <1>2, <1>3, <1>4, <1>10
<1>12. Stored' = Stored \union {edit.row}
  BY <1>4, <1>10, <1>11 DEF Stored
<1>13. new.phone = IF NewKey THEN edit.form.phone ELSE customer[edit.row].phone
  BY <1>1
<1> QED  BY <1>4, <1>5, <1>11, <1>12, <1>13

LEMMA CommitFormKeeps ==
  ASSUME CustomersIInv, CommitForm
  PROVE  CustomersIInv'
<1>1. /\ edit.at \in {"created", "updated"} /\ edit' = NoEdit /\ UNCHANGED <<job, synced>>
      /\ sync' = [c \in Callers |->
           IF sync[c].row = edit.row THEN [sync[c] EXCEPT !.edited = TRUE] ELSE sync[c]]
  BY DEF CommitForm
<1>2. PICK row : row = edit.row  OBVIOUS
<1>3. /\ customer' \in [CustomerIds -> CustomerRows] /\ row \in CustomerIds
      /\ \A i \in CustomerIds \ {row} : customer'[i] = customer[i]
      /\ Stored' = Stored \union {row}
      /\ row \in Stored => customer'[row].phone
                             = IF NewKey THEN edit.form.phone ELSE customer[row].phone
      /\ row \notin Stored => NewKey
      /\ NewKey => customer'[row].phone = edit.form.phone
  BY <1>2, CommitFormWrites
<1>4. NewKey => \A i \in Stored : customer[i].phone # edit.form.phone
  BY <1>1 DEF CustomersIInv, GoodEdit
<1>5. ASSUME NEW c \in Callers
      PROVE  /\ sync'[c] \in Syncs /\ sync'[c].at = sync[c].at
             /\ sync'[c].number = sync[c].number /\ sync'[c].job = sync[c].job
             /\ sync'[c].row = sync[c].row /\ sync'[c].seen = sync[c].seen
             /\ sync'[c].made = sync[c].made /\ sync'[c].fills = sync[c].fills
             /\ sync'[c].done = sync[c].done
             /\ sync'[c].edited = (sync[c].edited \/ sync[c].row = row)
  BY <1>1, <1>2, SyncKnown DEF Syncs
<1>6. sync' \in [Callers -> Syncs]
  <2>1. sync' = [c \in Callers |-> sync'[c]]  BY <1>1
  <2> QED  BY <1>5, <2>1
<1>7. NoEdit \in Edits
  BY CustomerConstants DEF NoEdit, Edits, CustomerRows
<1>8. CustomersShape'
  BY <1>1, <1>3, <1>6, <1>7 DEF CustomersIInv, CustomersShape
<1>9. OneToANumber'
  <2> SUFFICES ASSUME NEW i \in Stored', NEW j \in Stored',
                      customer'[i].phone = customer'[j].phone
               PROVE  i = j
    BY DEF OneToANumber
  <2>1. CASE i # row /\ j # row
    BY <1>3, <2>1 DEF CustomersIInv, OneToANumber, Stored
  <2>2. ASSUME NEW k \in Stored, k # row
        PROVE  customer'[k].phone # customer'[row].phone
    <3>1. customer'[k] = customer[k]  BY <1>3, <2>2 DEF Stored
    <3>2. CASE NewKey  BY <1>3, <1>4, <2>2, <3>1, <3>2
    <3>3. CASE ~NewKey
      BY <1>3, <2>2, <3>1, <3>3 DEF CustomersIInv, OneToANumber
    <3> QED  BY <3>2, <3>3
  <2> QED  BY <1>3, <2>1, <2>2
<1>10. JobsStored' /\ WorkHasCustomer'
  BY <1>1, <1>3 DEF CustomersIInv, JobsStored, WorkHasCustomer
<1>11. GoodEdit'  BY <1>1 DEF GoodEdit, NoEdit
<1>12. ASSUME NEW c \in Callers
       PROVE  GoodSync(c, sync[c])'
  <2>1. PICK s : s = sync'[c]  OBVIOUS
  <2>2. PICK t : t = sync[c]  OBVIOUS
  <2>3. GoodSync(c, t)  BY <2>2, SyncKnown
  <2>4. /\ s \in Syncs /\ s.at = t.at /\ s.number = t.number /\ s.job = t.job
        /\ s.row = t.row /\ s.seen = t.seen /\ s.made = t.made /\ s.fills = t.fills
        /\ s.done = t.done /\ s.edited = (t.edited \/ t.row = row)
    BY <1>5, <2>1, <2>2
  <2>5. Stage(s)'  BY <1>3, <2>3, <2>4 DEF GoodSync, Stage
  <2>6. WorkOf(c, s)'  BY <1>1, <2>3, <2>4 DEF GoodSync, WorkOf
  <2>7. NameOpen(s)'
    <3>1. ASSUME s.fills \/ (s.at = "filling" /\ s.seen.name = "blank"), ~s.edited
          PROVE  customer'[s.row].name = "blank"
      <4>1. t.row # row /\ customer[t.row].name = "blank"
        BY <2>3, <2>4, <3>1 DEF GoodSync, NameOpen
      <4>2. t.made = 0 /\ t.row # 0  BY <2>3, <2>4, <3>1 DEF GoodSync, Stage
      <4>3. t.row \in CustomerIds  BY <2>3, <4>2 DEF GoodSync, Stage, Stored
      <4> QED  BY <1>3, <2>4, <4>1, <4>3
    <3> QED  BY <3>1 DEF NameOpen
  <2>8. Alone(c, s)'
    <3>1. ASSUME t.made # 0
          PROVE  /\ t.made # row
                 /\ customer'[row].phone # Canonical(t.number)
      <4>1. row \in Stored => t.made # row  BY <2>3, <3>1 DEF GoodSync, Alone
      <4>2. row \notin Stored => t.made # row
        BY <1>1, <1>2, <2>3, <3>1 DEF GoodSync, Apart, CustomersIInv, GoodEdit
      <4>3. NewKey => edit.form.phone # Canonical(t.number)
        BY <1>1, <2>3, <3>1 DEF GoodSync, Apart
      <4>4. ~NewKey => customer[row].phone # Canonical(t.number)
        BY <1>3, <2>3, <3>1 DEF GoodSync, Alone
      <4> QED  BY <1>3, <4>1, <4>2, <4>3, <4>4
    <3>2. ASSUME t.made # 0, NEW i \in Stored'
          PROVE  customer'[i].phone # Canonical(t.number)
      BY <1>3, <2>3, <3>1, <3>2 DEF GoodSync, Alone, Stored
    <3>3. t.made # 0 => t.made \notin Stored'
      BY <1>3, <2>3, <3>1 DEF GoodSync, Alone
    <3>4. ASSUME NEW d \in Callers \ {c}, t.made # 0, sync'[d].made # 0
          PROVE  sync'[d].made # t.made /\ Canonical(sync'[d].number) # Canonical(t.number)
      BY <1>5, <2>3, <3>4 DEF GoodSync, Alone
    <3> QED  BY <2>4, <3>2, <3>3, <3>4 DEF Alone
  <2>9. Apart(c, s)'  BY <1>1 DEF Apart, NoEdit
  <2> QED  BY <2>1, <2>4, <2>5, <2>6, <2>7, <2>8, <2>9 DEF GoodSync
<1> QED  BY <1>8, <1>9, <1>10, <1>11, <1>12 DEF CustomersIInv

-----------------------------------------------------------------------------
(* The customers of an organization.                                       *)

\* What no step of the customers does.
NameTaken(c) ==
  \E i \in Stored : /\ Speaking(c) /\ customer'[i] # customer[i]
                    /\ customer[i].name # "blank" /\ ~sync[c].edited
LinkTaken(c) == job[c].customer # 0 /\ job'[c].customer # job[c].customer

NobodyTakes == \A c \in Callers : ~NameTaken(c) /\ ~LinkTaken(c)

LEMMA CustomersInitHolds ==
  ASSUME CustomersInit
  PROVE  CustomersIInv
<1>1. NoJob \in Jobs  BY CustomerConstants DEF NoJob, Jobs
<1>2. NoSync \in Syncs
  BY <1>1, CustomerConstants DEF NoSync, Syncs, CustomerRows
<1>3. NoEdit \in Edits
  BY CustomerConstants DEF NoEdit, Edits, CustomerRows
<1>4. CustomersShape
  BY <1>1, <1>2, <1>3 DEF CustomersInit, CustomersShape, CustomerRows
<1>5. Stored = {} /\ \A c \in Callers : sync[c] = NoSync /\ job[c] = NoJob /\ ~synced[c]
  BY DEF CustomersInit, Stored
<1>6. OneToANumber /\ JobsStored /\ WorkHasCustomer
  BY <1>5 DEF OneToANumber, JobsStored, WorkHasCustomer, NoJob
<1>7. GoodEdit  BY DEF CustomersInit, GoodEdit, NoEdit
<1>8. ASSUME NEW c \in Callers
      PROVE  GoodSync(c, sync[c])
  <2>1. /\ NoSync.at = "none" /\ NoSync.made = 0 /\ NoSync.row = 0
        /\ ~NoSync.fills /\ ~NoSync.done
    BY DEF NoSync
  <2>2. Stage(NoSync) /\ WorkOf(c, NoSync)  BY <2>1 DEF Stage, WorkOf
  <2>3. NameOpen(NoSync) /\ Alone(c, NoSync) /\ Apart(c, NoSync)
    BY <2>1 DEF NameOpen, Alone, Apart
  <2> QED  BY <1>2, <1>5, <2>2, <2>3 DEF GoodSync
<1> QED  BY <1>4, <1>6, <1>7, <1>8 DEF CustomersIInv

LEMMA QuietTakesNothing ==
  ASSUME UNCHANGED <<customer, job>>
  PROVE  NobodyTakes
BY DEF NobodyTakes, NameTaken, LinkTaken, Speaking

LEMMA CommitTalkTakesNothing ==
  ASSUME CustomersIInv, NEW c \in Callers, CommitTalk(c)
  PROVE  NobodyTakes
<1>1. TalkWrites(sync[c]) /\ GoodSync(c, sync[c]) /\ sync[c].at = "ready"
  BY CommitTalkWrites, SyncKnown DEF CommitTalk
<1>2. ASSUME NEW d \in Callers \ {c}
      PROVE  sync'[d].at = sync[d].at /\ job'[d] = job[d]
  <2>1. job'[d] = job[d]  BY DEF CommitTalk, CustomersIInv, CustomersShape
  <2>2. sync'[d].at = sync[d].at  BY SyncKnown DEF CommitTalk, Syncs
  <2> QED  BY <2>1, <2>2
<1>3. job'[c] = sync[c].job  BY DEF CommitTalk, CustomersIInv, CustomersShape
<1>4. ~NameTaken(c)
  BY <1>1 DEF NameTaken, TalkWrites, GoodSync, NameOpen
<1>5. ~LinkTaken(c)
  BY <1>1, <1>3 DEF LinkTaken, GoodSync, WorkOf
<1>6. \A d \in Callers \ {c} : ~NameTaken(d) /\ ~LinkTaken(d)
  BY <1>2 DEF NameTaken, LinkTaken, Speaking
<1> QED  BY <1>4, <1>5, <1>6 DEF NobodyTakes

LEMMA CommitFormTakesNothing ==
  ASSUME CustomersIInv, CommitForm
  PROVE  NobodyTakes
<1>1. job' = job  BY DEF CommitForm
<1>2. ASSUME NEW c \in Callers
      PROVE  sync'[c].at = sync[c].at
  BY SyncKnown DEF CommitForm, Syncs
<1> QED  BY <1>1, <1>2 DEF NobodyTakes, NameTaken, LinkTaken, Speaking

LEMMA CustomersStep ==
  ASSUME CustomersIInv, [CustomersNext]_customersVars
  PROVE  CustomersIInv' /\ NobodyTakes
<1>1. ASSUME NEW c \in Callers, NEW number \in Dialled \union {Unstated},
             NEW heard \in BOOLEAN, NEW opens \in BOOLEAN,
             BeginTalk(c, number, heard, opens)
      PROVE  CustomersIInv' /\ NobodyTakes
  BY <1>1, BeginTalkKeeps, QuietTakesNothing DEF BeginTalk
<1>2. ASSUME NEW c \in Callers, NEW i \in CustomerIds, CreateCustomer(c, i)
      PROVE  CustomersIInv' /\ NobodyTakes
  BY <1>2, CreateCustomerKeeps, QuietTakesNothing DEF CreateCustomer, OnlySync
<1>3. ASSUME NEW c \in Callers,
             \/ FindCustomer(c) \/ CreateConflict(c) \/ FindAgain(c) \/ FillIn(c)
             \/ Link(c) \/ SyncFails(c) \/ LoseTalk(c)
      PROVE  CustomersIInv' /\ NobodyTakes
  <2>1. UNCHANGED <<customer, job>>
    BY <1>3 DEF FindCustomer, CreateConflict, FindAgain, FillIn, Link, SyncFails,
                LoseTalk, OnlySync
  <2>2. CustomersIInv'
    BY <1>3, FindCustomerKeeps, CreateConflictKeeps, FindAgainKeeps, FillInKeeps,
       LinkKeeps, SyncFailsKeeps, LoseTalkKeeps
  <2> QED  BY <2>1, <2>2, QuietTakesNothing
<1>4. ASSUME NEW c \in Callers, CommitTalk(c)
      PROVE  CustomersIInv' /\ NobodyTakes
  BY <1>4, CommitTalkKeeps, CommitTalkTakesNothing
<1>5. ASSUME NEW row \in CustomerIds \union {0}, NEW phone \in Phones,
             NEW name \in Names,
             SendForm(row, [phone |-> phone, name |-> name])
      PROVE  CustomersIInv' /\ NobodyTakes
  <2>1. [phone |-> phone, name |-> name] \in Forms  BY DEF Forms
  <2>2. UNCHANGED <<customer, job>>  BY <1>5 DEF SendForm, OnlyEdit
  <2> QED  BY <1>5, <2>1, <2>2, SendFormKeeps, QuietTakesNothing
<1>6. ASSUME NEW i \in CustomerIds, WriteForm(i)
      PROVE  CustomersIInv' /\ NobodyTakes
  BY <1>6, WriteFormKeeps, QuietTakesNothing DEF WriteForm, OnlyEdit
<1>7. CASE CommitForm  BY <1>7, CommitFormKeeps, CommitFormTakesNothing
<1>8. CASE LoseForm
  BY <1>8, LoseFormKeeps, QuietTakesNothing DEF LoseForm, OnlyEdit
<1>9. CASE UNCHANGED customersVars
  <2>1. UNCHANGED <<customer, job, sync, edit, synced>>  BY <1>9 DEF customersVars
  <2>2. edit' \in Edits  BY <2>1 DEF CustomersIInv, CustomersShape
  <2>3. GoodEdit'  BY <2>1 DEF CustomersIInv, GoodEdit, NewKey, Stored
  <2>4. \A c \in Callers : Apart(c, sync[c])'
    BY <2>1, SyncKnown DEF GoodSync, Apart, NewKey
  <2> QED  BY <2>1, <2>2, <2>3, <2>4, EditMoves, QuietTakesNothing
<1> QED
  BY <1>1, <1>2, <1>3, <1>4, <1>5, <1>6, <1>7, <1>8, <1>9 DEF CustomersNext

\* Every reachable state of the syncs, the forms and the table satisfies CustomersIInv.
THEOREM CustomersInductive == CustomersSpec => []CustomersIInv
<1>1. CustomersInit => CustomersIInv
  BY CustomersInitHolds
<1>2. CustomersIInv /\ [CustomersNext]_customersVars => CustomersIInv'
  BY CustomersStep
<1> QED
  BY <1>1, <1>2, PTL DEF CustomersSpec

\* Calls of one number, and staff, may create and change customers at once: no two
\* customers have one stored number, and once a sync has ended well the work of its call
\* has a customer, whoever created it (sync_customer_from_outcome).
THEOREM CustomersAreSound == CustomersSpec => []CustomersInv
<1>1. CustomersIInv => CustomersInv  BY CustomersInvFollows
<1> QED  BY <1>1, CustomersInductive, PTL

\* A turn that commits changes a name only where there was none, or where staff or
\* another call saved the customer after the turn had read it, whose name it then
\* overwrites: a name that was there to be read stays (_backfill_contact_details).
THEOREM StaffWin == CustomersSpec => CorrectionsWin
<1>1. CustomersIInv /\ [CustomersNext]_customersVars
        => [\A c \in Callers, i \in CustomerIds :
              Speaking(c) /\ i \in Stored /\ customer'[i] # customer[i] =>
                \/ customer[i].name = "blank"
                \/ sync[c].edited]_customersVars
  BY CustomersStep DEF NobodyTakes, NameTaken
<1> QED  BY <1>1, CustomersInductive, PTL DEF CustomersSpec, CorrectionsWin

\* A ticket or an appointment keeps the customer it was first linked to, whatever number
\* later turns state (_link_existing_activity).
THEOREM WorkKeepsItsCustomer == CustomersSpec => LinksStay
<1>1. CustomersIInv /\ [CustomersNext]_customersVars
        => [\A c \in Callers : job[c].customer # 0 => job'[c].customer = job[c].customer
           ]_customersVars
  BY CustomersStep DEF NobodyTakes, LinkTaken
<1> QED  BY <1>1, CustomersInductive, PTL DEF CustomersSpec, LinksStay

-----------------------------------------------------------------------------
(* What a call leaves of what its caller said.                             *)

TicketRows == [open : BOOLEAN, detail : Details \union {Blank}, phone : KeptPhones]
VisitRows ==
  [open : BOOLEAN, detail : Details \union {Blank}, phone : KeptPhones,
   chosen : BOOLEAN, booked : BOOLEAN]
OutcomeRows ==
  [class : {"none", "emergency", "other"}, action : {"none", "ticket", "book"},
   detail : Details \union {Blank}, phone : KeptPhones]
IntakeTurns ==
  [at : {"none", "tools", "ticket", "visit", "done"}, tools : Nat,
   outcome : OutcomeRows, ticket : TicketRows, visit : VisitRows,
   followUp : BOOLEAN, began : BOOLEAN, books : BOOLEAN]

IntakeShape ==
  /\ callerId \in {OwnPhone, Blank}
  /\ outcomeRow \in OutcomeRows /\ ticketRow \in TicketRows /\ visitRow \in VisitRows
  /\ followUp \in BOOLEAN
  /\ turn \in IntakeTurns
  /\ turns \in 0..MaxTurns /\ faults \in 0..MaxFaults

\* The new row has all that the old one has.
Keeps(old, new) ==
  /\ old.open => new.open
  /\ old.detail # Blank => new.detail # Blank
  /\ old.phone # Blank => new.phone # Blank

BookedIsOpen == \A row \in {visitRow, turn.visit} : row.booked => row.open

\* What the turn would write has all that is committed; a ticket that is not open
\* has nothing.
TurnKeeps ==
  /\ turn.ticket.open => Keeps(ticketRow, turn.ticket)
  /\ turn.at # "none" => Keeps(visitRow, turn.visit)
  /\ ~ticketRow.open => ticketRow = NoTicket

HasNumber(row) == row.open /\ callerId = OwnPhone => row.phone # Blank
Numbered == HasNumber(ticketRow) /\ HasNumber(turn.ticket)

\* A ticket that was there when the turn began is still there, committed.
BeganTicketed == turn.began => ticketRow.open

IntakeIInv ==
  /\ IntakeShape /\ BookedIsOpen /\ TurnKeeps /\ Numbered /\ BeganTicketed
  /\ EmergencyNotBooked /\ VisitUpToDate

LEMMA IntakeConstants ==
  /\ Blank \notin Details /\ Blank \notin PhonesSaid /\ OwnPhone # Blank
  /\ MaxTurns \in Nat /\ MaxTools \in Nat /\ MaxFaults \in Nat
BY IntakeAssumption

LEMMA IntakeInvFollows ==
  ASSUME IntakeIInv
  PROVE  IntakeInv
<1> USE DEF IntakeIInv
<1>1. IntakeTypeOK
  BY DEF IntakeTypeOK, IntakeShape, IntakeTurns, OutcomeRows, TicketRows, VisitRows,
         Contacts, BookedIsOpen
<1>2. CallbackKnown  BY DEF CallbackKnown, Numbered, HasNumber
<1> QED  BY <1>1, <1>2 DEF IntakeInv

LEMMA KeepsIsTransitive ==
  ASSUME NEW a, NEW b, NEW c, Keeps(a, b), Keeps(b, c)
  PROVE  Keeps(a, c)
BY DEF Keeps

LEMMA StorableIsKept ==
  ASSUME NEW said
  PROVE  Storable(said) \in KeptPhones
BY DEF Storable, KeptPhones

-----------------------------------------------------------------------------
(* What is known replaces what there is, and nothing else does.            *)

LEMMA BackfillKeepsTicket ==
  ASSUME NEW row \in TicketRows, NEW detail \in Details \union {Blank},
         NEW phone \in KeptPhones
  PROVE  LET r == Backfill([row EXCEPT !.open = TRUE], detail, phone)
         IN  /\ r \in TicketRows /\ Keeps(row, r) /\ r.open
             /\ phone # Blank => r.phone # Blank
BY DEF Backfill, TicketRows, Keeps, Or

LEMMA BackfillKeepsVisit ==
  ASSUME NEW row \in VisitRows, NEW detail \in Details \union {Blank},
         NEW phone \in KeptPhones
  PROVE  LET r == Backfill([row EXCEPT !.open = TRUE], detail, phone)
         IN  /\ r \in VisitRows /\ Keeps(row, r) /\ r.open
             /\ detail \in {Blank, r.detail} /\ phone \in {Blank, r.phone}
             /\ r.booked = row.booked
BY DEF Backfill, VisitRows, Keeps, Or

LEMMA SyncedTicketKeeps ==
  ASSUME IntakeIInv, NEW o \in OutcomeRows, NEW row \in TicketRows, HasNumber(row)
  PROVE  /\ SyncedTicket(o, row) \in TicketRows
         /\ Keeps(row, SyncedTicket(o, row))
         /\ HasNumber(SyncedTicket(o, row))
<1>1. CASE o.class # "emergency" \/ o.action # "ticket"
  BY <1>1 DEF SyncedTicket, Keeps
<1>2. CASE ~(o.class # "emergency" \/ o.action # "ticket")
  <2> DEFINE p == Callback(row, o.phone)
             r == Backfill([row EXCEPT !.open = TRUE], o.detail, p)
  <2>1. SyncedTicket(o, row) = r  BY <1>2 DEF SyncedTicket
  <2>2. o.detail \in Details \union {Blank} /\ o.phone \in KeptPhones  BY DEF OutcomeRows
  <2>3. callerId \in {OwnPhone, Blank}  BY DEF IntakeIInv, IntakeShape
  <2>4. p \in KeptPhones  BY <2>2, <2>3 DEF Callback, KeptPhones
  <2>5. /\ r \in TicketRows /\ Keeps(row, r) /\ r.open
        /\ p # Blank => r.phone # Blank
    BY <2>2, <2>4, BackfillKeepsTicket
  <2>6. callerId = OwnPhone => p # Blank \/ row.phone # Blank
    BY IntakeConstants DEF Callback
  <2>7. callerId = OwnPhone => r.phone # Blank  BY <2>5, <2>6 DEF Keeps
  <2> HIDE DEF r
  <2> QED  BY <2>1, <2>5, <2>7 DEF HasNumber
<1> QED  BY <1>1, <1>2

LEMMA SyncedVisitKeeps ==
  ASSUME NEW o \in OutcomeRows, NEW row \in VisitRows, row.booked => row.open
  PROVE  LET r == SyncedVisit(o, row)
         IN  /\ r \in VisitRows /\ Keeps(row, r) /\ (r.booked => r.open)
             /\ r.open => o.detail \in {Blank, r.detail} /\ o.phone \in {Blank, r.phone}
<1>1. o.detail \in Details \union {Blank} /\ o.phone \in KeptPhones  BY DEF OutcomeRows
<1>2. CASE ~row.open /\ o.action # "book"  BY <1>2 DEF SyncedVisit, Keeps
<1>3. CASE ~(~row.open /\ o.action # "book")
  <2>1. SyncedVisit(o, row) = Backfill([row EXCEPT !.open = TRUE], o.detail, o.phone)
    BY <1>3 DEF SyncedVisit
  <2> QED  BY <2>1, <1>1, BackfillKeepsVisit
<1> QED  BY <1>2, <1>3

LEMMA SeenTicketKeeps ==
  ASSUME IntakeIInv
  PROVE  /\ SeenTicket \in TicketRows /\ HasNumber(SeenTicket)
         /\ Keeps(ticketRow, SeenTicket)
BY DEF IntakeIInv, IntakeShape, IntakeTurns, SeenTicket, Numbered, TurnKeeps, Keeps

-----------------------------------------------------------------------------
(* A turn that is open.                                                    *)

\* A turn as one may be, over the rows that are committed.
GoodTurn(t) ==
  /\ t \in IntakeTurns
  /\ t.visit.booked => t.visit.open
  /\ t.ticket.open => Keeps(ticketRow, t.ticket)
  /\ HasNumber(t.ticket)
  /\ t.at # "none" => Keeps(visitRow, t.visit)
  /\ t.began => ticketRow.open
  /\ t.books => ~t.began

\* A turn that ends as one with every sync run is up to date.
EndsUpToDate(t) ==
  t.at = "done" /\ t.visit.open =>
    /\ t.outcome.detail \in {Blank, t.visit.detail}
    /\ t.outcome.phone \in {Blank, t.visit.phone}

LEMMA TurnIsGood ==
  ASSUME IntakeIInv
  PROVE  GoodTurn(turn)
BY DEF IntakeIInv, GoodTurn, IntakeShape, BookedIsOpen, TurnKeeps, Numbered,
       BeganTicketed, EmergencyNotBooked

LEMMA TurnMoves ==
  ASSUME IntakeIInv, UNCHANGED <<callerId, committed>>,
         turns' \in 0..MaxTurns, faults' \in 0..MaxFaults,
         NEW t, turn' = t, GoodTurn(t),
         faults' = 0 => EndsUpToDate(t)
  PROVE  IntakeIInv'
<1>1. ticketRow' = ticketRow /\ visitRow' = visitRow /\ callerId' = callerId
  BY DEF committed
<1>2. IntakeShape'  BY <1>1 DEF IntakeIInv, IntakeShape, GoodTurn, committed
<1>3. BookedIsOpen'  BY <1>1 DEF IntakeIInv, BookedIsOpen, GoodTurn
<1>4. TurnKeeps'  BY <1>1 DEF IntakeIInv, TurnKeeps, GoodTurn, NoTicket
<1>5. Numbered'  BY <1>1 DEF IntakeIInv, Numbered, HasNumber, GoodTurn
<1>6. BeganTicketed' /\ EmergencyNotBooked'
  BY <1>1 DEF BeganTicketed, EmergencyNotBooked, GoodTurn
<1>7. VisitUpToDate'  BY DEF VisitUpToDate, EndsUpToDate
<1> QED  BY <1>2, <1>3, <1>4, <1>5, <1>6, <1>7 DEF IntakeIInv

LEMMA NoTurnIsGood ==
  ASSUME IntakeIInv
  PROVE  GoodTurn(NoIntake) /\ NoIntake.at = "none"
<1>1. NoIntake \in IntakeTurns
  BY DEF NoIntake, NoOutcome, NoTicket, NoVisit, IntakeTurns, OutcomeRows, TicketRows,
         VisitRows, KeptPhones
<1> QED  BY <1>1 DEF GoodTurn, NoIntake, NoTicket, NoVisit, HasNumber

\* A turn sees the rows as they are when it begins.
LEMMA BeginIntakeKeeps ==
  ASSUME IntakeIInv, BeginIntake
  PROVE  IntakeIInv'
<1>1. PICK t : t = [NoIntake EXCEPT !.at = "tools", !.outcome = outcomeRow,
                      !.visit = visitRow, !.followUp = followUp, !.began = ticketRow.open]
  OBVIOUS
<1>2. turn' = t /\ UNCHANGED <<callerId, committed, faults>> /\ turns' \in 0..MaxTurns
  BY <1>1, IntakeConstants DEF BeginIntake, IntakeIInv, IntakeShape
<1>3. outcomeRow \in OutcomeRows /\ visitRow \in VisitRows /\ followUp \in BOOLEAN
        /\ ticketRow.open \in BOOLEAN /\ (visitRow.booked => visitRow.open)
  BY DEF IntakeIInv, IntakeShape, BookedIsOpen, TicketRows
<1>4. /\ t \in IntakeTurns /\ t.at = "tools" /\ t.visit = visitRow /\ ~t.ticket.open
      /\ t.began = ticketRow.open /\ ~t.books
  BY <1>1, <1>3, NoTurnIsGood DEF IntakeTurns, NoIntake, NoTicket, GoodTurn
<1>5. GoodTurn(t)  BY <1>3, <1>4 DEF GoodTurn, HasNumber, Keeps
<1> QED  BY <1>2, <1>4, <1>5, TurnMoves DEF EndsUpToDate, IntakeIInv, IntakeShape

-----------------------------------------------------------------------------
(* The tools.                                                              *)

LEMMA ToolMoves ==
  ASSUME IntakeIInv, NEW next, Tool(next), GoodTurn(next), next.at = "tools"
  PROVE  IntakeIInv'
<1>1. PICK t : t = [next EXCEPT !.tools = @ + 1]  OBVIOUS
<1>2. turn' = t /\ UNCHANGED <<callerId, committed, turns, faults>>
  BY <1>1 DEF Tool
<1>3. next \in IntakeTurns  BY DEF GoodTurn
<1>4. /\ t \in IntakeTurns /\ t.at = next.at /\ t.visit = next.visit
      /\ t.ticket = next.ticket /\ t.began = next.began /\ t.books = next.books
  BY <1>1, <1>3 DEF IntakeTurns
<1>5. GoodTurn(t)  BY <1>4 DEF GoodTurn
<1> QED  BY <1>2, <1>4, <1>5, TurnMoves DEF EndsUpToDate, IntakeIInv, IntakeShape

LEMMA CreateServiceRequestKeeps ==
  ASSUME IntakeIInv, NEW class \in {"emergency", "other"},
         NEW detail \in Details \union {Blank}, NEW said,
         CreateServiceRequest(class, detail, said)
  PROVE  IntakeIInv'
<1> DEFINE phone == Or(Storable(said), Or(turn.outcome.phone, callerId))
           known == Or(detail, turn.outcome.detail)
<1>1. PICK o : o = [class |-> class, detail |-> known, phone |-> phone,
                    action |-> IF class = "emergency" THEN "ticket" ELSE "book"]
  OBVIOUS
<1>2. PICK ticket : ticket = SyncedTicket(o, SeenTicket)  OBVIOUS
<1>3. PICK visit : visit = SyncedVisit(o, turn.visit)  OBVIOUS
<1>4. PICK next : next = [turn EXCEPT !.outcome = o, !.ticket = ticket, !.visit = visit]
  OBVIOUS
<1>5. Tool(next)
  BY <1>1, <1>2, <1>3, <1>4 DEF CreateServiceRequest
<1>6. turn \in IntakeTurns /\ turn.outcome \in OutcomeRows /\ turn.visit \in VisitRows
        /\ callerId \in KeptPhones /\ turn.at = "tools" /\ (turn.visit.booked => turn.visit.open)
  BY <1>5 DEF Tool, IntakeIInv, IntakeShape, IntakeTurns, KeptPhones, BookedIsOpen
<1>7. phone \in KeptPhones /\ known \in Details \union {Blank}
  BY <1>6, StorableIsKept DEF Or, OutcomeRows
<1>8. o \in OutcomeRows
  <2> HIDE DEF phone, known
  <2> QED  BY <1>1, <1>7 DEF OutcomeRows
<1>9. ticket \in TicketRows /\ Keeps(SeenTicket, ticket) /\ HasNumber(ticket)
  BY <1>2, <1>8, SeenTicketKeeps, SyncedTicketKeeps
<1>10. visit \in VisitRows /\ Keeps(turn.visit, visit) /\ (visit.booked => visit.open)
  BY <1>3, <1>6, <1>8, SyncedVisitKeeps
<1>11. /\ next \in IntakeTurns /\ next.at = "tools" /\ next.ticket = ticket
       /\ next.visit = visit /\ next.began = turn.began /\ next.books = turn.books
  BY <1>4, <1>6, <1>8, <1>9, <1>10 DEF IntakeTurns
<1>12. Keeps(ticketRow, ticket)  BY <1>9, SeenTicketKeeps, KeepsIsTransitive
<1>13. Keeps(visitRow, visit)
  BY <1>6, <1>10, KeepsIsTransitive DEF IntakeIInv, TurnKeeps
<1>14. GoodTurn(next)
  BY <1>9, <1>10, <1>11, <1>12, <1>13, TurnIsGood DEF GoodTurn
<1> QED  BY <1>5, <1>11, <1>14, ToolMoves

\* What the tools that choose and book change of the turn.
LEMMA VisitToolMoves ==
  ASSUME IntakeIInv, NEW chosen \in BOOLEAN, NEW booked \in BOOLEAN, NEW books \in BOOLEAN,
         booked => turn.visit.open, books => ~turn.began,
         NEW visit, visit = [turn.visit EXCEPT !.chosen = chosen, !.booked = booked],
         Tool([turn EXCEPT !.visit = visit, !.books = books])
  PROVE  IntakeIInv'
<1>1. PICK next : next = [turn EXCEPT !.visit = visit, !.books = books]  OBVIOUS
<1>2. turn \in IntakeTurns /\ turn.visit \in VisitRows
  BY DEF IntakeIInv, IntakeShape, IntakeTurns
<1>3. /\ visit \in VisitRows /\ visit.open = turn.visit.open /\ visit.booked = booked
      /\ visit.detail = turn.visit.detail /\ visit.phone = turn.visit.phone
  BY <1>2 DEF VisitRows
<1>4. Tool(next) /\ turn.at = "tools"  BY <1>1 DEF Tool
<1>5. /\ next \in IntakeTurns /\ next.at = "tools" /\ next.ticket = turn.ticket
      /\ next.visit = visit /\ next.began = turn.began /\ next.books = books
  BY <1>1, <1>2, <1>3, <1>4 DEF IntakeTurns
<1>6. Keeps(visitRow, visit)
  BY <1>3, <1>4 DEF IntakeIInv, TurnKeeps, Keeps
<1>7. GoodTurn(next)  BY <1>3, <1>5, <1>6, TurnIsGood DEF GoodTurn
<1> QED  BY <1>4, <1>5, <1>7, ToolMoves

LEMMA SelectSlotKeeps ==
  ASSUME IntakeIInv, SelectSlot
  PROVE  IntakeIInv'
<1>1. PICK visit : visit = [turn.visit EXCEPT !.chosen = TRUE]  OBVIOUS
<1>2. turn \in IntakeTurns /\ turn.visit \in VisitRows
  BY DEF IntakeIInv, IntakeShape, IntakeTurns
<1>3. visit = [turn.visit EXCEPT !.chosen = TRUE, !.booked = turn.visit.booked]
  BY <1>1, <1>2 DEF VisitRows
<1>4. [turn EXCEPT !.visit.chosen = TRUE] = [turn EXCEPT !.visit = visit, !.books = turn.books]
  BY <1>1, <1>2 DEF IntakeTurns
<1>5. Tool([turn EXCEPT !.visit = visit, !.books = turn.books])
  BY <1>4 DEF SelectSlot
<1>6. turn.visit.booked \in BOOLEAN /\ turn.books \in BOOLEAN
        /\ (turn.visit.booked => turn.visit.open) /\ (turn.books => ~turn.began)
  BY <1>2, TurnIsGood DEF VisitRows, IntakeTurns, GoodTurn
<1> QED  BY <1>3, <1>5, <1>6, VisitToolMoves

\* No time is booked in a turn that began with a ticket: it is still there.
LEMMA BookAppointmentKeeps ==
  ASSUME IntakeIInv, BookAppointment
  PROVE  IntakeIInv'
<1>1. PICK visit : visit = [turn.visit EXCEPT !.booked = TRUE]  OBVIOUS
<1>2. turn \in IntakeTurns /\ turn.visit \in VisitRows
  BY DEF IntakeIInv, IntakeShape, IntakeTurns
<1>3. visit = [turn.visit EXCEPT !.chosen = turn.visit.chosen, !.booked = TRUE]
  BY <1>1, <1>2 DEF VisitRows
<1>4. [turn EXCEPT !.visit.booked = TRUE, !.books = TRUE]
        = [turn EXCEPT !.visit = visit, !.books = TRUE]
  BY <1>1, <1>2 DEF IntakeTurns
<1>5. Tool([turn EXCEPT !.visit = visit, !.books = TRUE])
  BY <1>4 DEF BookAppointment
<1>6. turn.visit.open /\ turn.visit.chosen \in BOOLEAN
  BY <1>2 DEF BookAppointment, VisitRows
<1>7. ~turn.began
  <2>1. ~SeenTicket.open  BY DEF BookAppointment
  <2>2. ~ticketRow.open  BY <2>1, SeenTicketKeeps DEF Keeps
  <2> QED  BY <2>2 DEF IntakeIInv, BeganTicketed
<1> QED  BY <1>3, <1>5, <1>6, <1>7, VisitToolMoves

-----------------------------------------------------------------------------
(* The reply, and the syncs.                                               *)

LEMMA PersistTurnKeeps ==
  ASSUME IntakeIInv, NEW class \in {"emergency", "other"},
         NEW action \in {"ticket", "book", "none"},
         NEW detail \in Details \union {Blank}, NEW said,
         PersistTurn(class, action, detail, said)
  PROVE  IntakeIInv'
<1> DEFINE phone == Or(Storable(said), turn.outcome.phone)
<1>1. PICK o : o = [class |-> class, action |-> action, detail |-> detail, phone |-> phone]
  OBVIOUS
<1>2. PICK t : t = [turn EXCEPT !.at = "ticket", !.outcome = o]  OBVIOUS
<1>3. turn' = t /\ UNCHANGED <<callerId, committed, turns, faults>> /\ turn.at = "tools"
  BY <1>1, <1>2 DEF PersistTurn
<1>4. turn \in IntakeTurns /\ turn.outcome \in OutcomeRows
  BY DEF IntakeIInv, IntakeShape, IntakeTurns
<1>5. phone \in KeptPhones  BY <1>4, StorableIsKept DEF Or, OutcomeRows
<1>6. o \in OutcomeRows
  <2> HIDE DEF phone
  <2> QED  BY <1>1, <1>5 DEF OutcomeRows
<1>7. /\ t \in IntakeTurns /\ t.at = "ticket" /\ t.ticket = turn.ticket
      /\ t.visit = turn.visit /\ t.began = turn.began /\ t.books = turn.books
  BY <1>2, <1>4, <1>6 DEF IntakeTurns
<1>8. GoodTurn(t)  BY <1>3, <1>7, TurnIsGood DEF GoodTurn
<1> QED  BY <1>3, <1>7, <1>8, TurnMoves DEF EndsUpToDate, IntakeIInv, IntakeShape

LEMMA SyncTicketKeeps ==
  ASSUME IntakeIInv, SyncTicket
  PROVE  IntakeIInv'
<1>1. PICK ticket : ticket = SyncedTicket(turn.outcome, SeenTicket)  OBVIOUS
<1>2. PICK t : t = [turn EXCEPT !.at = "visit", !.ticket = ticket]  OBVIOUS
<1>3. turn' = t /\ UNCHANGED <<callerId, committed, turns, faults>> /\ turn.at = "ticket"
  BY <1>1, <1>2 DEF SyncTicket
<1>4. turn \in IntakeTurns /\ turn.outcome \in OutcomeRows
  BY DEF IntakeIInv, IntakeShape, IntakeTurns
<1>5. ticket \in TicketRows /\ Keeps(SeenTicket, ticket) /\ HasNumber(ticket)
  BY <1>1, <1>4, SeenTicketKeeps, SyncedTicketKeeps
<1>6. /\ t \in IntakeTurns /\ t.at = "visit" /\ t.ticket = ticket
      /\ t.visit = turn.visit /\ t.began = turn.began /\ t.books = turn.books
  BY <1>2, <1>4, <1>5 DEF IntakeTurns
<1>7. Keeps(ticketRow, ticket)  BY <1>5, SeenTicketKeeps, KeepsIsTransitive
<1>8. GoodTurn(t)  BY <1>3, <1>5, <1>6, <1>7, TurnIsGood DEF GoodTurn
<1> QED  BY <1>3, <1>6, <1>8, TurnMoves DEF EndsUpToDate, IntakeIInv, IntakeShape

LEMMA SyncVisitKeeps ==
  ASSUME IntakeIInv, SyncVisit
  PROVE  IntakeIInv'
<1>1. PICK visit : visit = SyncedVisit(turn.outcome, turn.visit)  OBVIOUS
<1>2. PICK t : t = [turn EXCEPT !.at = "done", !.visit = visit]  OBVIOUS
<1>3. turn' = t /\ UNCHANGED <<callerId, committed, turns, faults>> /\ turn.at = "visit"
  BY <1>1, <1>2 DEF SyncVisit
<1>4. /\ turn \in IntakeTurns /\ turn.outcome \in OutcomeRows /\ turn.visit \in VisitRows
      /\ turn.visit.booked => turn.visit.open
  BY DEF IntakeIInv, IntakeShape, IntakeTurns, BookedIsOpen
<1>5. /\ visit \in VisitRows /\ Keeps(turn.visit, visit) /\ (visit.booked => visit.open)
      /\ visit.open => /\ turn.outcome.detail \in {Blank, visit.detail}
                       /\ turn.outcome.phone \in {Blank, visit.phone}
  BY <1>1, <1>4, SyncedVisitKeeps
<1>6. /\ t \in IntakeTurns /\ t.at = "done" /\ t.ticket = turn.ticket
      /\ t.visit = visit /\ t.began = turn.began /\ t.books = turn.books
      /\ t.outcome = turn.outcome
  BY <1>2, <1>4, <1>5 DEF IntakeTurns
<1>7. Keeps(visitRow, visit)
  BY <1>3, <1>5, KeepsIsTransitive DEF IntakeIInv, TurnKeeps
<1>8. GoodTurn(t)  BY <1>5, <1>6, <1>7, TurnIsGood DEF GoodTurn
<1>9. EndsUpToDate(t)  BY <1>5, <1>6 DEF EndsUpToDate
<1> QED  BY <1>3, <1>8, <1>9, TurnMoves DEF IntakeIInv, IntakeShape

LEMMA FaultCounts ==
  ASSUME IntakeIInv, IntakeFault
  PROVE  faults' \in 0..MaxFaults /\ faults' # 0
BY IntakeConstants DEF IntakeFault, IntakeIInv, IntakeShape

LEMMA IntakeSyncFailsKeeps ==
  ASSUME IntakeIInv, IntakeSyncFails
  PROVE  IntakeIInv'
<1>1. PICK at \in {"visit", "done"} : turn' = [turn EXCEPT !.at = at]
  BY DEF IntakeSyncFails
<1>2. PICK t : t = [turn EXCEPT !.at = at]  OBVIOUS
<1>3. /\ turn' = t /\ UNCHANGED <<callerId, committed, turns>>
      /\ turn.at \in {"ticket", "visit"} /\ IntakeFault
  BY <1>1, <1>2 DEF IntakeSyncFails
<1>4. turn \in IntakeTurns  BY DEF IntakeIInv, IntakeShape
<1>5. /\ t \in IntakeTurns /\ t.at = at /\ t.ticket = turn.ticket
      /\ t.visit = turn.visit /\ t.began = turn.began /\ t.books = turn.books
  BY <1>2, <1>4 DEF IntakeTurns
<1>6. GoodTurn(t)  BY <1>3, <1>5, TurnIsGood DEF GoodTurn
<1> QED  BY <1>3, <1>6, FaultCounts, TurnMoves DEF IntakeIInv, IntakeShape

LEMMA RollBackIntakeKeeps ==
  ASSUME IntakeIInv, RollBackIntake
  PROVE  IntakeIInv'
<1>1. turn' = NoIntake /\ UNCHANGED <<callerId, committed, turns>> /\ IntakeFault
  BY DEF RollBackIntake
<1> QED  BY <1>1, NoTurnIsGood, FaultCounts, TurnMoves DEF IntakeIInv, IntakeShape

-----------------------------------------------------------------------------
(* The commits.                                                            *)

NothingLost == Keeps(ticketRow, ticketRow') /\ Keeps(visitRow, visitRow')

LEMMA CommitsKeeps ==
  ASSUME IntakeIInv, NEW t, GoodTurn(t), t.at # "none", Commits(t, "none"),
         faults' \in 0..MaxFaults
  PROVE  IntakeIInv' /\ NothingLost
<1>1. /\ outcomeRow' = t.outcome /\ visitRow' = t.visit /\ followUp' = t.followUp
      /\ ticketRow' = IF t.ticket.open THEN t.ticket ELSE ticketRow
      /\ UNCHANGED <<callerId, turns>>
  BY DEF Commits
<1>2. turn' = NoIntake
  BY DEF Commits, NoIntake
<1>3. t \in IntakeTurns /\ t.ticket \in TicketRows  BY DEF GoodTurn, IntakeTurns
<1>4. /\ ticketRow' \in TicketRows /\ Keeps(ticketRow, ticketRow')
      /\ ~ticketRow'.open => ticketRow' = NoTicket
      /\ ticketRow'.open /\ callerId = OwnPhone => ticketRow'.phone # Blank
  BY <1>1, <1>3
     DEF GoodTurn, IntakeIInv, IntakeShape, Keeps, TurnKeeps, Numbered, HasNumber
<1>5. Keeps(visitRow, visitRow')  BY <1>1 DEF GoodTurn
<1>6. IntakeShape'
  <2>1. NoIntake \in IntakeTurns  BY NoTurnIsGood DEF GoodTurn
  <2> QED  BY <1>1, <1>2, <1>3, <1>4, <2>1 DEF IntakeIInv, IntakeShape, IntakeTurns
<1>7. BookedIsOpen'  BY <1>1, <1>2 DEF BookedIsOpen, GoodTurn, NoIntake, NoVisit
<1>8. TurnKeeps'  BY <1>2, <1>4 DEF TurnKeeps, NoIntake, NoTicket
<1>9. Numbered'  BY <1>1, <1>2, <1>4 DEF Numbered, HasNumber, NoIntake, NoTicket
<1>10. BeganTicketed' /\ EmergencyNotBooked' /\ VisitUpToDate'
  BY <1>2 DEF BeganTicketed, EmergencyNotBooked, VisitUpToDate, NoIntake
<1> QED
  BY <1>4, <1>5, <1>6, <1>7, <1>8, <1>9, <1>10 DEF IntakeIInv, NothingLost

LEMMA CommitIntakeKeeps ==
  ASSUME IntakeIInv, CommitIntake
  PROVE  IntakeIInv' /\ NothingLost
<1>1. turn.at = "done" /\ Commits(turn, "none") /\ faults' = faults
  BY DEF CommitIntake
<1> QED  BY <1>1, TurnIsGood, CommitsKeeps DEF IntakeIInv, IntakeShape

\* The ticket of a call that has none has the number it comes from.
LEMMA UnconfirmedIsGood ==
  ASSUME IntakeIInv
  PROVE  /\ Unconfirmed \in TicketRows /\ Unconfirmed.open /\ HasNumber(Unconfirmed)
         /\ ~ticketRow.open => Keeps(ticketRow, Unconfirmed)
<1>1. callerId \in {OwnPhone, Blank} /\ (~ticketRow.open => ticketRow = NoTicket)
  BY DEF IntakeIInv, IntakeShape, TurnKeeps
<1>2. NoTicket \in TicketRows  BY DEF NoTicket, TicketRows, KeptPhones
<1>3. /\ Unconfirmed \in TicketRows /\ Unconfirmed.open /\ Unconfirmed.phone = callerId
  BY <1>1, <1>2 DEF Unconfirmed, TicketRows, KeptPhones
<1>4. HasNumber(Unconfirmed)  BY <1>3, IntakeConstants DEF HasNumber
<1>5. ~ticketRow.open => Keeps(ticketRow, Unconfirmed)
  BY <1>1 DEF NoTicket, Keeps
<1> QED  BY <1>3, <1>4, <1>5

LEMMA OutageTurnKeeps ==
  ASSUME IntakeIInv, OutageTurn
  PROVE  IntakeIInv' /\ NothingLost
<1>1. turn.at = "tools" /\ faults' \in 0..MaxFaults
  BY FaultCounts DEF OutageTurn
<1>2. turn \in IntakeTurns  BY DEF IntakeIInv, IntakeShape
<1>3. CASE Commits(turn, "none")
  BY <1>1, <1>3, TurnIsGood, CommitsKeeps
<1>4. CASE Commits([turn EXCEPT !.followUp = TRUE], "none")
  <2>1. PICK t : t = [turn EXCEPT !.followUp = TRUE]  OBVIOUS
  <2>2. /\ t \in IntakeTurns /\ t.at = turn.at /\ t.ticket = turn.ticket
        /\ t.visit = turn.visit /\ t.began = turn.began /\ t.books = turn.books
    BY <1>2, <2>1 DEF IntakeTurns
  <2>3. GoodTurn(t)  BY <2>2, TurnIsGood DEF GoodTurn
  <2> QED  BY <1>1, <1>4, <2>1, <2>2, <2>3, CommitsKeeps
<1>5. CASE Commits([turn EXCEPT !.followUp = TRUE,
                      !.ticket = IF SeenTicket.open THEN SeenTicket ELSE Unconfirmed],
                   "none")
  <2>1. PICK ticket : ticket = IF SeenTicket.open THEN SeenTicket ELSE Unconfirmed
    OBVIOUS
  <2>2. PICK t : t = [turn EXCEPT !.followUp = TRUE, !.ticket = ticket]  OBVIOUS
  <2>3. ticket \in TicketRows /\ HasNumber(ticket) /\ Keeps(ticketRow, ticket)
    BY <2>1, SeenTicketKeeps, UnconfirmedIsGood DEF SeenTicket, Keeps
  <2>4. /\ t \in IntakeTurns /\ t.at = turn.at /\ t.ticket = ticket
        /\ t.visit = turn.visit /\ t.began = turn.began /\ t.books = turn.books
    BY <1>2, <2>2, <2>3 DEF IntakeTurns
  <2>5. GoodTurn(t)  BY <2>3, <2>4, TurnIsGood DEF GoodTurn
  <2> QED  BY <1>1, <1>5, <2>1, <2>2, <2>4, <2>5, CommitsKeeps
<1> QED  BY <1>3, <1>4, <1>5 DEF OutageTurn

LEMMA ReportOpensTicketKeeps ==
  ASSUME IntakeIInv, ReportOpensTicket
  PROVE  IntakeIInv' /\ NothingLost
<1>1. /\ ticketRow' = Unconfirmed /\ followUp' = TRUE
      /\ ~ticketRow.open /\ ~turn.ticket.open
      /\ UNCHANGED <<callerId, outcomeRow, visitRow, turn, turns, faults>>
  BY DEF ReportOpensTicket
<1>2. /\ Unconfirmed \in TicketRows /\ Unconfirmed.open /\ HasNumber(Unconfirmed)
      /\ Keeps(ticketRow, Unconfirmed)
  BY <1>1, UnconfirmedIsGood
<1>3. IntakeShape'  BY <1>1, <1>2 DEF IntakeIInv, IntakeShape
<1>4. BookedIsOpen' /\ TurnKeeps' /\ BeganTicketed'
  BY <1>1, <1>2 DEF IntakeIInv, BookedIsOpen, TurnKeeps, BeganTicketed
<1>5. Numbered'  BY <1>1, <1>2 DEF IntakeIInv, Numbered, HasNumber
<1>6. EmergencyNotBooked' /\ VisitUpToDate'
  BY <1>1 DEF IntakeIInv, EmergencyNotBooked, VisitUpToDate
<1>7. NothingLost  BY <1>1, <1>2 DEF NothingLost, Keeps
<1> QED  BY <1>3, <1>4, <1>5, <1>6, <1>7 DEF IntakeIInv

-----------------------------------------------------------------------------
(* The intake of a call.                                                   *)

LEMMA IntakeInitHolds ==
  ASSUME IntakeInit
  PROVE  IntakeIInv
<1> USE IntakeConstants DEF IntakeInit
<1>1. NoIntake \in IntakeTurns
  BY DEF NoIntake, NoOutcome, NoTicket, NoVisit, IntakeTurns, OutcomeRows, TicketRows,
         VisitRows, KeptPhones
<1>2. IntakeShape
  <2>1. NoOutcome \in OutcomeRows  BY DEF NoOutcome, OutcomeRows, KeptPhones
  <2>2. NoTicket \in TicketRows  BY DEF NoTicket, TicketRows, KeptPhones
  <2>3. NoVisit \in VisitRows  BY DEF NoVisit, VisitRows, KeptPhones
  <2>4. turns \in 0..MaxTurns /\ faults \in 0..MaxFaults  OBVIOUS
  <2>5. callerId \in {OwnPhone, Blank} /\ followUp \in BOOLEAN /\ turn \in IntakeTurns
    BY <1>1
  <2> QED  BY <2>1, <2>2, <2>3, <2>4, <2>5 DEF IntakeShape
<1>3. /\ BookedIsOpen /\ TurnKeeps /\ Numbered /\ BeganTicketed
      /\ EmergencyNotBooked /\ VisitUpToDate
  BY DEF BookedIsOpen, TurnKeeps, Numbered, HasNumber, BeganTicketed,
         EmergencyNotBooked, VisitUpToDate, NoIntake, NoTicket, NoVisit
<1> QED  BY <1>2, <1>3 DEF IntakeIInv

LEMMA UncommittedLosesNothing ==
  ASSUME UNCHANGED committed
  PROVE  NothingLost
BY DEF committed, NothingLost, Keeps

LEMMA IntakeStep ==
  ASSUME IntakeIInv, [IntakeNext]_intakeVars
  PROVE  IntakeIInv' /\ NothingLost
<1>1. CASE BeginIntake
  BY <1>1, BeginIntakeKeeps, UncommittedLosesNothing DEF BeginIntake
<1>2. ASSUME NEW detail \in Details \union {Blank},
             NEW said \in PhonesSaid \union {Garbled, Blank},
             NEW class \in {"emergency", "other"},
             CreateServiceRequest(class, detail, said)
      PROVE  IntakeIInv' /\ NothingLost
  BY <1>2, CreateServiceRequestKeeps, UncommittedLosesNothing
     DEF CreateServiceRequest, Tool
<1>3. ASSUME NEW detail \in Details \union {Blank},
             NEW said \in PhonesSaid \union {Garbled, Blank},
             NEW class \in {"emergency", "other"},
             NEW action \in {"ticket", "book", "none"},
             PersistTurn(class, action, detail, said)
      PROVE  IntakeIInv' /\ NothingLost
  BY <1>3, PersistTurnKeeps, UncommittedLosesNothing DEF PersistTurn
<1>4. CASE SelectSlot
  BY <1>4, SelectSlotKeeps, UncommittedLosesNothing DEF SelectSlot, Tool
<1>5. CASE BookAppointment
  BY <1>5, BookAppointmentKeeps, UncommittedLosesNothing DEF BookAppointment, Tool
<1>6. CASE SyncTicket
  BY <1>6, SyncTicketKeeps, UncommittedLosesNothing DEF SyncTicket
<1>7. CASE SyncVisit
  BY <1>7, SyncVisitKeeps, UncommittedLosesNothing DEF SyncVisit
<1>8. CASE IntakeSyncFails
  BY <1>8, IntakeSyncFailsKeeps, UncommittedLosesNothing DEF IntakeSyncFails
<1>9. CASE CommitIntake  BY <1>9, CommitIntakeKeeps
<1>10. CASE OutageTurn  BY <1>10, OutageTurnKeeps
<1>11. CASE RollBackIntake
  BY <1>11, RollBackIntakeKeeps, UncommittedLosesNothing DEF RollBackIntake
<1>12. CASE ReportOpensTicket  BY <1>12, ReportOpensTicketKeeps
<1>13. CASE UNCHANGED intakeVars
  <2>1. UNCHANGED <<callerId, committed, turns, faults, turn>>
    BY <1>13 DEF intakeVars, committed
  <2> QED
    BY <2>1, UncommittedLosesNothing, TurnMoves, TurnIsGood
       DEF EndsUpToDate, IntakeIInv, IntakeShape, VisitUpToDate
<1> QED
  BY <1>1, <1>2, <1>3, <1>4, <1>5, <1>6, <1>7, <1>8, <1>9, <1>10, <1>11, <1>12, <1>13
     DEF IntakeNext

\* Every reachable state of a call's turns and rows satisfies IntakeIInv.
THEOREM IntakeInductive == IntakeSpec => []IntakeIInv
<1>1. IntakeInit => IntakeIInv
  BY IntakeInitHolds
<1>2. IntakeIInv /\ [IntakeNext]_intakeVars => IntakeIInv'
  BY IntakeStep
<1> QED
  BY <1>1, <1>2, PTL DEF IntakeSpec

\* Whatever tools run, replies, syncs and commits fail or a report comes between, a
\* ticket has a number to call back if the call had one, no call with a ticket is
\* booked, and a turn whose syncs ran leaves the appointment with what the call knows
\* (TicketService, AppointmentService.sync_appointment_from_outcome, VoiceToolExecutor).
THEOREM IntakeIsSafe == IntakeSpec => []IntakeInv
<1>1. IntakeIInv => IntakeInv  BY IntakeInvFollows
<1> QED  BY <1>1, IntakeInductive, PTL

\* No turn, and no report, blanks a name, an address or a number that is on a ticket or
\* an appointment, whatever the caller leaves out or garbles (_backfill_contact_details).
THEOREM IntakeBlanksNothing == IntakeSpec => NothingBlanked
<1>1. IntakeIInv /\ [IntakeNext]_intakeVars
        => [\A rows \in {<<ticketRow, ticketRow'>>, <<visitRow, visitRow'>>} :
              /\ rows[1].open => rows[2].open
              /\ rows[1].detail # Blank => rows[2].detail # Blank
              /\ rows[1].phone # Blank => rows[2].phone # Blank]_intakeVars
  BY IntakeStep DEF NothingLost, Keeps
<1> QED  BY <1>1, IntakeInductive, PTL DEF IntakeSpec, NothingBlanked
=============================================================================
