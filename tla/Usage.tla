------------------------------- MODULE Usage -------------------------------
(***************************************************************************)
(* What one phone call is billed as.  The provider reports the end of a    *)
(* call once or several times, at once or months apart, with more or less  *)
(* in it.  Each delivery is a transaction of its own, which looks for the  *)
(* record under a lock, inserts it unless another delivery has, or merges  *)
(* into it what it carries and decides again.                              *)
(***************************************************************************)
EXTENDS Naturals, Sequences

CONSTANTS
  Deliveries,   \* deliveries that may be under way at once
  Reports,      \* what a report of the call may carry
  Missing,      \* a value a report lacks
  Orgs, NoOrg,  \* organizations, and none
  PerMonth,     \* units of time in a month
  PerMinute,    \* units of time in a minute
  Minimum,      \* MINIMUM_BILLABLE_SECONDS
  MaxClock,     \* bound: the clock
  MaxReports,   \* bound: deliveries of the report
  MaxRoutings   \* bound: voice lines mapped

Fields == {"assistant", "phone", "started", "ended", "duration", "fault"}

Facts ==
  [assistant : {"id", Missing}, phone : {"id", Missing},
   started : Nat \union {Missing}, ended : Nat \union {Missing},
   duration : Nat \union {Missing}, fault : BOOLEAN \union {Missing}]

ASSUME UsageAssumption ==
  /\ NoOrg \notin Orgs
  /\ Missing \notin Nat \union BOOLEAN \union {"id"}
  /\ Reports \subseteq Facts
  /\ {PerMonth, PerMinute} \subseteq Nat \ {0}
  /\ {Minimum, MaxClock, MaxReports, MaxRoutings} \subseteq Nat

VARIABLES
  clock,     \* the time
  route,     \* whose voice line an assistant, or a phone number, leads to
  callOwner, \* whose call it is in voice_calls, if it has a turn
  bill,      \* the call's row in call_usage_records
  delivery,  \* the deliveries under way
  kept,      \* history: the reports that were recorded, in the order of their commits
  sent,      \* how many deliveries there were
  routings   \* how many lines were mapped

outside == <<clock, route, callOwner, routings>>
usageVars == <<outside, bill, delivery, kept, sent>>

NoOne == [org |-> NoOrg, by |-> "unattributed"]
NoBill == [facts |-> Missing, owner |-> NoOne, decision |-> Missing, count |-> 0,
           first |-> 0, last |-> 0]

\* at: how far it is; received: when it read the clock; seen: the record it holds
\* locked; written: the record it has written.
NoDelivery == [at |-> "none", report |-> Missing, received |-> 0, owner |-> NoOne,
               seen |-> NoBill, written |-> NoBill]

UsageInit ==
  /\ clock = 0
  /\ route = [key \in {"assistant", "phone"} |-> NoOrg]
  /\ callOwner = NoOrg
  /\ bill = NoBill
  /\ delivery = [d \in Deliveries |-> NoDelivery]
  /\ kept = <<>>
  /\ sent = 0
  /\ routings = 0

-----------------------------------------------------------------------------
(* The rules.                                                              *)

Month(t) == t \div PerMonth

\* What the call lasted: as reported, or from its own start and end.
Measured(f) ==
  IF f.duration # Missing THEN f.duration
  ELSE IF f.started # Missing /\ f.ended # Missing /\ f.ended >= f.started
  THEN f.ended - f.started ELSE Missing

\* The call is billed in the month it started, else ended, else was first heard
\* of; by the minute, rounded up, or not at all.
PeriodOf(f, received) ==
  Month(IF f.started # Missing THEN f.started
        ELSE IF f.ended # Missing THEN f.ended ELSE received)

ExclusionOf(f) ==
  CASE Measured(f) = Missing -> "duration_unknown"
    [] Measured(f) # Missing /\ Measured(f) < Minimum -> "under_minimum"
    [] Measured(f) # Missing /\ Measured(f) >= Minimum ->
         IF f.fault = TRUE THEN "fault_ended_reason" ELSE "none"

MinutesOf(f) ==
  IF ExclusionOf(f) = "none" THEN (Measured(f) + PerMinute - 1) \div PerMinute ELSE 0

Decide(f, received) ==
  [period |-> PeriodOf(f, received), minutes |-> MinutesOf(f),
   exclusion |-> ExclusionOf(f)]

\* Mutant: the later report replaces the earlier one.
ReplaceFacts(old, new) == new

\* A value the later report carries replaces what there was, one it lacks erases
\* nothing.
MergeFacts(old, new) ==
  [f \in Fields |-> IF new[f] = Missing THEN old[f] ELSE new[f]]

\* Whose call it is: by its voice_calls row; else by the line of its assistant;
\* by that of its phone number only if it names no assistant.
Attribute(f) ==
  LET key == IF f.assistant # Missing THEN "assistant" ELSE "phone"
  IN  IF callOwner # NoOrg THEN [org |-> callOwner, by |-> "voice_call"]
      ELSE IF f[key] # Missing /\ route[key] # NoOrg
      THEN [org |-> route[key], by |-> "voice_line"] ELSE NoOne

-----------------------------------------------------------------------------
(* A delivery.                                                             *)

Step(d, at) == delivery[d].at = at
Others(d) == Deliveries \ {d}

Deliver(d, report) ==
  /\ Step(d, "none")
  /\ sent < MaxReports
  /\ sent' = sent + 1
  /\ delivery' = [delivery EXCEPT ![d] =
       [NoDelivery EXCEPT !.at = "looking", !.report = report, !.received = clock]]
  /\ UNCHANGED <<outside, bill, kept>>

Unlocked(d) == \A o \in Others(d) : delivery[o].at \notin {"merging", "merged"}

\* The record is there: its row is locked, and read as it is once whoever held
\* the lock has committed.
Find(d) ==
  /\ Step(d, "looking")
  /\ bill # NoBill
  /\ Unlocked(d)
  /\ delivery' = [delivery EXCEPT ![d] = [@ EXCEPT !.at = "merging", !.seen = bill]]
  /\ UNCHANGED <<outside, bill, kept, sent>>

\* It is not there: the call is attributed.
FindNone(d) ==
  /\ Step(d, "looking")
  /\ bill = NoBill
  /\ delivery' = [delivery EXCEPT ![d] =
       [@ EXCEPT !.at = "inserting", !.owner = Attribute(delivery[d].report)]]
  /\ UNCHANGED <<outside, bill, kept, sent>>

\* Another delivery's insert is waited for.
NoOtherInsert(d) == \A o \in Others(d) : ~Step(o, "inserted")

Insert(d) ==
  /\ Step(d, "inserting")
  /\ bill = NoBill
  /\ NoOtherInsert(d)
  /\ LET report == delivery[d].report
         received == delivery[d].received
     IN  delivery' = [delivery EXCEPT ![d] = [@ EXCEPT !.at = "inserted", !.written =
           [facts |-> report, owner |-> delivery[d].owner,
            decision |-> Decide(report, received),
            count |-> 1, first |-> received, last |-> received]]]
  /\ UNCHANGED <<outside, bill, kept, sent>>

\* It has committed: nothing is inserted, and the record is looked for again.
Conflict(d) ==
  /\ Step(d, "inserting")
  /\ bill # NoBill
  /\ NoOtherInsert(d)
  /\ delivery' = [delivery EXCEPT ![d] = [@ EXCEPT !.at = "looking"]]
  /\ UNCHANGED <<outside, bill, kept, sent>>

MergeAs(d, owner, received) ==
  LET seen == delivery[d].seen
      facts == MergeFacts(seen.facts, delivery[d].report)
  IN  delivery' = [delivery EXCEPT ![d] = [@ EXCEPT !.at = "merged", !.written =
        [facts |-> facts, owner |-> owner,
         decision |-> Decide(facts, received),
         count |-> seen.count + 1, first |-> seen.first, last |-> delivery[d].received]]]

OwnerAfter(d) ==
  IF delivery[d].seen.owner = NoOne
  THEN Attribute(MergeFacts(delivery[d].seen.facts, delivery[d].report))
  ELSE delivery[d].seen.owner

\* Mutant: a call with no times falls into the month of its latest report.
MergeReanchored(d) ==
  /\ Step(d, "merging")
  /\ MergeAs(d, OwnerAfter(d), delivery[d].received)
  /\ UNCHANGED <<outside, bill, kept, sent>>

\* The facts are merged and decided upon again, in the month of the first
\* report; a call that has an owner keeps it.
Merge(d) ==
  /\ Step(d, "merging")
  /\ MergeAs(d, OwnerAfter(d), delivery[d].seen.first)
  /\ UNCHANGED <<outside, bill, kept, sent>>

\* The request's transaction commits.
CommitReport(d) ==
  /\ delivery[d].at \in {"inserted", "merged"}
  /\ bill' = delivery[d].written
  /\ delivery' = [delivery EXCEPT ![d] = NoDelivery]
  /\ kept' = Append(kept, delivery[d].report)
  /\ UNCHANGED <<outside, sent>>

\* It is lost, or the metering is rolled back to its savepoint and the report
\* acknowledged all the same.
LoseReport(d) ==
  /\ ~Step(d, "none")
  /\ delivery' = [delivery EXCEPT ![d] = NoDelivery]
  /\ UNCHANGED <<outside, bill, kept, sent>>

-----------------------------------------------------------------------------
(* Around it.                                                              *)

PassTime ==
  /\ clock < MaxClock
  /\ clock' = clock + 1
  /\ UNCHANGED <<route, callOwner, routings, bill, delivery, kept, sent>>

\* The call's first turn, through the line of its assistant or number.
OpenCallRow ==
  /\ callOwner = NoOrg
  /\ \E key \in DOMAIN route : route[key] # NoOrg /\ callOwner' = route[key]
  /\ UNCHANGED <<clock, route, routings, bill, delivery, kept, sent>>

\* An operator maps a line.
RouteTo(key, org) ==
  /\ routings < MaxRoutings
  /\ route[key] # org
  /\ route' = [route EXCEPT ![key] = org]
  /\ routings' = routings + 1
  /\ UNCHANGED <<clock, callOwner, bill, delivery, kept, sent>>

UsageNext ==
  \/ \E d \in Deliveries :
       \/ \E report \in Reports : Deliver(d, report)
       \/ Find(d) \/ FindNone(d) \/ Insert(d) \/ Conflict(d) \/ Merge(d)
       \/ CommitReport(d) \/ LoseReport(d)
  \/ PassTime \/ OpenCallRow
  \/ \E key \in DOMAIN route, org \in Orgs : RouteTo(key, org)

UsageSpec == UsageInit /\ [][UsageNext]_usageVars

-----------------------------------------------------------------------------
(* Properties.                                                             *)

Owners == [org : Orgs \union {NoOrg}, by : {"voice_call", "voice_line", "unattributed"}]
Bills ==
  [facts : Facts, owner : Owners,
   decision : [period : Nat, minutes : Nat,
               exclusion : {"none", "duration_unknown", "under_minimum",
                            "fault_ended_reason"}],
   count : Nat, first : Nat, last : Nat] \union {NoBill}

\* Every variable holds what the code can put there, and one delivery at a time
\* holds the row, whether it is there or is being inserted (get_for_update,
\* insert_if_absent).
UsageTypeOK ==
  /\ {clock, sent, routings} \subseteq Nat
  /\ route \in [{"assistant", "phone"} -> Orgs \union {NoOrg}]
  /\ callOwner \in Orgs \union {NoOrg}
  /\ bill \in Bills
  /\ kept \in Seq(Reports)
  /\ delivery \in [Deliveries ->
       [at : {"none", "looking", "inserting", "inserted", "merging", "merged"},
        report : Reports \union {Missing}, received : Nat, owner : Owners,
        seen : Bills, written : Bills]]
  /\ \A c, d \in Deliveries :
       /\ delivery[c].at \in {"inserted", "merging", "merged"}
       /\ delivery[d].at \in {"inserted", "merging", "merged"}
       => c = d

\* The value is the last one that one of the reports carried.
LastSaid(reports, f, value) ==
  IF value = Missing THEN \A i \in DOMAIN reports : reports[i][f] = Missing
  ELSE \E i \in DOMAIN reports :
         /\ reports[i][f] = value
         /\ \A j \in i..Len(reports) : reports[j][f] \in {Missing, value}

\* However the deliveries cross, repeat and contradict one another, the record holds
\* of every value the last one a recorded report carried, and is billed as that says,
\* as if they had come one after another: none is lost between the reading of the row
\* and the writing (merge_facts, decide_billing).
BillsWhatWasReported ==
  bill # NoBill => /\ \A f \in Fields : LastSaid(kept, f, bill.facts[f])
                   /\ bill.decision = Decide(bill.facts, bill.first)

\* No delivery is recorded twice or not at all, however they crossed
\* (CallUsageService._record).
CountsDeliveries == bill.count = Len(kept)

\* Types, and a record that holds all that was reported, once.
UsageInv == UsageTypeOK /\ BillsWhatWasReported /\ CountsDeliveries

\* Of the time of a call a report says what was said last, or nothing.
SaysNoOtherTime(report) ==
  \A f \in {"started", "ended"} : report[f] = Missing \/ LastSaid(kept, f, report[f])

\* A report that gives no other times than the last that were given, at once or months
\* later, never moves the call to another month (CallUsageService._record: "a duplicate
\* can never move a call between months on its own"), and no report at all, nor a line
\* mapped meanwhile, moves a billed call to another organization ("An attributed record
\* is never re-attributed"). One whose times differ does move the month, and so does the
\* duplicate of a report that another contradicted in between: merge_facts takes what is
\* delivered last for the better.
BillStays ==
  [][/\ bill # NoBill /\ kept' # kept /\ SaysNoOtherTime(kept'[Len(kept')]) =>
          bill'.decision.period = bill.decision.period
     /\ bill.owner.org # NoOrg => bill'.owner = bill.owner]_usageVars
=============================================================================
