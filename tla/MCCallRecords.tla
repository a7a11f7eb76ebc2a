---------------------------- MODULE MCCallRecords ----------------------------
(***************************************************************************)
(* Small instances of what is done with one call, each over tables of its  *)
(* own: its transfer to a person, its bill, the customer it is from, the   *)
(* ticket and the appointment made of it.  A behaviour is one of one part; *)
(* the others stay in an initial state of theirs.                          *)
(***************************************************************************)
EXTENDS CallTransfer, Usage, Customers, Intake, TLC

VARIABLE part  \* the part that runs

recordsVars == <<part, transferVars, usageVars, customersVars, intakeVars>>

RecordsInit ==
  /\ TransferInit /\ UsageInit /\ CustomersInit /\ IntakeInit
  /\ part \in {"transfer", "usage", "customers", "intake"}
  /\ part # "transfer" => settings = NoSettings /\ line = NoNumber
  /\ part # "intake" => callerId = Blank

RecordsNext ==
  \/ /\ part = "transfer" /\ TransferNext
     /\ UNCHANGED <<part, usageVars, customersVars, intakeVars>>
  \/ /\ part = "usage" /\ UsageNext
     /\ UNCHANGED <<part, transferVars, customersVars, intakeVars>>
  \/ /\ part = "customers" /\ CustomersNext
     /\ UNCHANGED <<part, transferVars, usageVars, intakeVars>>
  \/ /\ part = "intake" /\ IntakeNext
     /\ UNCHANGED <<part, transferVars, usageVars, customersVars>>

RecordsSpec == RecordsInit /\ [][RecordsNext]_recordsVars

\* Nothing tells one caller, or one delivery, from another.  The deliveries go by the
\* names of the callers: the two are never of one behaviour.
Interchangeable == Permutations(Callers)

\* What the reports of one call may carry: that it ran from 1 to 3, by a fault, or from
\* 2, for longer, and not by one.
NoFacts == [f \in Fields |-> Missing]
MCReports ==
  {[NoFacts EXCEPT !.phone = "id", !.duration = 1, !.fault = TRUE],
   [NoFacts EXCEPT !.assistant = "id", !.ended = 3],
   [NoFacts EXCEPT !.started = 1],
   [NoFacts EXCEPT !.started = 2, !.duration = 3, !.fault = FALSE]}
-----------------------------------------------------------------------------
(* States that differ only in what no later step and no property depends   *)
(* on are one to TLC.                                                      *)

\* Of settings that are not enabled, what they would say; of a transfer, what it
\* has read once it has the number, and the number once it is accepted.
SettingsView(s) ==
  IF s.enabled THEN s ELSE [NoSettings EXCEPT !.set = s.set]

TransferView ==
  <<SettingsView(settings), SettingsView(admin), line, changes, attempts, ticket,
    talk, moves,
    CASE transfer.phase = "dialling" -> [transfer EXCEPT !.read = NoSettings,
                                                         !.openNow = "unknown"]
      [] transfer.phase = "accepted" -> <<transfer.id, transfer.policy>>
      [] OTHER -> [transfer EXCEPT !.read = SettingsView(@)]>>

\* Of an outcome, all but what it says of the contact, unless it is yet to be
\* brought over; of a turn whose reply is there, what its tools did but write.
IntakeView ==
  <<callerId, [outcomeRow EXCEPT !.class = "none", !.action = "none"], ticketRow,
    visitRow, followUp, turns, faults,
    [turn EXCEPT !.tools = IF turn.at = "tools" THEN @ ELSE 0,
                 !.began = @ /\ turn.at = "tools",
                 !.books = @ /\ turn.at = "tools",
                 !.outcome.class = IF turn.at = "ticket" THEN @ ELSE "none",
                 !.outcome.action = IF turn.at \in {"ticket", "visit"} THEN @ ELSE "none"]>>

View ==
  <<part, CASE part = "transfer" -> TransferView
            [] part = "usage" -> usageVars
            [] part = "customers" -> customersVars
            [] part = "intake" -> IntakeView>>
=============================================================================
