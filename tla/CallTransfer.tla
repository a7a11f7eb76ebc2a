---------------------------- MODULE CallTransfer ----------------------------
(***************************************************************************)
(* Handing a live call to a person.  A turn of the call looks for an       *)
(* accepted transfer, reads where the business wants its calls, records an *)
(* attempt and asks the provider to move the call, one statement after     *)
(* another, each of which sees what others have committed by then: an      *)
(* owner who saves other numbers, an operator who maps the voice line.     *)
(* The attempt is kept in the turn's transaction, inside the savepoint of  *)
(* the tool; the moved call is not.                                        *)
(***************************************************************************)
EXTENDS Naturals

CONSTANTS
  Numbers,      \* phone numbers, in canonical form
  NoNumber,     \* a number that is not set
  MaxAttempts,  \* bound: attempts of the call
  MaxMoves,     \* bound: how often the provider moves the call
  MaxChanges    \* bound: settings saved or deleted, and lines mapped

ASSUME NoNumberAssumption == NoNumber \notin Numbers
ASSUME TransferBoundsAssumption == {MaxAttempts, MaxMoves, MaxChanges} \subseteq Nat

VARIABLES
  settings,   \* the organization's row of transfer settings
  line,       \* the number of its voice line
  admin,      \* the owner's request to save settings
  attempts,   \* the call_transfer_attempts table, for one call
  ticket,     \* whether the call has an emergency ticket
  talk,       \* the open turn of the call
  transfer,   \* the transfer its running tool is making
  moves,      \* how often the provider moved the call, and how often it did
              \* so though the attempt could not say so
  changes     \* how much has been changed around it

settled == <<settings, line, admin, changes>>
transferVars == <<settled, attempts, ticket, talk, transfer, moves>>

Ids == 1..MaxAttempts
Maybe == Numbers \union {NoNumber}

NoSettings == [set |-> FALSE, office |-> NoNumber, onCall |-> NoNumber,
               emergencies |-> FALSE, enabled |-> FALSE]
Settings ==
  [set : {TRUE}, office : Maybe, onCall : Maybe, emergencies : BOOLEAN, enabled : BOOLEAN]
    \union {NoSettings}

Unused == [status |-> "none", policy |-> FALSE]
Terminal == {"initiated", "unavailable", "failed"}

\* id: its attempt; policy: for the emergency policy; read: the settings;
\* number: the destination; forgets: call moves that go unrecorded if it fails;
\* remapped, changed: history, the line or the settings changed since read.
NoTransfer == [phase |-> "none", id |-> 0, policy |-> FALSE, read |-> NoSettings,
               openNow |-> "unknown", number |-> NoNumber, forgets |-> 0,
               remapped |-> FALSE, changed |-> FALSE]
\* rows, ticket: the tables as the turn sees them; forgets: as above.
NoTurn == [open |-> FALSE, rows |-> [i \in Ids |-> Unused], ticket |-> FALSE,
           forgets |-> 0]

\* Settings that are enabled have a number.
Valid(s) == s.enabled => {s.office, s.onCall} # {NoNumber}

\* What was saved and mapped before the call; the line may have been mapped last.
TransferInit ==
  /\ settings \in {s \in Settings : Valid(s)}
  /\ line \in Maybe
  /\ admin = NoSettings
  /\ attempts = [i \in Ids |-> Unused]
  /\ ticket = FALSE
  /\ talk = NoTurn
  /\ transfer = NoTransfer
  /\ moves = [all |-> 0, forgotten |-> 0]
  /\ changes = 0

-----------------------------------------------------------------------------
(* Around the call.                                                        *)

Change(field) ==
  /\ changes < MaxChanges
  /\ changes' = changes + 1
  /\ transfer' = IF transfer.phase = "none" THEN transfer
                 ELSE [transfer EXCEPT ![field] = TRUE]

\* The owner's numbers are compared with the voice line.
CheckSettings(s) ==
  /\ ~admin.set
  /\ changes < MaxChanges
  /\ s.set
  /\ line # NoNumber => line \notin {s.office, s.onCall}
  /\ Valid(s)
  /\ admin' = s
  /\ UNCHANGED <<settings, line, changes, attempts, ticket, talk, transfer, moves>>

SaveSettings ==
  /\ admin.set
  /\ Change("changed")
  /\ settings' = admin
  /\ admin' = NoSettings
  /\ UNCHANGED <<line, attempts, ticket, talk, moves>>

DeleteSettings ==
  /\ settings.set
  /\ Change("changed")
  /\ settings' = NoSettings
  /\ UNCHANGED <<line, admin, attempts, ticket, talk, moves>>

\* An operator gives the voice line a number, without asking where its calls
\* are transferred to.
MapLine(n) ==
  /\ line # n
  /\ Change("remapped")
  /\ line' = n
  /\ UNCHANGED <<settings, admin, attempts, ticket, talk, moves>>

-----------------------------------------------------------------------------
(* A turn and its tools.                                                   *)

BeginTurn ==
  /\ ~talk.open
  /\ talk' = [NoTurn EXCEPT !.open = TRUE, !.rows = attempts, !.ticket = ticket]
  /\ UNCHANGED <<settled, attempts, ticket, transfer, moves>>

Working(phase) == talk.open /\ transfer.phase = phase
OnlyTransfer == UNCHANGED <<settled, attempts, ticket, talk, moves>>

RecordTicket ==
  /\ Working("none")
  /\ talk' = [talk EXCEPT !.ticket = TRUE]
  /\ UNCHANGED <<settled, attempts, ticket, transfer, moves>>

Initiated(rows) == {i \in Ids : rows[i].status = "initiated"}

\* A call that was moved is not moved again: the request ends here.
Request(policy) ==
  /\ Working("none")
  /\ Initiated(talk.rows) = {}
  /\ transfer' = [NoTransfer EXCEPT !.phase = "reading", !.policy = policy]
  /\ OnlyTransfer

\* The settings are read and the attempt is written.
ReadSettings(i) ==
  /\ Working("reading")
  /\ talk.rows[i] = Unused
  /\ \A j \in Ids : j < i => talk.rows[j] # Unused
  /\ transfer' = [transfer EXCEPT !.phase = "asking", !.id = i, !.read = settings,
                                  !.changed = FALSE]
  /\ talk' = [talk EXCEPT !.rows[i] = [status |-> "requested", policy |-> transfer.policy]]
  /\ UNCHANGED <<settled, attempts, ticket, moves>>

\* The attempt takes its last status and the tool returns.
End(status) ==
  /\ talk' = [talk EXCEPT !.rows[transfer.id] = [@ EXCEPT !.status = status],
                          !.forgets = @ + transfer.forgets]
  /\ transfer' = NoTransfer
  /\ UNCHANGED <<settled, attempts, ticket>>

\* The policy hands over an emergency only once its ticket is recorded.
RefusePolicy ==
  /\ Working("asking")
  /\ transfer.policy
  /\ ~transfer.read.emergencies \/ ~talk.ticket
  /\ End("unavailable")
  /\ UNCHANGED moves

\* Mutant: the policy is asked for, the ticket is not.
ReadHoursWithoutTicket ==
  /\ Working("asking")
  /\ transfer.policy => transfer.read.emergencies
  /\ \E answer \in {"open", "closed", "unknown"} :
       transfer' = [transfer EXCEPT !.phase = "resolving", !.openNow = answer]
  /\ OnlyTransfer

\* The business is open, closed, or has given no hours.
ReadHours ==
  /\ Working("asking")
  /\ transfer.policy => transfer.read.emergencies /\ talk.ticket
  /\ \E answer \in {"open", "closed", "unknown"} :
       transfer' = [transfer EXCEPT !.phase = "resolving", !.openNow = answer]
  /\ OnlyTransfer

\* The number for this time of day: the office, unless it is closed, and then
\* whoever is on call.
Candidate ==
  IF transfer.openNow # "closed" /\ transfer.read.office # NoNumber
  THEN transfer.read.office ELSE transfer.read.onCall

ResolveTo(number) ==
  /\ transfer' = [transfer EXCEPT !.phase = "dialling", !.number = number,
                                  !.remapped = FALSE]
  /\ talk' = [talk EXCEPT !.rows[transfer.id] = [@ EXCEPT !.status = "resolved"]]
  /\ UNCHANGED <<settled, attempts, ticket, moves>>

\* The voice line is read, and the destination resolved and recorded.
Resolve ==
  /\ Working("resolving")
  /\ transfer.read.enabled
  /\ Candidate \notin {NoNumber, line}
  /\ ResolveTo(Candidate)

\* There is nowhere to transfer to, or the turn has no handle on the call.
NoDestination ==
  /\ Working("resolving")
  /\ End("unavailable")
  /\ UNCHANGED moves

\* The provider moves the call, and says so.
Accepted ==
  /\ Working("dialling")
  /\ moves.all < MaxMoves
  /\ moves' = [moves EXCEPT !.all = @ + 1]
  /\ transfer' = [transfer EXCEPT !.phase = "accepted", !.forgets = 1]
  /\ UNCHANGED <<settled, attempts, ticket, talk>>

SaveAccepted ==
  /\ Working("accepted")
  /\ End("initiated")
  /\ UNCHANGED moves

\* The provider refuses, or its answer is late or lost and the call has moved
\* or not.
NotAccepted ==
  /\ Working("dialling")
  /\ \E moved \in 0..1 :
       /\ moves.all + moved <= MaxMoves
       /\ moves' = [all |-> moves.all + moved, forgotten |-> moves.forgotten + moved]
  /\ End("failed")

\* Mutant: a tool that fails keeps what it has written.
ToolFailsKeeping ==
  /\ talk.open /\ transfer.phase # "none"
  /\ transfer' = NoTransfer
  /\ moves' = [moves EXCEPT !.forgotten = @ + transfer.forgets]
  /\ UNCHANGED <<settled, attempts, ticket, talk>>

\* A tool that fails or runs out of time, wherever it is, is rolled back to its
\* savepoint.
ToolFails ==
  /\ talk.open /\ transfer.phase # "none"
  /\ transfer' = NoTransfer
  /\ talk' = [talk EXCEPT !.rows = [i \in Ids |->
                 IF i = transfer.id THEN Unused ELSE talk.rows[i]]]
  /\ moves' = [moves EXCEPT !.forgotten = @ + transfer.forgets]
  /\ UNCHANGED <<settled, attempts, ticket>>

CommitTurn ==
  /\ Working("none")
  /\ attempts' = talk.rows
  /\ ticket' = talk.ticket
  /\ talk' = NoTurn
  /\ UNCHANGED <<settled, transfer, moves>>

\* The turn fails, or its process dies, in the middle of a tool or not.
UndoTurn ==
  /\ talk.open
  /\ moves' = [moves EXCEPT !.forgotten = @ + transfer.forgets + talk.forgets]
  /\ talk' = NoTurn
  /\ transfer' = NoTransfer
  /\ UNCHANGED <<settled, attempts, ticket>>

TransferNext ==
  \/ \E s \in Settings : CheckSettings(s)
  \/ SaveSettings \/ DeleteSettings
  \/ \E n \in Numbers : MapLine(n)
  \/ BeginTurn \/ RecordTicket \/ CommitTurn \/ UndoTurn
  \/ \E policy \in BOOLEAN : Request(policy)
  \/ \E i \in Ids : ReadSettings(i)
  \/ RefusePolicy \/ ReadHours \/ Resolve \/ NoDestination
  \/ Accepted \/ SaveAccepted \/ NotAccepted \/ ToolFails

TransferSpec == TransferInit /\ [][TransferNext]_transferVars

-----------------------------------------------------------------------------
(* Properties.                                                             *)

\* Every variable holds what the code can put there.
TransferTypeOK ==
  /\ {settings, admin, transfer.read} \subseteq Settings
  /\ {line, transfer.number} \subseteq Maybe
  /\ {attempts, talk.rows} \subseteq
       [Ids -> [status : {"none", "requested", "resolved"} \union Terminal,
                policy : BOOLEAN]]
  /\ {ticket, talk.ticket} \subseteq BOOLEAN
  /\ transfer.phase \in {"none", "reading", "asking", "resolving", "dialling", "accepted"}
  /\ transfer.phase # "none" => talk.open
  /\ transfer.phase \in {"asking", "resolving", "dialling", "accepted"} =>
       talk.rows[transfer.id].status \in {"requested", "resolved"}

\* The caller is put through to the assistant only if the line was given that
\* number after the transfer had looked at it: neither the owner's form nor the
\* transfer alone could see to that (resolve_destination, configure).
NoLoop ==
  Working("dialling") /\ ~transfer.remapped => transfer.number # line

\* A number that is dialled is one the business has given for its calls, unless
\* it took it back during the transfer (CallTransferService.transfer).
DialsCurrentSettings ==
  Working("dialling") /\ ~transfer.changed =>
    /\ settings.enabled
    /\ transfer.number \in {settings.office, settings.onCall}

\* However its turns, tools and provider failed, a call has no attempt that is
\* still under way once no turn is, and at most one that succeeded.
AttemptsEnd ==
  /\ \A i \in Ids : attempts[i].status \in Terminal \union {"none"}
  /\ \A i, j \in Initiated(attempts) : i = j

\* A call handed over by policy has its ticket, whatever was rolled back.
PolicyLeavesTicket ==
  \A i \in Initiated(attempts) : attempts[i].policy => ticket

\* Every time the provider moved the call is on record, but for the times its
\* answer, or what had been written, was lost.
MovesAccountedFor ==
  ~talk.open => moves.all <= moves.forgotten + 1

\* A number that is dialled is a current one and not the assistant's own, but for
\* what was saved while the transfer was under way (resolve_destination).
DialsWhatIsCurrent == NoLoop /\ DialsCurrentSettings

\* Types, attempts that end with their turns, the ticket of a call handed over by
\* policy, no move without a record, and the number dialled.
TransferInv ==
  /\ TransferTypeOK /\ AttemptsEnd /\ PolicyLeavesTicket /\ MovesAccountedFor
  /\ DialsWhatIsCurrent

\* A call is moved once (call_transfer_service.py: "A call already being moved
\* is never moved again").
MovedOnce == moves.all <= 1
=============================================================================
