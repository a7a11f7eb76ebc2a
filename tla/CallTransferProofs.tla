------------------------- MODULE CallTransferProofs -------------------------
(***************************************************************************)
(* What a call's transfers leave behind, and where they lead, for any      *)
(* numbers, attempts and failures.                                         *)
(*                                                                         *)
(* TransferInv speaks of the table, and of the number that is dialled; it  *)
(* holds because of the turn's own copy of the table (RowsEnd, TalkOnce,   *)
(* Ticketed), of what a transfer has read (Knows), and because the moves   *)
(* can be counted in two ways: by what is lost if the turn is undone, and  *)
(* by what it commits (Counted).                                           *)
(***************************************************************************)
EXTENDS CallTransfer, TLAPS

Statuses == {"none", "requested", "resolved"} \union Terminal
Rows == [Ids -> [status : Statuses, policy : BOOLEAN]]
Deep == {"asking", "resolving", "dialling", "accepted"}
Transfers ==
  [phase : {"none", "reading"} \union Deep, id : 0..MaxAttempts, policy : BOOLEAN,
   read : Settings, openNow : {"unknown", "open", "closed"}, number : Maybe,
   forgets : 0..1, remapped : BOOLEAN, changed : BOOLEAN]
Turns == [open : BOOLEAN, rows : Rows, ticket : BOOLEAN, forgets : Nat]

Typed ==
  /\ settings \in Settings /\ admin \in Settings /\ line \in Maybe
  /\ attempts \in Rows /\ ticket \in BOOLEAN
  /\ talk \in Turns /\ transfer \in Transfers
  /\ moves \in [all : Nat, forgotten : Nat] /\ changes \in Nat

\* A transfer is part of a turn, and its attempt is the one under way.
UnderWay ==
  /\ ~talk.open => talk = NoTurn
  /\ transfer.phase # "none" => talk.open
  /\ transfer.phase \in {"none", "reading"} => transfer.id = 0
  /\ transfer.phase \in Deep =>
       /\ transfer.id \in Ids
       /\ talk.rows[transfer.id].status \in {"requested", "resolved"}
       /\ talk.rows[transfer.id].policy = transfer.policy
  /\ transfer.forgets = IF transfer.phase = "accepted" THEN 1 ELSE 0

RowsEnd ==
  \A i \in Ids : i # transfer.id => talk.rows[i].status \in Terminal \union {"none"}

TalkOnce ==
  /\ \A i, j \in Initiated(talk.rows) : i = j
  /\ transfer.phase # "none" => Initiated(talk.rows) = {}

Ticketed ==
  /\ \A i \in Initiated(talk.rows) : talk.rows[i].policy => talk.ticket
  /\ transfer.phase \in {"resolving", "dialling", "accepted"} /\ transfer.policy =>
       talk.ticket

\* The moves that are known of, if the turn is undone and if it commits.
Some(rows) == IF Initiated(rows) = {} THEN 0 ELSE 1

Counted ==
  /\ moves.all <= moves.forgotten + transfer.forgets + talk.forgets + Some(attempts)
  /\ talk.open => moves.all <= moves.forgotten + transfer.forgets + Some(talk.rows)

Knows ==
  /\ transfer.phase \in Deep /\ ~transfer.changed => transfer.read = settings
  /\ transfer.phase = "dialling" =>
       /\ transfer.read.enabled
       /\ transfer.number \in {transfer.read.office, transfer.read.onCall}

TransferIInv ==
  /\ Typed /\ UnderWay /\ RowsEnd /\ TalkOnce /\ Ticketed /\ Counted /\ Knows
  /\ NoLoop /\ AttemptsEnd /\ PolicyLeavesTicket

-----------------------------------------------------------------------------
(* Initial states, and what several steps have in common.                  *)

LEMMA Nothing ==
  /\ NoTransfer \in Transfers /\ NoTransfer.phase = "none" /\ NoTransfer.id = 0
  /\ NoTransfer.forgets = 0
  /\ NoTurn \in Turns /\ ~NoTurn.open /\ NoTurn.forgets = 0 /\ NoTurn.rows \in Rows
  /\ \A i \in Ids : NoTurn.rows[i] = Unused
  /\ NoSettings \in Settings
  /\ Unused \in [status : Statuses, policy : BOOLEAN] /\ Unused.status = "none"
<1>1. NoSettings \in Settings
  BY DEF Settings
<1>2. /\ NoTransfer \in Transfers /\ NoTransfer.phase = "none" /\ NoTransfer.id = 0
      /\ NoTransfer.forgets = 0
  BY <1>1, TransferBoundsAssumption DEF NoTransfer, Transfers, Maybe
<1>3. Unused \in [status : Statuses, policy : BOOLEAN] /\ Unused.status = "none"
  BY DEF Unused, Statuses
<1>4. [i \in Ids |-> Unused] \in Rows
  BY <1>3 DEF Rows
<1>5. /\ NoTurn \in Turns /\ ~NoTurn.open /\ NoTurn.forgets = 0 /\ NoTurn.rows \in Rows
      /\ \A i \in Ids : NoTurn.rows[i] = Unused
  BY <1>4 DEF NoTurn, Turns
<1>6. QED BY <1>1, <1>2, <1>3, <1>5

LEMMA InitTransferIInv == TransferInit => TransferIInv
<1> SUFFICES ASSUME TransferInit PROVE TransferIInv
  OBVIOUS
<1>1. /\ settings \in Settings /\ line \in Maybe /\ admin = NoSettings
      /\ attempts = [i \in Ids |-> Unused] /\ ticket = FALSE /\ talk = NoTurn
      /\ transfer = NoTransfer /\ moves = [all |-> 0, forgotten |-> 0] /\ changes = 0
  BY DEF TransferInit
<1>2. Initiated(talk.rows) = {} /\ Initiated(attempts) = {}
  BY <1>1, Nothing DEF Initiated
<1>3. Typed
  BY <1>1, Nothing DEF Typed, Rows
<1>4. UnderWay /\ RowsEnd
  BY <1>1, Nothing DEF UnderWay, RowsEnd, Deep
<1>5. TalkOnce /\ Ticketed /\ Knows /\ NoLoop
  BY <1>1, <1>2, Nothing DEF TalkOnce, Ticketed, Knows, NoLoop, Working, Deep
<1>6. Counted
  BY <1>1, <1>2, Nothing DEF Counted, Some
<1>7. AttemptsEnd /\ PolicyLeavesTicket
  BY <1>1, <1>2, Nothing DEF AttemptsEnd, PolicyLeavesTicket
<1>8. QED BY <1>3, <1>4, <1>5, <1>6, <1>7 DEF TransferIInv

\* The attempt under way is written, and the tool returns.
LEMMA EndEffect ==
  ASSUME Typed, UnderWay, transfer.phase \in Deep, NEW status \in Terminal, End(status)
  PROVE  /\ talk' \in Turns /\ talk'.open = talk.open /\ talk'.ticket = talk.ticket
         /\ talk'.forgets = talk.forgets + transfer.forgets
         /\ talk'.rows[transfer.id].status = status
         /\ talk'.rows[transfer.id].policy = transfer.policy
         /\ \A i \in Ids : i # transfer.id => talk'.rows[i] = talk.rows[i]
         /\ transfer' = NoTransfer /\ attempts' = attempts /\ ticket' = ticket
         /\ settings' = settings /\ line' = line /\ admin' = admin /\ changes' = changes
<1> DEFINE k == transfer.id
           row == [talk.rows[k] EXCEPT !.status = status]
           rows == [talk.rows EXCEPT ![k] = row]
<1>1. k \in Ids /\ talk.rows \in Rows /\ talk.rows[k].policy = transfer.policy
  BY DEF UnderWay, Typed, Turns
<1>2. /\ row \in [status : Statuses, policy : BOOLEAN]
      /\ row.status = status /\ row.policy = transfer.policy
  BY <1>1 DEF Rows, Statuses
<1>3. talk' = [talk EXCEPT !.rows = rows, !.forgets = @ + transfer.forgets]
  BY DEF End
<1> HIDE DEF row
<1>4. rows \in Rows /\ rows[k] = row /\ \A i \in Ids : i # k => rows[i] = talk.rows[i]
  BY <1>1, <1>2 DEF Rows
<1> HIDE DEF rows
<1>5. transfer.forgets \in Nat
  BY DEF Typed, Transfers
<1>6. /\ talk' \in Turns /\ talk'.rows = rows /\ talk'.open = talk.open
      /\ talk'.ticket = talk.ticket /\ talk'.forgets = talk.forgets + transfer.forgets
  <2>1. talk \in Turns /\ rows \in Rows /\ talk.forgets + transfer.forgets \in Nat
    BY <1>4, <1>5 DEF Typed, Turns
  <2>2. QED BY <1>3, <2>1 DEF Turns
<1>7. QED BY <1>2, <1>4, <1>6 DEF End, settled

-----------------------------------------------------------------------------
(* Settings and lines change around the call.                              *)

LEMMA CheckSettingsIInv ==
  ASSUME TransferIInv, NEW s \in Settings, CheckSettings(s)
  PROVE  TransferIInv'
<1>1. /\ settings' = settings /\ line' = line /\ admin' \in Settings /\ attempts' = attempts
      /\ ticket' = ticket /\ talk' = talk /\ transfer' = transfer /\ moves' = moves
      /\ changes' = changes
  BY DEF CheckSettings
<1>2. Typed' /\ UnderWay' /\ Counted' /\ Knows' /\ NoLoop'
  BY <1>1 DEF TransferIInv, Typed, UnderWay, Counted, Knows, NoLoop, Working, Some, Initiated
<1>3. RowsEnd' /\ TalkOnce' /\ Ticketed' /\ AttemptsEnd' /\ PolicyLeavesTicket'
  BY <1>1 DEF TransferIInv, RowsEnd, TalkOnce, Ticketed, AttemptsEnd, PolicyLeavesTicket,
              Initiated
<1>4. QED BY <1>2, <1>3 DEF TransferIInv

\* What changes is noted in a transfer that is under way.
LEMMA ChangeEffect ==
  ASSUME Typed, NEW field \in {"remapped", "changed"}, Change(field)
  PROVE  /\ changes' \in Nat /\ transfer' \in Transfers
         /\ \A f \in {"phase", "id", "policy", "read", "number", "forgets"} :
              transfer'[f] = transfer[f]
         /\ transfer.phase # "none" => transfer'[field]
         /\ transfer'.remapped = transfer.remapped \/ field = "remapped"
         /\ transfer'.changed = transfer.changed \/ field = "changed"
<1>1. changes' \in Nat
  BY DEF Change, Typed
<1>2. CASE transfer.phase = "none"
  BY <1>1, <1>2 DEF Change, Typed
<1>3. CASE transfer.phase # "none" /\ field = "remapped"
  <2>1. transfer' = [transfer EXCEPT !.remapped = TRUE]
    BY <1>3 DEF Change
  <2>2. QED BY <1>1, <1>3, <2>1 DEF Typed, Transfers
<1>4. CASE transfer.phase # "none" /\ field = "changed"
  <2>1. transfer' = [transfer EXCEPT !.changed = TRUE]
    BY <1>4 DEF Change
  <2>2. QED BY <1>1, <1>4, <2>1 DEF Typed, Transfers
<1>5. QED BY <1>2, <1>3, <1>4

LEMMA AroundIInv ==
  ASSUME TransferIInv, SaveSettings \/ DeleteSettings \/ \E n \in Numbers : MapLine(n)
  PROVE  TransferIInv'
<1> Typed
  BY DEF TransferIInv
<1>1. /\ attempts' = attempts /\ ticket' = ticket /\ talk' = talk /\ moves' = moves
      /\ settings' \in Settings /\ admin' \in Settings /\ line' \in Maybe
  BY Nothing DEF SaveSettings, DeleteSettings, MapLine, Typed, Maybe
<1>2. PICK field \in {"remapped", "changed"} :
        /\ Change(field)
        /\ line' = line \/ field = "remapped"
        /\ settings' = settings \/ field = "changed"
  BY DEF SaveSettings, DeleteSettings, MapLine
<1>3. /\ changes' \in Nat /\ transfer' \in Transfers
      /\ transfer'.phase = transfer.phase /\ transfer'.id = transfer.id
      /\ transfer'.policy = transfer.policy /\ transfer'.read = transfer.read
      /\ transfer'.number = transfer.number /\ transfer'.forgets = transfer.forgets
      /\ transfer.phase # "none" => transfer'[field]
      /\ transfer'.remapped = transfer.remapped \/ field = "remapped"
      /\ transfer'.changed = transfer.changed \/ field = "changed"
  BY <1>2, ChangeEffect
<1>4. Typed'
  BY <1>1, <1>3 DEF Typed
<1>5. UnderWay' /\ RowsEnd' /\ TalkOnce' /\ Ticketed'
  BY <1>1, <1>3 DEF TransferIInv, UnderWay, RowsEnd, TalkOnce, Ticketed, Initiated
<1>6. Counted' /\ AttemptsEnd' /\ PolicyLeavesTicket'
  BY <1>1, <1>3
     DEF TransferIInv, Counted, Some, AttemptsEnd, PolicyLeavesTicket, Initiated
<1>7. Knows'
  BY <1>1, <1>2, <1>3 DEF TransferIInv, Knows, Deep
<1>8. NoLoop'
  BY <1>1, <1>2, <1>3 DEF TransferIInv, NoLoop, Working
<1>9. QED BY <1>4, <1>5, <1>6, <1>7, <1>8 DEF TransferIInv

-----------------------------------------------------------------------------
(* A turn begins, and its tools write.                                     *)

\* While the tables stay, and the moves, nothing is lost of them.
LEMMA TablesStay ==
  ASSUME TransferIInv, attempts' = attempts, ticket' = ticket
  PROVE  AttemptsEnd' /\ PolicyLeavesTicket'
BY DEF TransferIInv, AttemptsEnd, PolicyLeavesTicket, Initiated

LEMMA BeginTurnIInv ==
  ASSUME TransferIInv, BeginTurn
  PROVE  TransferIInv'
<1> Typed
  BY DEF TransferIInv
<1>1. /\ settings' = settings /\ line' = line /\ admin' = admin /\ changes' = changes
      /\ attempts' = attempts /\ ticket' = ticket /\ transfer' = transfer
      /\ moves' = moves /\ ~talk.open /\ transfer.phase = "none"
  BY DEF BeginTurn, settled, TransferIInv, UnderWay
<1>2. /\ talk' \in Turns /\ talk'.open /\ talk'.rows = attempts /\ talk'.ticket = ticket
      /\ talk'.forgets = 0
  BY Nothing DEF BeginTurn, Typed, Turns, NoTurn
<1>3. talk.forgets = 0 /\ transfer.forgets = 0
  BY <1>1, Nothing DEF TransferIInv, UnderWay
<1>4. Typed'
  BY <1>1, <1>2 DEF Typed
<1>5. UnderWay' /\ RowsEnd'
  BY <1>1, <1>2, <1>3 DEF TransferIInv, UnderWay, RowsEnd, AttemptsEnd, Deep
<1>6. TalkOnce' /\ Ticketed'
  BY <1>1, <1>2
     DEF TransferIInv, TalkOnce, Ticketed, AttemptsEnd, PolicyLeavesTicket, Initiated
<1>7. Counted'
  BY <1>1, <1>2, <1>3
     DEF TransferIInv, Counted, Some, Initiated, Typed
<1>8. Knows' /\ NoLoop'
  BY <1>1, <1>2 DEF Knows, NoLoop, Working, Deep
<1>9. QED BY <1>1, <1>4, <1>5, <1>6, <1>7, <1>8, TablesStay DEF TransferIInv

LEMMA RecordTicketIInv ==
  ASSUME TransferIInv, RecordTicket
  PROVE  TransferIInv'
<1> Typed
  BY DEF TransferIInv
<1>1. /\ settings' = settings /\ line' = line /\ admin' = admin /\ changes' = changes
      /\ attempts' = attempts /\ ticket' = ticket /\ transfer' = transfer
      /\ moves' = moves /\ talk.open
  BY DEF RecordTicket, settled, Working
<1>2. /\ talk' \in Turns /\ talk'.open /\ talk'.rows = talk.rows /\ talk'.ticket
      /\ talk'.forgets = talk.forgets
  BY <1>1 DEF RecordTicket, Typed, Turns
<1>3. Typed'
  BY <1>1, <1>2 DEF Typed
<1>4. UnderWay' /\ RowsEnd' /\ TalkOnce' /\ Ticketed'
  BY <1>1, <1>2 DEF TransferIInv, UnderWay, RowsEnd, TalkOnce, Ticketed, Initiated
<1>5. Counted' /\ Knows' /\ NoLoop'
  BY <1>1, <1>2
     DEF TransferIInv, Counted, Some, Initiated, Knows, NoLoop, Working
<1>6. QED BY <1>1, <1>3, <1>4, <1>5, TablesStay DEF TransferIInv

LEMMA RequestIInv ==
  ASSUME TransferIInv, NEW policy \in BOOLEAN, Request(policy)
  PROVE  TransferIInv'
<1> Typed
  BY DEF TransferIInv
<1>1. /\ settings' = settings /\ line' = line /\ admin' = admin /\ changes' = changes
      /\ attempts' = attempts /\ ticket' = ticket /\ talk' = talk
      /\ moves' = moves /\ talk.open /\ transfer.phase = "none"
      /\ Initiated(talk.rows) = {}
  BY DEF Request, settled, Working, OnlyTransfer
<1>2. /\ transfer' \in Transfers /\ transfer'.phase = "reading" /\ transfer'.id = 0
      /\ transfer'.forgets = 0
  BY Nothing DEF Request, Transfers, NoTransfer
<1>3. transfer.id = 0 /\ transfer.forgets = 0
  BY <1>1 DEF TransferIInv, UnderWay
<1>4. Typed'
  BY <1>1, <1>2 DEF Typed
<1>5. UnderWay' /\ RowsEnd' /\ TalkOnce' /\ Ticketed'
  BY <1>1, <1>2, <1>3
     DEF TransferIInv, UnderWay, RowsEnd, TalkOnce, Ticketed, Initiated, Deep
<1>6. Counted' /\ Knows' /\ NoLoop'
  BY <1>1, <1>2, <1>3
     DEF TransferIInv, Counted, Some, Initiated, Knows, NoLoop, Working, Deep
<1>7. QED BY <1>1, <1>4, <1>5, <1>6, TablesStay DEF TransferIInv

LEMMA ReadSettingsIInv ==
  ASSUME TransferIInv, NEW i \in Ids, ReadSettings(i)
  PROVE  TransferIInv'
<1> DEFINE row == [status |-> "requested", policy |-> transfer.policy]
           rows == [talk.rows EXCEPT ![i] = row]
<1> Typed
  BY DEF TransferIInv
<1>1. /\ settings' = settings /\ line' = line /\ admin' = admin /\ changes' = changes
      /\ attempts' = attempts /\ ticket' = ticket
      /\ moves' = moves /\ talk.open /\ transfer.phase = "reading"
  BY DEF ReadSettings, settled, Working
<1>2. /\ transfer' \in Transfers /\ transfer'.phase = "asking" /\ transfer'.id = i
      /\ transfer'.forgets = transfer.forgets /\ transfer'.read = settings
      /\ transfer'.policy = transfer.policy
  <2>1. i \in 0..MaxAttempts
    BY TransferBoundsAssumption DEF Ids
  <2>2. QED BY <2>1 DEF ReadSettings, Typed, Transfers, Deep
<1>3. /\ transfer.id = 0 /\ transfer.forgets = 0 /\ Initiated(talk.rows) = {}
      /\ i # 0
  BY <1>1 DEF TransferIInv, UnderWay, TalkOnce, Ids
<1>4. row \in [status : Statuses, policy : BOOLEAN] /\ talk.rows \in Rows
  BY DEF Typed, Turns, Transfers, Statuses
<1>5. /\ rows \in Rows /\ rows[i] = row /\ \A j \in Ids : j # i => rows[j] = talk.rows[j]
  BY <1>4 DEF Rows
<1>6. talk' = [talk EXCEPT !.rows = rows]
  BY DEF ReadSettings
<1>7. /\ row.status = "requested" /\ row.policy = transfer.policy
  OBVIOUS
<1> HIDE DEF row, rows
<1>8. /\ talk' \in Turns /\ talk'.open /\ talk'.rows = rows /\ talk'.ticket = talk.ticket
      /\ talk'.forgets = talk.forgets
  BY <1>1, <1>5, <1>6 DEF Typed, Turns
<1>9. Initiated(talk'.rows) = {}
  BY <1>3, <1>5, <1>7, <1>8 DEF Initiated
<1>10. Typed'
  BY <1>1, <1>2, <1>8 DEF Typed
<1>11. UnderWay'
  BY <1>1, <1>2, <1>3, <1>5, <1>7, <1>8 DEF UnderWay
<1>12. RowsEnd'
  BY <1>2, <1>3, <1>5, <1>8 DEF TransferIInv, RowsEnd, Ids
<1>13. TalkOnce' /\ Ticketed' /\ Knows' /\ NoLoop'
  BY <1>1, <1>2, <1>9 DEF TalkOnce, Ticketed, Knows, NoLoop, Working
<1>14. Counted'
  BY <1>1, <1>2, <1>3, <1>8, <1>9 DEF TransferIInv, Counted, Some, Initiated
<1>15. QED BY <1>1, <1>10, <1>11, <1>12, <1>13, <1>14, TablesStay DEF TransferIInv

LEMMA ReadHoursIInv ==
  ASSUME TransferIInv, ReadHours
  PROVE  TransferIInv'
<1> Typed
  BY DEF TransferIInv
<1>1. /\ settings' = settings /\ line' = line /\ admin' = admin /\ changes' = changes
      /\ attempts' = attempts /\ ticket' = ticket /\ talk' = talk
      /\ moves' = moves /\ talk.open /\ transfer.phase = "asking"
      /\ transfer.policy => talk.ticket
  BY DEF ReadHours, settled, Working, OnlyTransfer
<1>2. /\ transfer' \in Transfers /\ transfer'.phase = "resolving"
      /\ transfer'.id = transfer.id /\ transfer'.policy = transfer.policy
      /\ transfer'.forgets = transfer.forgets /\ transfer'.read = transfer.read
      /\ transfer'.changed = transfer.changed
  BY DEF ReadHours, Typed, Transfers, Deep
<1>3. Typed'
  BY <1>1, <1>2 DEF Typed
<1>4. UnderWay' /\ RowsEnd' /\ TalkOnce' /\ Ticketed'
  BY <1>1, <1>2 DEF TransferIInv, UnderWay, RowsEnd, TalkOnce, Ticketed, Initiated, Deep
<1>5. Counted' /\ Knows' /\ NoLoop'
  BY <1>1, <1>2
     DEF TransferIInv, Counted, Some, Initiated, Knows, NoLoop, Working, Deep
<1>6. QED BY <1>1, <1>3, <1>4, <1>5, TablesStay DEF TransferIInv

LEMMA ResolveIInv ==
  ASSUME TransferIInv, Resolve
  PROVE  TransferIInv'
<1> DEFINE k == transfer.id
           row == [talk.rows[k] EXCEPT !.status = "resolved"]
           rows == [talk.rows EXCEPT ![k] = row]
<1> Typed
  BY DEF TransferIInv
<1>1. /\ settings' = settings /\ line' = line /\ admin' = admin /\ changes' = changes
      /\ attempts' = attempts /\ ticket' = ticket
      /\ moves' = moves /\ talk.open /\ transfer.phase = "resolving"
      /\ transfer.read.enabled /\ Candidate \notin {NoNumber, line}
  BY DEF Resolve, ResolveTo, settled, Working
<1>2. transfer' = [transfer EXCEPT !.phase = "dialling", !.number = Candidate,
                                   !.remapped = FALSE]
  BY DEF Resolve, ResolveTo
<1>3. Candidate \in {transfer.read.office, transfer.read.onCall} /\ Candidate \in Maybe
  <2>1. transfer.read \in Settings
    BY DEF Typed, Transfers
  <2>2. transfer.read.office \in Maybe /\ transfer.read.onCall \in Maybe
    <3>1. CASE transfer.read = NoSettings
      BY <3>1 DEF NoSettings, Maybe
    <3>2. CASE transfer.read # NoSettings
      BY <2>1, <3>2 DEF Settings
    <3>3. QED BY <3>1, <3>2
  <2>3. QED BY <2>2 DEF Candidate
<1>4. /\ transfer' \in Transfers /\ transfer'.phase = "dialling"
      /\ transfer'.id = transfer.id /\ transfer'.policy = transfer.policy
      /\ transfer'.forgets = transfer.forgets /\ transfer'.read = transfer.read
      /\ transfer'.changed = transfer.changed /\ transfer'.number = Candidate
  BY <1>2, <1>3 DEF Typed, Transfers, Deep
<1>5. /\ k \in Ids /\ talk.rows \in Rows /\ talk.rows[k].policy = transfer.policy
      /\ Initiated(talk.rows) = {}
  BY <1>1 DEF TransferIInv, UnderWay, TalkOnce, Typed, Turns, Deep
<1>6. /\ row \in [status : Statuses, policy : BOOLEAN]
      /\ row.status = "resolved" /\ row.policy = transfer.policy
  BY <1>5 DEF Rows, Statuses
<1>7. talk' = [talk EXCEPT !.rows = rows]
  BY DEF Resolve, ResolveTo
<1> HIDE DEF row
<1>8. rows \in Rows /\ rows[k] = row /\ \A i \in Ids : i # k => rows[i] = talk.rows[i]
  BY <1>5, <1>6 DEF Rows
<1> HIDE DEF rows
<1>9. /\ talk' \in Turns /\ talk'.open /\ talk'.rows = rows /\ talk'.ticket = talk.ticket
      /\ talk'.forgets = talk.forgets
  BY <1>1, <1>7, <1>8 DEF Typed, Turns
<1>10. Initiated(talk'.rows) = {}
  BY <1>5, <1>6, <1>8, <1>9 DEF Initiated
<1>11. Typed'
  BY <1>1, <1>4, <1>9 DEF Typed
<1>12. UnderWay' /\ RowsEnd'
  BY <1>1, <1>4, <1>5, <1>6, <1>8, <1>9 DEF TransferIInv, UnderWay, RowsEnd, Deep
<1>13. TalkOnce' /\ Ticketed'
  BY <1>1, <1>4, <1>9, <1>10 DEF TransferIInv, TalkOnce, Ticketed
<1>14. Counted'
  BY <1>1, <1>4, <1>5, <1>9, <1>10 DEF TransferIInv, Counted, Some, Initiated
<1>15. Knows' /\ NoLoop'
  BY <1>1, <1>3, <1>4 DEF TransferIInv, Knows, NoLoop, Working, Deep
<1>16. QED BY <1>1, <1>11, <1>12, <1>13, <1>14, <1>15, TablesStay DEF TransferIInv

LEMMA AcceptedIInv ==
  ASSUME TransferIInv, Accepted
  PROVE  TransferIInv'
<1> Typed
  BY DEF TransferIInv
<1>1. /\ settings' = settings /\ line' = line /\ admin' = admin /\ changes' = changes
      /\ attempts' = attempts /\ ticket' = ticket /\ talk' = talk
      /\ talk.open /\ transfer.phase = "dialling"
  BY DEF Accepted, settled, Working
<1>2. /\ transfer' \in Transfers /\ transfer'.phase = "accepted"
      /\ transfer'.id = transfer.id /\ transfer'.policy = transfer.policy
      /\ transfer'.forgets = 1 /\ transfer'.read = transfer.read
      /\ transfer'.changed = transfer.changed
  <2>1. transfer' = [transfer EXCEPT !.phase = "accepted", !.forgets = 1]
    BY DEF Accepted
  <2>2. transfer \in Transfers
    BY DEF Typed
  <2>3. 1 \in 0..1 /\ "accepted" \in {"none", "reading"} \union Deep
    BY DEF Deep
  <2>4. QED BY <2>1, <2>2, <2>3 DEF Transfers
<1>3. /\ moves' \in [all : Nat, forgotten : Nat] /\ moves'.all = moves.all + 1
      /\ moves'.forgotten = moves.forgotten
  BY DEF Accepted, Typed
<1>4. transfer.forgets = 0 /\ talk.forgets \in Nat /\ moves.all \in Nat /\ moves.forgotten \in Nat
  BY <1>1 DEF TransferIInv, UnderWay, Typed, Turns
<1>5. Typed'
  BY <1>1, <1>2, <1>3 DEF Typed
<1>6. UnderWay' /\ RowsEnd' /\ TalkOnce' /\ Ticketed'
  BY <1>1, <1>2 DEF TransferIInv, UnderWay, RowsEnd, TalkOnce, Ticketed, Initiated, Deep
<1>7. Counted'
  <2>1. Some(attempts) \in Nat /\ Some(talk.rows) \in Nat
    BY DEF Some
  <2>2. Some(attempts)' = Some(attempts) /\ Some(talk.rows)' = Some(talk.rows)
    BY <1>1 DEF Some, Initiated
  <2>3. QED
    BY <1>1, <1>2, <1>3, <1>4, <2>1, <2>2 DEF TransferIInv, Counted
<1>8. Knows' /\ NoLoop'
  BY <1>1, <1>2 DEF TransferIInv, Knows, NoLoop, Working, Deep
<1>9. QED BY <1>1, <1>5, <1>6, <1>7, <1>8, TablesStay DEF TransferIInv

-----------------------------------------------------------------------------
(* A tool returns or fails, and the turn ends.                             *)

LEMMA SomeIsNat == \A rows : Some(rows) \in {0, 1}
BY DEF Some

LEMMA EndIInv ==
  ASSUME TransferIInv, RefusePolicy \/ NoDestination \/ SaveAccepted \/ NotAccepted
  PROVE  TransferIInv'
<1> Typed /\ UnderWay
  BY DEF TransferIInv
<1>1. /\ talk.open /\ transfer.phase \in Deep
      /\ moves.all \in Nat /\ moves.forgotten \in Nat
      /\ talk.forgets \in Nat /\ transfer.forgets \in Nat
  BY DEF RefusePolicy, NoDestination, SaveAccepted, NotAccepted, Working, Deep, Typed,
         Turns, Transfers
<1>2. PICK status \in Terminal, moved \in 0..1 :
        /\ End(status)
        /\ status = "initiated" <=> transfer.phase = "accepted"
        /\ moves' = [all |-> moves.all + moved, forgotten |-> moves.forgotten + moved]
  <2>1. CASE NotAccepted
    BY <2>1 DEF NotAccepted, Working, Terminal
  <2>2. moves = [all |-> moves.all + 0, forgotten |-> moves.forgotten + 0]
    BY DEF Typed
  <2>3. CASE RefusePolicy \/ NoDestination \/ SaveAccepted
    BY <2>2, <2>3 DEF RefusePolicy, NoDestination, SaveAccepted, Working, Terminal
  <2>4. QED BY <2>1, <2>3
<1>3. /\ talk' \in Turns /\ talk'.open = talk.open /\ talk'.ticket = talk.ticket
      /\ talk'.forgets = talk.forgets + transfer.forgets
      /\ talk'.rows[transfer.id].status = status
      /\ talk'.rows[transfer.id].policy = transfer.policy
      /\ \A i \in Ids : i # transfer.id => talk'.rows[i] = talk.rows[i]
      /\ transfer' = NoTransfer /\ attempts' = attempts /\ ticket' = ticket
      /\ settings' = settings /\ line' = line /\ admin' = admin /\ changes' = changes
  BY <1>1, <1>2, EndEffect
<1>4. /\ transfer.id \in Ids /\ Initiated(talk.rows) = {}
      /\ transfer.forgets = IF status = "initiated" THEN 1 ELSE 0
  BY <1>1, <1>2 DEF TransferIInv, UnderWay, TalkOnce, Deep
<1>5. Initiated(talk'.rows) = IF status = "initiated" THEN {transfer.id} ELSE {}
  BY <1>3, <1>4 DEF Initiated
<1>6. Typed'
  BY <1>1, <1>2, <1>3, Nothing DEF Typed
<1>7. UnderWay' /\ Knows' /\ NoLoop'
  BY <1>1, <1>3, Nothing DEF UnderWay, Knows, NoLoop, Working, Deep
<1>8. RowsEnd'
  BY <1>2, <1>3 DEF TransferIInv, RowsEnd
<1>9. TalkOnce'
  BY <1>3, <1>5, Nothing DEF TalkOnce
<1>10. Ticketed'
  <2>1. status = "initiated" /\ transfer.policy => talk.ticket
    BY <1>1, <1>2 DEF TransferIInv, Ticketed
  <2>2. QED BY <1>3, <1>5, <2>1, Nothing DEF Ticketed
<1>11. Counted'
  <2>1. /\ Some(attempts)' = Some(attempts) /\ Some(attempts) \in {0, 1}
        /\ Some(talk.rows) = 0
        /\ Some(talk.rows)' = transfer.forgets
    BY <1>3, <1>4, <1>5 DEF Some, Initiated
  <2>2. transfer'.forgets = 0 /\ moves'.all = moves.all + moved
        /\ moves'.forgotten = moves.forgotten + moved
    BY <1>2, <1>3, Nothing
  <2>3. /\ moves.all <= moves.forgotten + transfer.forgets + talk.forgets + Some(attempts)
        /\ moves.all <= moves.forgotten + transfer.forgets + Some(talk.rows)
    BY <1>1 DEF TransferIInv, Counted
  <2>4. QED BY <1>1, <1>3, <2>1, <2>2, <2>3 DEF Counted
<1>12. QED BY <1>3, <1>6, <1>7, <1>8, <1>9, <1>10, <1>11, TablesStay DEF TransferIInv

LEMMA ToolFailsIInv ==
  ASSUME TransferIInv, ToolFails
  PROVE  TransferIInv'
<1> DEFINE rows == [i \in Ids |-> IF i = transfer.id THEN Unused ELSE talk.rows[i]]
<1> Typed
  BY DEF TransferIInv
<1>1. /\ settings' = settings /\ line' = line /\ admin' = admin /\ changes' = changes
      /\ attempts' = attempts /\ ticket' = ticket /\ transfer' = NoTransfer
      /\ talk.open /\ transfer.phase # "none"
      /\ talk' = [talk EXCEPT !.rows = rows]
  BY DEF ToolFails, settled
<1>2. /\ moves.all \in Nat /\ moves.forgotten \in Nat
      /\ talk.forgets \in Nat /\ transfer.forgets \in Nat
      /\ moves' = [moves EXCEPT !.forgotten = moves.forgotten + transfer.forgets]
  BY DEF ToolFails, Typed, Turns, Transfers
<1>3. /\ moves' \in [all : Nat, forgotten : Nat] /\ moves'.all = moves.all
      /\ moves'.forgotten = moves.forgotten + transfer.forgets
  BY <1>2 DEF Typed
<1>4. rows \in Rows
  BY Nothing DEF Typed, Turns, Rows
<1>5. \A i \in Ids : rows[i] = IF i = transfer.id THEN Unused ELSE talk.rows[i]
  OBVIOUS
<1> HIDE DEF rows
<1>6. /\ talk' \in Turns /\ talk'.open /\ talk'.rows = rows /\ talk'.ticket = talk.ticket
      /\ talk'.forgets = talk.forgets
  BY <1>1, <1>4 DEF Typed, Turns
<1>7. Initiated(talk.rows) = {} /\ Initiated(talk'.rows) = {}
  <2>1. Initiated(talk.rows) = {}
    BY <1>1 DEF TransferIInv, TalkOnce
  <2>2. QED BY <1>5, <1>6, <2>1, Nothing DEF Initiated
<1>8. Typed'
  BY <1>1, <1>3, <1>6, Nothing DEF Typed
<1>9. UnderWay' /\ Knows' /\ NoLoop'
  BY <1>1, <1>6, Nothing DEF UnderWay, Knows, NoLoop, Working, Deep
<1>10. RowsEnd'
  BY <1>5, <1>6, Nothing DEF TransferIInv, RowsEnd
<1>11. TalkOnce' /\ Ticketed'
  BY <1>1, <1>7, Nothing DEF TalkOnce, Ticketed
<1>12. Counted'
  <2>1. /\ Some(attempts)' = Some(attempts) /\ Some(attempts) \in {0, 1}
        /\ Some(talk.rows) = 0 /\ Some(talk.rows)' = 0
    BY <1>1, <1>7 DEF Some, Initiated
  <2>2. /\ moves.all <= moves.forgotten + transfer.forgets + talk.forgets + Some(attempts)
        /\ moves.all <= moves.forgotten + transfer.forgets + Some(talk.rows)
    BY <1>1 DEF TransferIInv, Counted
  <2>3. QED BY <1>1, <1>2, <1>3, <1>6, <2>1, <2>2, Nothing DEF Counted
<1>13. QED BY <1>1, <1>8, <1>9, <1>10, <1>11, <1>12, TablesStay DEF TransferIInv

LEMMA CommitTurnIInv ==
  ASSUME TransferIInv, CommitTurn
  PROVE  TransferIInv'
<1> Typed
  BY DEF TransferIInv
<1>1. /\ settings' = settings /\ line' = line /\ admin' = admin /\ changes' = changes
      /\ attempts' = talk.rows /\ ticket' = talk.ticket /\ transfer' = transfer
      /\ moves' = moves /\ talk' = NoTurn /\ talk.open /\ transfer.phase = "none"
  BY DEF CommitTurn, settled, Working
<1>2. transfer.forgets = 0 /\ transfer.id = 0 /\ Initiated(NoTurn.rows) = {}
  BY <1>1, Nothing DEF TransferIInv, UnderWay, Initiated
<1>3. Typed'
  BY <1>1, Nothing DEF Typed, Turns
<1>4. UnderWay' /\ RowsEnd'
  BY <1>1, <1>2, Nothing DEF UnderWay, RowsEnd, Deep
<1>5. TalkOnce' /\ Ticketed' /\ Knows' /\ NoLoop'
  BY <1>1, <1>2, Nothing DEF TalkOnce, Ticketed, Knows, NoLoop, Working, Deep
<1>6. Counted'
  BY <1>1, <1>2, Nothing DEF TransferIInv, Counted, Some, Initiated, Typed
<1>7. AttemptsEnd' /\ PolicyLeavesTicket'
  <2>1. \A i \in Ids : i # 0
    BY DEF Ids
  <2>2. \A i \in Ids : talk.rows[i].status \in Terminal \union {"none"}
    BY <1>2, <2>1 DEF TransferIInv, RowsEnd
  <2>3. QED
    BY <1>1, <2>2 DEF TransferIInv, TalkOnce, Ticketed, AttemptsEnd, PolicyLeavesTicket
<1>8. QED BY <1>3, <1>4, <1>5, <1>6, <1>7 DEF TransferIInv

LEMMA UndoTurnIInv ==
  ASSUME TransferIInv, UndoTurn
  PROVE  TransferIInv'
<1> Typed
  BY DEF TransferIInv
<1>1. /\ settings' = settings /\ line' = line /\ admin' = admin /\ changes' = changes
      /\ attempts' = attempts /\ ticket' = ticket /\ transfer' = NoTransfer
      /\ talk' = NoTurn
  BY DEF UndoTurn, settled
<1>2. /\ moves.all \in Nat /\ moves.forgotten \in Nat
      /\ talk.forgets \in Nat /\ transfer.forgets \in Nat
      /\ moves' = [moves EXCEPT !.forgotten =
                     moves.forgotten + transfer.forgets + talk.forgets]
  BY DEF UndoTurn, Typed, Turns, Transfers
<1>3. /\ moves' \in [all : Nat, forgotten : Nat] /\ moves'.all = moves.all
      /\ moves'.forgotten = moves.forgotten + transfer.forgets + talk.forgets
  BY <1>2 DEF Typed
<1>4. Initiated(NoTurn.rows) = {}
  BY Nothing DEF Initiated
<1>5. Typed'
  BY <1>1, <1>3, Nothing DEF Typed
<1>6. UnderWay' /\ RowsEnd'
  BY <1>1, Nothing DEF UnderWay, RowsEnd, Deep
<1>7. TalkOnce' /\ Ticketed' /\ Knows' /\ NoLoop'
  BY <1>1, <1>4, Nothing DEF TalkOnce, Ticketed, Knows, NoLoop, Working, Deep
<1>8. Counted'
  <2>1. Some(attempts)' = Some(attempts) /\ Some(attempts) \in {0, 1}
    BY <1>1 DEF Some, Initiated
  <2>2. moves.all <= moves.forgotten + transfer.forgets + talk.forgets + Some(attempts)
    BY DEF TransferIInv, Counted
  <2>3. QED BY <1>1, <1>2, <1>3, <2>1, <2>2, Nothing DEF Counted
<1>9. QED BY <1>1, <1>5, <1>6, <1>7, <1>8, TablesStay DEF TransferIInv

-----------------------------------------------------------------------------
(* Theorems.                                                               *)

\* Whatever is saved, mapped, refused, lost or undone, in whatever order, the
\* tables, the open turn and its transfer satisfy the inductive invariant.
THEOREM TransferInductive == TransferSpec => []TransferIInv
<1>1. TransferInit => TransferIInv
  BY InitTransferIInv
<1>2. TransferIInv /\ [TransferNext]_transferVars => TransferIInv'
  <2> SUFFICES ASSUME TransferIInv, [TransferNext]_transferVars
               PROVE  TransferIInv'
    OBVIOUS
  <2>1. CASE \/ \E s \in Settings : CheckSettings(s)
             \/ SaveSettings \/ DeleteSettings
             \/ \E n \in Numbers : MapLine(n)
    BY <2>1, CheckSettingsIInv, AroundIInv
  <2>2. CASE BeginTurn \/ RecordTicket \/ CommitTurn \/ UndoTurn
    BY <2>2, BeginTurnIInv, RecordTicketIInv, CommitTurnIInv, UndoTurnIInv
  <2>3. CASE \/ \E policy \in BOOLEAN : Request(policy)
             \/ \E i \in Ids : ReadSettings(i)
    BY <2>3, RequestIInv, ReadSettingsIInv
  <2>4. CASE RefusePolicy \/ NoDestination \/ SaveAccepted \/ NotAccepted
    BY <2>4, EndIInv
  <2>5. CASE ReadHours \/ Resolve \/ Accepted \/ ToolFails
    BY <2>5, ReadHoursIInv, ResolveIInv, AcceptedIInv, ToolFailsIInv
  <2>6. CASE UNCHANGED transferVars
    <3>1. Typed' /\ UnderWay' /\ Counted' /\ Knows' /\ NoLoop'
      BY <2>6 DEF transferVars, settled, TransferIInv, Typed, UnderWay, Counted, Knows,
                  NoLoop, Working, Some, Initiated
    <3>2. RowsEnd' /\ TalkOnce' /\ Ticketed' /\ AttemptsEnd' /\ PolicyLeavesTicket'
      BY <2>6 DEF transferVars, settled, TransferIInv, RowsEnd, TalkOnce, Ticketed,
                  AttemptsEnd, PolicyLeavesTicket, Initiated
    <3>3. QED BY <3>1, <3>2 DEF TransferIInv
  <2>7. QED BY <2>1, <2>2, <2>3, <2>4, <2>5, <2>6 DEF TransferNext
<1>3. QED BY <1>1, <1>2, PTL DEF TransferSpec

\* For any numbers, attempts and failures: no attempt outlives its turn unended
\* and at most one succeeded, the policy hands over only a call with a ticket,
\* every move is on record but those whose answer was lost, and the number dialled
\* is a current one and not the assistant's own, as far as transfer could know.
THEOREM TransferSafe == TransferSpec => []TransferInv
<1>1. TransferIInv => TransferInv
  <2> SUFFICES ASSUME TransferIInv PROVE TransferInv
    OBVIOUS
  <2>1. TransferTypeOK
    <3>1. /\ transfer.read \in Settings /\ transfer.number \in Maybe
          /\ talk.rows \in Rows /\ talk.ticket \in BOOLEAN
          /\ transfer.phase \in {"none", "reading"} \union Deep
      BY DEF TransferIInv, Typed, Transfers, Turns
    <3>2. QED
      BY <3>1 DEF TransferIInv, TransferTypeOK, Typed, UnderWay, Rows, Deep, Statuses
  <2>2. AttemptsEnd /\ PolicyLeavesTicket
    BY DEF TransferIInv
  <2>3. MovesAccountedFor
    <3> SUFFICES ASSUME ~talk.open PROVE moves.all <= moves.forgotten + 1
      BY DEF MovesAccountedFor
    <3>1. transfer.forgets = 0 /\ talk.forgets = 0
      BY Nothing DEF TransferIInv, UnderWay
    <3>2. moves.all <= moves.forgotten + 0 + 0 + Some(attempts)
      BY <3>1 DEF TransferIInv, Counted
    <3>3. moves.all \in Nat /\ moves.forgotten \in Nat
      BY DEF TransferIInv, Typed
    <3>4. QED BY <3>2, <3>3, SomeIsNat
  <2>4. DialsWhatIsCurrent
    BY DEF TransferIInv, DialsWhatIsCurrent, DialsCurrentSettings, Knows, Working, Deep
  <2>5. QED BY <2>1, <2>2, <2>3, <2>4 DEF TransferInv
<1>2. QED BY <1>1, TransferInductive, PTL
=============================================================================
