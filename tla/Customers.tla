----------------------------- MODULE Customers -----------------------------
(***************************************************************************)
(* The customer records of one organization.  At the end of every turn the *)
(* number the caller stated is looked up, a customer is created or what it *)
(* lacks is filled in, and the call's ticket or appointment is linked to   *)
(* it; in a savepoint, in the turn's transaction.  Turns of several calls, *)
(* and staff who create and edit customers, do so at once.                 *)
(***************************************************************************)
EXTENDS Naturals

CONSTANTS
  Callers,       \* the calls, each with its conversation
  Dialled,       \* the numbers callers state, in canonical form
  Unstated,      \* no number
  MaxCustomers,  \* bound: customers created
  MaxTalks,      \* bound: turns of all calls
  MaxEdits       \* bound: what staff send

ASSUME CustomersAssumption ==
  /\ Unstated \notin Dialled \union [number : Dialled, typed : BOOLEAN]
  /\ Callers \intersect {"blank", "staff"} = {}
  /\ {MaxCustomers, MaxTalks, MaxEdits} \subseteq Nat

VARIABLES
  customer,   \* the customers table
  job,        \* the ticket or appointment of each call, and its customer
  sync,       \* the turn each call has under way, and its sync
  edit,       \* the staff's request, if any
  synced,     \* history: the last sync of the call ended well, with a number
  talks, edits

customersVars == <<customer, job, sync, edit, synced, talks, edits>>

CustomerIds == 1..MaxCustomers

\* A phone number as it is stored: canonical, or as staff typed it.
Phones == [number : Dialled, typed : BOOLEAN]
Canonical(number) == [number |-> number, typed |-> FALSE]

\* name: the full name, and likewise the address: as staff typed it, or as it was said
\* in a call, no two the same.
Names == {"blank", "staff"} \union Callers
NoCustomer == [phone |-> Unstated, name |-> "blank"]
Customer == [phone : Phones, name : Names]

NoJob == [there |-> FALSE, customer |-> 0]

\* at: how far it is; number, heard: what the outcome says; row, seen: the
\* customer, as it was read; made: the row it has inserted; fills: it has written
\* the name, and holds the row; edited: history, staff or another call's turn have
\* saved the row since.
NoSync == [at |-> "none", number |-> Unstated, heard |-> FALSE, job |-> NoJob,
           row |-> 0, seen |-> NoCustomer, made |-> 0, fills |-> FALSE,
           edited |-> FALSE, done |-> FALSE]

\* row: the customer, 0 for a new one; seen: as it was read; form: what is sent.
NoEdit == [at |-> "none", row |-> 0, seen |-> NoCustomer, form |-> NoCustomer]

CustomersInit ==
  /\ customer = [i \in CustomerIds |-> NoCustomer]
  /\ job = [c \in Callers |-> NoJob]
  /\ sync = [c \in Callers |-> NoSync]
  /\ edit = NoEdit
  /\ synced = [c \in Callers |-> FALSE]
  /\ talks = 0
  /\ edits = 0

Stored == {i \in CustomerIds : customer[i] # NoCustomer}
WithPhone(phone) == {i \in Stored : customer[i].phone = phone}

\* Rows that are inserted and not yet committed.
Inserted ==
  {i \in CustomerIds : \/ \E c \in Callers : sync[c].made = i
                      \/ <<edit.at, edit.row>> = <<"created", i>>}

NextId(i) ==
  /\ i \notin Stored \union Inserted
  /\ \A j \in CustomerIds : j < i => j \in Stored \union Inserted

\* Somebody has written the key and not yet committed.
KeyPending(phone) ==
  \/ \E c \in Callers : sync[c].made # 0 /\ Canonical(sync[c].number) = phone
  \/ edit.at \in {"created", "updated"} /\ edit.form.phone = phone
  \/ edit.at = "updated" /\ edit.seen.phone = phone

RowHeld(i) ==
  \/ \E c \in Callers : sync[c].fills /\ sync[c].row = i
  \/ edit.at = "updated" /\ edit.row = i

-----------------------------------------------------------------------------
(* The sync at the end of a turn.                                          *)

OnlySync == UNCHANGED <<customer, job, edit, synced, talks, edits>>

SyncIs(c, s) == sync' = [sync EXCEPT ![c] = s]

\* The outcome states a number or not, and the turn may have opened a ticket.
BeginTalk(c, number, heard, opens) ==
  /\ sync[c].at = "none"
  /\ talks < MaxTalks
  /\ talks' = talks + 1
  /\ SyncIs(c, [NoSync EXCEPT !.at = IF number = Unstated THEN "ready" ELSE "finding",
                              !.number = number, !.heard = heard,
                              !.job = [job[c] EXCEPT !.there = job[c].there \/ opens]])
  /\ UNCHANGED <<customer, job, edit, synced, edits>>

Found(c, at) ==
  \E i \in WithPhone(Canonical(sync[c].number)) :
    SyncIs(c, [sync[c] EXCEPT !.at = at, !.row = i, !.seen = customer[i]])

FindCustomer(c) ==
  /\ sync[c].at = "finding"
  /\ IF WithPhone(Canonical(sync[c].number)) = {}
     THEN SyncIs(c, [sync[c] EXCEPT !.at = "creating"])
     ELSE Found(c, "filling")
  /\ OnlySync

\* Whoever has the key uncommitted is waited for.
CreateCustomer(c, i) ==
  /\ sync[c].at = "creating"
  /\ ~KeyPending(Canonical(sync[c].number))
  /\ WithPhone(Canonical(sync[c].number)) = {}
  /\ NextId(i)
  /\ SyncIs(c, [sync[c] EXCEPT !.at = "linking", !.row = i, !.made = i])
  /\ OnlySync

\* Another was first: only the insert is undone.
CreateConflict(c) ==
  /\ sync[c].at = "creating"
  /\ ~KeyPending(Canonical(sync[c].number))
  /\ WithPhone(Canonical(sync[c].number)) # {}
  /\ SyncIs(c, [sync[c] EXCEPT !.at = "finding again"])
  /\ OnlySync

\* Mutant: the loser takes the turn to have nothing to link.
FindAgainUnlinked(c) ==
  /\ sync[c].at = "finding again"
  /\ WithPhone(Canonical(sync[c].number)) # {}
  /\ SyncIs(c, [sync[c] EXCEPT !.at = "ready", !.done = TRUE])
  /\ OnlySync

\* The other's is used as it is; if staff have changed its number meanwhile, the
\* sync fails.
FindAgain(c) ==
  /\ sync[c].at = "finding again"
  /\ Found(c, "linking")
  /\ OnlySync

FillTo(c, fills) == SyncIs(c, [sync[c] EXCEPT !.at = "linking", !.fills = fills])

\* Mutant: what the caller says now replaces what there is.
FillInAlways(c) ==
  /\ sync[c].at = "filling"
  /\ sync[c].heard => ~RowHeld(sync[c].row)
  /\ FillTo(c, sync[c].heard)
  /\ OnlySync

\* A name is written only where there was none, over whatever is there by now.
FillIn(c) ==
  /\ sync[c].at = "filling"
  /\ LET fills == sync[c].heard /\ sync[c].seen.name = "blank"
     IN  /\ fills => ~RowHeld(sync[c].row)
         /\ FillTo(c, fills)
  /\ OnlySync

Linked(work, row) == [work EXCEPT !.customer = row]

\* Mutant: the last customer of a call takes its ticket.
LinkAlways(c) ==
  /\ sync[c].at = "linking"
  /\ LET work == sync[c].job
     IN  SyncIs(c, [sync[c] EXCEPT !.at = "ready", !.done = TRUE,
                     !.job = IF work.there THEN Linked(work, sync[c].row) ELSE work])
  /\ OnlySync

\* The ticket and the appointment that have no customer get this one.
Link(c) ==
  /\ sync[c].at = "linking"
  /\ LET work == sync[c].job
     IN  SyncIs(c, [sync[c] EXCEPT !.at = "ready", !.done = TRUE,
                     !.job = IF work.there /\ work.customer = 0
                             THEN Linked(work, sync[c].row) ELSE work])
  /\ OnlySync

\* The sync fails and is undone; the turn goes on.
SyncFails(c) ==
  /\ sync[c].at \notin {"none", "ready"}
  /\ SyncIs(c, [NoSync EXCEPT !.at = "ready", !.number = sync[c].number,
                              !.job = sync[c].job])
  /\ OnlySync

CommitTalk(c) ==
  /\ sync[c].at = "ready"
  /\ LET s == sync[c]
         Saves(d) == s.fills /\ sync[d].row = s.row
     IN  /\ customer' = [i \in CustomerIds |->
              CASE i = s.made /\ s.made # 0 ->
                     [phone |-> Canonical(s.number),
                      name |-> IF s.heard THEN c ELSE "blank"]
                [] i = s.row /\ s.fills -> [customer[i] EXCEPT !.name = c]
                [] OTHER -> customer[i]]
         /\ job' = [job EXCEPT ![c] = s.job]
         /\ synced' = [synced EXCEPT ![c] = s.done]
         /\ sync' = [d \in Callers |->
              CASE d = c -> NoSync
                [] d # c /\ Saves(d) -> [sync[d] EXCEPT !.edited = TRUE]
                [] OTHER -> sync[d]]
  /\ UNCHANGED <<edit, talks, edits>>

LoseTalk(c) ==
  /\ sync[c].at # "none"
  /\ SyncIs(c, NoSync)
  /\ OnlySync

-----------------------------------------------------------------------------
(* Staff.                                                                  *)

OnlyEdit == UNCHANGED <<customer, job, sync, synced, talks>>

\* A form is sent: for a customer, as it is read now, or for a new one.
SendForm(row, form) ==
  /\ edit.at = "none"
  /\ edits < MaxEdits
  /\ edits' = edits + 1
  /\ row \in Stored \union {0}
  /\ form.name \in Callers => row # 0 /\ form.name = customer[row].name
  /\ edit' = [at |-> "read", row |-> row, form |-> form,
              seen |-> IF row = 0 THEN NoCustomer ELSE customer[row]]
  /\ OnlyEdit

NewKey == edit.form.phone # edit.seen.phone

\* Written, unless another customer has the number.
WriteForm(i) ==
  /\ edit.at = "read"
  /\ IF edit.row = 0 THEN NextId(i) ELSE i = edit.row /\ ~RowHeld(i)
  /\ NewKey => ~KeyPending(edit.form.phone)
  /\ IF NewKey /\ WithPhone(edit.form.phone) # {}
     THEN edit' = NoEdit
     ELSE edit' = [edit EXCEPT !.at = IF edit.row = 0 THEN "created" ELSE "updated",
                               !.row = i]
  /\ UNCHANGED edits
  /\ OnlyEdit

\* Of a customer only the columns that differ from what was read are written.
CommitForm ==
  /\ edit.at \in {"created", "updated"}
  /\ LET was == customer[edit.row]
     IN  customer' = [customer EXCEPT ![edit.row] =
           [phone |-> IF NewKey THEN edit.form.phone ELSE was.phone,
            name |-> IF edit.form.name # edit.seen.name
                     THEN edit.form.name ELSE was.name]]
  /\ sync' = [c \in Callers |->
       IF sync[c].row = edit.row THEN [sync[c] EXCEPT !.edited = TRUE] ELSE sync[c]]
  /\ edit' = NoEdit
  /\ UNCHANGED <<job, synced, talks, edits>>

LoseForm ==
  /\ edit.at # "none"
  /\ edit' = NoEdit
  /\ UNCHANGED edits
  /\ OnlyEdit

CustomersNext ==
  \/ \E c \in Callers :
       \/ \E number \in Dialled \union {Unstated}, heard, opens \in BOOLEAN :
            BeginTalk(c, number, heard, opens)
       \/ \E i \in CustomerIds : CreateCustomer(c, i)
       \/ FindCustomer(c) \/ CreateConflict(c) \/ FindAgain(c) \/ FillIn(c)
       \/ Link(c) \/ SyncFails(c) \/ CommitTalk(c) \/ LoseTalk(c)
  \/ \E row \in CustomerIds \union {0}, phone \in Phones, name \in Names :
       SendForm(row, [phone |-> phone, name |-> name])
  \/ \E i \in CustomerIds : WriteForm(i)
  \/ CommitForm \/ LoseForm

CustomersSpec == CustomersInit /\ [][CustomersNext]_customersVars

-----------------------------------------------------------------------------
(* Properties.                                                             *)

\* Every variable holds what the code can put there; no two customers have the
\* same number, as it is stored.
CustomersTypeOK ==
  /\ \A i \in CustomerIds : customer[i] \in Customer \union {NoCustomer}
  /\ job \in [Callers -> [there : BOOLEAN, customer : 0..MaxCustomers]]
  /\ \A c \in Callers :
       /\ sync[c].at \in {"none", "finding", "creating", "finding again", "filling",
                          "linking", "ready"}
       /\ {sync[c].row, sync[c].made, sync[c].job.customer} \subseteq 0..MaxCustomers
       /\ job[c].customer # 0 => job[c].customer \in Stored
  /\ edit.at \in {"none", "read", "created", "updated"}
  /\ synced \in [Callers -> BOOLEAN]
  /\ \A i, j \in Stored : customer[i].phone = customer[j].phone => i = j

Speaking(c) == sync[c].at # "none" /\ sync'[c].at = "none" /\ customer' # customer

\* A turn replaces a name, of staff or of another call, only if it was saved after the
\* turn had read the row: one that was there by then stays, whoever of the calls and the
\* staff is at the row besides (_backfill_contact_details). Of one saved later the
\* docstring's "A staff correction therefore always wins over the AI" is not so: the turn
\* writes its own over it (backfill), and this says nothing of that.
CorrectionsWin ==
  [][\A c \in Callers, i \in CustomerIds :
       Speaking(c) /\ i \in Stored /\ customer'[i] # customer[i] =>
         \/ customer[i].name = "blank"
         \/ sync[c].edited]_customersVars

\* Once a sync has ended well the work of the call has a customer, whoever else
\* was creating it (sync_customer_from_outcome, _link_existing_activity).
WorkHasCustomer ==
  \A c \in Callers : synced[c] /\ job[c].there => job[c].customer # 0

\* Work once linked is not taken to another customer, whatever number the caller
\* gives later.
LinksStay ==
  [][\A c \in Callers : job[c].customer # 0 => job'[c].customer = job[c].customer
    ]_customersVars

\* Types, one customer to a stored number, and a customer for the work of a call.
CustomersInv == CustomersTypeOK /\ WorkHasCustomer

-----------------------------------------------------------------------------
(* What a comment says and the code does not do.                           *)

\* One caller has one customer (customer_service.py: "a key is only useful if
\* every writer agrees on it").
CallersNotSplit ==
  \A i, j \in Stored : customer[i].phone.number = customer[j].phone.number => i = j
=============================================================================
