------------------------------ MODULE Catalogue ------------------------------
(***************************************************************************)
(* What an organization tells the assistant about itself, and the forms of *)
(* the dashboard it is edited in: services, emergency keywords, FAQs,      *)
(* service areas, the exceptions to the weekly hours, the hours of a day,  *)
(* the profile.  A behaviour is about one of these kinds.                  *)
(*                                                                         *)
(* Browser tabs load the rows once and send changes.  A change is one      *)
(* transaction: it loads its row, writes what differs from the row as      *)
(* loaded, is answered, and commits after that.                            *)
(***************************************************************************)
EXTENDS Naturals

CONSTANTS
  Tabs,       \* the tabs the page is open in
  Keys,       \* names, phrases, dates
  Only,       \* the key of what an organization has one row of
  NotGiven,   \* a value that is left out
  Values,     \* and the values that are not
  MaxRows,    \* bound: rows ever inserted
  MaxSaves,   \* bound: changes sent
  MaxSaveFaults  \* bound: requests that fail for no reason of their own

ASSUME CatalogueAssumption ==
  /\ NotGiven \notin Values /\ Only \notin Keys /\ NotGiven \notin Keys \union {Only}
  /\ {MaxRows, MaxSaves, MaxSaveFaults} \subseteq Nat

VARIABLES
  kind,        \* what is edited
  rows,        \* its table
  tabs,        \* what each tab shows, and its load
  saves,       \* the change each tab has sent
  saved,       \* changes sent
  saveFaults,  \* requests that failed
  \* history
  lastForm,    \* for each row, what the last change committed asked for
  mixed,       \* rows written by a change that had loaded an older one
  behind       \* <<tab, row>>: the row changed behind the tab's back

catalogueVars == <<kind, rows, tabs, saves, saved, saveFaults, lastForm, mixed, behind>>
savesHistory == <<lastForm, mixed, behind>>

Ids == 1..MaxRows
Columns == {"key", "flag", "value"}
Row == [key : Keys \union {Only}, flag : BOOLEAN, value : Values \union {NotGiven}]
NoRow == [key |-> NotGiven, flag |-> FALSE, value |-> NotGiven]
NoRows == [i \in Ids |-> NoRow]

Named == {row \in Row : row.key # Only /\ ~row.flag}

\* An area has a postal code or a city.
AreaForms == {row \in Named : row.value # NotGiven}

\* The flag of hours says closed; open ones have their times.
HoursForms == {row \in Row : row.flag \/ row.value # NotGiven}

\* The dialog sends no times of a day that is closed.
ExceptionForms ==
  {row \in HoursForms : row.key # Only /\ (row.flag => row.value = NotGiven)}

\* One row stands for the week: a form has all its days.
WeekForms == {row \in HoursForms : row.key = Only}

ProfileForms == {row \in Row : row.key = Only}

Forms == [services |-> Named, keywords |-> Named, faqs |-> Named, areas |-> AreaForms,
          exceptions |-> ExceptionForms, hours |-> WeekForms, profile |-> ProfileForms]

\* op: what is asked of row id; loaded: the row as the transaction read it;
\* result: as it wrote it; answered: whether the tab has the answer; early:
\* whether it was sent before the tab's load ended.
NoSave == [at |-> "none", op |-> "none", id |-> 0, form |-> NoRow, loaded |-> NoRow,
           result |-> NoRow, answered |-> FALSE, early |-> FALSE]

CatalogueInit ==
  /\ kind \in DOMAIN Forms
  /\ rows \in {NoRows} \union {[NoRows EXCEPT ![1] = row] : row \in Forms[kind]}
  /\ tabs = [t \in Tabs |-> [load |-> "asked", read |-> NoRows, shown |-> NoRows]]
  /\ saves = [t \in Tabs |-> NoSave]
  /\ saved = 0
  /\ saveFaults = 0
  /\ lastForm = rows
  /\ mixed = {}
  /\ behind = {}

TabIs(t, tab) == tabs' = [tabs EXCEPT ![t] = tab]
SaveIs(t, save) == saves' = [saves EXCEPT ![t] = save]

SaveFault == saveFaults < MaxSaveFaults /\ saveFaults' = saveFaults + 1

-----------------------------------------------------------------------------
(* A tab loads the rows.                                                   *)

ReadRows(t) ==
  /\ tabs[t].load = "asked"
  /\ TabIs(t, [tabs[t] EXCEPT !.load = "read", !.read = rows])
  /\ behind' = {b \in behind : b[1] # t}
  /\ UNCHANGED <<kind, rows, saves, saved, saveFaults, lastForm, mixed>>

\* They replace whatever the tab shows.
ShowRows(t) ==
  /\ tabs[t].load = "read"
  /\ TabIs(t, [load |-> "done", read |-> NoRows, shown |-> tabs[t].read])
  /\ UNCHANGED <<kind, rows, saves, saved, saveFaults, savesHistory>>

\* Without them the forms are still there.
LoadRowsFails(t) ==
  /\ SaveFault
  /\ tabs[t].load = "asked"
  /\ TabIs(t, [tabs[t] EXCEPT !.load = "failed"])
  /\ UNCHANGED <<kind, rows, saves, saved, savesHistory>>

LoadEnded(t) == tabs[t].load \in {"done", "failed"}

-----------------------------------------------------------------------------
(* A tab sends a change.                                                   *)

Sends(t, save) ==
  /\ saves[t] = NoSave /\ saved < MaxSaves
  /\ SaveIs(t, [save EXCEPT !.at = "sent", !.early = ~LoadEnded(t)])
  /\ saved' = saved + 1
  /\ UNCHANGED <<kind, rows, tabs, saveFaults, savesHistory>>

SendNew(t) ==
  \E form \in Forms[kind] : Sends(t, [NoSave EXCEPT !.op = "create", !.form = form])

SendEdit(t) ==
  \E i \in Ids, form \in Forms[kind] :
    /\ tabs[t].shown[i] # NoRow
    /\ Sends(t, [NoSave EXCEPT !.op = "update", !.id = i, !.form = form])

SendRemoval(t) ==
  \E i \in Ids :
    /\ tabs[t].shown[i] # NoRow
    /\ Sends(t, [NoSave EXCEPT !.op = "delete", !.id = i])

SendWhole(t) ==
  \E form \in Forms[kind] : Sends(t, [NoSave EXCEPT !.op = "upsert", !.form = form])

\* The dialog that adds a row can be opened while the others load.
ServicesTab(t) == kind = "services" /\ (SendNew(t) \/ SendEdit(t) \/ SendRemoval(t))
KeywordsTab(t) == kind = "keywords" /\ (SendNew(t) \/ SendRemoval(t))
FaqsTab(t) == kind = "faqs" /\ (SendNew(t) \/ SendEdit(t) \/ SendRemoval(t))
AreasTab(t) == kind = "areas" /\ (SendNew(t) \/ SendRemoval(t))

\* That of the exceptions, and the form of the week, cannot; the week is sent
\* whatever its load came to.
HoursTab(t) ==
  /\ LoadEnded(t)
  /\ \/ kind = "exceptions" /\ (SendNew(t) \/ SendRemoval(t))
     \/ kind = "hours" /\ SendWhole(t)

ProfileTab(t) == kind = "profile" /\ LoadEnded(t) /\ SendWhole(t)

-----------------------------------------------------------------------------
(* Its transaction.                                                        *)

\* What other transactions have written and not committed.
Uncommitted(t) ==
  {saves[u] : u \in {v \in Tabs \ {t} : saves[v].at = "written" /\ saves[v].op # "none"}}

\* A row picked by its id, or not found.
Find(t) ==
  {i \in {saves[t].id} \intersect Ids : rows[i] # NoRow}

\* The organization's one row, inserted if it is not there.
FindOnly == {i \in Ids : rows[i] # NoRow}

LoadRow(t) ==
  LET save == saves[t]
      found == IF save.op = "upsert" THEN FindOnly ELSE Find(t)
  IN  /\ save.at = "sent"
      /\ \/ \E i \in found :
              SaveIs(t, [save EXCEPT !.at = "loaded", !.id = i, !.loaded = rows[i]])
         \/ /\ found = {} /\ save.op \in {"create", "upsert"}
            /\ SaveIs(t, [save EXCEPT !.at = "loaded", !.op = "create"])
         \/ found = {} /\ save.op \in {"update", "delete"} /\ SaveIs(t, NoSave)
  /\ UNCHANGED <<kind, rows, tabs, saved, saveFaults, savesHistory>>

Loaded(t, ops) == saves[t].at = "loaded" /\ saves[t].op \in ops

\* Slip: what a form leaves out is kept.
MergedGiven(loaded, form, current) ==
  [form EXCEPT !.value = IF @ = NotGiven THEN current.value ELSE @]

\* The UPDATE names the columns that differ from the row as loaded; of the others
\* the row keeps what it has by then.
Merged(loaded, form, current) ==
  [c \in Columns |-> IF form[c] # loaded[c] THEN form[c] ELSE current[c]]

KeyTaken(i, row) == \E j \in Ids \ {i} : rows[j] # NoRow /\ rows[j].key = row.key

\* A row, or where keys are unique a key, that another transaction has written is
\* waited for.
MustWait(t, i, row, unique) ==
  \E other \in Uncommitted(t) :
    \/ other.id = i
    \/ unique /\ row.key \in {other.result.key, rows[other.id].key}

WritesRow(t, i, op, row) ==
  SaveIs(t, [saves[t] EXCEPT !.at = "written", !.op = op, !.id = i, !.result = row])

Refused(t) == SaveIs(t, NoSave)

\* A key that is taken is refused.
Insert(t, unique) ==
  LET save == saves[t]
      new == {i \in Ids : /\ rows[i] = NoRow /\ lastForm[i] = NoRow
                          /\ \A other \in Uncommitted(t) : other.id # i}
  IN  /\ Loaded(t, {"create"}) /\ new # {}
      /\ LET i == CHOOSE j \in new : \A k \in new : j <= k
         IN  /\ ~MustWait(t, i, save.form, unique)
             /\ IF unique /\ KeyTaken(i, save.form) THEN Refused(t)
                                                    ELSE WritesRow(t, i, "create", save.form)
      /\ UNCHANGED <<kind, rows, tabs, saved, saveFaults, savesHistory>>

\* So is a row that has gone.  A form that changes nothing writes nothing.
Update(t, unique) ==
  LET save == saves[t]
      same == save.form = save.loaded
      row == Merged(save.loaded, save.form, rows[save.id])
  IN  /\ Loaded(t, {"update", "upsert"})
      /\ same \/ ~MustWait(t, save.id, row, unique)
      /\ \/ /\ rows[save.id] # NoRow /\ ~(unique /\ KeyTaken(save.id, row))
            /\ WritesRow(t, save.id, IF same THEN "none" ELSE save.op, row)
         \/ /\ rows[save.id] = NoRow \/ (unique /\ KeyTaken(save.id, row))
            /\ Refused(t)
      /\ UNCHANGED <<kind, rows, tabs, saved, saveFaults, savesHistory>>

\* A row that another transaction deleted first is taken for deleted.
Delete(t) ==
  LET save == saves[t]
  IN  /\ Loaded(t, {"delete"})
      /\ ~MustWait(t, save.id, NoRow, FALSE)
      /\ WritesRow(t, save.id, "delete", NoRow)
      /\ UNCHANGED <<kind, rows, tabs, saved, saveFaults, savesHistory>>

ServicesTable(t) ==
  kind = "services" /\ (Insert(t, TRUE) \/ Update(t, TRUE) \/ Delete(t))
KeywordsTable(t) == kind = "keywords" /\ (Insert(t, TRUE) \/ Delete(t))
FaqsTable(t) == kind = "faqs" /\ (Insert(t, FALSE) \/ Update(t, FALSE) \/ Delete(t))
AreasTable(t) == kind = "areas" /\ (Insert(t, FALSE) \/ Delete(t))
ExceptionsTable(t) == kind = "exceptions" /\ (Insert(t, TRUE) \/ Delete(t))
HoursTable(t) == kind = "hours" /\ (Insert(t, TRUE) \/ Update(t, TRUE))
ProfileTable(t) == kind = "profile" /\ (Insert(t, TRUE) \/ Update(t, TRUE))

\* A load and a change of one tab may cross.
Overlapped(t) == IF saves[t].early THEN {<<t, saves[t].id>>} ELSE {}

\* The tab shows the row as it was written; the profile's form stays as it is.
SaveAnswered(t) ==
  LET save == saves[t]
  IN  /\ save.at \in {"written", "done"} /\ ~save.answered
      /\ tabs' = [tabs EXCEPT ![t].shown[save.id] =
                   IF kind = "profile" THEN save.form ELSE save.result]
      /\ SaveIs(t, IF save.at = "done" THEN NoSave ELSE [save EXCEPT !.answered = TRUE])
      /\ behind' = behind \union Overlapped(t)
      /\ UNCHANGED <<kind, rows, saved, saveFaults, lastForm, mixed>>

CommitSave(t) ==
  LET save == saves[t]
      others == {<<u, save.id>> : u \in Tabs \ {t}}
  IN  /\ save.at = "written"
      /\ \/ /\ save.op # "none"
            /\ rows' = [rows EXCEPT ![save.id] = save.result]
            /\ lastForm' = IF save.op = "delete" THEN lastForm
                           ELSE [lastForm EXCEPT ![save.id] = save.form]
            /\ mixed' = IF save.op = "create" \/ rows[save.id] = save.loaded
                        THEN mixed \ {save.id} ELSE mixed \union {save.id}
            /\ behind' = (behind \ {<<t, save.id>>}) \union others \union Overlapped(t)
         \/ save.op = "none" /\ UNCHANGED <<rows, savesHistory>>
      /\ SaveIs(t, IF save.answered THEN NoSave ELSE [save EXCEPT !.at = "done"])
      /\ UNCHANGED <<kind, tabs, saved, saveFaults>>

\* The transaction is rolled back, or the answer lost - before it has read anything
\* that is as if it was never sent: the tab may show what is
\* not stored, or not what is.
SaveFails(t) ==
  /\ SaveFault
  /\ saves[t].at \in {"loaded", "written", "done"}
  /\ Refused(t)
  /\ behind' = behind \union {<<t, saves[t].id>>}
  /\ UNCHANGED <<kind, rows, tabs, saved, lastForm, mixed>>

CatalogueNext ==
  \E t \in Tabs :
    \/ ReadRows(t) \/ ShowRows(t) \/ LoadRowsFails(t)
    \/ ServicesTab(t) \/ KeywordsTab(t) \/ FaqsTab(t) \/ AreasTab(t)
    \/ HoursTab(t) \/ ProfileTab(t)
    \/ LoadRow(t)
    \/ ServicesTable(t) \/ KeywordsTable(t) \/ FaqsTable(t) \/ AreasTable(t)
    \/ ExceptionsTable(t) \/ HoursTable(t) \/ ProfileTable(t)
    \/ SaveAnswered(t) \/ CommitSave(t) \/ SaveFails(t)

CatalogueSpec == CatalogueInit /\ [][CatalogueNext]_catalogueVars

-----------------------------------------------------------------------------
(* Properties.                                                             *)

\* Every variable holds what the code can put there.
CatalogueTypeOK ==
  /\ kind \in DOMAIN Forms
  /\ \A i \in Ids : rows[i] \in Row \union {NoRow}
  /\ \A t \in Tabs : /\ tabs[t].load \in {"asked", "read", "done", "failed"}
                     /\ saves[t].at \in {"none", "sent", "loaded", "written", "done"}
                     /\ saves[t].id \in Ids \union {0}
  /\ saved \in 0..MaxSaves /\ saveFaults \in 0..MaxSaveFaults

\* No two services, phrases, dates or days are one, however their changes cross.
KeysDiffer ==
  kind \notin {"faqs", "areas"} =>
    \A i, j \in Ids : i # j /\ rows[i] # NoRow => rows[i].key # rows[j].key

\* A row is what the last form that reached it said as a whole - so an open day
\* has its times - unless that form was sent past another (replace_weekly, the
\* repositories' update).
StoredAsSaid ==
  \A i \in Ids : rows[i] # NoRow /\ i \notin mixed => rows[i] = lastForm[i]

\* A tab that waits for nothing shows each row as it is, unless it changed behind
\* its back; a profile saved past another is shown as this tab's form has it.
ShownAsStored ==
  \A t \in Tabs, i \in Ids :
    tabs[t].load = "done" /\ saves[t] = NoSave /\ <<t, i>> \notin behind =>
      tabs[t].shown[i] = rows[i] \/ (kind = "profile" /\ i \in mixed)

\* Types, keys that stay apart, and rows as they were said and are shown.
CatalogueInv == CatalogueTypeOK /\ KeysDiffer /\ StoredAsSaid /\ ShownAsStored
=============================================================================
