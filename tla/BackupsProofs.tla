--------------------------- MODULE BackupsProofs ----------------------------
(***************************************************************************)
(* The only copy of a dump is never deleted; a cycle that storage answered *)
(* leaves no intact dump behind; health vouches for a recent copy.  For    *)
(* any number of dumps and faults, and any intervals.                      *)
(*                                                                         *)
(* All three rest on what a marker proves (MarkedIsStored).  Health needs  *)
(* the chain behind a status, too: what a cycle calls its newest dump is   *)
(* on the disk and not due (NewestKnown), it records only what is stored   *)
(* (RecordIsTrue), and dumps are as old as their names say (InOrder).      *)
(***************************************************************************)
EXTENDS Backups, TLAPS

States == {"none", "good", "spoiled"}
Dumps == [holds : Contents, made : Nat, orgs : {"unknown", "zero", "some"},
          file : States, meta : States, marker : BOOLEAN, remote : States,
          existed : BOOLEAN, gone : BOOLEAN]
Cycles == [phase : {"idle", "pruning", "dumped", "described", "planning",
                    "uploading", "putting", "verifying"},
           scheduled : BOOLEAN, ifDue : BOOLEAN, newest : 0..MaxDumps,
           todo : SUBSET Names, record : BOOLEAN, failed : BOOLEAN,
           refused : BOOLEAN]
Loops == [up : BOOLEAN, wake : Nat, ifDue : BOOLEAN]

Typed ==
  /\ now \in Nat /\ bad \in Nat /\ status \in Nat
  /\ database \in Contents
  /\ taken \in 0..MaxDumps
  /\ dump \in [Names -> Dumps]
  /\ cycle \in Cycles
  /\ loop \in Loops

\* Where a cycle is, and what it holds there.
Unpublished == cycle.phase \in {"dumped", "described"}
Sending == cycle.phase \in {"uploading", "putting", "verifying"}

InHand ==
  /\ Unpublished =>
       /\ taken > 0 /\ dump[taken].file = "none" /\ dump[taken].remote = "none"
       /\ ~dump[taken].existed /\ dump[taken].made = now
  /\ cycle.phase \in {"putting", "verifying"} => cycle.todo # {}
  /\ cycle.todo # {} => Sending
  /\ cycle.todo \subseteq Local
  /\ InPhase("putting") =>
       \A d \in Names : Oldest(d, cycle.todo) => dump[d].remote = "none"

\* Dumps not taken yet leave no trace.
Unborn ==
  \A d \in Names : d > taken =>
    /\ dump[d].file = "none" /\ dump[d].meta = "none" /\ dump[d].remote = "none"
    /\ ~dump[d].existed /\ ~dump[d].marker

\* The names are in the order of time.
InOrder ==
  /\ \A d \in Names : dump[d].made <= now
  /\ \A d, e \in Names : d <= e /\ e <= taken => dump[d].made <= dump[e].made

\* A marker is written once the object was read back, and objects stay.
MarkedIsStored == \A d \in Names : dump[d].marker => dump[d].remote = "good"

NewestKnown ==
  cycle.newest # 0 =>
    /\ InPhase("planning") \/ Sending
    /\ cycle.newest \in Local
    /\ now - dump[cycle.newest].made <= DueAge

RecordIsTrue ==
  cycle.record => cycle.newest # 0 /\ dump[cycle.newest].remote = "good"

\* Whatever is intact and not on the list has its marker.
NoneSkipped ==
  Sending /\ ~cycle.refused =>
    \A d \in Local \ cycle.todo :
      dump[d].file = "good" /\ dump[d].meta = "good" => dump[d].marker

Vouched ==
  status # 0 =>
    \E d \in Names : dump[d].remote = "good" /\ status - dump[d].made <= DueAge

BackupsIInv ==
  /\ Typed /\ InHand /\ Unborn /\ InOrder /\ MarkedIsStored
  /\ NewestKnown /\ RecordIsTrue /\ NoneSkipped /\ Vouched
  /\ OnlyCopyKept

-----------------------------------------------------------------------------
(* Initial states, and what several steps have in common.                  *)

LEMMA Bounds ==
  /\ MaxDumps \in Nat /\ MaxDumps > 0 /\ 1 \in Names
  /\ Interval \in Nat /\ DueAge \in Nat /\ RetryPause \in Nat /\ StaleAge \in Nat
  /\ MaxTime \in Nat /\ MaxFaults \in Nat
BY BackupsAssumption DEF Names

LEMMA RecordTypes ==
  /\ NoDump \in Dumps /\ NoDump.file = "none" /\ NoDump.remote = "none"
  /\ ~NoDump.existed /\ ~NoDump.marker /\ NoDump.made = 0 /\ NoDump.meta = "none"
  /\ Legacy \in Dumps /\ Legacy.file = "good" /\ Legacy.remote = "none"
  /\ ~Legacy.marker /\ Legacy.made = 1
  /\ NoCycle \in Cycles /\ NoCycle.phase = "idle" /\ NoCycle.newest = 0
  /\ NoCycle.todo = {} /\ ~NoCycle.record
<1>1. /\ NoDump \in Dumps /\ NoDump.file = "none" /\ NoDump.remote = "none"
      /\ ~NoDump.existed /\ ~NoDump.marker /\ NoDump.made = 0 /\ NoDump.meta = "none"
  BY DEF NoDump, Dumps, States, Contents
<1>2. /\ Legacy \in Dumps /\ Legacy.file = "good" /\ Legacy.remote = "none"
      /\ ~Legacy.marker /\ Legacy.made = 1
  BY <1>1 DEF Legacy, Dumps, States, Contents
<1>3. /\ NoCycle \in Cycles /\ NoCycle.phase = "idle" /\ NoCycle.newest = 0
      /\ NoCycle.todo = {} /\ ~NoCycle.record
  BY Bounds DEF NoCycle, Cycles
<1>4. QED BY <1>1, <1>2, <1>3

LEMMA InitBackupsIInv == BackupsInit => BackupsIInv
<1> SUFFICES ASSUME BackupsInit PROVE BackupsIInv
  OBVIOUS
<1>1. /\ now = 1 /\ bad = 0 /\ status = 0 /\ database = "tenants" /\ cycle = NoCycle
      /\ loop \in Loops
  BY DEF BackupsInit, Loops
<1>2. /\ taken \in {0, 1}
      /\ \A d \in Names : \/ dump[d] = NoDump
                          \/ d = 1 /\ taken = 1 /\ dump[d] = Legacy
  BY DEF BackupsInit
<1>3. Typed
  <2>1. taken \in 0..MaxDumps
    BY <1>2, Bounds
  <2>2. dump \in [Names -> Dumps]
    BY RecordTypes DEF BackupsInit
  <2>3. QED BY <1>1, <2>1, <2>2, RecordTypes DEF Typed, Contents
<1>4. InHand /\ NewestKnown /\ RecordIsTrue /\ NoneSkipped
  BY <1>1, RecordTypes DEF InHand, NewestKnown, RecordIsTrue, NoneSkipped, Unpublished,
                           Sending, InPhase, Local
<1>5. Unborn /\ InOrder /\ MarkedIsStored /\ Vouched /\ OnlyCopyKept
  BY <1>1, <1>2, RecordTypes DEF Unborn, InOrder, MarkedIsStored, Vouched, OnlyCopyKept,
                                 Names, Local, NoDump
<1>6. QED BY <1>3, <1>4, <1>5 DEF BackupsIInv

\* While no file changes, nor the clock, what is said of files stays true.
LEMMA FilesStay ==
  ASSUME BackupsIInv, dump' = dump, taken' = taken, now' = now
  PROVE  /\ Unborn' /\ InOrder' /\ MarkedIsStored' /\ OnlyCopyKept'
         /\ status' = status => Vouched'
BY DEF BackupsIInv, Unborn, InOrder, MarkedIsStored, OnlyCopyKept, Local, Vouched

\* Nothing is said of a cycle where there is none.
LEMMA NoCycleIsFine ==
  ASSUME cycle' = NoCycle
  PROVE  InHand' /\ NewestKnown' /\ RecordIsTrue' /\ NoneSkipped'
BY RecordTypes DEF InHand, NewestKnown, RecordIsTrue, NoneSkipped, Unpublished, Sending,
                   InPhase, Local

\* What a step does to one dump, its object or its files, and to no other.
OneDump(d, new) ==
  /\ dump' = [dump EXCEPT ![d] = new]
  /\ new \in Dumps
  /\ new.made = dump[d].made
  /\ dump[d].remote = "good" => new.remote = "good"

\* It stays in its place, and stays a copy of what it was if it is on the disk.
LEMMA OneDumpStays ==
  ASSUME BackupsIInv, NEW d \in Names, NEW new, OneDump(d, new),
         d <= taken, new.marker => new.remote = "good",
         new.file # "none" \/ new.remote = "good" \/ ~new.existed \/ new.gone,
         now' = now, taken' = taken, status' = status
  PROVE  Unborn' /\ InOrder' /\ MarkedIsStored' /\ OnlyCopyKept' /\ Vouched'
<1>1. /\ dump \in [Names -> Dumps] /\ dump' \in [Names -> Dumps] /\ dump'[d] = new
      /\ \A e \in Names : e # d => dump'[e] = dump[e]
  BY DEF BackupsIInv, Typed, OneDump
<1>2. \A e \in Names : /\ dump'[e].made = dump[e].made
                       /\ dump[e].remote = "good" => dump'[e].remote = "good"
  BY <1>1 DEF OneDump
<1>3. Unborn' /\ MarkedIsStored'
  BY <1>1 DEF BackupsIInv, Typed, Unborn, MarkedIsStored, OneDump, Names
<1>7. InOrder'
  BY <1>2 DEF BackupsIInv, InOrder
<1>4. OnlyCopyKept'
  BY <1>1 DEF BackupsIInv, OnlyCopyKept, Local, OneDump
<1>5. Vouched'
  <2> SUFFICES ASSUME status # 0
               PROVE  \E e \in Names : /\ dump'[e].remote = "good"
                                      /\ status - dump'[e].made <= DueAge
    BY DEF Vouched
  <2>1. PICK e \in Names : dump[e].remote = "good" /\ status - dump[e].made <= DueAge
    BY DEF BackupsIInv, Vouched
  <2>2. QED BY <1>2, <2>1
<1>6. QED BY <1>3, <1>4, <1>5, <1>7

-----------------------------------------------------------------------------
(* Steps that change the cycle alone.                                      *)

LEMMA BeginIInv ==
  ASSUME BackupsIInv, NEW scheduled \in BOOLEAN, NEW ifDue \in BOOLEAN, Begin(scheduled, ifDue)
  PROVE  BackupsIInv'
<1> Typed /\ cycle \in Cycles
  BY DEF BackupsIInv, Typed
<1>1. dump' = dump /\ taken' = taken /\ now' = now /\ status' = status
      /\ database' = database /\ bad' = bad /\ loop' = loop
  BY DEF Begin, world
<1>2. /\ cycle' \in Cycles /\ cycle'.phase = "pruning" /\ cycle'.newest = 0
      /\ cycle'.todo = {} /\ ~cycle'.record
  BY RecordTypes DEF Begin, Cycles
<1>3. Typed'
  BY <1>1, <1>2 DEF Typed
<1>4. InHand'
  BY <1>1, <1>2 DEF BackupsIInv, InHand, Unpublished, Sending, InPhase, Local, Oldest
<1>5. NewestKnown' /\ RecordIsTrue'
  BY <1>1, <1>2 DEF BackupsIInv, NewestKnown, RecordIsTrue, Sending, InPhase, Local
<1>6. NoneSkipped'
  BY <1>1, <1>2 DEF BackupsIInv, NoneSkipped, Sending, InPhase, Local
<1>7. QED BY <1>1, <1>3, <1>4, <1>5, <1>6, FilesStay DEF BackupsIInv

LEMMA NotDueIInv ==
  ASSUME BackupsIInv, NotDue
  PROVE  BackupsIInv'
<1> Typed /\ cycle \in Cycles
  BY DEF BackupsIInv, Typed
<1>1. dump' = dump /\ taken' = taken /\ now' = now /\ status' = status
      /\ database' = database /\ bad' = bad /\ loop' = loop
  BY DEF NotDue, InPhase, world
<1>2. /\ cycle' \in Cycles /\ cycle'.phase = "planning" /\ cycle.phase = "pruning"
      /\ cycle'.newest \in Local /\ now - dump[cycle'.newest].made <= DueAge
      /\ cycle'.todo = cycle.todo /\ cycle'.record = cycle.record
  <2>1. PICK n \in Names :
          /\ Newest(n, Local)
          /\ cycle' = [cycle EXCEPT !.phase = "planning", !.newest = n]
    BY DEF NotDue
  <2>2. PICK e \in Local : ~(now - dump[e].made >= DueAge)
    BY DEF NotDue, DumpIsDue
  <2>3. e \in Names /\ n \in Local /\ e <= n /\ n <= taken
    BY <2>1, <2>2 DEF Newest, Local, BackupsIInv, Unborn, Typed, Names
  <2>4. /\ dump[e].made \in Nat /\ dump[n].made \in Nat /\ dump[e].made <= dump[n].made
        /\ now \in Nat
    BY <2>3 DEF BackupsIInv, InOrder, Typed, Dumps
  <2>5. now - dump[n].made <= DueAge
    BY <2>2, <2>4, Bounds
  <2>6. n \in 0..MaxDumps
    BY Bounds DEF Names
  <2>7. QED BY <2>1, <2>3, <2>5, <2>6 DEF NotDue, InPhase, Cycles
<1>3. Typed'
  BY <1>1, <1>2 DEF Typed
<1>4. InHand'
  BY <1>1, <1>2 DEF BackupsIInv, InHand, Unpublished, Sending, InPhase, Local, Oldest
<1>5. NewestKnown' /\ RecordIsTrue'
  BY <1>1, <1>2 DEF BackupsIInv, NewestKnown, RecordIsTrue, Sending, InPhase, Local
<1>6. NoneSkipped'
  BY <1>1, <1>2 DEF BackupsIInv, NoneSkipped, Sending, InPhase, Local
<1>7. QED BY <1>1, <1>3, <1>4, <1>5, <1>6, FilesStay DEF BackupsIInv

LEMMA DumpFailsIInv ==
  ASSUME BackupsIInv, DumpFails
  PROVE  BackupsIInv'
<1> Typed /\ cycle \in Cycles
  BY DEF BackupsIInv, Typed
<1>1. dump' = dump /\ taken' = taken /\ now' = now /\ status' = status
      /\ database' = database /\ bad' = bad /\ loop' = loop
  BY DEF DumpFails, Due, InPhase, world
<1>2. /\ cycle' \in Cycles /\ cycle'.phase = "planning" /\ cycle.phase = "pruning"
      /\ cycle'.todo = cycle.todo /\ cycle'.newest = cycle.newest /\ cycle'.record = cycle.record
  BY DEF DumpFails, Due, InPhase, Cycles
<1>3. Typed'
  BY <1>1, <1>2 DEF Typed
<1>4. InHand'
  BY <1>1, <1>2 DEF BackupsIInv, InHand, Unpublished, Sending, InPhase, Local, Oldest
<1>5. NewestKnown' /\ RecordIsTrue'
  BY <1>1, <1>2 DEF BackupsIInv, NewestKnown, RecordIsTrue, Sending, InPhase, Local
<1>6. NoneSkipped'
  BY <1>1, <1>2 DEF BackupsIInv, NoneSkipped, Sending, InPhase, Local
<1>7. QED BY <1>1, <1>3, <1>4, <1>5, <1>6, FilesStay DEF BackupsIInv

LEMMA PlanIInv ==
  ASSUME BackupsIInv, Plan
  PROVE  BackupsIInv'
<1> Typed /\ cycle \in Cycles
  BY DEF BackupsIInv, Typed
<1>1. dump' = dump /\ taken' = taken /\ now' = now /\ status' = status
      /\ database' = database /\ bad' = bad /\ loop' = loop
  BY DEF Plan, InPhase, Pending, Local, world
<1>2. /\ cycle' \in Cycles /\ cycle'.phase = "uploading" /\ cycle.phase = "planning"
      /\ cycle'.todo = Pending /\ cycle'.newest = cycle.newest
      /\ cycle'.record => cycle.newest # 0 /\ cycle.newest \notin Pending
  BY DEF Plan, InPhase, Pending, Local, Cycles
<1>3. Typed'
  BY <1>1, <1>2 DEF Typed
<1>4. InHand'
  BY <1>1, <1>2 DEF BackupsIInv, InHand, Unpublished, Sending, InPhase, Local, Oldest,
                    Pending
<1>5. NewestKnown' /\ RecordIsTrue'
  BY <1>1, <1>2 DEF BackupsIInv, NewestKnown, RecordIsTrue, Sending, InPhase, Local,
                    Pending, Confirmed, MarkedIsStored
<1>6. NoneSkipped'
  BY <1>1, <1>2 DEF BackupsIInv, NoneSkipped, Sending, InPhase, Local,
                    Pending, Confirmed
<1>7. QED BY <1>1, <1>3, <1>4, <1>5, <1>6, FilesStay DEF BackupsIInv

LEMMA NoStorageIInv ==
  ASSUME BackupsIInv, NoStorage
  PROVE  BackupsIInv'
<1> Typed /\ cycle \in Cycles
  BY DEF BackupsIInv, Typed
<1>1. dump' = dump /\ taken' = taken /\ now' = now /\ status' = status
      /\ database' = database /\ bad' = bad /\ loop' = loop
  BY DEF NoStorage, InPhase, world
<1>2. /\ cycle' \in Cycles /\ cycle'.phase = "uploading" /\ cycle.phase = "planning"
      /\ cycle'.refused /\ cycle'.todo = cycle.todo /\ cycle'.newest = cycle.newest
      /\ cycle'.record = cycle.record
  BY DEF NoStorage, InPhase, Cycles
<1>3. Typed'
  BY <1>1, <1>2 DEF Typed
<1>4. InHand'
  BY <1>1, <1>2 DEF BackupsIInv, InHand, Unpublished, Sending, InPhase, Local, Oldest
<1>5. NewestKnown' /\ RecordIsTrue'
  BY <1>1, <1>2 DEF BackupsIInv, NewestKnown, RecordIsTrue, Sending, InPhase, Local
<1>6. NoneSkipped'
  BY <1>1, <1>2 DEF BackupsIInv, NoneSkipped, Sending, InPhase, Local
<1>7. QED BY <1>1, <1>3, <1>4, <1>5, <1>6, FilesStay DEF BackupsIInv

LEMMA RefuseChangedIInv ==
  ASSUME BackupsIInv, NEW d \in Names, RefuseChanged(d)
  PROVE  BackupsIInv'
<1> Typed /\ cycle \in Cycles
  BY DEF BackupsIInv, Typed
<1>1. dump' = dump /\ taken' = taken /\ now' = now /\ status' = status
      /\ database' = database /\ bad' = bad /\ loop' = loop
  BY DEF RefuseChanged, Uploading, InPhase, world
<1>2. /\ cycle' \in Cycles /\ cycle'.phase = cycle.phase /\ cycle.phase = "uploading"
      /\ dump[d].file = "spoiled" /\ cycle'.todo = cycle.todo \ {d}
      /\ cycle'.refused = cycle.refused /\ cycle'.newest = cycle.newest
      /\ cycle'.record = cycle.record
  BY DEF RefuseChanged, Uploading, InPhase, Cycles
<1>3. Typed'
  BY <1>1, <1>2 DEF Typed
<1>4. InHand'
  BY <1>1, <1>2 DEF BackupsIInv, InHand, Unpublished, Sending, InPhase, Local, Oldest
<1>5. NewestKnown' /\ RecordIsTrue'
  BY <1>1, <1>2 DEF BackupsIInv, NewestKnown, RecordIsTrue, Sending, InPhase, Local
<1>6. NoneSkipped'
  BY <1>1, <1>2 DEF BackupsIInv, NoneSkipped, Sending, InPhase, Local
<1>7. QED BY <1>1, <1>3, <1>4, <1>5, <1>6, FilesStay DEF BackupsIInv

LEMMA RejectedIInv ==
  ASSUME BackupsIInv, NEW d \in Names, Rejected(d)
  PROVE  BackupsIInv'
<1> Typed /\ cycle \in Cycles
  BY DEF BackupsIInv, Typed
<1>1. dump' = dump /\ taken' = taken /\ now' = now /\ status' = status
      /\ database' = database /\ bad' = bad /\ loop' = loop
  BY DEF Rejected, Sending, world
<1>2. /\ cycle' \in Cycles /\ cycle'.phase = "uploading" /\ Sending
      /\ cycle'.todo = {} /\ cycle'.refused /\ cycle'.newest = cycle.newest
      /\ cycle'.record = cycle.record
  BY DEF Rejected, Sending, Cycles
<1>3. Typed'
  BY <1>1, <1>2 DEF Typed
<1>4. InHand'
  BY <1>1, <1>2 DEF BackupsIInv, InHand, Unpublished, Sending, InPhase, Local, Oldest
<1>5. NewestKnown' /\ RecordIsTrue'
  BY <1>1, <1>2 DEF BackupsIInv, NewestKnown, RecordIsTrue, Sending, InPhase, Local
<1>6. NoneSkipped'
  BY <1>1, <1>2 DEF BackupsIInv, NoneSkipped, Sending, InPhase, Local
<1>7. QED BY <1>1, <1>3, <1>4, <1>5, <1>6, FilesStay DEF BackupsIInv

-----------------------------------------------------------------------------
(* Steps that change one dump.                                             *)

LEMMA PruneIInv ==
  ASSUME BackupsIInv, NEW d \in Names, Prune(d)
  PROVE  BackupsIInv'
<1> DEFINE new == [dump[d] EXCEPT !.file = "none"]
<1> Typed /\ cycle \in Cycles /\ d \in Names /\ dump[d] \in Dumps
  BY DEF BackupsIInv, Typed, Names
<1>1. /\ now' = now /\ taken' = taken /\ status' = status /\ database' = database
      /\ bad' = bad /\ loop' = loop
      /\ cycle' = cycle /\ cycle.phase = "pruning"
  BY DEF Prune, Cycles, InPhase, world
<1>2. /\ d <= taken
      /\ dump[d].remote = "good"
  BY DEF Prune, BackupsIInv, Typed, Names, InPhase, Local, Unborn, Confirmed, MarkedIsStored
<1>3. /\ new \in Dumps
      /\ new.made = dump[d].made /\ new.existed = dump[d].existed /\ new.gone = dump[d].gone
      /\ new.file = "none" /\ new.remote = dump[d].remote /\ new.marker = dump[d].marker
  BY DEF Dumps, States
<1>4. dump' = [dump EXCEPT ![d] = new]
  BY DEF Prune
<1> HIDE DEF new
<1>5. OneDump(d, new)
  BY <1>2, <1>3, <1>4 DEF OneDump
<1>6. /\ dump' \in [Names -> Dumps] /\ dump'[d] = new
      /\ \A e \in Names : e # d => dump'[e] = dump[e]
  BY <1>3, <1>4 DEF Typed
<1>7. Unborn' /\ InOrder' /\ MarkedIsStored' /\ OnlyCopyKept' /\ Vouched'
  BY <1>1, <1>2, <1>3, <1>5, OneDumpStays DEF BackupsIInv, MarkedIsStored, OnlyCopyKept, Local
<1>8. Typed'
  BY <1>1, <1>6 DEF Typed
<1>9. InHand'
  BY <1>1, <1>2, <1>3, <1>6
     DEF BackupsIInv, InHand, Unpublished, Sending, InPhase, Local, Oldest
<1>10. NewestKnown' /\ RecordIsTrue'
  BY <1>1, <1>2, <1>3, <1>6
     DEF BackupsIInv, NewestKnown, RecordIsTrue, Sending, InPhase, Local
<1>11. NoneSkipped'
  BY <1>1, <1>2, <1>3, <1>6 DEF BackupsIInv, NoneSkipped, Sending, InPhase, Local
<1>12. QED BY <1>7, <1>8, <1>9, <1>10, <1>11 DEF BackupsIInv

LEMMA SweepIInv ==
  ASSUME BackupsIInv, NEW d \in Names, Sweep(d)
  PROVE  BackupsIInv'
<1> DEFINE new == [dump[d] EXCEPT !.meta = "none", !.marker = FALSE]
<1> Typed /\ cycle \in Cycles /\ d \in Names /\ dump[d] \in Dumps
  BY DEF BackupsIInv, Typed, Names
<1>1. /\ now' = now /\ taken' = taken /\ status' = status /\ database' = database
      /\ bad' = bad /\ loop' = loop
      /\ cycle' = cycle /\ cycle.phase = "pruning"
  BY DEF Sweep, Cycles, InPhase, world
<1>2. /\ d <= taken
      /\ dump[d].file = "none"
  BY DEF Sweep, BackupsIInv, Typed, Names, InPhase, Local, Unborn
<1>3. /\ new \in Dumps
      /\ new.made = dump[d].made /\ new.existed = dump[d].existed /\ new.gone = dump[d].gone
      /\ new.file = dump[d].file /\ new.remote = dump[d].remote /\ ~new.marker
  BY DEF Dumps, States
<1>4. dump' = [dump EXCEPT ![d] = new]
  BY DEF Sweep
<1> HIDE DEF new
<1>5. OneDump(d, new)
  BY <1>2, <1>3, <1>4 DEF OneDump
<1>6. /\ dump' \in [Names -> Dumps] /\ dump'[d] = new
      /\ \A e \in Names : e # d => dump'[e] = dump[e]
  BY <1>3, <1>4 DEF Typed
<1>7. Unborn' /\ InOrder' /\ MarkedIsStored' /\ OnlyCopyKept' /\ Vouched'
  BY <1>1, <1>2, <1>3, <1>5, OneDumpStays DEF BackupsIInv, MarkedIsStored, OnlyCopyKept, Local
<1>8. Typed'
  BY <1>1, <1>6 DEF Typed
<1>9. InHand'
  BY <1>1, <1>2, <1>3, <1>6
     DEF BackupsIInv, InHand, Unpublished, Sending, InPhase, Local, Oldest
<1>10. NewestKnown' /\ RecordIsTrue'
  BY <1>1, <1>2, <1>3, <1>6
     DEF BackupsIInv, NewestKnown, RecordIsTrue, Sending, InPhase, Local
<1>11. NoneSkipped'
  BY <1>1, <1>2, <1>3, <1>6 DEF BackupsIInv, NoneSkipped, Sending, InPhase, Local
<1>12. QED BY <1>7, <1>8, <1>9, <1>10, <1>11 DEF BackupsIInv

LEMMA DescribeIInv ==
  ASSUME BackupsIInv, Describe
  PROVE  BackupsIInv'
<1>0. PICK orgs \in {"unknown", "zero", "some"} :
        dump' = [dump EXCEPT ![taken] = [@ EXCEPT !.meta = "good", !.orgs = orgs]]
  <2>1. PICK orgs \in {Count(database), "unknown"} :
          dump' = [dump EXCEPT ![taken] = [@ EXCEPT !.meta = "good", !.orgs = orgs]]
    BY DEF Describe
  <2>2. Count(database) \in {"zero", "some", "unknown"}
    BY DEF Count, BackupsIInv, Typed, Contents
  <2>3. QED BY <2>1, <2>2
<1> DEFINE d == taken
           new == [dump[taken] EXCEPT !.meta = "good", !.orgs = orgs]
<1> Typed /\ cycle \in Cycles /\ d \in Names /\ dump[d] \in Dumps
  BY DEF BackupsIInv, Typed, Names,
             InHand, Unpublished, Describe, InPhase
<1>1. /\ now' = now /\ taken' = taken /\ status' = status /\ database' = database
      /\ bad' = bad /\ loop' = loop
      /\ cycle' \in Cycles /\ cycle'.phase = "described" /\ cycle.phase = "dumped"
      /\ cycle'.todo = cycle.todo /\ cycle'.newest = cycle.newest
      /\ cycle'.record = cycle.record /\ cycle'.refused = cycle.refused
  BY DEF Describe, Go, Cycles, InPhase, world
<1>2. /\ d <= taken
      /\ dump[d].file = "none"
  BY DEF Describe, Go, BackupsIInv, Typed, Names, InPhase, Local, Unborn, InHand, Unpublished
<1>3. /\ new \in Dumps
      /\ new.made = dump[d].made /\ new.existed = dump[d].existed /\ new.gone = dump[d].gone
      /\ new.file = dump[d].file /\ new.remote = dump[d].remote /\ new.marker = dump[d].marker
  BY <1>0 DEF Dumps, States
<1>4. dump' = [dump EXCEPT ![d] = new]
  BY <1>0 DEF Describe, Go
<1> HIDE DEF new
<1>5. OneDump(d, new)
  BY <1>2, <1>3, <1>4 DEF OneDump
<1>6. /\ dump' \in [Names -> Dumps] /\ dump'[d] = new
      /\ \A e \in Names : e # d => dump'[e] = dump[e]
  BY <1>3, <1>4 DEF Typed
<1>7. Unborn' /\ InOrder' /\ MarkedIsStored' /\ OnlyCopyKept' /\ Vouched'
  BY <1>1, <1>2, <1>3, <1>5, OneDumpStays DEF BackupsIInv, MarkedIsStored, OnlyCopyKept, Local
<1>8. Typed'
  BY <1>1, <1>6 DEF Typed
<1>9. InHand'
  BY <1>1, <1>2, <1>3, <1>6
     DEF BackupsIInv, InHand, Unpublished, Sending, InPhase, Local, Oldest
<1>10. NewestKnown' /\ RecordIsTrue'
  BY <1>1, <1>2, <1>3, <1>6
     DEF BackupsIInv, NewestKnown, RecordIsTrue, Sending, InPhase, Local
<1>11. NoneSkipped'
  BY <1>1, <1>2, <1>3, <1>6 DEF BackupsIInv, NoneSkipped, Sending, InPhase, Local
<1>12. QED BY <1>7, <1>8, <1>9, <1>10, <1>11 DEF BackupsIInv

LEMMA CheckLocalIInv ==
  ASSUME BackupsIInv, NEW d \in Names, CheckLocal(d)
  PROVE  BackupsIInv'
<1> DEFINE new == [dump[d] EXCEPT !.meta = "good"]
<1> Typed /\ cycle \in Cycles /\ d \in Names /\ dump[d] \in Dumps
  BY DEF BackupsIInv, Typed, Names
<1>1. /\ now' = now /\ taken' = taken /\ status' = status /\ database' = database
      /\ bad' = bad /\ loop' = loop
      /\ cycle' \in Cycles /\ cycle'.phase \in {"putting", "verifying"}
      /\ cycle'.phase = "putting" => dump[d].remote = "none"
      /\ cycle.phase = "uploading" /\ Oldest(d, cycle.todo)
      /\ cycle'.todo = cycle.todo /\ cycle'.newest = cycle.newest
      /\ cycle'.record = cycle.record /\ cycle'.refused = cycle.refused
  BY DEF CheckLocal, Uploading, Go, Cycles, InPhase, world
<1>2. /\ d <= taken
      /\ dump[d].file = "good" /\ d \in cycle.todo
  BY DEF CheckLocal, Uploading, Go, BackupsIInv, Typed, Names, InPhase, Local, Unborn, Oldest
<1>3. /\ new \in Dumps
      /\ new.made = dump[d].made /\ new.existed = dump[d].existed /\ new.gone = dump[d].gone
      /\ new.file = dump[d].file /\ new.remote = dump[d].remote /\ new.marker = dump[d].marker
  BY DEF Dumps, States
<1>4. dump' = [dump EXCEPT ![d] = new]
  BY DEF CheckLocal, Uploading, Go
<1> HIDE DEF new
<1>5. OneDump(d, new)
  BY <1>2, <1>3, <1>4 DEF OneDump
<1>6. /\ dump' \in [Names -> Dumps] /\ dump'[d] = new
      /\ \A e \in Names : e # d => dump'[e] = dump[e]
  BY <1>3, <1>4 DEF Typed
<1>7. Unborn' /\ InOrder' /\ MarkedIsStored' /\ OnlyCopyKept' /\ Vouched'
  BY <1>1, <1>2, <1>3, <1>5, OneDumpStays DEF BackupsIInv, MarkedIsStored, OnlyCopyKept, Local
<1>8. Typed'
  BY <1>1, <1>6 DEF Typed
<1>9. InHand'
  <2>1. cycle.todo \subseteq Local /\ cycle.todo # {}
    BY <1>2 DEF BackupsIInv, InHand
  <2>2. cycle'.todo \subseteq Local'
    BY <1>1, <1>2, <1>3, <1>6, <2>1 DEF Local
  <2>3. \A e \in Names : Oldest(e, cycle.todo) => e = d
    BY <1>1 DEF Oldest, Names
  <2>4. QED
    BY <1>1, <1>3, <1>6, <2>1, <2>2, <2>3 DEF InHand, Unpublished, Sending, InPhase, Oldest
<1>10. NewestKnown' /\ RecordIsTrue'
  BY <1>1, <1>2, <1>3, <1>6
     DEF BackupsIInv, NewestKnown, RecordIsTrue, Sending, InPhase, Local
<1>11. NoneSkipped'
  BY <1>1, <1>2, <1>3, <1>6 DEF BackupsIInv, NoneSkipped, Sending, InPhase, Local
<1>12. QED BY <1>7, <1>8, <1>9, <1>10, <1>11 DEF BackupsIInv

LEMMA PutIInv ==
  ASSUME BackupsIInv, NEW d \in Names, Put(d)
  PROVE  BackupsIInv'
<1> DEFINE new == [dump[d] EXCEPT !.remote = dump[d].file]
<1> Typed /\ cycle \in Cycles /\ d \in Names /\ dump[d] \in Dumps
  BY DEF BackupsIInv, Typed, Names
<1>1. /\ now' = now /\ taken' = taken /\ status' = status /\ database' = database
      /\ bad' = bad /\ loop' = loop
      /\ cycle' \in Cycles /\ cycle'.phase = "verifying"
      /\ cycle.phase = "putting" /\ Oldest(d, cycle.todo)
      /\ cycle'.todo = cycle.todo /\ cycle'.newest = cycle.newest
      /\ cycle'.record = cycle.record /\ cycle'.refused = cycle.refused
  BY DEF Put, At, Go, Cycles, InPhase, world
<1>2. /\ d <= taken
      /\ dump[d].file # "none" /\ dump[d].remote = "none" /\ ~dump[d].marker
  BY DEF Put, At, Go, BackupsIInv, Typed, Names, InPhase, Local, Unborn,
             MarkedIsStored, InHand, Oldest
<1>3. /\ new \in Dumps
      /\ new.made = dump[d].made /\ new.existed = dump[d].existed /\ new.gone = dump[d].gone
      /\ new.file = dump[d].file /\ new.remote = dump[d].file /\ new.marker = dump[d].marker
      /\ new.meta = dump[d].meta
  BY DEF Dumps, States
<1>4. dump' = [dump EXCEPT ![d] = new]
  BY DEF Put, At, Go
<1> HIDE DEF new
<1>5. OneDump(d, new)
  BY <1>2, <1>3, <1>4 DEF OneDump
<1>6. /\ dump' \in [Names -> Dumps] /\ dump'[d] = new
      /\ \A e \in Names : e # d => dump'[e] = dump[e]
  BY <1>3, <1>4 DEF Typed
<1>7. Unborn' /\ InOrder' /\ MarkedIsStored' /\ OnlyCopyKept' /\ Vouched'
  BY <1>1, <1>2, <1>3, <1>5, OneDumpStays DEF BackupsIInv, MarkedIsStored, OnlyCopyKept, Local
<1>8. Typed'
  BY <1>1, <1>6 DEF Typed
<1>9. InHand'
  BY <1>1, <1>2, <1>3, <1>6
     DEF BackupsIInv, InHand, Unpublished, Sending, InPhase, Local, Oldest
<1>10. NewestKnown' /\ RecordIsTrue'
  BY <1>1, <1>2, <1>3, <1>6
     DEF BackupsIInv, NewestKnown, RecordIsTrue, Sending, InPhase, Local
<1>11. NoneSkipped'
  BY <1>1, <1>2, <1>3, <1>6 DEF BackupsIInv, NoneSkipped, Sending, InPhase, Local
<1>12. QED BY <1>7, <1>8, <1>9, <1>10, <1>11 DEF BackupsIInv

LEMMA VerifyIInv ==
  ASSUME BackupsIInv, NEW d \in Names, Verify(d)
  PROVE  BackupsIInv'
<1> DEFINE new == [dump[d] EXCEPT !.marker = TRUE]
<1> Typed /\ cycle \in Cycles /\ d \in Names /\ dump[d] \in Dumps
  BY DEF BackupsIInv, Typed, Names
<1>1. /\ now' = now /\ taken' = taken /\ status' = status /\ database' = database
      /\ bad' = bad /\ loop' = loop
      /\ cycle' \in Cycles /\ cycle'.phase = "uploading"
      /\ cycle.phase = "verifying" /\ Oldest(d, cycle.todo)
      /\ cycle'.todo = cycle.todo \ {d} /\ cycle'.newest = cycle.newest
      /\ cycle'.record => cycle.record \/ d = cycle.newest
      /\ cycle'.refused = cycle.refused
  BY DEF Verify, At, Cycles, InPhase, world
<1>2. /\ d <= taken
      /\ dump[d].file # "none" /\ dump[d].remote = "good" /\ d # 0
  BY DEF Verify, At, BackupsIInv, Typed, Names, InPhase, Local, Unborn,
             InHand, Oldest
<1>3. /\ new \in Dumps
      /\ new.made = dump[d].made /\ new.existed = dump[d].existed /\ new.gone = dump[d].gone
      /\ new.file = dump[d].file /\ new.remote = dump[d].remote /\ new.marker
      /\ new.meta = dump[d].meta
  BY DEF Dumps, States
<1>4. dump' = [dump EXCEPT ![d] = new]
  BY DEF Verify, At
<1> HIDE DEF new
<1>5. OneDump(d, new)
  BY <1>2, <1>3, <1>4 DEF OneDump
<1>6. /\ dump' \in [Names -> Dumps] /\ dump'[d] = new
      /\ \A e \in Names : e # d => dump'[e] = dump[e]
  BY <1>3, <1>4 DEF Typed
<1>7. Unborn' /\ InOrder' /\ MarkedIsStored' /\ OnlyCopyKept' /\ Vouched'
  BY <1>1, <1>2, <1>3, <1>5, OneDumpStays DEF BackupsIInv, MarkedIsStored, OnlyCopyKept, Local
<1>8. Typed'
  BY <1>1, <1>6 DEF Typed
<1>9. InHand'
  BY <1>1, <1>2, <1>3, <1>6
     DEF BackupsIInv, InHand, Unpublished, Sending, InPhase, Local, Oldest
<1>10. NewestKnown' /\ RecordIsTrue'
  BY <1>1, <1>2, <1>3, <1>6
     DEF BackupsIInv, NewestKnown, RecordIsTrue, Sending, InPhase, Local
<1>11. NoneSkipped'
  BY <1>1, <1>2, <1>3, <1>6 DEF BackupsIInv, NoneSkipped, Sending, InPhase, Local
<1>12. QED BY <1>7, <1>8, <1>9, <1>10, <1>11 DEF BackupsIInv

LEMMA PublishIInv ==
  ASSUME BackupsIInv, Publish
  PROVE  BackupsIInv'
<1> DEFINE d == taken
           new == [dump[taken] EXCEPT !.file = "good", !.existed = TRUE]
<1> Typed /\ cycle \in Cycles /\ d \in Names /\ dump[d] \in Dumps
  BY DEF BackupsIInv, Typed, Names, InHand, Unpublished, Publish, InPhase
<1>1. /\ now' = now /\ taken' = taken /\ status' = status /\ database' = database
      /\ bad' = bad /\ loop' = loop
      /\ cycle.phase = "described"
      /\ cycle' = [cycle EXCEPT !.phase = "planning", !.newest = taken]
  BY DEF Publish, InPhase, world
<1>2. /\ ~cycle.record /\ cycle.todo = {}
      /\ dump[d].made = now /\ ~dump[d].marker
  BY <1>1 DEF BackupsIInv, InHand, NewestKnown, RecordIsTrue, MarkedIsStored, Unpublished,
              Sending, InPhase
<1>3. /\ new \in Dumps /\ new.made = dump[d].made
      /\ new.remote = dump[d].remote /\ new.marker = dump[d].marker /\ new.file = "good"
  BY DEF Dumps, States
<1>4. dump' = [dump EXCEPT ![d] = new]
  BY DEF Publish
<1> HIDE DEF new
<1>5. OneDump(d, new)
  BY <1>3, <1>4 DEF OneDump
<1>6. /\ dump' \in [Names -> Dumps] /\ dump'[d] = new
      /\ \A e \in Names : e # d => dump'[e] = dump[e]
  BY <1>3, <1>4 DEF Typed
<1>7. Unborn' /\ InOrder' /\ MarkedIsStored' /\ OnlyCopyKept' /\ Vouched'
  BY <1>1, <1>2, <1>3, <1>5, OneDumpStays DEF Typed
<1>8. /\ cycle' \in Cycles /\ cycle'.phase = "planning" /\ cycle'.newest = taken
      /\ cycle'.todo = {} /\ ~cycle'.record
  BY <1>1, <1>2 DEF Cycles, Typed
<1>9. Typed'
  BY <1>1, <1>6, <1>8 DEF Typed
<1>10. d \in Local' /\ now' - dump'[d].made <= DueAge
  BY <1>1, <1>2, <1>3, <1>6, Bounds DEF Local, Typed
<1>11. InHand' /\ NewestKnown' /\ RecordIsTrue' /\ NoneSkipped'
  BY <1>1, <1>8, <1>10 DEF InHand, NewestKnown, RecordIsTrue, NoneSkipped, Unpublished,
                           Sending, InPhase
<1>12. QED BY <1>7, <1>9, <1>11 DEF BackupsIInv

LEMMA UploadFailsIInv ==
  ASSUME BackupsIInv, NEW d \in Names, UploadFails(d)
  PROVE  BackupsIInv'
<1> Typed /\ cycle \in Cycles /\ d \in Names /\ dump[d] \in Dumps
  BY DEF BackupsIInv, Typed
<1>1. /\ now' = now /\ taken' = taken /\ status' = status /\ database' = database
      /\ bad' = bad /\ loop' = loop
      /\ Sending /\ Oldest(d, cycle.todo)
      /\ cycle' \in Cycles /\ cycle'.phase = "uploading" /\ cycle'.refused
      /\ cycle'.todo = cycle.todo \ {d} /\ cycle'.newest = cycle.newest
      /\ cycle'.record = cycle.record
  BY DEF UploadFails, world, Sending, InPhase, Cycles
<1>2. dump[d].file # "none" /\ d <= taken
  BY <1>1 DEF BackupsIInv, InHand, Oldest, Local, Unborn, Typed, Names
<1>3. PICK object \in States :
        /\ dump' = [dump EXCEPT ![d] = [@ EXCEPT !.remote = object]]
        /\ object = dump[d].remote \/ dump[d].remote = "none"
  <2>1. CASE UNCHANGED dump
    <3>1. dump = [dump EXCEPT ![d] = [@ EXCEPT !.remote = dump[d].remote]]
      BY DEF Typed, Dumps
    <3>2. dump[d].remote \in States
      BY DEF Dumps
    <3>3. QED BY <2>1, <3>1, <3>2
  <2>2. ASSUME NEW object \in {"none", dump[d].file}, InPhase("putting"),
               dump' = [dump EXCEPT ![d].remote = object]
        PROVE  \E r \in States :
                 /\ dump' = [dump EXCEPT ![d] = [@ EXCEPT !.remote = r]]
                 /\ r = dump[d].remote \/ dump[d].remote = "none"
    <3>1. dump[d].remote = "none"
      BY <1>1, <2>2 DEF BackupsIInv, InHand
    <3>2. object \in States
      BY DEF Dumps, States
    <3>3. QED BY <2>2, <3>1, <3>2
  <2>3. QED BY <2>1, <2>2 DEF UploadFails
<1> DEFINE new == [dump[d] EXCEPT !.remote = object]
<1>4. /\ new \in Dumps
      /\ new.made = dump[d].made /\ new.existed = dump[d].existed /\ new.gone = dump[d].gone
      /\ new.file = dump[d].file /\ new.remote = object /\ new.marker = dump[d].marker
  BY DEF Dumps, States
<1>5. dump' = [dump EXCEPT ![d] = new]
  BY <1>3
<1> HIDE DEF new
<1>6. OneDump(d, new)
  BY <1>3, <1>4, <1>5 DEF OneDump
<1>7. /\ dump' \in [Names -> Dumps] /\ dump'[d] = new
      /\ \A e \in Names : e # d => dump'[e] = dump[e]
  BY <1>4, <1>5 DEF Typed
<1>8. Unborn' /\ InOrder' /\ MarkedIsStored' /\ OnlyCopyKept' /\ Vouched'
  BY <1>1, <1>2, <1>3, <1>4, <1>6, OneDumpStays DEF BackupsIInv, MarkedIsStored
<1>9. Typed'
  BY <1>1, <1>7 DEF Typed
<1>10. InHand' /\ NewestKnown' /\ NoneSkipped'
  BY <1>1, <1>2, <1>4, <1>7
     DEF BackupsIInv, InHand, NewestKnown, NoneSkipped, Unpublished, Sending, InPhase, Local
<1>11. RecordIsTrue'
  BY <1>1, <1>3, <1>4, <1>7 DEF BackupsIInv, RecordIsTrue
<1>12. QED BY <1>8, <1>9, <1>10, <1>11 DEF BackupsIInv

LEMMA SpoilIInv ==
  ASSUME BackupsIInv, NEW d \in Names, Spoil(d)
  PROVE  BackupsIInv'
<1> Typed /\ cycle \in Cycles /\ d \in Names /\ dump[d] \in Dumps
  BY DEF BackupsIInv, Typed
<1>1. /\ now' = now /\ taken' = taken /\ status' = status /\ database' = database
      /\ bad' \in Nat /\ loop' = loop /\ cycle' = cycle
  BY DEF Spoil, Fault, Typed
<1>2. PICK new \in Dumps :
        /\ dump' = [dump EXCEPT ![d] = new]
        /\ new.made = dump[d].made /\ new.existed = dump[d].existed
        /\ new.gone = dump[d].gone /\ new.remote = dump[d].remote
        /\ new.marker = dump[d].marker
        /\ new.file = "none" <=> dump[d].file = "none"
        /\ ~(new.file = "good" /\ new.meta = "good")
        /\ dump[d].file # "none" \/ dump[d].meta # "none"
  <2>1. CASE dump[d].file = "good" /\ dump' = [dump EXCEPT ![d].file = "spoiled"]
    <3> DEFINE new == [dump[d] EXCEPT !.file = "spoiled"]
    <3>1. dump' = [dump EXCEPT ![d] = new]
      BY <2>1
    <3>2. /\ new \in Dumps /\ new.made = dump[d].made /\ new.existed = dump[d].existed
          /\ new.gone = dump[d].gone /\ new.remote = dump[d].remote
          /\ new.marker = dump[d].marker /\ new.file = "spoiled"
      BY DEF Dumps, States
    <3> HIDE DEF new
    <3>3. QED BY <2>1, <3>1, <3>2
  <2>2. CASE dump[d].meta = "good" /\ dump' = [dump EXCEPT ![d].meta = "spoiled"]
    <3> DEFINE new == [dump[d] EXCEPT !.meta = "spoiled"]
    <3>1. dump' = [dump EXCEPT ![d] = new]
      BY <2>2
    <3>2. /\ new \in Dumps /\ new.made = dump[d].made /\ new.existed = dump[d].existed
          /\ new.gone = dump[d].gone /\ new.remote = dump[d].remote
          /\ new.marker = dump[d].marker /\ new.file = dump[d].file /\ new.meta = "spoiled"
      BY DEF Dumps, States
    <3> HIDE DEF new
    <3>3. QED BY <2>2, <3>1, <3>2
  <2>3. QED BY <2>1, <2>2 DEF Spoil
<1>3. OneDump(d, new) /\ d <= taken
  BY <1>2 DEF OneDump, BackupsIInv, Unborn, Typed, Names
<1>4. /\ dump' \in [Names -> Dumps] /\ dump'[d] = new
      /\ \A e \in Names : e # d => dump'[e] = dump[e]
  BY <1>2 DEF Typed
<1>5. Unborn' /\ InOrder' /\ MarkedIsStored' /\ OnlyCopyKept' /\ Vouched'
  BY <1>1, <1>2, <1>3, OneDumpStays DEF BackupsIInv, MarkedIsStored, OnlyCopyKept, Local
<1>6. Typed'
  BY <1>1, <1>4 DEF Typed
<1>7. InHand'
  BY <1>1, <1>2, <1>4
     DEF BackupsIInv, InHand, Unpublished, Sending, InPhase, Local, Oldest
<1>8. NewestKnown' /\ RecordIsTrue'
  BY <1>1, <1>2, <1>4
     DEF BackupsIInv, NewestKnown, RecordIsTrue, Sending, InPhase, Local
<1>9. NoneSkipped'
  BY <1>1, <1>2, <1>4 DEF BackupsIInv, NoneSkipped, Sending, InPhase, Local
<1>10. QED BY <1>5, <1>6, <1>7, <1>8, <1>9 DEF BackupsIInv

-----------------------------------------------------------------------------
(* A new dump, a lost host, the end of a cycle, and time.                  *)

LEMMA PgDumpIInv ==
  ASSUME BackupsIInv, PgDump
  PROVE  BackupsIInv'
<1> DEFINE d == taken + 1
           new == [NoDump EXCEPT !.holds = database, !.made = now]
<1> Typed /\ cycle \in Cycles /\ taken \in Nat /\ taken < d
  BY DEF BackupsIInv, Typed, Names
<1>1. /\ now' = now /\ taken' = d /\ status' = status /\ database' = database
      /\ bad' = bad /\ loop' = loop
      /\ cycle.phase = "pruning" /\ cycle' = [cycle EXCEPT !.phase = "dumped"]
      /\ dump' = [dump EXCEPT ![d] = new]
  BY DEF PgDump, Due, Go, InPhase, world
<1>2. d \in Names /\ d \in 0..MaxDumps
  BY Bounds DEF PgDump, Names
<1>3. /\ new \in Dumps /\ new.made = now /\ new.file = "none" /\ new.remote = "none"
      /\ ~new.existed /\ ~new.marker
  BY RecordTypes DEF Typed, Dumps
<1>4. /\ dump[d].remote = "none" /\ \A e \in Names : e > d => e > taken
      /\ \A e \in Names : e <= d => e = d \/ e <= taken
  BY <1>2 DEF BackupsIInv, Unborn, Names
<1> HIDE DEF new
<1>5. /\ dump' \in [Names -> Dumps] /\ dump'[d] = new
      /\ \A e \in Names : e # d => dump'[e] = dump[e]
  BY <1>1, <1>2, <1>3 DEF Typed
<1>6. /\ cycle' \in Cycles /\ cycle'.phase = "dumped" /\ cycle'.newest = cycle.newest
      /\ cycle'.todo = cycle.todo /\ cycle'.record = cycle.record
  BY <1>1 DEF Cycles
<1>7. cycle.newest = 0 /\ ~cycle.record /\ cycle.todo = {}
  BY <1>1 DEF BackupsIInv, InHand, NewestKnown, RecordIsTrue, Sending, InPhase
<1>8. Typed'
  BY <1>1, <1>2, <1>5, <1>6 DEF Typed
<1> HIDE DEF d
<1>9. Unborn' /\ MarkedIsStored' /\ OnlyCopyKept'
  <2>1. \A e \in Names : e > d => e > taken /\ e # d
    BY <1>2, <1>4 DEF Names
  <2>2. Unborn'
    BY <1>1, <1>5, <2>1 DEF BackupsIInv, Unborn
  <2>3. QED
    BY <1>3, <1>5, <2>2 DEF BackupsIInv, MarkedIsStored, OnlyCopyKept, Local
<1>10. InOrder'
  <2>1. \A e \in Names : dump[e].made <= now /\ dump[e].made \in Nat
    BY DEF BackupsIInv, InOrder, Typed, Dumps
  <2>2. \A e \in Names : dump'[e].made <= now
    BY <1>3, <1>5, <2>1 DEF Typed
  <2>3. \A c, e \in Names : c <= e /\ e <= d => dump'[c].made <= dump'[e].made
    <3> SUFFICES ASSUME NEW c \in Names, NEW e \in Names, c <= e, e <= d
                 PROVE  dump'[c].made <= dump'[e].made
      OBVIOUS
    <3>1. CASE e = d
      BY <1>3, <1>5, <2>2, <3>1
    <3>2. CASE e # d
      <4>1. e <= taken /\ c # d
        BY <1>2, <1>4, <3>2 DEF Names
      <4>2. QED BY <1>5, <3>2, <4>1 DEF BackupsIInv, InOrder
    <3>3. QED BY <3>1, <3>2
  <2>4. QED BY <1>1, <2>2, <2>3 DEF InOrder
<1>11. Vouched'
  <2> SUFFICES ASSUME status # 0
               PROVE  \E e \in Names : /\ dump'[e].remote = "good"
                                      /\ status - dump'[e].made <= DueAge
    BY <1>1 DEF Vouched
  <2>1. PICK e \in Names : dump[e].remote = "good" /\ status - dump[e].made <= DueAge
    BY DEF BackupsIInv, Vouched
  <2>2. QED BY <1>4, <1>5, <2>1
<1>12. InHand' /\ NewestKnown' /\ RecordIsTrue' /\ NoneSkipped'
  <2>1. d > 0
    BY <1>2 DEF Names
  <2>2. QED
    BY <1>1, <1>3, <1>5, <1>6, <1>7, <2>1
       DEF InHand, NewestKnown, RecordIsTrue, NoneSkipped, Unpublished, Sending, InPhase
<1>13. QED BY <1>8, <1>9, <1>10, <1>11, <1>12 DEF BackupsIInv

LEMMA LoseHostIInv ==
  ASSUME BackupsIInv, LoseHost
  PROVE  BackupsIInv'
<1> Typed
  BY DEF BackupsIInv
<1>1. /\ now' = now /\ taken' = taken /\ status' = 0 /\ database' \in Contents
      /\ bad' \in Nat /\ cycle' = NoCycle /\ loop' \in Loops
  <2>0. Fault
    BY DEF LoseHost
  <2>1. bad' \in Nat
    BY <2>0 DEF Fault, Typed
  <2>2. loop' \in Loops
    BY DEF LoseHost, Fault, Typed, Loops
  <2>3. QED BY <2>1, <2>2 DEF LoseHost, Fault, Contents
<1>2. dump' = [d \in Names |->
         [dump[d] EXCEPT !.file = "none", !.meta = "none", !.marker = FALSE,
                         !.gone = @ \/ dump[d].file # "none"]]
  BY DEF LoseHost
<1>3. \A d \in Names :
        /\ dump'[d] \in Dumps /\ dump'[d].made = dump[d].made
        /\ dump'[d].file = "none" /\ dump'[d].meta = "none" /\ ~dump'[d].marker
        /\ dump'[d].remote = dump[d].remote /\ dump'[d].existed = dump[d].existed
        /\ dump'[d].gone <=> dump[d].gone \/ dump[d].file # "none"
  <2> SUFFICES ASSUME NEW d \in Names
               PROVE  /\ dump'[d] \in Dumps /\ dump'[d].made = dump[d].made
                      /\ dump'[d].file = "none" /\ dump'[d].meta = "none"
                      /\ ~dump'[d].marker /\ dump'[d].remote = dump[d].remote
                      /\ dump'[d].existed = dump[d].existed
                      /\ dump'[d].gone <=> dump[d].gone \/ dump[d].file # "none"
    OBVIOUS
  <2>1. dump[d] \in Dumps
    BY DEF Typed
  <2>2. dump'[d] = [dump[d] EXCEPT !.file = "none", !.meta = "none", !.marker = FALSE,
                                   !.gone = dump[d].gone \/ dump[d].file # "none"]
    BY <1>2
  <2>3. QED BY <2>1, <2>2 DEF Dumps, States
<1>4. Typed'
  <2>1. dump' \in [Names -> Dumps]
    BY <1>2, <1>3
  <2>2. QED BY <1>1, <2>1, RecordTypes DEF Typed
<1>5. InHand' /\ NewestKnown' /\ RecordIsTrue' /\ NoneSkipped'
  BY <1>1, NoCycleIsFine
<1>6. Unborn' /\ MarkedIsStored' /\ Vouched'
  BY <1>1, <1>3 DEF BackupsIInv, Unborn, MarkedIsStored, Vouched
<1>7. InOrder' /\ OnlyCopyKept'
  BY <1>1, <1>3 DEF BackupsIInv, InOrder, OnlyCopyKept, Local
<1>8. QED BY <1>4, <1>5, <1>6, <1>7 DEF BackupsIInv

\* Whatever happens next, the scheduler knows when to wake.
LEMMA SleepTyped ==
  ASSUME Typed, NEW success \in BOOLEAN, Sleep(success)
  PROVE  loop' \in Loops
<1>1. CASE ~cycle.scheduled
  BY <1>1 DEF Typed, Sleep
<1>2. CASE cycle.scheduled
  <2> DEFINE w == now + (IF success THEN Interval ELSE RetryPause)
  <2>1. w \in Nat
    BY Bounds DEF Typed
  <2>2. loop' = [loop EXCEPT !.ifDue = TRUE, !.wake = w]
    BY <1>2 DEF Sleep
  <2> HIDE DEF w
  <2>3. QED BY <2>1, <2>2 DEF Typed, Loops
<1>3. QED BY <1>1, <1>2

LEMMA FinishIInv ==
  ASSUME BackupsIInv, Finish
  PROVE  BackupsIInv'
<1> Typed
  BY DEF BackupsIInv
<1>1. /\ now' = now /\ taken' = taken /\ dump' = dump /\ database' = database
      /\ bad' = bad /\ cycle' = NoCycle /\ Sleep(Succeeded)
      /\ status' = IF Succeeded THEN now ELSE status
  BY DEF Finish, world
<1>2. InHand' /\ NewestKnown' /\ RecordIsTrue' /\ NoneSkipped'
  BY <1>1, NoCycleIsFine
<1>3. Unborn' /\ InOrder' /\ MarkedIsStored' /\ OnlyCopyKept'
  BY <1>1, FilesStay
<1>4. Vouched'
  <2>1. CASE Succeeded
    <3>1. /\ dump[cycle.newest].remote = "good"
          /\ cycle.newest \in Names /\ now - dump[cycle.newest].made <= DueAge
      BY <2>1 DEF BackupsIInv, Succeeded, RecordIsTrue, NewestKnown, Local
    <3>2. QED BY <1>1, <2>1, <3>1 DEF Vouched
  <2>2. CASE ~Succeeded
    BY <1>1, <2>2 DEF BackupsIInv, Vouched
  <2>3. QED BY <2>1, <2>2
<1>5. Succeeded \in BOOLEAN
  BY DEF Succeeded, Typed, Cycles
<1>6. Typed'
  BY <1>1, <1>5, SleepTyped, RecordTypes DEF Typed
<1>7. QED BY <1>2, <1>3, <1>4, <1>6 DEF BackupsIInv

\* A cycle is broken off: by a sidecar, its death, or that of the service.
LEMMA BrokenOffIInv ==
  ASSUME BackupsIInv, (\E d \in Names : Stumble(d)) \/ CycleDies \/ Stop
  PROVE  BackupsIInv'
<1> Typed
  BY DEF BackupsIInv
<1>1. /\ now' = now /\ taken' = taken /\ dump' = dump /\ database' = database
      /\ status' = status /\ bad' \in Nat /\ cycle' = NoCycle
  <2>1. CASE \E d \in Names : Stumble(d)
    BY <2>1 DEF Stumble, world, Typed
  <2>2. CASE CycleDies \/ Stop
    <3>1. Fault
      BY <2>2 DEF CycleDies, Stop
    <3>2. bad' \in Nat
      BY <3>1 DEF Fault, Typed
    <3>3. QED BY <2>2, <3>2 DEF CycleDies, Stop, Fault
  <2>3. QED BY <2>1, <2>2
<1>2. loop' \in Loops
  BY SleepTyped DEF Stumble, CycleDies, Stop, Typed, Loops
<1>3. Typed'
  BY <1>1, <1>2, RecordTypes DEF Typed
<1>4. QED BY <1>1, <1>3, NoCycleIsFine, FilesStay DEF BackupsIInv

\* The service starts, or the database changes.
LEMMA AroundIInv ==
  ASSUME BackupsIInv, SchedulerBusy \/ Start \/ Migrate \/ \E d \in Names : Restore(d)
  PROVE  BackupsIInv'
<1> Typed
  BY DEF BackupsIInv
<1>1. /\ now' = now /\ taken' = taken /\ dump' = dump /\ database' \in Contents
      /\ status' = status /\ bad' = bad /\ cycle' = cycle
  BY DEF SchedulerBusy, Start, Migrate, Restore, world, Typed, Contents
<1>2. loop' \in Loops
  <2>1. CASE Start
    BY <2>1 DEF Start, Typed, Loops
  <2>2. CASE SchedulerBusy
    <3>1. loop \in Loops /\ loop' = [loop EXCEPT !.ifDue = TRUE]
      BY <2>2 DEF SchedulerBusy, Typed
    <3> QED BY <3>1 DEF Loops
  <2>3. CASE Migrate \/ \E d \in Names : Restore(d)
    BY <2>3 DEF Migrate, Restore, Typed
  <2> QED BY <2>1, <2>2, <2>3
<1>3. Typed'
  BY <1>1, <1>2 DEF Typed
<1>4. InHand' /\ NewestKnown' /\ RecordIsTrue' /\ NoneSkipped'
  BY <1>1 DEF BackupsIInv, InHand, NewestKnown, RecordIsTrue, NoneSkipped, Unpublished,
              Sending, InPhase, Local, Oldest
<1>5. QED BY <1>1, <1>3, <1>4, FilesStay DEF BackupsIInv

LEMMA TickIInv ==
  ASSUME BackupsIInv, Tick
  PROVE  BackupsIInv'
<1> Typed
  BY DEF BackupsIInv
<1>1. /\ now' = now + 1 /\ taken' = taken /\ dump' = dump /\ database' = database
      /\ status' = status /\ bad' = bad /\ cycle' = cycle /\ loop' = loop
      /\ cycle.phase = "idle"
  BY DEF Tick, InPhase
<1>2. Typed'
  BY <1>1 DEF Typed
<1>3. cycle.newest = 0 /\ cycle.todo = {} /\ ~cycle.record
  BY <1>1 DEF BackupsIInv, InHand, NewestKnown, RecordIsTrue, Sending, InPhase
<1>4. InHand' /\ NewestKnown' /\ RecordIsTrue' /\ NoneSkipped'
  BY <1>1, <1>3 DEF InHand, NewestKnown, RecordIsTrue, NoneSkipped, Unpublished, Sending,
                    InPhase, Local
<1>5. Unborn' /\ MarkedIsStored' /\ OnlyCopyKept' /\ Vouched'
  BY <1>1 DEF BackupsIInv, Unborn, MarkedIsStored, OnlyCopyKept, Vouched, Local
<1>6. InOrder'
  <2>1. \A d \in Names : dump[d].made \in Nat /\ dump[d].made <= now
    BY DEF BackupsIInv, InOrder, Typed, Dumps
  <2>2. \A d \in Names : dump[d].made <= now + 1
    BY <2>1 DEF Typed
  <2>3. QED BY <1>1, <2>2 DEF BackupsIInv, InOrder
<1>7. QED BY <1>2, <1>4, <1>5, <1>6 DEF BackupsIInv

-----------------------------------------------------------------------------
(* Theorems.                                                               *)

\* Every state a run of the backups can reach satisfies the inductive invariant,
\* whatever dies, goes bad or is refused on the way.
THEOREM BackupsInductive == BackupsSpec => []BackupsIInv
<1>1. BackupsInit => BackupsIInv
  BY InitBackupsIInv
<1>2. BackupsIInv /\ [BackupsNext]_backupsVars => BackupsIInv'
  <2> SUFFICES ASSUME BackupsIInv, [BackupsNext]_backupsVars
               PROVE  BackupsIInv'
    OBVIOUS
  <2>1. CASE ScheduledCycle \/ ManualCycle
    <3>1. BackupsIInv /\ Typed
      BY DEF BackupsIInv
    <3>2. loop.ifDue \in BOOLEAN
      BY <3>1 DEF Typed, Loops
    <3>3. QED BY <2>1, <3>2, BeginIInv DEF ScheduledCycle, ManualCycle
  <2>2. CASE NotDue \/ DumpFails \/ PgDump \/ Describe \/ Publish
    BY <2>2, NotDueIInv, DumpFailsIInv, PgDumpIInv, DescribeIInv, PublishIInv
  <2>3. CASE Plan \/ NoStorage \/ Finish
    BY <2>3, PlanIInv, NoStorageIInv, FinishIInv
  <2>4. ASSUME NEW d \in Names,
               \/ Prune(d) \/ Sweep(d) \/ CheckLocal(d) \/ RefuseChanged(d) \/ Put(d)
               \/ UploadFails(d) \/ Rejected(d) \/ Verify(d) \/ Stumble(d)
        PROVE  BackupsIInv'
    BY <2>4, PruneIInv, SweepIInv, CheckLocalIInv, RefuseChangedIInv, PutIInv,
       UploadFailsIInv, RejectedIInv, VerifyIInv, BrokenOffIInv
  <2>5. CASE CycleStep
    BY <2>2, <2>3, <2>4, <2>5 DEF CycleStep
  <2>6. CASE SchedulerBusy \/ CycleDies \/ Stop \/ Start \/ LoseHost \/ Tick \/ Migrate
    BY <2>6, BrokenOffIInv, AroundIInv, LoseHostIInv, TickIInv
  <2>7. CASE \E d \in Names : Spoil(d) \/ Restore(d)
    BY <2>7, SpoilIInv, AroundIInv
  <2>8. CASE UNCHANGED backupsVars
    <3>1. /\ now' = now /\ taken' = taken /\ dump' = dump /\ database' = database
          /\ status' = status /\ bad' = bad /\ cycle' = cycle /\ loop' = loop
      BY <2>8 DEF backupsVars, world
    <3>2. Typed' /\ InHand' /\ NewestKnown' /\ RecordIsTrue' /\ NoneSkipped'
      BY <3>1 DEF BackupsIInv, Typed, InHand, NewestKnown, RecordIsTrue, NoneSkipped,
                  Unpublished, Sending, InPhase, Local, Oldest
    <3>3. QED BY <3>1, <3>2, FilesStay DEF BackupsIInv
  <2>9. QED BY <2>1, <2>5, <2>6, <2>7, <2>8 DEF BackupsNext
<1>3. QED BY <1>1, <1>2, PTL DEF BackupsSpec

\* A dump that was published is on the disk or whole off-site until its host is
\* lost: nothing prune_local deletes was the only copy, for any number of dumps,
\* crashes, bad files and refused uploads.
THEOREM OnlyCopySafe == BackupsSpec => []OnlyCopyKept
<1>1. BackupsIInv => OnlyCopyKept
  BY DEF BackupsIInv
<1>2. QED BY <1>1, BackupsInductive, PTL

\* Whatever the intervals are, a cycle of _cycle that ends with storage having
\* answered leaves no intact dump unmarked, and while `errs-offsite health` says
\* it is well there is a whole copy off-site, recent enough.
THEOREM HealthIsEarned == BackupsSpec => []BackupsInv
<1>1. BackupsIInv => BackupsInv
  <2> SUFFICES ASSUME BackupsIInv PROVE BackupsInv
    OBVIOUS
  <2>1. BackupsTypeOK
    BY DEF BackupsIInv, BackupsTypeOK, Typed, Dumps, Cycles, Loops, States, InHand,
           Unpublished
  <2>2. CleanCycleLeavesNothing
    BY DEF BackupsIInv, CleanCycleLeavesNothing, NoneSkipped, Sending, InPhase
  <2>3. HealthyIsRecent
    <3> SUFFICES ASSUME status # 0, now - status <= StaleAge
                 PROVE  OffsiteNoOlderThan(StaleAge + DueAge)
      BY DEF HealthyIsRecent, Healthy
    <3>1. PICK d \in Names : dump[d].remote = "good" /\ status - dump[d].made <= DueAge
      BY DEF BackupsIInv, Vouched
    <3>2. now \in Nat /\ status \in Nat /\ dump[d].made \in Nat
      BY DEF BackupsIInv, Typed, Dumps
    <3>3. now - dump[d].made <= StaleAge + DueAge
      BY <3>1, <3>2, Bounds
    <3>4. QED BY <3>1, <3>3 DEF OffsiteNoOlderThan
  <2>4. QED BY <2>1, <2>2, <2>3 DEF BackupsInv
<1>2. QED BY <1>1, BackupsInductive, PTL
=============================================================================
