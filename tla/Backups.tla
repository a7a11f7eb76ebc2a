------------------------------ MODULE Backups ------------------------------
(***************************************************************************)
(* The backup service of one host: dump, describe, upload, verify, mark,   *)
(* prune, and the restore from what is off-site.                           *)
(*                                                                         *)
(* A dump is three files, which are written and deleted one at a time: the *)
(* archive, its sidecar (the checksum) and its marker (the proof that the  *)
(* off-site copy was read back).  A cycle may die between any two writes,  *)
(* files may go bad on the disk, storage may refuse, be silent, or store   *)
(* what it never acknowledged, and the host may be lost with its disk.     *)
(*                                                                         *)
(* BACKUP_OFFSITE is required, as docker-compose.prod.yml pins it. Where   *)
(* it is disabled dumps are pruned by age, uploaded nowhere, and a cycle   *)
(* succeeds without a copy: that is left out, and nothing here holds of it.*)
(***************************************************************************)
EXTENDS Naturals

CONSTANTS
  MaxDumps,    \* bound: dumps in all
  Interval,    \* BACKUP_INTERVAL_SECONDS
  DueAge,      \* nine tenths of it
  RetryPause,  \* BACKUP_RETRY_SECONDS
  StaleAge,    \* BACKUP_STALE_AFTER_SECONDS
  Retention,   \* BACKUP_RETENTION_DAYS
  MaxTime,     \* bound: the clock
  MaxFaults    \* bound: files gone bad, cycles, services and hosts lost

ASSUME BackupsAssumption ==
  /\ {Interval, DueAge, RetryPause, StaleAge, Retention, MaxTime, MaxFaults} \subseteq Nat
  /\ MaxDumps \in Nat \ {0}

VARIABLES
  now,       \* the clock, in units a cycle is short against
  database,  \* what the live database holds
  taken,     \* dumps taken: their names are 1..taken, in the order of time
  dump,      \* the files of each dump, and its off-site object
  cycle,     \* the cycle that holds the lock, if any
  status,    \* offsite-status.json: when a cycle last succeeded, 0 if never
  loop,      \* backup.sh: running or not, when its next cycle is, --if-due
  bad        \* how many things have gone wrong

world == <<now, database, bad>>
backupsVars == <<world, taken, dump, cycle, status, loop>>

Names == 1..MaxDumps

\* What a database may hold: no tables yet, no organizations, or tenants.
Contents == {"bare", "empty", "tenants"}

\* What the sidecar says of the organizations: their count is asked of the live
\* database, which may have no such table.
Count(content) ==
  CASE content = "bare" -> "unknown"
    [] content = "empty" -> "zero"
    [] content = "tenants" -> "some"

\* holds, made: what pg_dump wrote and when; orgs: the count its sidecar records;
\* file, meta, remote: none, good, or spoiled; existed, gone: history, it was
\* published, and was lost with its host.
NoDump == [holds |-> "bare", made |-> 0, orgs |-> "unknown", file |-> "none",
           meta |-> "none", marker |-> FALSE, remote |-> "none",
           existed |-> FALSE, gone |-> FALSE]

\* newest: the dump this cycle is to see off-site, 0 if none; todo: what it has
\* yet to upload; record: the newest is proved; refused: history, storage failed.
NoCycle == [phase |-> "idle", scheduled |-> FALSE, ifDue |-> FALSE, newest |-> 0,
            todo |-> {}, record |-> FALSE, failed |-> FALSE, refused |-> FALSE]

\* A dump older than this tooling, with no sidecar, may be there from the start.
Legacy == [NoDump EXCEPT !.holds = "tenants", !.made = 1, !.file = "good",
                          !.existed = TRUE]

BackupsInit ==
  /\ now = 1
  /\ database = "tenants"
  /\ \/ taken = 0 /\ dump = [d \in Names |-> NoDump]
     \/ taken = 1 /\ dump = [d \in Names |-> IF d = 1 THEN Legacy ELSE NoDump]
  /\ cycle = NoCycle
  /\ status = 0
  /\ loop = [up |-> TRUE, wake |-> 1, ifDue |-> FALSE]
  /\ bad = 0

-----------------------------------------------------------------------------
(* Reading the directory.                                                  *)

Local == {d \in Names : dump[d].file # "none"}
Newest(d, S) == d \in S /\ \A e \in S : e <= d
Oldest(d, S) == d \in S /\ \A e \in S : d <= e

\* The marker names the checksum the sidecar has.
Confirmed(d) == dump[d].marker /\ dump[d].meta = "good"

Pending == {d \in Local : ~Confirmed(d)}

\* Mutant: a dump on the disk counts as the last, however old.
DueIfNone == Local = {}

\* The last dump, which is the youngest, is old enough, or there is none.
DumpIsDue == \A d \in Local : now - dump[d].made >= DueAge

-----------------------------------------------------------------------------
(* A cycle.                                                                *)

InPhase(phase) == cycle.phase = phase
Go(phase) == cycle' = [cycle EXCEPT !.phase = phase]

\* The scheduler's cycle, or an operator's.  Whoever finds the lock taken exits
\* at once.
Begin(scheduled, ifDue) ==
  /\ InPhase("idle")
  /\ cycle' = [NoCycle EXCEPT !.phase = "pruning", !.scheduled = scheduled,
                              !.ifDue = ifDue]
  /\ UNCHANGED <<world, taken, dump, status, loop>>

ScheduledCycle == loop.up /\ now >= loop.wake /\ Begin(TRUE, loop.ifDue)
ManualCycle == Begin(FALSE, FALSE)

\* The scheduler finds the lock taken by an operator's cycle.  It looks again within
\* the minute, and then for a dump that is due.
SchedulerBusy ==
  /\ loop.up /\ now >= loop.wake
  /\ ~InPhase("idle") /\ ~cycle.scheduled
  /\ loop' = [loop EXCEPT !.ifDue = TRUE]
  /\ UNCHANGED <<world, taken, dump, cycle, status>>

\* Mutant: age alone decides.
PruneByAge(d) ==
  /\ InPhase("pruning")
  /\ d \in Local
  /\ now - dump[d].made >= Retention
  /\ dump' = [dump EXCEPT ![d].file = "none"]
  /\ UNCHANGED <<world, taken, cycle, status, loop>>

\* The archive of an old dump is deleted, its off-site copy being proved: one is
\* required.
Prune(d) ==
  /\ InPhase("pruning")
  /\ d \in Local
  /\ now - dump[d].made >= Retention
  /\ Confirmed(d)
  /\ dump' = [dump EXCEPT ![d].file = "none"]
  /\ UNCHANGED <<world, taken, cycle, status, loop>>

\* Then its sidecar and marker, by this cycle or, if it dies, by a later one.
Sweep(d) ==
  /\ InPhase("pruning")
  /\ d \notin Local
  /\ dump[d].meta # "none" \/ dump[d].marker
  /\ dump' = [dump EXCEPT ![d] = [@ EXCEPT !.meta = "none", !.marker = FALSE]]
  /\ UNCHANGED <<world, taken, cycle, status, loop>>

\* Pruning done, or broken off by an error, a dump is taken unless the last one
\* is still recent.
Due == InPhase("pruning") /\ (cycle.ifDue => DumpIsDue)

NotDue ==
  /\ InPhase("pruning")
  /\ cycle.ifDue /\ ~DumpIsDue
  /\ \E d \in Names :
       /\ Newest(d, Local)
       /\ cycle' = [cycle EXCEPT !.phase = "planning", !.newest = d]
  /\ UNCHANGED <<world, taken, dump, status, loop>>

DumpFails ==
  /\ Due
  /\ cycle' = [cycle EXCEPT !.phase = "planning", !.failed = TRUE]
  /\ UNCHANGED <<world, taken, dump, status, loop>>

\* pg_dump reads one snapshot into a .partial, which is validated.
PgDump ==
  /\ Due
  /\ taken < MaxDumps
  /\ taken' = taken + 1
  /\ dump' = [dump EXCEPT ![taken'] = [NoDump EXCEPT !.holds = database, !.made = now]]
  /\ Go("dumped")
  /\ UNCHANGED <<world, status, loop>>

\* The sidecar is written first, and counts the organizations of now.
Describe ==
  /\ InPhase("dumped")
  /\ \E orgs \in {Count(database), "unknown"} :
       dump' = [dump EXCEPT ![taken] = [@ EXCEPT !.meta = "good", !.orgs = orgs]]
  /\ Go("described")
  /\ UNCHANGED <<world, taken, status, loop>>

\* The .partial is renamed: from here on the dump exists.
Publish ==
  /\ InPhase("described")
  /\ dump' = [dump EXCEPT ![taken] = [@ EXCEPT !.file = "good", !.existed = TRUE]]
  /\ cycle' = [cycle EXCEPT !.phase = "planning", !.newest = taken]
  /\ UNCHANGED <<world, taken, status, loop>>

Plan ==
  /\ InPhase("planning")
  /\ cycle' = [cycle EXCEPT !.phase = "uploading", !.todo = Pending,
                 !.record = cycle.newest # 0 /\ cycle.newest \notin Pending]
  /\ UNCHANGED <<world, taken, dump, status, loop>>

\* The key cannot be authorized: no upload is tried.
NoStorage ==
  /\ InPhase("planning")
  /\ Pending # {}
  /\ cycle' = [cycle EXCEPT !.phase = "uploading", !.failed = TRUE, !.refused = TRUE]
  /\ UNCHANGED <<world, taken, dump, status, loop>>

-----------------------------------------------------------------------------
(* One pending dump after another, the oldest first.                       *)

Uploading(d) == InPhase("uploading") /\ Oldest(d, cycle.todo)
At(phase, d) == InPhase(phase) /\ Oldest(d, cycle.todo)

\* The sidecar of a dump older than this tooling is made up once the whole
\* archive can be read.  An archive that is not what the sidecar says is refused;
\* an object already there is verified rather than written again.
CheckLocal(d) ==
  /\ Uploading(d)
  /\ dump[d].file = "good" /\ dump[d].meta # "spoiled"
  /\ dump' = [dump EXCEPT ![d].meta = "good"]
  /\ Go(IF dump[d].remote = "none" THEN "putting" ELSE "verifying")
  /\ UNCHANGED <<world, taken, status, loop>>

\* Mutant: a refused dump ends the uploads, as a rejected key does.
RefuseChangedAll(d) ==
  /\ Uploading(d)
  /\ dump[d].file = "spoiled" /\ dump[d].meta # "spoiled"
  /\ cycle' = [cycle EXCEPT !.todo = {}, !.failed = TRUE]
  /\ UNCHANGED <<world, taken, dump, status, loop>>

RefuseChanged(d) ==
  /\ Uploading(d)
  /\ dump[d].file = "spoiled" /\ dump[d].meta # "spoiled"
  /\ cycle' = [cycle EXCEPT !.todo = @ \ {d}, !.failed = TRUE]
  /\ UNCHANGED <<world, taken, dump, status, loop>>

\* The object is stored; in parts, with whatever the archive holds by then.
Put(d) ==
  /\ At("putting", d)
  /\ dump' = [dump EXCEPT ![d].remote = dump[d].file]
  /\ Go("verifying")
  /\ UNCHANGED <<world, taken, status, loop>>

\* Storage is silent or fails until the attempts are spent, having stored the
\* object or not; or what is there is not the dump.
UploadFails(d) ==
  /\ Oldest(d, cycle.todo)
  /\ \/ InPhase("uploading") /\ dump[d].meta # "spoiled" /\ UNCHANGED dump
     \/ InPhase("putting") /\ \E object \in {"none", dump[d].file} :
                                dump' = [dump EXCEPT ![d].remote = object]
     \/ InPhase("verifying") /\ UNCHANGED dump
  /\ cycle' = [cycle EXCEPT !.phase = "uploading", !.todo = @ \ {d},
                            !.failed = TRUE, !.refused = TRUE]
  /\ UNCHANGED <<world, taken, status, loop>>

\* Storage rejects the key: no other dump is tried.
Rejected(d) ==
  /\ Oldest(d, cycle.todo)
  /\ cycle.phase \in {"uploading", "putting", "verifying"}
  /\ dump[d].meta # "spoiled"
  /\ cycle' = [cycle EXCEPT !.phase = "uploading", !.todo = {},
                            !.failed = TRUE, !.refused = TRUE]
  /\ UNCHANGED <<world, taken, dump, status, loop>>

\* The object is read back and is the dump; only now is the marker written.
Verify(d) ==
  /\ At("verifying", d)
  /\ dump[d].remote = "good"
  /\ dump' = [dump EXCEPT ![d].marker = TRUE]
  /\ cycle' = [cycle EXCEPT !.phase = "uploading", !.todo = @ \ {d},
                            !.record = @ \/ d = cycle.newest]
  /\ UNCHANGED <<world, taken, status, loop>>

-----------------------------------------------------------------------------
(* The end of a cycle, and what may break it off.                          *)

\* When the scheduler runs next.
Sleep(success) ==
  loop' = IF cycle.scheduled
          THEN [loop EXCEPT !.ifDue = TRUE,
                            !.wake = now + (IF success THEN Interval ELSE RetryPause)]
          ELSE loop

Succeeded == cycle.newest # 0 /\ ~cycle.failed /\ cycle.record

Finish ==
  /\ InPhase("uploading")
  /\ cycle.todo = {}
  /\ status' = IF Succeeded THEN now ELSE status
  /\ Sleep(Succeeded)
  /\ cycle' = NoCycle
  /\ UNCHANGED <<world, taken, dump>>

\* A sidecar that cannot be read is no failure the cycle knows: it ends there,
\* with no status written.
Stumble(d) ==
  /\ Uploading(d)
  /\ dump[d].meta = "spoiled"
  /\ Sleep(FALSE)
  /\ cycle' = NoCycle
  /\ UNCHANGED <<world, taken, dump, status>>

\* Something goes wrong, at most MaxFaults times.
Fault ==
  /\ bad < MaxFaults
  /\ bad' = bad + 1
  /\ UNCHANGED now

\* The cycle's process dies; the kernel frees the lock.
CycleDies ==
  /\ Fault
  /\ ~InPhase("idle")
  /\ Sleep(FALSE)
  /\ cycle' = NoCycle
  /\ UNCHANGED <<database, taken, dump, status>>

\* The service is stopped, whatever it is doing, and started again.
Stop ==
  /\ Fault
  /\ loop.up
  /\ loop' = [loop EXCEPT !.up = FALSE]
  /\ cycle' = NoCycle
  /\ UNCHANGED <<database, taken, dump, status>>

Start ==
  /\ ~loop.up
  /\ loop' = [up |-> TRUE, wake |-> now, ifDue |-> FALSE]
  /\ UNCHANGED <<world, taken, dump, cycle, status>>

\* A file goes bad on the disk.
Spoil(d) ==
  /\ Fault
  /\ \/ dump[d].file = "good" /\ dump' = [dump EXCEPT ![d].file = "spoiled"]
     \/ dump[d].meta = "good" /\ dump' = [dump EXCEPT ![d].meta = "spoiled"]
  /\ UNCHANGED <<database, taken, cycle, status, loop>>

\* The host is lost.  The next one starts with an empty disk, and its backups
\* with its database.
LoseHost ==
  /\ Fault
  /\ dump' = [d \in Names |->
       [dump[d] EXCEPT !.file = "none", !.meta = "none", !.marker = FALSE,
                       !.gone = @ \/ dump[d].file # "none"]]
  /\ database' = "bare"
  /\ status' = 0
  /\ cycle' = NoCycle
  /\ loop' = [up |-> TRUE, wake |-> now, ifDue |-> FALSE]
  /\ UNCHANGED taken

-----------------------------------------------------------------------------
(* Around it.                                                              *)

Tick ==
  /\ InPhase("idle")
  /\ now < MaxTime
  /\ loop.up => now < loop.wake
  /\ now' = now + 1
  /\ UNCHANGED <<database, bad, taken, dump, cycle, status, loop>>

\* The API migrates its database as it starts.
Migrate ==
  /\ database = "bare"
  /\ database' = "empty"
  /\ UNCHANGED <<now, bad, taken, dump, cycle, status, loop>>

\* The backup that "latest" means: the newest that does not record a database
\* without organizations.
LatestKey(d) ==
  LET kept == {e \in Names : dump[e].remote # "none" /\ dump[e].orgs # "zero"}
  IN  Newest(d, kept)

\* A backup is fetched, proved whole and restored beside the live database: the
\* latest off-site, or one of this disk.  The operator swaps it in once it is
\* seen to hold what was lost.
Restore(d) ==
  /\ database # "tenants"
  /\ \/ LatestKey(d) /\ dump[d].remote = "good"
     \/ dump[d].file = "good"
  /\ dump[d].holds = "tenants"
  /\ database' = "tenants"
  /\ UNCHANGED <<now, bad, taken, dump, cycle, status, loop>>

CycleStep ==
  \/ NotDue \/ DumpFails \/ PgDump \/ Describe \/ Publish
  \/ Plan \/ NoStorage \/ Finish
  \/ \E d \in Names :
       \/ Prune(d) \/ Sweep(d) \/ CheckLocal(d) \/ RefuseChanged(d) \/ Put(d)
       \/ UploadFails(d) \/ Rejected(d) \/ Verify(d) \/ Stumble(d)

BackupsNext ==
  \/ ScheduledCycle \/ ManualCycle \/ SchedulerBusy \/ CycleStep
  \/ CycleDies \/ Stop \/ Start \/ LoseHost
  \/ Tick \/ Migrate
  \/ \E d \in Names : Spoil(d) \/ Restore(d)

BackupsSpec == BackupsInit /\ [][BackupsNext]_backupsVars

-----------------------------------------------------------------------------
(* Properties.                                                             *)

\* Every variable holds what the code can put there.
BackupsTypeOK ==
  /\ now \in Nat /\ bad \in Nat /\ status \in Nat
  /\ database \in Contents
  /\ taken \in 0..MaxDumps
  /\ dump \in [Names -> [holds : Contents, made : Nat,
                         orgs : {"unknown", "zero", "some"},
                         file : {"none", "good", "spoiled"},
                         meta : {"none", "good", "spoiled"}, marker : BOOLEAN,
                         remote : {"none", "good", "spoiled"},
                         existed : BOOLEAN, gone : BOOLEAN]]
  /\ cycle \in [phase : {"idle", "pruning", "dumped", "described", "planning",
                         "uploading", "putting", "verifying"},
                scheduled : BOOLEAN, ifDue : BOOLEAN, newest : 0..MaxDumps,
                todo : SUBSET Names, record : BOOLEAN, failed : BOOLEAN,
                refused : BOOLEAN]
  /\ loop \in [up : BOOLEAN, wake : Nat, ifDue : BOOLEAN]
  /\ cycle.phase \in {"dumped", "described"} => taken > 0
  /\ cycle.phase \in {"putting", "verifying"} => cycle.todo # {}
  /\ cycle.todo \subseteq Local

\* A dump that existed is on the disk or safe off-site, unless its host was
\* lost: pruning never deletes the only copy, whatever died or went bad before
\* (prune_local, is_offsite_confirmed).
OnlyCopyKept ==
  \A d \in Names :
    dump[d].existed /\ ~dump[d].gone => d \in Local \/ dump[d].remote = "good"

\* Where storage answered throughout, a cycle that gets to its end leaves no
\* intact dump behind: one that went bad does not stop those after it
\* (_cycle, upload_and_verify).
CleanCycleLeavesNothing ==
  InPhase("uploading") /\ cycle.todo = {} /\ ~cycle.refused =>
    \A d \in Local :
      dump[d].file = "good" /\ dump[d].meta = "good" => dump[d].marker

\* What `errs-offsite health` answers (cmd_health).
Healthy == status # 0 /\ now - status <= StaleAge

OffsiteNoOlderThan(age) ==
  \E d \in Names : dump[d].remote = "good" /\ now - dump[d].made <= age

\* While health is good there is a whole off-site copy, no older than the
\* staleness limit and the age at which a dump falls due (dump_is_due, _cycle).
HealthyIsRecent == Healthy => OffsiteNoOlderThan(StaleAge + DueAge)

\* Types, a cycle that ends well leaves no intact dump behind, and health vouches
\* for a recent copy.
BackupsInv == BackupsTypeOK /\ CleanCycleLeavesNothing /\ HealthyIsRecent

-----------------------------------------------------------------------------
(* What the documentation says and the code does not do.                   *)

\* docs/RUNBOOK.md, "Restore after losing the whole VM": "latest" still means
\* the newest backup with real data.
LatestHoldsTenants ==
  \A d \in Names :
    /\ LatestKey(d)
    /\ \E e \in Names : dump[e].remote = "good" /\ dump[e].holds = "tenants"
    => dump[d].holds = "tenants"

=============================================================================
