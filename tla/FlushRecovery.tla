---------------------------- MODULE FlushRecovery ----------------------------
(***************************************************************************)
(* From a write to a table file and back: the write-ahead logs (WALs), the *)
(* switch of memtables, background flush jobs, the commit of their results *)
(* to the MANIFEST, the deletion of WALs, crashes, and DB::Open().         *)
(*                                                                         *)
(* A write has an identity (its index in hist); a memtable, a table file   *)
(* and a WAL are the writes they hold.  A batch may touch several column   *)
(* families and takes one sequence number.  Actions are the stretches of   *)
(* code between two releases of mutex_.  Not here: two-phase commit, the   *)
(* WAL set in the MANIFEST, atomic flush, recycled WALs, mempurge, dropped *)
(* column families; the WAL recovery mode is kPointInTimeRecovery.         *)
(***************************************************************************)
EXTENDS Naturals, Sequences, FiniteSets, SequencesExt, FiniteSetsExt

CONSTANTS
    CFs,                \* column families
    Jobs,               \* background flush threads
    Batches,            \* the sets of column families a write may touch
    AvoidFlush,         \* avoid_flush_during_recovery
    MaxWrites,          \* bound: writes issued
    Faults              \* bounds: crashes; errors, that is failed flushes, syncs
                        \* and MANIFEST writes; and rolls, whether a MANIFEST may
                        \* exceed max_manifest_file_size

ASSUME BatchesTouchCFs == Batches \subseteq (SUBSET CFs \ {{}})
ASSUME FaultsTyped == Faults \subseteq [crashes : Nat, errors : Nat, rolls : BOOLEAN]

VARIABLES
    \* on storage
    wal,                \* WAL files by number: records, how many synced, torn tail
    manifest,           \* what the MANIFEST that CURRENT names says
    \* DBImpl
    db,                 \* "open", "closed", "opening" or "corrupt"
    last_sequence,
    logfile_number,     \* logfile_number_, the WAL being written
    log_empty,          \* log_empty_
    logs,               \* logs_: open WALs, not known to be fully synced
    alive,              \* alive_log_files_
    getting_flushed,    \* the WAL last marked by SwitchWAL, 0 if none
    bg_error,           \* "none", "soft" or "hard"
    no_deletions,       \* disable_delete_obsolete_files_ > 0
    \* ColumnFamilyData, MemTableList and VersionSet
    mem,                \* writes of the active memtable
    imm,                \* immutable memtables, oldest first
    memtable_id,        \* last_memtable_id_
    log_number,         \* ColumnFamilyData::log_number_
    committing,         \* commit_in_progress_
    current,            \* writes in the table files of the current version
    min_log,            \* min_log_number_to_keep_
    job,                \* flush jobs
    writers,            \* manifest_writers_
    writing,            \* the MANIFEST write under way
    no_descriptor,      \* descriptor_log_ was reset by a failed write
    \* history
    hist,               \* writes in the order they were issued
    acked,              \* writes a successful sync covered
    since,              \* writes issued before this incarnation
    crashes, errors,    \* those still to come
    rolls

diskVars == <<wal, manifest>>
logVars  == <<logfile_number, log_empty, logs, alive, getting_flushed>>
errVars  == <<bg_error, no_deletions>>
memVars  == <<mem, imm, memtable_id>>
setVars  == <<log_number, current, min_log>>
manVars  == <<writers, writing, no_descriptor>>
histVars == <<hist, acked, since>>
bounds   == <<crashes, errors, rolls>>
vars == <<diskVars, db, last_sequence, logVars, errVars, memVars, setVars,
          committing, job, manVars, histVars, bounds>>

Idle   == [pc |-> "idle", cf |-> CHOOSE c \in CFs : TRUE, max_id |-> 0,
           mems |-> {}, failed |-> FALSE, del |-> {}]
NoWrite == [n |-> 0, roll |-> FALSE, base |-> <<>>]
EmptyWal == [recs |-> <<>>, synced |-> 0, torn |-> FALSE]

Init ==
    /\ wal = 1 :> EmptyWal
    /\ manifest = [log |-> [c \in CFs |-> 0], min_log |-> 0,
                   files |-> [c \in CFs |-> {}]]
    /\ db = "open" /\ last_sequence = 0
    /\ logfile_number = 1 /\ log_empty = TRUE
    /\ logs = {1} /\ alive = {1} /\ getting_flushed = 0
    /\ bg_error = "none" /\ no_deletions = FALSE
    /\ mem = [c \in CFs |-> {}] /\ imm = [c \in CFs |-> <<>>]
    /\ memtable_id = [c \in CFs |-> 1]
    /\ log_number = [c \in CFs |-> 0] /\ min_log = 0
    /\ current = [c \in CFs |-> {}]
    /\ committing = [c \in CFs |-> FALSE]
    /\ job = [j \in Jobs |-> Idle]
    /\ writers = <<>> /\ writing = NoWrite /\ no_descriptor = FALSE
    /\ hist = <<>> /\ acked = {} /\ since = 0
    /\ \E f \in Faults :
          crashes = f.crashes /\ errors = f.errors /\ rolls = f.rolls

\* What a read of column family c finds.
Contents(c) ==
    mem[c] \cup UNION {imm[c][i].data : i \in DOMAIN imm[c]} \cup current[c]

-----------------------------------------------------------------------------
(* The write path. *)

\* Every open WAL is synced; MarkLogsSynced drops the inactive ones from logs_.
SyncLogs(files, upto) ==
    [n \in DOMAIN files |-> IF n \in logs /\ n <= upto
        THEN [files[n] EXCEPT !.synced = Len(files[n].recs)] ELSE files[n]]

\* DBImpl::WriteImpl for a group of one; a soft background error lets it pass.
Write(S, sync) ==
    LET id  == Len(hist) + 1
        seq == last_sequence + 1
        log == [wal EXCEPT ![logfile_number].recs =
                    Append(@, [id |-> id, seq |-> seq])]
    IN  /\ db = "open" /\ bg_error # "hard" /\ id <= MaxWrites
        /\ hist' = Append(hist, [cfs |-> S, seq |-> seq,
                                  log |-> logfile_number])
        /\ last_sequence' = seq
        /\ wal' = IF sync THEN SyncLogs(log, logfile_number) ELSE log
        /\ logs' = IF sync THEN {logfile_number} ELSE logs
        /\ acked' = IF sync THEN acked \cup (since + 1)..id ELSE acked
        /\ mem' = [c \in CFs |-> mem[c] \cup (IF c \in S THEN {id} ELSE {})]
        /\ log_empty' = FALSE
        /\ UNCHANGED <<manifest, db, logfile_number, alive, getting_flushed,
                       errVars, imm, memtable_id, setVars, committing, job,
                       manVars, since, bounds>>

\* DBImpl::SyncWAL
SyncWAL ==
    /\ db = "open" /\ \E n \in logs : wal[n].synced < Len(wal[n].recs)
    /\ wal' = SyncLogs(wal, logfile_number)
    /\ logs' = {logfile_number}
    /\ acked' = acked \cup (since + 1)..Len(hist)
    /\ UNCHANGED <<manifest, db, last_sequence, logfile_number, log_empty,
                   alive, getting_flushed, errVars, memVars, setVars,
                   committing, job, manVars, hist, since, bounds>>

IsEmpty(c) == mem[c] = {} /\ imm[c] = <<>>

\* DBImpl::SwitchMemtable for each of cfs in turn: the first creates a WAL
\* unless the current one is empty, the others then find it empty.
SwitchMemtable(cfs) ==
    LET creating == ~log_empty
        number   == IF creating THEN Max(DOMAIN wal) + 1 ELSE logfile_number
        sealed(c) == [id |-> memtable_id[c], data |-> mem[c],
                      next_log |-> number, in_progress |-> FALSE,
                      completed |-> FALSE, file |-> 0]
    IN  /\ wal' = [n \in DOMAIN wal \cup {number} |->
                       IF n \in DOMAIN wal THEN wal[n] ELSE EmptyWal]
        /\ logfile_number' = number
        /\ log_empty' = TRUE
        /\ logs' = logs \cup {number} /\ alive' = alive \cup {number}
        /\ log_number' = [c \in CFs |-> IF IsEmpty(c) /\ creating
                                        THEN number ELSE log_number[c]]
        /\ imm' = [c \in CFs |-> IF c \in cfs THEN Append(imm[c], sealed(c))
                                              ELSE imm[c]]
        /\ mem' = [c \in CFs |-> IF c \in cfs THEN {} ELSE mem[c]]
        /\ memtable_id' = [c \in CFs |-> IF c \in cfs THEN memtable_id[c] + 1
                                                      ELSE memtable_id[c]]
        /\ UNCHANGED <<manifest, db, last_sequence, errVars, current, min_log,
                       committing, job, manVars, histVars, bounds>>

\* A full write buffer (ScheduleFlushes) or a manual flush.
Seal(c) ==
    /\ db = "open" /\ bg_error # "hard" /\ mem[c] # {}
    /\ SwitchMemtable({c})
    /\ UNCHANGED getting_flushed

\* DBImpl::SwitchWAL: the WALs are too large in total.
SwitchWAL ==
    LET oldest == Min(alive)
        cfds   == {c \in CFs : log_number[c] <= oldest}
    IN  /\ db = "open" /\ bg_error # "hard" /\ Cardinality(CFs) > 1
        /\ \E n \in alive : wal[n].recs # <<>>
        /\ getting_flushed # oldest
        /\ getting_flushed' = oldest
        /\ IF cfds # {} THEN SwitchMemtable(cfds)
           ELSE UNCHANGED <<diskVars, db, last_sequence, logfile_number,
                            log_empty, logs, alive, errVars, memVars, setVars,
                            committing, job, manVars, histVars, bounds>>

-----------------------------------------------------------------------------
(* Flush jobs. *)

MultiCF == Cardinality(CFs) > 1
GetLatestMemTableID(c) == IF imm[c] = <<>> THEN 0 ELSE Last(imm[c]).id

Fail == errors > 0 /\ errors' = errors - 1

\* MemTableList::PickMemtablesToFlush, the walk from the oldest memtable.
Picks(c, max_id) ==
    LET list == imm[c]
        ok(i) == ~list[i].in_progress /\ list[i].id <= max_id
    IN  {i \in DOMAIN list : \A h \in 1..i : \A k \in h..i :
                                 ok(i) /\ (ok(h) => ok(k))}

\* FlushJob::PickMemTable; with nothing picked FlushJob::Run returns at once.
PickMemTable(j, c, max_id) ==
    LET p == Picks(c, max_id)
    IN  /\ imm' = [imm EXCEPT ![c] = [i \in DOMAIN @ |->
                       IF i \in p THEN [@[i] EXCEPT !.in_progress = TRUE]
                                  ELSE @[i]]]
        /\ job' = [job EXCEPT ![j] = [Idle EXCEPT !.cf = c,
                       !.pc = IF p = {} THEN "obsolete" ELSE "run",
                       !.mems = {imm[c][i].id : i \in p}]]

\* Mutant: the job may take memtables that are sealed after the WALs were synced.
BackgroundFlushUnbounded(j, c) ==
    /\ db = "open" /\ bg_error = "none" /\ job[j].pc = "idle"
    /\ \E i \in DOMAIN imm[c] : ~imm[c][i].in_progress
    /\ job' = [job EXCEPT ![j] = [Idle EXCEPT !.pc = "sync", !.cf = c,
                   !.max_id = MaxWrites + 1]]
    /\ UNCHANGED <<diskVars, db, last_sequence, logVars, errVars, memVars,
                   setVars, committing, manVars, histVars, bounds>>

\* DBImpl::BackgroundFlush and the start of FlushMemTableToOutputFile: with
\* several column families the mutex is released to sync the closed WALs.
BackgroundFlush(j, c) ==
    /\ db = "open" /\ bg_error = "none" /\ job[j].pc = "idle"
    /\ \E i \in DOMAIN imm[c] : ~imm[c][i].in_progress
    /\ IF MultiCF
       THEN /\ job' = [job EXCEPT ![j] = [Idle EXCEPT !.pc = "sync", !.cf = c,
                           !.max_id = GetLatestMemTableID(c)]]
            /\ UNCHANGED imm
       ELSE PickMemTable(j, c, memtable_id[c])
    /\ UNCHANGED <<diskVars, db, last_sequence, logVars, errVars, mem,
                   memtable_id, setVars, committing, manVars, histVars, bounds>>

\* Mutant: the closed WALs are not synced.
SyncClosedLogsSkipped(j) ==
    /\ job[j].pc = "sync"
    /\ job' = [job EXCEPT ![j].pc = "pick"]
    /\ UNCHANGED <<diskVars, db, last_sequence, logVars, errVars, memVars,
                   setVars, committing, manVars, histVars, bounds>>

\* DBImpl::SyncClosedLogs, without mutex_.
SyncClosedLogs(j) ==
    /\ job[j].pc = "sync"
    /\ wal' = SyncLogs(wal, logfile_number - 1)
    /\ logs' = {n \in logs : n >= logfile_number}
    /\ job' = [job EXCEPT ![j].pc = "pick"]
    /\ UNCHANGED <<manifest, db, last_sequence, logfile_number, log_empty,
                   alive, getting_flushed, errVars, memVars, setVars,
                   committing, manVars, histVars, bounds>>

\* A failed sync is a hard error; no memtable was picked.
SyncClosedLogsFails(j) ==
    /\ job[j].pc = "sync" /\ Fail
    /\ bg_error' = "hard"
    /\ job' = [job EXCEPT ![j].pc = "obsolete", ![j].failed = TRUE]
    /\ UNCHANGED <<diskVars, db, last_sequence, logVars, no_deletions,
                   memVars, setVars, committing, manVars, histVars, crashes, rolls>>

\* The rest of FlushMemTableToOutputFile up to WriteLevel0Table.
StartFlushJob(j) ==
    /\ job[j].pc = "pick"
    /\ PickMemTable(j, job[j].cf, job[j].max_id)
    /\ UNCHANGED <<diskVars, db, last_sequence, logVars, errVars, mem,
                   memtable_id, setVars, committing, manVars, histVars, bounds>>

\* WriteLevel0Table failed: MemTableList::RollbackMemtableFlush.
RollbackMemtableFlush(j) ==
    LET c == job[j].cf IN
    /\ job[j].pc = "run" /\ Fail
    /\ imm' = [imm EXCEPT ![c] = [i \in DOMAIN @ |->
                   IF @[i].id \in job[j].mems
                   THEN [@[i] EXCEPT !.in_progress = FALSE, !.completed = FALSE]
                   ELSE @[i]]]
    /\ bg_error' = IF bg_error = "hard" THEN "hard" ELSE "soft"
    /\ job' = [job EXCEPT ![j].pc = "obsolete", ![j].failed = TRUE]
    /\ UNCHANGED <<diskVars, db, last_sequence, logVars, no_deletions, mem,
                   memtable_id, setVars, committing, manVars, histVars, crashes, rolls>>

-----------------------------------------------------------------------------
(* The commit of flush results to the MANIFEST. *)

\* Mutant: results are committed as they come.
CommittableAny(list) == {i \in DOMAIN list : list[i].completed}

\* The memtables that can be committed: flushed, and so is every older one.
Committable(list) ==
    {i \in DOMAIN list : \A k \in 1..i : list[k].completed}

\* The VersionEdit FlushJob put on the first memtable of the batch of file f.
EditOf(c, list, f) ==
    LET b == {i \in DOMAIN list : list[i].file = f}
    IN  [cf |-> c, log |-> Max({list[i].next_log : i \in b}),
         data |-> UNION {list[i].data : i \in b}, min_log |-> 0]

\* Mutant: the other column families are forgotten.
MinLogToKeepOwn(c, edits) == Max({edits[i].log : i \in DOMAIN edits})

\* PrecomputeMinLogNumberToKeepNon2PC
MinLogToKeep(c, edits) ==
    Min({Max({edits[i].log : i \in DOMAIN edits})} \cup
        {log_number[d] : d \in CFs \ {c}})

\* edit_list of TryInstallMemtableFlushResults: the flush edits from the
\* oldest, then the one that advances min_log_number_to_keep.
EditList(c, list) ==
    LET files == SetToSortSeq({list[i].file : i \in Committable(list)}, <)
        edits == [i \in DOMAIN files |-> EditOf(c, list, files[i])]
    IN  Append(edits, [cf |-> c, log |-> 0, data |-> {},
                       min_log |-> MinLogToKeep(c, edits)])

\* One turn of the commit loop of job j on the list of memtables.
CommitTurn(j, c, list) ==
    IF Committable(list) # {}
    THEN /\ writers' = Append(writers, [job |-> j, cf |-> c,
                           n |-> Cardinality(Committable(list)),
                           edits |-> EditList(c, list)])
         /\ committing' = [committing EXCEPT ![c] = TRUE]
         /\ job' = [job EXCEPT ![j].pc = "commit"]
    ELSE /\ committing' = [committing EXCEPT ![c] = FALSE]
         /\ job' = [job EXCEPT ![j].pc = "obsolete"]
         /\ UNCHANGED writers

\* TryInstallMemtableFlushResults after WriteLevel0Table succeeded; the table
\* file is named by the first memtable of its batch.
TryInstallMemtableFlushResults(j) ==
    LET c    == job[j].cf
        file == Min(job[j].mems)
        list == [i \in DOMAIN imm[c] |-> IF imm[c][i].id \in job[j].mems
                    THEN [imm[c][i] EXCEPT !.completed = TRUE, !.file = file]
                    ELSE imm[c][i]]
    IN  /\ job[j].pc = "run"
        /\ imm' = [imm EXCEPT ![c] = list]
        /\ IF committing[c]
           THEN /\ job' = [job EXCEPT ![j].pc = "obsolete"]
                /\ UNCHANGED <<writers, committing>>
           ELSE CommitTurn(j, c, list)
        /\ UNCHANGED <<diskVars, db, last_sequence, logVars, errVars, mem,
                       memtable_id, setVars, writing, no_descriptor, histVars,
                       bounds>>

\* Mutant: memtables flushed by others in the meantime are not looked for.
CommitAgainNever(j) ==
    /\ job[j].pc = "again"
    /\ committing' = [committing EXCEPT ![job[j].cf] = FALSE]
    /\ job' = [job EXCEPT ![j].pc = "obsolete"]
    /\ UNCHANGED <<diskVars, db, last_sequence, logVars, errVars, memVars,
                   setVars, manVars, histVars, bounds>>

\* The loop continues when LogAndApply has returned.
CommitAgain(j) ==
    /\ job[j].pc = "again"
    /\ CommitTurn(j, job[j].cf, imm[job[j].cf])
    /\ UNCHANGED <<diskVars, db, last_sequence, logVars, errVars, memVars,
                   setVars, writing, no_descriptor, histVars, bounds>>

\* What a sequence of edits makes of a MANIFEST, or of the VersionSet.
Apply(m, e) ==
    [log     |-> [m.log EXCEPT ![e.cf] = Max({@, e.log})],
     min_log |-> Max({m.min_log, e.min_log}),
     files   |-> [m.files EXCEPT ![e.cf] = @ \cup e.data]]
ApplyAll(m, edits) == FoldLeft(Apply, m, edits)

VersionSet == [log |-> log_number, min_log |-> min_log, files |-> current]
BatchEdits == FlattenSeq([i \in 1..writing.n |-> writers[i].edits])

\* VersionSet::ProcessManifestWrites up to the release of mutex_: the writer at
\* the head takes all queued edits; a new MANIFEST starts from the VersionSet.
ProcessManifestWrites(roll) ==
    /\ writers # <<>> /\ writing.n = 0
    /\ IF no_descriptor THEN roll ELSE roll => rolls
    /\ writing' = [n |-> Len(writers), roll |-> roll,
                   base |-> IF roll THEN VersionSet ELSE manifest]
    /\ UNCHANGED <<diskVars, db, last_sequence, logVars, errVars, memVars,
                   setVars, committing, job, writers, no_descriptor, histVars,
                   bounds>>

\* How many memtables the finished writers commit, and for which jobs.
Committed(c) ==
    LET ws == {i \in 1..writing.n : writers[i].cf = c}
    IN  IF ws = {} THEN 0 ELSE writers[CHOOSE i \in ws : TRUE].n
Woken == {writers[i].job : i \in 1..writing.n}

\* The edits are durable: apply them, RemoveMemTablesOrRestoreFlags(OK).
ManifestWritten ==
    LET v == ApplyAll(VersionSet, BatchEdits)
    IN  /\ writing.n > 0
        /\ manifest' = ApplyAll(writing.base, BatchEdits)
        /\ log_number' = v.log /\ min_log' = v.min_log /\ current' = v.files
        /\ imm' = [c \in CFs |-> SubSeq(imm[c], Committed(c) + 1, Len(imm[c]))]
        /\ job' = [j \in Jobs |-> IF j \in Woken
                       THEN [job[j] EXCEPT !.pc = "again"] ELSE job[j]]
        /\ writers' = SubSeq(writers, writing.n + 1, Len(writers))
        /\ writing' = NoWrite /\ no_descriptor' = FALSE
        /\ UNCHANGED <<wal, db, last_sequence, logVars, errVars, mem,
                       memtable_id, committing, histVars, bounds>>

\* What storage may hold when a MANIFEST write does not complete: any prefix
\* of the records, or one of two files when CURRENT was to be switched.
PartialManifests ==
    IF writing.n = 0 THEN {manifest}
    ELSE IF writing.roll THEN {manifest, ApplyAll(writing.base, BatchEdits)}
    ELSE {ApplyAll(manifest, SubSeq(BatchEdits, 1, k)) :
              k \in 0..Len(BatchEdits)}

\* The write failed: manifest_writers_ and the flags of the memtables, list[c]
\* for column family c, are restored; a soft background error that also
\* disables file deletions.
ManifestWriteFailsWith(list) ==
    /\ writing.n > 0 /\ Fail
    /\ manifest' \in PartialManifests
    /\ imm' = list
    /\ committing' = [c \in CFs |-> committing[c] /\ Committed(c) = 0]
    /\ job' = [j \in Jobs |-> IF j \in Woken
                   THEN [job[j] EXCEPT !.pc = "obsolete", !.failed = TRUE]
                   ELSE job[j]]
    /\ writers' = SubSeq(writers, writing.n + 1, Len(writers))
    /\ writing' = NoWrite /\ no_descriptor' = TRUE
    /\ bg_error' = IF bg_error = "hard" THEN "hard" ELSE "soft"
    /\ no_deletions' = TRUE
    /\ UNCHANGED <<wal, db, last_sequence, logVars, mem, memtable_id, setVars,
                   histVars, crashes, rolls>>

\* RemoveMemTablesOrRestoreFlags(error)
ManifestWriteFails ==
    LET restored == [c \in CFs |-> [i \in DOMAIN imm[c] |-> IF i <= Committed(c)
            THEN [imm[c][i] EXCEPT !.completed = FALSE, !.in_progress = FALSE,
                                   !.file = 0]
            ELSE imm[c][i]]]
    IN  ManifestWriteFailsWith(restored)

\* DBImpl::ResumeImpl: once background work has stopped, a new MANIFEST if the
\* last write failed; file deletions and background work are enabled again.
\* The flush of all column families it forces is left to the flush jobs.
Resume ==
    /\ db = "open" /\ bg_error # "none"
    /\ \A j \in Jobs : job[j].pc = "idle"
    /\ manifest' = IF no_descriptor THEN VersionSet ELSE manifest
    /\ no_descriptor' = FALSE /\ bg_error' = "none" /\ no_deletions' = FALSE
    /\ UNCHANGED <<wal, db, last_sequence, logVars, memVars, setVars,
                   committing, job, writers, writing, histVars, bounds>>

-----------------------------------------------------------------------------
(* Deletion of WALs. *)

\* DBImpl::FindObsoleteFiles; after a failed flush it scans the directory.
FindObsoleteFiles(j) ==
    LET found == IF job[j].failed THEN DOMAIN wal ELSE alive
        del   == {n \in found : n < min_log}
    IN  /\ job[j].pc = "obsolete"
        /\ IF no_deletions
           THEN job' = [job EXCEPT ![j] = Idle] /\ UNCHANGED <<alive, logs>>
           ELSE /\ alive' = {n \in alive : n >= min_log}
                /\ logs' = {n \in logs : n >= min_log}
                /\ job' = [job EXCEPT ![j] =
                       IF del = {} THEN Idle
                       ELSE [Idle EXCEPT !.pc = "purge", !.del = del]]
        /\ UNCHANGED <<diskVars, db, last_sequence, logfile_number, log_empty,
                       getting_flushed, errVars, memVars, setVars, committing,
                       manVars, histVars, bounds>>

\* DBImpl::PurgeObsoleteFiles, without mutex_.
PurgeObsoleteFiles(j) ==
    /\ job[j].pc = "purge"
    /\ wal' = Restrict(wal, DOMAIN wal \ job[j].del)
    /\ job' = [job EXCEPT ![j] = Idle]
    /\ UNCHANGED <<manifest, db, last_sequence, logVars, errVars, memVars,
                   setVars, committing, manVars, histVars, bounds>>

-----------------------------------------------------------------------------
(* Crashes and DB::Open(). *)

\* The process or the host stops.  The files a host crash leaves lose records
\* that were not synced, from the end, perhaps with part of a record.
LossyWals ==
    LET unsynced == {n \in DOMAIN wal : wal[n].synced < Len(wal[n].recs)}
        left(n, keep, torn) ==
            IF n \notin unsynced \/ keep[n] = Len(wal[n].recs)
            THEN [wal[n] EXCEPT !.synced = Len(wal[n].recs)]
            ELSE [recs |-> SubSeq(wal[n].recs, 1, keep[n]), synced |-> keep[n],
                  torn |-> n \in torn]
    IN  {[n \in DOMAIN wal |-> left(n, keep, torn)] :
            keep \in {f \in [unsynced -> 0..MaxWrites] : \A n \in unsynced :
                        wal[n].synced <= f[n] /\ f[n] <= Len(wal[n].recs)},
            torn \in SUBSET unsynced}

Crash(host) ==
    /\ db \in {"open", "opening"} /\ crashes > 0
    /\ crashes' = crashes - 1
    /\ db' = "closed"
    /\ wal' \in (IF host THEN LossyWals ELSE {wal})
    /\ manifest' \in PartialManifests
    /\ logfile_number' = 0 /\ log_empty' = TRUE /\ logs' = {} /\ alive' = {}
    /\ getting_flushed' = 0 /\ last_sequence' = 0
    /\ bg_error' = "none" /\ no_deletions' = FALSE
    /\ mem' = [c \in CFs |-> {}] /\ imm' = [c \in CFs |-> <<>>]
    /\ memtable_id' = [c \in CFs |-> 1]
    /\ log_number' = [c \in CFs |-> 0] /\ min_log' = 0
    /\ current' = [c \in CFs |-> {}]
    /\ committing' = [c \in CFs |-> FALSE]
    /\ job' = [j \in Jobs |-> Idle]
    /\ writers' = <<>> /\ writing' = NoWrite /\ no_descriptor' = FALSE
    /\ UNCHANGED <<hist, acked, since, errors, rolls>>

\* RecoverLogFiles, its locals: next_sequence (0 for kMaxSequenceNumber),
\* stop_replay_for_corruption, corrupted_wal_number (0 if none found), the break
\* out of the current file, and the memtables.
Start == [next |-> 0, stop |-> FALSE, bad |-> 0, skip |-> FALSE,
          mem |-> [c \in CFs |-> {}]]

\* Mutant: updates to column families that flushed WAL n are applied.
ReplayRecordAll(n, st, r) ==
    IF st.skip \/ (st.stop /\ r.seq # st.next) THEN [st EXCEPT !.skip = TRUE]
    ELSE [st EXCEPT !.stop = FALSE,
                    !.next = IF r.id = 0 THEN r.seq ELSE r.seq + 1,
                    !.mem = [c \in CFs |-> @[c] \cup
                        {id \in {r.id} \ {0} : c \in hist[id].cfs}]]

\* One record of WAL n: a consecutive sequence number ends a stop, another one
\* during a stop leaves the file.  MemTableInserter::SeekToColumnFamily ignores
\* updates to column families that have flushed this WAL.
ReplayRecord(n, st, r) ==
    IF st.skip \/ (st.stop /\ r.seq # st.next) THEN [st EXCEPT !.skip = TRUE]
    ELSE [st EXCEPT !.stop = FALSE,
                    !.next = IF r.id = 0 THEN r.seq ELSE r.seq + 1,
                    !.mem = [c \in CFs |-> @[c] \cup
                        {id \in {r.id} \ {0} : c \in hist[id].cfs /\
                                               n >= manifest.log[c]}]]

\* One WAL: an incomplete record at its end stops the replay.
ReplayWal(st, n) ==
    LET rec(s, r) == ReplayRecord(n, s, r)
        end == FoldLeft(rec, [st EXCEPT !.skip = FALSE], wal[n].recs)
    IN  IF wal[n].torn /\ ~end.skip
        THEN [end EXCEPT !.stop = TRUE, !.bad = n] ELSE end

MinWal == Max({manifest.min_log, Min({manifest.log[c] : c \in CFs})})
Replayed == FoldLeft(ReplayWal, Start,
                     SetToSortSeq({n \in DOMAIN wal : n >= MinWal}, <))

\* "SST file is ahead of WALs": Open() refuses the database.
Inconsistent(st) ==
    st.stop /\ \E c \in CFs : manifest.log[c] > st.bad /\ manifest.files[c] # {}

FlushedSeqs == {hist[id].seq : id \in UNION {manifest.files[c] : c \in CFs}}

\* DBImpl::Recover and the new WAL of DBImpl::Open, up to the MANIFEST write.
\* full: some memtable filled up during the replay and was flushed.
Recover(full) ==
    LET st      == Replayed
        max_wal == Max(DOMAIN wal)
        seen    == \E c \in CFs : st.mem[c] # {}
        flushed == seen /\ (full \/ ~AvoidFlush)
        done(c) == manifest.log[c] <= max_wal /\ (flushed \/ st.mem[c] = {})
        new     == max_wal + 2
        dummy   == IF st.bad # 0 /\ st.next # 0
                   THEN <<[id |-> 0, seq |-> st.next]>> ELSE <<>>
        log     == [c \in CFs |-> IF done(c) THEN max_wal + 1 ELSE manifest.log[c]]
        kept    == IF seen /\ ~flushed
                   THEN {n \in DOMAIN wal : n >= Min({manifest.log[c] : c \in CFs})}
                   ELSE {}
    IN  /\ db = "closed"
        /\ IF Inconsistent(st)
           THEN /\ db' = "corrupt"
                /\ UNCHANGED <<wal, last_sequence, logVars, mem, setVars>>
           ELSE /\ db' = "opening"
                /\ wal' = [n \in DOMAIN wal \cup {new} |->
                       IF n # new THEN wal[n]
                       ELSE [recs |-> dummy, synced |-> Len(dummy),
                             torn |-> FALSE]]
                /\ last_sequence' =
                       Max(FlushedSeqs \cup {IF st.next = 0 THEN 0 ELSE st.next - 1})
                /\ logfile_number' = new /\ logs' = {new}
                /\ alive' = kept \cup {new} /\ getting_flushed' = 0
                /\ log_empty' = (kept = {} /\ dummy = <<>>)
                /\ log_number' = log
                /\ min_log' = IF flushed THEN max_wal + 1 ELSE manifest.min_log
                /\ current' = [c \in CFs |-> manifest.files[c] \cup
                                  (IF flushed THEN st.mem[c] ELSE {})]
                /\ mem' = [c \in CFs |-> IF flushed THEN {} ELSE st.mem[c]]
        /\ UNCHANGED <<manifest, errVars, imm, memtable_id, committing, job,
                       manVars, histVars, bounds>>

\* LogAndApplyForRecovery switches CURRENT to a new MANIFEST; DeleteObsoleteFiles.
Open ==
    /\ db = "opening"
    /\ db' = "open"
    /\ manifest' = VersionSet
    /\ wal' = Restrict(wal, {n \in DOMAIN wal : n >= min_log})
    /\ alive' = {n \in alive : n >= min_log}
    /\ since' = Len(hist)
    /\ UNCHANGED <<last_sequence, logfile_number, log_empty, logs,
                   getting_flushed, errVars, memVars, setVars, committing, job,
                   manVars, hist, acked, bounds>>

\* Nothing is left to do, or Open() has returned an error.
Quiet ==
    /\ \/ /\ db = "open" /\ Len(hist) = MaxWrites
          /\ \A c \in CFs : IsEmpty(c)
          /\ \A j \in Jobs : job[j].pc = "idle"
       \/ db = "corrupt"
    /\ UNCHANGED vars

Background ==
    \/ \E j \in Jobs : \/ \E c \in CFs : BackgroundFlush(j, c)
                       \/ SyncClosedLogs(j) \/ SyncClosedLogsFails(j)
                       \/ StartFlushJob(j) \/ RollbackMemtableFlush(j)
                       \/ TryInstallMemtableFlushResults(j) \/ CommitAgain(j)
                       \/ FindObsoleteFiles(j) \/ PurgeObsoleteFiles(j)
    \/ \E roll \in BOOLEAN : ProcessManifestWrites(roll)
    \/ ManifestWritten \/ ManifestWriteFails \/ Resume
    \/ \E full \in BOOLEAN : Recover(full)
    \/ Open

Foreground ==
    \/ \E S \in Batches, sync \in BOOLEAN : Write(S, sync)
    \/ SyncWAL
    \/ \E c \in CFs : Seal(c)
    \/ SwitchWAL

Next == Foreground \/ Background \/ (\E host \in BOOLEAN : Crash(host)) \/ Quiet

Spec == Init /\ [][Next]_vars

\* Every background step the scheduler can run is run; writes, crashes and
\* manual flushes are up to the user and the machine.
Fairness == WF_vars(Background)
FairSpec == Spec /\ Fairness

-----------------------------------------------------------------------------
(* Properties. *)

Numbers == 0..(2 * MaxWrites + 2 * Max({f.crashes : f \in Faults}) + 4)
WriteIds == 1..MaxWrites
MemTable == [id : Numbers, data : SUBSET WriteIds, next_log : Numbers,
             in_progress : BOOLEAN, completed : BOOLEAN, file : Numbers]

\* Every variable has the type its C++ counterpart gives it, and the flags of a
\* memtable are consistent, as the asserts of PickMemtablesToFlush,
\* RollbackMemtableFlush and RemoveMemTablesOrRestoreFlags require: completed
\* only while in progress, a file number exactly when completed.
TypeOK ==
    /\ DOMAIN wal \subseteq Numbers
    /\ db \in {"open", "closed", "opening", "corrupt"}
    /\ last_sequence \in 0..MaxWrites
    /\ logfile_number \in Numbers /\ log_empty \in BOOLEAN
    /\ bg_error \in {"none", "soft", "hard"} /\ no_deletions \in BOOLEAN
    /\ mem \in [CFs -> SUBSET WriteIds] /\ current \in [CFs -> SUBSET WriteIds]
    /\ \A c \in CFs : \A i \in DOMAIN imm[c] :
           /\ imm[c][i] \in MemTable
           /\ imm[c][i].completed => imm[c][i].in_progress
           /\ imm[c][i].completed <=> imm[c][i].file # 0
    /\ log_number \in [CFs -> Numbers] /\ min_log \in Numbers
    /\ committing \in [CFs -> BOOLEAN]

\* A write that a successful sync covered is readable whenever the database is
\* open, in every column family it touched: no switch, flush, commit, WAL
\* deletion, failure or crash loses it.
SyncedWritesSurvive ==
    db = "open" => \A id \in acked : \A c \in hist[id].cfs : id \in Contents(c)

\* A column family never holds an update twice (SeekToColumnFamily: "We can't
\* apply updates twice because of update-in-place or merge workloads"): a WAL
\* that is replayed holds nothing that a table file has.
NoUpdateTwice ==
    \A c \in CFs :
        /\ db = "closed" => Replayed.mem[c] \cap manifest.files[c] = {}
        /\ mem[c] \cap current[c] = {}
        /\ \A i \in DOMAIN imm[c] :
               /\ imm[c][i].data \cap (mem[c] \cup current[c]) = {}
               /\ \A k \in 1..(i - 1) : imm[c][i].data \cap imm[c][k].data = {}

\* A batch is in all the column families it touched or in none, also after a
\* host crash: what FlushMemTableToOutputFile syncs the closed WALs for.
BatchesAtomic ==
    db = "open" => \A id \in DOMAIN hist : \A c, d \in hist[id].cfs :
                       id \in Contents(c) => id \in Contents(d)

\* No crash leaves a table file ahead of the WALs, with an update that was logged in
\* the corrupted WAL or later, and Open() refuses no database unless the MANIFEST was
\* rolled.  (A roll makes durable the log number that SwitchMemtable gives an empty
\* column family in memory, and RecoverLogFiles takes it for one that "contains data
\* beyond the point of corruption".)
OpenSucceeds ==
    db = "corrupt" => /\ rolls
                      /\ \A c \in CFs : \A id \in manifest.files[c] : hist[id].log < Replayed.bad

\* Flush results reach the MANIFEST in the order of the memtables: table files
\* never hold an update while an older one of the column family is in memory.
CommittedInOrder ==
    \A c \in CFs : \A a \in current[c] : \A b \in Contents(c) :
        b < a => b \in current[c]

\* LogAndApplyHelper asserts that an edit never lowers a log number; so does
\* replay order: what a queued edit says is still ahead of the column family.
EditsAdvanceLogNumber ==
    \A i \in DOMAIN writers : \A k \in DOMAIN writers[i].edits :
        LET e == writers[i].edits[k]
        IN  e.log # 0 => e.log >= log_number[e.cf] /\ e.log <= logfile_number

\* Every sealed memtable is flushed in the end, though a job may leave its
\* result to be committed by another one and errors roll flushes back.
SealedGetsFlushed ==
    \A c \in CFs : imm[c] # <<>> ~> imm[c] = <<>>
=============================================================================
