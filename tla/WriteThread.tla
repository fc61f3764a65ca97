----------------------------- MODULE WriteThread -----------------------------
(***************************************************************************)
(* Group commit: the writer queue of db/write_thread.cc and the way        *)
(* DBImpl::WriteImpl (db/db_impl/db_impl_write.cc) drives it, without      *)
(* pipelined writes and with a single write queue.                         *)
(*                                                                         *)
(* Writers push themselves on a lock-free list (newest_writer_); the       *)
(* oldest is the leader, which forms a group, logs it, gives it sequence   *)
(* numbers, inserts it in the memtable (alone or with the followers in     *)
(* parallel), publishes the last sequence and passes leadership on.        *)
(* LockWAL() is the source of write stalls: it enters the queue unbatched, *)
(* takes a stop token, and the next leader raises the stall barrier        *)
(* (write_stall_dummy_).  A thread makes one call.  Its Writer object is   *)
(* on its stack: the object is gone when the call returns (pc "done").     *)
(*                                                                         *)
(* An update of the list by its leader touches only nodes no other thread  *)
(* changes meanwhile, so it is one step; pushes, hand-offs, completions    *)
(* and publication interleave.                                             *)
(***************************************************************************)
EXTENDS Naturals, Sequences, FiniteSets, SequencesExt

CONSTANTS
    Writers,            \* threads that call Write()
    Lockers,            \* threads that call LockWAL() and then UnlockWAL()
    Instances,          \* what they do: each writer's call, who locks, AllowConcurrent
    MaxGroupBytes,      \* max_write_batch_group_size_bytes
    MaxStalls,          \* bound: stalls begun while the stop token is held
    Dummy,              \* &write_stall_dummy_
    None                \* nullptr

Threads == Writers \cup Lockers
Nodes   == Threads \cup {Dummy}

\* The parts of WriteOptions, WriteBatch and WriteCallback that steer the code.
\* A key is one byte of batch; bad: the batch names a missing column family.
KindType == [sync : BOOLEAN, no_slowdown : BOOLEAN, disable_wal : BOOLEAN,
             disable_memtable : BOOLEAN, merge : BOOLEAN, bad : BOOLEAN,
             callback : {"none", "ok", "alone", "fail"}, keys : Nat \ {0}]

ASSUME InstancesTyped ==
    \A i \in Instances : /\ i.opt \in [Writers -> KindType] /\ i.lockers \subseteq Lockers
                         /\ i.allow_concurrent \in BOOLEAN
ASSUME NodesDistinct == /\ Writers \cap Lockers = {}
                        /\ Dummy \notin Threads /\ None \notin Nodes

VARIABLES
    opt,                \* what each writer's call asks for
    allow_concurrent,   \* allow_concurrent_memtable_write
    pc,                 \* where each thread is
    state,              \* Writer::state
    newest_writer,      \* newest_writer_
    link_older,         \* Writer::link_older
    link_newer,         \* Writer::link_newer
    write_group,        \* Writer::write_group, named by the group's leader
    status,             \* Writer::status
    group,              \* the WriteGroup on each leader's stack
    walk,               \* <<prev, w>> of a running BeginWriteStall
    sequence,           \* Writer::sequence, 0 until assigned
    last_sequence,      \* versions_->LastSequence(), what readers may see
    wal,                \* records of the log: first sequence and writers
    wal_synced,         \* how many of them are synced
    memtable,           \* inserted batches
    bg_error,           \* error_handler_.IsDBStopped()
    lock_wal_count,     \* lock_wal_count_; a stop token is held when > 0
    stall_begun_count,
    stall_ended_count,
    stall_seen          \* the count an UnlockWAL() waits for

callVars  == <<opt, allow_concurrent>>
queueVars == <<newest_writer, link_older, link_newer, walk>>
stallVars == <<lock_wal_count, stall_begun_count, stall_ended_count, stall_seen>>
dbVars    == <<sequence, last_sequence, wal, wal_synced, memtable, bg_error>>
vars      == <<callVars, pc, state, write_group, status, group,
               queueVars, stallVars, dbVars>>

Statuses == {"ok", "stall", "bg", "io", "mem"}

\* members: the writers from leader to last_writer; status: write_group.status;
\* result: WriteImpl's local status; next: members still to be completed.
NoGroup == [members |-> <<>>, status |-> "ok", result |-> "ok",
            running |-> 0, last_sequence |-> 0, next |-> 0]

Init ==
    /\ \E i \in Instances :
          /\ opt = i.opt /\ allow_concurrent = i.allow_concurrent
          /\ pc = [t \in Threads |-> IF t \in Writers \cup i.lockers THEN "start" ELSE "done"]
    /\ state = [n \in Nodes |-> "INIT"]
    /\ newest_writer = None
    /\ link_older = [n \in Nodes |-> None]
    /\ link_newer = [n \in Nodes |-> None]
    /\ write_group = [n \in Nodes |-> None]
    /\ status = [n \in Nodes |-> "ok"]
    /\ group = [w \in Writers |-> NoGroup]
    /\ walk = <<None, None>>
    /\ sequence = [w \in Writers |-> 0]
    /\ last_sequence = 0
    /\ wal = <<>> /\ wal_synced = 0
    /\ memtable = {}
    /\ bg_error = FALSE
    /\ lock_wal_count = 0
    /\ stall_begun_count = 0 /\ stall_ended_count = 0
    /\ stall_seen = [t \in Lockers |-> 0]

-----------------------------------------------------------------------------
(* Helpers of Writer and WriteThread. *)

no_slowdown(n) == n \in Writers /\ opt[n].no_slowdown

CallbackFailed(w) == opt[w].callback = "fail"

ShouldWriteToMemtable(w) ==
    status[w] = "ok" /\ ~CallbackFailed(w) /\ ~opt[w].disable_memtable

\* Mutant: counted by what is logged, not by what is inserted.
SeqCountLogged(w) == IF CallbackFailed(w) THEN 0 ELSE opt[w].keys

\* Sequence numbers a batch of a group takes up (seq_per_batch_ is off).
SeqCount(w) == IF ShouldWriteToMemtable(w) THEN opt[w].keys ELSE 0

\* The sequence of the i-th of ws when the first gets seq.
SequenceOf(ws, seq, i) ==
    FoldSeq(LAMBDA w, acc : acc + SeqCount(w), seq, SubSeq(ws, 1, i - 1))

\* link_newer after the walk from head towards older writers that fills it in
\* up to the first link already there.
CreateMissingNewerLinks(head) ==
    LET older[k \in 0 .. Cardinality(Nodes)] ==
            IF k = 0 THEN head
            ELSE LET n == older[k - 1] IN IF n = None THEN None ELSE link_older[n]
        missing == {k \in 1 .. Cardinality(Nodes) :
                      \A j \in 1 .. k : older[j] # None /\ link_newer[older[j]] = None}
    IN  [n \in Nodes |-> IF \E k \in missing : older[k] = n
                         THEN older[(CHOOSE k \in missing : older[k] = n) - 1]
                         ELSE link_newer[n]]

\* Mutant: neither sync nor the size limit is looked at.
MayJoinUnsynced(leader, w, size) ==
    /\ w \in Writers
    /\ opt[w].no_slowdown = opt[leader].no_slowdown
    /\ opt[w].disable_wal = opt[leader].disable_wal
    /\ opt[w].callback # "alone"

\* May w join the group of leader, already of the given size in bytes?  (All have the
\* same protection_bytes_per_key and rate_limiter_priority.)
MayJoin(leader, w, size) ==
    LET maxSize == IF opt[leader].keys <= MaxGroupBytes \div 8
                   THEN opt[leader].keys + MaxGroupBytes \div 8
                   ELSE MaxGroupBytes
    IN  /\ w \in Writers                     \* batch # nullptr
        /\ ~(opt[w].sync /\ ~opt[leader].sync)
        /\ opt[w].no_slowdown = opt[leader].no_slowdown
        /\ opt[w].disable_wal = opt[leader].disable_wal
        /\ opt[w].callback # "alone"
        /\ size + opt[w].keys <= maxSize

\* The DB mutex is free: no leader is inside DelayWrite outside its wait.
MutexFree == \A w \in Writers : pc[w] \notin {"stalling", "delay"}

-----------------------------------------------------------------------------
(* Entering the queue. *)

\* LinkOne once the barrier is not the newest: its CAS, and STATE_GROUP_LEADER
\* for the thread that found the list empty.  A thread that meets the barrier
\* waits on stall_cv_, so it has no step until EndWriteStall.
LinkOne(t) ==
    /\ newest_writer # Dummy
    /\ link_older' = [link_older EXCEPT ![t] = newest_writer]
    /\ newest_writer' = t
    /\ state' = IF newest_writer = None
                THEN [state EXCEPT ![t] = "GROUP_LEADER"] ELSE state
    /\ UNCHANGED <<link_newer, walk>>

JoinBatchGroup(w) ==
    /\ pc[w] = "start"
    /\ \/ LinkOne(w) /\ UNCHANGED status
       \/ /\ newest_writer = Dummy /\ no_slowdown(w)
          /\ status' = [status EXCEPT ![w] = "stall"]
          /\ state' = [state EXCEPT ![w] = "COMPLETED"]
          /\ UNCHANGED queueVars
    /\ pc' = [pc EXCEPT ![w] = "await"]
    /\ UNCHANGED <<callVars, write_group, group, stallVars, dbVars>>

-----------------------------------------------------------------------------
(* The leader before it writes: PreprocessWrite, DelayWrite and the stall. *)

\* BeginWriteStall up to its walk: the barrier becomes the newest writer.
BeginWriteStall(l) ==
    /\ stall_begun_count' = stall_begun_count + 1
    /\ link_older' = [link_older EXCEPT ![Dummy] = newest_writer]
    /\ newest_writer' = Dummy
    /\ walk' = <<Dummy, newest_writer>>
    /\ pc' = [pc EXCEPT ![l] = "stalling"]
    /\ UNCHANGED <<link_newer, group, lock_wal_count, stall_ended_count,
                   stall_seen>>

\* A new leader, or one back from its wait in DelayWrite, looks at the
\* background error and the stop token.
PreprocessWrite(l) ==
    /\ \/ pc[l] = "await" /\ state[l] = "GROUP_LEADER" /\ MutexFree
       \/ pc[l] = "delay"
    /\ \/ /\ lock_wal_count > 0 /\ ~bg_error /\ ~no_slowdown(l)
          /\ BeginWriteStall(l)
       \/ /\ lock_wal_count = 0 \/ bg_error \/ no_slowdown(l)
          /\ group' = [group EXCEPT ![l].result =
                          IF bg_error THEN "bg"
                          ELSE IF lock_wal_count > 0 THEN "stall" ELSE "ok"]
          /\ pc' = [pc EXCEPT ![l] = "enter"]
          /\ UNCHANGED <<queueVars, stallVars>>
    /\ UNCHANGED <<callVars, state, write_group, status, dbVars>>

\* Mutant: the walk ends at the first writer with a link_newer.
WalkStopsEarly(w) == w \in Nodes => link_newer[w] # None

\* The walk of BeginWriteStall ends at the current group.
WalkStops(w) == w \in Nodes => write_group[w] # None

\* Mutant: link_newer is set though it was missing.
UnlinkSetsNewer(prev, w) ==
    /\ link_older' = [link_older EXCEPT ![prev] = link_older[w]]
    /\ link_newer' = [n \in Nodes |-> IF n = link_older[w] THEN prev
                                      ELSE link_newer[n]]

\* Take w, next older than prev, out of the list.  link_newer of the writer
\* behind it is set only if it was set already.
Unlink(prev, w) ==
    /\ link_older' = [link_older EXCEPT ![prev] = link_older[w]]
    /\ link_newer' = [n \in Nodes |->
                         IF n = link_older[w] /\ link_newer[n] # None THEN prev
                         ELSE link_newer[n]]

\* One iteration of BeginWriteStall's walk, which fails the waiting
\* no_slowdown writers.
StallWalk(l) ==
    LET prev == walk[1]
        w    == walk[2]
    IN  /\ pc[l] = "stalling"
        /\ \/ /\ ~WalkStops(w) /\ no_slowdown(w)
              /\ Unlink(prev, w)
              /\ status' = [status EXCEPT ![w] = "stall"]
              /\ state' = [state EXCEPT ![w] = "COMPLETED"]
              /\ walk' = <<prev, link_older[w]>>
              /\ UNCHANGED pc
           \/ /\ ~WalkStops(w) /\ ~no_slowdown(w)
              /\ walk' = <<w, link_older[w]>>
              /\ UNCHANGED <<pc, status, state, link_older, link_newer>>
           \/ /\ WalkStops(w)
              /\ walk' = <<None, None>>
              /\ pc' = [pc EXCEPT ![l] = "stalled"]
              /\ UNCHANGED <<status, state, link_older, link_newer>>
        /\ UNCHANGED <<newest_writer, callVars, write_group, group, stallVars, dbVars>>

\* Mutant: the writers behind the barrier are forgotten.
EndWriteStallEmpties(l) ==
    /\ pc[l] = "stalled" /\ MutexFree
    /\ lock_wal_count = 0 \/ stall_begun_count < MaxStalls
    /\ newest_writer' = None
    /\ stall_ended_count' = stall_ended_count + 1
    /\ pc' = [pc EXCEPT ![l] = "delay"]
    /\ UNCHANGED <<link_older, link_newer, walk, callVars, state, write_group, status,
                   group, lock_wal_count, stall_begun_count, stall_seen, dbVars>>

\* bg_cv_ wakes the stalled leader: EndWriteStall takes the barrier out.
EndWriteStall(l) ==
    LET older == link_older[Dummy]
    IN  /\ pc[l] = "stalled" /\ MutexFree
        /\ lock_wal_count = 0 \/ stall_begun_count < MaxStalls
        /\ link_newer' = [n \in Nodes |-> IF n = older THEN link_newer[Dummy]
                                          ELSE link_newer[n]]
        /\ newest_writer' = older
        /\ stall_ended_count' = stall_ended_count + 1
        /\ pc' = [pc EXCEPT ![l] = "delay"]
        /\ UNCHANGED <<link_older, walk, callVars, state, write_group, status, group,
                       lock_wal_count, stall_begun_count, stall_seen, dbVars>>

-----------------------------------------------------------------------------
(* The leader's write: the group, the log, the memtable. *)

Bytes(ws) == FoldSeq(LAMBDA w, acc : acc + opt[w].keys, 0, ws)

\* The group takes the next newer writer while MayJoin allows, up to the
\* newest one when it was formed.
EnterAsBatchGroupLeader(l) ==
    LET links == CreateMissingNewerLinks(newest_writer)
        newer[k \in 1 .. Cardinality(Writers)] == IF k = 1 THEN l ELSE links[newer[k - 1]]
        first(k) == [i \in 1 .. k |-> newer[i]]
        joins(k) == newer[k - 1] # newest_writer /\ MayJoin(l, newer[k], Bytes(first(k - 1)))
        members == first(Max({k \in DOMAIN newer : \A j \in 2 .. k : joins(j)}))
    IN  /\ pc[l] = "enter"
        /\ link_newer' = links
        /\ write_group' = [n \in Nodes |-> IF n \in ToSet(members) THEN l
                                           ELSE write_group[n]]
        /\ group' = [group EXCEPT ![l].members = members]
        /\ pc' = [pc EXCEPT ![l] = IF group[l].result = "ok" THEN "log"
                                   ELSE "publish"]
        /\ UNCHANGED <<callVars, state, newest_writer, link_older, walk, status,
                       stallVars, dbVars>>

\* WriteToWAL, which syncs when the leader asked for it, and the assignment of
\* sequence numbers.  After an I/O error the record may be in the log or not.
WriteToWAL(l) ==
    LET ms  == group[l].members
        rec == [seq |-> last_sequence + 1,
                ws |-> SelectSeq(ms, LAMBDA w : ~CallbackFailed(w))]
    IN  /\ pc[l] = "log"
        /\ \/ /\ wal' = IF opt[l].disable_wal THEN wal ELSE Append(wal, rec)
              /\ wal_synced' = IF opt[l].sync THEN Len(wal') ELSE wal_synced
              /\ sequence' = [w \in Writers |->
                    IF w \in ToSet(rec.ws)
                    THEN SequenceOf(ms, rec.seq, CHOOSE i \in DOMAIN ms : ms[i] = w)
                    ELSE sequence[w]]
              /\ group' = [group EXCEPT ![l].last_sequence =
                              SequenceOf(ms, last_sequence, Len(ms) + 1)]
              /\ pc' = [pc EXCEPT ![l] = "insert"]
              /\ UNCHANGED bg_error
           \/ /\ ~opt[l].disable_wal
              /\ wal' \in {wal, Append(wal, rec)}
              /\ bg_error' = TRUE
              /\ group' = [group EXCEPT ![l].result = "io"]
              /\ pc' = [pc EXCEPT ![l] = "publish"]
              /\ UNCHANGED <<wal_synced, sequence>>
        /\ UNCHANGED <<callVars, state, write_group, status, last_sequence, memtable,
                       queueVars, stallVars>>

\* The memtable may be written by the whole group at once.
Parallel(l) ==
    LET ms == group[l].members
    IN  /\ allow_concurrent /\ Len(ms) > 1
        /\ \A w \in ToSet(ms) : ShouldWriteToMemtable(w) => ~opt[w].merge

Entry(w) == [writer |-> w, seq |-> sequence[w]]

\* The leader inserts the batches in order, up to the first that fails.
InsertInto(l) ==
    LET ms   == group[l].members
        bad  == {i \in DOMAIN ms : ShouldWriteToMemtable(ms[i]) /\ opt[ms[i]].bad}
        good == {i \in DOMAIN ms : /\ ShouldWriteToMemtable(ms[i])
                                   /\ \A j \in bad : i < j}
    IN  /\ pc[l] = "insert" /\ ~Parallel(l)
        /\ memtable' = memtable \cup {Entry(ms[i]) : i \in good}
        /\ status' = IF bad = {} THEN status
                     ELSE [status EXCEPT ![ms[Min(bad)]] = "mem", ![l] = "mem"]
        /\ pc' = [pc EXCEPT ![l] = "publish"]
        /\ UNCHANGED <<callVars, state, write_group, group, sequence, last_sequence,
                       wal, wal_synced, bg_error, queueVars, stallVars>>

LaunchParallelMemTableWriters(l) ==
    LET ms == group[l].members
    IN  /\ pc[l] = "insert" /\ Parallel(l)
        /\ group' = [group EXCEPT ![l].running = Len(ms)]
        /\ state' = [n \in Nodes |-> IF n \in ToSet(ms) THEN "PARALLEL"
                                     ELSE state[n]]
        /\ pc' = [pc EXCEPT ![l] = "await"]
        /\ UNCHANGED <<callVars, write_group, status, queueVars, stallVars, dbVars>>

\* A parallel memtable writer, leader or follower, inserts its own batch.
InsertOwn(w) ==
    /\ pc[w] = "await" /\ state[w] = "PARALLEL"
    /\ memtable' = IF ShouldWriteToMemtable(w) /\ ~opt[w].bad
                   THEN memtable \cup {Entry(w)} ELSE memtable
    /\ status' = IF ShouldWriteToMemtable(w) /\ opt[w].bad
                 THEN [status EXCEPT ![w] = "mem"] ELSE status
    /\ pc' = [pc EXCEPT ![w] = "inserted"]
    /\ UNCHANGED <<callVars, state, write_group, group, sequence, last_sequence,
                   wal, wal_synced, bg_error, queueVars, stallVars>>

\* Mutant: the first to finish exits for the group.
CompleteParallelFirst(w) ==
    LET l == write_group[w]
        s == IF status[w] # "ok" THEN status[w] ELSE group[l].status
    IN  /\ pc[w] = "inserted"
        /\ group' = [group EXCEPT ![l].status = s, ![l].running = @ - 1]
        /\ IF group[l].running < Len(group[l].members)
           THEN pc' = [pc EXCEPT ![w] = "completing"] /\ UNCHANGED status
           ELSE /\ pc' = [pc EXCEPT ![w] = "publish"]
                /\ status' = [status EXCEPT ![w] = s]
        /\ UNCHANGED <<callVars, state, write_group, queueVars, stallVars, dbVars>>

\* The last of them to finish exits for the group; the others wait.
CompleteParallelMemTableWriter(w) ==
    LET l == write_group[w]
        s == IF status[w] # "ok" THEN status[w] ELSE group[l].status
    IN  /\ pc[w] = "inserted"
        /\ group' = [group EXCEPT ![l].status = s, ![l].running = @ - 1]
        /\ IF group[l].running > 1
           THEN pc' = [pc EXCEPT ![w] = "completing"] /\ UNCHANGED status
           ELSE /\ pc' = [pc EXCEPT ![w] = "publish"]
                /\ status' = [status EXCEPT ![w] = s]
        /\ UNCHANGED <<callVars, state, write_group, queueVars, stallVars, dbVars>>

-----------------------------------------------------------------------------
(* Leaving: publish the sequence, pass the leadership on, complete the group. *)

\* Mutant: only the leader publishes.
SetLastSequenceByLeader(t) ==
    LET l == write_group[t]
    IN  /\ pc[t] = "publish"
        /\ last_sequence' = IF t = l /\ group[l].result = "ok"
                            THEN group[l].last_sequence ELSE last_sequence
        /\ bg_error' = (bg_error \/ status[t] # "ok")
        /\ pc' = [pc EXCEPT ![t] = "exit"]
        /\ UNCHANGED <<callVars, state, write_group, status, group, sequence, wal,
                       wal_synced, memtable, queueVars, stallVars>>

\* SetLastSequence, which a follower does whatever the leader's status, and
\* MemTableInsertStatusCheck.
SetLastSequence(t) ==
    LET l == write_group[t]
    IN  /\ pc[t] = "publish"
        /\ last_sequence' = IF t # l \/ group[l].result = "ok"
                            THEN group[l].last_sequence ELSE last_sequence
        /\ bg_error' = (bg_error \/ status[t] # "ok")
        /\ pc' = [pc EXCEPT ![t] = "exit"]
        /\ UNCHANGED <<callVars, state, write_group, status, group, sequence, wal,
                       wal_synced, memtable, queueVars, stallVars>>

\* Mutant: the list is emptied whoever is behind last.
PassLeadershipClears(last) ==
    /\ newest_writer' = None
    /\ UNCHANGED <<link_newer, link_older, state>>

\* Mutant: the next leader keeps its link to the group.
PassLeadershipKeepsLink(last) ==
    \/ /\ newest_writer = last
       /\ newest_writer' = None
       /\ UNCHANGED <<link_newer, link_older, state>>
    \/ /\ newest_writer # last
       /\ link_newer' = CreateMissingNewerLinks(newest_writer)
       /\ state' = [state EXCEPT ![link_newer'[last]] = "GROUP_LEADER"]
       /\ UNCHANGED <<link_older, newest_writer>>

\* Empty the list, or make the writer behind last the next leader.
PassLeadership(last) ==
    \/ /\ newest_writer = last
       /\ newest_writer' = None
       /\ UNCHANGED <<link_newer, link_older, state>>
    \/ /\ newest_writer # last
       /\ LET links == CreateMissingNewerLinks(newest_writer)
              next  == links[last]
          IN  /\ link_newer' = links
              /\ link_older' = [link_older EXCEPT ![next] = None]
              /\ state' = [state EXCEPT ![next] = "GROUP_LEADER"]
              /\ UNCHANGED newest_writer

\* ExitAsBatchGroupLeader up to the hand-off, by the leader or, through
\* ExitAsBatchGroupFollower, by the last parallel follower.
ExitAsBatchGroupLeader(t) ==
    LET l == write_group[t]
        g == group[l]
    IN  /\ pc[t] = "exit"
        /\ PassLeadership(Last(g.members))
        /\ group' = [group EXCEPT
                        ![l].result = IF t = l /\ @ = "ok" THEN g.status ELSE @,
                        ![l].next = Len(g.members)]
        /\ pc' = [pc EXCEPT ![t] = "complete"]
        /\ UNCHANGED <<callVars, write_group, status, walk, stallVars, dbVars>>

\* Its loop: the followers get the status and STATE_COMPLETED one by one, from
\* the newest; a follower that exits for the group completes the leader last.
CompleteGroup(t) ==
    LET l == write_group[t]
        g == group[l]
        w == g.members[g.next]
    IN  /\ pc[t] = "complete"
        /\ IF g.next > 1
           THEN /\ status' = [status EXCEPT ![w] = IF t = l THEN g.result
                                                   ELSE g.status]
                /\ state' = [state EXCEPT ![w] = "COMPLETED"]
                /\ group' = [group EXCEPT ![l].next = @ - 1]
                /\ UNCHANGED pc
           ELSE /\ state' = IF t = l THEN state
                            ELSE [state EXCEPT ![l] = "COMPLETED"]
                /\ pc' = [pc EXCEPT ![t] = "done"]
                /\ UNCHANGED <<status, group>>
        /\ UNCHANGED <<callVars, write_group, queueVars, stallVars, dbVars>>

\* The call of a writer somebody else completed returns.
ReturnCompleted(w) ==
    /\ pc[w] \in {"await", "completing"} /\ state[w] = "COMPLETED"
    /\ pc' = [pc EXCEPT ![w] = "done"]
    /\ UNCHANGED <<callVars, state, write_group, status, group, queueVars, stallVars,
                   dbVars>>

-----------------------------------------------------------------------------
(* LockWAL and UnlockWAL. *)

\* A second LockWAL only counts; the first has to enter the queue.
LockWAL(t) ==
    /\ pc[t] = "start" /\ MutexFree
    /\ lock_wal_count' = lock_wal_count + (IF lock_wal_count > 0 THEN 1 ELSE 0)
    /\ pc' = [pc EXCEPT ![t] = IF lock_wal_count > 0 THEN "locked" ELSE "enter"]
    /\ UNCHANGED <<callVars, state, write_group, status, group, stall_begun_count,
                   stall_ended_count, stall_seen, queueVars, dbVars>>

EnterUnbatched(t) ==
    /\ pc[t] = "enter"
    /\ LinkOne(t)
    /\ pc' = [pc EXCEPT ![t] = "await"]
    /\ UNCHANGED <<callVars, write_group, status, group, stallVars, dbVars>>

\* Alone at the head: take (or share) the stop token and ExitUnbatched.
ExitUnbatched(t) ==
    /\ pc[t] = "await" /\ state[t] = "GROUP_LEADER" /\ MutexFree
    /\ lock_wal_count' = lock_wal_count + 1
    /\ PassLeadership(t)
    /\ pc' = [pc EXCEPT ![t] = "locked"]
    /\ UNCHANGED <<callVars, write_group, status, group, walk, stall_begun_count,
                   stall_ended_count, stall_seen, dbVars>>

\* Mutant: UnlockWAL does not wait.
StallToWaitForNone == 0

\* The stall UnlockWAL must wait for, if this was the last lock.
StallToWaitFor ==
    IF lock_wal_count = 1 /\ stall_begun_count > stall_ended_count
    THEN stall_begun_count ELSE 0

UnlockWAL(t) ==
    /\ pc[t] = "locked" /\ MutexFree
    /\ lock_wal_count' = lock_wal_count - 1
    /\ stall_seen' = [stall_seen EXCEPT ![t] = StallToWaitFor]
    /\ pc' = [pc EXCEPT ![t] = "unlocking"]
    /\ UNCHANGED <<callVars, state, write_group, status, group, stall_begun_count,
                   stall_ended_count, queueVars, dbVars>>

WaitForStallEndedCount(t) ==
    /\ pc[t] = "unlocking" /\ stall_ended_count >= stall_seen[t]
    /\ pc' = [pc EXCEPT ![t] = "done"]
    /\ UNCHANGED <<callVars, state, write_group, status, group, queueVars, stallVars,
                   dbVars>>

-----------------------------------------------------------------------------
WriterStep(w) ==
    \/ JoinBatchGroup(w) \/ ReturnCompleted(w) \/ CompleteGroup(w)
    \/ InsertOwn(w) \/ CompleteParallelMemTableWriter(w) \/ SetLastSequence(w)
    \/ StallWalk(w) \/ EndWriteStall(w) \/ PreprocessWrite(w)
    \/ LaunchParallelMemTableWriters(w) \/ InsertInto(w) \/ WriteToWAL(w)
    \/ ExitAsBatchGroupLeader(w) \/ EnterAsBatchGroupLeader(w)

LockerStep(t) ==
    \/ LockWAL(t) \/ EnterUnbatched(t) \/ ExitUnbatched(t)
    \/ UnlockWAL(t) \/ WaitForStallEndedCount(t)

Finished == \A t \in Threads : pc[t] = "done"

Next == \/ \E t \in Lockers : LockerStep(t)
        \/ \E w \in Writers : WriterStep(w)
        \/ Finished /\ UNCHANGED vars

Spec == Init /\ [][Next]_vars

\* While some thread can run, one does: no call loops for ever, so it is enough
\* that the machine does not stop.  A caller of LockWAL calls UnlockWAL.
Fairness == WF_vars(Next)

FairSpec == Spec /\ Fairness

-----------------------------------------------------------------------------
(* Properties. *)

\* Every variable has its type.
TypeOK ==
    /\ opt \in [Writers -> KindType] /\ allow_concurrent \in BOOLEAN
    /\ pc \in [Threads -> {"start", "await", "stalling", "stalled", "delay",
                           "enter", "log", "insert", "inserted", "completing",
                           "publish", "exit", "complete", "done",
                           "locked", "unlocking"}]
    /\ state \in [Nodes -> {"INIT", "GROUP_LEADER", "PARALLEL", "COMPLETED"}]
    /\ newest_writer \in Nodes \cup {None}
    /\ link_older \in [Nodes -> Nodes \cup {None}]
    /\ link_newer \in [Nodes -> Nodes \cup {None}]
    /\ write_group \in [Nodes -> Writers \cup {None}]
    /\ status \in [Nodes -> Statuses]
    /\ \A w \in Writers :
          /\ group[w].members \in Seq(Writers)
          /\ group[w].status \in Statuses /\ group[w].result \in Statuses
          /\ group[w].running \in 0 .. Cardinality(Writers)
          /\ group[w].last_sequence \in Nat
          /\ group[w].next \in 0 .. Len(group[w].members)
    /\ walk \in (Nodes \cup {None}) \X (Nodes \cup {None})
    /\ sequence \in [Writers -> Nat] /\ last_sequence \in Nat
    /\ wal_synced \in 0 .. Len(wal)
    /\ \A e \in memtable : e.writer \in Writers /\ e.seq \in Nat
    /\ bg_error \in BOOLEAN
    /\ lock_wal_count \in 0 .. Cardinality(Lockers)
    /\ stall_ended_count \in 0 .. stall_begun_count
    /\ stall_seen \in [Lockers -> 0 .. stall_begun_count]

\* The list from the newest writer to the oldest.
Queue ==
    LET from[k \in 0 .. Cardinality(Nodes)] ==
            IF k = 0 THEN IF newest_writer = None THEN <<>> ELSE <<newest_writer>>
            ELSE LET q == from[k - 1]
                 IN  IF Len(q) < k \/ link_older[Last(q)] = None THEN q
                     ELSE Append(q, link_older[Last(q)])
    IN  from[Cardinality(Nodes)]

\* The Writer object of n is gone: its owner has left the scope it lives in.
Freed(n) == n \in Threads /\ pc[n] \in {"locked", "unlocking", "done"}

\* Threads that hold the front of the queue: told they lead, not yet handed on.
Leading ==
    {t \in Threads : /\ ~Freed(t)
                     /\ \/ state[t] = "GROUP_LEADER"
                        \/ state[t] = "PARALLEL" /\ write_group[t] = t
                     /\ t \in Writers => group[t].next = 0}

\* Leadership: the oldest node of a non-empty queue, and no other thread, holds
\* the front, whoever pushes, hands over, stalls or resumes meanwhile.  It is
\* what lets WriteImpl write the log and the memtable without the DB mutex.
OldestIsTheLeader ==
    Leading = IF Queue = <<>> THEN {} ELSE {Last(Queue)}

\* No dangling Writer: nothing reachable from newest_writer_, and nothing the
\* thread that completes a group has still to visit, is a Writer whose owner
\* has returned; the group lives on the leader's stack, so nor is the leader.
NoDanglingWriter ==
    /\ \A i \in DOMAIN Queue : ~Freed(Queue[i])
    /\ walk[1] # None => ~Freed(walk[1])
    /\ walk[2] # None => ~Freed(walk[2])
    /\ \A t \in Writers : pc[t] \in {"inserted", "publish", "exit", "complete"} =>
          LET l == write_group[t]
          IN  /\ ~Freed(l)
              /\ pc[t] = "complete" =>
                    \A i \in 1 .. group[l].next : ~Freed(group[l].members[i])

\* The lazy links: link_newer of a queued writer is null or right, and once it
\* is set it is set for every older writer, which is what
\* CreateMissingNewerLinks relies on to stop early.
NewerLinksLazyButRight ==
    \A i \in 1 .. Len(Queue) - 1 :
        LET newer == Queue[i]
            older == Queue[i + 1]
        IN  /\ link_newer[older] \in {None, newer}
            /\ link_newer[newer] # None => link_newer[older] # None

\* While the barrier is up and BeginWriteStall is done, no no_slowdown writer
\* is left waiting in the queue: it was failed instead of delayed.
NoSlowdownNeverQueuedInStall ==
    newest_writer = Dummy /\ (\A w \in Writers : pc[w] # "stalling") =>
        \A i \in DOMAIN Queue : ~no_slowdown(Queue[i])

\* UnlockWAL returns only after the stall its lock caused is over: while the
\* barrier is up somebody holds the lock or is still inside UnlockWAL, so that
\* a no_slowdown write made after the last UnlockWAL() does not fail for it.
UnlockWALWaitsForStall ==
    newest_writer = Dummy =>
        \/ lock_wal_count > 0
        \/ \E t \in Lockers : pc[t] = "unlocking" /\ stall_ended_count < stall_seen[t]

MemtableWanted(w) == ~CallbackFailed(w) /\ ~opt[w].disable_memtable

\* Some batch of w's group cannot be inserted.
GroupHasBad(w) ==
    write_group[w] # None /\
    \E v \in ToSet(group[write_group[w]].members) : MemtableWanted(v) /\ opt[v].bad

\* A published sequence is readable: once LastSequence covers a batch, all of
\* the batch is in the memtable (unless an insert of its group failed, which
\* stops the DB).
PublishedIsInserted ==
    \A w \in Writers :
        sequence[w] > 0 /\ MemtableWanted(w) /\ ~GroupHasBad(w) =>
            (sequence[w] + opt[w].keys - 1 <= last_sequence => Entry(w) \in memtable)

\* No two batches share a sequence number, across groups and hand-offs.
SequencesDisjoint ==
    \A e, f \in memtable :
        e # f => \/ e.seq + opt[e.writer].keys <= f.seq
                 \/ f.seq + opt[f.writer].keys <= e.seq

\* Replaying the log gives every batch the sequence it got in the memtable:
\* a record starts at its sequence, and each batch meant for the memtable
\* takes as many as it has keys.
ReplaySequence(rec, i) ==
    FoldSeq(LAMBDA w, acc : acc + (IF opt[w].disable_memtable THEN 0
                                   ELSE opt[w].keys),
            rec.seq, SubSeq(rec.ws, 1, i - 1))

ReplayAgreesWithMemtable ==
    \A k \in DOMAIN wal : \A i \in DOMAIN wal[k].ws :
        \A e \in memtable :
            e.writer = wal[k].ws[i] => e.seq = ReplaySequence(wal[k], i)

\* What WriteImpl returned to w.
Result(w) ==
    IF write_group[w] = w /\ group[w].result # "ok" THEN group[w].result
    ELSE IF status[w] # "ok" THEN status[w]
    ELSE IF CallbackFailed(w) THEN "callback" ELSE "ok"

\* A write acknowledged with OK is in the log, and in its synced part if the
\* writer asked for sync, whoever led its group.
AcknowledgedIsLogged ==
    \A w \in Writers :
        pc[w] = "done" /\ Result(w) = "ok" /\ ~opt[w].disable_wal =>
            \E k \in DOMAIN wal : /\ w \in ToSet(wal[k].ws)
                                  /\ opt[w].sync => k <= wal_synced

\* Every call returns: no writer is left in the queue without a leader, no
\* follower without its completion, no caller of UnlockWAL behind a stall.
EveryCallReturns == <>(\A t \in Threads : pc[t] = "done")

\* "Propagate memtable write error to the whole group" (write_thread.cc:677):
\* nobody in a group whose memtable insert failed is told OK.
MemtableErrorReachesGroup ==
    \A w \in Writers :
        pc[w] = "done" /\ sequence[w] > 0 /\ GroupHasBad(w) => Result(w) # "ok"
=============================================================================
