-------------------------- MODULE WritePreparedTxnDB --------------------------
(***************************************************************************)
(* Which uncommitted data a snapshot may see: transactions write their     *)
(* data under a prepare sequence number before they commit, and a bounded  *)
(* cache of commits, its evictions and the snapshots they overlap with     *)
(* decide what a reader is shown.                                          *)
(* utilities/transactions/write_prepared_txn_db.{h,cc}, write_prepared_txn.cc *)
(*                                                                         *)
(* A value is the sequence number it was written under.  Loads and stores  *)
(* of atomics that another thread may come between are steps of their own. *)
(* A write queue serves one writer at a time; with two_write_queues data   *)
(* goes through the first and commits through the second.                  *)
(***************************************************************************)
EXTENDS Integers, FiniteSets, FiniteSetsExt, Sequences, SequencesExt

CONSTANTS
    Txns,           \* threads that run a transaction
    Readers,        \* threads that read
    Nobody,
    OptionSets,     \* the options to choose from
    COMMIT_CACHE_SIZE,
    SNAPSHOT_CACHE_SIZE,
    kMaxSequenceNumber

VARIABLES
    options,
    last_allocated,     \* VersionSet::last_allocated_sequence_
    last_sequence,      \* VersionSet::last_sequence_
    last_published,     \* VersionSet::last_published_sequence_
    queue,              \* who leads each write queue
    memtable,           \* the sequence numbers that can be read
    prepared_txns,      \* PreparedHeap::heap_
    erased,             \* PreparedHeap::erased_heap_
    push_pop_mutex,     \* PreparedHeap::push_pop_mutex_
    prepared_mutex,     \* prepared_mutex_: a writer, or readers
    delayed_prepared,
    delayed_prepared_commits,   \* a set of commit entries
    commit_cache,
    max_evicted_seq,
    future_max_evicted_seq,
    live,               \* DBImpl::snapshots_: the number of each reader's snapshot, -1 if none
    snapshots_all,      \* snapshots_all_, of which snapshot_cache_ is the head
    snapshots_version,
    old_commit_map,     \* a function from snapshots to prepare sequence numbers
    pc,
    call,               \* locals of a thread that writes
    read,               \* locals of a reader
    committed           \* auxiliary: the commit of each committed sequence number

seqVars  == <<last_allocated, last_sequence, last_published, queue, memtable, committed>>
heapVars == <<prepared_txns, erased, push_pop_mutex>>
prepVars == <<prepared_mutex, delayed_prepared, delayed_prepared_commits>>
maxVars  == <<commit_cache, max_evicted_seq, future_max_evicted_seq>>
snapVars == <<snapshots_all, snapshots_version, old_commit_map>>
vars == <<options, seqVars, heapVars, prepVars, maxVars, live, snapVars, pc, call, read>>

Threads == Txns \cup Readers

INC_STEP_FOR_MAX_EVICTED == Max({COMMIT_CACHE_SIZE \div 100, 1})

NoEntry == [prep_up |-> 0, delta |-> 0]

\* preps:    the sequence numbers the transaction's data is written under
\* todo:     those still to be added to the heap, or to the commit cache
\* undo:     the sequence number of a rollback's batch, if any
\* commit:   last_commit_seq
\* evicted:  the entry that has to make room
\* max:      new_max
\* list:     the snapshots new_max has to take care of
NoCall == [preps |-> <<>>, todo |-> <<>>, undo |-> <<>>, commit |-> 0,
           evicted |-> [prep_seq |-> 0, commit_seq |-> 0], max |-> 0, list |-> <<>>]

\* next:     next_prepare, read by SmallestUnCommittedSeq
\* min:      min_uncommitted
\* snap:     the snapshot's sequence number
\* prep_seq: the value IsInSnapshot is asked about
\* lb, ub, was_empty: its locals
\* result:   its answer, or TryAgain
NoRead == [next |-> 0, min |-> 0, snap |-> 0, prep_seq |-> 0, lb |-> 0, ub |-> 0,
           was_empty |-> TRUE, result |-> "none"]

\* A reader that has had a snapshot from the start and only has to release it.
Holds(r) == r \in DOMAIN options.reads /\ options.reads[r] = "hold"

\* A new database, or one that Initialize has just opened after a recovery with
\* options.last as the last sequence number: the commit cache is empty, everything
\* up to max_evicted_seq_ counts as committed but for what is still prepared.
Init ==
    /\ options \in OptionSets
    /\ LET start == IF options.last = 0 THEN 0 ELSE options.last + 1
           prepared == UNION {ToSet(options.recovered[t]) : t \in DOMAIN options.recovered}
       IN  /\ last_allocated = start /\ last_sequence = start /\ last_published = start
           /\ memtable = 1 .. options.last
           /\ delayed_prepared = prepared
           /\ committed = [s \in 1 .. kMaxSequenceNumber |->
                             IF s \in (1 .. options.last) \ prepared THEN s ELSE 0]
    /\ max_evicted_seq = options.last /\ future_max_evicted_seq = options.last
    /\ snapshots_version = options.last
    /\ queue = [q \in {"main", "second"} |-> Nobody]
    /\ prepared_txns = <<>> /\ erased = {} /\ push_pop_mutex = Nobody
    /\ prepared_mutex = [writer |-> Nobody, readers |-> {}]
    /\ delayed_prepared_commits = {}
    /\ commit_cache = [i \in 0 .. COMMIT_CACHE_SIZE - 1 |-> NoEntry]
    /\ live = [r \in Readers |-> IF Holds(r) THEN last_sequence ELSE -1]
    /\ snapshots_all = <<>> /\ old_commit_map = <<>>
    /\ pc = [t \in Threads |-> IF t \in DOMAIN options.recovered THEN "prepared"
                             ELSE IF Holds(t) THEN "answered"
                             ELSE IF t \in DOMAIN options.kind \cup DOMAIN options.reads
                                  THEN "new" ELSE "done"]
    /\ call = [t \in Threads |-> IF t \in DOMAIN options.recovered
                                 THEN [NoCall EXCEPT !.preps = options.recovered[t]]
                                 ELSE NoCall]
    /\ read = [r \in Readers |-> [NoRead EXCEPT !.snap = Max({live[r], 0})]]

Goto(t, l) == pc' = [pc EXCEPT ![t] = l]

\* What a thread's transaction does in the end.  A reader's is AdvanceSeqByOne's.
Kind(t) == IF t \in DOMAIN options.kind THEN options.kind[t] ELSE "commit"

\* The number of sub-batches: one more for each duplicate key.
BatchCnt(t) == IF t \in DOMAIN options.kind THEN options.batch_cnt[t] ELSE 1

GetLastPublishedSequence ==
    IF options.two_write_queues THEN last_published ELSE last_sequence

\* Commits take the second queue, if there is one.
CommitQueue == IF options.two_write_queues THEN "second" ELSE "main"

\* Written without a prepare phase, and with one queue in one go.
OneWrite(t) == Kind(t) = "write" /\ ~options.two_write_queues

-----------------------------------------------------------------------------
(* CommitEntry64b.  The slot implies the low bits of the prepare sequence  *)
(* number, and the commit is stored as a distance of at least one.         *)

Encode(ps, cs) == [prep_up |-> ps - (ps % COMMIT_CACHE_SIZE), delta |-> cs - ps + 1]

Parse(i, e) == [prep_seq |-> e.prep_up + i, commit_seq |-> e.prep_up + i + e.delta - 1]

\* GetCommitEntry, for the slot of s.
GetCommitEntry(s) ==
    LET i == s % COMMIT_CACHE_SIZE
    IN  IF commit_cache[i].delta = 0 THEN {} ELSE {Parse(i, commit_cache[i])}

-----------------------------------------------------------------------------
(* PreparedHeap.                                                           *)

\* heap_top_
Top == IF prepared_txns = <<>> THEN kMaxSequenceNumber ELSE Head(prepared_txns)

\* Mutant: pop without the loop over erased_heap_.
popFrontOnly == prepared_txns' = Tail(prepared_txns) /\ UNCHANGED erased

\* The front goes, and with it whatever has been erased from behind it.
pop ==
    LET rest == {i \in 2 .. Len(prepared_txns) : prepared_txns[i] \notin erased}
    IN  IF rest = {} THEN prepared_txns' = <<>> /\ erased' = {}
        ELSE /\ prepared_txns' = SubSeq(prepared_txns, Min(rest), Len(prepared_txns))
             /\ erased' = {s \in erased : s > prepared_txns[Min(rest)]}

erase(s) ==
    \/ /\ prepared_txns = <<>> \/ s < Top
       /\ UNCHANGED <<prepared_txns, erased>>
    \/ s = Top /\ push_pop_mutex = Nobody /\ pop
    \/ /\ prepared_txns # <<>> /\ s > Top
       /\ erased' = erased \cup {s}
       /\ UNCHANGED prepared_txns

PreparedMutexFree == prepared_mutex.writer = Nobody /\ prepared_mutex.readers = {}

-----------------------------------------------------------------------------
(* Writes to the first queue: AddPreparedCallback, memtable, SetLastSequence. *)

\* t leads queue q and has been given n sequence numbers.
Allocate(t, q, n) ==
    /\ queue[q] = Nobody
    /\ queue' = [queue EXCEPT ![q] = t]
    /\ last_allocated' = last_allocated + n

Fresh(n) == [i \in 1 .. n |-> last_allocated + i]

\* Prepare.
PrepareInternal(t) ==
    /\ pc[t] = IF t \in Readers THEN "advance" ELSE "new"
    /\ ~OneWrite(t)
    /\ Allocate(t, "main", BatchCnt(t))
    /\ call' = [call EXCEPT ![t] = [NoCall EXCEPT !.preps = Fresh(BatchCnt(t)),
                                                  !.todo = Fresh(BatchCnt(t))]]
    /\ Goto(t, "push")
    /\ UNCHANGED <<options, last_sequence, last_published, memtable, committed,
                   heapVars, prepVars, maxVars, live, snapVars, read>>

\* With two queues a rollback is first written like a prepared transaction.
RollbackInternal(t) ==
    /\ pc[t] = "prepared" /\ Kind(t) = "rollback"
    /\ options.two_write_queues /\ call[t].undo = <<>>
    /\ Allocate(t, "main", 1)
    /\ call' = [call EXCEPT ![t].undo = Fresh(1), ![t].todo = Fresh(1)]
    /\ Goto(t, "push")
    /\ UNCHANGED <<options, last_sequence, last_published, memtable, committed,
                   heapVars, prepVars, maxVars, live, snapVars, read>>

AddPrepared(t) ==
    /\ pc[t] = "push" /\ push_pop_mutex \in {Nobody, t}
    /\ prepared_txns' = Append(prepared_txns, Head(call[t].todo))
    /\ push_pop_mutex' = t
    /\ Goto(t, "check_future")
    /\ UNCHANGED <<options, seqVars, erased, prepVars, maxVars, live, snapVars, call, read>>

\* On to the next sub-batch, with the heap's mutex; or to the memtable.
PreparedAdded(t) ==
    /\ call' = [call EXCEPT ![t].todo = Tail(@)]
    /\ push_pop_mutex' = IF Len(call[t].todo) = 1 THEN Nobody ELSE t
    /\ Goto(t, IF Len(call[t].todo) = 1 THEN "insert" ELSE "push")

\* Mutant: push_pop_mutex_ is not released for CheckPreparedAgainstMax.
CheckFutureMaxLocked(t) ==
    /\ pc[t] = "check_future"
    /\ IF Head(call[t].todo) <= future_max_evicted_seq /\ Top <= future_max_evicted_seq
       THEN /\ call' = [call EXCEPT ![t].max = future_max_evicted_seq]
            /\ Goto(t, "lock_prepared")
            /\ UNCHANGED push_pop_mutex
       ELSE PreparedAdded(t)
    /\ UNCHANGED <<options, seqVars, prepared_txns, erased, prepVars, maxVars, live,
                   snapVars, read>>

\* AddPrepared looks whether max_evicted_seq_ is about to pass its number.
CheckFutureMax(t) ==
    /\ pc[t] = "check_future"
    /\ IF Head(call[t].todo) <= future_max_evicted_seq /\ Top <= future_max_evicted_seq
       THEN /\ call' = [call EXCEPT ![t].max = future_max_evicted_seq]
            /\ push_pop_mutex' = Nobody
            /\ Goto(t, "lock_prepared")
       ELSE PreparedAdded(t)
    /\ UNCHANGED <<options, seqVars, prepared_txns, erased, prepVars, maxVars, live,
                   snapVars, read>>

\* CheckPreparedAgainstMax: under prepared_mutex_, what is not above new_max goes
\* to delayed_prepared_, and only then leaves the heap.
LockPrepared(t) ==
    /\ pc[t] = "lock_prepared" /\ PreparedMutexFree
    /\ prepared_mutex' = [prepared_mutex EXCEPT !.writer = t]
    /\ Goto(t, "delay")
    /\ UNCHANGED <<options, seqVars, heapVars, delayed_prepared, delayed_prepared_commits,
                   maxVars, live, snapVars, call, read>>

CheckPreparedAgainstMax(t) ==
    /\ pc[t] = "delay"
    /\ IF Top <= call[t].max
       THEN /\ delayed_prepared' = delayed_prepared \cup {Top}
            /\ Goto(t, "pop")
            /\ UNCHANGED <<prepared_mutex, push_pop_mutex, call>>
       ELSE /\ prepared_mutex' = [prepared_mutex EXCEPT !.writer = Nobody]
            /\ IF call[t].commit = 0 THEN push_pop_mutex = Nobody /\ PreparedAdded(t)
               ELSE Goto(t, "list") /\ UNCHANGED <<push_pop_mutex, call>>
            /\ UNCHANGED delayed_prepared
    /\ UNCHANGED <<options, seqVars, prepared_txns, erased, delayed_prepared_commits,
                   maxVars, live, snapVars, read>>

PopPrepared(t) ==
    /\ pc[t] = "pop" /\ push_pop_mutex = Nobody
    /\ pop
    /\ Goto(t, "delay")
    /\ UNCHANGED <<options, seqVars, push_pop_mutex, prepVars, maxVars, live, snapVars,
                   call, read>>

\* The data can be read from here on.
InsertInto(t) ==
    /\ pc[t] = "insert"
    /\ memtable' = memtable \cup ToSet(IF call[t].undo = <<>> THEN call[t].preps ELSE call[t].undo)
    /\ Goto(t, IF call[t].commit = 0 THEN "release" ELSE "publish")
    /\ UNCHANGED <<options, last_allocated, last_sequence, last_published, queue, committed,
                   heapVars, prepVars, maxVars, live, snapVars, call, read>>

SetLastSequence(t) ==
    /\ pc[t] = "release"
    /\ last_sequence' = Last(call[t].preps \o call[t].undo)
    /\ queue' = [queue EXCEPT !["main"] = Nobody]
    /\ Goto(t, "prepared")
    /\ UNCHANGED <<options, last_allocated, last_published, memtable, committed, heapVars,
                   prepVars, maxVars, live, snapVars, call, read>>

-----------------------------------------------------------------------------
(* Commits: WritePreparedCommitEntryPreReleaseCallback.                    *)

\* All of S commits at c.
Commits(S, c) == committed' = [s \in DOMAIN committed |-> IF s \in S THEN c ELSE committed[s]]

\* Commit, or the second write of a rollback; a write without a second queue
\* brings its data with it, and commits that too.
CommitInternal(t) ==
    LET data  == IF OneWrite(t) THEN Fresh(BatchCnt(t))
                 ELSE IF Kind(t) = "rollback" /\ ~options.two_write_queues THEN Fresh(1)
                 ELSE <<>>
        c     == last_allocated + Max({1, Len(data)})
        preps == IF OneWrite(t) THEN data ELSE call[t].preps
        undo  == IF OneWrite(t) THEN <<>> ELSE call[t].undo \o data
        todo  == IF options.two_write_queues THEN undo \o preps ELSE preps \o undo
    IN  /\ pc[t] = IF OneWrite(t) THEN "new" ELSE "prepared"
        /\ Kind(t) = "rollback" /\ options.two_write_queues => call[t].undo # <<>>
        /\ Allocate(t, CommitQueue, Max({1, Len(data)}))
        /\ Commits(ToSet(todo), c)
        /\ call' = [call EXCEPT ![t] = [NoCall EXCEPT !.preps = preps, !.undo = undo,
                                                      !.todo = todo, !.commit = c]]
        /\ Goto(t, "add_committed")
        /\ UNCHANGED <<options, last_sequence, last_published, memtable, heapVars,
                       prepVars, maxVars, live, snapVars, read>>

\* How far max_evicted_seq_ has to go for e to be evicted.
NewMax(e) ==
    IF e.commit_seq < GetLastPublishedSequence
    THEN Min({e.commit_seq + INC_STEP_FOR_MAX_EVICTED, GetLastPublishedSequence - 1})
    ELSE e.commit_seq

\* AddCommitted finds its slot taken by an older commit, or not, and announces how
\* far max_evicted_seq_ will go.
AddCommitted(t) ==
    /\ pc[t] = "add_committed"
    /\ \/ /\ GetCommitEntry(Head(call[t].todo)) = {}
          /\ Goto(t, "exchange")
          /\ UNCHANGED <<future_max_evicted_seq, call>>
       \/ \E e \in GetCommitEntry(Head(call[t].todo)) :
             /\ call' = [call EXCEPT ![t].evicted = e, ![t].max = NewMax(e)]
             /\ IF max_evicted_seq < e.commit_seq
                THEN /\ future_max_evicted_seq' = Max({future_max_evicted_seq, NewMax(e)})
                     /\ Goto(t, "check_prepared")
                ELSE Goto(t, "delayed") /\ UNCHANGED future_max_evicted_seq
    /\ UNCHANGED <<options, seqVars, heapVars, prepVars, commit_cache, max_evicted_seq,
                   live, snapVars, read>>

\* The preliminary check of CheckPreparedAgainstMax.
CheckTop(t) ==
    /\ pc[t] = "check_prepared"
    /\ Goto(t, IF Top <= call[t].max THEN "lock_prepared" ELSE "list")
    /\ UNCHANGED <<options, seqVars, heapVars, prepVars, maxVars, live, snapVars, call, read>>

\* The live snapshots up to max, in order and without duplicates.
GetSnapshotListFromDB(max) ==
    SetToSortSeq({live[r] : r \in Readers} \cap 0 .. max, <)

\* A list of snapshots is never replaced by an older one (calls are serial, so the
\* new one always is newer).
AdvanceMaxEvictedSeq(t) ==
    /\ pc[t] = "list"
    /\ IF call[t].max > snapshots_version
       THEN /\ call' = [call EXCEPT ![t].list = GetSnapshotListFromDB(call[t].max)]
            /\ Goto(t, "update_snapshots")
       ELSE Goto(t, "update_max") /\ UNCHANGED call
    /\ UNCHANGED <<options, seqVars, heapVars, prepVars, maxVars, live, snapVars, read>>

\* The new list, and CleanupReleasedSnapshots of what was only in the old one.
UpdateSnapshots(t) ==
    LET released == {s \in ToSet(snapshots_all) \ ToSet(call[t].list) : s <= max_evicted_seq}
    IN  /\ pc[t] = "update_snapshots"
        /\ snapshots_version' = call[t].max
        /\ snapshots_all' = call[t].list
        /\ old_commit_map' = [s \in DOMAIN old_commit_map \ released |-> old_commit_map[s]]
        /\ Goto(t, "keep_snapshots")
        /\ UNCHANGED <<options, seqVars, heapVars, prepVars, maxVars, live, call, read>>

\* An entry of its own in old_commit_map_ for every snapshot in the list.
KeepSnapshots(t) ==
    LET D == DOMAIN old_commit_map
    IN  /\ pc[t] = "keep_snapshots"
        /\ old_commit_map' = [s \in D \cup ToSet(call[t].list) |->
                                IF s \in D THEN old_commit_map[s] ELSE {}]
        /\ Goto(t, "update_max")
        /\ UNCHANGED <<options, seqVars, heapVars, prepVars, maxVars, live, snapshots_all,
                       snapshots_version, call, read>>

UpdateMax(t) ==
    /\ pc[t] = "update_max"
    /\ max_evicted_seq' = Max({max_evicted_seq, call[t].max})
    /\ Goto(t, "delayed")
    /\ UNCHANGED <<options, seqVars, heapVars, prepVars, commit_cache,
                   future_max_evicted_seq, live, snapVars, call, read>>

\* The evicted commit of a transaction that is still in delayed_prepared_.
UpdateDelayed(t) ==
    LET e == call[t].evicted
    IN  /\ pc[t] = "delayed"
        /\ delayed_prepared # {} => PreparedMutexFree
        /\ delayed_prepared_commits' = IF e.prep_seq \in delayed_prepared
                                       THEN delayed_prepared_commits \cup {e}
                                       ELSE delayed_prepared_commits
        /\ Goto(t, "check_snapshots")
        /\ UNCHANGED <<options, seqVars, heapVars, prepared_mutex, delayed_prepared,
                       maxVars, live, snapVars, call, read>>

\* Mutant: only snapshot_cache_ is searched.
OverlappingCached(e) ==
    LET cached == Min({Len(snapshots_all), SNAPSHOT_CACHE_SIZE})
    IN  {s \in ToSet(SubSeq(snapshots_all, 1, cached)) : e.prep_seq <= s /\ s < e.commit_seq}

\* CheckAgainstSnapshots with MaybeUpdateOldCommitMap: the snapshots e is in the
\* middle of.  snapshot_cache_ is searched downwards until a snapshot is too old;
\* if there are more, and its last one is not too new, both lists are searched
\* upwards until one is.
Overlapping(e) ==
    LET cached == Min({Len(snapshots_all), SNAPSHOT_CACHE_SIZE})
        Overlaps(s) == e.prep_seq <= s /\ s < e.commit_seq
        down == {i \in 1 .. cached : \A j \in i .. cached : snapshots_all[j] >= e.prep_seq}
        larger == /\ SNAPSHOT_CACHE_SIZE < Len(snapshots_all)
                  /\ snapshots_all[SNAPSHOT_CACHE_SIZE] < e.commit_seq
        up == IF larger THEN {i \in 1 .. Len(snapshots_all) :
                                \A j \in 1 .. i : snapshots_all[j] < e.commit_seq}
              ELSE {}
    IN  {s \in {snapshots_all[i] : i \in down \cup up} : Overlaps(s)}

CheckAgainstSnapshots(t) ==
    LET e == call[t].evicted
        D == DOMAIN old_commit_map
    IN  /\ pc[t] = "check_snapshots"
        /\ old_commit_map' = [s \in D \cup Overlapping(e) |->
                                (IF s \in D THEN old_commit_map[s] ELSE {})
                                \cup (IF s \in Overlapping(e) THEN {e.prep_seq} ELSE {})]
        /\ Goto(t, "exchange")
        /\ UNCHANGED <<options, seqVars, heapVars, prepVars, maxVars, live, snapshots_all,
                       snapshots_version, call, read>>

\* The commit replaces the evicted one.
ExchangeCommitEntry(t) ==
    LET s == Head(call[t].todo)
        more == Len(call[t].todo) > 1
        data == ~options.two_write_queues /\ (OneWrite(t) \/ call[t].undo # <<>>)
    IN  /\ pc[t] = "exchange"
        /\ commit_cache' = [commit_cache EXCEPT
                              ![s % COMMIT_CACHE_SIZE] = Encode(s, call[t].commit)]
        /\ call' = [call EXCEPT ![t].todo = Tail(@)]
        /\ Goto(t, IF more THEN "add_committed" ELSE IF data THEN "insert" ELSE "publish")
        /\ UNCHANGED <<options, seqVars, heapVars, prepVars, max_evicted_seq,
                       future_max_evicted_seq, live, snapVars, read>>

\* With two queues the callback publishes the commit, and the queue is left after
\* the clean-up but for a rollback; with one the write publishes it and is over.
Publish(t) ==
    LET two == options.two_write_queues
        leaves == ~two \/ Kind(t) = "rollback"
    IN  /\ pc[t] = "publish"
        /\ last_published' = IF two THEN call[t].commit ELSE last_published
        /\ last_sequence' = IF two THEN last_sequence ELSE call[t].commit
        /\ queue' = IF leaves THEN [queue EXCEPT ![CommitQueue] = Nobody] ELSE queue
        /\ call' = [call EXCEPT ![t].todo = IF two THEN call[t].preps \o call[t].undo
                                            ELSE call[t].preps]
        /\ Goto(t, IF OneWrite(t) THEN "done" ELSE "remove")
        /\ UNCHANGED <<options, last_allocated, memtable, committed, heapVars, prepVars,
                       maxVars, live, snapVars, read>>

\* RemovePrepared, first from the heap.
RemovePrepared(t) ==
    /\ pc[t] = "remove"
    /\ PreparedMutexFree \/ prepared_mutex.writer = t
    /\ prepared_mutex' = [prepared_mutex EXCEPT !.writer = t]
    /\ erase(Head(call[t].todo))
    /\ Goto(t, "remove_delayed")
    /\ UNCHANGED <<options, seqVars, push_pop_mutex, delayed_prepared,
                   delayed_prepared_commits, maxVars, live, snapVars, call, read>>

\* Then from delayed_prepared_.  A transaction's sub-batches are removed under one
\* lock, the batch of a rollback under another.
RemoveDelayed(t) ==
    LET s == Head(call[t].todo)
        rest == Tail(call[t].todo)
        over == rest = <<>>
    IN  /\ pc[t] = "remove_delayed"
        /\ delayed_prepared' = delayed_prepared \ {s}
        /\ delayed_prepared_commits' = {e \in delayed_prepared_commits : e.prep_seq # s}
        /\ prepared_mutex' = IF over \/ rest = call[t].undo
                             THEN [prepared_mutex EXCEPT !.writer = Nobody] ELSE prepared_mutex
        /\ call' = [call EXCEPT ![t].todo = rest]
        /\ queue' = IF over /\ queue["second"] = t
                    THEN [queue EXCEPT !["second"] = Nobody] ELSE queue
        /\ Goto(t, IF ~over THEN "remove" ELSE IF t \in Readers THEN "snapshot" ELSE "done")
        /\ UNCHANGED <<options, last_allocated, last_sequence, last_published, memtable,
                       committed, heapVars, maxVars, live, snapVars, read>>

-----------------------------------------------------------------------------
(* Readers.                                                                *)

readerFrame == <<options, seqVars, heapVars, delayed_prepared, delayed_prepared_commits,
                 maxVars, snapVars, call>>

\* A step of r that only reads: it goes to l with locals R.
Reads(r, l, R) ==
    /\ Goto(r, l)
    /\ read' = [read EXCEPT ![r] = R]
    /\ UNCHANGED readerFrame

\* SmallestUnCommittedSeq: the last sequence number, the top of the heap and
\* delayed_prepared_, in this order.
ReadLastSequence(r) ==
    /\ pc[r] = "new"
    /\ Reads(r, "read_top", [read[r] EXCEPT !.next = last_sequence + 1])
    /\ UNCHANGED <<prepared_mutex, live>>

ReadTop(r) ==
    /\ pc[r] = "read_top"
    /\ Reads(r, "read_delayed", [read[r] EXCEPT !.min = Min({Top, read[r].next})])
    /\ UNCHANGED <<prepared_mutex, live>>

\* Mutant: delayed_prepared_ is not looked at.
ReadDelayedNot(r) ==
    /\ pc[r] = "read_delayed"
    /\ Reads(r, "snapshot", read[r])
    /\ UNCHANGED <<prepared_mutex, live>>

ReadDelayed(r) ==
    /\ pc[r] = "read_delayed"
    /\ Reads(r, IF delayed_prepared = {} THEN "snapshot" ELSE "read_smallest", read[r])
    /\ UNCHANGED <<prepared_mutex, live>>

SmallestUnCommittedSeq(r) ==
    /\ pc[r] = "read_smallest" /\ prepared_mutex.writer = Nobody
    /\ Reads(r, "snapshot", IF delayed_prepared = {} THEN read[r]
                            ELSE [read[r] EXCEPT !.min = Min(delayed_prepared)])
    /\ UNCHANGED <<prepared_mutex, live>>

\* GetSnapshotImpl; or what Get without a snapshot reads at.
TakeSnapshot(r) ==
    LET seq == GetLastPublishedSequence
        backed == options.reads[r] = "snapshot"
    IN  /\ pc[r] = "snapshot"
        /\ Reads(r, IF backed THEN "check_snapshot" ELSE "reading",
                 [read[r] EXCEPT !.snap = seq])
        /\ live' = IF backed THEN [live EXCEPT ![r] = seq] ELSE live
        /\ UNCHANGED prepared_mutex

\* A snapshot that max_evicted_seq_ is about to reach is given back, and
\* AdvanceSeqByOne commits an empty transaction before the next one is taken.
GetSnapshotInternal(r) ==
    LET late == read[r].snap # 0 /\ read[r].snap <= future_max_evicted_seq
    IN  /\ pc[r] = "check_snapshot"
        /\ Reads(r, IF late THEN "advance" ELSE "reading", read[r])
        /\ live' = IF late THEN [live EXCEPT ![r] = -1] ELSE live
        /\ UNCHANGED prepared_mutex

Answer(r, visible) == [read[r] EXCEPT !.result = IF visible THEN "visible" ELSE "hidden"]

\* ReadCallback::IsVisible of some value r comes across.
IsVisible(r) ==
    /\ pc[r] = "reading"
    /\ \E s \in memtable :
          LET R == [read[r] EXCEPT !.prep_seq = s]
          IN  IF s < R.min THEN Reads(r, "answered", [R EXCEPT !.result = "visible"])
              ELSE IF R.snap < s THEN Reads(r, "answered", [R EXCEPT !.result = "hidden"])
              ELSE Reads(r, "read_lb", R)
    /\ UNCHANGED <<prepared_mutex, live>>

\* IsInSnapshot, load by load.
ReadMaxLb(r) ==
    /\ pc[r] = "read_lb"
    /\ Reads(r, "read_empty", [read[r] EXCEPT !.lb = max_evicted_seq])
    /\ UNCHANGED <<prepared_mutex, live>>

ReadDelayedEmpty(r) ==
    /\ pc[r] = "read_empty"
    /\ Reads(r, "read_entry", [read[r] EXCEPT !.was_empty = (delayed_prepared = {})])
    /\ UNCHANGED <<prepared_mutex, live>>

\* The entry of r's value, if it is in the commit cache.
Cached(r) == {e \in GetCommitEntry(read[r].prep_seq) : e.prep_seq = read[r].prep_seq}

ReadCommitEntry(r) ==
    /\ pc[r] = "read_entry"
    /\ \/ Cached(r) = {} /\ Reads(r, "read_ub", read[r])
       \/ \E e \in Cached(r) : Reads(r, "answered", Answer(r, e.commit_seq <= read[r].snap))
    /\ UNCHANGED <<prepared_mutex, live>>

\* If max_evicted_seq_ has moved, r begins again.
ReadMaxUb(r) ==
    LET R == [read[r] EXCEPT !.ub = max_evicted_seq]
    IN  /\ pc[r] = "read_ub"
        /\ IF R.lb # R.ub THEN Reads(r, "read_lb", R)
           ELSE IF R.ub < R.prep_seq THEN Reads(r, "answered", Answer(r, FALSE))
           ELSE Reads(r, IF R.was_empty THEN "read_old" ELSE "lock_delayed", R)
        /\ UNCHANGED <<prepared_mutex, live>>

\* If there was a delayed transaction the value may be one: not yet committed, or
\* committed and evicted before it was cleaned up.
ReadDelayedPrepared(r) ==
    LET s == read[r].prep_seq
        known == {e \in delayed_prepared_commits : e.prep_seq = s}
    IN  /\ pc[r] = "lock_delayed" /\ prepared_mutex.writer = Nobody
        /\ IF s \in delayed_prepared
           THEN /\ Reads(r, "answered", Answer(r, \E e \in known : e.commit_seq <= read[r].snap))
                /\ UNCHANGED prepared_mutex
           ELSE /\ Reads(r, "read_again", read[r])
                /\ prepared_mutex' = [prepared_mutex EXCEPT !.readers = @ \cup {r}]
        /\ UNCHANGED live

\* The lock is kept for a second look at the cache and at max_evicted_seq_.
ReadCommitEntryAgain(r) ==
    /\ pc[r] = "read_again"
    /\ \/ Cached(r) = {} /\ Reads(r, "read_ub_again", read[r]) /\ UNCHANGED prepared_mutex
       \/ \E e \in Cached(r) :
             /\ Reads(r, "answered", Answer(r, e.commit_seq <= read[r].snap))
             /\ prepared_mutex' = [prepared_mutex EXCEPT !.readers = @ \ {r}]
    /\ UNCHANGED live

ReadMaxUbAgain(r) ==
    /\ pc[r] = "read_ub_again"
    /\ Reads(r, IF read[r].lb # max_evicted_seq THEN "read_lb" ELSE "read_old",
             [read[r] EXCEPT !.ub = max_evicted_seq])
    /\ prepared_mutex' = [prepared_mutex EXCEPT !.readers = @ \ {r}]
    /\ UNCHANGED live

\* The value has been committed, long ago or after a snapshot that is kept in
\* old_commit_map_; a snapshot that is not has been released.
ReadOldCommitMapEmpty(r) ==
    /\ pc[r] = "read_old"
    /\ IF read[r].ub < read[r].snap THEN Reads(r, "answered", Answer(r, TRUE))
       ELSE IF DOMAIN old_commit_map = {}
            THEN Reads(r, "answered", [read[r] EXCEPT !.result = "released"])
            ELSE Reads(r, "read_map", read[r])
    /\ UNCHANGED <<prepared_mutex, live>>

ReadOldCommitMap(r) ==
    LET R == read[r]
    IN  /\ pc[r] = "read_map"
        /\ Reads(r, "answered", IF R.snap \in DOMAIN old_commit_map
                                THEN Answer(r, R.prep_seq \notin old_commit_map[R.snap])
                                ELSE [R EXCEPT !.result = "released"])
        /\ UNCHANGED <<prepared_mutex, live>>

\* ReleaseSnapshot; or ValidateSnapshot, after which Get may have to TryAgain.
EndRead(r) ==
    LET R == read[r]
        stale == R.result = "released" \/ (R.snap <= max_evicted_seq /\ R.snap # 0)
    IN  /\ pc[r] = "answered"
        /\ Reads(r, "done", IF options.reads[r] = "get" /\ stale
                            THEN [R EXCEPT !.result = "TryAgain"] ELSE R)
        /\ live' = [live EXCEPT ![r] = -1]
        /\ UNCHANGED prepared_mutex

-----------------------------------------------------------------------------

WriteStep(t) ==
    \/ PrepareInternal(t) \/ RollbackInternal(t) \/ AddPrepared(t) \/ CheckFutureMax(t)
    \/ LockPrepared(t) \/ CheckPreparedAgainstMax(t) \/ PopPrepared(t) \/ InsertInto(t)
    \/ SetLastSequence(t) \/ CommitInternal(t) \/ AddCommitted(t) \/ CheckTop(t)
    \/ AdvanceMaxEvictedSeq(t) \/ UpdateSnapshots(t) \/ KeepSnapshots(t) \/ UpdateMax(t)
    \/ UpdateDelayed(t) \/ CheckAgainstSnapshots(t) \/ ExchangeCommitEntry(t)
    \/ Publish(t) \/ RemovePrepared(t) \/ RemoveDelayed(t)

ReadStep(r) ==
    \/ ReadLastSequence(r) \/ ReadTop(r) \/ ReadDelayed(r) \/ SmallestUnCommittedSeq(r)
    \/ TakeSnapshot(r) \/ GetSnapshotInternal(r) \/ IsVisible(r) \/ ReadMaxLb(r)
    \/ ReadDelayedEmpty(r) \/ ReadCommitEntry(r) \/ ReadMaxUb(r) \/ ReadDelayedPrepared(r)
    \/ ReadCommitEntryAgain(r) \/ ReadMaxUbAgain(r) \/ ReadOldCommitMapEmpty(r)
    \/ ReadOldCommitMap(r) \/ EndRead(r)

Next == (\E t \in Threads : WriteStep(t)) \/ (\E r \in Readers : ReadStep(r))

Spec == Init /\ [][Next]_vars

\* A thread that can run does.
FairSpec == Spec /\ WF_vars(Next)
-----------------------------------------------------------------------------

\* IsInSnapshot is exact: a value is visible if and only if it was committed at or
\* before the snapshot, however evictions, delayed transactions and the clean-up
\* after a commit fall between its loads.  A Get without a snapshot may be told to
\* try again instead; a read that has one never finds it released.
ReadsAreExact ==
    \A r \in DOMAIN options.reads : pc[r] = "done" /\ options.reads[r] # "hold" =>
        LET R == read[r]
            c == committed[R.prep_seq]
        IN  \/ R.result = "visible" /\ c # 0 /\ c <= R.snap
            \/ R.result = "hidden" /\ (c = 0 \/ c > R.snap)
            \/ R.result = "TryAgain" /\ options.reads[r] = "get"

\* The min_uncommitted_ of a snapshot is small enough: everything that can be read
\* below it is committed in the snapshot, although it was computed from three loads
\* before the snapshot was taken.  (EnhanceSnapshot asserts the first part.)
MinUncommittedIsSound ==
    \A r \in Readers : pc[r] = "reading" =>
        /\ read[r].min <= read[r].snap + 1
        /\ \A s \in memtable : s < read[r].min => committed[s] \in 1 .. read[r].snap

\* Transactions leave nothing behind: when all are over the heap, its list of
\* erased entries (its destructor asserts that they are empty) and what was kept
\* of delayed transactions are empty; and old_commit_map_ never keeps anything for
\* a snapshot that a later list of snapshots will not release.
NothingLeftBehind ==
    /\ (\A t \in Threads : pc[t] = "done") =>
          /\ prepared_txns = <<>> /\ erased = {}
          /\ delayed_prepared = {} /\ delayed_prepared_commits = {}
    /\ DOMAIN old_commit_map \subseteq ToSet(snapshots_all)

\* Everybody is done in the end: no mutexes are taken in conflicting orders, and a
\* reader that keeps finding max_evicted_seq_ moved, or has to take its snapshot
\* again, does not do so for ever.
EveryoneFinishes == <>(\A t \in Threads : pc[t] = "done")
=============================================================================
