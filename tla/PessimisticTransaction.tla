----------------------- MODULE PessimisticTransaction -----------------------
(***************************************************************************)
(* Transactions that lock what they touch: locking with validation against *)
(* a snapshot, save points, prepare, commit, rollback, destruction.        *)
(* utilities/transactions/pessimistic_transaction.cc, the WriteCommitted   *)
(* policy, with the lock tracker and the map of expirable transactions.    *)
(*                                                                         *)
(* A committed write of a key is its sequence number.  A transaction is    *)
(* used by one thread, which calls what its options say, in any order.     *)
(***************************************************************************)
EXTENDS PointLockManager

CONSTANTS
    OptionSets,     \* the options to choose from
    NoSavePoint,
    MaxSequence     \* kMaxSequenceNumber: no snapshot; bounds the commits

ASSUME SequenceAssumption == MaxSequence \in Nat \ {0}

ASSUME OptionsAssumption ==
    \A o \in OptionSets :
        /\ o.stripe \in [Keys -> Stripes]
        /\ DOMAIN o.txn \subseteq Txns
        /\ \A t \in DOMAIN o.txn :
              /\ o.txn[t].expiration \in Int
              /\ o.txn[t].requests \subseteq
                    [key : Keys, exclusive : BOOLEAN, validate : BOOLEAN]

VARIABLES
    seq,            \* the last sequence number published
    written,        \* the sequence number of the latest write of each key
    snapshot,       \* snapshot_, MaxSequence if there is none
    tracked,        \* tracked_locks_
    new_locks,      \* the save point's new_locks_
    calls           \* bound: lock and save point calls each may still make

dbVars   == <<seq, written>>
userVars == <<snapshot, tracked, new_locks, calls>>
vars == <<options, now, keys, lock_cnt, stripe_mutex, wait_txn_map,
          rev_wait_txn_map, txn_state, expiration_time,
          expirable_transactions_map, pc, call, seq, written, snapshot,
          tracked, new_locks, calls>>

\* The transactions these options are about; the others are never begun.
Clients == DOMAIN options.txn

Untracked == [locked |-> FALSE, exclusive |-> FALSE, seq |-> MaxSequence]

Init ==
    /\ options \in OptionSets
    /\ LockInit
    /\ seq = 0
    /\ written = [k \in Keys |-> 0]
    /\ snapshot = [t \in Txns |-> MaxSequence]
    /\ tracked = [t \in Txns |-> [k \in Keys |-> Untracked]]
    /\ new_locks = [t \in Txns |-> NoSavePoint]
    /\ calls = [t \in Txns |-> IF t \in Clients THEN options.txn[t].calls ELSE 0]

Tracked(t) == {k \in Keys : tracked[t][k].locked}

\* The keys t has written: those it has locked for itself.
Writes(t) == {k \in Tracked(t) : tracked[t][k].exclusive}

State(t, s) == txn_state' = [txn_state EXCEPT ![t] = s]

\* BeginTransaction: Initialize.
Begin(t) ==
    LET o == options.txn[t]
    IN  /\ pc[t] = "new" /\ t \in Clients
        /\ Goto(t, "ready")
        /\ expiration_time' = [expiration_time EXCEPT
                                 ![t] = IF o.expiration >= 0 THEN now + o.expiration ELSE 0]
        /\ expirable_transactions_map' = IF o.expiration >= 0
                                         THEN expirable_transactions_map \cup {t}
                                         ELSE expirable_transactions_map
        /\ snapshot' = [snapshot EXCEPT ![t] = IF o.set_snapshot THEN seq ELSE MaxSequence]
        /\ UNCHANGED <<options, now, lockVars, waitVars, txn_state, call, dbVars,
                       tracked, new_locks, calls>>

-----------------------------------------------------------------------------
(* TryLock.                                                                *)

\* Put, Delete or GetForUpdate of k.  A key that is tracked is locked again only
\* for an upgrade.
TryLock(t, k, ex, validate) ==
    LET locked  == tracked[t][k].locked
        upgrade == locked /\ ex /\ ~tracked[t][k].exclusive
        c == [NoCall EXCEPT !.validate = validate,
                            !.then = IF upgrade THEN "upgrade"
                                     ELSE IF locked THEN "relock" ELSE "lock"]
    IN  /\ pc[t] = "ready" /\ calls[t] > 0
        /\ txn_state[t] \in {"STARTED", "LOCKS_STOLEN"}
        /\ calls' = [calls EXCEPT ![t] = @ - 1]
        /\ IF locked /\ ~upgrade
           THEN /\ Goto(t, "granted")
                /\ call' = [call EXCEPT ![t] = [c EXCEPT !.key = k, !.exclusive = ex]]
           ELSE CallTryLock(t, k, ex, c)
        /\ UNCHANGED <<options, now, lockVars, waitVars, txnVars, dbVars,
                       snapshot, tracked, new_locks>>

\* TrackKey: the smaller sequence number is the stronger guarantee.
TrackKey(t, k, s, ex) ==
    /\ tracked' = [tracked EXCEPT ![t][k] =
                     [locked |-> TRUE, exclusive |-> @.exclusive \/ ex,
                      seq |-> Min({@.seq, s})]]
    /\ new_locks' = IF new_locks[t] = NoSavePoint \/ tracked[t][k].locked
                    THEN new_locks
                    ELSE [new_locks EXCEPT ![t] = @ \cup {k}]

\* ValidateSnapshot: t knows that the key has not changed since its snapshot, or
\* looks at the latest write.
Validated(t) ==
    LET k == call[t].key
    IN  tracked[t][k].seq <= snapshot[t] \/ written[k] <= snapshot[t]

\* The lock is there: the rest of TryLock.  A first lock that fails validation
\* is given back.  An upgrade that does is turned back into a shared lock by
\* another call of TryLock, whose success is then t's result.
LockGranted(t) ==
    LET c == call[t]
        k == c.key
        checks == c.validate /\ snapshot[t] # MaxSequence
        since == IF checks \/ c.then = "downgrade" THEN Min({tracked[t][k].seq, snapshot[t]})
                 ELSE Min({tracked[t][k].seq, seq})
    IN  /\ pc[t] = "granted"
        /\ \/ /\ c.then = "downgrade" \/ (checks => Validated(t))
              /\ TrackKey(t, k, since, c.exclusive \/ c.then = "downgrade")
              /\ Return(t)
           \/ /\ c.then # "downgrade" /\ checks /\ ~Validated(t)
              /\ \/ c.then = "upgrade"
                    /\ CallTryLock(t, k, FALSE, [NoCall EXCEPT !.then = "downgrade"])
                 \/ c.then = "lock" /\ CallUnLock(t, {k}, [c EXCEPT !.then = "invalid"])
                 \/ c.then = "relock" /\ Return(t)
              /\ UNCHANGED <<tracked, new_locks>>
        /\ UNCHANGED <<options, now, lockVars, waitVars, txnVars, dbVars,
                       snapshot, calls>>

-----------------------------------------------------------------------------
(* Save points.                                                            *)

SetSavePoint(t) ==
    /\ pc[t] = "ready" /\ options.txn[t].save_point
    /\ txn_state[t] \in {"STARTED", "LOCKS_STOLEN"} /\ calls[t] > 0
    /\ new_locks[t] = NoSavePoint
    /\ new_locks' = [new_locks EXCEPT ![t] = {}]
    /\ calls' = [calls EXCEPT ![t] = @ - 1]
    /\ UNCHANGED <<options, now, lockVars, waitVars, txnVars, pc, call, dbVars,
                   snapshot, tracked>>

\* Keys first locked since the save point are unlocked.
RollbackToSavePoint(t) ==
    /\ pc[t] = "ready" /\ txn_state[t] = "STARTED"
    /\ new_locks[t] # NoSavePoint
    /\ CallUnLock(t, new_locks[t], [NoCall EXCEPT !.then = "save_point"])
    /\ UNCHANGED <<options, now, lockVars, waitVars, txnVars, dbVars, userVars>>

-----------------------------------------------------------------------------
(* Prepare, commit, rollback.                                              *)

\* Prepare and Commit first look at the clock, and later at the state, which a
\* thief may have changed meanwhile.
CheckExpired(t, l) ==
    /\ pc[t] = "ready" /\ ~IsExpired(t)
    /\ Goto(t, l)
    /\ UNCHANGED <<options, now, lockVars, waitVars, txnVars, call, dbVars, userVars>>

Prepare(t) ==
    /\ CheckExpired(t, "prepare")
    /\ options.txn[t].two_phase /\ txn_state[t] = "STARTED"

\* A prepared transaction cannot expire; its locks still say they do, and it
\* stays in the map of expirable transactions.
PrepareState(t) ==
    /\ pc[t] = "prepare"
    /\ IF txn_state[t] = "STARTED"
       THEN /\ State(t, "AWAITING_PREPARE")
            /\ expiration_time' = [expiration_time EXCEPT ![t] = 0]
            /\ Goto(t, "prepare_write")
       ELSE Goto(t, "ready") /\ UNCHANGED <<txn_state, expiration_time>>
    /\ UNCHANGED <<options, now, lockVars, waitVars, expirable_transactions_map,
                   call, dbVars, userVars>>

PrepareInternal(t) ==
    /\ pc[t] = "prepare_write"
    /\ \/ State(t, "PREPARED")
       \/ options.write_errors /\ UNCHANGED txn_state
    /\ Goto(t, "ready")
    /\ UNCHANGED <<options, now, lockVars, waitVars, expiration_time,
                   expirable_transactions_map, call, dbVars, userVars>>

Commit(t) ==
    /\ CheckExpired(t, "commit")
    /\ "commit" \in options.txn[t].ends /\ txn_state[t] \in {"STARTED", "PREPARED"}

\* Mutant: the new state is stored without looking at the old one.
CommitStateStores(t) ==
    /\ pc[t] = "commit"
    /\ State(t, "AWAITING_COMMIT")
    /\ Goto(t, "write")
    /\ call' = [call EXCEPT ![t].then = "commit"]
    /\ UNCHANGED <<options, now, lockVars, waitVars, expiration_time,
                   expirable_transactions_map, dbVars, userVars>>

\* A transaction without an expiration time reads its state, which nobody else
\* changes, and stores the new one; one with it exchanges STARTED.
CommitState(t) ==
    /\ pc[t] = "commit"
    /\ IF txn_state[t] = "STARTED" \/ (expiration_time[t] = 0 /\ txn_state[t] = "PREPARED")
       THEN /\ State(t, "AWAITING_COMMIT")
            /\ Goto(t, "write")
            /\ call' = [call EXCEPT ![t].then =
                          IF txn_state[t] = "PREPARED" THEN "prepared" ELSE "commit"]
       ELSE Return(t) /\ UNCHANGED txn_state
    /\ UNCHANGED <<options, now, lockVars, waitVars, expiration_time,
                   expirable_transactions_map, dbVars, userVars>>

\* The write, then Clear.  When the write of a prepared transaction fails, its
\* locks stay.
CommitInternal(t) ==
    /\ pc[t] = "write"
    /\ \/ /\ seq + 1 < MaxSequence
          /\ seq' = seq + 1
          /\ written' = [k \in Keys |-> IF k \in Writes(t) THEN seq + 1 ELSE written[k]]
          /\ CallUnLock(t, Tracked(t), [NoCall EXCEPT !.then = "committed"])
       \/ /\ options.write_errors
          /\ IF call[t].then = "prepared" THEN Return(t)
             ELSE CallUnLock(t, Tracked(t), [NoCall EXCEPT !.then = "clear"])
          /\ UNCHANGED dbVars
    /\ UNCHANGED <<options, now, lockVars, waitVars, txnVars, userVars>>

Rollback(t) ==
    /\ pc[t] = "ready" /\ "rollback" \in options.txn[t].ends
    /\ \/ /\ txn_state[t] = "PREPARED"
          /\ State(t, "AWAITING_ROLLBACK")
          /\ Goto(t, "rollback")
          /\ UNCHANGED call
       \/ /\ txn_state[t] = "STARTED" /\ Tracked(t) # {}
          /\ CallUnLock(t, Tracked(t), [NoCall EXCEPT !.then = "clear"])
          /\ UNCHANGED txn_state
    /\ UNCHANGED <<options, now, lockVars, waitVars, expiration_time,
                   expirable_transactions_map, dbVars, userVars>>

RollbackInternal(t) ==
    /\ pc[t] = "rollback"
    /\ \/ CallUnLock(t, Tracked(t), [NoCall EXCEPT !.then = "rolledback"])
       \/ options.write_errors /\ Return(t)
    /\ UNCHANGED <<options, now, lockVars, waitVars, txnVars, dbVars, userVars>>

\* The destructor.
Destroy(t) ==
    /\ pc[t] = "ready"
    /\ \/ "destroy" \in options.txn[t].ends \/ IsExpired(t)
       \/ txn_state[t] \notin {"STARTED", "PREPARED"}
    /\ CallUnLock(t, Tracked(t), [NoCall EXCEPT !.then = "destroy"])
    /\ UNCHANGED <<options, now, lockVars, waitVars, txnVars, dbVars, userVars>>

\* Where UnLock returns to.
UnLocked(t) ==
    LET then == call[t].then
        gone == IF then = "invalid" THEN {} ELSE
                IF then = "save_point" THEN new_locks[t] ELSE Keys
    IN  /\ pc[t] = "unlocked"
        /\ Goto(t, IF then = "destroy" THEN "dead" ELSE "ready")
        /\ call' = [call EXCEPT ![t] = NoCall]
        /\ tracked' = [tracked EXCEPT ![t] =
                         [k \in Keys |-> IF k \in gone THEN Untracked ELSE @[k]]]
        /\ new_locks' = IF then = "invalid" THEN new_locks
                        ELSE [new_locks EXCEPT ![t] = NoSavePoint]
        /\ txn_state' = CASE then = "committed"  -> [txn_state EXCEPT ![t] = "COMMITTED"]
                          [] then = "rolledback" -> [txn_state EXCEPT ![t] = "ROLLEDBACK"]
                          [] OTHER -> txn_state
        /\ expirable_transactions_map' =
              IF then = "destroy" /\ expiration_time[t] > 0
              THEN expirable_transactions_map \ {t} ELSE expirable_transactions_map
        /\ UNCHANGED <<options, now, lockVars, waitVars, expiration_time, dbVars,
                       snapshot, calls>>

-----------------------------------------------------------------------------

Requests(t) == IF t \in Clients THEN options.txn[t].requests ELSE {}

Step(t) ==
    \/ LockStep(t) /\ UNCHANGED <<dbVars, userVars>>
    \/ Begin(t)
    \/ \E r \in Requests(t) : TryLock(t, r.key, r.exclusive, r.validate)
    \/ LockGranted(t) \/ SetSavePoint(t) \/ RollbackToSavePoint(t)
    \/ Prepare(t) \/ PrepareState(t) \/ PrepareInternal(t)
    \/ Commit(t) \/ CommitState(t) \/ CommitInternal(t)
    \/ Rollback(t) \/ RollbackInternal(t) \/ Destroy(t) \/ UnLocked(t)

AllDead == \A t \in Clients : pc[t] = "dead"

Next ==
    \/ \E t \in Txns : Step(t)
    \/ Tick /\ UNCHANGED <<dbVars, userVars>>

Spec == Init /\ [][Next]_vars

\* Some thread that can take a step does.
FairSpec == Spec /\ WF_vars(\E t \in Txns : Step(t))
-----------------------------------------------------------------------------

\* t is in AcquireWithTimeout's loop because of the limit on locks: waiting for a
\* notification of its stripe, or past cv_end_time, going round with the mutex.
StuckAtLimit(t) == call[t].busy /\ (pc[t] = "wait" \/ (pc[t] = "decide" /\ CvEndPassed(t)))

\* Every transaction is done with in the end, or one of them never leaves the wait
\* at the limit on locks.  Nothing else waits for ever: a waiter is woken when what
\* it waits for goes away, and a cycle of waiters that all ask for deadlock
\* detection is broken.  (A Busy is not left at the time-out, although the loop is to
\* retry "as long as the timeout allows": no wait, so no TimedOut and no attempt.)
OnlyTheLimitHangs == <>AllDead \/ <>[](\E t \in Clients : StuckAtLimit(t))

\* A transaction about to write has for every key it writes a sequence number
\* since which nobody else has written the key: the one at which it locked the
\* key, or its snapshot if it was validated against that.
NoLostUpdate ==
    \A t \in Txns : pc[t] = "write" =>
        \A k \in Writes(t) : written[k] <= tracked[t][k].seq

\* No lock outlives its transaction.  (A thief takes an id that is not in the
\* map of expirable transactions for one that has let go.)
LocksDieWithTxn ==
    \A t \in Txns : pc[t] = "dead" => \A k \in Keys : t \notin keys[k].txn_ids

\* The lock count counts the locked keys if all locks are exclusive, and otherwise
\* falls behind: every holder of a shared lock that leaves takes one off, against
\* the assertion in UnLockKey.  Either way a race between stripes lets it pass the
\* limit by at most one key for every other stripe.
LockCountIsExact ==
    LET locked == {k \in Keys : keys[k].txn_ids # {}}
    IN  options.max_num_locks > 0 =>
          /\ lock_cnt <= Cardinality(locked)
          /\ (\A t \in Clients : \A r \in Requests(t) : r.exclusive) =>
                lock_cnt = Cardinality(locked)
          /\ lock_cnt < options.max_num_locks + Cardinality(Stripes)

\* The lock table, as seen by transactions that have not lost their locks,
\* behaves like LockTable.
Holds(t, k) == t \in keys[k].txn_ids /\ txn_state[t] # "LOCKS_STOLEN"

TableHolders == [k \in Keys |-> {t \in Txns : Holds(t, k)}]

TableExclusive == [k \in Keys |-> keys[k].exclusive /\ \E t \in Txns : Holds(t, k)]

TableStatus == [t \in Txns |-> IF txn_state[t] = "LOCKS_STOLEN" THEN "aborted"
                               ELSE IF txn_state[t] = "STARTED" THEN "open" ELSE "sealed"]

Table == INSTANCE LockTable WITH
    holders <- TableHolders, exclusive <- TableExclusive, status <- TableStatus

\* Either all transactions of a database expire or none does.
UniformExpiry ==
    \A o \in OptionSets : \A t, u \in DOMAIN o.txn :
        o.txn[t].expiration >= 0 <=> o.txn[u].expiration >= 0

\* No transaction that has a snapshot locks a key shared and then exclusive with
\* validation (the upgrade that LockGranted may turn back).
NoValidatedUpgrade ==
    \A o \in OptionSets : \A t \in DOMAIN o.txn : o.txn[t].set_snapshot =>
        \A r, s \in o.txn[t].requests :
            r.key = s.key /\ r.exclusive /\ r.validate => s.exclusive

\* The lock manager with its transactions implements the lock table, if UniformExpiry.
\* (Otherwise a shared lock that expires with its last expiring holder is also taken
\* from one that never does and so is not in the map of expirable transactions.)
ImplementsLockTable == Table!Spec
=============================================================================
