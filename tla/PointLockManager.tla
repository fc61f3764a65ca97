-------------------------- MODULE PointLockManager --------------------------
(***************************************************************************)
(* Locks on keys, in stripes, with time-outs, expiry and stealing, a limit *)
(* on their number, and deadlock detection.                                *)
(* utilities/transactions/lock/point/point_lock_manager.cc                 *)
(*                                                                         *)
(* The keys of one column family.  A section under a stripe's mutex is one *)
(* step unless it also touches what the mutex does not protect: the lock   *)
(* count (Emplace) and the wait graph (StartWait) are steps of their own,  *)
(* and the mutex is then seen to be held.  This module has the steps of    *)
(* AcquireWithTimeout and UnLock; PessimisticTransaction calls them.       *)
(***************************************************************************)
EXTENDS Integers, FiniteSets, FiniteSetsExt, Functions, Sequences

CONSTANTS
    Txns,           \* TransactionIDs
    Keys,
    Stripes,
    NoTxn,          \* the holder of a free mutex
    MaxTime         \* bound: the clock stops here

ASSUME NoTxnAssumption == NoTxn \notin Txns /\ Keys # {}

VARIABLES
    options,        \* what the database and each transaction were opened with
    now,            \* Env::NowMicros()
    keys,           \* LockMapStripe::keys: the LockInfo of each key
    lock_cnt,       \* LockMap::lock_cnt
    stripe_mutex,   \* who holds each stripe's mutex across steps
    wait_txn_map,   \* wait_ids of the transactions in wait_txn_map_
    rev_wait_txn_map,   \* rev_wait_txn_map_, 0 if absent
    txn_state,      \* PessimisticTransaction::txn_state_
    expiration_time,    \* PessimisticTransaction::expiration_time_, 0 if none
    expirable_transactions_map,
    pc,             \* where each transaction's thread is
    call            \* the locals of the call it is in

lockVars == <<keys, lock_cnt, stripe_mutex>>
waitVars == <<wait_txn_map, rev_wait_txn_map>>
txnVars  == <<txn_state, expiration_time, expirable_transactions_map>>

\* A key that is not in LockMapStripe::keys has no holders.
Unlocked == [txn_ids |-> {}, exclusive |-> FALSE, expiration_time |-> 0]

SomeKey == CHOOSE k \in Keys : TRUE

\* key, exclusive:  the arguments of TryLock
\* attempt:         "first", "retry" after a wait, "last" once timed_out
\* hint, wait_ids:  expire_time_hint and wait_ids, which outlive an attempt
\* busy:            the attempt met the limit on locks
\* late:            end_time has passed
\* todo:            keys that UnLock has yet to unlock
\* then:            what the transaction does with the outcome
NoCall == [key |-> SomeKey, exclusive |-> FALSE, attempt |-> "first",
           hint |-> 0, wait_ids |-> {}, busy |-> FALSE, late |-> FALSE,
           todo |-> {}, then |-> "none", validate |-> FALSE]

LockInit ==
    /\ now = 1
    /\ keys = [k \in Keys |-> Unlocked]
    /\ lock_cnt = 0
    /\ stripe_mutex = [s \in Stripes |-> NoTxn]
    /\ wait_txn_map = [t \in Txns |-> {}]
    /\ rev_wait_txn_map = [t \in Txns |-> 0]
    /\ txn_state = [t \in Txns |-> "STARTED"]
    /\ expiration_time = [t \in Txns |-> 0]
    /\ expirable_transactions_map = {}
    /\ pc = [t \in Txns |-> "new"]
    /\ call = [t \in Txns |-> NoCall]

Goto(t, l) == pc' = [pc EXCEPT ![t] = l]

\* t is back in its client's hands.
Return(t) == Goto(t, "ready") /\ call' = [call EXCEPT ![t] = NoCall]

\* LockMap::GetStripe: a hash of the key modulo num_stripes.
GetStripe(k) == options.stripe[k]

MyStripe(t) == GetStripe(call[t].key)

Timeout(t) == options.txn[t].lock_timeout

-----------------------------------------------------------------------------
(* Deadlock detection.                                                     *)

\* The wait map without t's entry, as DecrementWaitersImpl leaves it.
DecrementWaiters(t) ==
    /\ wait_txn_map' = [wait_txn_map EXCEPT ![t] = {}]
    /\ rev_wait_txn_map' = [u \in Txns |-> rev_wait_txn_map[u]
                                - IF u \in wait_txn_map[t] THEN 1 ELSE 0]

InSomeOrder(T) == CHOOSE s \in [1 .. Cardinality(T) -> T] : IsInjective(s)

\* The breadth-first search for t from the transactions it would wait for.
\* Queue[h] is the queue once the h-th element's neighbours have been added; it
\* is cut at the depth, and a search that fills it up assumes a deadlock.
FindsDeadlock(t, waits) ==
    LET depth == options.deadlock_detect_depth
        Next_(u) == IF u = t THEN waits ELSE wait_txn_map[u]
        Cut(s) == SubSeq(s, 1, Min({Len(s), depth}))
        Queue[h \in 0 .. depth - 1] ==
            IF h = 0 THEN Cut(InSomeOrder(waits))
            ELSE IF h > Len(Queue[h - 1]) THEN Queue[h - 1]
            ELSE Cut(Queue[h - 1] \o InSomeOrder(Next_(Queue[h - 1][h])))
        ends == {h \in 0 .. depth - 1 : Len(Queue[h]) <= h \/ Queue[h][h + 1] = t}
    IN  /\ rev_wait_txn_map[t] > 0 \/ t \in waits
        /\ ends = {} \/ Len(Queue[Min(ends)]) > Min(ends)

\* Mutant: rev_wait_txn_map_ is not kept, and its test ends every search early.
IncrementWaitersOneWay(t, waits) ==
    /\ wait_txn_map' = [wait_txn_map EXCEPT ![t] = waits]
    /\ UNCHANGED rev_wait_txn_map

IncrementWaiters(t, waits) ==
    /\ wait_txn_map' = [wait_txn_map EXCEPT ![t] = waits]
    /\ rev_wait_txn_map' = [u \in Txns |-> rev_wait_txn_map[u]
                                + IF u \in waits THEN 1 ELSE 0]

-----------------------------------------------------------------------------
(* AcquireWithTimeout.                                                     *)

\* t enters AcquireWithTimeout for k.
CallTryLock(t, k, ex, c) ==
    /\ Goto(t, "lock")
    /\ call' = [call EXCEPT ![t] = [c EXCEPT !.key = k, !.exclusive = ex]]

\* end_time passes.
Deadline(t) ==
    /\ pc[t] \in {"lock", "emplace", "decide", "wait"}
    /\ Timeout(t) > 0 /\ ~call[t].late
    /\ call' = [call EXCEPT ![t].late = TRUE]
    /\ UNCHANGED <<options, now, lockVars, waitVars, txnVars, pc>>

\* TryLockFor gives up on the stripe's mutex.
MutexTimeout(t) ==
    /\ pc[t] = "lock" /\ call[t].attempt = "first"
    /\ stripe_mutex[MyStripe(t)] # NoTxn
    /\ Timeout(t) = 0 \/ call[t].late
    /\ Return(t)
    /\ UNCHANGED <<options, now, lockVars, waitVars, txnVars>>

\* t has the stripe's mutex for an attempt, the first or one after a wait, when
\* it also leaves the wait graph.
Attempt(t) ==
    /\ pc[t] = "lock"
    /\ stripe_mutex[MyStripe(t)] = NoTxn
    /\ DecrementWaiters(t)
    /\ UNCHANGED <<options, now>>

NewLockInfo(t) == [txn_ids |-> {t}, exclusive |-> call[t].exclusive,
                   expiration_time |-> expiration_time[t]]

Lock(t, info) ==
    /\ keys' = [keys EXCEPT ![call[t].key] = info]
    /\ Goto(t, "granted")

\* After a failed attempt t returns if it does not wait or has waited long
\* enough, and otherwise goes on to wait, with the mutex.
Fail(t, c) ==
    IF Timeout(t) = 0 \/ c.attempt = "last"
    THEN Return(t) /\ UNCHANGED stripe_mutex
    ELSE /\ Goto(t, "decide")
         /\ call' = [call EXCEPT ![t] = c]
         /\ stripe_mutex' = [stripe_mutex EXCEPT ![MyStripe(t)] = t]

Conflict(t) ==
    LET info == keys[call[t].key]
    IN  info.txn_ids # {} /\ (info.exclusive \/ call[t].exclusive)

\* The key's only holder takes it again, perhaps in another mode.
AcquireOwn(t) ==
    /\ Attempt(t) /\ Conflict(t)
    /\ keys[call[t].key].txn_ids = {t}
    /\ Lock(t, NewLockInfo(t))
    /\ UNCHANGED <<lock_cnt, stripe_mutex, txnVars, call>>

IsExpired(t) == expiration_time[t] > 0 /\ now >= expiration_time[t]

LockExpired(info) == info.expiration_time # 0 /\ info.expiration_time <= now

\* Holders other than t whom TryStealingExpiredTransactionLocks finds.
Victims(t, info) == (info.txn_ids \ {t}) \cap expirable_transactions_map

\* Mutant: locks are taken whatever their holder is doing.
UnstealableNone(t, info) == {}

\* The compare-and-swap of TryStealingLocks fails for these.
Unstealable(t, info) == {u \in Victims(t, info) : txn_state[u] # "STARTED"}

Stolen(V) == [u \in Txns |-> IF u \in V THEN "LOCKS_STOLEN" ELSE txn_state[u]]

\* The lock has expired and every other holder's state says it may go.
AcquireExpired(t) ==
    LET info == keys[call[t].key]
    IN  /\ Attempt(t) /\ Conflict(t)
        /\ info.txn_ids # {t}
        /\ LockExpired(info)
        /\ Unstealable(t, info) = {}
        /\ txn_state' = Stolen(Victims(t, info))
        /\ Lock(t, NewLockInfo(t))
        /\ UNCHANGED <<lock_cnt, stripe_mutex, expiration_time,
                       expirable_transactions_map, call>>

\* The lock has expired but a holder will not let go.  The loop over the
\* holders has by then marked those that came before it.
StealRefused(t) ==
    LET info == keys[call[t].key]
    IN  /\ Attempt(t) /\ Conflict(t)
        /\ info.txn_ids # {t}
        /\ LockExpired(info)
        /\ Unstealable(t, info) # {}
        /\ \E V \in SUBSET (Victims(t, info) \ Unstealable(t, info)) :
              txn_state' = Stolen(V)
        /\ Fail(t, [call[t] EXCEPT !.hint = 0, !.wait_ids = info.txn_ids, !.busy = FALSE])
        /\ UNCHANGED <<keys, lock_cnt, expiration_time, expirable_transactions_map>>

\* The lock has not expired, or never does.
AcquireHeld(t) ==
    LET info == keys[call[t].key]
    IN  /\ Attempt(t) /\ Conflict(t)
        /\ info.txn_ids # {t}
        /\ ~LockExpired(info)
        /\ Fail(t, [call[t] EXCEPT !.hint = info.expiration_time,
                                   !.wait_ids = info.txn_ids, !.busy = FALSE])
        /\ UNCHANGED <<keys, lock_cnt, txnVars>>

\* Shared access to a shared lock.
AcquireShared(t) ==
    LET info == keys[call[t].key]
    IN  /\ Attempt(t)
        /\ info.txn_ids # {} /\ ~Conflict(t)
        /\ Lock(t, [info EXCEPT !.txn_ids = @ \cup {t},
                                !.expiration_time = Max({@, expiration_time[t]})])
        /\ UNCHANGED <<lock_cnt, stripe_mutex, txnVars, call>>

\* Nobody holds the key, but the limit has been reached.  expire_time_hint and
\* wait_ids keep what an earlier attempt left in them.
LimitReached(t) ==
    /\ Attempt(t)
    /\ keys[call[t].key].txn_ids = {}
    /\ options.max_num_locks > 0 /\ lock_cnt >= options.max_num_locks
    /\ Fail(t, [call[t] EXCEPT !.busy = TRUE])
    /\ UNCHANGED <<keys, lock_cnt, txnVars>>

\* Mutant: the limit is not looked at.
AcquireFreeUnlimited(t) ==
    /\ Attempt(t)
    /\ keys[call[t].key].txn_ids = {}
    /\ IF options.max_num_locks = 0
       THEN Lock(t, NewLockInfo(t)) /\ UNCHANGED stripe_mutex
       ELSE /\ stripe_mutex' = [stripe_mutex EXCEPT ![MyStripe(t)] = t]
            /\ Goto(t, "emplace")
            /\ UNCHANGED keys
    /\ UNCHANGED <<lock_cnt, txnVars, call>>

\* Nobody holds the key.  With a limit, other stripes move on between the check
\* of the count and its increment.
AcquireFree(t) ==
    /\ Attempt(t)
    /\ keys[call[t].key].txn_ids = {}
    /\ IF options.max_num_locks = 0
       THEN Lock(t, NewLockInfo(t)) /\ UNCHANGED stripe_mutex
       ELSE /\ lock_cnt < options.max_num_locks
            /\ stripe_mutex' = [stripe_mutex EXCEPT ![MyStripe(t)] = t]
            /\ Goto(t, "emplace")
            /\ UNCHANGED keys
    /\ UNCHANGED <<lock_cnt, txnVars, call>>

Emplace(t) ==
    /\ pc[t] = "emplace"
    /\ Lock(t, NewLockInfo(t))
    /\ lock_cnt' = lock_cnt + 1
    /\ stripe_mutex' = [stripe_mutex EXCEPT ![MyStripe(t)] = NoTxn]
    /\ UNCHANGED <<options, now, waitVars, txnVars, call>>

\* cv_end_time is not after the clock.
CvEndPassed(t) ==
    \/ Timeout(t) > 0 /\ call[t].late
    \/ call[t].hint > 0 /\ call[t].hint <= now

\* Deadlock detection, then the wait.  If cv_end_time has passed there is no
\* wait: after a lock conflict the result still says TimedOut and the thread goes
\* on to its last attempt, as it does when the wait ends at once (CvTimeout);
\* after a Busy nothing in the loop changes any more and the thread stays here.
StartWait(t) ==
    /\ pc[t] = "decide"
    /\ ~(call[t].busy /\ CvEndPassed(t))
    /\ stripe_mutex' = [stripe_mutex EXCEPT ![MyStripe(t)] = NoTxn]
    /\ IF options.txn[t].deadlock_detect /\ call[t].wait_ids # {}
       THEN IF FindsDeadlock(t, call[t].wait_ids)
            THEN Return(t) /\ UNCHANGED waitVars
            ELSE Goto(t, "wait") /\ IncrementWaiters(t, call[t].wait_ids) /\ UNCHANGED call
       ELSE Goto(t, "wait") /\ UNCHANGED <<waitVars, call>>
    /\ UNCHANGED <<options, now, keys, lock_cnt, txnVars>>

\* WaitFor returns TimedOut.
CvTimeout(t) ==
    /\ pc[t] = "wait" /\ CvEndPassed(t)
    /\ Goto(t, "lock")
    /\ call' = [call EXCEPT ![t].attempt = "last"]
    /\ UNCHANGED <<options, now, lockVars, waitVars, txnVars>>

-----------------------------------------------------------------------------
(* UnLock.                                                                 *)

CallUnLock(t, K, c) ==
    /\ Goto(t, IF K = {} THEN "unlocked" ELSE "unlock")
    /\ call' = [call EXCEPT ![t] = [c EXCEPT !.todo = K]]

\* Mutant: only the last holder of a shared lock is removed.
UnLockKeyLastOnly(t, info) == IF info.txn_ids = {t} THEN Unlocked ELSE info

UnLockKey(t, info) ==
    IF info.txn_ids = {t} THEN Unlocked ELSE [info EXCEPT !.txn_ids = @ \ {t}]

\* All of t's keys in one stripe.
UnLockStripe(t, s) ==
    LET K == {k \in call[t].todo : GetStripe(k) = s}
        mine == {k \in K : t \in keys[k].txn_ids}
    IN  /\ pc[t] = "unlock" /\ K # {}
        /\ stripe_mutex[s] = NoTxn
        /\ keys' = [k \in Keys |-> IF k \in mine THEN UnLockKey(t, keys[k]) ELSE keys[k]]
        /\ lock_cnt' = IF options.max_num_locks > 0
                       THEN lock_cnt - Cardinality(mine) ELSE lock_cnt
        /\ Goto(t, "notify")
        /\ call' = [call EXCEPT ![t].todo = @ \ K, ![t].key = CHOOSE k \in K : TRUE]
        /\ UNCHANGED <<options, now, stripe_mutex, waitVars, txnVars>>

\* Every waiter of the stripe goes back to fetch the mutex.
NotifyAll(t) ==
    LET woken == {u \in Txns : pc[u] = "wait" /\ MyStripe(u) = MyStripe(t)}
    IN  /\ pc[t] = "notify"
        /\ pc' = [u \in Txns |-> IF u \in woken THEN "lock"
                                 ELSE IF u # t THEN pc[u]
                                 ELSE IF call[t].todo = {} THEN "unlocked" ELSE "unlock"]
        /\ call' = [u \in Txns |-> IF u \in woken THEN [call[u] EXCEPT !.attempt = "retry"]
                                   ELSE call[u]]
        /\ UNCHANGED <<options, now, lockVars, waitVars, txnVars>>

\* Time passes, where somebody's locks expire.
Tick ==
    /\ now < MaxTime
    /\ \E t \in DOMAIN options.txn : options.txn[t].expiration >= 0
    /\ now' = now + 1
    /\ UNCHANGED <<options, lockVars, waitVars, txnVars, pc, call>>

LockStep(t) ==
    \/ Deadline(t) \/ MutexTimeout(t) \/ AcquireOwn(t) \/ AcquireExpired(t)
    \/ StealRefused(t) \/ AcquireHeld(t) \/ AcquireShared(t) \/ LimitReached(t)
    \/ AcquireFree(t) \/ Emplace(t) \/ StartWait(t) \/ CvTimeout(t)
    \/ \E s \in Stripes : UnLockStripe(t, s)
    \/ NotifyAll(t)
=============================================================================
