------------------------- MODULE NoLostUpdateProofs -------------------------
(***************************************************************************)
(* No lost update: what a transaction is about to write nobody else has    *)
(* written since the sequence number at which it locked the key, or since  *)
(* its snapshot.  For any number of transactions, keys and stripes, if all *)
(* transactions expire or none does and none upgrades with validation.     *)
(***************************************************************************)
EXTENDS LockTableProofs

USE SMTT(30), ZenonT(30)

\* Sequence numbers: nothing is written, or seen by a snapshot, in the future.
SeqInv ==
    /\ seq \in Nat /\ seq < MaxSequence
    /\ written \in [Keys -> Nat] /\ \A k \in Keys : written[k] <= seq
    /\ \A t \in Txns :
          /\ snapshot[t] # MaxSequence => snapshot[t] <= seq /\ options.txn[t].set_snapshot
          /\ \A k \in Keys : ~tracked[t][k].locked =>
                 tracked[t][k].seq = MaxSequence /\ ~tracked[t][k].exclusive

\* Where the lock that t asks for, was granted or gives back comes from.
RequestOk(t) ==
    /\ \A k \in Keys : tracked[t][k].locked /\ ~tracked[t][k].exclusive =>
           \E r \in Requests(t) : r.key = k /\ ~r.exclusive
    /\ pc[t] \in Locking \cup {"granted"} =>
           LET c == call[t]
               old == tracked[t][c.key]
           IN  /\ c.then \in {"lock", "upgrade", "relock"}
               /\ c.then = "lock" => ~old.locked
               /\ c.then = "relock" => pc[t] = "granted" /\ (c.exclusive => old.exclusive)
               /\ c.then = "upgrade" =>
                      c.exclusive /\ (c.validate => snapshot[t] = MaxSequence)
               /\ ~c.exclusive => \E r \in Requests(t) : r.key = c.key /\ ~r.exclusive
    /\ pc[t] \in Unlocking /\ call[t].then = "invalid" =>
           \A k \in call[t].todo : ~tracked[t][k].locked
    /\ pc[t] \in Unlocking /\ call[t].then = "save_point" =>
           new_locks[t] # NoSavePoint /\ call[t].todo \subseteq new_locks[t]

RequestInv == \A t \in Txns : RequestOk(t)

\* An exclusive lock has one holder.
ExclusiveInv == \A k \in Keys : keys[k].exclusive => \E t \in Txns : keys[k].txn_ids = {t}

\* t is giving up what it tracks of k.
GivesUp(t, k) ==
    /\ pc[t] \in Unlocking /\ call[t].then # "invalid"
    /\ call[t].then = "save_point" => k \in new_locks[t]

\* A transaction that has not lost its locks has what it tracks: the lock, and the
\* certainty that the key has not been written since.
OwnOk(t, k) ==
    txn_state[t] # "LOCKS_STOLEN" =>
        /\ tracked[t][k].locked /\ ~GivesUp(t, k) =>
               /\ t \in keys[k].txn_ids
               /\ tracked[t][k].exclusive => keys[k].exclusive
               /\ written[k] <= tracked[t][k].seq
        /\ pc[t] = "granted" /\ call[t].key = k =>
               /\ t \in keys[k].txn_ids
               /\ call[t].exclusive => keys[k].exclusive

OwnInv == \A t \in Txns, k \in Keys : OwnOk(t, k)

UInv == IInv /\ SeqInv /\ RequestInv /\ ExclusiveInv /\ OwnInv

-----------------------------------------------------------------------------
(* What the steps of the lock manager change. *)

\* How a step takes the call that u is in further: not, on to another attempt, to its
\* failure, to the lock, or on with unlocking.
CallMoves(u) ==
    \/ pc'[u] = pc[u] /\ call'[u] = call[u]
    \/ /\ pc[u] \in Locking /\ pc'[u] \in Locking
       /\ call'[u].key = call[u].key /\ call'[u].exclusive = call[u].exclusive
       /\ call'[u].then = call[u].then /\ call'[u].validate = call[u].validate
    \/ pc[u] \in Locking /\ pc'[u] = "ready"
    \/ pc[u] \in Locking /\ pc'[u] = "granted" /\ call'[u] = call[u]
    \/ /\ pc[u] \in Unlocking /\ pc'[u] \in Unlocking
       /\ call'[u].then = call[u].then /\ call'[u].todo \subseteq call[u].todo

\* t gets k, for itself or to share it with holders that share it too; whoever held it
\* otherwise has lost its locks.
Grants(t, k) ==
    /\ pc[t] \in Locking /\ pc'[t] = "granted" /\ call' = call /\ k = call[t].key
    /\ \/ /\ keys'[k].txn_ids = {t} /\ keys'[k].exclusive = call[t].exclusive
          /\ \A u \in keys[k].txn_ids \ {t} : txn_state'[u] = "LOCKS_STOLEN"
       \/ /\ ~keys[k].exclusive /\ ~call[t].exclusive /\ ~keys'[k].exclusive
          /\ keys'[k].txn_ids = keys[k].txn_ids \cup {t}

\* t unlocks k.
Releases(t, k) ==
    /\ pc[t] = "unlock" /\ k \in call[t].todo
    /\ keys'[k].txn_ids = keys[k].txn_ids \ {t}
    /\ keys'[k].txn_ids # {} => keys'[k].exclusive = keys[k].exclusive
    /\ keys'[k].txn_ids = {} => ~keys'[k].exclusive

\* How a failed attempt moves the call.
LEMMA FailMoves ==
    ASSUME TypeInv, NEW t \in Txns, StealRefused(t) \/ AcquireHeld(t) \/ LimitReached(t)
    PROVE  \A u \in Txns : CallMoves(u)
<1>1. \A u \in Txns \ {t} : pc'[u] = pc[u] /\ call'[u] = call[u]
  BY FailedAttempt
<1>2. pc[t] = "lock" /\ pc'[t] \in {"ready", "decide"}  BY FailedAttempt
<1>3. ASSUME pc'[t] = "decide"
      PROVE  /\ call'[t].key = call[t].key /\ call'[t].exclusive = call[t].exclusive
             /\ call'[t].then = call[t].then /\ call'[t].validate = call[t].validate
  <2> DEFINE info == keys[call[t].key]
             c1 == [call[t] EXCEPT !.hint = 0, !.wait_ids = info.txn_ids, !.busy = FALSE]
             c2 == [call[t] EXCEPT !.hint = info.expiration_time, !.wait_ids = info.txn_ids,
                                   !.busy = FALSE]
             c3 == [call[t] EXCEPT !.busy = TRUE]
             Same(c) == /\ c.key = call[t].key /\ c.exclusive = call[t].exclusive
                        /\ c.then = call[t].then /\ c.validate = call[t].validate
  <2>1. Fail(t, c1) \/ Fail(t, c2) \/ Fail(t, c3)
    BY DEF StealRefused, AcquireHeld, LimitReached
  <2>2. call[t] \in CallInfo  BY DEF TypeInv
  <2>3. Same(c1)  BY <2>2 DEF CallInfo
  <2>4. Same(c2)  BY <2>2 DEF CallInfo
  <2>5. Same(c3)  BY <2>2 DEF CallInfo
  <2> HIDE DEF c1, c2, c3
  <2>6. ASSUME NEW c, Fail(t, c) PROVE call'[t] = c
    BY <1>3, <2>6 DEF Fail, Return, Goto, TypeInv
  <2> QED  BY <2>1, <2>3, <2>4, <2>5, <2>6
<1> QED  BY <1>1, <1>2, <1>3 DEF CallMoves, Locking

\* Every step of the lock manager moves calls like that.
LEMMA LockMoves ==
    ASSUME TypeInv, NEW t \in Txns, LockStep(t)
    PROVE  /\ \A u \in Txns : CallMoves(u)
           /\ \A u \in Txns : txn_state'[u] = txn_state[u] \/ txn_state'[u] = "LOCKS_STOLEN"
           /\ UNCHANGED options
<1> USE DEF Goto, Return, lockVars, txnVars
<1>s. \A u \in Txns : txn_state'[u] = txn_state[u] \/ txn_state'[u] = "LOCKS_STOLEN"
  <2>1. ASSUME NEW V, txn_state' = Stolen(V)
        PROVE  \A u \in Txns : txn_state'[u] = txn_state[u] \/ txn_state'[u] = "LOCKS_STOLEN"
    BY <2>1 DEF Stolen
  <2>2. CASE AcquireExpired(t)  BY <2>1, <2>2 DEF AcquireExpired
  <2>3. CASE StealRefused(t)  BY <2>1, <2>3 DEF StealRefused
  <2> QED
    BY ZenonT(30), <2>2, <2>3 DEF LockStep, Deadline, MutexTimeout, AcquireOwn, AcquireHeld, AcquireShared,
       LimitReached, AcquireFree, Emplace, StartWait, CvTimeout, UnLockStripe, NotifyAll
<1>o. UNCHANGED options
  BY ZenonT(30) DEF LockStep, Deadline, MutexTimeout, AcquireOwn, AcquireExpired, StealRefused, AcquireHeld,
     AcquireShared, LimitReached, AcquireFree, Emplace, StartWait, CvTimeout, UnLockStripe,
     NotifyAll, Attempt
<1> SUFFICES \A u \in Txns : CallMoves(u)  BY <1>s, <1>o
<1> SUFFICES ASSUME NEW u \in Txns PROVE CallMoves(u)  OBVIOUS
<1>c. call[u] \in CallInfo /\ call[t] \in CallInfo  BY DEF TypeInv
<1> USE DEF CallMoves, Locking, Unlocking
<1>1. CASE Deadline(t)  BY <1>1, <1>c DEF Deadline, TypeInv, CallInfo
<1>2. CASE MutexTimeout(t)  BY <1>2 DEF MutexTimeout, TypeInv
<1>3. CASE StealRefused(t) \/ AcquireHeld(t) \/ LimitReached(t)  BY <1>3, FailMoves
<1>4. CASE AcquireOwn(t) \/ AcquireExpired(t) \/ AcquireShared(t) \/ Emplace(t)
  BY <1>4 DEF AcquireOwn, AcquireExpired, AcquireShared, Emplace, Attempt, Lock, TypeInv
<1>5. CASE AcquireFree(t)  BY <1>5 DEF AcquireFree, Attempt, Lock, TypeInv
<1>6. CASE StartWait(t)  BY <1>6 DEF StartWait, TypeInv
<1>7. CASE CvTimeout(t)  BY <1>7, <1>c DEF CvTimeout, TypeInv, CallInfo
<1>8. ASSUME NEW s \in Stripes, UnLockStripe(t, s) PROVE CallMoves(u)
  BY <1>8, <1>c DEF UnLockStripe, TypeInv, CallInfo
<1>9. CASE NotifyAll(t)  BY <1>9, <1>c DEF NotifyAll, TypeInv, CallInfo
<1> QED  BY <1>1, <1>2, <1>3, <1>4, <1>5, <1>6, <1>7, <1>8, <1>9 DEF LockStep

\* The steps that grant a lock.
GrantStep(t) ==
    \/ AcquireOwn(t) \/ AcquireExpired(t) \/ AcquireShared(t) \/ Emplace(t)
    \/ AcquireFree(t) /\ options.max_num_locks = 0

\* They grant the lock that was asked for, and no other.
LEMMA GrantEffect ==
    ASSUME UniformExpiry, IInv, NEW t \in Txns, GrantStep(t)
    PROVE  /\ Grants(t, call[t].key)
           /\ \A k \in Keys \ {call[t].key} : keys'[k] = keys[k]
           /\ \A u \in Txns \ {t} : pc'[u] = pc[u]
<1> DEFINE k == call[t].key
<1>a. TypeInv  BY DEF IInv, HInv
<1>b. k \in Keys /\ keys[k] \in LockInfo /\ keys[k].txn_ids \subseteq Txns
  BY <1>a DEF TypeInv, CallInfo, LockInfo
<1>n. NewLockInfo(t).txn_ids = {t} /\ NewLockInfo(t).exclusive = call[t].exclusive
  BY DEF NewLockInfo
<1>1. /\ pc[t] \in Locking /\ call' = call /\ pc' = [pc EXCEPT ![t] = "granted"]
  BY DEF GrantStep, AcquireOwn, AcquireExpired, AcquireShared, Emplace, AcquireFree, Attempt,
         Lock, Goto, Locking
<1>2. pc'[t] = "granted" /\ \A u \in Txns \ {t} : pc'[u] = pc[u]
  BY <1>a, <1>1 DEF TypeInv
<1>3. ASSUME NEW i, Lock(t, i)
      PROVE  keys'[k] = i /\ \A j \in Keys \ {k} : keys'[j] = keys[j]
  BY <1>a, <1>b, <1>3 DEF Lock, TypeInv
<1>4. ASSUME Lock(t, NewLockInfo(t)),
             \A u \in keys[k].txn_ids \ {t} : txn_state'[u] = "LOCKS_STOLEN"
      PROVE  Grants(t, k) /\ \A j \in Keys \ {k} : keys'[j] = keys[j]
  <2>1. keys'[k] = NewLockInfo(t) /\ \A j \in Keys \ {k} : keys'[j] = keys[j]
    BY <1>3, <1>4
  <2> HIDE DEF k
  <2> QED  BY <1>1, <1>2, <1>4, <1>n, <2>1 DEF Grants, k
<1>5. CASE AcquireOwn(t)
  <2>1. keys[k].txn_ids = {t} /\ Lock(t, NewLockInfo(t))  BY <1>5 DEF AcquireOwn
  <2> QED  BY <1>2, <1>4, <2>1
<1>6. CASE AcquireExpired(t)
  <2>1. Victims(t, keys[k]) = keys[k].txn_ids \ {t}
    BY <1>b, <1>6, VictimsAreHolders DEF AcquireExpired
  <2>2. \A u \in keys[k].txn_ids \ {t} : txn_state'[u] = "LOCKS_STOLEN"
    BY <1>b, <1>6, <2>1 DEF AcquireExpired, Stolen
  <2>3. Lock(t, NewLockInfo(t))  BY <1>6 DEF AcquireExpired
  <2> QED  BY <1>2, <1>4, <2>2, <2>3
<1>7. CASE Emplace(t) \/ (AcquireFree(t) /\ options.max_num_locks = 0)
  <2>1. keys[k].txn_ids = {}
    BY <1>7 DEF AcquireFree, Emplace, IInv, MutexInv, MutexOk
  <2>2. Lock(t, NewLockInfo(t))  BY <1>7 DEF AcquireFree, Emplace
  <2> QED  BY <1>2, <1>4, <2>1, <2>2
<1>8. CASE AcquireShared(t)
  <2> DEFINE i == [keys[k] EXCEPT !.txn_ids = @ \cup {t},
                                  !.expiration_time = Max({@, expiration_time[t]})]
  <2>1. Lock(t, i) /\ ~keys[k].exclusive /\ ~call[t].exclusive
    BY <1>8 DEF AcquireShared, Conflict
  <2>2. i.txn_ids = keys[k].txn_ids \cup {t} /\ i.exclusive = keys[k].exclusive
    BY <1>b DEF LockInfo
  <2> HIDE DEF i
  <2>3. keys'[k] = i /\ \A j \in Keys \ {k} : keys'[j] = keys[j]  BY <1>3, <2>1
  <2> HIDE DEF k
  <2> QED  BY <1>1, <1>2, <2>1, <2>2, <2>3 DEF Grants, k
<1> QED  BY <1>5, <1>6, <1>7, <1>8 DEF GrantStep

\* Every other step of the lock manager leaves a lock alone or releases it, and
\* nobody's TryLock succeeds.
LEMMA NoGrant ==
    ASSUME TypeInv, NEW t \in Txns, LockStep(t), ~GrantStep(t)
    PROVE  /\ \A k \in Keys : keys'[k] = keys[k] \/ Releases(t, k)
           /\ \A u \in Txns : pc'[u] = "granted" => pc[u] = "granted"
<1> USE DEF lockVars, Goto, Return
<1>1. ASSUME NEW s \in Stripes, UnLockStripe(t, s), NEW k \in Keys
      PROVE  keys'[k] = keys[k] \/ Releases(t, k)
  <2>1. /\ pc[t] = "unlock"
        /\ \/ keys'[k] = keys[k]
           \/ /\ k \in call[t].todo /\ t \in keys[k].txn_ids
              /\ keys'[k] = UnLockKey(t, keys[k])
    BY <1>1 DEF UnLockStripe
  <2>2. CASE keys[k].txn_ids = {t}
    BY <2>1, <2>2 DEF UnLockKey, Unlocked, Releases
  <2>3. CASE keys[k].txn_ids # {t}
    <3>1. keys[k] \in LockInfo  BY DEF TypeInv
    <3> QED  BY <2>1, <2>3, <3>1 DEF UnLockKey, LockInfo, Releases
  <2> QED  BY <2>2, <2>3
<1>2. ASSUME NEW s \in Stripes, UnLockStripe(t, s)
      PROVE  \A u \in Txns : pc'[u] = "granted" => pc[u] = "granted"
  BY <1>2 DEF UnLockStripe, TypeInv
<1>3. CASE \/ Deadline(t) \/ MutexTimeout(t) \/ StartWait(t) \/ CvTimeout(t) \/ NotifyAll(t)
  <2>1. UNCHANGED keys
    BY <1>3 DEF Deadline, MutexTimeout, StartWait, CvTimeout, NotifyAll
  <2>2. \A u \in Txns : pc'[u] = "granted" => pc[u] = "granted"
    BY ZenonT(30), <1>3 DEF Deadline, MutexTimeout, StartWait, CvTimeout, NotifyAll, TypeInv
  <2> QED  BY <2>1, <2>2
<1>4. CASE AcquireHeld(t) \/ StealRefused(t) \/ LimitReached(t)
  <2>1. /\ UNCHANGED keys /\ \A u \in Txns \ {t} : pc'[u] = pc[u]
        /\ pc'[t] \in {"ready", "decide"}
    BY <1>4, FailedAttempt
  <2> QED  BY <2>1
<1>5. CASE AcquireFree(t) /\ options.max_num_locks # 0
  BY <1>5 DEF AcquireFree, TypeInv
<1> QED  BY <1>1, <1>2, <1>3, <1>4, <1>5 DEF LockStep, GrantStep

\* Every step of the lock manager leaves a lock alone, grants it or releases it; and
\* TryLock succeeds for whom it is granted to.
LEMMA LockChanges ==
    ASSUME UniformExpiry, IInv, NEW t \in Txns, LockStep(t)
    PROVE  /\ \A k \in Keys : keys'[k] = keys[k] \/ Grants(t, k) \/ Releases(t, k)
           /\ \A u \in Txns : pc'[u] = "granted" /\ pc[u] # "granted" =>
                  u = t /\ Grants(t, call[t].key)
<1>1. CASE GrantStep(t)
  <2>1. Grants(t, call[t].key) /\ \A k \in Keys \ {call[t].key} : keys'[k] = keys[k]
    BY <1>1, GrantEffect
  <2>2. \A u \in Txns \ {t} : pc'[u] = pc[u]  BY <1>1, GrantEffect
  <2> QED  BY <2>1, <2>2
<1>2. CASE ~GrantStep(t)  BY <1>2, NoGrant DEF IInv, HInv
<1> QED  BY <1>1, <1>2

-----------------------------------------------------------------------------
\* The steps of the lock manager keep the invariant.
LEMMA LockStepKeeps ==
    ASSUME UniformExpiry, UInv, NEW t \in Txns, LockStep(t), UNCHANGED <<dbVars, userVars>>
    PROVE  SeqInv' /\ RequestInv' /\ ExclusiveInv' /\ OwnInv'
<1>a. IInv /\ TypeInv  BY DEF UInv, IInv, HInv
<1>u. UNCHANGED <<seq, written, snapshot, tracked, new_locks>>  BY DEF dbVars, userVars
<1>m. /\ \A u \in Txns : CallMoves(u)
      /\ \A u \in Txns : txn_state'[u] = txn_state[u] \/ txn_state'[u] = "LOCKS_STOLEN"
      /\ UNCHANGED options
  BY <1>a, LockMoves
<1>k. /\ \A k \in Keys : keys'[k] = keys[k] \/ Grants(t, k) \/ Releases(t, k)
      /\ \A u \in Txns : pc'[u] = "granted" /\ pc[u] # "granted" =>
             u = t /\ Grants(t, call[t].key)
  BY <1>a, LockChanges
<1>1. SeqInv'  BY <1>u, <1>m DEF UInv, SeqInv
<1>2. RequestInv'
  <2> SUFFICES ASSUME NEW u \in Txns PROVE RequestOk(u)'  BY DEF RequestInv
  <2>1. RequestOk(u) /\ CallMoves(u)  BY <1>m DEF UInv, RequestInv
  <2>2. Requests(u)' = Requests(u)  BY <1>m DEF Requests, Clients
  <2>3. CASE pc'[u] = pc[u] /\ call'[u] = call[u]
    BY ONLY <1>u, <2>1, <2>2, <2>3 DEF RequestOk
  <2>4. CASE /\ pc[u] \in Locking /\ pc'[u] \in Locking
             /\ call'[u].key = call[u].key /\ call'[u].exclusive = call[u].exclusive
             /\ call'[u].then = call[u].then /\ call'[u].validate = call[u].validate
    BY ZenonT(30), <1>u, <2>1, <2>2, <2>4 DEF RequestOk, Locking, Unlocking
  <2>5. CASE pc[u] \in Locking /\ pc'[u] = "ready"
    BY ONLY <1>u, <2>1, <2>2, <2>5 DEF RequestOk, Locking, Unlocking
  <2>6. CASE pc[u] \in Locking /\ pc'[u] = "granted" /\ call'[u] = call[u]
    BY ONLY <1>u, <2>1, <2>2, <2>6 DEF RequestOk, Locking, Unlocking
  <2>7. CASE /\ pc[u] \in Unlocking /\ pc'[u] \in Unlocking
             /\ call'[u].then = call[u].then /\ call'[u].todo \subseteq call[u].todo
    BY ONLY <1>u, <2>1, <2>2, <2>7 DEF RequestOk, Locking, Unlocking
  <2> QED  BY <2>1, <2>3, <2>4, <2>5, <2>6, <2>7 DEF CallMoves
<1>3. ExclusiveInv'
  <2> SUFFICES ASSUME NEW k \in Keys, keys'[k].exclusive
               PROVE  \E u \in Txns : keys'[k].txn_ids = {u}
    BY DEF ExclusiveInv
  <2>1. CASE keys'[k] = keys[k]  BY <2>1 DEF UInv, ExclusiveInv
  <2>2. CASE Grants(t, k)  BY <2>2 DEF Grants
  <2>3. CASE Releases(t, k)
    <3>1. keys[k].exclusive /\ keys'[k].txn_ids # {} /\ keys'[k].txn_ids = keys[k].txn_ids \ {t}
      BY ZenonT(30), <2>3 DEF Releases
    <3> QED  BY <3>1 DEF UInv, ExclusiveInv
  <2> QED  BY <1>k, <2>1, <2>2, <2>3
<1>4. OwnInv'
  <2> SUFFICES ASSUME NEW u \in Txns, NEW k \in Keys, txn_state'[u] # "LOCKS_STOLEN"
               PROVE  OwnOk(u, k)'
    BY DEF OwnInv, OwnOk
  <2>1. OwnOk(u, k) /\ RequestOk(t) /\ txn_state[u] # "LOCKS_STOLEN" /\ CallMoves(u)
    BY <1>m DEF UInv, OwnInv, RequestInv
  <2>2. GivesUp(u, k)' = GivesUp(u, k)
    BY <1>u, <2>1 DEF CallMoves, GivesUp, Locking, Unlocking
  \* What becomes of a lock that u has, in one mode or the other.
  <2>3. ASSUME NEW ex \in BOOLEAN, u \in keys[k].txn_ids, ex => keys[k].exclusive,
               Grants(t, k) /\ u = t => (ex => call[t].exclusive),
               Releases(t, k) => u # t
        PROVE  u \in keys'[k].txn_ids /\ (ex => keys'[k].exclusive)
    <3>1. CASE keys'[k] = keys[k]  BY <2>3, <3>1
    <3>2. CASE Grants(t, k)  BY ZenonT(30), <2>3, <3>2 DEF Grants
    <3>3. CASE Releases(t, k)  BY <2>3, <3>3 DEF Releases
    <3> QED  BY <1>k, <3>1, <3>2, <3>3
  <2>4. ASSUME tracked[u][k].locked, ~GivesUp(u, k)
        PROVE  /\ u \in keys'[k].txn_ids
               /\ tracked[u][k].exclusive => keys'[k].exclusive
               /\ written[k] <= tracked[u][k].seq
    <3>1. /\ u \in keys[k].txn_ids /\ (tracked[u][k].exclusive => keys[k].exclusive)
          /\ written[k] <= tracked[u][k].seq
      BY <2>1, <2>4 DEF OwnOk
    <3>2. tracked[u][k].exclusive \in BOOLEAN  BY <1>a DEF TypeInv, TrackedInfo
    <3>3. Grants(t, k) /\ u = t => call[t].exclusive
      BY ZenonT(30), <2>1, <2>4 DEF Grants, RequestOk, Locking
    <3>4. Releases(t, k) => u # t
      BY <2>1, <2>4 DEF Releases, RequestOk, GivesUp, Unlocking
    <3> QED  BY <2>3, <3>1, <3>2, <3>3, <3>4
  <2>5. ASSUME pc'[u] = "granted", call'[u].key = k
        PROVE  u \in keys'[k].txn_ids /\ (call'[u].exclusive => keys'[k].exclusive)
    <3>1. CASE pc[u] # "granted"
      <4>1. u = t /\ Grants(t, call[t].key)  BY <1>k, <2>5, <3>1
      <4>2. call' = call  BY <4>1 DEF Grants
      <4>3. Grants(t, k)  BY <2>5, <4>1, <4>2
      <4> QED  BY ZenonT(30), <4>1, <4>2, <4>3 DEF Grants
    <3>2. CASE pc[u] = "granted"
      <4>1. call'[u] = call[u]  BY <2>1, <2>5, <3>2 DEF CallMoves, Locking, Unlocking
      <4>2. u \in keys[k].txn_ids /\ (call[u].exclusive => keys[k].exclusive)
        BY <2>1, <2>5, <3>2, <4>1 DEF OwnOk
      <4>3. call[u].exclusive \in BOOLEAN  BY <1>a DEF TypeInv, CallInfo
      <4>4. (Grants(t, k) => u # t) /\ (Releases(t, k) => u # t)
        BY <3>2 DEF Grants, Releases, Locking
      <4> QED  BY <2>3, <4>1, <4>2, <4>3, <4>4
    <3> QED  BY <3>1, <3>2
  <2> QED  BY <1>u, <2>2, <2>4, <2>5 DEF OwnOk
<1> QED  BY <1>1, <1>2, <1>3, <1>4

-----------------------------------------------------------------------------
(* The steps of the transactions. *)

\* A step of the transaction t leaves alone what belongs to others, and stolen locks
\* stay stolen.
LEMMA TxnStepOthers ==
    ASSUME TypeInv, CallInv, NEW t \in Txns, Step(t),
           ~(LockStep(t) /\ UNCHANGED <<dbVars, userVars>>)
    PROVE  /\ \A u \in Txns \ {t} : /\ tracked'[u] = tracked[u] /\ new_locks'[u] = new_locks[u]
                                    /\ snapshot'[u] = snapshot[u] /\ txn_state'[u] = txn_state[u]
           /\ txn_state'[t] = "LOCKS_STOLEN" <=> txn_state[t] = "LOCKS_STOLEN"
<1> DEFINE P == /\ \A u \in Txns \ {t} :
                      /\ tracked'[u] = tracked[u] /\ new_locks'[u] = new_locks[u]
                      /\ snapshot'[u] = snapshot[u] /\ txn_state'[u] = txn_state[u]
                /\ txn_state'[t] = "LOCKS_STOLEN" <=> txn_state[t] = "LOCKS_STOLEN"
<1>c. CallOk(t)  BY DEF CallInv
<1> USE DEF userVars, dbVars, txnVars, State
<1>1. CASE Begin(t)  BY ZenonT(30), <1>1 DEF Begin, TypeInv
<1>2. ASSUME NEW r \in Requests(t), TryLock(t, r.key, r.exclusive, r.validate)  PROVE P
  BY <1>2 DEF TryLock
<1>3. CASE LockGranted(t)  BY ZenonT(30), <1>3 DEF LockGranted, TrackKey, TypeInv
<1>4. CASE SetSavePoint(t)  BY <1>4 DEF SetSavePoint, TypeInv
<1>5. CASE RollbackToSavePoint(t)  BY <1>5 DEF RollbackToSavePoint
<1>6. CASE Prepare(t) \/ Commit(t)  BY <1>6 DEF Prepare, Commit, CheckExpired
<1>7. CASE PrepareState(t)  BY <1>7 DEF PrepareState, TypeInv
<1>8. CASE PrepareInternal(t)  BY <1>8, <1>c DEF PrepareInternal, CallOk, TypeInv
<1>9. CASE CommitState(t)  BY <1>9 DEF CommitState, TypeInv
<1>10. CASE CommitInternal(t)  BY <1>10 DEF CommitInternal
<1>11. CASE Rollback(t)  BY <1>11 DEF Rollback, TypeInv
<1>12. CASE RollbackInternal(t)  BY <1>12 DEF RollbackInternal
<1>13. CASE Destroy(t)  BY <1>13 DEF Destroy
<1>14. CASE UnLocked(t)
  <2>1. \A u \in Txns \ {t} : /\ tracked'[u] = tracked[u] /\ new_locks'[u] = new_locks[u]
                              /\ snapshot'[u] = snapshot[u]
    BY <1>14 DEF UnLocked, TypeInv
  <2>2. CASE call[t].then = "committed"
    BY <1>14, <1>c, <2>1, <2>2 DEF UnLocked, CallOk, Unlocking, TypeInv
  <2>3. CASE call[t].then = "rolledback"
    BY <1>14, <1>c, <2>1, <2>3 DEF UnLocked, CallOk, Unlocking, TypeInv
  <2>4. CASE call[t].then \notin {"committed", "rolledback"}
    BY <1>14, <2>1, <2>4 DEF UnLocked
  <2> QED  BY <2>2, <2>3, <2>4
<1> QED
  BY ZenonT(30), <1>1, <1>2, <1>3, <1>4, <1>5, <1>6, <1>7, <1>8, <1>9, <1>10, <1>11, <1>12, <1>13, <1>14
  DEF Step

\* A transaction in no call needs only the requests of the locks it shares.
LEMMA RequestIdle ==
    ASSUME NEW t \in Txns, pc'[t] \notin Locking \cup Unlocking \cup {"granted"},
           Requests(t)' = Requests(t),
           \A k \in Keys : tracked'[t][k].locked /\ ~tracked'[t][k].exclusive =>
               \E r \in Requests(t) : r.key = k /\ ~r.exclusive
    PROVE  RequestOk(t)'
<1>1. pc'[t] \notin Locking \cup {"granted"} /\ pc'[t] \notin Unlocking  OBVIOUS
<1> QED  BY <1>1 DEF RequestOk

\* Nor does what a transaction asks for depend on anything but its own state.
LEMMA RequestSame ==
    ASSUME NEW u \in Txns, RequestOk(u), UNCHANGED options, pc'[u] = pc[u],
           call'[u] = call[u], tracked'[u] = tracked[u], snapshot'[u] = snapshot[u],
           new_locks'[u] = new_locks[u]
    PROVE  RequestOk(u)'
<1>1. Requests(u)' = Requests(u)  BY DEF Requests, Clients
<1>2. \A k \in Keys : tracked'[u][k].locked /\ ~tracked'[u][k].exclusive =>
          \E r \in Requests(u)' : r.key = k /\ ~r.exclusive
  <2>1. \A k \in Keys : tracked[u][k].locked /\ ~tracked[u][k].exclusive =>
            \E r \in Requests(u) : r.key = k /\ ~r.exclusive
    BY ONLY RequestOk(u), ZenonT(30) DEF RequestOk
  <2>2. tracked'[u] = tracked[u]  OBVIOUS
  <2> QED  BY ONLY <1>1, <2>1, <2>2
<1>3. ASSUME pc'[u] \in Locking \cup {"granted"}
      PROVE  LET c == call'[u]
                 old == tracked'[u][c.key]
             IN  /\ c.then \in {"lock", "upgrade", "relock"}
                 /\ c.then = "lock" => ~old.locked
                 /\ c.then = "relock" => pc'[u] = "granted" /\ (c.exclusive => old.exclusive)
                 /\ c.then = "upgrade" =>
                        c.exclusive /\ (c.validate => snapshot'[u] = MaxSequence)
                 /\ ~c.exclusive => \E r \in Requests(u)' : r.key = c.key /\ ~r.exclusive
  BY <1>1, <1>3 DEF RequestOk
<1>4. pc'[u] \in Unlocking /\ call'[u].then = "invalid" =>
          \A k \in call'[u].todo : ~tracked'[u][k].locked
  BY DEF RequestOk
<1>5. pc'[u] \in Unlocking /\ call'[u].then = "save_point" =>
          new_locks'[u] # NoSavePoint /\ call'[u].todo \subseteq new_locks'[u]
  BY DEF RequestOk
<1> QED  BY <1>2, <1>3, <1>4, <1>5, ZenonT(30) DEF RequestOk

\* What t knows survives a step that changes neither what it tracks nor the database,
\* and after which t is not in a call, or has the same locks to give back as before.
LEMMA OwnKept ==
    ASSUME TypeInv, NEW t \in Txns, RequestOk(t), \A k \in Keys : OwnOk(t, k),
           UNCHANGED <<options, keys, written, tracked>>,
           txn_state'[t] = "LOCKS_STOLEN" <=> txn_state[t] = "LOCKS_STOLEN",
           pc[t] \notin Unlocking,
           pc'[t] \notin Locking \cup Unlocking \cup {"granted"}
    PROVE  RequestOk(t)' /\ \A k \in Keys : OwnOk(t, k)'
<1>1. Requests(t)' = Requests(t)  BY DEF Requests, Clients
<1>2. RequestOk(t)'
  <2>1. \A k \in Keys : tracked'[t][k].locked /\ ~tracked'[t][k].exclusive =>
              \E r \in Requests(t) : r.key = k /\ ~r.exclusive
    BY ZenonT(30) DEF RequestOk
  <2> QED  BY <1>1, <2>1, RequestIdle
<1>3. \A k \in Keys : ~GivesUp(t, k)  BY DEF GivesUp
<1> QED  BY <1>2, <1>3 DEF OwnOk

\* The same when t goes on to unlock everything it has.
LEMMA OwnGivenUp ==
    ASSUME TypeInv, NEW t \in Txns, RequestOk(t),
           UNCHANGED <<options, tracked>>,
           pc'[t] \in Unlocking,
           call'[t].then \notin {"invalid", "save_point"}
    PROVE  RequestOk(t)' /\ \A k \in Keys : OwnOk(t, k)'
<1>1. Requests(t)' = Requests(t)  BY DEF Requests, Clients
<1>2. RequestOk(t)'
  <2>1. \A k \in Keys : tracked'[t][k].locked /\ ~tracked'[t][k].exclusive =>
              \E r \in Requests(t) : r.key = k /\ ~r.exclusive
    BY ZenonT(30) DEF RequestOk
  <2>2. pc'[t] \notin Locking \cup {"granted"}  BY DEF Locking, Unlocking
  <2>3. call'[t].then # "invalid" /\ call'[t].then # "save_point"  OBVIOUS
  <2> QED  BY ONLY <1>1, <2>1, <2>2, <2>3, SMTT(30), ZenonT(30) DEF RequestOk
<1>3. \A k \in Keys : GivesUp(t, k)'  BY DEF GivesUp
<1> QED  BY <1>2, <1>3 DEF OwnOk, Unlocking

\* What t asks for comes from its requests.
LEMMA TryLockKeeps ==
    ASSUME NoValidatedUpgrade, UInv, NEW t \in Txns, NEW r \in Requests(t),
           TryLock(t, r.key, r.exclusive, r.validate)
    PROVE  SeqInv' /\ RequestOk(t)' /\ \A k \in Keys : OwnOk(t, k)'
<1> DEFINE k0 == r.key
           i == tracked[t][k0]
           upgrade == i.locked /\ r.exclusive /\ ~i.exclusive
           then == IF upgrade THEN "upgrade" ELSE IF i.locked THEN "relock" ELSE "lock"
           c == [[NoCall EXCEPT !.validate = r.validate, !.then = then]
                     EXCEPT !.key = k0, !.exclusive = r.exclusive]
<1>a. TypeInv /\ SeqInv /\ RequestOk(t) /\ \A k \in Keys : OwnOk(t, k)
  BY DEF UInv, IInv, HInv, RequestInv, OwnInv
<1>r. /\ t \in Clients /\ k0 \in Keys /\ r.exclusive \in BOOLEAN /\ r.validate \in BOOLEAN
      /\ r \in options.txn[t].requests
  <2>1. t \in Clients /\ r \in options.txn[t].requests  BY DEF Requests
  <2> QED  BY <1>a, <2>1, OptionTypes
<1>1. /\ pc[t] = "ready" /\ call' = [call EXCEPT ![t] = c]
      /\ IF i.locked /\ ~upgrade THEN pc' = [pc EXCEPT ![t] = "granted"]
         ELSE pc' = [pc EXCEPT ![t] = "lock"]
      /\ UNCHANGED <<options, keys, txn_state, seq, written, snapshot, tracked, new_locks>>
  BY DEF TryLock, CallTryLock, Goto, lockVars, txnVars, dbVars
<1>2. /\ c.key = k0 /\ c.exclusive = r.exclusive /\ c.then = then /\ c.validate = r.validate
  BY DEF NoCall
<1>3. SeqInv'  BY <1>a, <1>1 DEF SeqInv
<1> HIDE DEF c
<1>4. call'[t] = c /\ pc'[t] = (IF i.locked /\ ~upgrade THEN "granted" ELSE "lock")
  BY <1>a, <1>1 DEF TypeInv
<1>5. Requests(t)' = Requests(t)  BY <1>1 DEF Requests, Clients
<1>6. ASSUME upgrade, r.validate PROVE snapshot[t] = MaxSequence
  <2>1. PICK q \in Requests(t) : q.key = k0 /\ ~q.exclusive
    BY ZenonT(30), <1>a, <1>r, <1>6 DEF RequestOk
  <2>2. q \in options.txn[t].requests  BY ZenonT(30), <2>1, <1>r DEF Requests
  <2>3. ~options.txn[t].set_snapshot
    BY ZenonT(30), <1>a, <1>r, <1>6, <2>1, <2>2 DEF NoValidatedUpgrade, TypeInv, Clients
  <2> QED  BY <1>a, <2>3 DEF SeqInv
<1>7. RequestOk(t)'
  <2>1. \A k \in Keys : tracked'[t][k].locked /\ ~tracked'[t][k].exclusive =>
            \E q \in Requests(t)' : q.key = k /\ ~q.exclusive
    <3>1. tracked' = tracked  BY <1>1
    <3>2. \A k \in Keys : tracked[t][k].locked /\ ~tracked[t][k].exclusive =>
              \E q \in Requests(t) : q.key = k /\ ~q.exclusive
      BY <1>a, ZenonT(30) DEF RequestOk
    <3> QED  BY <1>5, <3>1, <3>2
  <2>2. /\ then \in {"lock", "upgrade", "relock"}
        /\ then = "lock" => ~i.locked
        /\ then = "relock" => pc'[t] = "granted" /\ (r.exclusive => i.exclusive)
        /\ then = "upgrade" => r.exclusive /\ (r.validate => snapshot[t] = MaxSequence)
    BY <1>4, <1>6
  <2>3. pc'[t] \notin Unlocking  BY <1>4 DEF Unlocking
  <2>4. ~r.exclusive => \E q \in Requests(t)' : q.key = k0 /\ ~q.exclusive  BY <1>5
  <2> HIDE DEF then
  <2>5. LET d == call'[t]
            old == tracked'[t][d.key]
        IN  /\ d.then \in {"lock", "upgrade", "relock"}
            /\ d.then = "lock" => ~old.locked
            /\ d.then = "relock" => pc'[t] = "granted" /\ (d.exclusive => old.exclusive)
            /\ d.then = "upgrade" =>
                   d.exclusive /\ (d.validate => snapshot'[t] = MaxSequence)
            /\ ~d.exclusive => \E q \in Requests(t)' : q.key = d.key /\ ~q.exclusive
    <3>1. tracked' = tracked /\ snapshot' = snapshot /\ call'[t] = c  BY <1>1, <1>4
    <3> QED  BY <1>2, <2>2, <2>4, <3>1
  <2> QED  BY <2>1, <2>3, <2>5, ZenonT(30) DEF RequestOk
<1>8. ASSUME NEW k \in Keys PROVE OwnOk(t, k)'
  <2>1. ~GivesUp(t, k) /\ ~GivesUp(t, k)'  BY <1>1, <1>4 DEF GivesUp, Unlocking
  <2>2. pc'[t] = "granted" => i.locked /\ (r.exclusive => i.exclusive)  BY <1>4
  <2> QED  BY ZenonT(30), <1>a, <1>1, <1>2, <1>4, <2>1, <2>2 DEF OwnOk
<1> QED  BY <1>3, <1>7, <1>8

\* What t tracks from then on holds, when its lock is there and validated.
LEMMA LockGrantedKeeps ==
    ASSUME UInv, NEW t \in Txns, LockGranted(t)
    PROVE  SeqInv' /\ RequestOk(t)' /\ \A k \in Keys : OwnOk(t, k)'
<1> DEFINE c == call[t]
           k0 == c.key
           i == tracked[t][k0]
           checks == c.validate /\ snapshot[t] # MaxSequence
           since == IF checks THEN Min({i.seq, snapshot[t]}) ELSE Min({i.seq, seq})
           j == [locked |-> TRUE, exclusive |-> i.exclusive \/ c.exclusive,
                 seq |-> Min({i.seq, since})]
<1>a. TypeInv /\ SeqInv /\ RequestOk(t) /\ \A k \in Keys : OwnOk(t, k)
  BY DEF UInv, IInv, HInv, RequestInv, OwnInv
<1>t. /\ k0 \in Keys /\ i.seq \in Int /\ snapshot[t] \in Int /\ seq \in Int
      /\ written[k0] \in Int /\ MaxSequence \in Int
      /\ i.exclusive \in BOOLEAN /\ i.locked \in BOOLEAN /\ c.exclusive \in BOOLEAN
  BY ONLY <1>a, SequenceAssumption DEF TypeInv, CallInfo, TrackedInfo, SeqInv
<1>f. UNCHANGED <<options, keys, txn_state, seq, written, snapshot>>
  BY DEF LockGranted, lockVars, txnVars, dbVars
<1>g. pc[t] = "granted" /\ c.then \in {"lock", "upgrade", "relock"}
  BY <1>a DEF LockGranted, RequestOk
<1>q. Requests(t)' = Requests(t)  BY <1>f DEF Requests, Clients
<1>o. \A k \in Keys : ~GivesUp(t, k)  BY ZenonT(30), <1>g DEF GivesUp, Unlocking
<1>1. CASE (checks => Validated(t)) /\ tracked' = [tracked EXCEPT ![t][k0] = j] /\ Return(t)
  <2>1. pc'[t] = "ready"  BY <1>a, <1>1 DEF Return, Goto, TypeInv
  <2>2. tracked'[t][k0] = j /\ \A k \in Keys \ {k0} : tracked'[t][k] = tracked[t][k]
    BY ZenonT(30), <1>a, <1>t, <1>1 DEF TypeInv
  <2>3. \A u \in Txns \ {t} : tracked'[u] = tracked[u]  BY <1>a, <1>1 DEF TypeInv
  <2>j. j.locked /\ (j.exclusive <=> i.exclusive \/ c.exclusive) /\ j.seq = Min({i.seq, since})
    BY ZenonT(30)
  <2>4. SeqInv'
    <3>1. ASSUME NEW u \in Txns, NEW k \in Keys, ~tracked'[u][k].locked
          PROVE  tracked'[u][k].seq = MaxSequence /\ ~tracked'[u][k].exclusive
      <4>1. ~(u = t /\ k = k0)  BY ZenonT(30), <2>2, <2>j, <3>1
      <4>2. tracked'[u][k] = tracked[u][k]  BY ZenonT(30), <2>2, <2>3, <4>1
      <4> QED  BY ZenonT(30), <1>a, <3>1, <4>2 DEF SeqInv
    <3> QED  BY ZenonT(30), <1>a, <1>f, <3>1 DEF SeqInv
  <2>5. RequestOk(t)'
    <3>1. ~c.exclusive => \E r \in Requests(t) : r.key = k0 /\ ~r.exclusive
      BY <1>a, <1>g DEF RequestOk
    <3>2. ASSUME NEW k \in Keys, tracked'[t][k].locked, ~tracked'[t][k].exclusive
          PROVE  \E r \in Requests(t) : r.key = k /\ ~r.exclusive
      <4>1. CASE k = k0
        <5>1. ~c.exclusive  BY ZenonT(30), <2>2, <2>j, <3>2, <4>1
        <5> QED  BY <3>1, <4>1, <5>1
      <4>2. CASE k # k0
        <5>1. tracked'[t][k] = tracked[t][k]  BY ZenonT(30), <2>2, <4>2
        <5> QED  BY ZenonT(30), <1>a, <3>2, <5>1 DEF RequestOk
      <4> QED  BY <4>1, <4>2
    <3>3. pc'[t] \notin Locking \cup Unlocking \cup {"granted"}
      BY <2>1 DEF Locking, Unlocking
    <3> QED  BY <1>q, <3>2, <3>3, RequestIdle
  <2>6. ASSUME txn_state[t] # "LOCKS_STOLEN" PROVE written[k0] <= j.seq
    <3>1. written[k0] <= i.seq
      <4>1. CASE i.locked  BY <1>a, <1>t, <1>o, <2>6, <4>1 DEF OwnOk
      <4>2. CASE ~i.locked
        <5>1. i.seq = MaxSequence /\ written[k0] <= seq /\ seq < MaxSequence
          BY <1>a, <1>t, <4>2 DEF SeqInv
        <5> QED  BY ONLY <1>t, <5>1
      <4> QED  BY ZenonT(30), <4>1, <4>2
    <3>2. written[k0] <= since /\ since \in Int
      <4>1. CASE checks
        <5>1. Min({i.seq, snapshot[t]}) \in {i.seq, snapshot[t]}  BY ZenonT(30), <1>t, MaxMinOfTwo
        <5>2. i.seq <= snapshot[t] \/ written[k0] <= snapshot[t]
          BY <1>1, <4>1 DEF Validated
        <5>3. written[k0] <= snapshot[t]  BY ONLY <1>t, <3>1, <5>2
        <5>4. since = Min({i.seq, snapshot[t]})  BY <4>1
        <5> HIDE DEF since
        <5> QED  BY <1>t, <3>1, <5>1, <5>3, <5>4
      <4>2. CASE ~checks
        <5>1. Min({i.seq, seq}) \in {i.seq, seq}  BY ZenonT(30), <1>t, MaxMinOfTwo
        <5>2. written[k0] <= seq  BY ZenonT(30), <1>a, <1>t DEF SeqInv
        <5>4. since = Min({i.seq, seq})  BY <4>2
        <5> HIDE DEF since
        <5> QED  BY <1>t, <3>1, <5>1, <5>2, <5>4
      <4> QED  BY ZenonT(30), <4>1, <4>2
    <3> HIDE DEF since
    <3>3. Min({i.seq, since}) \in {i.seq, since}  BY ZenonT(30), <1>t, <3>2, MaxMinOfTwo
    <3> QED  BY ZenonT(30), <1>t, <2>j, <3>1, <3>2, <3>3
  <2> HIDE DEF j
  <2>7. ASSUME NEW k \in Keys PROVE OwnOk(t, k)'
    <3> SUFFICES ASSUME txn_state[t] # "LOCKS_STOLEN", tracked'[t][k].locked
                 PROVE  /\ t \in keys[k].txn_ids
                        /\ tracked'[t][k].exclusive => keys[k].exclusive
                        /\ written[k] <= tracked'[t][k].seq
      BY <1>f, <2>1 DEF OwnOk
    <3>1. CASE k = k0
      <4>1. t \in keys[k0].txn_ids /\ (c.exclusive => keys[k0].exclusive)
        BY ZenonT(30), <1>a, <1>t, <1>g DEF OwnOk
      <4>2. i.locked /\ i.exclusive => keys[k0].exclusive
        BY <1>a, <1>t, <1>o DEF OwnOk
      <4>3. i.exclusive => i.locked  BY ZenonT(30), <1>a, <1>t DEF SeqInv
      <4> QED  BY ZenonT(30), <2>2, <2>6, <2>j, <3>1, <4>1, <4>2, <4>3
    <3>2. CASE k # k0  BY <1>a, <1>o, <2>2, <3>2 DEF OwnOk
    <3> QED  BY ZenonT(30), <3>1, <3>2
  <2> QED  BY <2>4, <2>5, <2>7
<1>2. CASE c.then = "lock" /\ CallUnLock(t, {k0}, [c EXCEPT !.then = "invalid"]) /\ UNCHANGED tracked
  <2> DEFINE d == [[c EXCEPT !.then = "invalid"] EXCEPT !.todo = {k0}]
  <2>1. d.then = "invalid" /\ d.todo = {k0}  BY <1>a DEF TypeInv, CallInfo
  <2>2. call' = [call EXCEPT ![t] = d] /\ pc' = [pc EXCEPT ![t] = "unlock"]
    BY ZenonT(30), <1>2 DEF CallUnLock, Goto
  <2> HIDE DEF d
  <2>3. call'[t] = d /\ pc'[t] = "unlock"  BY <1>a, <2>2 DEF TypeInv
  <2>4. ~i.locked  BY <1>a, <1>g, <1>2 DEF RequestOk
  <2>5. SeqInv'  BY <1>a, <1>f, <1>2 DEF SeqInv
  <2>6. RequestOk(t)'  BY <1>a, <1>q, <1>2, <2>1, <2>3, <2>4 DEF RequestOk, Locking
  <2>7. \A k \in Keys : OwnOk(t, k)'  BY <1>a, <1>f, <1>o, <1>2, <2>1, <2>3 DEF OwnOk
  <2> QED  BY <2>5, <2>6, <2>7
<1>3. CASE Return(t) /\ UNCHANGED tracked
  <2>1. pc'[t] = "ready"  BY <1>a, <1>3 DEF Return, Goto, TypeInv
  <2>2. pc[t] \notin Unlocking /\ pc'[t] \notin Locking \cup Unlocking \cup {"granted"}
    BY <1>g, <2>1 DEF Locking, Unlocking
  <2>3. SeqInv'  BY ZenonT(30), <1>a, <1>f, <1>3 DEF SeqInv
  <2> QED  BY <1>a, <1>f, <1>3, <2>2, <2>3, OwnKept
<1>4. ~(c.then = "upgrade" /\ checks)
  BY <1>a, <1>g DEF RequestOk
<1> QED
  BY ZenonT(30), <1>1, <1>2, <1>3, <1>4, <1>g DEF LockGranted, TrackKey

\* UnLock gave back exactly the locks that t forgets now.
LEMMA UnLockedKeeps ==
    ASSUME UInv, NEW t \in Txns, UnLocked(t)
    PROVE  SeqInv' /\ RequestOk(t)' /\ \A k \in Keys : OwnOk(t, k)'
<1> DEFINE then == call[t].then
           gone == IF then = "invalid" THEN {} ELSE
                   IF then = "save_point" THEN new_locks[t] ELSE Keys
           kept == [k \in Keys |-> IF k \in gone THEN Untracked ELSE tracked[t][k]]
<1>a. TypeInv /\ CallOk(t) /\ SeqInv /\ RequestOk(t) /\ \A k \in Keys : OwnOk(t, k)
  BY DEF UInv, IInv, HInv, CallInv, RequestInv, OwnInv
<1>1. /\ UNCHANGED <<options, keys, seq, written, snapshot>>
      /\ tracked' = [tracked EXCEPT ![t] = kept]
      /\ pc' = [pc EXCEPT ![t] = IF then = "destroy" THEN "dead" ELSE "ready"]
      /\ pc[t] = "unlocked"
  BY DEF UnLocked, lockVars, dbVars, Goto
<1>2. pc'[t] \in {"ready", "dead"}  BY <1>a, <1>1 DEF TypeInv
<1>3. \A k \in Keys : tracked'[t][k] = IF k \in gone THEN Untracked ELSE tracked[t][k]
  BY <1>a, <1>1 DEF TypeInv
<1>4. \A u \in Txns \ {t} : tracked'[u] = tracked[u]  BY <1>a, <1>1 DEF TypeInv
<1>5. \A k \in Keys : k \in gone <=> GivesUp(t, k)
  BY <1>1 DEF GivesUp, Unlocking
<1>6. txn_state'[t] # "LOCKS_STOLEN" => txn_state[t] # "LOCKS_STOLEN"
  <2>1. CASE then = "committed"  BY <1>a, <1>1, <2>1 DEF CallOk, Unlocking
  <2>2. CASE then = "rolledback"  BY <1>a, <1>1, <2>2 DEF CallOk, Unlocking
  <2>3. CASE then \notin {"committed", "rolledback"}  BY <2>3 DEF UnLocked
  <2> QED  BY <2>1, <2>2, <2>3
<1> HIDE DEF gone, kept
<1>u. ~Untracked.locked /\ Untracked.seq = MaxSequence /\ ~Untracked.exclusive
  BY DEF Untracked
<1>7. SeqInv'
  <2>1. ASSUME NEW u \in Txns, NEW k \in Keys, ~tracked'[u][k].locked
        PROVE  tracked'[u][k].seq = MaxSequence /\ ~tracked'[u][k].exclusive
    <3>1. CASE tracked'[u][k] = Untracked  BY <1>u, <3>1
    <3>2. CASE tracked'[u][k] = tracked[u][k]  BY <1>a, <2>1, <3>2 DEF SeqInv
    <3> QED  BY <1>3, <1>4, <3>1, <3>2
  <2> QED  BY ZenonT(30), <1>a, <1>1, <2>1 DEF SeqInv
<1>8. RequestOk(t)'
  <2>1. Requests(t)' = Requests(t)  BY <1>1 DEF Requests, Clients
  <2>2. \A k \in Keys : tracked'[t][k].locked /\ ~tracked'[t][k].exclusive =>
            \E r \in Requests(t) : r.key = k /\ ~r.exclusive
    BY ZenonT(30), <1>a, <1>3, <1>u DEF RequestOk
  <2>3. pc'[t] \notin Locking \cup Unlocking \cup {"granted"}
    BY <1>2 DEF Locking, Unlocking
  <2> QED  BY <2>1, <2>2, <2>3, RequestIdle
<1>9. ASSUME NEW k \in Keys PROVE OwnOk(t, k)'
  <2>1. tracked'[t][k].locked => ~GivesUp(t, k) /\ tracked'[t][k] = tracked[t][k]
    BY <1>3, <1>5, <1>u
  <2> QED  BY ZenonT(30), <1>a, <1>1, <1>2, <1>6, <2>1 DEF OwnOk
<1> QED  BY <1>7, <1>8, <1>9

\* The write: t has every key it writes for itself, so no other transaction that still
\* has its locks tracks one of them.
LEMMA WriteKeeps ==
    ASSUME UInv, NEW t \in Txns, pc[t] = "write", UNCHANGED <<options, snapshot, tracked, keys>>,
           seq + 1 < MaxSequence, seq' = seq + 1,
           written' = [k \in Keys |-> IF k \in Writes(t) THEN seq + 1 ELSE written[k]],
           NEW u \in Txns \ {t}, pc'[u] = pc[u], call'[u] = call[u],
           new_locks'[u] = new_locks[u], txn_state'[u] = txn_state[u]
    PROVE  \A k \in Keys : OwnOk(u, k)'
<1> SUFFICES ASSUME NEW k \in Keys PROVE OwnOk(u, k)'  OBVIOUS
<1>1. /\ OwnOk(t, k) /\ OwnOk(u, k) /\ CallOk(t)
      /\ keys[k].exclusive => \E v \in Txns : keys[k].txn_ids = {v}
  BY DEF UInv, IInv, HInv, CallInv, OwnInv, ExclusiveInv
<1>2. GivesUp(u, k)' = GivesUp(u, k)  BY ZenonT(30) DEF GivesUp
<1>3. CASE k \notin Writes(t)
  <2>1. written'[k] = written[k]  BY <1>3
  <2> QED  BY ZenonT(30), <1>1, <1>2, <2>1 DEF OwnOk
<1>4. CASE k \in Writes(t)
  <2>1. tracked[t][k].locked /\ tracked[t][k].exclusive  BY ZenonT(30), <1>4 DEF Writes, Tracked
  <2>2. txn_state[t] = "AWAITING_COMMIT" /\ ~GivesUp(t, k)
    BY <1>1 DEF CallOk, GivesUp, Unlocking
  <2>3. t \in keys[k].txn_ids /\ keys[k].exclusive  BY ZenonT(30), <1>1, <2>1, <2>2 DEF OwnOk
  <2>4. u \notin keys[k].txn_ids  BY <1>1, <2>3
  <2> QED  BY ZenonT(30), <1>1, <1>2, <2>4 DEF OwnOk
<1> QED  BY <1>3, <1>4

\* Nothing else of t's own steps touches what it tracks.
LEMMA OwnStepKeeps ==
    ASSUME NoValidatedUpgrade, UInv, NEW t \in Txns, Step(t),
           ~(LockStep(t) /\ UNCHANGED <<dbVars, userVars>>)
    PROVE  SeqInv' /\ RequestOk(t)' /\ \A k \in Keys : OwnOk(t, k)'
<1> DEFINE P == SeqInv' /\ RequestOk(t)' /\ \A k \in Keys : OwnOk(t, k)'
<1>a. TypeInv /\ CallInv /\ SeqInv /\ RequestOk(t) /\ \A k \in Keys : OwnOk(t, k)
  BY DEF UInv, IInv, HInv, RequestInv, OwnInv
<1>b. UNCHANGED <<options, keys>>  BY <1>a, TxnStepFrame
<1>s. txn_state'[t] = "LOCKS_STOLEN" <=> txn_state[t] = "LOCKS_STOLEN"
  BY <1>a, TxnStepOthers
<1>k. ASSUME UNCHANGED <<written, tracked>>, pc[t] \notin Unlocking,
             pc'[t] \notin Locking \cup Unlocking \cup {"granted"}
      PROVE  RequestOk(t)' /\ \A k \in Keys : OwnOk(t, k)'
  BY <1>a, <1>b, <1>s, <1>k, OwnKept
<1>g. ASSUME UNCHANGED tracked, NEW then, then \notin {"invalid", "save_point"},
             CallUnLock(t, Tracked(t), [NoCall EXCEPT !.then = then])
      PROVE  RequestOk(t)' /\ \A k \in Keys : OwnOk(t, k)'
  <2> DEFINE c == [[NoCall EXCEPT !.then = then] EXCEPT !.todo = Tracked(t)]
  <2>1. c.then = then  BY DEF NoCall
  <2>2. /\ call' = [call EXCEPT ![t] = c]
        /\ pc' = [pc EXCEPT ![t] = IF Tracked(t) = {} THEN "unlocked" ELSE "unlock"]
    BY <1>g DEF CallUnLock, Goto
  <2> HIDE DEF c
  <2>3. call'[t].then = then /\ pc'[t] \in {"unlocked", "unlock"}
    BY <1>a, <2>1, <2>2 DEF TypeInv
  <2>4. pc'[t] \in Unlocking /\ call'[t].then \notin {"invalid", "save_point"}
    BY <1>g, <2>3 DEF Unlocking
  <2> QED  BY <1>a, <1>b, <1>g, <2>4, OwnGivenUp
<1>q. ASSUME UNCHANGED <<seq, written, snapshot, tracked>> PROVE SeqInv'
  BY <1>a, <1>b, <1>q DEF SeqInv
<1>d. ASSUME UNCHANGED dbVars, UNCHANGED userVars
      PROVE  UNCHANGED <<seq, written, snapshot, tracked>>
  BY <1>d DEF dbVars, userVars
<1>1. CASE Begin(t)
  <2>1. /\ pc[t] = "new" /\ t \in Clients /\ pc'[t] = "ready"
        /\ UNCHANGED <<seq, written, tracked>>
        /\ snapshot' = [snapshot EXCEPT
               ![t] = IF options.txn[t].set_snapshot THEN seq ELSE MaxSequence]
    BY ZenonT(30), <1>a, <1>1 DEF Begin, Goto, dbVars, TypeInv
  <2>2. /\ \A u \in Txns \ {t} : snapshot'[u] = snapshot[u]
        /\ snapshot'[t] = IF options.txn[t].set_snapshot THEN seq ELSE MaxSequence
    BY ZenonT(30), <1>a, <2>1 DEF TypeInv
  <2>3. SeqInv'
    <3>1. ASSUME NEW u \in Txns, snapshot'[u] # MaxSequence
          PROVE  snapshot'[u] <= seq /\ options.txn[u].set_snapshot
      <4>1. CASE u = t
        <5>1. seq \in Nat  BY ZenonT(30), <1>a DEF SeqInv
        <5> QED  BY <2>2, <3>1, <4>1, <5>1
      <4>2. CASE u # t
        <5>1. snapshot'[u] = snapshot[u]  BY <2>2, <4>2
        <5> QED  BY <1>a, <3>1, <5>1 DEF SeqInv
      <4> QED  BY <4>1, <4>2
    <3> QED  BY ZenonT(30), <1>a, <1>b, <2>1, <3>1 DEF SeqInv
  <2> QED  BY ZenonT(30), <1>k, <2>1, <2>3 DEF Locking, Unlocking
<1>2. ASSUME NEW r \in Requests(t), TryLock(t, r.key, r.exclusive, r.validate)  PROVE P
  BY <1>2, TryLockKeeps
<1>3. CASE LockGranted(t)  BY <1>3, LockGrantedKeeps
<1>4. CASE SetSavePoint(t)
  <2>1. pc[t] = "ready" /\ pc'[t] = "ready" /\ UNCHANGED <<seq, written, snapshot, tracked>>
    BY <1>4 DEF SetSavePoint, dbVars
  <2> QED  BY <1>k, <1>q, <2>1 DEF Locking, Unlocking
<1>5. CASE RollbackToSavePoint(t)
  <2>1. /\ new_locks[t] \in SUBSET Keys /\ pc[t] = "ready" /\ new_locks[t] # NoSavePoint
        /\ CallUnLock(t, new_locks[t], [NoCall EXCEPT !.then = "save_point"])
        /\ UNCHANGED <<seq, written, snapshot, tracked, new_locks>>
    BY <1>a, <1>5 DEF RollbackToSavePoint, TypeInv, userVars, dbVars
  <2>2. /\ pc'[t] \in {"unlock", "unlocked"}
        /\ call'[t].todo = new_locks[t] /\ call'[t].then = "save_point"
    BY ZenonT(30), <1>a, <2>1, UnLockCalled
  <2>3. Requests(t)' = Requests(t)  BY <1>b DEF Requests, Clients
  <2>4. RequestOk(t)'  BY <1>a, <2>1, <2>2, <2>3 DEF RequestOk, Locking, Unlocking
  <2>5. \A k \in Keys : ~GivesUp(t, k)  BY <2>1 DEF GivesUp, Unlocking
  <2>6. \A k \in Keys : OwnOk(t, k)'  BY <1>a, <1>b, <1>s, <2>1, <2>2, <2>5 DEF OwnOk
  <2> QED  BY <1>q, <2>1, <2>4, <2>6
<1>6. CASE Prepare(t) \/ Commit(t)
  <2>1. pc[t] = "ready" /\ pc'[t] \in {"prepare", "commit"} /\ UNCHANGED <<dbVars, userVars>>
    BY ZenonT(30), <1>a, <1>6 DEF Prepare, Commit, CheckExpired, Goto, TypeInv
  <2> QED  BY ZenonT(30), <1>k, <1>q, <1>d, <2>1 DEF Locking, Unlocking
<1>7. CASE PrepareState(t)
  <2>1. pc[t] = "prepare" /\ pc'[t] \in {"prepare_write", "ready"} /\ UNCHANGED <<dbVars, userVars>>
    BY <1>a, <1>7 DEF PrepareState, Goto, TypeInv
  <2> QED  BY <1>k, <1>q, <1>d, <2>1 DEF Locking, Unlocking
<1>8. CASE PrepareInternal(t)
  <2>1. pc[t] = "prepare_write" /\ pc'[t] = "ready" /\ UNCHANGED <<dbVars, userVars>>
    BY <1>a, <1>8 DEF PrepareInternal, Goto, TypeInv
  <2> QED  BY <1>k, <1>q, <1>d, <2>1 DEF Locking, Unlocking
<1>9. CASE CommitState(t)
  <2>1. pc[t] = "commit" /\ pc'[t] \in {"write", "ready"} /\ UNCHANGED <<dbVars, userVars>>
    BY <1>a, <1>9 DEF CommitState, Goto, Return, TypeInv
  <2> QED  BY <1>k, <1>q, <1>d, <2>1 DEF Locking, Unlocking
<1>10. CASE CommitInternal(t)
  <2>0. pc[t] = "write" /\ UNCHANGED <<snapshot, tracked>>
    BY <1>10 DEF CommitInternal, userVars
  <2>1. CASE /\ seq + 1 < MaxSequence /\ seq' = seq + 1
             /\ written' = [k \in Keys |-> IF k \in Writes(t) THEN seq + 1 ELSE written[k]]
             /\ CallUnLock(t, Tracked(t), [NoCall EXCEPT !.then = "committed"])
    <3>1. SeqInv'
      <4>1. seq \in Nat /\ MaxSequence \in Nat  BY <1>a, SequenceAssumption DEF SeqInv
      <4>2. \A k \in Keys : written'[k] = (IF k \in Writes(t) THEN seq + 1 ELSE written[k])
        BY <2>1
      <4>3. written' \in [Keys -> Nat] /\ \A k \in Keys : written'[k] <= seq'
        BY <1>a, <2>1, <4>1, <4>2 DEF SeqInv
      <4>4. \A u \in Txns : snapshot[u] # MaxSequence => snapshot[u] <= seq + 1
        BY <1>a, <4>1 DEF SeqInv, TypeInv
      <4> QED  BY <1>a, <1>b, <2>0, <2>1, <4>1, <4>3, <4>4 DEF SeqInv
    <3> QED  BY <1>g, <2>0, <2>1, <3>1
  <2>2. CASE Return(t) /\ UNCHANGED dbVars
    <3>1. pc'[t] = "ready" /\ UNCHANGED <<seq, written>>
      BY <1>a, <2>2 DEF Return, Goto, dbVars, TypeInv
    <3> QED  BY ZenonT(30), <1>k, <1>q, <2>0, <3>1 DEF Locking, Unlocking
  <2>3. CASE CallUnLock(t, Tracked(t), [NoCall EXCEPT !.then = "clear"]) /\ UNCHANGED dbVars
    <3>1. UNCHANGED <<seq, written>>  BY <2>3 DEF dbVars
    <3> QED  BY <1>g, <1>q, <2>0, <2>3, <3>1
  <2> QED  BY <1>10, <2>1, <2>2, <2>3 DEF CommitInternal
<1>11. CASE Rollback(t)
  <2>0. UNCHANGED <<seq, written, snapshot, tracked>> /\ pc[t] = "ready"
    BY <1>11 DEF Rollback, dbVars, userVars
  <2>1. CASE Goto(t, "rollback")
    <3>1. pc'[t] = "rollback"  BY <1>a, <2>1 DEF Goto, TypeInv
    <3> QED  BY <1>k, <1>q, <2>0, <3>1 DEF Locking, Unlocking
  <2>2. CASE CallUnLock(t, Tracked(t), [NoCall EXCEPT !.then = "clear"])
    BY <1>g, <1>q, <2>0, <2>2
  <2> QED  BY <1>11, <2>1, <2>2 DEF Rollback
<1>12. CASE RollbackInternal(t)
  <2>0. UNCHANGED <<seq, written, snapshot, tracked>> /\ pc[t] = "rollback"
    BY <1>12 DEF RollbackInternal, dbVars, userVars
  <2>1. CASE Return(t)
    <3>1. pc'[t] = "ready"  BY <1>a, <2>1 DEF Return, Goto, TypeInv
    <3> QED  BY <1>k, <1>q, <2>0, <3>1 DEF Locking, Unlocking
  <2>2. CASE CallUnLock(t, Tracked(t), [NoCall EXCEPT !.then = "rolledback"])
    BY <1>g, <1>q, <2>0, <2>2
  <2> QED  BY <1>12, <2>1, <2>2 DEF RollbackInternal
<1>13. CASE Destroy(t)
  <2>0. /\ UNCHANGED <<seq, written, snapshot, tracked>>
        /\ CallUnLock(t, Tracked(t), [NoCall EXCEPT !.then = "destroy"])
    BY <1>13 DEF Destroy, dbVars, userVars
  <2> QED  BY <1>g, <1>q, <2>0
<1>14. CASE UnLocked(t)  BY <1>14, UnLockedKeeps
<1> QED
  BY <1>1, <1>2, <1>3, <1>4, <1>5, <1>6, <1>7, <1>8, <1>9, <1>10, <1>11, <1>12, <1>13, <1>14
  DEF Step

\* The steps of the transactions keep the invariant.
LEMMA TxnStepKeeps ==
    ASSUME NoValidatedUpgrade, UInv, NEW t \in Txns, Step(t),
           ~(LockStep(t) /\ UNCHANGED <<dbVars, userVars>>)
    PROVE  SeqInv' /\ RequestInv' /\ ExclusiveInv' /\ OwnInv'
<1>a. TypeInv /\ CallInv /\ RequestInv /\ OwnInv /\ ExclusiveInv
  BY DEF UInv, IInv, HInv
<1>b. /\ UNCHANGED <<options, keys>>
      /\ \A u \in Txns \ {t} : pc'[u] = pc[u] /\ call'[u] = call[u]
  BY ZenonT(30), <1>a, TxnStepFrame
<1>o. \A u \in Txns \ {t} : /\ tracked'[u] = tracked[u] /\ new_locks'[u] = new_locks[u]
                            /\ snapshot'[u] = snapshot[u] /\ txn_state'[u] = txn_state[u]
  BY <1>a, TxnStepOthers
<1>t. SeqInv' /\ RequestOk(t)' /\ \A k \in Keys : OwnOk(t, k)'  BY OwnStepKeeps
<1>1. ASSUME NEW u \in Txns \ {t} PROVE RequestOk(u)'
  <2>1. RequestOk(u)  BY <1>a DEF RequestInv
  <2> QED  BY ZenonT(30), <1>b, <1>o, <2>1, RequestSame
<1>2. ASSUME NEW u \in Txns \ {t} PROVE \A k \in Keys : OwnOk(u, k)'
  <2>1. CASE UNCHANGED written
    <3>1. \A k \in Keys : GivesUp(u, k)' = GivesUp(u, k)  BY <1>b, <1>o DEF GivesUp
    <3> QED  BY ZenonT(30), <1>a, <1>b, <1>o, <2>1, <3>1 DEF OwnInv, OwnOk
  <2>2. CASE CommitInternal(t) /\ ~UNCHANGED written
    <3>1. /\ pc[t] = "write" /\ UNCHANGED <<snapshot, tracked>>
          /\ seq + 1 < MaxSequence /\ seq' = seq + 1
          /\ written' = [k \in Keys |-> IF k \in Writes(t) THEN seq + 1 ELSE written[k]]
      BY <2>2 DEF CommitInternal, userVars, dbVars
    <3> QED  BY <1>b, <1>o, <3>1, WriteKeeps
  <2>3. UNCHANGED written \/ CommitInternal(t)
    BY ZenonT(30) DEF Step, Begin, TryLock, LockGranted, SetSavePoint, RollbackToSavePoint, Prepare, Commit,
       CheckExpired, PrepareState, PrepareInternal, CommitState, Rollback, RollbackInternal,
       Destroy, UnLocked, dbVars
  <2> QED  BY <2>1, <2>2, <2>3
<1>3. ExclusiveInv'  BY <1>a, <1>b DEF ExclusiveInv
<1> QED  BY <1>t, <1>1, <1>2, <1>3 DEF RequestInv, OwnInv

\* A transaction about to write has for every key it writes a sequence number since which
\* nobody else has written the key, if all transactions of a database expire or none does
\* and none upgrades a lock with validation.
THEOREM NoLostUpdates ==
    ASSUME UniformExpiry, NoValidatedUpgrade PROVE Spec => []NoLostUpdate
<1> DEFINE V == SeqInv /\ RequestInv /\ ExclusiveInv /\ OwnInv
<1>1. Init => V
  <2> SUFFICES ASSUME Init PROVE V  OBVIOUS
  <2>1. SeqInv
    BY SequenceAssumption DEF Init, SeqInv, Untracked
  <2>2. RequestInv
    BY ZenonT(30) DEF Init, LockInit, RequestInv, RequestOk, Untracked, Locking, Unlocking
  <2>3. ExclusiveInv  BY ZenonT(30) DEF Init, LockInit, ExclusiveInv, Unlocked
  <2>4. OwnInv  BY ZenonT(30) DEF Init, LockInit, OwnInv, OwnOk, Untracked
  <2> QED  BY <2>1, <2>2, <2>3, <2>4
<1>2. IInv /\ V /\ [Next]_vars => V'
  <2> SUFFICES ASSUME UInv, [Next]_vars PROVE V'  BY DEF UInv
  <2>1. ASSUME NEW t \in Txns, Step(t) PROVE V'  BY <2>1, LockStepKeeps, TxnStepKeeps
  <2>2. CASE (Tick /\ UNCHANGED <<dbVars, userVars>>) \/ UNCHANGED vars
    <3>1. UNCHANGED <<options, keys, txn_state, pc, call, seq, written, snapshot, tracked, new_locks>>
      BY ZenonT(30), <2>2 DEF Tick, vars, lockVars, waitVars, txnVars, dbVars, userVars
    <3>2. SeqInv'  BY ZenonT(30), <3>1 DEF UInv, SeqInv
    <3>3. RequestInv'  BY <3>1, RequestSame DEF UInv, RequestInv
    <3>4. ExclusiveInv'  BY <3>1 DEF UInv, ExclusiveInv
    <3>5. OwnInv'  BY ZenonT(30), <3>1 DEF UInv, OwnInv, OwnOk, GivesUp
    <3> QED  BY <3>2, <3>3, <3>4, <3>5
  <2> QED  BY <2>1, <2>2 DEF Next
<1>3. IInv /\ V => NoLostUpdate
  <2> SUFFICES ASSUME UInv, NEW t \in Txns, pc[t] = "write", NEW k \in Writes(t)
               PROVE  written[k] <= tracked[t][k].seq
    BY DEF UInv, NoLostUpdate
  <2>1. k \in Keys /\ tracked[t][k].locked  BY DEF Writes, Tracked
  <2>2. txn_state[t] = "AWAITING_COMMIT" /\ ~GivesUp(t, k)
    BY ZenonT(30) DEF UInv, IInv, HInv, CallInv, CallOk, GivesUp, Unlocking
  <2> QED  BY <2>1, <2>2 DEF UInv, OwnInv, OwnOk
<1> HIDE DEF V
<1> QED  BY <1>1, <1>2, <1>3, Invariance, PTL DEF Spec
=============================================================================
