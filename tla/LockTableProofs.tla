-------------------------- MODULE LockTableProofs --------------------------
(***************************************************************************)
(* The refinement: PessimisticTransaction implements LockTable, for any    *)
(* number of transactions, keys and stripes, whatever the options, as long *)
(* as either all transactions expire or none does.                         *)
(***************************************************************************)
EXTENDS PessimisticTransactionProofs

USE SMTT(30), ZenonT(30)

\* The stripe's mutex is held between the two steps of an attempt that needs two, so
\* that a key found free is still free when it is emplaced.
MutexOk(t) ==
    /\ pc[t] \in {"emplace", "decide"} => stripe_mutex[MyStripe(t)] = t
    /\ pc[t] = "emplace" => keys[call[t].key].txn_ids = {}

MutexInv == \A t \in Txns : MutexOk(t)

Expires(t) == options.txn[t].expiration >= 0

\* A transaction that expires can be found by a thief for as long as it exists; only
\* such transactions give locks an expiration time.
ExpiryInv ==
    /\ \A t \in Txns : pc[t] \notin {"new", "dead"} /\ Expires(t) =>
           t \in expirable_transactions_map
    /\ \A t \in Txns : expiration_time[t] # 0 => t \in Clients /\ Expires(t)
    /\ \A k \in Keys : keys[k].expiration_time # 0 => \E u \in Clients : Expires(u)

IInv == HInv /\ MutexInv /\ ExpiryInv

-----------------------------------------------------------------------------
\* Nobody gets between the two halves of an attempt.
LEMMA MutexStep == IInv /\ [Next]_vars => MutexInv'
<1> SUFFICES ASSUME IInv, [Next]_vars, NEW u \in Txns PROVE MutexOk(u)'
  BY DEF MutexInv
<1>a. TypeInv /\ MutexOk(u)  BY DEF IInv, HInv, MutexInv
\* What u relies on does not change unless its own call or the options do.
<1>b. ASSUME UNCHANGED options, call'[u].key = call[u].key PROVE MyStripe(u)' = MyStripe(u)
  BY <1>b DEF MyStripe, GetStripe
<1> USE DEF lockVars, waitVars, txnVars, Goto, Return, MutexOk
<1>1. ASSUME NEW t \in Txns, LockStep(t)
      PROVE  MutexOk(u)'
  <2>a. MyStripe(t) \in Stripes /\ call[t].key \in Keys /\ call[u].key \in Keys
    BY <1>a, OptionTypes DEF TypeInv, CallInfo, MyStripe, GetStripe
  <2>b. MutexOk(t) /\ NoTxn \notin Txns  BY NoTxnAssumption DEF IInv, HInv, MutexInv
  \* A step of t under its stripe's mutex.
  <2>c. ASSUME u # t, UNCHANGED options, pc'[u] = pc[u], call'[u] = call[u],
               stripe_mutex[MyStripe(t)] \in {NoTxn, t},
               \A s \in Stripes : s # MyStripe(t) => stripe_mutex'[s] = stripe_mutex[s],
               \A k \in Keys : k # call[t].key => keys'[k] = keys[k]
        PROVE  MutexOk(u)'
    <3>1. MyStripe(u) \in Stripes  BY <1>a, <2>a, OptionTypes DEF MyStripe, GetStripe
    <3>2. pc[u] \in {"emplace", "decide"} => MyStripe(u) # MyStripe(t)
      BY <1>a, <2>b, <2>c
    <3>3. MyStripe(u)' = MyStripe(u)  BY <1>b, <2>c
    <3>4. CASE pc[u] \in {"emplace", "decide"}
      <4>1. stripe_mutex'[MyStripe(u)] = u  BY <1>a, <2>c, <3>1, <3>2, <3>4
      <4>2. pc[u] = "emplace" => keys'[call[u].key].txn_ids = {}
        <5> SUFFICES ASSUME pc[u] = "emplace" PROVE keys'[call[u].key].txn_ids = {}  OBVIOUS
        <5>1. call[u].key # call[t].key  BY <3>2, <3>4 DEF MyStripe
        <5> QED  BY <1>a, <2>a, <2>c, <5>1
      <4> QED  BY <2>c, <3>3, <4>1, <4>2
    <3>5. CASE pc[u] \notin {"emplace", "decide"}  BY <2>c, <3>5
    <3> QED  BY <3>4, <3>5
  <2>1. CASE Deadline(t)
    BY <1>a, <2>1 DEF Deadline, TypeInv, CallInfo, MyStripe, GetStripe
  <2>2. CASE MutexTimeout(t)
    BY <1>a, <2>2 DEF MutexTimeout, TypeInv, MyStripe, GetStripe
  <2>3. CASE StealRefused(t) \/ AcquireHeld(t) \/ LimitReached(t)
    <3>1. /\ UNCHANGED <<options, keys>> /\ stripe_mutex[MyStripe(t)] = NoTxn
          /\ \A v \in Txns \ {t} : pc'[v] = pc[v] /\ call'[v] = call[v]
          /\ \/ pc'[t] = "ready" /\ stripe_mutex' = stripe_mutex
             \/ /\ pc'[t] = "decide" /\ call'[t].key = call[t].key
                /\ stripe_mutex' = [stripe_mutex EXCEPT ![MyStripe(t)] = t]
      BY <1>a, <2>3, FailedAttempt
    <3>2. \A s \in Stripes : s # MyStripe(t) => stripe_mutex'[s] = stripe_mutex[s]
      BY <1>a, <3>1 DEF TypeInv
    <3>3. CASE u # t
      <4>1. pc'[u] = pc[u] /\ call'[u] = call[u]  BY <3>1, <3>3
      <4> QED  BY <2>c, <3>1, <3>2, <3>3, <4>1
    <3>4. CASE u = t /\ pc'[t] = "ready"  BY <3>4
    <3>5. CASE u = t /\ pc'[t] = "decide"
      <4>1. stripe_mutex'[MyStripe(u)] = u  BY <1>a, <2>a, <3>1, <3>5 DEF TypeInv
      <4>2. MyStripe(u)' = MyStripe(u)  BY <1>b, <3>1, <3>5
      <4> QED  BY <3>5, <4>1, <4>2
    <3> QED  BY <3>1, <3>3, <3>4, <3>5
  <2>4. ASSUME NEW info, Lock(t, info), UNCHANGED <<options, call>>,
               \/ stripe_mutex[MyStripe(t)] = NoTxn /\ UNCHANGED stripe_mutex
               \/ /\ stripe_mutex[MyStripe(t)] = t
                  /\ stripe_mutex' = [stripe_mutex EXCEPT ![MyStripe(t)] = NoTxn]
        PROVE  MutexOk(u)'
    <3>1. pc' = [pc EXCEPT ![t] = "granted"] /\ keys' = [keys EXCEPT ![call[t].key] = info]
      BY <2>4 DEF Lock
    <3>2. CASE u # t
      BY <1>a, <2>a, <2>c, <2>4, <3>1, <3>2 DEF TypeInv
    <3>3. CASE u = t
      BY <1>a, <3>1, <3>3 DEF TypeInv
    <3> QED  BY <3>2, <3>3
  <2>5. CASE AcquireOwn(t)
    BY <2>4, <2>5 DEF AcquireOwn, Attempt
  <2>6. CASE AcquireExpired(t)
    BY <2>4, <2>6 DEF AcquireExpired, Attempt
  <2>7. CASE AcquireShared(t)
    <3> DEFINE i == [keys[call[t].key] EXCEPT !.txn_ids = @ \cup {t},
                                 !.expiration_time = Max({@, expiration_time[t]})]
    <3>1. Lock(t, i)  BY <2>7 DEF AcquireShared
    <3> HIDE DEF i
    <3> QED  BY <2>4, <2>7, <3>1 DEF AcquireShared, Attempt
  <2>8. CASE AcquireFree(t)
    <3>1. CASE options.max_num_locks = 0
      BY <2>4, <2>8, <3>1 DEF AcquireFree, Attempt
    <3>2. CASE options.max_num_locks # 0
      <4>1. CASE u # t
        BY <1>a, <2>a, <2>c, <2>8, <3>2, <4>1 DEF AcquireFree, Attempt, TypeInv
      <4>2. CASE u = t
        BY <1>a, <2>a, <2>8, <3>2, <4>2 DEF AcquireFree, Attempt, TypeInv, MyStripe, GetStripe
      <4> QED  BY <4>1, <4>2
    <3> QED  BY <3>1, <3>2
  <2>9. CASE Emplace(t)
    BY <2>b, <2>4, <2>9 DEF Emplace
  <2>10. CASE StartWait(t)
    <3>1. /\ UNCHANGED <<options, keys>> /\ stripe_mutex[MyStripe(t)] = t
          /\ stripe_mutex' = [stripe_mutex EXCEPT ![MyStripe(t)] = NoTxn]
          /\ pc' = [pc EXCEPT ![t] = "ready"] \/ pc' = [pc EXCEPT ![t] = "wait"]
          /\ call' = [call EXCEPT ![t] = NoCall] \/ call' = call
      BY <2>b, <2>10 DEF StartWait
    <3>2. \A s \in Stripes : s # MyStripe(t) => stripe_mutex'[s] = stripe_mutex[s]
      BY <1>a, <3>1 DEF TypeInv
    <3>3. CASE u # t
      <4>1. pc'[u] = pc[u] /\ call'[u] = call[u]  BY <1>a, <3>1, <3>3 DEF TypeInv
      <4> QED  BY <2>c, <3>1, <3>2, <3>3, <4>1
    <3>4. CASE u = t  BY <1>a, <3>1, <3>4 DEF TypeInv
    <3> QED  BY <3>3, <3>4
  <2>11. CASE CvTimeout(t)
    BY <1>a, <2>11 DEF CvTimeout, TypeInv, MyStripe, GetStripe
  <2>12. ASSUME NEW s \in Stripes, UnLockStripe(t, s) PROVE MutexOk(u)'
    BY ZenonT(30), <1>a, <2>a, <2>12 DEF UnLockStripe, UnLockKey, TypeInv, MyStripe, GetStripe
  <2>13. CASE NotifyAll(t)
    BY <1>a, <2>13 DEF NotifyAll, TypeInv, MyStripe, GetStripe
  <2> QED
    BY <1>1, <2>1, <2>2, <2>3, <2>5, <2>6, <2>7, <2>8, <2>9, <2>10, <2>11, <2>12, <2>13
    DEF LockStep
<1>2. ASSUME NEW t \in Txns, Step(t), ~(LockStep(t) /\ UNCHANGED <<dbVars, userVars>>)
      PROVE  MutexOk(u)'
  BY <1>a, <1>2, TxnStepFrame DEF MyStripe, GetStripe
<1>3. CASE Tick /\ UNCHANGED <<dbVars, userVars>>
  BY <1>a, <1>3 DEF Tick, MyStripe, GetStripe
<1>4. CASE UNCHANGED vars
  BY <1>a, <1>4 DEF vars, MyStripe, GetStripe
<1> QED  BY <1>1, <1>2, <1>3, <1>4 DEF Next

\* Expiry is preserved.
LEMMA ExpiryStep == IInv /\ [Next]_vars => ExpiryInv'
<1> SUFFICES ASSUME IInv, [Next]_vars PROVE ExpiryInv'  OBVIOUS
<1>a. TypeInv /\ ExpiryInv  BY DEF IInv, HInv
<1> USE DEF lockVars, waitVars, txnVars, Goto, Return, ExpiryInv, Expires, Clients
\* A step that touches neither locks nor expiration times, and no thread's birth.
<1>f. ASSUME UNCHANGED <<options, keys, expiration_time, expirable_transactions_map>>,
             \A u \in Txns : pc[u] \in {"new", "dead"} => pc'[u] = pc[u]
      PROVE  ExpiryInv'
  BY <1>a, <1>f
<1>1. ASSUME NEW t \in Txns, LockStep(t)
      PROVE  ExpiryInv'
  <2>a. call[t].key \in Keys /\ keys[call[t].key] \in LockInfo  BY <1>a DEF TypeInv, CallInfo
  <2>1. CASE Deadline(t)
    BY <1>f, <2>1 DEF Deadline
  <2>2. CASE MutexTimeout(t)
    BY <1>a, <1>f, <2>2 DEF MutexTimeout, TypeInv
  <2>3. CASE StealRefused(t) \/ AcquireHeld(t) \/ LimitReached(t)
    BY <1>a, <1>f, <2>3, FailedAttempt
  <2>4. ASSUME NEW info, Lock(t, info), pc[t] \in Locking,
               info.expiration_time \in {0, expiration_time[t], keys[call[t].key].expiration_time},
               UNCHANGED <<options, expiration_time, expirable_transactions_map>>
        PROVE  ExpiryInv'
    <3>1. \A k \in Keys : keys'[k].expiration_time # 0 => \E u \in Clients : Expires(u)
      BY <1>a, <2>a, <2>4 DEF Lock, TypeInv
    <3>2. \A u \in Txns : pc[u] \in {"new", "dead"} => pc'[u] = pc[u]
      BY <1>a, <2>4 DEF Lock, TypeInv, Locking
    <3> QED  BY <1>a, <2>4, <3>1, <3>2
  <2>5. CASE AcquireOwn(t)
    BY <2>4, <2>5 DEF AcquireOwn, Attempt, NewLockInfo, Locking
  <2>6. CASE AcquireExpired(t)
    BY <2>4, <2>6 DEF AcquireExpired, Attempt, NewLockInfo, Locking
  <2>7. CASE AcquireShared(t)
    <3> DEFINE info == keys[call[t].key]
               m == Max({info.expiration_time, expiration_time[t]})
               i == [info EXCEPT !.txn_ids = @ \cup {t},
                                 !.expiration_time = Max({@, expiration_time[t]})]
    <3>1. info.expiration_time \in Int /\ expiration_time[t] \in Int
      BY <1>a, <2>a DEF TypeInv, LockInfo
    <3>2. m \in {expiration_time[t], info.expiration_time}  BY <3>1, MaxMinOfTwo
    <3>3. i.expiration_time = m  BY <2>a DEF LockInfo
    <3>4. Lock(t, i)  BY <2>7 DEF AcquireShared
    <3> HIDE DEF i, m
    <3> QED  BY <2>4, <2>7, <3>2, <3>3, <3>4 DEF AcquireShared, Attempt, Locking
  <2>8. CASE AcquireFree(t)
    <3>1. CASE options.max_num_locks = 0
      BY <2>4, <2>8, <3>1 DEF AcquireFree, Attempt, NewLockInfo, Locking
    <3>2. CASE options.max_num_locks # 0
      BY <1>a, <1>f, <2>8, <3>2 DEF AcquireFree, Attempt, TypeInv
    <3> QED  BY <3>1, <3>2
  <2>9. CASE Emplace(t)
    BY <2>4, <2>9 DEF Emplace, NewLockInfo, Locking
  <2>10. CASE StartWait(t)
    BY <1>a, <1>f, <2>10 DEF StartWait, TypeInv
  <2>11. CASE CvTimeout(t)
    BY <1>a, <1>f, <2>11 DEF CvTimeout, TypeInv
  <2>12. ASSUME NEW s \in Stripes, UnLockStripe(t, s) PROVE ExpiryInv'
    <3>1. \A k \in Keys : keys'[k].expiration_time \in {0, keys[k].expiration_time}
      BY <1>a, <2>12 DEF UnLockStripe, UnLockKey, Unlocked, TypeInv, LockInfo
    <3>2. \A u \in Txns : pc[u] \in {"new", "dead"} => pc'[u] = pc[u]
      BY <1>a, <2>12 DEF UnLockStripe, TypeInv
    <3> QED  BY <1>a, <2>12, <3>1, <3>2 DEF UnLockStripe
  <2>13. CASE NotifyAll(t)
    BY <1>a, <1>f, <2>13 DEF NotifyAll, TypeInv
  <2> QED
    BY ZenonT(30), <1>1, <2>1, <2>2, <2>3, <2>5, <2>6, <2>7, <2>8, <2>9, <2>10, <2>11, <2>12, <2>13
    DEF LockStep
<1>2. ASSUME NEW t \in Txns, Step(t), ~(LockStep(t) /\ UNCHANGED <<dbVars, userVars>>)
      PROVE  ExpiryInv'
  <2>1. CASE Begin(t)
    BY <1>a, <2>1 DEF Begin, TypeInv
  <2>2. CASE PrepareState(t)
    BY <1>a, <2>2 DEF PrepareState, TypeInv
  <2>3. CASE UnLocked(t)
    BY <1>a, <2>3 DEF UnLocked, TypeInv
  <2>4. CASE ~Begin(t) /\ ~PrepareState(t) /\ ~UnLocked(t)
    <3>1. /\ UNCHANGED <<options, keys, expiration_time, expirable_transactions_map>>
          /\ pc[t] \notin {"new", "dead"}
      BY ZenonT(30), <1>2, <2>4 DEF Step, TryLock, LockGranted, SetSavePoint, RollbackToSavePoint,
         Prepare, CheckExpired, PrepareInternal, Commit, CommitState, CommitInternal,
         Rollback, RollbackInternal, Destroy
    <3>2. \A u \in Txns \ {t} : pc'[u] = pc[u]  BY <1>a, <1>2, TxnStepFrame
    <3> QED  BY <1>f, <3>1, <3>2
  <2> QED  BY <2>1, <2>2, <2>3, <2>4
<1>3. CASE Tick /\ UNCHANGED <<dbVars, userVars>>
  BY <1>f, <1>3 DEF Tick
<1>4. CASE UNCHANGED vars
  BY <1>f, <1>4 DEF vars
<1> QED  BY <1>1, <1>2, <1>3, <1>4 DEF Next

\* The invariant the refinement needs.
THEOREM Invariance == Spec => []IInv
<1>1. Init => MutexInv /\ ExpiryInv
  <2> SUFFICES ASSUME Init PROVE MutexInv /\ ExpiryInv  OBVIOUS
  <2>1. MutexInv  BY DEF Init, LockInit, MutexInv, MutexOk
  <2>2. ExpiryInv  BY DEF Init, LockInit, ExpiryInv, Unlocked
  <2> QED  BY <2>1, <2>2
<1>2. IInv /\ [Next]_vars => MutexInv' /\ ExpiryInv'
  BY MutexStep, ExpiryStep
<1> QED  BY <1>1, <1>2, Accounting, PTL DEF Spec, IInv

-----------------------------------------------------------------------------
(* The refinement. *)

TableVars == <<TableHolders, TableExclusive, TableStatus>>

\* A step that changes no lock, and no state as far as the table can tell, is none.
LEMMA TableStutter ==
    ASSUME UNCHANGED keys,
           \A u \in Txns : \/ txn_state'[u] = txn_state[u]
                           \/ /\ txn_state[u] \notin {"STARTED", "LOCKS_STOLEN"}
                              /\ txn_state'[u] \notin {"STARTED", "LOCKS_STOLEN"}
    PROVE  UNCHANGED TableVars
BY DEF TableVars, TableHolders, TableExclusive, TableStatus, Holds

\* What the table shows of the victims of a thief.
LEMMA TableVictims ==
    ASSUME TypeInv, NEW V \in SUBSET Txns, \A v \in V : txn_state[v] = "STARTED",
           txn_state' = Stolen(V)
    PROVE  /\ \A v \in V : TableStatus[v] = "open"
           /\ TableStatus' = Table!Aborted(V)
           /\ \A u \in Txns : txn_state'[u] # "LOCKS_STOLEN" <=>
                                  txn_state[u] # "LOCKS_STOLEN" /\ u \notin V
BY DEF TypeInv, Stolen, TableStatus, Table!Aborted

\* TableExclusive is a function to Booleans.
LEMMA TableExclusiveIs ==
    ASSUME NEW f, f = [j \in Keys |-> f[j]],
           \A j \in Keys : f[j] \in BOOLEAN /\ (TableExclusive'[j] <=> f[j])
    PROVE  TableExclusive' = f
<1>1. TableExclusive' = [j \in Keys |-> TableExclusive'[j]]  BY DEF TableExclusive
<1>2. ASSUME NEW j \in Keys PROVE TableExclusive'[j] = f[j]
  <2>1. TableExclusive'[j] \in BOOLEAN  BY DEF TableExclusive
  <2>2. CASE f[j]  BY ZenonT(30), <2>1, <2>2
  <2>3. CASE ~f[j]  BY <2>1, <2>3
  <2> QED  BY <2>2, <2>3
<1> QED  BY <1>1, <1>2, ZenonT(30)

\* t gets k from V.
LEMMA GrantRefines ==
    ASSUME TypeInv, NEW t \in Txns, NEW k \in Keys, NEW info \in LockInfo,
           NEW V \in SUBSET (keys[k].txn_ids \ {t}),
           \A v \in V : txn_state[v] = "STARTED",
           info.txn_ids = (keys[k].txn_ids \ V) \cup {t},
           \/ keys[k].txn_ids \ (V \cup {t}) = {}
           \/ ~keys[k].exclusive /\ ~info.exclusive,
           keys' = [keys EXCEPT ![k] = info], txn_state' = Stolen(V)
    PROVE  Table!Next
<1>0. /\ keys[k] \in LockInfo /\ keys[k].txn_ids \subseteq Txns /\ V \subseteq Txns
      /\ info.exclusive \in BOOLEAN /\ info.txn_ids \subseteq Txns
  BY DEF TypeInv, LockInfo
<1>1. /\ \A v \in V : TableStatus[v] = "open"
      /\ TableStatus' = Table!Aborted(V)
      /\ \A u \in Txns : txn_state'[u] # "LOCKS_STOLEN" <=>
                             txn_state[u] # "LOCKS_STOLEN" /\ u \notin V
  BY <1>0, TableVictims
<1>2. V \subseteq TableHolders[k]
  BY <1>0 DEF TableHolders, Holds
<1>3. ASSUME NEW j \in Keys, j # k
      PROVE  /\ TableHolders'[j] = TableHolders[j] \ V
             /\ TableExclusive'[j] <=> TableExclusive[j] /\ TableHolders[j] \ V # {}
  <2>1. keys'[j] = keys[j]  BY <1>3 DEF TypeInv
  <2>2. TableHolders'[j] = TableHolders[j] \ V  BY <1>1, <2>1 DEF TableHolders, Holds
  <2>3. TableExclusive'[j] <=> keys[j].exclusive /\ TableHolders'[j] # {}
    BY ZenonT(30), <2>1 DEF TableExclusive, TableHolders
  <2>4. TableExclusive[j] <=> keys[j].exclusive /\ TableHolders[j] # {}
    BY ZenonT(30) DEF TableExclusive, TableHolders
  <2> QED  BY <2>2, <2>3, <2>4
<1>4. keys'[k] = info  BY DEF TypeInv
<1>5. TableExclusive'[k] <=> info.exclusive /\ TableHolders'[k] # {}
  BY ZenonT(30), <1>4 DEF TableExclusive, TableHolders
<1>6. TableExclusive[k] <=> keys[k].exclusive /\ TableHolders[k] # {}
  BY ZenonT(30) DEF TableExclusive, TableHolders
<1>7. CASE txn_state[t] = "LOCKS_STOLEN"
  <2>1. TableHolders'[k] = TableHolders[k] \ V
    BY <1>0, <1>1, <1>4, <1>7 DEF TableHolders, Holds
  <2>2. TableExclusive'[k] <=> TableExclusive[k] /\ TableHolders[k] \ V # {}
    <3>1. keys[k].txn_ids \ (V \cup {t}) = {} => TableHolders[k] \ V = {}
      BY <1>7 DEF TableHolders, Holds
    <3> QED  BY <1>5, <1>6, <2>1, <3>1
  <2>3. TableHolders' = [j \in Keys |-> TableHolders[j] \ V]
    BY <1>3, <2>1 DEF TableHolders
  <2>4. TableExclusive' = [j \in Keys |-> TableExclusive[j] /\ TableHolders[j] \ V # {}]
    <3> DEFINE f == [j \in Keys |-> TableExclusive[j] /\ TableHolders[j] \ V # {}]
    <3>1. \A j \in Keys : f[j] \in BOOLEAN /\ (TableExclusive'[j] <=> f[j])
      BY ZenonT(30), <1>3, <2>2
    <3> QED  BY ZenonT(30), <3>1, TableExclusiveIs
  <2>5. Table!Abort(V)  BY <1>1, <2>3, <2>4 DEF Table!Abort
  <2> QED  BY <1>2, <2>5 DEF Table!Next
<1>8. CASE txn_state[t] # "LOCKS_STOLEN"
  <2>1. TableHolders'[k] = (TableHolders[k] \ V) \cup {t}
    BY <1>0, <1>1, <1>4, <1>8 DEF TableHolders, Holds
  <2>2. TableExclusive'[k] <=> info.exclusive  BY <1>5, <2>1
  <2>3. TableHolders' = [j \in Keys |-> IF j = k THEN (TableHolders[j] \ V) \cup {t}
                                                 ELSE TableHolders[j] \ V]
    BY <1>3, <2>1 DEF TableHolders
  <2>4. TableExclusive' = [j \in Keys |-> IF j = k THEN info.exclusive
                                          ELSE TableExclusive[j] /\ TableHolders[j] \ V # {}]
    <3> DEFINE f == [j \in Keys |-> IF j = k THEN info.exclusive
                                   ELSE TableExclusive[j] /\ TableHolders[j] \ V # {}]
    <3>1. \A j \in Keys : f[j] \in BOOLEAN /\ (TableExclusive'[j] <=> f[j])
      BY ZenonT(30), <1>0, <1>3, <2>2
    <3> QED  BY ZenonT(30), <3>1, TableExclusiveIs
  <2>5. /\ TableStatus[t] # "aborted" /\ V \subseteq TableHolders[k] \ {t}
        /\ TableHolders[k] \ (V \cup {t}) = {} \/ (~TableExclusive[k] /\ ~info.exclusive)
    BY <1>2, <1>6, <1>8 DEF TableStatus, TableHolders, Holds
  <2>6. Table!Grant(t, k, info.exclusive, V)
    BY <1>1, <2>3, <2>4, <2>5 DEF Table!Grant
  <2>7. V \in SUBSET TableHolders[k] /\ info.exclusive \in BOOLEAN  BY <1>0, <1>2
  <2>8. \E j \in Keys : \E W \in SUBSET TableHolders[j], u \in Txns, ex \in BOOLEAN :
            Table!Grant(u, j, ex, W)
    BY <2>6, <2>7
  <2> QED  BY <2>8 DEF Table!Next
<1> QED  BY <1>7, <1>8

\* A thief finds the holders it cannot share with, if all transactions expire.
LEMMA VictimsAreHolders ==
    ASSUME UniformExpiry, IInv, NEW t \in Txns, NEW k \in Keys, LockExpired(keys[k])
    PROVE  Victims(t, keys[k]) = keys[k].txn_ids \ {t}
<1> SUFFICES ASSUME NEW u \in keys[k].txn_ids PROVE u \in expirable_transactions_map
  BY DEF Victims
<1>1. u \in Txns /\ pc[u] \notin {"new", "dead"}
  BY DEF IInv, HInv, TypeInv, LockInfo, HolderInv, Accounted
<1>2. u \in Clients  BY <1>1 DEF IInv, HInv, CallInv, CallOk
<1>3. PICK v \in Clients : Expires(v)  BY DEF LockExpired, IInv, HInv, ExpiryInv
<1>4. Expires(u)  BY <1>2, <1>3 DEF UniformExpiry, Expires, Clients, IInv, HInv, TypeInv
<1> QED  BY <1>1, <1>4 DEF IInv, HInv, ExpiryInv

\* Transactions that lose their locks to a thief who does not get the key.
LEMMA AbortRefines ==
    ASSUME TypeInv, NEW k \in Keys, NEW V \in SUBSET keys[k].txn_ids,
           \A v \in V : txn_state[v] = "STARTED", UNCHANGED keys, txn_state' = Stolen(V)
    PROVE  Table!Next
<1>0. V \subseteq Txns  BY DEF TypeInv, LockInfo
<1>1. /\ \A v \in V : TableStatus[v] = "open"
      /\ TableStatus' = Table!Aborted(V)
      /\ \A u \in Txns : txn_state'[u] # "LOCKS_STOLEN" <=>
                             txn_state[u] # "LOCKS_STOLEN" /\ u \notin V
  BY <1>0, TableVictims
<1>2. V \subseteq TableHolders[k]  BY <1>0 DEF TableHolders, Holds
<1>3. TableHolders' = [j \in Keys |-> TableHolders[j] \ V]  BY <1>1 DEF TableHolders, Holds
<1>4. TableExclusive' = [j \in Keys |-> TableExclusive[j] /\ TableHolders[j] \ V # {}]
  <2> DEFINE f == [j \in Keys |-> TableExclusive[j] /\ TableHolders[j] \ V # {}]
  <2>1. \A j \in Keys : TableExclusive'[j] <=> keys[j].exclusive /\ TableHolders'[j] # {}
    BY ZenonT(30) DEF TableExclusive, TableHolders
  <2>2. \A j \in Keys : TableExclusive[j] <=> keys[j].exclusive /\ TableHolders[j] # {}
    BY ZenonT(30) DEF TableExclusive, TableHolders
  <2>3. \A j \in Keys : f[j] \in BOOLEAN /\ (TableExclusive'[j] <=> f[j])
    BY ZenonT(30), <1>3, <2>1, <2>2
  <2> QED  BY ZenonT(30), <2>3, TableExclusiveIs
<1>5. Table!Abort(V)  BY <1>1, <1>3, <1>4 DEF Table!Abort
<1> QED  BY <1>2, <1>5 DEF Table!Next

\* t unlocks the keys in K, all of which it holds.
LEMMA ReleaseRefines ==
    ASSUME TypeInv, NEW t \in Txns, NEW K \in SUBSET Keys, UNCHANGED txn_state,
           keys' = [k \in Keys |-> IF k \in K THEN UnLockKey(t, keys[k]) ELSE keys[k]]
    PROVE  Table!Next
<1>1. ASSUME NEW k \in Keys
      PROVE  keys'[k].txn_ids = IF k \in K THEN keys[k].txn_ids \ {t} ELSE keys[k].txn_ids
  <2>1. keys[k] \in LockInfo  BY DEF TypeInv
  <2> QED  BY <2>1 DEF UnLockKey, Unlocked, LockInfo
<1>2. ASSUME NEW k \in Keys, keys'[k].txn_ids # {}
      PROVE  keys'[k].exclusive = keys[k].exclusive
  <2>1. keys[k] \in LockInfo  BY DEF TypeInv
  <2> QED  BY ZenonT(30), <1>2, <2>1 DEF UnLockKey, Unlocked, LockInfo
<1>3. TableHolders' = [k \in Keys |-> IF k \in K THEN TableHolders[k] \ {t}
                                      ELSE TableHolders[k]]
  BY ZenonT(30), <1>1 DEF TableHolders, Holds
<1>4. TableExclusive' = [k \in Keys |-> /\ TableExclusive[k]
                                        /\ k \in K => TableHolders[k] \ {t} # {}]
  <2> DEFINE f == [k \in Keys |-> TableExclusive[k] /\ (k \in K => TableHolders[k] \ {t} # {})]
  <2>1. \A k \in Keys : TableExclusive'[k] <=> keys'[k].exclusive /\ TableHolders'[k] # {}
    BY ZenonT(30) DEF TableExclusive, TableHolders
  <2>2. \A k \in Keys : TableExclusive[k] <=> keys[k].exclusive /\ TableHolders[k] # {}
    BY ZenonT(30) DEF TableExclusive, TableHolders
  <2>3. \A k \in Keys : TableHolders'[k] # {} => keys'[k].txn_ids # {}
    BY DEF TableHolders, Holds
  <2>4. \A k \in Keys : f[k] \in BOOLEAN /\ (TableExclusive'[k] <=> f[k])
    BY ZenonT(30), <1>2, <1>3, <2>1, <2>2, <2>3
  <2> QED  BY ZenonT(30), <2>4, TableExclusiveIs
<1>5. UNCHANGED TableStatus  BY DEF TableStatus
<1>6. Table!Release(t, K)  BY ZenonT(30), <1>3, <1>4, <1>5 DEF Table!Release
<1> QED  BY <1>6 DEF Table!Next

\* A transaction that has begun to prepare or to commit.
LEMMA SealRefines ==
    ASSUME TypeInv, NEW t \in Txns, NEW s \in States \ {"STARTED", "LOCKS_STOLEN"},
           txn_state[t] = "STARTED", State(t, s), UNCHANGED keys
    PROVE  Table!Next
<1>1. TableStatus[t] = "open" /\ TableStatus' = [TableStatus EXCEPT ![t] = "sealed"]
  BY ZenonT(30) DEF State, TableStatus, TypeInv
<1>2. \A k \in Keys, u \in Txns : Holds(u, k)' <=> Holds(u, k)
  BY DEF State, Holds, TypeInv
<1>3. UNCHANGED <<TableHolders, TableExclusive>>
  BY <1>2 DEF TableHolders, TableExclusive
<1> QED  BY ZenonT(30), <1>1, <1>3 DEF Table!Seal, Table!Next

\* Every step is one of the table, or none.
LEMMA StepRefines ==
    ASSUME UniformExpiry PROVE IInv /\ [Next]_vars => [Table!Next]_TableVars
<1> SUFFICES ASSUME IInv, [Next]_vars PROVE Table!Next \/ UNCHANGED TableVars  OBVIOUS
<1>a. TypeInv  BY DEF IInv, HInv
<1> USE DEF lockVars, txnVars
<1>1. ASSUME NEW t \in Txns, LockStep(t)
      PROVE  Table!Next \/ UNCHANGED TableVars
  <2> DEFINE k == call[t].key
  <2>a. /\ k \in Keys /\ keys[k] \in LockInfo /\ keys[k].txn_ids \subseteq Txns
        /\ NewLockInfo(t) \in LockInfo /\ call[t].exclusive \in BOOLEAN
    BY <1>a DEF TypeInv, CallInfo, NewLockInfo, LockInfo
  <2>b. txn_state = Stolen({})  BY <1>a DEF Stolen, TypeInv
  <2>c. /\ NewLockInfo(t).txn_ids = {t}
        /\ NewLockInfo(t).exclusive = call[t].exclusive
    BY DEF NewLockInfo
  <2>1. CASE UNCHANGED <<keys, txn_state>>
    BY <2>1, TableStutter
  <2>2. CASE AcquireOwn(t)
    <3>1. keys' = [keys EXCEPT ![k] = NewLockInfo(t)] /\ txn_state' = txn_state
      BY <2>2 DEF AcquireOwn, Lock
    <3>2. keys[k].txn_ids = {t}  BY <2>2 DEF AcquireOwn
    <3> HIDE DEF k
    <3>3. /\ {} \in SUBSET (keys[k].txn_ids \ {t})
          /\ NewLockInfo(t).txn_ids = (keys[k].txn_ids \ {}) \cup {t}
          /\ keys[k].txn_ids \ ({} \cup {t}) = {}
          /\ txn_state' = Stolen({})
      BY <2>b, <2>c, <3>1, <3>2
    <3> QED  BY ZenonT(30), <1>a, <2>a, <3>1, <3>3, GrantRefines
  <2>3. CASE AcquireExpired(t)
    <3> DEFINE V == Victims(t, keys[k])
    <3>1. keys' = [keys EXCEPT ![k] = NewLockInfo(t)] /\ txn_state' = Stolen(V)
      BY <2>3 DEF AcquireExpired, Lock
    <3>2. V = keys[k].txn_ids \ {t}
      BY <2>a, <2>3, VictimsAreHolders DEF AcquireExpired
    <3>3. \A v \in V : txn_state[v] = "STARTED"  BY <2>3 DEF AcquireExpired, Unstealable
    <3> HIDE DEF k, V
    <3>4. /\ V \in SUBSET (keys[k].txn_ids \ {t})
          /\ NewLockInfo(t).txn_ids = (keys[k].txn_ids \ V) \cup {t}
          /\ keys[k].txn_ids \ (V \cup {t}) = {}
      BY <2>c, <3>2
    <3> QED  BY ZenonT(30), <1>a, <2>a, <3>1, <3>3, <3>4, GrantRefines
  <2>4. CASE StealRefused(t)
    <3>1. PICK V \in SUBSET (Victims(t, keys[k]) \ Unstealable(t, keys[k])) :
              txn_state' = Stolen(V)
      BY <2>4 DEF StealRefused
    <3>2. V \subseteq keys[k].txn_ids /\ \A v \in V : txn_state[v] = "STARTED"
      BY DEF Victims, Unstealable
    <3>3. UNCHANGED keys  BY <2>4 DEF StealRefused
    <3> HIDE DEF k
    <3> QED  BY <1>a, <2>a, <3>1, <3>2, <3>3, AbortRefines
  <2>5. CASE AcquireShared(t)
    <3> DEFINE info == keys[k]
               i == [info EXCEPT !.txn_ids = @ \cup {t},
                                 !.expiration_time = Max({@, expiration_time[t]})]
    <3>1. keys' = [keys EXCEPT ![k] = i] /\ txn_state' = txn_state
      BY <2>5 DEF AcquireShared, Lock
    <3>2. ~info.exclusive  BY <2>5 DEF AcquireShared, Conflict
    <3>3. Max({info.expiration_time, expiration_time[t]}) \in Int
      <4>1. info.expiration_time \in Int /\ expiration_time[t] \in Int
        BY <1>a, <2>a DEF TypeInv, LockInfo
      <4> QED  BY <4>1, MaxMinOfTwo
    <3>4. i \in LockInfo /\ i.txn_ids = info.txn_ids \cup {t} /\ i.exclusive = info.exclusive
      BY ZenonT(30), <2>a, <3>3 DEF LockInfo
    <3> HIDE DEF k, i
    <3>5. /\ {} \in SUBSET (keys[k].txn_ids \ {t})
          /\ i.txn_ids = (keys[k].txn_ids \ {}) \cup {t}
          /\ \/ keys[k].txn_ids \ ({} \cup {t}) = {}
             \/ ~keys[k].exclusive /\ ~i.exclusive
          /\ \A v \in {} : txn_state[v] = "STARTED"
          /\ txn_state' = Stolen({})
      BY <2>b, <3>1, <3>2, <3>4
    <3>6. k \in Keys /\ i \in LockInfo /\ keys' = [keys EXCEPT ![k] = i]  BY <2>a, <3>1, <3>4
    <3> QED  BY ZenonT(30), <1>a, <3>5, <3>6, GrantRefines
  <2>6. CASE AcquireFree(t) \/ Emplace(t)
    <3>1. \/ UNCHANGED <<keys, txn_state>>
          \/ keys' = [keys EXCEPT ![k] = NewLockInfo(t)] /\ txn_state' = txn_state
      BY <2>6 DEF AcquireFree, Emplace, Lock
    <3>2. keys[k].txn_ids = {}
      BY <2>6 DEF AcquireFree, Emplace, IInv, HInv, MutexInv, MutexOk
    <3> HIDE DEF k
    <3> QED  BY <1>a, <2>a, <2>b, <2>c, <2>1, <3>1, <3>2, GrantRefines
  <2>7. ASSUME NEW s \in Stripes, UnLockStripe(t, s)  PROVE Table!Next
    <3> DEFINE mine == {j \in {i \in call[t].todo : GetStripe(i) = s} : t \in keys[j].txn_ids}
    <3>1. mine \subseteq Keys  BY <1>a DEF TypeInv, CallInfo
    <3>2. /\ keys' = [j \in Keys |-> IF j \in mine THEN UnLockKey(t, keys[j]) ELSE keys[j]]
          /\ UNCHANGED txn_state
      BY <2>7 DEF UnLockStripe
    <3> HIDE DEF mine
    <3> QED  BY <1>a, <3>1, <3>2, ReleaseRefines
  <2> QED
    BY <1>1, <2>1, <2>2, <2>3, <2>4, <2>5, <2>6, <2>7
    DEF LockStep, Deadline, MutexTimeout, AcquireHeld, LimitReached, StartWait, CvTimeout, NotifyAll
<1>2. ASSUME NEW t \in Txns, Step(t), ~(LockStep(t) /\ UNCHANGED <<dbVars, userVars>>)
      PROVE  Table!Next \/ UNCHANGED TableVars
  <2>a. UNCHANGED keys /\ CallOk(t)  BY <1>a, <1>2, TxnStepFrame DEF IInv, HInv, CallInv
  <2>1. CASE UNCHANGED txn_state
    BY <2>a, <2>1, TableStutter
  <2>2. ASSUME NEW s \in States \ {"STARTED", "LOCKS_STOLEN"}, State(t, s),
               txn_state[t] # "LOCKS_STOLEN"
        PROVE  Table!Next \/ UNCHANGED TableVars
    <3>1. CASE txn_state[t] = "STARTED"  BY <1>a, <2>a, <2>2, <3>1, SealRefines
    <3>2. CASE txn_state[t] # "STARTED"
      BY <1>a, <2>a, <2>2, <3>2, TableStutter DEF State, TypeInv
    <3> QED  BY <3>1, <3>2
  <2>3. CASE PrepareState(t)
    BY <2>1, <2>2, <2>3 DEF PrepareState, States
  <2>4. CASE PrepareInternal(t)
    BY <2>a, <2>1, <2>2, <2>4 DEF PrepareInternal, CallOk, States
  <2>5. CASE CommitState(t)
    BY <2>1, <2>2, <2>5 DEF CommitState, States
  <2>6. CASE Rollback(t)
    BY <2>1, <2>2, <2>6 DEF Rollback, States
  <2>7. CASE UnLocked(t)
    BY ZenonT(30), <2>a, <2>1, <2>2, <2>7 DEF UnLocked, State, CallOk, Unlocking, States
  <2> QED
    BY ZenonT(30), <1>2, <2>1, <2>3, <2>4, <2>5, <2>6, <2>7
    DEF Step, Begin, TryLock, LockGranted, SetSavePoint, RollbackToSavePoint, Prepare, Commit,
        CheckExpired, CommitInternal, RollbackInternal, Destroy
<1>3. CASE Tick /\ UNCHANGED <<dbVars, userVars>>
  BY <1>3, TableStutter DEF Tick
<1>4. CASE UNCHANGED vars
  BY <1>4, TableStutter DEF vars
<1> QED  BY <1>1, <1>2, <1>3, <1>4 DEF Next

\* The lock manager and its transactions implement the lock table: a key has one
\* holder or holders that share it, a transaction loses all its locks at once or none,
\* and never once it has begun to prepare or to commit.
THEOREM Refinement ==
    ASSUME UniformExpiry PROVE Spec => ImplementsLockTable
<1>1. Init => Table!Init
  <2> SUFFICES ASSUME Init PROVE Table!Init  OBVIOUS
  <2>1. \A k \in Keys, t \in Txns : ~Holds(t, k)  BY ZenonT(30) DEF Init, LockInit, Unlocked, Holds
  <2>2. TableHolders = [k \in Keys |-> {}]  BY <2>1 DEF TableHolders
  <2>3. TableExclusive = [k \in Keys |-> FALSE]  BY ZenonT(30), <2>1 DEF TableExclusive
  <2>4. TableStatus = [t \in Txns |-> "open"]  BY ZenonT(30) DEF Init, LockInit, TableStatus
  <2> QED  BY <2>2, <2>3, <2>4 DEF Table!Init
<1>2. IInv /\ [Next]_vars => [Table!Next]_TableVars  BY StepRefines
<1> QED
  BY <1>1, <1>2, Invariance, PTL DEF Spec, ImplementsLockTable, Table!Spec, Table!vars, TableVars
=============================================================================
