-------------------- MODULE PessimisticTransactionProofs --------------------
(***************************************************************************)
(* No lock outlives its transaction: every holder of a key is a            *)
(* transaction that knows of the lock, or is about to, or about to let go. *)
(***************************************************************************)
EXTENDS PessimisticTransactionTypes

USE SMTT(30), ZenonT(30)

Locking   == {"lock", "emplace", "decide", "wait"}
Unlocking == {"unlock", "notify", "unlocked"}

\* What the thread of a transaction knows at each point of a call.
CallOk(t) ==
    /\ pc[t] # "new" => t \in Clients
    /\ pc[t] \in Locking \cup {"granted"} =>
           /\ call[t].then \in {"lock", "upgrade", "relock", "downgrade"}
           /\ call[t].then # "lock" => tracked[t][call[t].key].locked
    /\ pc[t] = "unlocked" => call[t].todo = {}
    /\ pc[t] = "prepare_write" => txn_state[t] = "AWAITING_PREPARE"
    /\ \/ pc[t] = "write"
       \/ pc[t] \in Unlocking /\ call[t].then = "committed"
       => txn_state[t] = "AWAITING_COMMIT"
    /\ \/ pc[t] = "rollback"
       \/ pc[t] \in Unlocking /\ call[t].then = "rolledback"
       => txn_state[t] = "AWAITING_ROLLBACK"

CallInv == \A t \in Txns : CallOk(t)

\* A transaction that is in a lock's txn_ids tracks the key, has just been granted
\* it, or is about to unlock it.
Accounted(t, k) ==
    /\ pc[t] \notin {"new", "dead"}
    /\ pc[t] \notin Unlocking \cup {"granted"} => tracked[t][k].locked
    /\ pc[t] = "granted" => tracked[t][k].locked \/ call[t].key = k
    /\ pc[t] \in Unlocking =>
           \/ k \in call[t].todo
           \/ tracked[t][k].locked /\ call[t].then = "invalid"
           \/ tracked[t][k].locked /\ call[t].then = "save_point" /\ k \notin new_locks[t]

HolderInv == \A k \in Keys : \A t \in keys[k].txn_ids : Accounted(t, k)

HInv == TypeInv /\ CallInv /\ HolderInv

-----------------------------------------------------------------------------
\* Each thread goes on knowing what it knows.
LEMMA CallStep == TypeInv /\ CallInv /\ [Next]_vars => CallInv'
<1> SUFFICES ASSUME TypeInv, CallInv, [Next]_vars, NEW u \in Txns PROVE CallOk(u)'
  BY DEF CallInv
<1>0. CallOk(u)  BY DEF CallInv
<1>f. ASSUME UNCHANGED options, pc'[u] = pc[u], call'[u] = call[u], tracked'[u] = tracked[u],
             txn_state'[u] = txn_state[u]
      PROVE  CallOk(u)'
  BY <1>0, <1>f DEF CallOk, Clients
<1> USE DEF lockVars, waitVars, txnVars, dbVars, userVars, Goto, Return, Clients, CallOk,
            Locking, Unlocking
<1>1. ASSUME NEW t \in Txns, LockStep(t), UNCHANGED <<dbVars, userVars>>
      PROVE  CallOk(u)'
  <2>1. CASE Deadline(t)
    BY <1>0, <1>1, <2>1 DEF Deadline, TypeInv, CallInfo, NoCall
  <2>2. CASE MutexTimeout(t)
    BY <1>0, <1>1, <2>2 DEF MutexTimeout, TypeInv, CallInfo, NoCall
  <2>3. CASE AcquireOwn(t)
    BY <1>0, <1>1, <2>3 DEF AcquireOwn, Attempt, Lock, TypeInv, CallInfo, NoCall
  <2>4. CASE AcquireExpired(t)
    BY <1>0, <1>1, <2>4 DEF AcquireExpired, Attempt, Lock, Stolen, Unstealable, TypeInv, CallInfo, NoCall
  <2>5. CASE StealRefused(t) \/ AcquireHeld(t) \/ LimitReached(t)
    <3>1. UNCHANGED <<options, tracked>>  BY <1>1, <2>5, FailedAttempt
    <3>2. /\ pc[t] = "lock"
          /\ \/ txn_state'[u] = txn_state[u]
             \/ txn_state[u] = "STARTED" /\ txn_state'[u] = "LOCKS_STOLEN"
          /\ u # t => pc'[u] = pc[u] /\ call'[u] = call[u]
          /\ \/ pc'[t] = "ready"
             \/ pc'[t] = "decide" /\ call'[t].key = call[t].key /\ call'[t].then = call[t].then
      BY <2>5, FailedAttempt
    <3> QED  BY <1>0, <3>1, <3>2
  <2>7. CASE AcquireShared(t)
    BY <1>0, <1>1, <2>7 DEF AcquireShared, Attempt, Lock, TypeInv, CallInfo, NoCall
  <2>9. CASE AcquireFree(t)
    BY <1>0, <1>1, <2>9 DEF AcquireFree, Attempt, Lock, TypeInv, CallInfo, NoCall
  <2>10. CASE Emplace(t)
    BY <1>0, <1>1, <2>10 DEF Emplace, Lock, TypeInv, CallInfo, NoCall
  <2>11. CASE StartWait(t)
    BY <1>0, <1>1, <2>11 DEF StartWait, TypeInv, CallInfo, NoCall
  <2>12. CASE CvTimeout(t)
    BY <1>0, <1>1, <2>12 DEF CvTimeout, TypeInv, CallInfo, NoCall
  <2>13. ASSUME NEW s \in Stripes, UnLockStripe(t, s) PROVE CallOk(u)'
    <3>1. UNCHANGED <<options, tracked, txn_state>>  BY <1>1, <2>13 DEF UnLockStripe
    <3>2. pc' = [pc EXCEPT ![t] = "notify"] /\ pc[t] = "unlock"  BY <2>13 DEF UnLockStripe
    <3>3. PICK S, v : call' = [call EXCEPT ![t].todo = S, ![t].key = v]
      BY <2>13, ZenonT(30) DEF UnLockStripe
    <3>4. /\ pc'[t] = "notify" /\ call'[t].then = call[t].then
          /\ u # t => pc'[u] = pc[u] /\ call'[u] = call[u]
      BY ONLY TypeInv, t \in Txns, u \in Txns, <3>2, <3>3 DEF TypeInv, CallInfo
    <3>5. CASE u # t  BY ONLY <1>f, <3>1, <3>4, <3>5
    <3>6. CASE u = t  BY ONLY <1>0, <3>1, <3>2, <3>4, <3>6 DEF CallOk, Clients, Locking, Unlocking
    <3> QED  BY ONLY <3>5, <3>6
  <2>14. CASE NotifyAll(t)
    BY <1>0, <1>1, <2>14 DEF NotifyAll, TypeInv, CallInfo
  <2> QED
    BY ZenonT(30), <1>1, <2>1, <2>2, <2>3, <2>4, <2>5, <2>7, <2>9, <2>10, <2>11, <2>12, <2>13,
       <2>14 DEF LockStep
<1>2. ASSUME NEW t \in Txns, Step(t), ~(LockStep(t) /\ UNCHANGED <<dbVars, userVars>>)
      PROVE  CallOk(u)'
  <2> DEFINE Unlocks(then) == CallUnLock(t, Tracked(t), [NoCall EXCEPT !.then = then])
  <2>0. ASSUME NEW then, Unlocks(then)
        PROVE  /\ u # t => pc'[u] = pc[u] /\ call'[u] = call[u]
               /\ pc'[t] = "unlock" \/ (pc'[t] = "unlocked" /\ Tracked(t) = {})
               /\ call'[t].todo = Tracked(t) /\ call'[t].then = then
    <3>1. Tracked(t) \in SUBSET Keys  BY DEF Tracked
    <3>2. CallUnLock(t, Tracked(t), [NoCall EXCEPT !.then = then])  BY <2>0
    <3> HIDE DEF Unlocks
    <3>3. /\ \A v \in Txns \ {t} : pc'[v] = pc[v] /\ call'[v] = call[v]
          /\ pc'[t] = "unlock" \/ (pc'[t] = "unlocked" /\ Tracked(t) = {})
          /\ call'[t].todo = Tracked(t) /\ call'[t].then = then
      BY <3>1, <3>2, UnLockCalled
    <3> QED  BY <3>3
  <2> HIDE DEF Unlocks
  <2>1. CASE Begin(t)
    BY <1>0, <2>1 DEF Begin, TypeInv, CallInfo, NoCall
  <2>2. ASSUME NEW r \in Requests(t), TryLock(t, r.key, r.exclusive, r.validate)
        PROVE  CallOk(u)'
    <3>1. CASE u # t
      BY <1>f, <2>2, <3>1 DEF TryLock, CallTryLock, TypeInv
    <3>2. CASE u = t
      <4>1. /\ pc'[t] \in {"granted", "lock"}
            /\ call'[t].key = r.key
            /\ call'[t].then \in {"lock", "upgrade", "relock"}
            /\ call'[t].then # "lock" => tracked[t][r.key].locked
        <5>1. ASSUME NEW v, NEW then, NEW k, NEW ex
              PROVE  LET c == [[NoCall EXCEPT !.validate = v, !.then = then]
                                  EXCEPT !.key = k, !.exclusive = ex]
                     IN  c.key = k /\ c.then = then
          BY DEF NoCall
        <5>2. PICK then \in {"lock", "upgrade", "relock"} :
                 /\ call' = [call EXCEPT ![t] =
                               [[NoCall EXCEPT !.validate = r.validate, !.then = then]
                                   EXCEPT !.key = r.key, !.exclusive = r.exclusive]]
                 /\ then # "lock" => tracked[t][r.key].locked
          BY ZenonT(30), <2>2 DEF TryLock, CallTryLock
        <5>3. pc'[t] \in {"granted", "lock"}  BY <2>2 DEF TryLock, CallTryLock, TypeInv
        <5> QED  BY <5>1, <5>2, <5>3 DEF TypeInv
      <4> QED  BY <1>0, <2>2, <3>2, <4>1 DEF TryLock
    <3> QED  BY <3>1, <3>2
  <2>3. CASE LockGranted(t)
    <3>1. CASE u # t
      BY ZenonT(30), <1>f, <2>3, <3>1 DEF LockGranted, TrackKey, CallTryLock, CallUnLock, TypeInv
    <3>2. CASE u = t
      <4>1. \/ pc'[t] = "ready"
            \/ /\ pc'[t] = "lock" /\ call[t].then = "upgrade" /\ UNCHANGED tracked
               /\ call'[t].key = call[t].key /\ call'[t].then = "downgrade"
            \/ pc'[t] = "unlock" /\ call'[t].then = "invalid"
        <5>1. LET c == [[NoCall EXCEPT !.then = "downgrade"]
                           EXCEPT !.key = call[t].key, !.exclusive = FALSE]
              IN  c.key = call[t].key /\ c.then = "downgrade"
          BY DEF NoCall
        <5>2. [[call[t] EXCEPT !.then = "invalid"] EXCEPT !.todo = {call[t].key}].then = "invalid"
          BY DEF TypeInv, CallInfo
        <5> QED  BY ZenonT(30), <2>3, <5>1, <5>2 DEF LockGranted, CallTryLock, CallUnLock, TypeInv
      <4> QED  BY <1>0, <2>3, <3>2, <4>1 DEF LockGranted
    <3> QED  BY <3>1, <3>2
  <2>4. CASE SetSavePoint(t)
    BY <1>0, <2>4 DEF SetSavePoint, TypeInv, CallInfo, NoCall
  <2>5. CASE RollbackToSavePoint(t)
    BY <1>0, <2>5 DEF RollbackToSavePoint, CallUnLock, TypeInv, CallInfo, NoCall
  <2>6. CASE Prepare(t)
    BY <1>0, <2>6 DEF Prepare, CheckExpired, TypeInv, CallInfo, NoCall
  <2>7. CASE PrepareState(t)
    BY <1>0, <2>7 DEF PrepareState, State, TypeInv, CallInfo, NoCall
  <2>8. CASE PrepareInternal(t)
    BY <1>0, <2>8 DEF PrepareInternal, State, TypeInv, CallInfo, NoCall
  <2>9. CASE Commit(t)
    BY <1>0, <2>9 DEF Commit, CheckExpired, TypeInv, CallInfo, NoCall
  <2>10. CASE CommitState(t)
    BY <1>0, <2>10 DEF CommitState, State, TypeInv, CallInfo, NoCall
  <2>11. CASE CommitInternal(t)
    <3>1. \/ Return(t)
          \/ \E then \in {"committed", "clear"} : Unlocks(then)
      BY <2>11 DEF CommitInternal, Unlocks
    <3> QED  BY ZenonT(30), <1>0, <1>f, <2>0, <2>11, <3>1 DEF CommitInternal, TypeInv
  <2>12. CASE Rollback(t)
    <3>1. CASE Unlocks("clear") /\ UNCHANGED txn_state
      BY <1>0, <1>f, <2>0, <2>12, <3>1 DEF Rollback
    <3>2. CASE State(t, "AWAITING_ROLLBACK") /\ Goto(t, "rollback") /\ UNCHANGED call
      BY <1>0, <2>12, <3>2 DEF Rollback, State, TypeInv
    <3> QED  BY <2>12, <3>1, <3>2 DEF Rollback, Unlocks
  <2>13. CASE RollbackInternal(t)
    <3>1. Return(t) \/ Unlocks("rolledback")
      BY <2>13 DEF RollbackInternal, Unlocks
    <3> QED  BY <1>0, <1>f, <2>0, <2>13, <3>1 DEF RollbackInternal, TypeInv
  <2>14. CASE Destroy(t)
    BY <1>0, <2>14 DEF Destroy, CallUnLock, TypeInv, CallInfo, NoCall
  <2>15. CASE UnLocked(t)
    BY ZenonT(30), <1>0, <2>15 DEF UnLocked, TypeInv, CallInfo, NoCall
  <2> QED
    BY ZenonT(30), <1>2, <2>1, <2>2, <2>3, <2>4, <2>5, <2>6, <2>7, <2>8, <2>9, <2>10, <2>11, <2>12,
       <2>13, <2>14, <2>15 DEF Step
<1>3. CASE Tick /\ UNCHANGED <<dbVars, userVars>>
  BY <1>0, <1>3 DEF Tick
<1>4. CASE UNCHANGED vars
  BY <1>0, <1>4 DEF vars
<1> QED  BY <1>1, <1>2, <1>3, <1>4 DEF Next

\* Every holder of a lock goes on being accounted for.
LEMMA HolderStep == HInv /\ [Next]_vars => HolderInv'
<1> SUFFICES ASSUME HInv, [Next]_vars, NEW k \in Keys, NEW u \in keys'[k].txn_ids
             PROVE  Accounted(u, k)'
  BY DEF HolderInv
<1>a. TypeInv /\ u \in Txns
  <2>1. keys'[k] \in LockInfo  BY TypeStep DEF HInv, TypeInv
  <2> QED  BY <2>1 DEF LockInfo, HInv
<1>b. CallOk(u) /\ (u \in keys[k].txn_ids => Accounted(u, k))
  BY <1>a DEF HInv, CallInv, HolderInv
<1>f. ASSUME u \in keys[k].txn_ids, pc'[u] = pc[u], call'[u] = call[u],
             tracked'[u] = tracked[u], new_locks'[u] = new_locks[u]
      PROVE  Accounted(u, k)'
  BY <1>b, <1>f DEF Accounted
<1> USE DEF lockVars, waitVars, txnVars, dbVars, userVars, Goto, Return, Accounted,
            Locking, Unlocking
<1>1. ASSUME NEW t \in Txns, LockStep(t), UNCHANGED <<dbVars, userVars>>
      PROVE  Accounted(u, k)'
  <2>1. CASE Deadline(t)
    BY <1>a, <1>b, <1>1, <2>1 DEF Deadline, TypeInv, CallInfo
  <2>2. CASE MutexTimeout(t)
    BY <1>a, <1>b, <1>1, <2>2 DEF MutexTimeout, TypeInv
  <2>3. CASE StealRefused(t) \/ AcquireHeld(t) \/ LimitReached(t)
    <3>1. UNCHANGED <<tracked, new_locks>>  BY <1>1
    <3> QED  BY <1>a, <1>b, <1>f, <2>3, <3>1, FailedAttempt
  <2>4. ASSUME NEW info, Lock(t, info), info.txn_ids \subseteq keys[call[t].key].txn_ids \cup {t},
               pc[t] \in Locking, UNCHANGED call
        PROVE  Accounted(u, k)'
    <3>1. CASE u # t
      <4>1. u \in keys[k].txn_ids  BY <2>4, <3>1 DEF Lock, HInv, TypeInv
      <4> QED  BY <1>a, <1>f, <1>1, <2>4, <3>1, <4>1 DEF Lock, TypeInv
    <3>2. CASE u = t
      <4>1. pc'[t] = "granted"  BY <2>4 DEF Lock, HInv, TypeInv
      <4>2. k # call[t].key => u \in keys[k].txn_ids  BY <2>4 DEF Lock, HInv, TypeInv
      <4> QED  BY <1>b, <1>1, <2>4, <3>2, <4>1, <4>2
    <3> QED  BY <3>1, <3>2
  <2>5. CASE AcquireOwn(t)
    BY <2>4, <2>5 DEF AcquireOwn, Attempt, NewLockInfo
  <2>6. CASE AcquireExpired(t)
    BY <2>4, <2>6 DEF AcquireExpired, Attempt, NewLockInfo
  <2>7. CASE AcquireShared(t)
    <3> DEFINE info == keys[call[t].key]
               i == [info EXCEPT !.txn_ids = @ \cup {t},
                                 !.expiration_time = Max({@, expiration_time[t]})]
    <3>1. Lock(t, i) /\ pc[t] \in Locking /\ UNCHANGED call
      BY <2>7 DEF AcquireShared, Attempt
    <3>2. info \in LockInfo  BY <1>a DEF TypeInv, CallInfo
    <3>3. i.txn_ids = info.txn_ids \cup {t}  BY <3>2 DEF LockInfo
    <3> HIDE DEF i
    <3> QED  BY <2>4, <3>1, <3>3
  <2>8. CASE AcquireFree(t)
    <3>1. CASE options.max_num_locks = 0
      BY <2>4, <2>8, <3>1 DEF AcquireFree, Attempt, NewLockInfo
    <3>2. CASE options.max_num_locks # 0
      BY ZenonT(30), <1>a, <1>b, <1>1, <2>8, <3>2 DEF AcquireFree, Attempt, TypeInv
    <3> QED  BY <3>1, <3>2
  <2>9. CASE Emplace(t)
    BY <2>4, <2>9 DEF Emplace, NewLockInfo
  <2>10. CASE StartWait(t)
    BY ZenonT(30), <1>a, <1>b, <1>1, <2>10 DEF StartWait, TypeInv
  <2>11. CASE CvTimeout(t)
    BY <1>a, <1>b, <1>1, <2>11 DEF CvTimeout, TypeInv
  <2>12. ASSUME NEW s \in Stripes, UnLockStripe(t, s) PROVE Accounted(u, k)'
    <3> DEFINE K == {j \in call[t].todo : GetStripe(j) = s}
               mine == {j \in K : t \in keys[j].txn_ids}
               c == CHOOSE j \in K : TRUE
    <3>1. u \in keys[k].txn_ids /\ (u = t => k \notin mine)
      BY <1>a, <2>12 DEF UnLockStripe, UnLockKey, Unlocked, TypeInv, LockInfo
    <3>2. CASE u # t
      BY <1>a, <1>f, <1>1, <2>12, <3>1, <3>2 DEF UnLockStripe, TypeInv
    <3>3. CASE u = t
      <4>1. /\ pc[t] = "unlock" /\ pc'[t] = "notify"
            /\ call'[t].todo = call[t].todo \ K /\ call'[t].then = call[t].then
        <5>1. /\ pc[t] = "unlock" /\ pc'[t] = "notify"
              /\ call' = [call EXCEPT ![t].todo = @ \ K, ![t].key = c]
          BY <1>a, <2>12 DEF UnLockStripe, TypeInv
        <5> HIDE DEF K, c
        <5> QED  BY <1>a, <5>1 DEF TypeInv, CallInfo
      <4>2. k \notin K  BY <3>1, <3>3
      <4> HIDE DEF K
      <4> QED  BY <1>b, <1>1, <3>1, <3>3, <4>1, <4>2
    <3> QED  BY ZenonT(30), <3>2, <3>3
  <2>13. CASE NotifyAll(t)
    BY <1>a, <1>b, <1>1, <2>13 DEF NotifyAll, TypeInv, CallInfo
  <2> QED
    BY ZenonT(30), <1>1, <2>1, <2>2, <2>3, <2>5, <2>6, <2>7, <2>8, <2>9, <2>10, <2>11, <2>12, <2>13
    DEF LockStep
<1>2. ASSUME NEW t \in Txns, Step(t), ~(LockStep(t) /\ UNCHANGED <<dbVars, userVars>>)
      PROVE  Accounted(u, k)'
  <2>0. u \in keys[k].txn_ids
    BY ZenonT(30), <1>2 DEF Step, Begin, TryLock, LockGranted, SetSavePoint, RollbackToSavePoint, Prepare,
       CheckExpired, PrepareState, PrepareInternal, Commit, CommitState, CommitInternal,
       Rollback, RollbackInternal, Destroy, UnLocked
  <2> DEFINE Unlocks(then) == CallUnLock(t, Tracked(t), [NoCall EXCEPT !.then = then])
  <2>u. ASSUME NEW then, Unlocks(then), pc[t] \in {"ready", "write", "rollback"},
               UNCHANGED <<tracked, new_locks>>
        PROVE  Accounted(u, k)'
    <3>1. /\ u # t => pc'[u] = pc[u] /\ call'[u] = call[u]
          /\ pc'[t] \in {"unlock", "unlocked"} /\ call'[t].todo = Tracked(t)
      <4>1. Tracked(t) \in SUBSET Keys  BY DEF Tracked
      <4> QED  BY ZenonT(30), <1>a, <2>u, <4>1, UnLockCalled
    <3>2. u = t => k \in Tracked(t)  BY <1>b, <2>0, <2>u DEF Tracked
    <3> QED  BY <1>f, <2>0, <2>u, <3>1, <3>2
  <2> HIDE DEF Unlocks
  <2>1. CASE Begin(t)
    BY <1>a, <1>b, <2>0, <2>1 DEF Begin, TypeInv
  <2>2. ASSUME NEW r \in Requests(t), TryLock(t, r.key, r.exclusive, r.validate)
        PROVE  Accounted(u, k)'
    BY <1>a, <1>b, <2>0, <2>2 DEF TryLock, CallTryLock, TypeInv
  <2>3. CASE LockGranted(t)
    <3>1. CASE u # t
      BY <1>a, <1>f, <2>0, <2>3, <3>1
      DEF LockGranted, TrackKey, CallTryLock, CallUnLock, TypeInv
    <3>2. CASE u = t
      <4>0. ASSUME NEW s, NEW ex, TrackKey(t, call[t].key, s, ex)
            PROVE  /\ tracked'[t][call[t].key].locked
                   /\ tracked[t][k].locked => tracked'[t][k].locked
        BY <1>a, <4>0 DEF TrackKey, TypeInv, CallInfo
      <4>1. /\ pc[t] = "granted"
            /\ \/ pc'[t] = "ready" /\ tracked'[t][call[t].key].locked
               \/ pc'[t] = "ready" /\ UNCHANGED tracked /\ call[t].then = "relock"
               \/ pc'[t] = "lock" /\ UNCHANGED tracked /\ call[t].then = "upgrade"
               \/ /\ pc'[t] = "unlock" /\ UNCHANGED tracked
                  /\ call'[t].todo = {call[t].key} /\ call'[t].then = "invalid"
        <5>1. /\ [[call[t] EXCEPT !.then = "invalid"] EXCEPT !.todo = {call[t].key}].todo
                    = {call[t].key}
              /\ [[call[t] EXCEPT !.then = "invalid"] EXCEPT !.todo = {call[t].key}].then
                    = "invalid"
          BY <1>a DEF TypeInv, CallInfo
        <5>2. call[t].key \in Keys  BY <1>a DEF TypeInv, CallInfo
        <5> QED
          BY ZenonT(30), <1>a, <2>3, <4>0, <5>1, <5>2 DEF LockGranted, CallTryLock, CallUnLock, TypeInv
      <4>2. tracked[t][k].locked => tracked'[t][k].locked
        BY ZenonT(30), <1>a, <2>3, <4>0 DEF LockGranted
      <4> QED  BY <1>b, <2>0, <3>2, <4>1, <4>2 DEF CallOk
    <3> QED  BY <3>1, <3>2
  <2>4. CASE SetSavePoint(t)
    BY <1>a, <1>b, <2>0, <2>4 DEF SetSavePoint, TypeInv
  <2>5. CASE RollbackToSavePoint(t)
    <3>1. new_locks[t] \subseteq Keys /\ UNCHANGED <<tracked, new_locks>> /\ pc[t] = "ready"
      BY <1>a, <2>5 DEF RollbackToSavePoint, TypeInv
    <3>2. /\ u # t => pc'[u] = pc[u] /\ call'[u] = call[u]
          /\ pc'[t] \in {"unlock", "unlocked"} /\ call'[t].todo = new_locks[t]
          /\ call'[t].then = "save_point"
      <4>1. CallUnLock(t, new_locks[t], [NoCall EXCEPT !.then = "save_point"])
        BY <2>5 DEF RollbackToSavePoint
      <4> QED  BY ZenonT(30), <1>a, <3>1, <4>1, UnLockCalled
    <3> QED  BY <1>b, <1>f, <2>0, <3>1, <3>2
  <2>6. CASE Prepare(t)
    BY <1>a, <1>b, <2>0, <2>6 DEF Prepare, CheckExpired, TypeInv
  <2>7. CASE PrepareState(t)
    BY <1>a, <1>b, <2>0, <2>7 DEF PrepareState, TypeInv
  <2>8. CASE PrepareInternal(t)
    BY <1>a, <1>b, <2>0, <2>8 DEF PrepareInternal, TypeInv
  <2>9. CASE Commit(t)
    BY ZenonT(30), <1>a, <1>b, <2>0, <2>9 DEF Commit, CheckExpired, TypeInv
  <2>10. CASE CommitState(t)
    BY <1>a, <1>b, <2>0, <2>10 DEF CommitState, TypeInv
  <2>11. CASE CommitInternal(t)
    <3>1. CASE Return(t)
      BY <1>a, <1>b, <2>0, <2>11, <3>1 DEF CommitInternal, TypeInv
    <3>2. CASE \E then \in {"committed", "clear"} : Unlocks(then)
      BY <2>u, <2>11, <3>2 DEF CommitInternal
    <3> QED  BY <2>11, <3>1, <3>2 DEF CommitInternal, Unlocks
  <2>12. CASE Rollback(t)
    <3>1. CASE Unlocks("clear")
      BY <2>u, <2>12, <3>1 DEF Rollback
    <3>2. CASE Goto(t, "rollback") /\ UNCHANGED call
      BY <1>a, <1>b, <2>0, <2>12, <3>2 DEF Rollback, TypeInv
    <3> QED  BY <2>12, <3>1, <3>2 DEF Rollback, Unlocks
  <2>13. CASE RollbackInternal(t)
    <3>1. CASE Return(t)
      BY <1>a, <1>b, <2>0, <2>13, <3>1 DEF RollbackInternal, TypeInv
    <3>2. CASE Unlocks("rolledback")
      BY <2>u, <2>13, <3>2 DEF RollbackInternal
    <3> QED  BY <2>13, <3>1, <3>2 DEF RollbackInternal, Unlocks
  <2>14. CASE Destroy(t)
    BY ZenonT(30), <2>u, <2>14 DEF Destroy, Unlocks
  <2>15. CASE UnLocked(t)
    <3>1. CASE u # t
      BY <1>a, <1>f, <2>0, <2>15, <3>1 DEF UnLocked, TypeInv
    <3>2. CASE u = t
      BY <1>a, <1>b, <2>0, <2>15, <3>2 DEF UnLocked, CallOk, TypeInv
    <3> QED  BY <3>1, <3>2
  <2> QED
    BY ZenonT(30), <1>2, <2>1, <2>2, <2>3, <2>4, <2>5, <2>6, <2>7, <2>8, <2>9, <2>10, <2>11, <2>12,
       <2>13, <2>14, <2>15 DEF Step
<1>3. CASE Tick /\ UNCHANGED <<dbVars, userVars>>
  BY <1>b, <1>3 DEF Tick
<1>4. CASE UNCHANGED vars
  BY <1>b, <1>4 DEF vars
<1> QED  BY <1>1, <1>2, <1>3, <1>4 DEF Next

\* The invariant: every thread knows where its call stands, and every holder of a
\* lock is accounted for.
THEOREM Accounting == Spec => []HInv
<1>1. Init => HInv
  <2> SUFFICES ASSUME Init PROVE CallInv /\ HolderInv
    BY InitType DEF HInv
  <2>1. CallInv  BY DEF Init, LockInit, CallInv, CallOk, Locking, Unlocking
  <2>2. HolderInv  BY DEF Init, LockInit, HolderInv, Unlocked
  <2> QED  BY <2>1, <2>2
<1>2. HInv /\ [Next]_vars => HInv'
  BY TypeStep, CallStep, HolderStep DEF HInv
<1> QED  BY <1>1, <1>2, PTL DEF Spec

\* No lock outlives its transaction: an id that a thief does not find among the
\* expirable transactions is that of one that has let go.
THEOREM LocksDie == Spec => []LocksDieWithTxn
<1>1. HInv => LocksDieWithTxn
  BY DEF HInv, HolderInv, Accounted, LocksDieWithTxn
<1> QED  BY <1>1, Accounting, PTL
=============================================================================
