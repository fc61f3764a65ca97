-------------------- MODULE PessimisticTransactionTypes --------------------
(***************************************************************************)
(* Type correctness of PessimisticTransaction, for any number of           *)
(* transactions, keys and stripes, and what its steps leave alone.         *)
(***************************************************************************)
EXTENDS PessimisticTransaction, TLAPS

USE SMTT(30), ZenonT(30)

States == {"STARTED", "AWAITING_PREPARE", "PREPARED", "AWAITING_COMMIT", "COMMITTED",
           "AWAITING_ROLLBACK", "ROLLEDBACK", "LOCKS_STOLEN"}

Labels == {"new", "ready", "lock", "emplace", "decide", "wait", "granted", "unlock",
           "notify", "unlocked", "prepare", "prepare_write", "commit", "write",
           "rollback", "dead"}

Thens == {"none", "lock", "upgrade", "relock", "downgrade", "invalid", "save_point",
          "commit", "prepared", "committed", "clear", "rolledback", "destroy"}

LockInfo == [txn_ids : SUBSET Txns, exclusive : BOOLEAN, expiration_time : Int]

CallInfo == [key : Keys, exclusive : BOOLEAN, attempt : {"first", "retry", "last"}, hint : Int,
             wait_ids : SUBSET Txns, busy : BOOLEAN, late : BOOLEAN,
             todo : SUBSET Keys, then : Thens, validate : BOOLEAN]

TrackedInfo == [locked : BOOLEAN, exclusive : BOOLEAN, seq : Int]

TypeInv ==
    /\ options \in OptionSets
    /\ now \in Nat
    /\ keys \in [Keys -> LockInfo]
    /\ stripe_mutex \in [Stripes -> Txns \cup {NoTxn}]
    /\ txn_state \in [Txns -> States]
    /\ expiration_time \in [Txns -> Int]
    /\ expirable_transactions_map \subseteq Txns
    /\ pc \in [Txns -> Labels]
    /\ call \in [Txns -> CallInfo]
    /\ seq \in Int
    /\ snapshot \in [Txns -> Int]
    /\ tracked \in [Txns -> [Keys -> TrackedInfo]]
    /\ new_locks \in [Txns -> (SUBSET Keys) \cup {NoSavePoint}]

-----------------------------------------------------------------------------
\* The maximum and the minimum of two integers are one of them.
LEMMA MaxMinOfTwo ==
    ASSUME NEW a \in Int, NEW b \in Int
    PROVE  Max({a, b}) \in {a, b} /\ Min({a, b}) \in {a, b}
<1>1. \E x \in {a, b} : \A y \in {a, b} : x >= y  BY a >= b \/ b >= a
<1>2. \E x \in {a, b} : \A y \in {a, b} : x <= y  BY a >= b \/ b >= a
<1> QED  BY <1>1, <1>2 DEF Max, Min

\* The record of a thread that is in no call.
LEMMA NoCallType == NoCall \in CallInfo
<1>1. SomeKey \in Keys  BY NoTxnAssumption DEF SomeKey
<1> QED  BY <1>1 DEF NoCall, CallInfo, Thens

\* What the options of a transaction say, for the transactions that are begun.
LEMMA OptionTypes ==
    ASSUME TypeInv
    PROVE  /\ options.stripe \in [Keys -> Stripes]
           /\ Clients \subseteq Txns
           /\ \A t \in Clients : /\ options.txn[t].expiration \in Int
                                 /\ \A r \in options.txn[t].requests :
                                        /\ r.key \in Keys
                                        /\ r.exclusive \in BOOLEAN
                                        /\ r.validate \in BOOLEAN
BY OptionsAssumption DEF TypeInv, Clients

\* The types hold initially.
LEMMA InitType == Init => TypeInv
<1> SUFFICES ASSUME Init PROVE TypeInv  OBVIOUS
<1>1. call \in [Txns -> CallInfo]  BY NoCallType DEF Init, LockInit
<1>2. keys \in [Keys -> LockInfo]  BY DEF Init, LockInit, Unlocked, LockInfo
<1>3. tracked \in [Txns -> [Keys -> TrackedInfo]]
  BY SequenceAssumption DEF Init, Untracked, TrackedInfo
<1> QED  BY <1>1, <1>2, <1>3, SequenceAssumption
  DEF Init, LockInit, TypeInv, States, Labels

\* What a failed attempt notes down has its type.
LEMMA WaitNoteType ==
    ASSUME NEW c \in CallInfo, NEW h \in Int, NEW W \in SUBSET Txns, NEW b \in BOOLEAN
    PROVE  [c EXCEPT !.hint = h, !.wait_ids = W, !.busy = b] \in CallInfo
BY ZenonT(30) DEF CallInfo

\* A failed attempt leaves the thread in a typed state.
LEMMA FailType ==
    ASSUME TypeInv, NEW t \in Txns, NEW c \in CallInfo, Fail(t, c)
    PROVE  /\ pc' \in [Txns -> Labels]
           /\ call' \in [Txns -> CallInfo]
           /\ stripe_mutex' \in [Stripes -> Txns \cup {NoTxn}]
<1>1. MyStripe(t) \in Stripes
  BY OptionTypes DEF TypeInv, CallInfo, MyStripe, GetStripe
<1>2. pc' \in [Txns -> Labels]  BY DEF Fail, Return, Goto, TypeInv, Labels
<1>3. call' \in [Txns -> CallInfo]  BY NoCallType DEF Fail, Return, TypeInv
<1>4. stripe_mutex' \in [Stripes -> Txns \cup {NoTxn}]  BY <1>1 DEF Fail, TypeInv
<1> QED  BY <1>2, <1>3, <1>4

\* Nor does a call of UnLock.
LEMMA UnLockType ==
    ASSUME TypeInv, NEW t \in Txns, NEW K \in SUBSET Keys, NEW then \in Thens,
           CallUnLock(t, K, [NoCall EXCEPT !.then = then])
    PROVE  pc' \in [Txns -> Labels] /\ call' \in [Txns -> CallInfo]
<1>1. [[NoCall EXCEPT !.then = then] EXCEPT !.todo = K] \in CallInfo
  BY ZenonT(30), NoCallType DEF CallInfo
<1> QED  BY <1>1 DEF CallUnLock, Goto, TypeInv, Labels

\* Nor does tracking a key.
LEMMA TrackKeyType ==
    ASSUME TypeInv, NEW t \in Txns, NEW k \in Keys, NEW s \in Int, NEW ex \in BOOLEAN,
           TrackKey(t, k, s, ex)
    PROVE  /\ tracked' \in [Txns -> [Keys -> TrackedInfo]]
           /\ new_locks' \in [Txns -> (SUBSET Keys) \cup {NoSavePoint}]
<1> DEFINE i == tracked[t][k]
           j == [locked |-> TRUE, exclusive |-> i.exclusive \/ ex, seq |-> Min({i.seq, s})]
<1>1. i.seq \in Int  BY DEF TypeInv, TrackedInfo
<1>2. Min({i.seq, s}) \in Int  BY ZenonT(30), <1>1, MaxMinOfTwo
<1>3. j \in TrackedInfo  BY <1>2 DEF TrackedInfo
<1>4. tracked' = [tracked EXCEPT ![t][k] = j]  BY DEF TrackKey
<1> HIDE DEF j
<1>5. tracked' \in [Txns -> [Keys -> TrackedInfo]]  BY <1>3, <1>4 DEF TypeInv
<1>6. new_locks' = new_locks \/ new_locks' = [new_locks EXCEPT ![t] = @ \cup {k}]
  BY DEF TrackKey
<1>7. new_locks[t] = NoSavePoint => new_locks' = new_locks  BY DEF TrackKey
<1> QED  BY <1>5, <1>6, <1>7 DEF TypeInv

\* The types are preserved.
LEMMA TypeStep == TypeInv /\ [Next]_vars => TypeInv'
<1> SUFFICES ASSUME TypeInv, [Next]_vars PROVE TypeInv'  OBVIOUS
<1> USE NoCallType DEF LockInfo, lockVars, waitVars, txnVars, dbVars, userVars, Goto, Return
<1>1. ASSUME NEW t \in Txns, LockStep(t), UNCHANGED <<dbVars, userVars>>
      PROVE  TypeInv'
  <2> DEFINE info == keys[call[t].key]
  <2>0. /\ call[t] \in CallInfo
        /\ call[t].key \in Keys
        /\ info \in LockInfo
        /\ info.txn_ids \subseteq Txns
        /\ info.expiration_time \in Int
        /\ expiration_time[t] \in Int
        /\ NewLockInfo(t) \in LockInfo
        /\ MyStripe(t) \in Stripes
    BY OptionTypes DEF TypeInv, CallInfo, NewLockInfo, MyStripe, GetStripe
  <2>1. CASE Deadline(t)
    BY ZenonT(30), <1>1, <2>1 DEF Deadline, TypeInv, CallInfo
  <2>2. CASE MutexTimeout(t)
    BY <1>1, <2>2 DEF MutexTimeout, TypeInv, Labels
  <2>3. CASE AcquireOwn(t)
    BY <1>1, <2>0, <2>3 DEF AcquireOwn, Attempt, Lock, TypeInv, Labels
  <2>4. CASE AcquireExpired(t)
    BY <1>1, <2>0, <2>4 DEF AcquireExpired, Attempt, Lock, Stolen, TypeInv, Labels, States
  <2>5. CASE StealRefused(t)
    <3> DEFINE c == [call[t] EXCEPT !.hint = 0, !.wait_ids = info.txn_ids,
                                    !.busy = FALSE]
    <3>1. c \in CallInfo  BY <2>0, 0 \in Int, WaitNoteType, ZenonT(30)
    <3>2. Fail(t, c)  BY <2>5 DEF StealRefused
    <3>3. txn_state' \in [Txns -> States]
      BY <2>5 DEF StealRefused, Stolen, TypeInv, States
    <3> HIDE DEF c
    <3> QED  BY <1>1, <2>5, <3>1, <3>2, <3>3, FailType DEF StealRefused, Attempt, TypeInv
  <2>6. CASE AcquireHeld(t)
    <3> DEFINE c == [call[t] EXCEPT !.hint = info.expiration_time,
                                    !.wait_ids = info.txn_ids, !.busy = FALSE]
    <3>1. c \in CallInfo  BY ZenonT(30), <2>0, WaitNoteType
    <3>2. Fail(t, c)  BY <2>6 DEF AcquireHeld
    <3> HIDE DEF c
    <3> QED  BY <1>1, <2>6, <3>1, <3>2, FailType DEF AcquireHeld, Attempt, TypeInv
  <2>7. CASE AcquireShared(t)
    <3> DEFINE i == [info EXCEPT !.txn_ids = @ \cup {t},
                                 !.expiration_time = Max({@, expiration_time[t]})]
    <3>1. Max({info.expiration_time, expiration_time[t]}) \in Int
      BY <2>0, MaxMinOfTwo
    <3>2. i \in LockInfo  BY ZenonT(30), <2>0, <3>1
    <3>3. Lock(t, i)  BY <2>7 DEF AcquireShared
    <3> HIDE DEF i
    <3> QED  BY <1>1, <2>0, <2>7, <3>2, <3>3 DEF AcquireShared, Attempt, Lock, TypeInv, Labels
  <2>8. CASE LimitReached(t)
    <3> DEFINE c == [call[t] EXCEPT !.busy = TRUE]
    <3>1. c \in CallInfo  BY ZenonT(30), <2>0 DEF CallInfo
    <3>2. Fail(t, c)  BY <2>8 DEF LimitReached
    <3> HIDE DEF c
    <3> QED  BY <1>1, <2>8, <3>1, <3>2, FailType DEF LimitReached, Attempt, TypeInv
  <2>9. CASE AcquireFree(t)
    <3>1. pc' \in [Txns -> Labels]
      BY ZenonT(30), <2>9 DEF AcquireFree, Lock, TypeInv, Labels
    <3>2. keys' = keys \/ keys' = [keys EXCEPT ![call[t].key] = NewLockInfo(t)]
      BY <2>9 DEF AcquireFree, Lock
    <3>3. stripe_mutex' \in [Stripes -> Txns \cup {NoTxn}]
      BY ZenonT(30), <2>0, <2>9 DEF AcquireFree, TypeInv
    <3> QED  BY <1>1, <2>0, <2>9, <3>1, <3>2, <3>3 DEF AcquireFree, Attempt, TypeInv
  <2>10. CASE Emplace(t)
    BY <1>1, <2>0, <2>10 DEF Emplace, Lock, TypeInv, Labels
  <2>11. CASE StartWait(t)
    <3>1. pc' \in [Txns -> Labels]
      BY ZenonT(30), <2>11 DEF StartWait, TypeInv, Labels
    <3>2. call' \in [Txns -> CallInfo]
      BY <2>11 DEF StartWait, TypeInv
    <3>3. stripe_mutex' \in [Stripes -> Txns \cup {NoTxn}]
      BY <2>0, <2>11 DEF StartWait, TypeInv
    <3> QED  BY <1>1, <2>11, <3>1, <3>2, <3>3 DEF StartWait, TypeInv
  <2>12. CASE CvTimeout(t)
    BY ZenonT(30), <1>1, <2>12 DEF CvTimeout, TypeInv, CallInfo, Labels
  <2>13. ASSUME NEW s \in Stripes, UnLockStripe(t, s) PROVE TypeInv'
    <3> DEFINE K == {k \in call[t].todo : GetStripe(k) = s}
               c == CHOOSE k \in K : TRUE
    <3>1. K \subseteq Keys /\ c \in Keys
      BY <2>13 DEF UnLockStripe, TypeInv, CallInfo
    <3>2. \A k \in Keys : UnLockKey(t, keys[k]) \in LockInfo
      <4> SUFFICES ASSUME NEW k \in Keys PROVE UnLockKey(t, keys[k]) \in LockInfo  OBVIOUS
      <4>1. keys[k] \in LockInfo  BY DEF TypeInv
      <4> QED  BY <4>1 DEF UnLockKey, Unlocked
    <3>3. call' = [call EXCEPT ![t].todo = @ \ K, ![t].key = c]  BY <2>13 DEF UnLockStripe
    <3> HIDE DEF c, K
    <3>4. call' \in [Txns -> CallInfo]
      <4>1. [call[t] EXCEPT !.todo = @ \ K, !.key = c] \in CallInfo
        BY ZenonT(30), <2>0, <3>1 DEF CallInfo
      <4> QED  BY <3>3, <4>1 DEF TypeInv
    <3>5. keys' \in [Keys -> LockInfo]  BY <2>13, <3>2 DEF UnLockStripe, TypeInv
    <3> QED  BY <1>1, <2>13, <3>4, <3>5 DEF UnLockStripe, TypeInv, Labels
  <2>14. CASE NotifyAll(t)
    BY ZenonT(30), <1>1, <2>14 DEF NotifyAll, TypeInv, CallInfo, Labels
  <2> QED
    BY <1>1, <2>1, <2>2, <2>3, <2>4, <2>5, <2>6, <2>7, <2>8, <2>9, <2>10, <2>11, <2>12,
       <2>13, <2>14 DEF LockStep
<1>2. ASSUME NEW t \in Txns, Step(t), ~(LockStep(t) /\ UNCHANGED <<dbVars, userVars>>)
      PROVE  TypeInv'
  <2>1. CASE Begin(t)
    BY <2>1, OptionTypes, SequenceAssumption DEF Begin, TypeInv, Labels
  <2>2. ASSUME NEW r \in Requests(t), TryLock(t, r.key, r.exclusive, r.validate)
        PROVE  TypeInv'
    <3>1. r.key \in Keys /\ r.exclusive \in BOOLEAN /\ r.validate \in BOOLEAN
      BY OptionTypes DEF Requests
    <3>2. \A then \in Thens :
            [[NoCall EXCEPT !.validate = r.validate, !.then = then]
                EXCEPT !.key = r.key, !.exclusive = r.exclusive] \in CallInfo
      BY ZenonT(30), <3>1 DEF CallInfo
    <3>3. PICK then \in Thens : call' = [call EXCEPT ![t] =
            [[NoCall EXCEPT !.validate = r.validate, !.then = then]
                EXCEPT !.key = r.key, !.exclusive = r.exclusive]]
      BY ZenonT(30), <2>2 DEF TryLock, CallTryLock, Thens
    <3>4. call' \in [Txns -> CallInfo]  BY ZenonT(30), <3>2, <3>3 DEF TypeInv
    <3>5. pc' \in [Txns -> Labels]  BY ZenonT(30), <2>2 DEF TryLock, CallTryLock, TypeInv, Labels
    <3> QED  BY <2>2, <3>4, <3>5 DEF TryLock, TypeInv
  <2>3. CASE LockGranted(t)
    <3> DEFINE k == call[t].key
               i == tracked[t][k]
    <3>1. /\ call[t] \in CallInfo /\ k \in Keys /\ call[t].exclusive \in BOOLEAN
          /\ tracked[t] \in [Keys -> TrackedInfo]
          /\ i.seq \in Int /\ i.exclusive \in BOOLEAN
          /\ snapshot[t] \in Int /\ seq \in Int
      BY DEF TypeInv, CallInfo, TrackedInfo
    <3>2. Min({i.seq, snapshot[t]}) \in Int /\ Min({i.seq, seq}) \in Int
      BY ZenonT(30), <3>1, MaxMinOfTwo
    <3>3. \/ UNCHANGED <<tracked, new_locks>>
          \/ \E s \in Int, ex \in BOOLEAN : TrackKey(t, k, s, ex)
      BY ZenonT(30), <2>3, <3>2 DEF LockGranted
    <3>4. /\ tracked' \in [Txns -> [Keys -> TrackedInfo]]
          /\ new_locks' \in [Txns -> (SUBSET Keys) \cup {NoSavePoint}]
      BY <3>1, <3>3, TrackKeyType DEF TypeInv
    <3>5. pc' \in [Txns -> Labels]
      BY ZenonT(30), <2>3 DEF LockGranted, CallTryLock, CallUnLock, TypeInv, Labels
    <3>6. /\ [[NoCall EXCEPT !.then = "downgrade"] EXCEPT !.key = k, !.exclusive = FALSE]
                \in CallInfo
          /\ [[call[t] EXCEPT !.then = "invalid"] EXCEPT !.todo = {k}] \in CallInfo
      BY ZenonT(30), <3>1 DEF CallInfo, Thens
    <3>7. \E c \in CallInfo : call' = [call EXCEPT ![t] = c]
      BY <2>3, <3>6 DEF LockGranted, CallTryLock, CallUnLock
    <3>8. call' \in [Txns -> CallInfo]  BY <3>7 DEF TypeInv
    <3> QED  BY <2>3, <3>4, <3>5, <3>8 DEF LockGranted, TypeInv
  <2>4. CASE SetSavePoint(t)
    BY <2>4 DEF SetSavePoint, TypeInv
  <2>5. CASE RollbackToSavePoint(t)
    <3>1. new_locks[t] \subseteq Keys  BY <2>5 DEF RollbackToSavePoint, TypeInv
    <3> QED  BY ZenonT(30), <2>5, <3>1, UnLockType DEF RollbackToSavePoint, TypeInv, Thens
  <2>6. CASE Prepare(t)
    BY <2>6 DEF Prepare, CheckExpired, TypeInv, Labels
  <2>7. CASE PrepareState(t)
    <3>1. pc' \in [Txns -> Labels]  BY <2>7 DEF PrepareState, TypeInv, Labels
    <3>2. txn_state' \in [Txns -> States]  BY <2>7 DEF PrepareState, State, TypeInv, States
    <3> QED  BY <2>7, <3>1, <3>2 DEF PrepareState, TypeInv
  <2>8. CASE PrepareInternal(t)
    BY <2>8 DEF PrepareInternal, State, TypeInv, Labels, States
  <2>9. CASE Commit(t)
    BY <2>9 DEF Commit, CheckExpired, TypeInv, Labels
  <2>10. CASE CommitState(t)
    <3>1. \A then \in {"prepared", "commit"} : [call[t] EXCEPT !.then = then] \in CallInfo
      BY ZenonT(30) DEF TypeInv, CallInfo, Thens
    <3>2. \/ call' = [call EXCEPT ![t] = NoCall]
          \/ \E then \in {"prepared", "commit"} : call' = [call EXCEPT ![t].then = then]
      BY <2>10 DEF CommitState
    <3>3. call' \in [Txns -> CallInfo]  BY ZenonT(30), <3>1, <3>2 DEF TypeInv
    <3> QED  BY ZenonT(30), <2>10, <3>3 DEF CommitState, State, TypeInv, Labels, States
  <2> DEFINE Unlocks(then) == CallUnLock(t, Tracked(t), [NoCall EXCEPT !.then = then])
  <2>11. ASSUME NEW then \in Thens, Unlocks(then)
         PROVE  pc' \in [Txns -> Labels] /\ call' \in [Txns -> CallInfo]
    BY ZenonT(30), <2>11, UnLockType DEF Tracked
  <2>12. ASSUME Return(t)
         PROVE  pc' \in [Txns -> Labels] /\ call' \in [Txns -> CallInfo]
    BY <2>12 DEF TypeInv, Labels
  <2>13. CASE CommitInternal(t)
    <3>1. Unlocks("committed") \/ Unlocks("clear") \/ Return(t)  BY <2>13 DEF CommitInternal
    <3>2. seq' \in Int  BY <2>13 DEF CommitInternal, TypeInv
    <3> HIDE DEF Unlocks
    <3> QED  BY <2>11, <2>12, <2>13, <3>1, <3>2 DEF CommitInternal, TypeInv, Thens
  <2>14. CASE Rollback(t)
    <3>1. \/ pc' = [pc EXCEPT ![t] = "rollback"] /\ UNCHANGED call
          \/ Unlocks("clear")
      BY <2>14 DEF Rollback
    <3>2. txn_state' \in [Txns -> States]  BY ZenonT(30), <2>14 DEF Rollback, State, TypeInv, States
    <3> HIDE DEF Unlocks
    <3> QED  BY ZenonT(30), <2>11, <2>14, <3>1, <3>2 DEF Rollback, TypeInv, Labels, Thens
  <2>15. CASE RollbackInternal(t)
    <3>1. Unlocks("rolledback") \/ Return(t)  BY <2>15 DEF RollbackInternal
    <3> HIDE DEF Unlocks
    <3> QED  BY <2>11, <2>12, <2>15, <3>1 DEF RollbackInternal, TypeInv, Thens
  <2>16. CASE Destroy(t)
    <3>1. Unlocks("destroy")  BY <2>16 DEF Destroy
    <3> HIDE DEF Unlocks
    <3> QED  BY <2>11, <2>16, <3>1 DEF Destroy, TypeInv, Thens
  <2>17. CASE UnLocked(t)
    <3>1. tracked' \in [Txns -> [Keys -> TrackedInfo]]
      BY <2>17, SequenceAssumption DEF UnLocked, Untracked, TypeInv, TrackedInfo
    <3>2. txn_state' \in [Txns -> States]  BY <2>17 DEF UnLocked, TypeInv, States
    <3>3. new_locks' \in [Txns -> (SUBSET Keys) \cup {NoSavePoint}]
      BY <2>17 DEF UnLocked, TypeInv
    <3> QED  BY <2>17, <3>1, <3>2, <3>3 DEF UnLocked, TypeInv, Labels
  <2> QED
    BY <1>2, <2>1, <2>2, <2>3, <2>4, <2>5, <2>6, <2>7, <2>8, <2>9, <2>10, <2>13, <2>14,
       <2>15, <2>16, <2>17 DEF Step
<1>3. CASE Tick /\ UNCHANGED <<dbVars, userVars>>
  BY <1>3 DEF Tick, TypeInv
<1>4. CASE UNCHANGED vars
  BY <1>4 DEF vars, TypeInv
<1> QED  BY <1>1, <1>2, <1>3, <1>4 DEF Next

\* Every variable keeps its type.
THEOREM TypeCorrect == Spec => []TypeInv
<1> QED  BY InitType, TypeStep, PTL DEF Spec

-----------------------------------------------------------------------------
(* What the steps change, for the proofs of the invariants. *)

\* What an attempt that does not get the lock changes: t returns, or goes on to wait
\* with the stripe's mutex; transactions may have lost their locks.
LEMMA FailedAttempt ==
    ASSUME TypeInv, NEW t \in Txns, StealRefused(t) \/ AcquireHeld(t) \/ LimitReached(t)
    PROVE  /\ UNCHANGED <<options, keys, expiration_time, expirable_transactions_map>>
           /\ pc[t] = "lock" /\ stripe_mutex[MyStripe(t)] = NoTxn
           /\ \A u \in Txns \ {t} : pc'[u] = pc[u] /\ call'[u] = call[u]
           /\ \A u \in Txns :
                 \/ txn_state'[u] = txn_state[u]
                 \/ txn_state[u] = "STARTED" /\ txn_state'[u] = "LOCKS_STOLEN"
           /\ \/ pc'[t] = "ready" /\ stripe_mutex' = stripe_mutex
              \/ /\ pc'[t] = "decide"
                 /\ call'[t].key = call[t].key /\ call'[t].then = call[t].then
                 /\ stripe_mutex' = [stripe_mutex EXCEPT ![MyStripe(t)] = t]
<1> USE DEF Attempt, lockVars, txnVars
<1>1. PICK c : /\ Fail(t, c) /\ c.key = call[t].key /\ c.then = call[t].then
  <2> DEFINE info == keys[call[t].key]
             c1 == [call[t] EXCEPT !.hint = 0, !.wait_ids = info.txn_ids, !.busy = FALSE]
             c2 == [call[t] EXCEPT !.hint = info.expiration_time, !.wait_ids = info.txn_ids,
                                   !.busy = FALSE]
             c3 == [call[t] EXCEPT !.busy = TRUE]
  <2>1. Fail(t, c1) \/ Fail(t, c2) \/ Fail(t, c3)
    BY DEF StealRefused, AcquireHeld, LimitReached
  <2>2. call[t] \in CallInfo  BY DEF TypeInv
  <2>3. \A c \in {c1, c2, c3} : c.key = call[t].key /\ c.then = call[t].then
    <3>1. c1.key = call[t].key /\ c1.then = call[t].then  BY <2>2 DEF CallInfo
    <3>2. c2.key = call[t].key /\ c2.then = call[t].then  BY <2>2 DEF CallInfo
    <3>3. c3.key = call[t].key /\ c3.then = call[t].then  BY <2>2 DEF CallInfo
    <3> QED  BY ZenonT(30), <3>1, <3>2, <3>3
  <2> HIDE DEF c1, c2, c3
  <2> QED  BY <2>1, <2>3
<1>2. /\ \A u \in Txns \ {t} : pc'[u] = pc[u] /\ call'[u] = call[u]
      /\ \/ pc'[t] = "ready" /\ stripe_mutex' = stripe_mutex
         \/ /\ pc'[t] = "decide"
            /\ call'[t].key = call[t].key /\ call'[t].then = call[t].then
            /\ stripe_mutex' = [stripe_mutex EXCEPT ![MyStripe(t)] = t]
  BY <1>1 DEF Fail, Return, Goto, TypeInv
<1>3. ASSUME NEW u \in Txns
      PROVE  \/ txn_state'[u] = txn_state[u]
             \/ txn_state[u] = "STARTED" /\ txn_state'[u] = "LOCKS_STOLEN"
  BY DEF StealRefused, AcquireHeld, LimitReached, Stolen, Unstealable, TypeInv
<1>4. /\ UNCHANGED <<options, keys, expiration_time, expirable_transactions_map>>
      /\ pc[t] = "lock" /\ stripe_mutex[MyStripe(t)] = NoTxn
  BY DEF StealRefused, AcquireHeld, LimitReached
<1> QED  BY <1>2, <1>3, <1>4

\* What a call of UnLock changes.
LEMMA UnLockCalled ==
    ASSUME TypeInv, NEW t \in Txns, NEW K \in SUBSET Keys, NEW then,
           CallUnLock(t, K, [NoCall EXCEPT !.then = then])
    PROVE  /\ \A u \in Txns \ {t} : pc'[u] = pc[u] /\ call'[u] = call[u]
           /\ pc'[t] = "unlock" \/ (pc'[t] = "unlocked" /\ K = {})
           /\ call'[t].todo = K /\ call'[t].then = then
<1>1. /\ [[NoCall EXCEPT !.then = then] EXCEPT !.todo = K].todo = K
      /\ [[NoCall EXCEPT !.then = then] EXCEPT !.todo = K].then = then
  BY DEF NoCall
<1> QED  BY <1>1 DEF CallUnLock, Goto, TypeInv

\* The steps of transactions outside the lock manager leave the lock table alone.
LEMMA TxnStepFrame ==
    ASSUME TypeInv, NEW t \in Txns, Step(t), ~(LockStep(t) /\ UNCHANGED <<dbVars, userVars>>)
    PROVE  /\ UNCHANGED <<options, keys, stripe_mutex>>
           /\ \A u \in Txns \ {t} : pc'[u] = pc[u] /\ call'[u] = call[u]
           /\ pc'[t] \notin {"emplace", "decide", "new"}
           /\ pc[t] \notin {"emplace", "decide"}
<1> USE DEF lockVars, Goto, Return
<1> DEFINE P == /\ UNCHANGED <<options, keys, stripe_mutex>>
                /\ \A u \in Txns \ {t} : pc'[u] = pc[u] /\ call'[u] = call[u]
                /\ pc'[t] \notin {"emplace", "decide", "new"}
                /\ pc[t] \notin {"emplace", "decide"}
<1>1. CASE Begin(t)  BY ZenonT(30), <1>1 DEF Begin, TypeInv
<1>2. ASSUME NEW r \in Requests(t), TryLock(t, r.key, r.exclusive, r.validate)  PROVE P
  BY <1>2 DEF TryLock, CallTryLock, TypeInv
<1>3. CASE LockGranted(t)  BY ZenonT(30), <1>3 DEF LockGranted, CallTryLock, CallUnLock, TypeInv
<1>4. CASE SetSavePoint(t)  BY <1>4 DEF SetSavePoint, TypeInv
<1>5. CASE RollbackToSavePoint(t)  BY <1>5 DEF RollbackToSavePoint, CallUnLock, TypeInv
<1>6. CASE Prepare(t) \/ Commit(t)  BY ZenonT(30), <1>6 DEF Prepare, Commit, CheckExpired, TypeInv
<1>7. CASE PrepareState(t)  BY <1>7 DEF PrepareState, TypeInv
<1>8. CASE PrepareInternal(t)  BY <1>8 DEF PrepareInternal, TypeInv
<1>9. CASE CommitState(t)  BY <1>9 DEF CommitState, TypeInv
<1>10. CASE CommitInternal(t)  BY <1>10 DEF CommitInternal, CallUnLock, TypeInv
<1>11. CASE Rollback(t)  BY <1>11 DEF Rollback, CallUnLock, TypeInv
<1>12. CASE RollbackInternal(t)  BY <1>12 DEF RollbackInternal, CallUnLock, TypeInv
<1>13. CASE Destroy(t)  BY <1>13 DEF Destroy, CallUnLock, TypeInv
<1>14. CASE UnLocked(t)  BY <1>14 DEF UnLocked, TypeInv
<1> QED
  BY ZenonT(30), <1>1, <1>2, <1>3, <1>4, <1>5, <1>6, <1>7, <1>8, <1>9, <1>10, <1>11, <1>12, <1>13, <1>14
  DEF Step
=============================================================================
