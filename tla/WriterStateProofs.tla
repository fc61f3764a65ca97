------------------------- MODULE WriterStateProofs -------------------------
(***************************************************************************)
(* Proofs about WriterState, for a write group of any size: nobody leaves  *)
(* the group before everybody has inserted, and no thread touches the      *)
(* Writer of a thread that has returned.                                   *)
(***************************************************************************)
EXTENDS WriterState, FiniteSetTheorems, SequenceTheorems, TLAPS

USE SMTT(30), ZenonT(30)

\* The threads that have not counted themselves out of write_group->running.
Active == {t \in Writers : phase[t] = 1 \/ pc[t] \in {"report", "finish", "hung"}}

\* write_group->running counts them, and until it is 0 nobody is completed or leaves.
CountInv ==
    /\ running = Cardinality(Active)
    /\ \A t \in Writers :
          \/ pc[t] = "done" \/ state[t] = "COMPLETED"
          \/ phase[t] = 2 /\ pc[t] \in Setting \cup {"got"}
          => Active = {}

\* What a thread that waits, or has waited, knows of its own state.
WaiterOk(t) ==
    /\ phase[t] = 1 /\ pc[t] \in {"spin", "load", "cas", "lock", "check", "wait"} =>
           t # Leader /\ state[t] \in {"INIT", "LOCKED_WAITING", "PARALLEL"}
    /\ phase[t] = 1 /\ pc[t] = "got" => state[t] = "PARALLEL"
    /\ phase[t] = 1 => pc[t] \in {"spin", "load", "cas", "lock", "check", "wait", "got"} \cup Setting
    /\ phase[t] = 2 => state[t] \in {"PARALLEL", "LOCKED_WAITING", "COMPLETED"}
    /\ phase[t] = 2 /\ pc[t] = "got" => state[t] = "COMPLETED"
    /\ state[t] = "LOCKED_WAITING" => pc[t] \in {"lock", "check", "wait"}
    /\ pc[t] \in {"lock", "check", "wait"} => state[t] \in Goal(t) \cup {"LOCKED_WAITING"}
    /\ pc[t] = "cas" => old[t] # "LOCKED_WAITING" /\ state[t] \in Goal(t) \cup {old[t]}
    /\ pc[t] = "check" => mutex[t] = t

WaiterInv == \A t \in Writers : WaiterOk(t)

\* The writers t has still to set: at "unlock" the first has been set.
Pending(t) ==
    {targets[t][i] : i \in {j \in DOMAIN targets[t] : pc[t] = "unlock" => j # 1}}

\* What a thread that sets the states of others knows of them.
SetterOk(t) ==
    /\ targets[t] # <<>>
    /\ \A i, j \in DOMAIN targets[t] : targets[t][i] = targets[t][j] => i = j
    /\ phase[t] = 1 =>
           /\ t = Leader
           /\ \A w \in Pending(t) : phase[w] = 1 /\ state[w] \notin Goal(w)
           /\ state[t] = "PARALLEL" \/ t \in Pending(t)
    /\ phase[t] = 2 =>
           /\ \A w \in Pending(t) : state[w] # "COMPLETED"
           /\ t = Leader \/ targets[t][Len(targets[t])] = Leader
           /\ \A w \in Writers : pc[w] = "done" => state[w] = "COMPLETED"
    /\ pc[t] \in {"setlock", "store"} => state[Target(t)] = "LOCKED_WAITING"
    /\ pc[t] = "store" => pc[Target(t)] \in {"lock", "wait"}
    /\ pc[t] = "unlock" => pc[Target(t)] = "lock"
    /\ pc[t] \in {"store", "unlock"} => mutex[Target(t)] = t

SetterInv == \A t \in Writers : pc[t] \in Setting =>
                 /\ SetterOk(t)
                 /\ \A u \in Writers : pc[u] \in Setting => u = t

IInv == TypeOK /\ CountInv /\ WaiterInv /\ SetterInv

-----------------------------------------------------------------------------
\* The group is finite and has as many writers as members.
LEMMA WritersFinite ==
    IsFiniteSet(Writers) /\ Cardinality(Writers) = Len(Members) /\ Leader \in Writers
<1>1. Members \in Bijection(1 .. Len(Members), Writers)
  <2>1. Members \in [1 .. Len(Members) -> Writers]  BY GroupAssumption
  <2>2. DOMAIN Members = 1 .. Len(Members)  BY GroupAssumption
  <2> QED  BY <2>1, <2>2, GroupAssumption DEF Writers, Bijection, Injection, IsInjective, Surjection
<1>2. Len(Members) \in Nat /\ Len(Members) # 0  BY GroupAssumption
<1>3. IsFiniteSet(1 .. Len(Members)) /\ Cardinality(1 .. Len(Members)) = Len(Members)
  BY <1>2, FS_Interval
<1>4. IsFiniteSet(Writers) /\ Cardinality(Writers) = Len(Members)
  BY <1>1, <1>3, FS_Bijection DEF ExistsBijection
<1>5. Leader \in Writers  BY <1>2, GroupAssumption DEF Leader, Writers
<1> QED  BY <1>4, <1>5

\* Whom the last to finish completes: others, each once, and the leader last if it is
\* not the leader itself.
LEMMA ExitOrderIs ==
    ASSUME NEW t \in Writers
    PROVE  /\ ExitOrder(t) \in Seq(Writers)
           /\ \A i, j \in DOMAIN ExitOrder(t) : ExitOrder(t)[i] = ExitOrder(t)[j] => i = j
           /\ t # Leader =>
                  ExitOrder(t) # <<>> /\ ExitOrder(t)[Len(ExitOrder(t))] = Leader
<1> DEFINE n == Len(Members)
           f == [i \in 1 .. n - 1 |-> Members[n + 1 - i]]
<1>1. n \in Nat /\ n >= 1 /\ DOMAIN Members = 1 .. n /\ \A i \in 1 .. n : Members[i] \in Writers
  BY GroupAssumption
<1>2. f \in Seq(Writers) /\ Len(f) = n - 1
  BY <1>1
<1>3. \A i, j \in 1 .. n - 1 : f[i] = f[j] => i = j
  BY <1>1, GroupAssumption
<1>4. \A i \in 1 .. n - 1 : f[i] # Leader
  BY <1>1, GroupAssumption DEF Leader
<1>5. CASE t = Leader
  BY <1>2, <1>3, <1>5 DEF ExitOrder
<1>6. CASE t # Leader
  <2>1. ExitOrder(t) = Append(f, Leader)  BY <1>6, ZenonT(30) DEF ExitOrder
  <2> HIDE DEF f, n
  <2> DEFINE g == Append(f, Leader)
  <2>2. /\ g \in Seq(Writers) /\ Len(g) = Len(f) + 1
        /\ \A i \in 1 .. Len(f) : g[i] = f[i]
        /\ g[Len(f) + 1] = Leader
    BY <1>2, WritersFinite, AppendProperties
  <2> HIDE DEF g
  <2>3. DOMAIN g = 1 .. n /\ g[n] = Leader /\ \A i \in 1 .. n - 1 : g[i] = f[i]
    BY <1>1, <1>2, <2>2
  <2>4. ASSUME NEW i \in 1 .. n, NEW j \in 1 .. n, g[i] = g[j], i # j  PROVE FALSE
    <3>1. CASE i = n  BY <1>1, <1>4, <2>3, <2>4, <3>1
    <3>2. CASE j = n  BY <1>1, <1>4, <2>3, <2>4, <3>2
    <3> QED  BY <1>1, <1>3, <2>3, <2>4, <3>1, <3>2
  <2>5. g # <<>> /\ g[Len(g)] = Leader  BY <1>1, <1>2, <2>2
  <2> QED  BY <1>1, <2>1, <2>2, <2>3, <2>4, <2>5 DEF g
<1> QED  BY <1>5, <1>6

\* The writers a setter has yet to set.
LEMMA TargetsOf ==
    ASSUME TypeOK, NEW t \in Writers, pc[t] \in Setting, SetterOk(t)
    PROVE  /\ Target(t) \in Writers
           /\ Tail(targets[t]) \in Seq(Writers)
           /\ Target(t) \notin {Tail(targets[t])[i] : i \in DOMAIN Tail(targets[t])}
           /\ \A i, j \in DOMAIN Tail(targets[t]) :
                  Tail(targets[t])[i] = Tail(targets[t])[j] => i = j
           /\ Pending(t) = {Tail(targets[t])[i] : i \in DOMAIN Tail(targets[t])} \cup
                               (IF pc[t] = "unlock" THEN {} ELSE {Target(t)})
           /\ Tail(targets[t]) # <<>> =>
                  Tail(targets[t])[Len(Tail(targets[t]))] = targets[t][Len(targets[t])]
           /\ Tail(targets[t]) = <<>> => Target(t) = targets[t][Len(targets[t])]
<1> DEFINE s == targets[t]
           r == Tail(s)
<1>1. s \in Seq(Writers) /\ s # <<>>  BY DEF TypeOK, SetterOk
<1>2. \A i, j \in DOMAIN s : s[i] = s[j] => i = j  BY DEF SetterOk
<1>3. Pending(t) = {s[i] : i \in {j \in DOMAIN s : pc[t] = "unlock" => j # 1}}
  BY DEF Pending
<1>4. Target(t) = s[1]  BY DEF Target
<1> HIDE DEF s
<1>5. r \in Seq(Writers) /\ Len(r) = Len(s) - 1 /\ \A i \in 1 .. Len(r) : r[i] = s[i + 1]
  BY <1>1, HeadTailProperties
<1> HIDE DEF r
<1>6. /\ Len(s) \in Nat /\ Len(s) >= 1 /\ DOMAIN s = 1 .. Len(s) /\ s[1] \in Writers
      /\ DOMAIN r = 1 .. Len(s) - 1 /\ \A i \in 1 .. Len(s) - 1 : r[i] = s[i + 1]
  BY <1>1, <1>5
<1>m. \A i \in DOMAIN r : i \in Nat /\ i >= 1 /\ i + 1 \in DOMAIN s /\ r[i] = s[i + 1]  BY ONLY <1>6
<1>7. s[1] \notin {r[i] : i \in DOMAIN r}
  <2> SUFFICES ASSUME NEW i \in DOMAIN r, r[i] = s[1] PROVE FALSE  OBVIOUS
  <2>1. i \in Nat /\ i >= 1 /\ i + 1 \in DOMAIN s /\ r[i] = s[i + 1]  BY ONLY <1>m
  <2>2. 1 \in DOMAIN s  BY ONLY <1>6
  <2>3. i + 1 = 1  BY ONLY ZenonT(30), <1>2, <2>1, <2>2, r[i] = s[1]
  <2> QED  BY ONLY <2>1, <2>3
<1>8. \A i, j \in DOMAIN r : r[i] = r[j] => i = j
  <2> SUFFICES ASSUME NEW i \in DOMAIN r, NEW j \in DOMAIN r, r[i] = r[j] PROVE i = j  OBVIOUS
  <2>1. i \in Nat /\ i >= 1 /\ i + 1 \in DOMAIN s /\ r[i] = s[i + 1]  BY ONLY <1>m
  <2>2. j \in Nat /\ j + 1 \in DOMAIN s /\ r[j] = s[j + 1]  BY ONLY <1>m
  <2>3. i + 1 = j + 1  BY ONLY ZenonT(30), <1>2, <2>1, <2>2, r[i] = r[j]
  <2> QED  BY ONLY <2>1, <2>2, <2>3
<1>9. {s[i] : i \in DOMAIN s \ {1}} = {r[i] : i \in DOMAIN r}
  <2>1. ASSUME NEW i \in DOMAIN s \ {1} PROVE s[i] \in {r[j] : j \in DOMAIN r}
    <3>1. i - 1 \in DOMAIN r /\ r[i - 1] = s[i]  BY <1>6
    <3> QED  BY <3>1
  <2>2. ASSUME NEW i \in DOMAIN r PROVE r[i] \in {s[j] : j \in DOMAIN s \ {1}}
    <3>1. i + 1 \in DOMAIN s \ {1} /\ s[i + 1] = r[i]  BY <1>6
    <3> QED  BY <3>1
  <2> QED  BY <2>1, <2>2
<1>l. (r # <<>> => r[Len(r)] = s[Len(s)]) /\ (r = <<>> => s[1] = s[Len(s)])
  BY <1>5, <1>6
<1>10. CASE pc[t] = "unlock"
  <2>1. {j \in DOMAIN s : pc[t] = "unlock" => j # 1} = DOMAIN s \ {1}  BY <1>10
  <2>2. Pending(t) = {r[i] : i \in DOMAIN r}  BY <1>3, <1>9, <2>1
  <2> QED  BY <1>4, <1>5, <1>6, <1>7, <1>8, <1>10, <1>l, <2>2 DEF s, r
<1>11. CASE pc[t] # "unlock"
  <2>1. {j \in DOMAIN s : pc[t] = "unlock" => j # 1} = (DOMAIN s \ {1}) \cup {1}
    BY <1>6, <1>11
  <2>2. Pending(t) = {s[i] : i \in (DOMAIN s \ {1}) \cup {1}}  BY <1>3, <2>1
  <2>3. Pending(t) = {s[i] : i \in DOMAIN s \ {1}} \cup {s[1]}  BY <2>2
  <2>4. Pending(t) = {r[i] : i \in DOMAIN r} \cup {s[1]}  BY <1>9, <2>3, ZenonT(30)
  <2> QED  BY <1>4, <1>5, <1>6, <1>7, <1>8, <1>11, <1>l, <2>4 DEF s, r
<1> QED  BY <1>10, <1>11

-----------------------------------------------------------------------------
\* Every step keeps the types.
LEMMA TypeStep == IInv /\ [Next]_vars => TypeOK'
<1> SUFFICES ASSUME IInv, [Next]_vars PROVE TypeOK'  OBVIOUS
<1>a. TypeOK  BY DEF IInv
<1>1. ASSUME NEW t \in Writers, Step(t) \/ SpuriousWake(t)  PROVE TypeOK'
  <2>s. ASSUME pc[t] \in Setting
        PROVE  Target(t) \in Writers /\ Tail(targets[t]) \in Seq(Writers) /\ NewState(t) \in States
    <3>1. SetterOk(t)  BY <2>s DEF IInv, SetterInv
    <3> QED  BY <1>a, <2>s, <3>1, TargetsOf DEF NewState, States
  <2>1. CASE Spin(t) \/ Load(t) \/ Announce(t)
    <3>1. CASE Spin(t)  BY <1>a, <3>1, ZenonT(30) DEF Spin, Goes, TypeOK
    <3>2. CASE Load(t)  BY <1>a, <3>2, ZenonT(30) DEF Load, Goes, TypeOK
    <3>3. CASE Announce(t)  BY <1>a, <3>3, ZenonT(30) DEF Announce, Goes, TypeOK, States
    <3> QED  BY <2>1, <3>1, <3>2, <3>3
  <2>2. CASE LockOwn(t) \/ Check(t) \/ SpuriousWake(t)
    <3>1. CASE LockOwn(t)  BY <1>a, <3>1 DEF LockOwn, TypeOK
    <3>2. CASE Check(t)  BY <1>a, <3>2 DEF Check, Goes, TypeOK
    <3>3. CASE SpuriousWake(t)  BY <1>a, <3>3 DEF SpuriousWake, TypeOK
    <3> QED  BY <2>2, <3>1, <3>2, <3>3
  <2>3. CASE SetState(t)
    <3>1. AfterSetting(t, Tail(targets[t])) \in {"set", "got", "done"}  BY DEF AfterSetting
    <3>2. CASE state[Target(t)] = "LOCKED_WAITING"
      BY <1>a, <2>3, <3>2, ZenonT(30) DEF SetState, TypeOK
    <3>3. CASE state[Target(t)] # "LOCKED_WAITING"
      <4>1. /\ pc[t] = "set"
            /\ state' = [state EXCEPT ![Target(t)] = NewState(t)]
            /\ targets' = [targets EXCEPT ![t] = Tail(@)]
            /\ pc' = [pc EXCEPT ![t] = AfterSetting(t, Tail(targets[t]))]
            /\ UNCHANGED <<phase, old, made, mutex, running, status, bad>>
        BY <2>3, <3>3 DEF SetState
      <4>2. /\ Target(t) \in Writers
            /\ Tail(targets[t]) \in Seq(Writers) /\ NewState(t) \in States
        BY <2>s, <4>1 DEF Setting
      <4> QED  BY <1>a, <3>1, <4>1, <4>2 DEF TypeOK
    <3> QED  BY <3>2, <3>3
  <2>4. CASE SetLock(t)
    BY <1>a, <2>s, <2>4 DEF SetLock, Setting, TypeOK
  <2>5. CASE Store(t)
    BY <1>a, <2>s, <2>5, ZenonT(30) DEF Store, Setting, TypeOK
  <2>6. CASE SetUnlock(t)
    <3>1. AfterSetting(t, Tail(targets[t])) \in {"set", "got", "done"}  BY DEF AfterSetting
    <3> QED  BY <1>a, <2>s, <2>6, <3>1 DEF SetUnlock, Setting, TypeOK
  <2>7. CASE Insert(t)
    <3>1. phase' \in [Writers -> 1 .. 2]  BY <1>a, <2>7 DEF Insert, TypeOK
    <3> QED  BY <1>a, <2>7, <3>1 DEF Insert, TypeOK
  <2>10. CASE Return(t)
    BY <1>a, <2>10 DEF Return, TypeOK
  <2>8. CASE ReportFailure(t)
    BY <1>a, <2>8, ZenonT(30) DEF ReportFailure, TypeOK
  <2>9. CASE Finish(t)
    <3>1. AfterSetting(t, ExitOrder(t)) \in {"set", "got", "done"}  BY DEF AfterSetting
    <3>2. ExitOrder(t) \in Seq(Writers)  BY ExitOrderIs
    <3>3. running' \in 0 .. Len(Members)
      BY <1>a, <2>9, GroupAssumption DEF Finish, TypeOK
    <3> QED  BY <1>a, <2>9, <3>1, <3>2, <3>3, ZenonT(30) DEF Finish, TypeOK
  <2> QED  BY <1>1, <2>1, <2>2, <2>3, <2>4, <2>5, <2>6, <2>7, <2>8, <2>9, <2>10 DEF Step
<1>2. CASE UNCHANGED vars
  BY <1>a, <1>2 DEF vars, TypeOK
<1> QED  BY <1>1, <1>2 DEF Next

-----------------------------------------------------------------------------
\* A thread that sets states has a next one to set, and somebody to set it for.
LEMMA Setter ==
    ASSUME IInv, NEW t \in Writers, pc[t] \in Setting
    PROVE  /\ SetterOk(t) /\ Target(t) \in Writers
           /\ \A u \in Writers : pc[u] \in Setting => u = t
           /\ phase[t] = 1 => NewState(t) = "PARALLEL"
           /\ phase[t] = 2 => NewState(t) = "COMPLETED" /\ Active = {}
           /\ phase[t] \in {1, 2}
<1>1. TypeOK /\ SetterOk(t)  BY DEF IInv, SetterInv
<1>2. Target(t) \in Writers  BY <1>1, TargetsOf
<1>3. \A u \in Writers : pc[u] \in Setting => u = t  BY DEF IInv, SetterInv
<1>4. phase[t] = 2 => Active = {}  BY DEF IInv, CountInv
<1>5. phase[t] \in {1, 2}  BY <1>1 DEF TypeOK
<1> QED  BY <1>1, <1>2, <1>3, <1>4, <1>5 DEF NewState

\* Until the last thread has counted itself out nobody is completed.
LEMMA CountStep == IInv /\ [Next]_vars => CountInv'
<1> SUFFICES ASSUME IInv, [Next]_vars PROVE CountInv'  OBVIOUS
<1>a. TypeOK /\ CountInv  BY DEF IInv
<1>1. ASSUME NEW t \in Writers, Step(t) \/ SpuriousWake(t)  PROVE CountInv'
  <2>w. WaiterOk(t)  BY DEF IInv, WaiterInv
  <2>g. ASSUME state[t] \in Goal(t), phase[t] = 2 PROVE Active = {}
    BY <1>a, <2>g DEF Goal, CountInv
  <2>1. CASE Spin(t) \/ Load(t)
    <3>1. Active' = Active  BY <1>a, <2>1 DEF Spin, Load, Goes, Active, TypeOK
    <3> QED  BY <1>a, <2>g, <2>1, <3>1 DEF Spin, Load, Goes, CountInv, TypeOK, Setting
  <2>2. CASE Announce(t)
    <3>1. Active' = Active  BY <1>a, <2>2 DEF Announce, Goes, Active, TypeOK
    <3>2. pc'[t] = "got" => state[t] \in Goal(t)
      BY <1>a, <2>w, <2>2 DEF Announce, WaiterOk, TypeOK
    <3> QED  BY <1>a, <2>g, <2>2, <3>1, <3>2, ZenonT(30) DEF Announce, Goes, CountInv, TypeOK, Setting
  <2>3. CASE LockOwn(t) \/ Check(t) \/ SpuriousWake(t)
    <3>1. Active' = Active  BY <1>a, <2>3 DEF LockOwn, Check, SpuriousWake, Goes, Active, TypeOK
    <3> QED  BY <1>a, <2>w, <2>g, <2>3, <3>1
             DEF LockOwn, Check, SpuriousWake, WaiterOk, Goes, CountInv, TypeOK, Setting
  <2>4. CASE SetState(t) \/ SetLock(t) \/ Store(t) \/ SetUnlock(t)
    <3>1. pc[t] \in Setting  BY <2>4 DEF SetState, SetLock, Store, SetUnlock, Setting
    <3>2. \A r : AfterSetting(t, r) \in {"set"} \cup (IF phase[t] = 1 THEN {"got"} ELSE {"done"})
      BY DEF AfterSetting
    <3>3. /\ Target(t) \in Writers /\ phase[t] \in {1, 2}
          /\ phase[t] = 1 => NewState(t) = "PARALLEL"
          /\ phase[t] = 2 => Active = {}
      BY <3>1, Setter
    <3>4. Active' = Active
      <4>1. \A u \in Writers : pc'[u] \in {"report", "finish", "hung"} <=>
                               pc[u] \in {"report", "finish", "hung"}
        <5>1. CASE SetState(t)
          <6>1. pc[t] = "set"  BY <5>1 DEF SetState
          <6>2. PICK x \in {"setlock", "set", "got", "done"} : pc' = [pc EXCEPT ![t] = x]
            BY <3>2, <5>1 DEF SetState
          <6> QED  BY <1>a, <6>1, <6>2 DEF TypeOK
        <5>2. CASE SetLock(t)  BY <1>a, <5>2 DEF SetLock, TypeOK
        <5>3. CASE Store(t)  BY <1>a, <3>3, <5>3 DEF Store, TypeOK
        <5>4. CASE SetUnlock(t)  BY <1>a, <3>2, <5>4, ZenonT(30) DEF SetUnlock, TypeOK
        <5> QED  BY <2>4, <5>1, <5>2, <5>3, <5>4
      <4>2. phase' = phase  BY <2>4 DEF SetState, SetLock, Store, SetUnlock
      <4> QED  BY <4>1, <4>2 DEF Active
    <3>5. running' = running /\ phase' = phase
      BY <2>4 DEF SetState, SetLock, Store, SetUnlock
    <3>6. CASE phase[t] = 2  BY <1>a, <3>3, <3>4, <3>5, <3>6 DEF CountInv
    <3>7. CASE phase[t] = 1
      <4>1. ASSUME NEW u \in Writers  PROVE /\ pc'[u] = "done" => pc[u] = "done"
                                            /\ state'[u] = "COMPLETED" => state[u] = "COMPLETED"
                                            /\ phase[u] = 2 => pc'[u] = pc[u] \/ (pc[u] = "wait" /\ pc'[u] = "lock")
        BY <1>a, <2>4, <3>2, <3>3, <3>7 DEF SetState, SetLock, Store, SetUnlock, TypeOK
      <4> QED  BY <1>a, <3>4, <3>5, <4>1 DEF CountInv, Setting
    <3> QED  BY <3>3, <3>6, <3>7
  <2>5. CASE Insert(t)
    <3>1. Active' = Active  BY <1>a, <2>5 DEF Insert, Active, TypeOK
    <3> QED  BY <1>a, <2>5, <3>1 DEF Insert, CountInv, TypeOK, Setting
  <2>6. CASE ReportFailure(t)
    <3>1. Active' = Active  BY <1>a, <2>6 DEF ReportFailure, Active, TypeOK
    <3> QED  BY ZenonT(30), <1>a, <2>6, <3>1 DEF ReportFailure, CountInv, TypeOK, Setting
  <2>7. CASE Return(t)
    <3>1. Active' = Active  BY <1>a, <2>7 DEF Return, Active, TypeOK
    <3> QED  BY <1>a, <2>7, <3>1 DEF Return, CountInv, TypeOK, Setting
  <2>8. CASE Finish(t)
    <3>1. pc[t] = "finish" /\ t \in Active /\ phase[t] = 2
      BY <1>a, <2>w, <2>8 DEF Finish, Active, WaiterOk, Setting, TypeOK
    <3>2. AfterSetting(t, ExitOrder(t)) \in {"set", "done"}  BY <3>1 DEF AfterSetting
    <3>3. Active' = Active \ {t}
      BY <1>a, <2>8, <3>1, <3>2 DEF Finish, Active, TypeOK
    <3>4. IsFiniteSet(Active)
      BY WritersFinite, FS_Subset DEF Active
    <3>5. Cardinality(Active') = Cardinality(Active) - 1 /\ Cardinality(Active) \in Nat
      BY <3>1, <3>3, <3>4, FS_RemoveElement, FS_CardinalityType, ZenonT(30)
    <3>6. running' = Cardinality(Active')
      BY <1>a, <2>8, <3>5 DEF Finish, CountInv
    <3>7. CASE running = 1
      <4>1. Active' = {}
        <5>1. Cardinality(Active') = 0 /\ IsFiniteSet(Active')
          BY <1>a, <3>3, <3>4, <3>5, <3>7, FS_RemoveElement DEF CountInv
        <5> QED  BY <5>1, FS_EmptySet
      <4> QED  BY <3>6, <4>1 DEF CountInv
    <3>8. CASE running # 1
      <4>1. pc' = [pc EXCEPT ![t] = "spin"] /\ state' = state /\ phase' = phase
        BY <2>8, <3>8 DEF Finish
      <4>2. \A u \in Writers : ~ \/ pc[u] = "done" \/ state[u] = "COMPLETED"
                                 \/ phase[u] = 2 /\ pc[u] \in Setting \cup {"got"}
        BY <1>a, <3>1 DEF CountInv
      <4> QED  BY <1>a, <3>6, <4>1, <4>2 DEF CountInv, TypeOK, Setting
    <3> QED  BY <3>7, <3>8
  <2> QED  BY <1>1, <2>1, <2>2, <2>3, <2>4, <2>5, <2>6, <2>7, <2>8 DEF Step
<1>2. CASE UNCHANGED vars
  BY <1>a, <1>2 DEF vars, CountInv, Active
<1> QED  BY <1>1, <1>2 DEF Next

-----------------------------------------------------------------------------
\* What a thread knows of its own state is lost only with its own variables.
LEMMA WaiterFrame ==
    ASSUME NEW u \in Writers, WaiterOk(u),
           pc'[u] = pc[u], phase'[u] = phase[u], state'[u] = state[u],
           old'[u] = old[u], mutex'[u] = mutex[u]
    PROVE  WaiterOk(u)'
BY DEF WaiterOk, Goal

\* Setting a state: the new one is what its owner waits for.
LEMMA WaiterSet ==
    ASSUME IInv, NEW t \in Writers, pc[t] \in {"set", "store"},
           NEW u \in Writers, u = Target(t),
           state'[u] = NewState(t), phase'[u] = phase[u], old'[u] = old[u],
           mutex'[u] = mutex[u],
           pc'[u] = pc[u] \/ (pc[u] = "wait" /\ pc'[u] = "lock")
    PROVE  WaiterOk(u)'
<1>1. pc[t] \in Setting /\ pc[t] # "unlock"  BY DEF Setting
<1>2. /\ SetterOk(t) /\ phase[t] \in {1, 2}
      /\ phase[t] = 1 => NewState(t) = "PARALLEL"
      /\ phase[t] = 2 => NewState(t) = "COMPLETED" /\ Active = {}
  BY <1>1, Setter
<1>3. u \in Pending(t)  BY <1>1, <1>2, TargetsOf DEF IInv
<1>4. WaiterOk(u) /\ phase[u] \in {1, 2}  BY DEF IInv, WaiterInv, TypeOK
<1>5. CASE phase[t] = 1
  <2>1. phase[u] = 1 /\ state'[u] = "PARALLEL"  BY <1>2, <1>3, <1>5 DEF SetterOk
  <2> QED  BY <1>4, <2>1 DEF WaiterOk, Goal, Setting
<1>6. CASE phase[t] = 2
  <2>1. phase[u] = 2 /\ state'[u] = "COMPLETED"  BY <1>2, <1>4, <1>6 DEF Active
  <2> QED  BY <1>4, <2>1 DEF WaiterOk, Goal, Setting
<1> QED  BY <1>2, <1>5, <1>6

\* Every step keeps what a thread knows of its own state.
LEMMA WaiterStep == IInv /\ [Next]_vars => WaiterInv'
<1> SUFFICES ASSUME IInv, [Next]_vars PROVE WaiterInv'  OBVIOUS
<1>a. TypeOK /\ WaiterInv  BY DEF IInv
<1>1. ASSUME NEW t \in Writers, Step(t) \/ SpuriousWake(t)  PROVE WaiterInv'
  <2> SUFFICES ASSUME NEW u \in Writers PROVE WaiterOk(u)'  BY DEF WaiterInv
  <2>w. WaiterOk(u) /\ WaiterOk(t)  BY <1>a DEF WaiterInv
  <2>1. CASE Spin(t)
    <3>1. CASE u = t  BY <1>a, <2>w, <2>1, <3>1 DEF Spin, Goes, WaiterOk, Goal, TypeOK, Setting
    <3>2. CASE u # t  BY <1>a, <2>w, <2>1, <3>2, WaiterFrame DEF Spin, Goes, TypeOK
    <3> QED  BY <3>1, <3>2
  <2>2. CASE Load(t)
    <3>1. CASE u = t  BY <1>a, <2>w, <2>2, <3>1 DEF Load, Goes, WaiterOk, Goal, TypeOK, Setting
    <3>2. CASE u # t  BY <1>a, <2>w, <2>2, <3>2, WaiterFrame DEF Load, Goes, TypeOK
    <3> QED  BY <3>1, <3>2
  <2>3. CASE Announce(t)
    <3>1. CASE u = t  BY <1>a, <2>w, <2>3, <3>1 DEF Announce, Goes, WaiterOk, Goal, TypeOK, Setting
    <3>2. CASE u # t  BY <1>a, <2>w, <2>3, <3>2, WaiterFrame DEF Announce, Goes, TypeOK
    <3> QED  BY <3>1, <3>2
  <2>4. CASE LockOwn(t)
    <3>1. CASE u = t  BY <1>a, <2>w, <2>4, <3>1 DEF LockOwn, WaiterOk, Goal, TypeOK, Setting
    <3>2. CASE u # t  BY <1>a, <2>w, <2>4, <3>2, WaiterFrame DEF LockOwn, TypeOK
    <3> QED  BY <3>1, <3>2
  <2>5. CASE Check(t)
    <3>1. CASE u = t  BY <1>a, <2>w, <2>5, <3>1 DEF Check, Goes, WaiterOk, Goal, TypeOK, Setting
    <3>2. CASE u # t  BY <1>a, <2>w, <2>5, <3>2, WaiterFrame DEF Check, Goes, TypeOK
    <3> QED  BY <3>1, <3>2
  <2>6. CASE SpuriousWake(t)
    <3>1. CASE u = t  BY <1>a, <2>w, <2>6, <3>1 DEF SpuriousWake, WaiterOk, Goal, TypeOK, Setting
    <3>2. CASE u # t  BY <1>a, <2>w, <2>6, <3>2, WaiterFrame DEF SpuriousWake, TypeOK
    <3> QED  BY <3>1, <3>2
  <2>7. CASE Insert(t)
    <3>1. CASE u = t  BY <1>a, <2>w, <2>7, <3>1 DEF Insert, WaiterOk, Goal, TypeOK, Setting
    <3>2. CASE u # t  BY <1>a, <2>w, <2>7, <3>2, WaiterFrame DEF Insert, TypeOK
    <3> QED  BY <3>1, <3>2
  <2>8. CASE ReportFailure(t)
    <3>1. CASE u = t  BY <1>a, <2>w, <2>8, <3>1 DEF ReportFailure, WaiterOk, Goal, TypeOK, Setting
    <3>2. CASE u # t  BY <1>a, <2>w, <2>8, <3>2, WaiterFrame DEF ReportFailure, TypeOK
    <3> QED  BY <3>1, <3>2
  <2>9. CASE Return(t)
    <3>1. CASE u = t  BY <1>a, <2>w, <2>9, <3>1 DEF Return, WaiterOk, Goal, TypeOK, Setting
    <3>2. CASE u # t  BY <1>a, <2>w, <2>9, <3>2, WaiterFrame DEF Return, TypeOK
    <3> QED  BY <3>1, <3>2
  <2>10. CASE Finish(t)
    <3>0. /\ phase[t] = 2
          /\ pc'[t] \in {"spin", "set", "done"}
      <4>1. phase[t] = 2  BY <1>a, <2>w, <2>10 DEF Finish, WaiterOk, Setting, TypeOK
      <4>2. AfterSetting(t, ExitOrder(t)) \in {"set", "done"}  BY <4>1 DEF AfterSetting
      <4> QED  BY <1>a, <2>10, <4>1, <4>2 DEF Finish, TypeOK
    <3>1. CASE u = t
      <4>1. state' = state /\ phase' = phase /\ pc[t] = "finish"  BY <2>10 DEF Finish
      <4> QED  BY <2>w, <3>0, <3>1, <4>1 DEF WaiterOk, Goal, Setting
    <3>2. CASE u # t  BY <1>a, <2>w, <2>10, <3>2, WaiterFrame DEF Finish, TypeOK
    <3> QED  BY <3>1, <3>2
  <2>11. CASE SetLock(t)
    <3>1. pc[t] = "setlock" /\ pc[t] \in Setting  BY <2>11 DEF SetLock, Setting
    <3>2. Target(t) \in Writers  BY <3>1, Setter
    <3>3. CASE u = t
      BY <1>a, <2>w, <2>11, <3>1, <3>2, <3>3 DEF SetLock, WaiterOk, Goal, TypeOK, Setting
    <3>4. CASE u # t /\ u # Target(t)
      BY <1>a, <2>w, <2>11, <3>4, WaiterFrame DEF SetLock, TypeOK
    <3>5. CASE u # t /\ u = Target(t)
      <4>1. pc[u] # "check"
        BY <1>a, <2>w, <2>11, <3>5, GroupAssumption DEF SetLock, WaiterOk
      <4> QED  BY <1>a, <2>w, <2>11, <3>5, <4>1 DEF SetLock, WaiterOk, Goal, TypeOK
    <3> QED  BY <3>3, <3>4, <3>5
  <2>12. CASE SetUnlock(t)
    <3>1. pc[t] = "unlock" /\ pc[t] \in Setting  BY <2>12 DEF SetUnlock, Setting
    <3>2. SetterOk(t) /\ Target(t) \in Writers /\ phase[t] \in {1, 2}  BY <3>1, Setter
    <3>3. CASE u = t
      <4>1. phase[t] = 1 /\ Tail(targets[t]) = <<>> => state[t] = "PARALLEL"
        BY <1>a, <3>1, <3>2, TargetsOf DEF SetterOk
      <4>2. pc'[t] = AfterSetting(t, Tail(targets[t])) /\ state' = state /\ phase' = phase
        BY <1>a, <2>12 DEF SetUnlock, TypeOK
      <4> QED  BY <2>w, <3>1, <3>2, <3>3, <4>1, <4>2 DEF AfterSetting, WaiterOk, Goal, Setting
    <3>4. CASE u # t /\ u # Target(t)
      BY <1>a, <2>w, <2>12, <3>4, WaiterFrame DEF SetUnlock, TypeOK
    <3>5. CASE u # t /\ u = Target(t)
      <4>1. pc[u] = "lock"  BY <3>1, <3>2, <3>5 DEF SetterOk
      <4> QED  BY <1>a, <2>w, <2>12, <3>5, <4>1 DEF SetUnlock, WaiterOk, Goal, TypeOK
    <3> QED  BY <3>3, <3>4, <3>5
  <2>13. CASE Store(t)
    <3>1. pc[t] = "store" /\ pc[t] \in Setting  BY <2>13 DEF Store, Setting
    <3>2. SetterOk(t) /\ Target(t) \in Writers  BY <3>1, Setter
    <3>3. Target(t) # t  BY <3>1, <3>2 DEF SetterOk
    <3>4. CASE u = t
      BY <1>a, <2>w, <2>13, <3>1, <3>2, <3>3, <3>4 DEF Store, WaiterOk, Goal, TypeOK, Setting
    <3>5. CASE u # t /\ u # Target(t)
      BY <1>a, <2>w, <2>13, <3>2, <3>5, WaiterFrame DEF Store, TypeOK
    <3>6. CASE u # t /\ u = Target(t)
      <4>1. /\ state'[u] = NewState(t) /\ phase'[u] = phase[u] /\ old'[u] = old[u]
            /\ mutex'[u] = mutex[u]
            /\ pc'[u] = pc[u] \/ (pc[u] = "wait" /\ pc'[u] = "lock")
        BY <1>a, <2>13, <3>2, <3>6 DEF Store, TypeOK
      <4> QED  BY <3>1, <3>6, <4>1, WaiterSet
    <3> QED  BY <3>4, <3>5, <3>6
  <2>14. CASE SetState(t)
    <3>1. pc[t] = "set" /\ pc[t] \in Setting  BY <2>14 DEF SetState, Setting
    <3>2. SetterOk(t) /\ Target(t) \in Writers /\ phase[t] \in {1, 2}  BY <3>1, Setter
    <3>3. CASE state[Target(t)] = "LOCKED_WAITING"
      <4>1. pc' = [pc EXCEPT ![t] = "setlock"] /\ UNCHANGED <<state, phase, old, mutex>>
        BY <2>14, <3>3 DEF SetState
      <4>2. CASE u = t  BY <1>a, <2>w, <3>1, <4>1, <4>2 DEF WaiterOk, Goal, TypeOK, Setting
      <4>3. CASE u # t  BY <1>a, <2>w, <4>1, <4>3, WaiterFrame DEF TypeOK
      <4> QED  BY <4>2, <4>3
    <3>4. CASE state[Target(t)] # "LOCKED_WAITING"
      <4>1. /\ state' = [state EXCEPT ![Target(t)] = NewState(t)]
            /\ pc' = [pc EXCEPT ![t] = AfterSetting(t, Tail(targets[t]))]
            /\ UNCHANGED <<phase, old, mutex>>
        BY <2>14, <3>4 DEF SetState
      <4>2. CASE u # t /\ u # Target(t)  BY <1>a, <2>w, <4>1, <4>2, WaiterFrame DEF TypeOK
      <4>3. CASE u # t /\ u = Target(t)
        <5>1. state'[u] = NewState(t) /\ pc'[u] = pc[u]  BY <1>a, <4>1, <4>3 DEF TypeOK
        <5> QED  BY <3>1, <4>1, <4>3, <5>1, WaiterSet
      <4>4. CASE u = t
        <5>1. /\ phase[t] = 1 => NewState(t) = "PARALLEL"
              /\ phase[t] = 2 => NewState(t) = "COMPLETED"
          BY <3>1, Setter
        <5>2. state'[t] = IF t = Target(t) THEN NewState(t) ELSE state[t]
          BY <1>a, <4>1 DEF TypeOK
        <5>3. phase[t] = 1 /\ Tail(targets[t]) = <<>> => state'[t] = "PARALLEL"
          <6>1. t \in Pending(t) /\ Tail(targets[t]) = <<>> => t = Target(t)
            BY <1>a, <3>1, <3>2, TargetsOf
          <6> QED  BY <3>2, <5>1, <5>2, <6>1 DEF SetterOk
        <5>4. pc'[t] = AfterSetting(t, Tail(targets[t])) /\ phase' = phase
          BY <1>a, <4>1 DEF TypeOK
        <5>6. pc'[t] = "got" => phase[t] = 1 /\ Tail(targets[t]) = <<>>
          BY <5>4 DEF AfterSetting
        <5>5. pc'[t] \in {"set", "got", "done"} /\ (pc'[t] = "done" => phase[t] = 2)
          BY <3>2, <5>4 DEF AfterSetting
        <5>8. state[t] # "LOCKED_WAITING"  BY <2>w, <3>1 DEF WaiterOk
        <5> QED  BY <2>w, <3>1, <3>2, <4>4, <5>1, <5>2, <5>3, <5>4, <5>5, <5>6, <5>8
                 DEF WaiterOk, Goal, Setting
      <4> QED  BY <4>2, <4>3, <4>4
    <3> QED  BY <3>3, <3>4
  <2> QED  BY <1>1, <2>1, <2>2, <2>3, <2>4, <2>5, <2>6, <2>7, <2>8, <2>9, <2>10, <2>11,
             <2>12, <2>13, <2>14 DEF Step
<1>2. CASE UNCHANGED vars
  BY <1>a, <1>2, WaiterFrame DEF vars, WaiterInv
<1> QED  BY <1>1, <1>2 DEF Next

-----------------------------------------------------------------------------
\* A step of t that leaves the launched and the variables of a setter u alone, and does
\* not touch a mutex that the setter holds.
LeavesSetter(t, u) ==
    /\ targets'[u] = targets[u] /\ pc'[u] = pc[u] /\ phase'[u] = phase[u]
    /\ state'[u] = state[u]
    /\ phase[u] = 1 => \A w \in Pending(u) : phase'[w] = phase[w]
    /\ \A w \in Writers : state'[w] = state[w] \/ state'[w] = "LOCKED_WAITING"
    /\ \A w \in Writers : pc'[w] = "done" =>
           (pc[w] = "done" /\ state'[w] = state[w]) \/ state'[w] = "COMPLETED"
    /\ \A w \in Writers \ {t} : pc'[w] = pc[w] /\ mutex'[w] = mutex[w]
    /\ Target(u) = t /\ pc[u] = "store" => pc'[t] \in {"lock", "wait"} /\ mutex'[t] = u
    /\ Target(u) = t /\ pc[u] = "unlock" => pc'[t] = "lock" /\ mutex'[t] = u

\* What a setter knows of the others survives such a step.
LEMMA SetterFrame ==
    ASSUME IInv, NEW u \in Writers, pc[u] \in Setting, NEW t \in Writers,
           LeavesSetter(t, u)
    PROVE  SetterOk(u)'
<1> USE DEF LeavesSetter
<1>1. SetterOk(u) /\ Target(u) \in Writers  BY ZenonT(30), Setter
<1>2. Pending(u)' = Pending(u) /\ Target(u)' = Target(u)
  <2>1. targets'[u] = targets[u] /\ pc'[u] = pc[u]  OBVIOUS
  <2> QED  BY ONLY <2>1, SMTT(30), ZenonT(30) DEF Pending, Target
<1>3. Pending(u) \subseteq Writers
  <2>1. targets[u] \in Seq(Writers)  BY DEF IInv, TypeOK
  <2> QED  BY <2>1 DEF Pending
<1>4. phase[u] = 1 => \A w \in Pending(u) : phase'[w] = 1 /\ state'[w] \notin Goal(w)'
  BY <1>1, <1>3 DEF SetterOk, Goal
<1>5. phase[u] = 1 => u = Leader /\ (state'[u] = "PARALLEL" \/ u \in Pending(u))
  BY <1>1 DEF SetterOk
<1>6. phase[u] = 2 => /\ \A w \in Pending(u) : state'[w] # "COMPLETED"
                      /\ u = Leader \/ targets[u][Len(targets[u])] = Leader
                      /\ \A w \in Writers : pc'[w] = "done" => state'[w] = "COMPLETED"
  BY <1>1, <1>3 DEF SetterOk
<1>7. pc[u] \in {"setlock", "store"} => state'[Target(u)] = "LOCKED_WAITING"
  BY <1>1 DEF SetterOk
<1>8. /\ pc[u] = "store" => pc'[Target(u)] \in {"lock", "wait"}
      /\ pc[u] = "unlock" => pc'[Target(u)] = "lock"
      /\ pc[u] \in {"store", "unlock"} => mutex'[Target(u)] = u
  BY <1>1 DEF SetterOk
<1>9. /\ targets[u] # <<>>
      /\ \A i, j \in DOMAIN targets[u] : targets[u][i] = targets[u][j] => i = j
  BY <1>1 DEF SetterOk
<1> QED  BY <1>2, <1>4, <1>5, <1>6, <1>7, <1>8, <1>9 DEF SetterOk

\* A thread that is not a setter and does not become one leaves the setter, if there is
\* one, as it is.
LEMMA SetterOther ==
    ASSUME IInv, NEW t \in Writers, pc[t] \notin Setting,
           \/ Spin(t) \/ Load(t) \/ Announce(t) \/ LockOwn(t) \/ Check(t)
           \/ SpuriousWake(t) \/ Insert(t) \/ ReportFailure(t) \/ Return(t),
           NEW u \in Writers, pc[u] \in Setting
    PROVE  SetterOk(u)'
<1>a. TypeOK /\ WaiterOk(t) /\ CountInv  BY DEF IInv, WaiterInv
<1>1. SetterOk(u) /\ Target(u) \in Writers /\ u # t  BY ZenonT(30), Setter
<1>p. Pending(u) \subseteq Writers
  <2>1. targets[u] \in Seq(Writers)  BY <1>a DEF TypeOK
  <2> QED  BY <2>1 DEF Pending
<1>s. /\ pc[u] = "store" => pc[Target(u)] \in {"lock", "wait"}
      /\ pc[u] = "unlock" => pc[Target(u)] = "lock"
      /\ pc[u] \in {"store", "unlock"} => mutex[Target(u)] = u
  BY ZenonT(30), <1>1 DEF SetterOk
<1> SUFFICES LeavesSetter(t, u)  BY SetterFrame
<1>2. CASE Spin(t) \/ Load(t)
  BY <1>a, <1>1, <1>p, <1>s, <1>2 DEF Spin, Load, Goes, TypeOK, LeavesSetter
<1>3. CASE Announce(t)
  BY <1>a, <1>1, <1>p, <1>s, <1>3 DEF Announce, Goes, TypeOK, LeavesSetter
<1>4. CASE LockOwn(t)
  <2>1. Target(u) = t => pc[u] \notin {"store", "unlock"}
    BY <1>s, <1>4, GroupAssumption DEF LockOwn
  <2> QED  BY <1>a, <1>1, <1>p, <1>4, <2>1 DEF LockOwn, TypeOK, LeavesSetter
<1>5. CASE Check(t)
  <2>1. Target(u) = t => pc[u] \notin {"store", "unlock"}  BY ZenonT(30), <1>s, <1>5 DEF Check
  <2> QED  BY <1>a, <1>1, <1>p, <1>5, <2>1 DEF Check, Goes, TypeOK, LeavesSetter
<1>6. CASE SpuriousWake(t)
  BY <1>a, <1>1, <1>p, <1>s, <1>6 DEF SpuriousWake, TypeOK, LeavesSetter
<1>7. CASE Insert(t)
  <2>1. phase[t] = 1 /\ pc[t] = "got" /\ state[t] = "PARALLEL"
    BY ZenonT(30), <1>a, <1>7 DEF Insert, WaiterOk
  <2>2. phase[u] = 1
    <3>1. t \in Active  BY <2>1 DEF Active
    <3> QED  BY <3>1, Setter
  <2>3. t \notin Pending(u)  BY ZenonT(30), <1>1, <2>1, <2>2 DEF SetterOk, Goal
  <2> QED  BY <1>a, <1>1, <1>p, <1>s, <1>7, <2>1, <2>3 DEF Insert, TypeOK, LeavesSetter
<1>8. CASE ReportFailure(t)
  BY <1>a, <1>1, <1>p, <1>s, <1>8 DEF ReportFailure, TypeOK, LeavesSetter
<1>9. CASE Return(t)
  <2>1. state[t] = "COMPLETED" /\ pc[t] = "got"  BY ZenonT(30), <1>a, <1>9 DEF Return, WaiterOk
  <2> QED  BY <1>a, <1>1, <1>p, <1>s, <1>9, <2>1 DEF Return, TypeOK, LeavesSetter
<1> QED  BY <1>2, <1>3, <1>4, <1>5, <1>6, <1>7, <1>8, <1>9

\* The setter itself, after it has set a state and while it has more to set.
LEMMA SetterGoesOn ==
    ASSUME IInv, NEW t \in Writers, pc[t] \in {"set", "unlock"},
           targets'[t] = Tail(targets[t]), Tail(targets[t]) # <<>>, pc'[t] = "set",
           phase' = phase, \A w \in Writers \ {t} : pc'[w] = pc[w],
           \/ pc[t] = "set" /\ state' = [state EXCEPT ![Target(t)] = NewState(t)]
           \/ pc[t] = "unlock" /\ state' = state
    PROVE  SetterOk(t)'
<1> DEFINE w0 == Target(t)
           r  == Tail(targets[t])
           R  == {r[i] : i \in DOMAIN r}
<1>a. TypeOK  BY DEF IInv
<1>1. pc[t] \in Setting  BY DEF Setting
<1>2. /\ SetterOk(t) /\ w0 \in Writers /\ phase[t] \in {1, 2}
      /\ phase[t] = 1 => NewState(t) = "PARALLEL"
      /\ phase[t] = 2 => NewState(t) = "COMPLETED"
  BY <1>1, Setter
<1>3. /\ r \in Seq(Writers) /\ w0 \notin R
      /\ \A i, j \in DOMAIN r : r[i] = r[j] => i = j
      /\ Pending(t) = R \cup (IF pc[t] = "unlock" THEN {} ELSE {w0})
      /\ r[Len(r)] = targets[t][Len(targets[t])]
  BY <1>a, <1>1, <1>2, TargetsOf
<1>4. Pending(t)' = R /\ targets'[t] = r
  BY DEF Pending
<1> HIDE DEF w0, r, R
<1>5. \A w \in R : w \in Pending(t) /\ state'[w] = state[w]
  <2>1. R \subseteq Writers  BY <1>3 DEF R
  <2> QED  BY <1>a, <1>3, <2>1 DEF TypeOK, w0
<1>6. ASSUME phase[t] = 1
      PROVE  /\ t = Leader
             /\ \A w \in R : phase'[w] = 1 /\ state'[w] \notin Goal(w)'
             /\ state'[t] = "PARALLEL" \/ t \in R
  <2>1. t = Leader /\ (state[t] = "PARALLEL" \/ t \in Pending(t))  BY <1>2, <1>6 DEF SetterOk
  <2>2. \A w \in R : phase'[w] = 1 /\ state'[w] \notin Goal(w)'
    BY <1>2, <1>5, <1>6 DEF SetterOk, Goal
  <2>3. state'[t] = "PARALLEL" \/ t \in R
    <3>1. CASE t \in R  BY <3>1
    <3>2. CASE t \notin R /\ pc[t] = "set"
      BY <1>a, <1>2, <1>3, <1>6, <2>1, <3>2 DEF TypeOK, w0
    <3>3. CASE t \notin R /\ pc[t] = "unlock"
      BY ZenonT(30), <1>3, <2>1, <3>3
    <3> QED  BY <3>1, <3>2, <3>3
  <2> QED  BY <2>1, <2>2, <2>3
<1>7. ASSUME phase[t] = 2
      PROVE  /\ \A w \in R : state'[w] # "COMPLETED"
             /\ t = Leader \/ r[Len(r)] = Leader
             /\ \A w \in Writers : pc'[w] = "done" => state'[w] = "COMPLETED"
  <2>1. \A w \in R : state'[w] # "COMPLETED"  BY <1>2, <1>5, <1>7 DEF SetterOk
  <2>2. t = Leader \/ r[Len(r)] = Leader  BY <1>2, <1>3, <1>7 DEF SetterOk
  <2>3. \A w \in Writers : pc'[w] = "done" => pc[w] = "done"  OBVIOUS
  <2>4. \A w \in Writers : pc[w] = "done" => state[w] = "COMPLETED"
    BY <1>2, <1>7 DEF SetterOk
  <2>5. \A w \in Writers : state[w] = "COMPLETED" => state'[w] = "COMPLETED"
    BY <1>a, <1>2, <1>7 DEF TypeOK, w0
  <2> QED  BY <2>1, <2>2, <2>3, <2>4, <2>5
<1>8. r # <<>>  BY DEF r
<1> QED  BY <1>3, <1>4, <1>6, <1>7, <1>8, ZenonT(30) DEF SetterOk

\* Every step keeps what the only setter knows.
LEMMA SetterStep == IInv /\ [Next]_vars => SetterInv'
<1> SUFFICES ASSUME IInv, [Next]_vars PROVE SetterInv'  OBVIOUS
<1>a. TypeOK /\ WaiterInv /\ CountInv  BY DEF IInv
<1>1. ASSUME NEW t \in Writers, Step(t) \/ SpuriousWake(t)  PROVE SetterInv'
  <2>1. CASE \/ Spin(t) \/ Load(t) \/ Announce(t) \/ LockOwn(t) \/ Check(t)
             \/ SpuriousWake(t) \/ Insert(t) \/ ReportFailure(t) \/ Return(t)
    <3>1. pc[t] \notin Setting
      BY <2>1 DEF Spin, Load, Announce, LockOwn, Check, SpuriousWake, Insert,
                  ReportFailure, Return, Setting
    <3>2. \A u \in Writers : pc'[u] \in Setting => pc[u] \in Setting
      BY ZenonT(30), <1>a, <2>1 DEF Spin, Load, Announce, LockOwn, Check, SpuriousWake, Insert,
                        ReportFailure, Return, Goes, Setting, TypeOK
    <3>3. \A u \in Writers : pc[u] \in Setting => SetterOk(u)'
      BY <2>1, <3>1, SetterOther
    <3>4. \A u, v \in Writers : pc[u] \in Setting /\ pc[v] \in Setting => u = v
      BY Setter
    <3> QED  BY <3>2, <3>3, <3>4 DEF SetterInv
  <2>2. CASE SetState(t) \/ SetLock(t) \/ Store(t) \/ SetUnlock(t)
    <3>1. pc[t] \in Setting  BY <2>2 DEF SetState, SetLock, Store, SetUnlock, Setting
    <3>2. /\ SetterOk(t) /\ Target(t) \in Writers
          /\ \A u \in Writers : pc[u] \in Setting => u = t
      BY <3>1, Setter
    <3>3. \A u \in Writers \ {t} : pc'[u] = pc[u] \/ pc'[u] = "lock"
      BY <1>a, <2>2, <3>2 DEF SetState, SetLock, Store, SetUnlock, TypeOK
    <3>4. \A u \in Writers : pc'[u] \in Setting => u = t
      BY <3>2, <3>3 DEF Setting
    <3> SUFFICES ASSUME pc'[t] \in Setting PROVE SetterOk(t)'
      BY <3>4 DEF SetterInv
    <3>5. CASE SetState(t) /\ state[Target(t)] = "LOCKED_WAITING"
      <4>1. /\ pc[t] = "set" /\ pc' = [pc EXCEPT ![t] = "setlock"]
            /\ UNCHANGED <<state, targets, phase, mutex>>
        BY <3>5 DEF SetState
      <4>2. pc'[t] = "setlock" /\ \A w \in Writers \ {t} : pc'[w] = pc[w]
        BY <1>a, <4>1 DEF TypeOK
      <4>3. Pending(t)' = Pending(t) /\ Target(t)' = Target(t)
        BY <4>1, <4>2 DEF Pending, Target
      <4>4. \A w : Goal(w)' = Goal(w)  BY <4>1 DEF Goal
      <4> QED  BY ZenonT(30), <3>2, <3>5, <4>1, <4>2, <4>3, <4>4 DEF SetterOk
    <3>6. CASE SetState(t) /\ state[Target(t)] # "LOCKED_WAITING"
      <4>1. /\ pc[t] = "set"
            /\ pc' = [pc EXCEPT ![t] = AfterSetting(t, Tail(targets[t]))]
            /\ state' = [state EXCEPT ![Target(t)] = NewState(t)]
            /\ targets' = [targets EXCEPT ![t] = Tail(@)]
            /\ phase' = phase
        BY <3>6 DEF SetState
      <4>2. pc'[t] = AfterSetting(t, Tail(targets[t])) /\ targets'[t] = Tail(targets[t])
        BY <1>a, <4>1 DEF TypeOK
      <4>3. pc'[t] = "set" /\ Tail(targets[t]) # <<>>
        BY <4>2 DEF AfterSetting, Setting
      <4>4. \A w \in Writers \ {t} : pc'[w] = pc[w]  BY <1>a, <4>1 DEF TypeOK
      <4> QED  BY <4>1, <4>2, <4>3, <4>4, SetterGoesOn, ZenonT(30)
    <3>7. CASE SetUnlock(t)
      <4>1. /\ pc[t] = "unlock"
            /\ pc' = [pc EXCEPT ![t] = AfterSetting(t, Tail(targets[t]))]
            /\ targets' = [targets EXCEPT ![t] = Tail(@)]
            /\ phase' = phase /\ state' = state
        BY <3>7 DEF SetUnlock
      <4>2. pc'[t] = AfterSetting(t, Tail(targets[t])) /\ targets'[t] = Tail(targets[t])
        BY <1>a, <4>1 DEF TypeOK
      <4>3. pc'[t] = "set" /\ Tail(targets[t]) # <<>>
        BY <4>2 DEF AfterSetting, Setting
      <4>4. \A w \in Writers \ {t} : pc'[w] = pc[w]  BY <1>a, <4>1 DEF TypeOK
      <4> QED  BY <4>1, <4>2, <4>3, <4>4, SetterGoesOn
    <3>8. CASE SetLock(t)
      <4>1. /\ pc[t] = "setlock" /\ mutex[Target(t)] = None
            /\ pc' = [pc EXCEPT ![t] = "store"]
            /\ mutex' = [mutex EXCEPT ![Target(t)] = t]
            /\ UNCHANGED <<state, targets, phase>>
        BY <3>8 DEF SetLock
      <4>2. /\ pc'[t] = "store" /\ \A w \in Writers \ {t} : pc'[w] = pc[w]
            /\ mutex'[Target(t)] = t
        BY <1>a, <3>2, <4>1 DEF TypeOK
      <4>3. Pending(t)' = Pending(t) /\ Target(t)' = Target(t)
        BY <4>1, <4>2 DEF Pending, Target
      <4>4. \A w : Goal(w)' = Goal(w)  BY <4>1 DEF Goal
      <4>5. state[Target(t)] = "LOCKED_WAITING"  BY <3>2, <4>1 DEF SetterOk
      <4>6. pc[Target(t)] \in {"lock", "wait"} /\ Target(t) # t
        BY <1>a, <3>2, <4>1, <4>5, GroupAssumption DEF WaiterInv, WaiterOk
      <4> QED  BY ZenonT(30), <3>2, <4>1, <4>2, <4>3, <4>4, <4>5, <4>6 DEF SetterOk
    <3>9. CASE Store(t)
      <4>0. pc[t] = "store" /\ Target(t) # t  BY <3>2, <3>9 DEF Store, SetterOk
      <4>1. /\ pc' = [pc EXCEPT ![t] = "unlock",
                                ![Target(t)] = IF @ = "wait" THEN "lock" ELSE @]
            /\ state' = [state EXCEPT ![Target(t)] = NewState(t)]
            /\ UNCHANGED <<targets, phase, mutex>>
        BY <3>9 DEF Store
      <4>2. /\ pc'[t] = "unlock" /\ pc'[Target(t)] = "lock"
            /\ \A w \in Writers : pc'[w] = "done" => pc[w] = "done"
        BY <1>a, <3>2, <4>0, <4>1 DEF TypeOK, SetterOk
      <4>3. /\ Pending(t)' = Pending(t) \ {Target(t)} /\ Target(t)' = Target(t)
            /\ Pending(t) \subseteq Writers
        <5>1. targets[t] \in Seq(Writers) /\ targets[t] # <<>>  BY <1>a, <3>2 DEF TypeOK, SetterOk
        <5>2. DOMAIN targets[t] = 1 .. Len(targets[t]) /\ Len(targets[t]) >= 1 /\ Len(targets[t]) \in Nat
          BY <5>1
        <5>3. Pending(t) = {targets[t][i] : i \in DOMAIN targets[t]}  BY <4>0 DEF Pending
        <5>4. Pending(t)' = {targets[t][i] : i \in DOMAIN targets[t] \ {1}}
          BY <4>1, <4>2 DEF Pending
        <5>5. \A i \in DOMAIN targets[t] : targets[t][i] = targets[t][1] => i = 1
          BY <3>2, <5>2 DEF SetterOk
        <5>6. Target(t) = targets[t][1] /\ Target(t)' = targets[t][1]  BY <4>1 DEF Target
        <5> QED  BY <5>1, <5>2, <5>3, <5>4, <5>5, <5>6
      <4>4. \A w : Goal(w)' = Goal(w)  BY <4>1 DEF Goal
      <4>5. \A w \in Writers \ {Target(t)} : state'[w] = state[w]  BY <1>a, <4>1 DEF TypeOK
      <4>6. /\ phase[t] = 2 => state'[Target(t)] = "COMPLETED"
            /\ phase[t] \in {1, 2}
        <5>1. (phase[t] = 2 => NewState(t) = "COMPLETED") /\ phase[t] \in {1, 2}  BY <3>1, Setter
        <5> QED  BY <1>a, <3>2, <4>1, <5>1 DEF TypeOK
      <4>7. phase[t] = 1 => /\ t = Leader
                            /\ \A w \in Pending(t)' : phase'[w] = 1 /\ state'[w] \notin Goal(w)'
                            /\ state'[t] = "PARALLEL" \/ t \in Pending(t)'
        BY <3>2, <4>0, <4>1, <4>3, <4>4, <4>5 DEF SetterOk
      <4>8. phase[t] = 2 => /\ \A w \in Pending(t)' : state'[w] # "COMPLETED"
                            /\ t = Leader \/ targets[t][Len(targets[t])] = Leader
                            /\ \A w \in Writers : pc'[w] = "done" => state'[w] = "COMPLETED"
        BY <3>2, <4>2, <4>3, <4>5, <4>6 DEF SetterOk
      <4>9. mutex'[Target(t)] = t  BY <3>2, <4>0, <4>1 DEF SetterOk
      <4>10. /\ targets[t] # <<>>
             /\ \A i, j \in DOMAIN targets[t] : targets[t][i] = targets[t][j] => i = j
        BY ZenonT(30), <3>2 DEF SetterOk
      <4> QED  BY <4>1, <4>2, <4>3, <4>7, <4>8, <4>9, <4>10, ZenonT(30) DEF SetterOk
    <3> QED  BY <2>2, <3>5, <3>6, <3>7, <3>8, <3>9
  <2>3. CASE Finish(t)
    <3>0. /\ pc[t] = "finish" /\ phase[t] = 2 /\ t \in Active /\ running >= 1
          /\ \A u \in Writers : /\ pc[u] # "done" /\ state[u] # "COMPLETED"
                                /\ phase[u] = 2 => pc[u] \notin Setting
          /\ phase' = phase /\ state' = state /\ mutex' = mutex
      <4>1. pc[t] = "finish" /\ phase' = phase /\ state' = state /\ mutex' = mutex /\ running >= 1
        BY <1>a, <2>3 DEF Finish, TypeOK
      <4>2. phase[t] = 2 /\ t \in Active
        <5>1. WaiterOk(t) /\ phase[t] \in {1, 2}  BY <1>a DEF WaiterInv, TypeOK
        <5> QED  BY ZenonT(30), <4>1, <5>1 DEF WaiterOk, Setting, Active
      <4> QED  BY <1>a, <4>1, <4>2 DEF CountInv
    <3>1. CASE running # 1
      <4>1. pc' = [pc EXCEPT ![t] = "spin"] /\ targets' = targets
        BY <2>3, <3>1 DEF Finish
      <4>2. ASSUME NEW u \in Writers, pc'[u] \in Setting
            PROVE  SetterOk(u)' /\ pc[u] \in Setting
        <5>1. u # t /\ pc[u] \in Setting  BY <1>a, <4>1, <4>2 DEF TypeOK, Setting
        <5>2. SetterOk(u) /\ Target(u) \in Writers  BY <5>1, Setter
        <5>3. Target(u) = t => pc[u] \notin {"store", "unlock"}  BY <3>0, <5>2 DEF SetterOk
        <5>4. LeavesSetter(t, u)
          <6>1. \A w \in Writers \ {t} : pc'[w] = pc[w]  BY <1>a, <4>1 DEF TypeOK
          <6>2. pc'[t] = "spin"  BY <1>a, <4>1 DEF TypeOK
          <6> QED  BY <3>0, <4>1, <5>1, <5>3, <6>1, <6>2 DEF LeavesSetter
        <5> QED  BY <5>1, <5>4, SetterFrame
      <4>3. \A u, v \in Writers : pc[u] \in Setting /\ pc[v] \in Setting => u = v
        BY Setter
      <4> QED  BY <4>2, <4>3 DEF SetterInv
    <3>2. CASE running = 1
      <4>1. /\ targets' = [targets EXCEPT ![t] = ExitOrder(t)]
            /\ pc' = [pc EXCEPT ![t] = AfterSetting(t, ExitOrder(t))]
        BY <2>3, <3>2 DEF Finish
      <4>2. Active = {t}
        <5>1. IsFiniteSet(Active)  BY WritersFinite, FS_Subset DEF Active
        <5>2. Cardinality(Active) = 1  BY <1>a, <3>2 DEF CountInv
        <5>3. \E x : Active = {x}  BY <5>1, <5>2, FS_Singleton, ZenonT(30)
        <5> QED  BY <3>0, <5>3
      <4>3. \A u \in Writers : pc[u] \notin Setting
        <5>1. ASSUME NEW u \in Writers, pc[u] \in Setting PROVE FALSE
          <6>1. phase[u] = 1  BY <1>a, <3>0, <5>1 DEF TypeOK
          <6>2. u = t  BY <4>2, <6>1 DEF Active
          <6> QED  BY <3>0, <6>1, <6>2
        <5> QED  BY <5>1
      <4>4. \A u \in Writers : pc'[u] \in Setting => u = t
        BY <1>a, <4>1, <4>3 DEF TypeOK
      <4> SUFFICES ASSUME pc'[t] \in Setting PROVE SetterOk(t)'
        BY <4>4 DEF SetterInv
      <4>5. pc'[t] = AfterSetting(t, ExitOrder(t)) /\ targets'[t] = ExitOrder(t)
        BY <1>a, <4>1 DEF TypeOK
      <4>6. pc'[t] = "set" /\ ExitOrder(t) # <<>>  BY <3>0, <4>5 DEF AfterSetting, Setting
      <4>7. Pending(t)' \subseteq Writers
        <5>1. ExitOrder(t) \in Seq(Writers)  BY ExitOrderIs
        <5>2. Pending(t)' = {ExitOrder(t)[i] : i \in DOMAIN ExitOrder(t)}
          BY <4>5, <4>6 DEF Pending
        <5> QED  BY <5>1, <5>2
      <4>8. \A w \in Writers : pc'[w] # "done"
        BY <1>a, <3>0, <4>1, <4>6 DEF TypeOK
      <4> QED  BY <3>0, <4>5, <4>6, <4>7, <4>8, ExitOrderIs DEF SetterOk
    <3> QED  BY <3>1, <3>2
  <2> QED  BY <1>1, <2>1, <2>2, <2>3 DEF Step
<1>2. CASE UNCHANGED vars
  <2> SUFFICES ASSUME NEW t \in Writers, pc'[t] \in Setting
               PROVE  SetterOk(t)' /\ \A u \in Writers : pc'[u] \in Setting => u = t
    BY DEF SetterInv
  <2>1. UNCHANGED <<pc, phase, state, mutex, targets>>  BY <1>2 DEF vars
  <2>2. SetterOk(t) /\ Target(t) \in Writers /\ \A u \in Writers : pc[u] \in Setting => u = t
    BY ZenonT(30), <2>1, Setter
  <2>3. Pending(t) \subseteq Writers
    <3>1. targets[t] \in Seq(Writers)  BY <1>a DEF TypeOK
    <3> QED  BY <3>1 DEF Pending
  <2>4. LeavesSetter(t, t)
    BY <2>1, <2>2, <2>3 DEF LeavesSetter, SetterOk
  <2> QED  BY <2>1, <2>2, <2>4, SetterFrame
<1> QED  BY <1>1, <1>2 DEF Next

-----------------------------------------------------------------------------
\* The inductive invariant: the count of the threads still at work, what each waiter
\* knows of its own state and what the setter knows of the others.
THEOREM Invariance == Spec => []IInv
<1>1. Init => IInv
  <2> SUFFICES ASSUME Init PROVE IInv  OBVIOUS
  <2>1. /\ Members \in Seq(Writers) /\ Members # <<>> /\ Len(Members) \in Nat
        /\ \A i, j \in DOMAIN Members : Members[i] = Members[j] => i = j
        /\ Leader \in Writers /\ None \notin Writers
    BY GroupAssumption, WritersFinite
  <2>2. TypeOK
    <3>1. targets \in [Writers -> Seq(Writers)]
      <4>1. <<>> \in Seq(Writers)  OBVIOUS
      <4> QED  BY <2>1, <4>1 DEF Init
    <3>2. running \in 0 .. Len(Members)  BY <2>1 DEF Init
    <3> QED  BY <3>1, <3>2 DEF Init, TypeOK, States
  <2>3. \A t \in Writers : phase[t] = 1 /\ pc[t] \in {"set", "spin"}
                           /\ state[t] \in {"INIT", "GROUP_LEADER"}
    BY DEF Init
  <2>4. CountInv
    <3>1. Active = Writers  BY <2>3 DEF Active
    <3> QED  BY <2>3, <3>1, WritersFinite DEF Init, CountInv
  <2>5. \A t \in Writers : pc[t] = "spin" => t # Leader /\ state[t] = "INIT"
    BY DEF Init
  <2>6. WaiterInv
    BY <2>3, <2>5 DEF WaiterInv, WaiterOk, Setting
  <2>7. SetterInv
    <3>1. \A t \in Writers : pc[t] \in Setting => t = Leader  BY <2>3, <2>5 DEF Init, Setting
    <3>2. targets[Leader] = Members /\ pc[Leader] = "set"  BY <2>1 DEF Init
    <3>3. Pending(Leader) = Writers
      BY <3>2 DEF Pending, Writers
    <3>4. \A w \in Writers : state[w] \notin Goal(w)  BY <2>3 DEF Goal
    <3>5. SetterOk(Leader)
      BY <2>1, <2>3, <3>2, <3>3, <3>4 DEF SetterOk
    <3> QED  BY <3>1, <3>5 DEF SetterInv
  <2> QED  BY <2>2, <2>4, <2>6, <2>7 DEF IInv
<1>2. IInv /\ [Next]_vars => IInv'
  BY TypeStep, CountStep, WaiterStep, SetterStep DEF IInv
<1> QED  BY <1>1, <1>2, PTL DEF Spec

\* For a group of any size: nobody exits the group, and nobody has returned, while a
\* member has yet to insert (CompleteParallelMemTableWriter and ExitAsBatchGroupLeader).
THEOREM InsertsFirst == Spec => []ExitAfterAllInserts
<1>1. IInv => ExitAfterAllInserts
  <2> SUFFICES ASSUME IInv,
                      NEW t \in Writers, pc[t] = "done" \/ (phase[t] = 2 /\ pc[t] \in Setting),
                      NEW u \in Writers
               PROVE  phase[u] = 2
    BY DEF ExitAfterAllInserts
  <2>1. Active = {}  BY DEF IInv, CountInv
  <2> QED  BY <2>1 DEF IInv, TypeOK, Active
<1> QED  BY <1>1, Invariance, PTL

\* For a group of any size: SetState never touches a Writer whose thread has returned,
\* nor anybody the group after the leader has, although a Writer lives on its thread's
\* stack and may be gone as soon as its state is set.
THEOREM NoDanglingTouch == Spec => []NoTouchAfterReturn
<1>1. IInv => NoTouchAfterReturn
  <2> SUFFICES ASSUME IInv, NEW t \in Writers
               PROVE  /\ pc[t] \in Setting => pc[Target(t)] # "done" /\ pc[Leader] # "done"
                      /\ pc[t] \in {"report", "finish"} => pc[Leader] # "done"
    BY DEF NoTouchAfterReturn
  <2>l. Leader \in Writers  BY WritersFinite
  <2>c. \A u \in Writers : pc[u] = "done" => Active = {}  BY DEF IInv, CountInv
  <2>1. pc[t] \in {"report", "finish"} => pc[Leader] # "done"
    BY <2>l, <2>c DEF Active
  <2>2. ASSUME pc[t] \in Setting
        PROVE  pc[Target(t)] # "done" /\ pc[Leader] # "done"
    <3>1. /\ SetterOk(t) /\ Target(t) \in Writers /\ phase[t] \in {1, 2}
      BY <2>2, Setter
    <3>2. CASE phase[t] = 1
      <4>1. t \in Active  BY <3>2 DEF Active
      <4> QED  BY <2>c, <2>l, <3>1, <4>1
    <3>3. CASE phase[t] = 2
      <4>1. /\ \A w \in Pending(t) : w \in Writers => pc[w] # "done"
            /\ pc[t] = "unlock" => pc[Target(t)] = "lock"
            /\ t = Leader \/ targets[t][Len(targets[t])] = Leader
            /\ targets[t] # <<>>
        BY <3>1, <3>3 DEF SetterOk
      <4>2. targets[t] \in Seq(Writers)  BY DEF IInv, TypeOK
      <4>3. /\ Len(targets[t]) \in DOMAIN targets[t] /\ 1 \in DOMAIN targets[t]
        BY <4>1, <4>2
      <4>4. pc[t] # "unlock" => Target(t) \in Pending(t)
        BY <4>3 DEF Pending, Target
      <4>5. t # Leader => Leader \in Pending(t) \/ (pc[t] = "unlock" /\ Target(t) = Leader)
        BY <4>1, <4>3 DEF Pending, Target
      <4>6. t = Leader => pc[Leader] # "done"  BY <2>2 DEF Setting
      <4> QED  BY <2>l, <3>1, <4>1, <4>4, <4>5, <4>6
    <3> QED  BY <3>1, <3>2, <3>3
  <2> QED  BY <2>1, <2>2
<1> QED  BY <1>1, Invariance, PTL
=============================================================================
