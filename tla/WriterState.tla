----------------------------- MODULE WriterState -----------------------------
(***************************************************************************)
(* How the threads of one parallel write group wait for and wake each      *)
(* other: AwaitState, BlockingAwaitState, SetState and                     *)
(* CompleteParallelMemTableWriter of db/write_thread.cc at the grain of    *)
(* single atomic operations, with the lazily made mutex and condition      *)
(* variable of each Writer.                                                *)
(*                                                                         *)
(* The group is formed and logged.  The leader launches the parallel       *)
(* memtable writers, everybody inserts, and whoever finishes last          *)
(* completes the others.  A Writer lives on its thread's stack and, with   *)
(* its mutex, is gone when the thread returns; so is the group when the    *)
(* leader returns.  SetState's load and CAS are one step: a CAS that fails *)
(* finds STATE_LOCKED_WAITING and continues as if the load had.            *)
(***************************************************************************)
EXTENDS Naturals, Sequences, FiniteSets

CONSTANTS
    Members,    \* the group, from the leader to the last writer
    Bad,        \* the members whose memtable insert may fail
    None        \* no thread

Leader  == Members[1]
Writers == {Members[i] : i \in DOMAIN Members}

\* Every call has a Writer of its own.
ASSUME GroupAssumption ==
    /\ Members \in Seq(Writers) /\ Members # <<>>
    /\ \A i, j \in DOMAIN Members : Members[i] = Members[j] => i = j
    /\ None \notin Writers

VARIABLES
    pc,         \* where each thread is
    phase,      \* 1: waits to be launched, 2: waits to be completed
    old,        \* the state BlockingAwaitState loaded
    state,      \* Writer::state
    made,       \* Writer::made_waitable
    mutex,      \* who holds each Writer's StateMutex
    targets,    \* the writers a thread has still to SetState, in order
    running,    \* write_group->running
    status,     \* write_group->status.ok()
    bad         \* the members whose memtable insert fails

vars == <<pc, phase, old, state, made, mutex, targets, running, status, bad>>

States == {"INIT", "GROUP_LEADER", "PARALLEL", "COMPLETED", "LOCKED_WAITING"}

\* The states AwaitState returns on.
Goal(t) == IF phase[t] = 1 THEN {"PARALLEL", "COMPLETED"} ELSE {"COMPLETED"}

Init ==
    /\ pc = [t \in Writers |-> IF t = Leader THEN "set" ELSE "spin"]
    /\ phase = [t \in Writers |-> 1]
    /\ old = [t \in Writers |-> "INIT"]
    /\ state = [t \in Writers |-> IF t = Leader THEN "GROUP_LEADER" ELSE "INIT"]
    /\ made \in [Writers -> BOOLEAN] /\ \A t \in Writers \ {Leader} : ~made[t]
    /\ mutex = [t \in Writers |-> None]
    /\ targets = [t \in Writers |-> IF t = Leader THEN Members ELSE <<>>]
    /\ running = Len(Members)
    /\ status = TRUE
    /\ bad \in SUBSET Bad

-----------------------------------------------------------------------------
(* AwaitState. *)

\* The state is as wished (spinning, or after it blocked): go on.
Goes(t) == pc' = [pc EXCEPT ![t] = "got"]

\* Spin until the state is as wished or the patience is over.
Spin(t) ==
    /\ pc[t] = "spin"
    /\ \/ state[t] \in Goal(t) /\ Goes(t) /\ UNCHANGED made
       \/ /\ state[t] \notin Goal(t)
          /\ pc' = [pc EXCEPT ![t] = "load"]
          /\ made' = [made EXCEPT ![t] = TRUE]
    /\ UNCHANGED <<phase, old, state, mutex, targets, running, status, bad>>

\* BlockingAwaitState: CreateMutex is done; load the state.
Load(t) ==
    /\ pc[t] = "load"
    /\ old' = [old EXCEPT ![t] = state[t]]
    /\ IF state[t] \in Goal(t) THEN Goes(t)
       ELSE pc' = [pc EXCEPT ![t] = "cas"]
    /\ UNCHANGED <<phase, state, made, mutex, targets, running, status, bad>>

\* Mutant: a store instead of the compare_exchange.
AnnounceBlind(t) ==
    /\ pc[t] = "cas"
    /\ state' = [state EXCEPT ![t] = "LOCKED_WAITING"]
    /\ pc' = [pc EXCEPT ![t] = "lock"]
    /\ UNCHANGED <<phase, old, made, mutex, targets, running, status, bad>>

\* Its compare_exchange: announce the wait unless the state changed.
Announce(t) ==
    /\ pc[t] = "cas"
    /\ \/ /\ state[t] = old[t]
          /\ state' = [state EXCEPT ![t] = "LOCKED_WAITING"]
          /\ pc' = [pc EXCEPT ![t] = "lock"]
       \/ state[t] # old[t] /\ Goes(t) /\ UNCHANGED state
    /\ UNCHANGED <<phase, old, made, mutex, targets, running, status, bad>>

\* Take the own mutex; with it, test the predicate of StateCV().wait.
LockOwn(t) ==
    /\ pc[t] = "lock" /\ mutex[t] = None
    /\ mutex' = [mutex EXCEPT ![t] = t]
    /\ pc' = [pc EXCEPT ![t] = "check"]
    /\ UNCHANGED <<phase, old, state, made, targets, running, status, bad>>

Check(t) ==
    /\ pc[t] = "check"
    /\ mutex' = [mutex EXCEPT ![t] = None]
    /\ IF state[t] # "LOCKED_WAITING" THEN Goes(t)
       ELSE pc' = [pc EXCEPT ![t] = "wait"]
    /\ UNCHANGED <<phase, old, state, made, targets, running, status, bad>>

\* A condition variable may wake up for no reason.
SpuriousWake(t) ==
    /\ pc[t] = "wait"
    /\ pc' = [pc EXCEPT ![t] = "lock"]
    /\ UNCHANGED <<phase, old, state, made, mutex, targets, running, status,
                   bad>>

-----------------------------------------------------------------------------
(* SetState on the head of targets[t]. *)

Target(t) == targets[t][1]

\* What it is set to: the leader launches, and the last to finish completes.
NewState(t) == IF phase[t] = 1 THEN "PARALLEL" ELSE "COMPLETED"

\* What a thread does once its SetState calls are done: the leader goes on to
\* its own insert after the launch, anybody returns after the completion.
AfterSetting(t, rest) ==
    IF rest # <<>> THEN "set" ELSE IF phase[t] = 1 THEN "got" ELSE "done"

SetState(t) ==
    LET w == Target(t)
    IN  /\ pc[t] = "set"
        /\ \/ /\ state[w] = "LOCKED_WAITING"
              /\ pc' = [pc EXCEPT ![t] = "setlock"]
              /\ UNCHANGED <<state, targets>>
           \/ /\ state[w] # "LOCKED_WAITING"
              /\ state' = [state EXCEPT ![w] = NewState(t)]
              /\ targets' = [targets EXCEPT ![t] = Tail(@)]
              /\ pc' = [pc EXCEPT ![t] = AfterSetting(t, Tail(targets[t]))]
        /\ UNCHANGED <<phase, old, made, mutex, running, status, bad>>

SetLock(t) ==
    /\ pc[t] = "setlock" /\ mutex[Target(t)] = None
    /\ mutex' = [mutex EXCEPT ![Target(t)] = t]
    /\ pc' = [pc EXCEPT ![t] = "store"]
    /\ UNCHANGED <<phase, old, state, made, targets, running, status, bad>>

\* Under the mutex: store the state and notify the waiter, if it waits.
Store(t) ==
    LET w == Target(t)
    IN  /\ pc[t] = "store"
        /\ state' = [state EXCEPT ![w] = NewState(t)]
        /\ pc' = [pc EXCEPT ![t] = "unlock",
                            ![w] = IF @ = "wait" THEN "lock" ELSE @]
        /\ UNCHANGED <<phase, old, made, mutex, targets, running, status, bad>>

SetUnlock(t) ==
    /\ pc[t] = "unlock"
    /\ mutex' = [mutex EXCEPT ![Target(t)] = None]
    /\ targets' = [targets EXCEPT ![t] = Tail(@)]
    /\ pc' = [pc EXCEPT ![t] = AfterSetting(t, Tail(targets[t]))]
    /\ UNCHANGED <<phase, old, state, made, running, status, bad>>

-----------------------------------------------------------------------------
(* The group: insert, CompleteParallelMemTableWriter, exit. *)

\* Launched: insert, and start CompleteParallelMemTableWriter.  A failed writer
\* has to lock the leader's StateMutex first.
Insert(t) ==
    /\ pc[t] = "got" /\ phase[t] = 1
    /\ phase' = [phase EXCEPT ![t] = 2]
    /\ pc' = [pc EXCEPT ![t] = IF t \in bad THEN "report" ELSE "finish"]
    /\ UNCHANGED <<old, state, made, mutex, targets, running, status, bad>>

\* write_group->status = w->status under the leader's StateMutex.  Until the
\* leader has made that mutex its memory is uninitialized: taking it may do
\* nothing or hang.
ReportFailure(t) ==
    /\ pc[t] = "report"
    /\ \/ /\ made[Leader] => mutex[Leader] = None
          /\ status' = FALSE
          /\ pc' = [pc EXCEPT ![t] = "finish"]
       \/ /\ ~made[Leader]
          /\ pc' = [pc EXCEPT ![t] = "hung"]
          /\ UNCHANGED status
    /\ UNCHANGED <<phase, old, state, made, mutex, targets, running, bad>>

\* Mutant: the leader is completed first.
ExitOrderLeaderFirst(t) ==
    LET n == Len(Members)
        followers == [i \in 1 .. n - 1 |-> Members[n + 1 - i]]
    IN  IF t = Leader THEN followers ELSE <<Leader>> \o followers

\* Whom the last one completes, in order: the followers from the newest, itself
\* among them, and, if it is a follower, the leader at the end.
ExitOrder(t) ==
    LET n == Len(Members)
        followers == [i \in 1 .. n - 1 |-> Members[n + 1 - i]]
    IN  IF t = Leader THEN followers ELSE Append(followers, Leader)

\* Mutant: the last but one exits for the group.
FinishOffByOne(t) ==
    /\ pc[t] = "finish"
    /\ running' = running - 1
    /\ \/ /\ running > 2
          /\ pc' = [pc EXCEPT ![t] = "spin"]
          /\ UNCHANGED targets
       \/ /\ running <= 2
          /\ targets' = [targets EXCEPT ![t] = ExitOrder(t)]
          /\ pc' = [pc EXCEPT ![t] = AfterSetting(t, ExitOrder(t))]
    /\ UNCHANGED <<phase, old, state, made, mutex, status, bad>>

\* running-- > 1: wait for STATE_COMPLETED; else exit for the group.
Finish(t) ==
    /\ pc[t] = "finish"
    /\ running' = running - 1
    /\ \/ /\ running > 1
          /\ pc' = [pc EXCEPT ![t] = "spin"]
          /\ UNCHANGED targets
       \/ /\ running = 1
          /\ targets' = [targets EXCEPT ![t] = ExitOrder(t)]
          /\ pc' = [pc EXCEPT ![t] = AfterSetting(t, ExitOrder(t))]
    /\ UNCHANGED <<phase, old, state, made, mutex, status, bad>>

Return(t) ==
    /\ pc[t] = "got" /\ phase[t] = 2
    /\ pc' = [pc EXCEPT ![t] = "done"]
    /\ UNCHANGED <<phase, old, state, made, mutex, targets, running, status,
                   bad>>

-----------------------------------------------------------------------------
\* Everything a thread does without being forced to by somebody else.
Step(t) ==
    \/ Spin(t) \/ Load(t) \/ Announce(t) \/ LockOwn(t) \/ Check(t)
    \/ SetState(t) \/ SetLock(t) \/ Store(t) \/ SetUnlock(t)
    \/ Insert(t) \/ ReportFailure(t) \/ Finish(t) \/ Return(t)

Finished == \A t \in Writers : pc[t] = "done"

Next == \/ \E t \in Writers : Step(t) \/ SpuriousWake(t)
        \/ Finished /\ UNCHANGED vars

Spec == Init /\ [][Next]_vars

\* Threads keep running; a wait ends for sure only when it is notified; a thread
\* that asks for a mutex that is free again and again gets it in the end.
FairSpec == Spec /\ \A t \in Writers : /\ WF_vars(Step(t)) /\ SF_vars(SetLock(t))
                                        /\ SF_vars(ReportFailure(t))

-----------------------------------------------------------------------------
(* Properties. *)

\* Every variable has its type.
TypeOK ==
    /\ pc \in [Writers -> {"spin", "load", "cas", "lock", "check", "wait", "got",
                           "set", "setlock", "store", "unlock", "report",
                           "finish", "hung", "done"}]
    /\ phase \in [Writers -> 1 .. 2]
    /\ old \in [Writers -> States]
    /\ state \in [Writers -> States]
    /\ made \in [Writers -> BOOLEAN]
    /\ mutex \in [Writers -> Writers \cup {None}]
    /\ targets \in [Writers -> Seq(Writers)]
    /\ running \in 0 .. Len(Members)
    /\ status \in BOOLEAN
    /\ bad \subseteq Bad

Setting == {"set", "setlock", "store", "unlock"}

\* No use after return: a thread inside SetState never touches a Writer (its
\* state, mutex or condition variable) whose owner has returned, nor the group
\* after the leader has.
NoTouchAfterReturn ==
    \A t \in Writers :
        /\ pc[t] \in Setting => pc[Target(t)] # "done" /\ pc[Leader] # "done"
        /\ pc[t] \in {"report", "finish"} => pc[Leader] # "done"

\* Nobody exits the group while another member has yet to insert.
ExitAfterAllInserts ==
    (\E t \in Writers : pc[t] = "done" \/ (phase[t] = 2 /\ pc[t] \in Setting)) =>
        \A u \in Writers : phase[u] = 2

\* No lost wake-up: every member of the group returns, unless one that failed
\* is stuck on the leader's mutex, which was never made (against
\* assert(made_waitable) in StateMutex(), write_thread.h:250).
EveryWaitEnds == <>(\/ \A t \in Writers : pc[t] = "done"
                   \/ \E t \in bad : pc[t] = "hung")
=============================================================================
