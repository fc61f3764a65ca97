------------------------------ MODULE LockTable ------------------------------
(***************************************************************************)
(* What the lock manager promises to transactions, without stripes, mutexes,*)
(* waiting or clocks.  A key has holders, several only if they share it.  An *)
(* open transaction may be aborted by one that takes its locks, and then has *)
(* lost all of them at once; one that has begun to prepare or to commit is   *)
(* sealed and keeps what it holds until it lets go itself.                   *)
(***************************************************************************)
CONSTANTS Txns, Keys

VARIABLES
    holders,    \* [Keys -> SUBSET Txns]
    exclusive,  \* [Keys -> BOOLEAN]
    status      \* [Txns -> {"open", "sealed", "aborted"}]

vars == <<holders, exclusive, status>>

Init ==
    /\ holders = [k \in Keys |-> {}]
    /\ exclusive = [k \in Keys |-> FALSE]
    /\ status = [t \in Txns |-> "open"]

Aborted(V) == [t \in Txns |-> IF t \in V THEN "aborted" ELSE status[t]]

\* t gets k after every holder it cannot share k with, all of them still open,
\* has been aborted.
Grant(t, k, ex, V) ==
    /\ status[t] # "aborted"
    /\ V \subseteq holders[k] \ {t}
    /\ \A v \in V : status[v] = "open"
    /\ holders[k] \ (V \cup {t}) = {} \/ (~exclusive[k] /\ ~ex)
    /\ status' = Aborted(V)
    /\ holders' = [j \in Keys |-> IF j = k THEN (holders[j] \ V) \cup {t}
                                           ELSE holders[j] \ V]
    /\ exclusive' = [j \in Keys |-> IF j = k THEN ex
                                    ELSE exclusive[j] /\ holders[j] \ V # {}]

Abort(V) ==
    /\ \A v \in V : status[v] = "open"
    /\ status' = Aborted(V)
    /\ holders' = [k \in Keys |-> holders[k] \ V]
    /\ exclusive' = [k \in Keys |-> exclusive[k] /\ holders[k] \ V # {}]

Seal(t) ==
    /\ status[t] = "open"
    /\ status' = [status EXCEPT ![t] = "sealed"]
    /\ UNCHANGED <<holders, exclusive>>

Release(t, K) ==
    /\ holders' = [k \in Keys |-> IF k \in K THEN holders[k] \ {t} ELSE holders[k]]
    /\ exclusive' = [k \in Keys |-> exclusive[k] /\ (k \in K => holders[k] \ {t} # {})]
    /\ UNCHANGED status

Next ==
    \/ \E k \in Keys : \E V \in SUBSET holders[k] :
          Abort(V) \/ \E t \in Txns, ex \in BOOLEAN : Grant(t, k, ex, V)
    \/ \E t \in Txns : Seal(t) \/ \E K \in SUBSET Keys : Release(t, K)

Spec == Init /\ [][Next]_vars
=============================================================================
