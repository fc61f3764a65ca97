---------------------- MODULE MCPessimisticTransaction ----------------------
(* Small instances of PessimisticTransaction for TLC. *)
EXTENDS PessimisticTransaction, TLC

CONSTANTS t1, t2, t3, k1, k2, k3, s1, s2

Lock_(k, ex, val) == [key |-> k, exclusive |-> ex, validate |-> val]

Exclusive == {Lock_(k, TRUE, FALSE) : k \in {k1, k2}}

\* A transaction that waits as long as it takes, detects deadlocks, and is
\* destroyed in the end.
Patient == [expiration |-> -1, lock_timeout |-> -1, deadlock_detect |-> TRUE,
            set_snapshot |-> FALSE, save_point |-> FALSE, two_phase |-> FALSE,
            calls |-> 2, requests |-> Exclusive, ends |-> {"destroy"}]

Database == [max_num_locks |-> 0, deadlock_detect_depth |-> 4, write_errors |-> FALSE,
             stripe |-> (k1 :> s1) @@ (k2 :> s2) @@ (k3 :> s1), txn |-> <<>>]

Deadlocks == [Database EXCEPT !.txn =
    (t1 :> Patient) @@ (t2 :> [Patient EXCEPT !.requests = @ \cup {Lock_(k1, FALSE, FALSE)}]) @@
    (t3 :> [Patient EXCEPT !.calls = 1, !.requests = {Lock_(k1, FALSE, FALSE)}])]

\* Transactions that expire with two locks; one may be prepared in time.
Expiring == [Database EXCEPT !.txn =
    (t1 :> [Patient EXCEPT !.expiration = 1, !.ends = {"commit"}]) @@
    (t2 :> [Patient EXCEPT !.expiration = 1, !.ends = {"commit"}, !.two_phase = TRUE,
                           !.calls = 1])]

\* A shared lock that expires, one of its holders perhaps prepared.
Sharing == [Database EXCEPT !.txn = [t \in {t1, t2, t3} |->
    [Patient EXCEPT !.expiration = 1, !.calls = 1, !.two_phase = (t = t2), !.requests = {Lock_(k1, t = t1, FALSE)}]]]

\* Validation against a snapshot, save points, failing writes.
Validating == [Database EXCEPT !.write_errors = TRUE, !.txn =
    (t1 :> [Patient EXCEPT !.set_snapshot = TRUE, !.save_point = TRUE, !.ends = {"commit"},
              !.requests = {Lock_(k1, TRUE, TRUE), Lock_(k2, TRUE, FALSE), Lock_(k2, TRUE, TRUE)}]) @@
    (t2 :> [Patient EXCEPT !.two_phase = TRUE, !.ends = {"commit", "rollback"},
              !.calls = 1])]

\* A limit of one lock, and more keys than the race between the stripes lets pass;
\* nobody waits.
Limited == [Database EXCEPT !.max_num_locks = 1, !.txn = [t \in {t1, t2} |->
    [Patient EXCEPT !.lock_timeout = 0, !.requests = {Lock_(k, TRUE, FALSE) : k \in Keys}]]]

\* Somebody waits at the limit, for a while or for as long as it takes.
LimitedWait == [Limited EXCEPT !.txn[t1].lock_timeout = 1, !.txn[t1].calls = 1]
LimitedPatience == [LimitedWait EXCEPT !.txn[t1].lock_timeout = -1]

\* Shared locks under a limit.
SharedLimit == [Limited EXCEPT !.txn = [t \in {t1, t2, t3} |->
    [Patient EXCEPT !.lock_timeout = 0, !.calls = 1,
                    !.requests = IF t = t3 THEN Exclusive ELSE {Lock_(k1, FALSE, FALSE)}]]]

\* All keys in one stripe: whoever waits at the limit is notified.
OneStripe == [Database EXCEPT !.max_num_locks = 1, !.stripe = [k \in Keys |-> s1], !.txn =
    [t \in {t1, t2} |-> [Patient EXCEPT !.calls = 1]]]

\* Transactions that time out.
Hasty == [Database EXCEPT !.txn = [t \in {t1, t2} |->
    [Patient EXCEPT !.lock_timeout = 1, !.deadlock_detect = FALSE]]]

\* A lock upgrade that is validated against an older snapshot.
Upgrading == [Database EXCEPT !.txn =
    (t1 :> [Patient EXCEPT !.set_snapshot = TRUE, !.ends = {"commit"},
              !.requests = {Lock_(k1, FALSE, FALSE), Lock_(k1, TRUE, TRUE)}]) @@
    (t2 :> [Patient EXCEPT !.ends = {"commit"}, !.calls = 1])]

UpgradeOptions == {Upgrading}

\* The same, but the upgrading transaction does not commit.
Doomed == [Upgrading EXCEPT !.txn[t1].ends = {"destroy"}]

AllOptions == {Deadlocks, Expiring, Sharing, Validating, Limited, LimitedWait,
               LimitedPatience, SharedLimit, OneStripe, Hasty, Doomed}
=============================================================================
