------------------------ MODULE MCWritePreparedTxnDB ------------------------
(* Small instances of WritePreparedTxnDB for TLC. *)
EXTENDS WritePreparedTxnDB, TLC

CONSTANTS t1, t2, r1, r2

\* The transactions in kind have one sub-batch each, but for those in twice.
Options(two, last, recovered, kind, twice, reads) ==
    [two_write_queues |-> two, last |-> last, recovered |-> recovered, kind |-> kind,
     batch_cnt |-> [t \in DOMAIN kind |-> IF t \in twice THEN 2 ELSE 1], reads |-> reads]

\* t1 was recovered as prepared, and t2 prepares.
Delayed == Options(FALSE, 2, t1 :> <<1>>, t1 :> "commit" @@ t2 :> "commit", {}, r1 :> "snapshot")

\* The same, with commits in the second queue.
TwoQueues == Options(TRUE, 2, t1 :> <<1>>, t1 :> "commit" @@ t2 :> "write", {}, r1 :> "snapshot")

\* t1 is rolled back, by one write or by two.
OneRollback == Options(FALSE, 2, t1 :> <<1>>, t1 :> "rollback" @@ t2 :> "write", {t2}, r1 :> "get")
TwoRollbacks == [OneRollback EXCEPT !.two_write_queues = TRUE, !.batch_cnt[t2] = 1]

\* Duplicate keys, in a new database.
Duplicates == Options(TRUE, 0, <<>>, t1 :> "commit" @@ t2 :> "commit", {t1}, r1 :> "snapshot")

\* More snapshots than snapshot_cache_ has room for, and a recovered transaction with
\* duplicate keys, whose commit overlaps with both, one or none of them.
Snapshots == Options(FALSE, 2, t1 :> <<1, 2>>, t1 :> "commit" @@ t2 :> "write", {t1},
                     r1 :> "snapshot" @@ r2 :> "hold")

AllOptions == {Delayed, TwoQueues, OneRollback, TwoRollbacks, Duplicates, Snapshots}
=============================================================================
