--------------------------- MODULE MCWriteThread ---------------------------
(* Small instances of WriteThread for TLC.  Writers are alike, so that of  *)
(* the instances that differ only in who makes which call there is one.    *)
EXTENDS WriteThread

CONSTANTS w1, w2, w3, k1

Put == [sync |-> FALSE, no_slowdown |-> FALSE, disable_wal |-> FALSE,
        disable_memtable |-> FALSE, merge |-> FALSE, bad |-> FALSE,
        callback |-> "none", keys |-> 1]
NoSlowdown == [Put EXCEPT !.no_slowdown = TRUE]
Bad == [Put EXCEPT !.bad = TRUE]

Instance(x, y, z, lockers, concurrent) ==
    [opt |-> [w \in Writers |-> CASE w = w1 -> x [] w = w2 -> y [] OTHER -> z],
     lockers |-> lockers, allow_concurrent |-> concurrent]

\* Writes that meet a stall.
Stalls == {Instance(Put, Put, NoSlowdown, Lockers, FALSE)}

\* Writes that differ in what the group does with them.
GroupKinds == <<Put,
                [Put EXCEPT !.sync = TRUE, !.keys = 2],
                [Put EXCEPT !.disable_memtable = TRUE],
                [Put EXCEPT !.callback = "fail"],
                [Put EXCEPT !.merge = TRUE, !.callback = "alone"],
                [Put EXCEPT !.disable_wal = TRUE, !.callback = "ok"]>>

\* Three different ones, or two Puts and another.
Groups == {Instance(GroupKinds[k[1]], GroupKinds[k[2]], GroupKinds[k[3]], {}, TRUE) :
             k \in {k \in [1 .. 3 -> DOMAIN GroupKinds] :
                      k[1] <= k[2] /\ k[2] < k[3] /\ (k[1] = k[2] => k[1] = 1)}}

Both == Stalls \cup Groups

\* One of the writes names a column family that does not exist.
BadInstances == {Instance(Bad, Put, Put, {}, FALSE)}
=============================================================================
