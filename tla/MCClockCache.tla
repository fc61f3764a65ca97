---------------------------- MODULE MCClockCache ----------------------------
(* Small instances of ClockCache for TLC: a table of four slots. *)
EXTENDS ClockCache

CONSTANTS t1, t2, t3, h1, h2

\* Keys, by the slot that is tried first: a1 and a2 share one.
Base == [a1 |-> 0, a2 |-> 0, b |-> 1, c |-> 2, d |-> 3]

Entry(k, uses) == [key |-> k, uses |-> uses]
NoCall == [call |-> "none", key |-> "a1", handle |-> FALSE, countdown |-> 1, useful |-> TRUE,
           erase |-> FALSE]
Put(k) == [NoCall EXCEPT !.call = "insert", !.key = k]
PutGet(k) == [Put(k) EXCEPT !.handle = TRUE]
Get(k) == [NoCall EXCEPT !.call = "lookup", !.key = k]
GetErase(k) == [Get(k) EXCEPT !.useful = FALSE, !.erase = TRUE]
Del(k) == [NoCall EXCEPT !.call = "erase", !.key = k]
Outside(k) == [NoCall EXCEPT !.call = "standalone", !.key = k]
Other(c) == [NoCall EXCEPT !.call = c]

Options(strict, capacity, E, calls) ==
    [strict |-> strict, capacity |-> capacity, allow_uncharged |-> TRUE, base |-> Base,
     increment |-> [k \in DOMAIN Base |-> 1], charge |-> [k \in DOMAIN Base |-> 1],
     entries |-> E, calls |-> calls]

Three(x, y, z) == [t \in Threads |-> CASE t = t1 -> x [] t = t2 -> y [] OTHER -> z]
Two == [s \in 0 .. 1 |-> IF s = 0 THEN Entry("a1", 1) ELSE Entry("a2", 0)]
Ends == [s \in {0, 3} |-> IF s = 0 THEN Entry("a1", 1) ELSE Entry("d", 0)]
Full == [s \in 0 .. 2 |-> CASE s = 0 -> Entry("a1", 0) [] s = 1 -> Entry("a2", 1) [] s = 2 -> Entry("c", 0)]
One(uses) == [s \in {0} |-> Entry("a1", uses)]

\* Room has to be made within a strict limit, while entries are used and erased.
Strict == Options(TRUE, 2, Two, Three(<<PutGet("b")>>, <<Get("a2")>>, <<Del("a2")>>))
Race == Options(TRUE, 2, Ends, Three(<<Put("b")>>, <<Put("c")>>, <<>>))

\* All that can be evicted is not enough for a large entry.
Partial == [Race EXCEPT !.charge["b"] = 2, !.calls[t2] = <<Get("a1")>>]

\* The table is as full as it may be.
Crowded == Options(FALSE, 9, Full, Three(<<PutGet("b")>>, <<Get("a2")>>, <<Put("b")>>))

\* An entry that has been used so often that its counters are about to be corrected.
Aged == Options(FALSE, 9, One(6), Three(<<Get("a1"), Get("a1")>>, <<Get("a1"), Put("a1")>>, <<Del("a1")>>))

\* Handles outside of the table, charged or not, one with two owners.
Alone == Options(TRUE, 1, One(1), Three(<<Outside("b")>>, <<Other("ref")>>, <<Put("b")>>))
Large == [Alone EXCEPT !.charge["b"] = 2, !.calls[t3] = <<Other("ref")>>]

\* EraseUnRefEntries and ConstApplyToEntriesRange, among readers.
Scans == Options(FALSE, 2, Ends, Three(<<Other("erase_unref")>>, <<Other("apply")>>, <<Get("d")>>))

\* The cache is over its capacity.
Over == Options(FALSE, 1, Two, Three(<<PutGet("b")>>, <<GetErase("a2")>>, <<>>))

\* One key is inserted twice, and erased by its last user.
Redundant == Options(FALSE, 2, One(1), Three(<<PutGet("a2")>>, <<Put("a2")>>, <<GetErase("a2")>>))

AllOptions == {Strict, Race, Partial, Crowded, Aged, Alone, Large, Scans, Over, Redundant}

\* While t1 looks for a slot t2 moves the free ones to where t1 has been.
MovingOptions == {Options(FALSE, 9, [s \in 0 .. 1 |-> Entry(IF s = 0 THEN "a2" ELSE "b", 1)],
                          Three(<<PutGet("a1")>>, <<Del("a2"), Put("c"), Del("b"), Put("d")>>, <<>>))}
=============================================================================
