------------------------------ MODULE ClockCache ------------------------------
(***************************************************************************)
(* One shard of the HyperClockCache: a hash table of slots that is read    *)
(* and written without locks.  A slot is owned, shared or empty by what    *)
(* its meta word says, and evicted by a clock that counts down in the same *)
(* word.  cache/clock_cache.{h,cc}                                         *)
(*                                                                         *)
(* Each atomic operation another thread may come between is a step.        *)
(***************************************************************************)
EXTENDS Integers, FiniteSets, FiniteSetsExt, Sequences, SequencesExt

CONSTANTS
    Threads,
    Heap,               \* addresses for handles outside of the table
    NoHandle,           \* nullptr
    length_bits,
    kCounterNumBits,
    DisplacementRange,  \* how many values a displacement count has: 2^32 in the code
    OptionSets          \* what the threads do, and where they begin

VARIABLES
    options,
    meta,               \* ClockHandle::meta, as the number it is
    data,               \* what a handle holds
    displacements,
    occupancy,
    usage,
    standalone_usage,
    clock_pointer,
    pc,
    todo,               \* the calls each thread has still to make
    local               \* the locals of its call

entries == <<meta, data>>
counts == <<occupancy, usage, standalone_usage>>
vars == <<options, entries, displacements, counts, clock_pointer, pc, todo, local>>

TableSize == 2 ^ length_bits
Slots == 0 .. TableSize - 1
Handles == Slots \cup Heap

\* kStrictLoadFactor is 0.84.
occupancy_limit == (TableSize * 84) \div 100

kMaxCountdown == 3
step_size == 4

ASSUME CounterAssumption == 2 ^ (kCounterNumBits - 1) > kMaxCountdown + 1

-----------------------------------------------------------------------------
(* The meta word: acquire counter, release counter and state, from the low *)
(* bits to the high ones.                                                  *)

CounterRange == 2 ^ kCounterNumBits
kAcquireIncrement == 1
kReleaseIncrement == CounterRange
StateIncrement == CounterRange * CounterRange

kStateEmpty == 0
kStateConstruction == 4
kStateInvisible == 6
kStateVisible == 7

State(m) == m \div StateIncrement
Acquires(m) == m % CounterRange
Releases(m) == (m \div CounterRange) % CounterRange
Meta(s, a, r) == s * StateIncrement + r * kReleaseIncrement + a
Shareable(m) == State(m) \in {kStateInvisible, kStateVisible}
GetRefcount(m) == (Acquires(m) - Releases(m)) % CounterRange

\* CorrectNearOverflow's kCheckBits and kClearBits.
TopBit == 2 ^ (kCounterNumBits - 1)
HasBit(c, b) == (c \div b) % 2 = 1

NearOverflow(m) == HasBit(Releases(m), TopBit) \/ HasBit(Releases(m), kMaxCountdown + 1)

\* Mutant: the release counter is left as it is.
ClearTopBit(m) == Meta(State(m), Acquires(m) % TopBit, Releases(m))

ClearTopBits(m) == Meta(State(m), Acquires(m) % TopBit, Releases(m) % TopBit)

-----------------------------------------------------------------------------
(* A call is a record: call, key, handle (whether Insert is to return      *)
(* one), countdown (the priority), useful and erase (the arguments of the  *)
(* Release that follows).                                                  *)

Call(t) == Head(todo[t])
Charge(t) == options.charge[Call(t).key]
Proto(t) == [key |-> Call(t).key, charge |-> Charge(t), by |-> <<t, Len(todo[t])>>]

NoLocal == [h |-> NoHandle, probe |-> 0, back |-> 0, old |-> 0, key |-> NoHandle, held |-> NoHandle,
            charge |-> 0, need_occupancy |-> FALSE, taken |-> 0, need |-> 0, request |-> 0,
            freed_charge |-> 0, freed_count |-> 0, pointer |-> 0, last |-> 0, i |-> 0]

\* Where FindSlot looks for a key: an odd increment visits every slot.
Probe(k, p) == (options.base[k] + p * options.increment[k]) % TableSize

\* The slots before h that an entry for k at h has been displaced from.
Displaced(k, h) ==
    {s \in Slots : \E p \in Slots : s = Probe(k, p) /\ \A q \in 0 .. p : Probe(k, q) # h}

\* A table with some entries, as earlier calls have left it: entries is a function
\* from slots to entries with a count of earlier uses.
Init ==
    /\ options \in OptionSets
    /\ LET E == options.entries
           D == DOMAIN E
       IN  /\ meta = [h \in Handles |-> IF h \in D THEN Meta(kStateVisible, E[h].uses, E[h].uses)
                                        ELSE 0]
           /\ data = [h \in Handles |->
                        IF h \in D
                        THEN [key |-> E[h].key, charge |-> options.charge[E[h].key], by |-> <<>>]
                        ELSE NoHandle]
           /\ displacements = [s \in Slots |-> Cardinality({h \in D : s \in Displaced(E[h].key, h)})]
           /\ occupancy = Cardinality(D)
           /\ usage = MapThenSumSet(LAMBDA h : options.charge[E[h].key], D)
    /\ standalone_usage = 0 /\ clock_pointer = 0
    /\ pc = [t \in Threads |-> "ready"]
    /\ todo = options.calls
    /\ local = [t \in Threads |-> NoLocal]

To(t, l, L) ==
    /\ pc' = [pc EXCEPT ![t] = l]
    /\ local' = [local EXCEPT ![t] = L]
    /\ UNCHANGED <<options, todo>>

Goto(t, l) == To(t, l, local[t])

Return(t) ==
    /\ pc' = [pc EXCEPT ![t] = "ready"]
    /\ local' = [local EXCEPT ![t] = NoLocal]
    /\ todo' = [todo EXCEPT ![t] = Tail(@)]
    /\ UNCHANGED options

\* On to the next slot of a scan.
NextScan(t) == IF local[t].i + 1 < TableSize THEN To(t, "scan", [NoLocal EXCEPT !.i = local[t].i + 1])
               ELSE Return(t)

Calls(t, c) == pc[t] = "ready" /\ todo[t] # <<>> /\ Call(t).call = c
At(t, l) == pc[t] = l
SetMeta(h, m) == meta' = [meta EXCEPT ![h] = m]

-----------------------------------------------------------------------------
(* ChargeUsageMaybeEvictStrict and ChargeUsageMaybeEvictNonStrict.         *)

Insert(t) ==
    /\ Calls(t, "insert")
    /\ occupancy' = occupancy + 1
    /\ To(t, "charge", [NoLocal EXCEPT !.charge = Charge(t),
                                       !.need_occupancy = occupancy >= occupancy_limit])
    /\ UNCHANGED <<entries, displacements, usage, standalone_usage, clock_pointer>>

CreateStandalone(t) ==
    /\ Calls(t, "standalone")
    /\ To(t, "charge", [NoLocal EXCEPT !.charge = Charge(t)])
    /\ UNCHANGED <<entries, displacements, counts, clock_pointer>>

\* How much has to be evicted, at least one entry if it is for its place.
ToEvict(t, taken, need) ==
    LET request == IF local[t].need_occupancy /\ need = 0 THEN 1 ELSE need
    IN  To(t, IF request > 0 THEN "evict_first" ELSE "settle",
           [local[t] EXCEPT !.taken = taken, !.need = need, !.request = request])

\* Strict: what is free of the capacity is taken at once, the rest is to be evicted.
ChargeStrict(t) ==
    LET c == local[t].charge
        new == Min({options.capacity, usage + c})
    IN  /\ At(t, "charge") /\ options.strict /\ c <= options.capacity
        /\ usage' = new
        /\ ToEvict(t, new - usage, usage + c - new)
        /\ UNCHANGED <<entries, displacements, occupancy, standalone_usage, clock_pointer>>

ChargeTooLarge(t) ==
    /\ At(t, "charge") /\ options.strict /\ local[t].charge > options.capacity
    /\ Goto(t, "fail")
    /\ UNCHANGED <<entries, displacements, counts, clock_pointer>>

\* Not strict: the charge is evicted if there is that much, and a little more if the
\* cache is over its capacity; it is accounted for afterwards.
ChargeNonStrict(t) ==
    LET c == local[t].charge
        extra == IF usage > options.capacity THEN Min({options.capacity \div 1024, c}) + 1 ELSE 0
    IN  /\ At(t, "charge") /\ ~options.strict
        /\ ToEvict(t, 0, IF usage + c <= options.capacity \/ c > usage THEN 0 ELSE c + extra)
        /\ UNCHANGED <<entries, displacements, counts, clock_pointer>>

-----------------------------------------------------------------------------
(* Evict and ClockUpdate.                                                  *)

\* step_size slots are claimed at a time, until enough is freed or the clock has
\* gone round kMaxCountdown times.
Evict(t) ==
    LET last == IF At(t, "evict_first") THEN clock_pointer + kMaxCountdown * TableSize
                ELSE local[t].last
    IN  /\ At(t, "evict_first") \/ At(t, "evict")
        /\ clock_pointer' = clock_pointer + step_size
        /\ To(t, "clock", [local[t] EXCEPT !.pointer = clock_pointer, !.last = last, !.i = 0])
        /\ UNCHANGED <<entries, displacements, counts>>

ClockSlot(t) == (local[t].pointer + local[t].i) % TableSize

\* On with locals L, after a slot.
NextClock(t, L) ==
    IF L.i + 1 < step_size THEN To(t, "clock", [L EXCEPT !.i = @ + 1])
    ELSE To(t, IF L.freed_charge >= L.request \/ L.pointer >= L.last THEN "evicted" ELSE "evict", L)

\* ClockUpdate's load: only entries without references are of interest.
ClockLoad(t) ==
    LET m == meta[ClockSlot(t)]
    IN  /\ At(t, "clock")
        /\ IF Acquires(m) = Releases(m) /\ Shareable(m)
           THEN To(t, "clock_update", [local[t] EXCEPT !.old = m])
           ELSE NextClock(t, local[t])
        /\ UNCHANGED <<entries, displacements, counts, clock_pointer>>

\* t owns h and is to free it.
Owns(t, h, l) == To(t, l, [local[t] EXCEPT !.h = h, !.key = data[h].key, !.back = 0,
                                           !.held = NoHandle])

\* Mutant: the entry is taken without looking at it again.
ClockUpdateBlind(t) ==
    LET h == ClockSlot(t)
        m == local[t].old
        count == Min({Acquires(m), kMaxCountdown}) - 1
        counts_down == State(m) = kStateVisible /\ Acquires(m) > 0
    IN  /\ At(t, "clock_update")
        /\ SetMeta(h, IF counts_down THEN Meta(kStateVisible, count, count)
                      ELSE Meta(kStateConstruction, 0, 0))
        /\ IF counts_down THEN NextClock(t, local[t])
           ELSE Owns(t, h, "evict_rollback")
        /\ UNCHANGED <<data, displacements, counts, clock_pointer>>

\* ClockUpdate's compare-exchange, which is not repeated: a visible entry's
\* countdown goes down, until it is evicted.
ClockUpdate(t) ==
    LET h == ClockSlot(t)
        m == local[t].old
        count == Min({Acquires(m), kMaxCountdown}) - 1
    IN  /\ At(t, "clock_update")
        /\ \/ meta[h] # m /\ NextClock(t, local[t]) /\ UNCHANGED meta
           \/ /\ meta[h] = m /\ State(m) = kStateVisible /\ Acquires(m) > 0
              /\ SetMeta(h, Meta(kStateVisible, count, count))
              /\ NextClock(t, local[t])
           \/ /\ meta[h] = m /\ ~(State(m) = kStateVisible /\ Acquires(m) > 0)
              /\ SetMeta(h, Meta(kStateConstruction, 0, 0))
              /\ Owns(t, h, "evict_rollback")
        /\ UNCHANGED <<data, displacements, counts, clock_pointer>>

\* After Rollback: the data is freed and the slot is empty.
EvictFree(t) ==
    LET L == local[t]
    IN  /\ At(t, "evict_free")
        /\ data' = [data EXCEPT ![L.h] = NoHandle]
        /\ SetMeta(L.h, 0)
        /\ NextClock(t, [L EXCEPT !.h = NoHandle, !.freed_charge = @ + data[L.h].charge, !.freed_count = @ + 1])
        /\ UNCHANGED <<displacements, counts, clock_pointer>>

\* Back in ChargeUsageMaybeEvict: the places of what was evicted are free.
Evicted(t) ==
    LET L == local[t]
        deficit == ~options.strict /\ L.need_occupancy /\ L.freed_count = 0
    IN  /\ At(t, "evicted")
        /\ occupancy' = occupancy - L.freed_count
        /\ Goto(t, IF deficit THEN "fail" ELSE "settle")
        /\ UNCHANGED <<entries, displacements, usage, standalone_usage, clock_pointer>>

Charged(t) == Goto(t, IF Call(t).call = "insert" THEN "charged" ELSE "standalone")

\* Mutant: an insert that fails forgets what it has evicted.
SettleTaken(t) ==
    LET L == local[t]
        short == L.freed_charge < L.need \/ (L.need_occupancy /\ L.freed_count = 0)
    IN  /\ At(t, "settle")
        /\ IF ~options.strict
           THEN usage' = usage + L.charge - L.freed_charge /\ Charged(t)
           ELSE IF L.freed_charge > L.need
           THEN usage' = usage - (L.freed_charge - L.need) /\ Charged(t)
           ELSE IF short THEN usage' = usage - L.taken /\ Goto(t, "fail")
           ELSE Charged(t) /\ UNCHANGED usage
        /\ UNCHANGED <<entries, displacements, occupancy, standalone_usage, clock_pointer>>

\* The usage is settled: what was freed in excess is given back, or all of it.
Settle(t) ==
    LET L == local[t]
        short == L.freed_charge < L.need \/ (L.need_occupancy /\ L.freed_count = 0)
    IN  /\ At(t, "settle")
        /\ IF ~options.strict
           THEN usage' = usage + L.charge - L.freed_charge /\ Charged(t)
           ELSE IF L.freed_charge > L.need
           THEN usage' = usage - (L.freed_charge - L.need) /\ Charged(t)
           ELSE IF short
           THEN usage' = usage - (L.freed_charge + L.taken) /\ Goto(t, "fail")
           ELSE Charged(t) /\ UNCHANGED usage
        /\ UNCHANGED <<entries, displacements, occupancy, standalone_usage, clock_pointer>>

\* No room: an error if the limit is strict, but for a standalone handle that may
\* go uncharged.
FailStrict(t) ==
    LET standalone == Call(t).call = "standalone"
    IN  /\ At(t, "fail") /\ options.strict
        /\ occupancy' = IF standalone THEN occupancy ELSE occupancy - 1
        /\ IF standalone /\ options.allow_uncharged
           THEN To(t, "standalone", [local[t] EXCEPT !.charge = 0])
           ELSE Return(t)
        /\ UNCHANGED <<entries, displacements, usage, standalone_usage, clock_pointer>>

\* Otherwise as if it had been evicted at once, or a standalone handle.
FailNonStrict(t) ==
    /\ At(t, "fail") /\ ~options.strict
    /\ occupancy' = occupancy - 1
    /\ IF Call(t).handle THEN Goto(t, "force_usage") ELSE Return(t)
    /\ UNCHANGED <<entries, displacements, usage, standalone_usage, clock_pointer>>

ForceUsage(t) ==
    /\ At(t, "force_usage")
    /\ usage' = usage + local[t].charge
    /\ Goto(t, "standalone")
    /\ UNCHANGED <<entries, displacements, occupancy, standalone_usage, clock_pointer>>

StandaloneInsert(t) ==
    /\ At(t, "standalone")
    /\ \E h \in Heap :
          /\ meta[h] = 0
          /\ SetMeta(h, Meta(kStateInvisible, 1, 0))
          /\ data' = [data EXCEPT ![h] = [Proto(t) EXCEPT !.charge = local[t].charge]]
          /\ To(t, "held", [local[t] EXCEPT !.h = h, !.held = data'[h]])
    /\ standalone_usage' = standalone_usage + local[t].charge
    /\ UNCHANGED <<displacements, occupancy, usage, clock_pointer>>

-----------------------------------------------------------------------------
(* FindSlot, for Insert, Lookup and Erase.                                 *)

Slot(t) == Probe(Call(t).key, local[t].probe)

\* Insert acquires as many references as its countdown is worth.
Refs(t) == IF Call(t).call = "insert" THEN Call(t).countdown ELSE 1

\* Insert: the slot becomes its own if it was empty.
InsertFetchOr(t) ==
    LET m == meta[Slot(t)]
    IN  /\ At(t, "charged")
        /\ SetMeta(Slot(t), IF HasBit(State(m), 4) THEN m ELSE m + 4 * StateIncrement)
        /\ Goto(t, IF State(m) = kStateEmpty THEN "construct"
                   ELSE IF State(m) = kStateVisible THEN "acquire" ELSE "next")
        /\ UNCHANGED <<data, displacements, counts, clock_pointer>>

InsertVisible(t) ==
    LET c == Call(t)
    IN  /\ At(t, "construct")
        /\ data' = [data EXCEPT ![Slot(t)] = Proto(t)]
        /\ SetMeta(Slot(t), Meta(kStateVisible, c.countdown, c.countdown - (IF c.handle THEN 1 ELSE 0)))
        /\ IF c.handle THEN To(t, "held", [local[t] EXCEPT !.h = Slot(t), !.held = Proto(t)])
           ELSE Return(t)
        /\ UNCHANGED <<displacements, counts, clock_pointer>>

FindSlot(t) ==
    /\ Calls(t, "lookup") \/ Calls(t, "erase")
    /\ To(t, "acquire", NoLocal)
    /\ UNCHANGED <<entries, displacements, counts, clock_pointer>>

\* The acquire counter goes up first; then it is seen whether that was a reference,
\* and to what.
Acquire(t) ==
    LET h == Slot(t)
        L == [local[t] EXCEPT !.h = h, !.held = data[h]]
    IN  /\ At(t, "acquire")
        /\ SetMeta(h, meta[h] + Refs(t) * kAcquireIncrement)
        /\ IF State(meta[h]) = kStateVisible /\ data[h].key = Call(t).key
           THEN To(t, CASE Call(t).call = "lookup" -> "held"
                        [] Call(t).call = "insert" -> "boost"
                        [] Call(t).call = "erase" -> "hide", L)
           ELSE IF Shareable(meta[h]) THEN To(t, "undo", L)
           ELSE Goto(t, "next")
        /\ UNCHANGED <<data, displacements, counts, clock_pointer>>

\* As if the reference had never been taken.
Undo(t) ==
    /\ At(t, "undo")
    /\ SetMeta(local[t].h, meta[local[t].h] - Refs(t) * kAcquireIncrement)
    /\ To(t, "next", [local[t] EXCEPT !.h = NoHandle, !.held = NoHandle])
    /\ UNCHANGED <<data, displacements, counts, clock_pointer>>

\* Mutant: an insert that goes past a slot leaves no trace.
NextProbeUncounted(t) ==
    LET more == local[t].probe + 1 < TableSize
    IN  /\ At(t, "next")
        /\ IF Call(t).call = "insert"
           THEN IF more THEN To(t, "charged", [local[t] EXCEPT !.probe = @ + 1])
                ELSE To(t, "rollback", [local[t] EXCEPT !.key = Call(t).key, !.back = 0])
           ELSE IF more THEN To(t, "acquire", [local[t] EXCEPT !.probe = @ + 1]) ELSE Return(t)
        /\ UNCHANGED <<entries, displacements, counts, clock_pointer>>

\* Past a slot: an insert counts that it was displaced; the others stop if nobody
\* was.  An insert that has seen every slot has no handle to roll back to.
NextProbe(t) ==
    LET s == Slot(t)
        inserts == Call(t).call = "insert"
        more == local[t].probe + 1 < TableSize
    IN  /\ At(t, "next")
        /\ displacements' = IF inserts
                            THEN [displacements EXCEPT ![s] = (@ + 1) % DisplacementRange]
                            ELSE displacements
        /\ IF inserts /\ more THEN To(t, "charged", [local[t] EXCEPT !.probe = @ + 1])
           ELSE IF inserts THEN To(t, "rollback", [local[t] EXCEPT !.key = Call(t).key, !.back = 0])
           ELSE IF more /\ displacements[s] # 0
           THEN To(t, "acquire", [local[t] EXCEPT !.probe = @ + 1])
           ELSE Return(t)
        /\ UNCHANGED <<entries, counts, clock_pointer>>

\* Insert meets an entry for its key, and releases it so that its countdown is the
\* better for it.
Boost(t) ==
    LET h == local[t].h
        m == meta[h]
    IN  /\ At(t, "boost")
        /\ SetMeta(h, m + Refs(t) * kReleaseIncrement)
        /\ To(t, IF NearOverflow(m) THEN "boost_correct" ELSE "rollback",
              [local[t] EXCEPT !.key = Call(t).key, !.held = NoHandle, !.back = 0])
        /\ UNCHANGED <<data, displacements, counts, clock_pointer>>

\* CorrectNearOverflow's fetch_and.
CorrectNearOverflow(t) ==
    LET h == local[t].h
    IN  /\ At(t, "correct") \/ At(t, "boost_correct")
        /\ SetMeta(h, ClearTopBits(meta[h]))
        /\ IF At(t, "correct") THEN Return(t) ELSE Goto(t, "rollback")
        /\ UNCHANGED <<data, displacements, counts, clock_pointer>>

\* Rollback, slot by slot.
Rollback(t) ==
    LET L == local[t]
        s == Probe(L.key, L.back)
        then == [rollback |-> "unoccupy", evict_rollback |-> "evict_free",
                 own_rollback |-> "free", erase_rollback |-> "next"]
    IN  /\ pc[t] \in DOMAIN then
        /\ IF s # L.h
           THEN /\ displacements' = [displacements EXCEPT ![s] = (@ - 1) % DisplacementRange]
                /\ To(t, pc[t], [L EXCEPT !.back = (@ + 1) % TableSize])
           ELSE /\ UNCHANGED displacements
                /\ Goto(t, then[pc[t]])
        /\ UNCHANGED <<entries, counts, clock_pointer>>

\* Insert did not get a slot: back with its place, and with its usage unless a
\* standalone handle needs it.
Unoccupy(t) ==
    /\ At(t, "unoccupy")
    /\ occupancy' = occupancy - 1
    /\ Goto(t, IF Call(t).handle THEN "standalone" ELSE "uncharge")
    /\ UNCHANGED <<entries, displacements, usage, standalone_usage, clock_pointer>>

\* revert_usage_fn, and what is left of Release, ReclaimEntryUsage and their callers.
Uncharge(t) ==
    /\ At(t, "uncharge")
    /\ usage' = usage - local[t].charge
    /\ CASE Call(t).call = "erase" -> Goto(t, "erase_rollback")
         [] Call(t).call = "erase_unref" -> NextScan(t)
         [] OTHER -> Return(t)
    /\ UNCHANGED <<entries, displacements, occupancy, standalone_usage, clock_pointer>>

-----------------------------------------------------------------------------
(* Release, Ref, Erase, EraseUnRefEntries and ConstApplyToEntriesRange.    *)

\* A holder of a handle gives another thread a reference.
Ref(t) ==
    /\ Calls(t, "ref")
    /\ \E u \in Threads :
          /\ At(u, "held")
          /\ SetMeta(local[u].h, meta[local[u].h] + kAcquireIncrement)
          /\ To(t, "held", [NoLocal EXCEPT !.h = local[u].h, !.held = local[u].held])
    /\ UNCHANGED <<data, displacements, counts, clock_pointer>>

\* A useful release counts as a use; one that was not takes the acquire back.
Release(t) ==
    LET h == local[t].h
        m == meta[h] + (IF Call(t).useful THEN kReleaseIncrement ELSE -kAcquireIncrement)
        owns == Call(t).erase \/ State(meta[h]) = kStateInvisible
    IN  /\ At(t, "held")
        /\ SetMeta(h, m)
        /\ IF owns THEN To(t, "try_own", [local[t] EXCEPT !.held = NoHandle, !.old = m])
           ELSE IF NearOverflow(meta[h]) THEN To(t, "correct", [local[t] EXCEPT !.held = NoHandle])
           ELSE Return(t)
        /\ UNCHANGED <<data, displacements, counts, clock_pointer>>

\* Whoever has released the last reference may free the entry, unless somebody
\* else has begun to.
TryOwn(t) ==
    LET h == local[t].h
        m == local[t].old
    IN  /\ At(t, "try_own")
        /\ IF GetRefcount(m) # 0
           THEN (IF NearOverflow(m) THEN Goto(t, "correct") ELSE Return(t)) /\ UNCHANGED meta
           ELSE IF ~Shareable(m) THEN Return(t) /\ UNCHANGED meta
           ELSE IF meta[h] # m THEN To(t, "try_own", [local[t] EXCEPT !.old = meta[h]]) /\ UNCHANGED meta
           ELSE /\ SetMeta(h, Meta(kStateConstruction, 0, 0))
                /\ Owns(t, h, IF h \in Heap THEN "delete" ELSE "own_rollback")
        /\ UNCHANGED <<data, displacements, counts, clock_pointer>>

\* A standalone handle is deleted, and then its usage is taken back.
Delete(t) ==
    LET h == local[t].h
    IN  /\ At(t, "delete")
        /\ data' = [data EXCEPT ![h] = NoHandle]
        /\ SetMeta(h, 0)
        /\ standalone_usage' = standalone_usage - data[h].charge
        /\ To(t, "uncharge", [local[t] EXCEPT !.charge = data[h].charge])
        /\ UNCHANGED <<displacements, occupancy, usage, clock_pointer>>

FreeDataMarkEmpty(t) ==
    LET h == local[t].h
    IN  /\ At(t, "free")
        /\ data' = [data EXCEPT ![h] = NoHandle]
        /\ SetMeta(h, 0)
        /\ To(t, "reclaim", [local[t] EXCEPT !.charge = data[h].charge])
        /\ UNCHANGED <<displacements, counts, clock_pointer>>

ReclaimEntryUsage(t) ==
    /\ At(t, "reclaim")
    /\ occupancy' = occupancy - 1
    /\ Goto(t, "uncharge")
    /\ UNCHANGED <<entries, displacements, usage, standalone_usage, clock_pointer>>

\* Erase has a match: it is invisible from here on.
EraseHide(t) ==
    LET h == local[t].h
        m == IF State(meta[h]) = kStateVisible THEN meta[h] - StateIncrement ELSE meta[h]
    IN  /\ At(t, "hide")
        /\ SetMeta(h, m)
        /\ To(t, "erase_own", [local[t] EXCEPT !.old = m])
        /\ UNCHANGED <<data, displacements, counts, clock_pointer>>

\* With the last reference Erase frees it, otherwise whoever has that will.
EraseOwn(t) ==
    LET h == local[t].h
        m == local[t].old
    IN  /\ At(t, "erase_own")
        /\ IF GetRefcount(m) > 1 THEN Goto(t, "undo") /\ UNCHANGED meta
           ELSE IF meta[h] # m THEN To(t, "erase_own", [local[t] EXCEPT !.old = meta[h]]) /\ UNCHANGED meta
           ELSE SetMeta(h, Meta(kStateConstruction, 0, 0)) /\ Owns(t, h, "free")
        /\ UNCHANGED <<data, displacements, counts, clock_pointer>>

\* EraseUnRefEntries and ConstApplyToEntriesRange go through all slots.
Scan(t) ==
    /\ Calls(t, "erase_unref") \/ Calls(t, "apply")
    /\ To(t, "scan", NoLocal)
    /\ UNCHANGED <<entries, displacements, counts, clock_pointer>>

ScanLoad(t) ==
    LET m == meta[local[t].i]
    IN  /\ At(t, "scan")
        /\ IF Call(t).call = "apply" /\ Shareable(m) THEN Goto(t, "apply")
           ELSE IF Call(t).call = "erase_unref" /\ Shareable(m) /\ GetRefcount(m) = 0
           THEN To(t, "scan_own", [local[t] EXCEPT !.old = m])
           ELSE NextScan(t)
        /\ UNCHANGED <<entries, displacements, counts, clock_pointer>>

EraseUnRefEntry(t) ==
    LET h == local[t].i
    IN  /\ At(t, "scan_own")
        /\ \/ meta[h] # local[t].old /\ NextScan(t) /\ UNCHANGED meta
           \/ /\ meta[h] = local[t].old
              /\ SetMeta(h, Meta(kStateConstruction, 0, 0))
              /\ Owns(t, h, "own_rollback")
        /\ UNCHANGED <<data, displacements, counts, clock_pointer>>

\* The entry may have changed since; the reference counts if there is one.
ApplyAcquire(t) ==
    LET h == local[t].i
    IN  /\ At(t, "apply")
        /\ SetMeta(h, meta[h] + kAcquireIncrement)
        /\ IF Shareable(meta[h]) THEN To(t, "applied", [local[t] EXCEPT !.h = h, !.held = data[h]])
           ELSE NextScan(t)
        /\ UNCHANGED <<data, displacements, counts, clock_pointer>>

ApplyUndo(t) ==
    /\ At(t, "applied")
    /\ SetMeta(local[t].h, meta[local[t].h] - kAcquireIncrement)
    /\ NextScan(t)
    /\ UNCHANGED <<data, displacements, counts, clock_pointer>>
-----------------------------------------------------------------------------

Step(t) ==
    \/ Insert(t) \/ CreateStandalone(t) \/ ChargeStrict(t) \/ ChargeTooLarge(t)
    \/ ChargeNonStrict(t) \/ Evict(t) \/ ClockLoad(t) \/ ClockUpdate(t) \/ EvictFree(t)
    \/ Evicted(t) \/ Settle(t) \/ FailStrict(t) \/ FailNonStrict(t) \/ ForceUsage(t)
    \/ StandaloneInsert(t) \/ InsertFetchOr(t) \/ InsertVisible(t) \/ FindSlot(t)
    \/ Acquire(t) \/ Undo(t) \/ NextProbe(t) \/ Boost(t) \/ CorrectNearOverflow(t)
    \/ Rollback(t) \/ Unoccupy(t) \/ Uncharge(t) \/ Ref(t) \/ Release(t) \/ TryOwn(t)
    \/ Delete(t) \/ FreeDataMarkEmpty(t) \/ ReclaimEntryUsage(t) \/ EraseHide(t)
    \/ EraseOwn(t) \/ Scan(t) \/ ScanLoad(t) \/ EraseUnRefEntry(t) \/ ApplyAcquire(t)
    \/ ApplyUndo(t)

Next == \E t \in Threads : Step(t)

Spec == Init /\ [][Next]_vars

\* Every thread is scheduled.
FairSpec == Spec /\ \A t \in Threads : WF_vars(Step(t))
-----------------------------------------------------------------------------

\* The references t has on h.
References(t, h) ==
    IF local[t].h # h THEN 0
    ELSE IF pc[t] \in {"undo", "boost"} THEN Refs(t)
    ELSE IF pc[t] \in {"held", "hide", "erase_own", "applied"} THEN 1 ELSE 0

\* An entry is neither freed nor replaced while a thread has a reference to it, by
\* Lookup, Insert, Ref or for a moment, whatever eviction, Erase, the last Release
\* and the correction of the counters do meanwhile.
HeldIsNotFreed ==
    \A t \in Threads, h \in Handles :
        References(t, h) > 0 => Shareable(meta[h]) /\ data[h] = local[t].held

\* A visible entry can be found: all slots before it on its key's way tell Lookup to
\* go on.
EveryEntryReachable ==
    \A h \in Slots : State(meta[h]) = kStateVisible =>
        \A s \in Displaced(data[h].key, h) : displacements[s] > 0

\* Between calls the accounts are right, whichever way earlier inserts have failed
\* or were rolled back (the destructor asserts that nothing is left over).
AccountsBalance ==
    LET Used(H) == {h \in H : State(meta[h]) # kStateEmpty}
        Charges(H) == MapThenSumSet(LAMBDA h : data[h].charge, Used(H))
    IN  (\A t \in Threads : pc[t] \in {"ready", "held"}) =>
          /\ occupancy = Cardinality(Used(Slots))
          /\ usage = Charges(Handles)
          /\ standalone_usage = Charges(Heap)
          /\ \A s \in Slots : displacements[s] =
                Cardinality({h \in Used(Slots) : s \in Displaced(data[h].key, h)})

ReferencesTo(h) == MapThenSumSet(LAMBDA t : References(t, h), Threads)

RefcountIsRight(h) == GetRefcount(meta[h]) = ReferencesTo(h)

\* A shareable entry's counters differ by its references, whichever threads count in
\* them and correct them late: they go wrong only when CorrectNearOverflow finds
\* "that the top bit of the acquire counter is set but not the release counter", and
\* then "it would appear that there are too many refs", never too few.
RefcountIsKept ==
    [][\A h \in Handles : Shareable(meta'[h]) =>
         /\ GetRefcount(meta'[h]) >= ReferencesTo(h)'
         /\ \/ RefcountIsRight(h)'
            \/ Shareable(meta[h]) /\ ~RefcountIsRight(h)
            \/ /\ HasBit(Acquires(meta[h]), TopBit) /\ ~HasBit(Releases(meta[h]), TopBit)
               /\ GetRefcount(meta'[h]) = ReferencesTo(h)' + TopBit]_vars

\* Every call returns; an insert without a slot falls back on a standalone handle.
EveryCallReturns == <>(\A t \in Threads : todo[t] = <<>>)
=============================================================================
