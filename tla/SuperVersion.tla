---------------------------- MODULE SuperVersion ----------------------------
(***************************************************************************)
(* Reference counting and thread-local caching of SuperVersions, the       *)
(* (memtable, immutable memtables, Version) triples every read works on.   *)
(* db/column_family.{h,cc}, util/thread_local.cc and the helpers of        *)
(* db/db_impl/db_impl.cc that hand SuperVersions to reads and iterators.   *)
(*                                                                         *)
(* A SuperVersion is named by its version_number.  Readers run without the *)
(* DB mutex: every atomic exchange, compare-and-swap, Ref and Unref is one *)
(* step.  A section that holds the DB mutex and touches only what the      *)
(* mutex protects is one step; InstallSuperVersion, whose scrape races     *)
(* with lock-free readers, is several, and holds the mutex throughout.     *)
(***************************************************************************)
EXTENDS Naturals, FiniteSets

CONSTANTS
    Threads,        \* reader threads, each owning one thread-local slot
    MaxVersion,     \* bound: SuperVersions ever installed
    kSVInUse,       \* the mark a reader leaves in its slot
    Null            \* nullptr, which is also kSVObsolete

kSVObsolete == Null

SV == 1 .. MaxVersion

\* Holders of a reference to the ColumnFamilyData other than SuperVersions:
\* the ColumnFamilySet (until DropColumnFamily), the user's handle, a job.
ExtRefs == {"set", "handle", "job"}

ASSUME ThreadsFinite == IsFiniteSet(Threads)
ASSUME MaxVersionPos == MaxVersion \in Nat \ {0}
ASSUME MarksDistinct == kSVInUse \notin Nat /\ Null \notin Nat /\ kSVInUse # Null

VARIABLES
    super_version,          \* super_version_: SV, or Null after teardown
    super_version_number,   \* super_version_number_
    refs,                   \* SuperVersion::refs
    cleaned,                \* SuperVersions on which Cleanup() has run
    cfd_refs,               \* ColumnFamilyData::refs_ (0: deleted)
    ext,                    \* which external holders have a cfd reference
    local_sv,               \* the thread-local slots
    pc,                     \* where each reader is
    sv,                     \* the reference a reader carries, or Null
    dead,                   \* the SV whose last reference a reader dropped
    iter,                   \* the SV of the iterator a thread has open
    seen,                   \* auxiliary: super_version_number_ at Swap
    old,                    \* old_superversion of a running install, or Null
    todo,                   \* slots the running Scrape has yet to exchange
    scraped                 \* pointers it collected and has yet to Unref

vars == <<super_version, super_version_number, refs, cleaned, cfd_refs, ext,
          local_sv, pc, sv, dead, iter, seen, old, todo, scraped>>

readerVars  == <<pc, sv, dead, iter, seen>>
installVars == <<old, todo, scraped>>
cfdVars     == <<super_version, super_version_number, cleaned, cfd_refs, ext>>

\* The types of the state; a refcount that drops below zero breaks it.
TypeOK ==
    /\ super_version \in SV \cup {Null}
    /\ super_version_number \in SV
    /\ refs \in [SV -> Nat]
    /\ cleaned \subseteq SV
    /\ cfd_refs \in Nat
    /\ ext \subseteq ExtRefs
    /\ local_sv \in [Threads -> SV \cup {kSVInUse, kSVObsolete}]
    /\ pc \in [Threads -> {"idle", "swapped", "stale", "lock", "use",
                           "refd", "discard", "release", "cleanup"}]
    /\ sv \in [Threads -> SV \cup {Null}]
    /\ dead \in [Threads -> SV \cup {Null}]
    /\ iter \in [Threads -> SV \cup {Null}]
    /\ seen \in [Threads -> SV]
    /\ old \in SV \cup {Null}
    /\ todo \subseteq Threads
    /\ scraped \in [Threads -> SV \cup {Null}]

\* The column family just after it was opened: one SuperVersion, no readers.
Init ==
    /\ super_version = 1
    /\ super_version_number = 1
    /\ refs = [s \in SV |-> IF s = 1 THEN 1 ELSE 0]
    /\ cleaned = {}
    /\ ext = {"set", "handle"}
    /\ cfd_refs = 3
    /\ local_sv = [t \in Threads |-> kSVObsolete]
    /\ pc = [t \in Threads |-> "idle"]
    /\ sv = [t \in Threads |-> Null]
    /\ dead = [t \in Threads |-> Null]
    /\ iter = [t \in Threads |-> Null]
    /\ seen = [t \in Threads |-> 1]
    /\ old = Null
    /\ todo = {}
    /\ scraped = [t \in Threads |-> Null]

-----------------------------------------------------------------------------
\* The DB mutex is held for the whole of InstallSuperVersion.
MutexFree == old = Null

Ref(s)   == refs' = [refs EXCEPT ![s] = @ + 1]
Unref(s) == refs' = [refs EXCEPT ![s] = @ - 1]
LastRef(s) == refs[s] = 1

\* UnrefAndTryDelete, given the refcounts r and the cleaned set c so far.
\* When only super_version_ still holds the cfd, it is detached, the slots
\* are reclaimed (ReclaimId runs SuperVersionUnrefHandle on each) and its
\* own reference is dropped, which may delete the cfd.
UnrefAndTryDeleteEarly(r, c) ==   \* mutant: one holder too many tolerated
    IF cfd_refs \in {2, 3} /\ super_version # Null
    THEN /\ super_version' = Null
         /\ local_sv' = [t \in Threads |-> kSVObsolete]
         /\ refs' = [r EXCEPT ![super_version] = @ - 1
                       - Cardinality({t \in Threads : local_sv[t] = super_version})]
         /\ cleaned' = c
         /\ cfd_refs' = cfd_refs - 1
    ELSE /\ cfd_refs' = cfd_refs - 1 /\ refs' = r /\ cleaned' = c
         /\ UNCHANGED <<super_version, local_sv>>

UnrefAndTryDelete(r, c) ==
    IF cfd_refs = 2 /\ super_version # Null
    THEN LET cached == {t \in Threads : local_sv[t] = super_version}
             left   == r[super_version] - Cardinality(cached) - 1
         IN  /\ super_version' = Null
             /\ local_sv' = [t \in Threads |-> kSVObsolete]
             /\ refs' = [r EXCEPT ![super_version] = left]
             /\ cleaned' = IF left = 0 THEN c \cup {super_version} ELSE c
             /\ cfd_refs' = IF left = 0 THEN 0 ELSE 1
    ELSE /\ cfd_refs' = cfd_refs - 1
         /\ refs' = r
         /\ cleaned' = c
         /\ UNCHANGED <<super_version, local_sv>>

\* SuperVersion::Cleanup of s: drops what s pins, its cfd reference last.
Cleanup(s, r) == UnrefAndTryDelete(r, cleaned \cup {s})

-----------------------------------------------------------------------------
(* GetThreadLocalSuperVersion *)

\* Reads are issued through a live column family handle.
Swap(t) ==
    /\ pc[t] = "idle"
    /\ "handle" \in ext
    /\ sv' = [sv EXCEPT ![t] = IF local_sv[t] \in SV THEN local_sv[t] ELSE Null]
    /\ local_sv' = [local_sv EXCEPT ![t] = kSVInUse]
    /\ pc' = [pc EXCEPT ![t] = "swapped"]
    /\ seen' = [seen EXCEPT ![t] = super_version_number]
    /\ UNCHANGED <<cfdVars, refs, dead, iter, installVars>>

CheckNumberSkipped(t) ==   \* mutant: a cached pointer is used unchecked
    /\ pc[t] = "swapped"
    /\ pc' = [pc EXCEPT ![t] = IF sv[t] # Null THEN "use" ELSE "stale"]
    /\ UNCHANGED <<cfdVars, refs, local_sv, sv, dead, iter, seen, installVars>>

CheckNumber(t) ==
    /\ pc[t] = "swapped"
    /\ pc' = [pc EXCEPT ![t] =
                IF sv[t] = super_version_number THEN "use" ELSE "stale"]
    /\ UNCHANGED <<cfdVars, refs, local_sv, sv, dead, iter, seen, installVars>>

DropStale(t) ==
    /\ pc[t] = "stale"
    /\ pc' = [pc EXCEPT ![t] = "lock"]
    /\ IF sv[t] = Null
       THEN UNCHANGED <<refs, sv, dead>>
       ELSE /\ Unref(sv[t])
            /\ dead' = [dead EXCEPT ![t] = IF LastRef(sv[t]) THEN sv[t] ELSE Null]
            /\ sv' = [sv EXCEPT ![t] = Null]
    /\ UNCHANGED <<cfdVars, local_sv, iter, seen, installVars>>

\* Under the DB mutex: clean the stale SuperVersion up if it was the last
\* reference, then reference the current one.
AcquireCurrent(t) ==
    /\ pc[t] = "lock"
    /\ MutexFree
    /\ LET r == [refs EXCEPT ![super_version] = @ + 1]
       IN  IF dead[t] = Null
           THEN refs' = r /\ UNCHANGED <<cfdVars, local_sv>>
           ELSE /\ Cleanup(dead[t], r)
                /\ UNCHANGED <<super_version_number, ext>>
    /\ sv' = [sv EXCEPT ![t] = super_version]
    /\ dead' = [dead EXCEPT ![t] = Null]
    /\ pc' = [pc EXCEPT ![t] = "use"]
    /\ UNCHANGED <<iter, seen, installVars>>

-----------------------------------------------------------------------------
(* ReturnThreadLocalSuperVersion: the compare-and-swap on the slot. *)
ReturnSV(t, failed) ==
    IF local_sv[t] = kSVInUse
    THEN /\ local_sv' = [local_sv EXCEPT ![t] = sv[t]]
         /\ sv' = [sv EXCEPT ![t] = Null]
         /\ pc' = [pc EXCEPT ![t] = "idle"]
    ELSE /\ pc' = [pc EXCEPT ![t] = failed]
         /\ UNCHANGED <<local_sv, sv>>

\* ReturnAndCleanupSuperVersion, at the end of a Get.
ReturnAndCleanup(t) ==
    /\ pc[t] = "use"
    /\ ReturnSV(t, "release")
    /\ UNCHANGED <<cfdVars, refs, dead, iter, seen, installVars>>

\* CleanupSuperVersion: Unref, and Cleanup under the mutex if it was the last.
Release(t) ==
    /\ pc[t] = "release"
    /\ Unref(sv[t])
    /\ dead' = [dead EXCEPT ![t] = IF LastRef(sv[t]) THEN sv[t] ELSE Null]
    /\ sv' = [sv EXCEPT ![t] = Null]
    /\ pc' = [pc EXCEPT ![t] = IF LastRef(sv[t]) THEN "cleanup" ELSE "idle"]
    /\ UNCHANGED <<cfdVars, local_sv, iter, seen, installVars>>

CleanupDead(t) ==
    /\ pc[t] = "cleanup"
    /\ MutexFree
    /\ Cleanup(dead[t], refs)
    /\ dead' = [dead EXCEPT ![t] = Null]
    /\ pc' = [pc EXCEPT ![t] = "idle"]
    /\ UNCHANGED <<super_version_number, ext, sv, iter, seen, installVars>>

RefForIteratorBorrows(t) ==   \* mutant: the iterator takes no reference
    /\ pc[t] = "use"
    /\ iter[t] = Null
    /\ iter' = [iter EXCEPT ![t] = sv[t]]
    /\ pc' = [pc EXCEPT ![t] = "refd"]
    /\ UNCHANGED <<cfdVars, refs, local_sv, sv, dead, seen, installVars>>

\* GetReferencedSuperVersion: take a reference of one's own (for an iterator),
\* put the cached one back, and drop it if it could not be put back.
RefForIterator(t) ==
    /\ pc[t] = "use"
    /\ iter[t] = Null
    /\ Ref(sv[t])
    /\ iter' = [iter EXCEPT ![t] = sv[t]]
    /\ pc' = [pc EXCEPT ![t] = "refd"]
    /\ UNCHANGED <<cfdVars, local_sv, sv, dead, seen, installVars>>

ReturnReferenced(t) ==
    /\ pc[t] = "refd"
    /\ ReturnSV(t, "discard")
    /\ UNCHANGED <<cfdVars, refs, dead, iter, seen, installVars>>

DiscardCachedLeaks(t) ==   \* mutant: the cached reference is forgotten
    /\ pc[t] = "discard"
    /\ sv' = [sv EXCEPT ![t] = Null]
    /\ pc' = [pc EXCEPT ![t] = "idle"]
    /\ UNCHANGED <<cfdVars, refs, local_sv, dead, iter, seen, installVars>>

\* The result of this Unref is not looked at.
DiscardCached(t) ==
    /\ pc[t] = "discard"
    /\ Unref(sv[t])
    /\ sv' = [sv EXCEPT ![t] = Null]
    /\ pc' = [pc EXCEPT ![t] = "idle"]
    /\ UNCHANGED <<cfdVars, local_sv, dead, iter, seen, installVars>>

\* CleanupSuperVersionHandle, when the iterator is deleted.
DeleteIterator(t) ==
    /\ pc[t] = "idle"
    /\ iter[t] # Null
    /\ Unref(iter[t])
    /\ dead' = [dead EXCEPT ![t] = IF LastRef(iter[t]) THEN iter[t] ELSE Null]
    /\ iter' = [iter EXCEPT ![t] = Null]
    /\ pc' = [pc EXCEPT ![t] = IF LastRef(iter[t]) THEN "cleanup" ELSE "idle"]
    /\ UNCHANGED <<cfdVars, local_sv, sv, seen, installVars>>

\* OnThreadExit; the ThreadLocalPtr mutex keeps it out of a running Scrape.
OnThreadExit(t) ==
    /\ pc[t] = "idle"
    /\ todo = {}
    /\ local_sv[t] # Null
    /\ Unref(local_sv[t])
    /\ local_sv' = [local_sv EXCEPT ![t] = kSVObsolete]
    /\ UNCHANGED <<cfdVars, readerVars, installVars>>

-----------------------------------------------------------------------------
InstallPublishUnpinned ==   \* mutant: the new SuperVersion does not pin the cfd
    /\ MutexFree
    /\ "job" \in ext
    /\ super_version_number < MaxVersion
    /\ LET n == super_version_number + 1
       IN  /\ super_version' = n
           /\ super_version_number' = n
           /\ refs' = [refs EXCEPT ![n] = 1]
    /\ old' = super_version
    /\ todo' = Threads
    /\ UNCHANGED <<cleaned, cfd_refs, ext, local_sv, readerVars, scraped>>

(* InstallSuperVersion, by a job (or writer) that holds a cfd reference. *)
InstallPublish ==
    /\ MutexFree
    /\ "job" \in ext
    /\ super_version_number < MaxVersion
    /\ LET n == super_version_number + 1
       IN  /\ super_version' = n
           /\ super_version_number' = n
           /\ refs' = [refs EXCEPT ![n] = 1]
    /\ cfd_refs' = cfd_refs + 1
    /\ old' = super_version
    /\ todo' = Threads
    /\ UNCHANGED <<cleaned, ext, local_sv, readerVars, scraped>>

ScrapeOneForgets(t) ==   \* mutant: slots in use are left as they are
    /\ t \in todo
    /\ todo' = todo \ {t}
    /\ scraped' = [scraped EXCEPT ![t] =
                     IF local_sv[t] = kSVInUse THEN Null ELSE local_sv[t]]
    /\ local_sv' = [local_sv EXCEPT ![t] =
                      IF @ = kSVInUse THEN @ ELSE kSVObsolete]
    /\ UNCHANGED <<cfdVars, refs, readerVars, old>>

\* One iteration of Scrape's loop over the threads.
ScrapeOne(t) ==
    /\ t \in todo
    /\ todo' = todo \ {t}
    /\ scraped' = [scraped EXCEPT ![t] =
                     IF local_sv[t] = kSVInUse THEN Null ELSE local_sv[t]]
    /\ local_sv' = [local_sv EXCEPT ![t] = kSVObsolete]
    /\ UNCHANGED <<cfdVars, refs, readerVars, old>>

\* ResetThreadLocalSuperVersions, after the scrape.
UnrefScraped(t) ==
    /\ todo = {}
    /\ scraped[t] # Null
    /\ Unref(scraped[t])
    /\ scraped' = [scraped EXCEPT ![t] = Null]
    /\ UNCHANGED <<cfdVars, local_sv, readerVars, old, todo>>

InstallFinish ==
    /\ old # Null
    /\ todo = {}
    /\ \A t \in Threads : scraped[t] = Null
    /\ LET r == [refs EXCEPT ![old] = @ - 1]
       IN  IF LastRef(old)
           THEN Cleanup(old, r) /\ UNCHANGED <<super_version_number, ext>>
           ELSE refs' = r /\ UNCHANGED <<cfdVars, local_sv>>
    /\ old' = Null
    /\ UNCHANGED <<readerVars, todo, scraped>>

-----------------------------------------------------------------------------
(* The column family's other references. *)

\* A flush or compaction is queued for a column family that is not dropped.
JobStart ==
    /\ MutexFree
    /\ "set" \in ext /\ "job" \notin ext
    /\ ext' = ext \cup {"job"}
    /\ cfd_refs' = cfd_refs + 1
    /\ UNCHANGED <<super_version, super_version_number, cleaned, refs, local_sv,
                   readerVars, installVars>>

\* A job ends, the column family is dropped, or the user deletes the handle;
\* the handle may go only when no read is using it, iterators may stay.
ReleaseExt(x) ==
    /\ MutexFree
    /\ x \in ext
    /\ x = "handle" => \A t \in Threads : pc[t] \in {"idle", "cleanup"}
    /\ ext' = ext \ {x}
    /\ UnrefAndTryDelete(refs, cleaned)
    /\ UNCHANGED <<super_version_number, readerVars, installVars>>

Read(t) ==
    \/ CheckNumber(t) \/ DropStale(t) \/ AcquireCurrent(t)
    \/ ReturnAndCleanup(t) \/ Release(t) \/ CleanupDead(t)
    \/ ReturnReferenced(t) \/ DiscardCached(t)

Install == InstallFinish \/ \E t \in Threads : ScrapeOne(t) \/ UnrefScraped(t)

Next ==
    \/ \E t \in Threads : \/ Swap(t) \/ Read(t) \/ RefForIterator(t)
                          \/ DeleteIterator(t) \/ OnThreadExit(t)
    \/ InstallPublish
    \/ Install
    \/ JobStart
    \/ \E x \in ExtRefs : ReleaseExt(x)

Spec == Init /\ [][Next]_vars

\* A thread inside a read keeps running, and so does a job inside an install;
\* nobody owes the database a new read, install, drop or iterator deletion.
Fairness == WF_vars(Install) /\ \A t \in Threads : WF_vars(Read(t))

FairSpec == Spec /\ Fairness

-----------------------------------------------------------------------------
(* Properties *)

\* The places that can hold a counted reference: the cfd, a running install,
\* and per thread its slot, the pointer scraped from it, its read, its iterator.
Places == ({"slot", "scraped", "read", "iter"} \X Threads)
          \cup {<<"cfd", Null>>, <<"old", Null>>}

Pointer ==
    LET own == [slot |-> local_sv, scraped |-> scraped, read |-> sv, iter |-> iter]
    IN  [p \in Places |-> IF p[1] = "cfd" THEN super_version
                          ELSE IF p[1] = "old" THEN old ELSE own[p[1]][p[2]]]

Holders(s) == {p \in Places : Pointer[p] = s}

\* Every SuperVersion's refs is exactly the number of its holders: no path of
\* the get/return/scrape/teardown dance leaks or double-drops a reference.
RefsCountHolders == \A s \in SV : refs[s] = Cardinality(Holders(s))

\* No read, iterator, slot, install or cfd points to a SuperVersion on which
\* Cleanup has run (its memtables and Version may be gone).
NoUseAfterCleanup == \A s \in cleaned : Holders(s) = {}

\* "local_sv_ never holds the last reference": what a slot caches (or a scrape
\* collected) is still pinned by super_version_ or by the running install, so
\* the asserts of SuperVersionUnrefHandle and ResetThreadLocalSuperVersions hold.
SlotNeverLastRef ==
    \A t \in Threads : \A s \in {local_sv[t], scraped[t]} \cap SV :
        s \in {super_version, old}

\* A read never works on a SuperVersion older than the one that was current
\* when the read began, whatever is installed between the slot exchange, the
\* version-number comparison and the use.
ReadIsFresh ==
    \A t \in Threads : pc[t] \in {"use", "refd"} => sv[t] >= seen[t]

\* The ColumnFamilyData is never deleted under a SuperVersion that still pins
\* it: it outlives the Cleanup of every SuperVersion ever installed.
CfdOutlivesSuperVersions ==
    cfd_refs = Cardinality(ext) + Cardinality((1 .. super_version_number) \ cleaned)

\* When the last holder lets go and the slots are reclaimed, no slot carries
\* kSVInUse (SuperVersionUnrefHandle would take the mark for a SuperVersion).
TeardownFindsNoMark ==
    [][super_version' = Null /\ super_version # Null
         => \A t \in Threads : local_sv[t] # kSVInUse]_vars

\* Once the column family is dropped, its handle and jobs gone and iterators
\* deleted, every SuperVersion is cleaned up and the cfd is deleted.
EverythingReclaimed ==
    (ext = {} /\ \A t \in Threads : iter[t] = Null) ~> (cfd_refs = 0)
=============================================================================
