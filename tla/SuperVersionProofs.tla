------------------------- MODULE SuperVersionProofs -------------------------
(***************************************************************************)
(* Proofs about SuperVersion, for any number of threads and any bound on   *)
(* the number of SuperVersions.                                            *)
(***************************************************************************)
EXTENDS SuperVersion, FiniteSetTheorems, TLAPS

USE SMTT(30), ZenonT(30)

(* The inductive invariant. *)

\* Where a reader is tells what it carries; reads hold on to the handle.
ReaderInv ==
    \A t \in Threads :
        /\ pc[t] \in {"idle", "lock", "cleanup"} => sv[t] = Null
        /\ pc[t] \in {"use", "refd", "discard", "release"} => sv[t] # Null
        /\ pc[t] \notin {"idle", "cleanup"} => "handle" \in ext
        /\ pc[t] = "cleanup" => dead[t] # Null
        /\ local_sv[t] = kSVInUse =>
               pc[t] \in {"swapped", "stale", "lock", "use", "refd"}

\* While a slot is marked, what its reader carries is current or about to be
\* replaced, and a slot that was scraped has nothing to give back.
MarkInv ==
    \A t \in Threads :
        /\ local_sv[t] = kSVInUse /\ sv[t] # Null => sv[t] \in {super_version, old}
        /\ old # Null /\ t \notin todo =>
               /\ local_sv[t] \notin SV
               /\ local_sv[t] = kSVInUse => sv[t] = Null

\* An install runs on behalf of a job of a live column family.
InstallInv ==
    /\ old = Null => todo = {} /\ \A t \in Threads : scraped[t] = Null
    /\ \A t \in todo : scraped[t] = Null
    /\ old # Null => super_version # Null /\ old # super_version /\ "job" \in ext
    /\ super_version = Null => ext = {}
    /\ super_version # Null => super_version = super_version_number

\* SuperVersions that are cleaned up, not yet made or waiting for Cleanup have
\* no references, and no two threads are to clean up the same one.
ZeroInv ==
    /\ cleaned \subseteq 1 .. super_version_number
    /\ \A s \in SV : s \in cleaned \/ s > super_version_number => refs[s] = 0
    /\ \A t \in Threads : dead[t] # Null =>
           /\ refs[dead[t]] = 0
           /\ dead[t] \notin cleaned
           /\ dead[t] <= super_version_number
    /\ \A t, u \in Threads : dead[t] = dead[u] /\ dead[t] # Null => t = u

SeenInv == \A t \in Threads : seen[t] <= super_version_number

IInv == /\ TypeOK
        /\ RefsCountHolders
        /\ SlotNeverLastRef
        /\ CfdOutlivesSuperVersions
        /\ ReaderInv
        /\ MarkInv
        /\ InstallInv
        /\ ZeroInv
        /\ SeenInv
        /\ ReadIsFresh

-----------------------------------------------------------------------------
(* Counting places. *)

Slot(t)    == <<"slot", t>>
Scraped(t) == <<"scraped", t>>
Reading(t) == <<"read", t>>
Iter(t)    == <<"iter", t>>
Cfd        == <<"cfd", Null>>
Old        == <<"old", Null>>

\* How many places of the pointer table f hold s.
Count(f, s) == Cardinality({p \in Places : f[p] = s})
Eq(x, s) == IF x = s THEN 1 ELSE 0

\* The places, by kind.
LEMMA PlacesAre ==
    /\ \A t \in Threads : /\ Slot(t) \in Places /\ Scraped(t) \in Places
                          /\ Reading(t) \in Places /\ Iter(t) \in Places
    /\ Cfd \in Places /\ Old \in Places
    /\ \A p \in Places : \/ p = Cfd \/ p = Old
                         \/ \E t \in Threads : \/ p = Slot(t) \/ p = Scraped(t)
                                               \/ p = Reading(t) \/ p = Iter(t)
BY DEF Places, Slot, Scraped, Reading, Iter, Cfd, Old

\* There are finitely many places that can hold a reference.
LEMMA PlacesFinite == IsFiniteSet(Places)
<1>1. IsFiniteSet({"slot", "scraped", "read", "iter"})
  <2>1. IsFiniteSet({"slot"})  BY ONLY FS_Singleton
  <2>2. IsFiniteSet({"slot"} \cup {"scraped"})  BY ONLY <2>1, FS_AddElement
  <2>3. IsFiniteSet({"slot"} \cup {"scraped"} \cup {"read"})
    BY ONLY <2>2, FS_AddElement
  <2>4. IsFiniteSet({"slot"} \cup {"scraped"} \cup {"read"} \cup {"iter"})
    BY ONLY <2>3, FS_AddElement
  <2>5. {"slot", "scraped", "read", "iter"}
           = {"slot"} \cup {"scraped"} \cup {"read"} \cup {"iter"}
    OBVIOUS
  <2> QED  BY ONLY <2>4, <2>5
<1>2. IsFiniteSet({"slot", "scraped", "read", "iter"} \X Threads)
  BY ONLY <1>1, ThreadsFinite, FS_Product
<1>3. IsFiniteSet({Cfd})  BY ONLY FS_Singleton
<1>4. IsFiniteSet({Cfd} \cup {Old})  BY ONLY <1>3, FS_AddElement
<1>5. {Cfd} \cup {Old} = {Cfd, Old}  OBVIOUS
<1>6. IsFiniteSet({Cfd, Old})  BY ONLY <1>4, <1>5
<1> QED  BY ZenonT(30), <1>2, <1>6, FS_Union DEF Places, Cfd, Old

\* A count is a natural number, zero exactly when no place holds s.
LEMMA CountNat ==
    ASSUME NEW f, NEW s
    PROVE  /\ Count(f, s) \in Nat
           /\ Count(f, s) = 0 <=> \A p \in Places : f[p] # s
<1> DEFINE H == {p \in Places : f[p] = s}
<1>1. IsFiniteSet(H)  BY ONLY PlacesFinite, FS_Subset
<1>2. Cardinality(H) \in Nat  BY ONLY <1>1, FS_CardinalityType
<1>3. Cardinality(H) = 0 <=> H = {}  BY ONLY <1>1, FS_EmptySet
<1> QED  BY ONLY <1>2, <1>3 DEF Count

\* Changing one place changes the counts by at most one.
LEMMA CountOne ==
    ASSUME NEW f, NEW g, NEW s, NEW a \in Places,
           \A p \in Places \ {a} : g[p] = f[p]
    PROVE  Count(g, s) = Count(f, s) - Eq(f[a], s) + Eq(g[a], s)
<1> DEFINE F == {p \in Places : f[p] = s}
           G == {p \in Places : g[p] = s}
           R == {p \in Places \ {a} : f[p] = s}
<1>1. IsFiniteSet(R)
  BY ONLY PlacesFinite, FS_Subset
<1>2. Cardinality(R) \in Nat  BY ONLY <1>1, FS_CardinalityType
<1>3. Cardinality(R \cup {a}) = Cardinality(R) + 1
  BY ZenonT(30), <1>1, a \notin R, FS_AddElement
<1>4. F = IF f[a] = s THEN R \cup {a} ELSE R  OBVIOUS
<1>5. G = IF g[a] = s THEN R \cup {a} ELSE R  OBVIOUS
<1>6. Cardinality(F) = Cardinality(R) + Eq(f[a], s)
  BY ONLY <1>2, <1>3, <1>4 DEF Eq
<1>7. Cardinality(G) = Cardinality(R) + Eq(g[a], s)
  BY ONLY <1>2, <1>3, <1>5 DEF Eq
<1> QED  BY ONLY <1>2, <1>6, <1>7 DEF Count, Eq

\* Changing two places.
LEMMA CountTwo ==
    ASSUME NEW f, NEW g, NEW s, NEW a \in Places, NEW b \in Places, a # b,
           \A p \in Places : p # a /\ p # b => g[p] = f[p]
    PROVE  Count(g, s) = Count(f, s) - Eq(f[a], s) + Eq(g[a], s)
                                     - Eq(f[b], s) + Eq(g[b], s)
<1> DEFINE h == [p \in Places |-> IF p = a THEN g[a] ELSE f[p]]
<1>1. Count(h, s) = Count(f, s) - Eq(f[a], s) + Eq(h[a], s)
  <2>1. \A p \in Places \ {a} : h[p] = f[p]  OBVIOUS
  <2> HIDE DEF h
  <2> QED  BY ONLY <2>1, CountOne
<1>2. Count(g, s) = Count(h, s) - Eq(h[b], s) + Eq(g[b], s)
  <2>1. \A p \in Places \ {b} : g[p] = h[p]  OBVIOUS
  <2> HIDE DEF h
  <2> QED  BY ONLY <2>1, CountOne
<1>3. h[a] = g[a] /\ h[b] = f[b]  OBVIOUS
<1>4. Count(f, s) \in Nat /\ Count(h, s) \in Nat /\ Count(g, s) \in Nat
  BY ONLY CountNat
<1> HIDE DEF h
<1> QED  BY ONLY <1>1, <1>2, <1>3, <1>4 DEF Eq

\* Changing the four places of one thread.
LEMMA CountThread ==
    ASSUME NEW f, NEW g, NEW s, NEW t \in Threads,
           \A p \in Places : p # Slot(t) /\ p # Scraped(t) /\ p # Reading(t)
                                 /\ p # Iter(t) => g[p] = f[p]
    PROVE  Count(g, s) = Count(f, s)
               - Eq(f[Slot(t)], s) + Eq(g[Slot(t)], s)
               - Eq(f[Scraped(t)], s) + Eq(g[Scraped(t)], s)
               - Eq(f[Reading(t)], s) + Eq(g[Reading(t)], s)
               - Eq(f[Iter(t)], s) + Eq(g[Iter(t)], s)
<1> DEFINE a == Slot(t)  b == Scraped(t)  c == Reading(t)  d == Iter(t)
<1>1. a \in Places /\ b \in Places /\ c \in Places /\ d \in Places
  BY ONLY PlacesAre
<1>2. a # b /\ a # c /\ a # d /\ b # c /\ b # d /\ c # d
  BY DEF Slot, Scraped, Reading, Iter
<1>3. \A p \in Places : p # a /\ p # b /\ p # c /\ p # d => g[p] = f[p]
  OBVIOUS
<1> SUFFICES Count(g, s) = Count(f, s) - Eq(f[a], s) + Eq(g[a], s)
                                       - Eq(f[b], s) + Eq(g[b], s)
                                       - Eq(f[c], s) + Eq(g[c], s)
                                       - Eq(f[d], s) + Eq(g[d], s)
  OBVIOUS
<1> HIDE DEF a, b, c, d
<1> DEFINE h == [p \in Places |-> IF p = a \/ p = b THEN g[p] ELSE f[p]]
<1>4. \A p \in Places : p # a /\ p # b => h[p] = f[p]  OBVIOUS
<1>5. \A p \in Places : p # c /\ p # d => g[p] = h[p]  BY ONLY <1>3
<1>6. h[a] = g[a] /\ h[b] = g[b] /\ h[c] = f[c] /\ h[d] = f[d]
  BY ONLY <1>1, <1>2
<1> HIDE DEF h
<1>7. Count(h, s) = Count(f, s) - Eq(f[a], s) + Eq(h[a], s)
                                - Eq(f[b], s) + Eq(h[b], s)
  BY ONLY <1>1, <1>2, <1>4, CountTwo
<1>8. Count(g, s) = Count(h, s) - Eq(h[c], s) + Eq(g[c], s)
                                - Eq(h[d], s) + Eq(g[d], s)
  BY ONLY <1>1, <1>2, <1>5, CountTwo
<1>9. Count(f, s) \in Nat /\ Count(h, s) \in Nat /\ Count(g, s) \in Nat
  BY ONLY CountNat
<1> QED  BY ONLY <1>6, <1>7, <1>8, <1>9 DEF Eq

\* Changing the two places that belong to no thread.
LEMMA CountShared ==
    ASSUME NEW f, NEW g, NEW s,
           \A p \in Places : p # Cfd /\ p # Old => g[p] = f[p]
    PROVE  Count(g, s) = Count(f, s) - Eq(f[Cfd], s) + Eq(g[Cfd], s)
                                     - Eq(f[Old], s) + Eq(g[Old], s)
<1>1. \A a, b \in Places :
          a # b /\ (\A p \in Places : p # a /\ p # b => g[p] = f[p]) =>
              Count(g, s) = Count(f, s) - Eq(f[a], s) + Eq(g[a], s)
                                        - Eq(f[b], s) + Eq(g[b], s)
  <2> SUFFICES ASSUME NEW a \in Places, NEW b \in Places, a # b,
                      \A p \in Places : p # a /\ p # b => g[p] = f[p]
               PROVE  Count(g, s) = Count(f, s) - Eq(f[a], s) + Eq(g[a], s)
                                                - Eq(f[b], s) + Eq(g[b], s)
    OBVIOUS
  <2> QED  BY CountTwo
<1>2. Cfd \in Places /\ Old \in Places  BY ONLY PlacesAre
<1>3. Cfd # Old  BY DEF Cfd, Old
<1> QED  BY <1>1, <1>2, <1>3, ZenonT(30)

\* What the pointer table says of each place.
LEMMA PointerAt ==
    /\ \A t \in Threads : /\ Pointer[Slot(t)] = local_sv[t]
                          /\ Pointer[Scraped(t)] = scraped[t]
                          /\ Pointer[Reading(t)] = sv[t]
                          /\ Pointer[Iter(t)] = iter[t]
    /\ Pointer[Cfd] = super_version
    /\ Pointer[Old] = old
BY ONLY PlacesAre DEF Pointer, Slot, Scraped, Reading, Iter, Cfd, Old

\* The same of the table after a step.
LEMMA PointerAtNext ==
    /\ \A t \in Threads : /\ Pointer'[Slot(t)] = local_sv'[t]
                          /\ Pointer'[Scraped(t)] = scraped'[t]
                          /\ Pointer'[Reading(t)] = sv'[t]
                          /\ Pointer'[Iter(t)] = iter'[t]
    /\ Pointer'[Cfd] = super_version'
    /\ Pointer'[Old] = old'
BY ONLY PlacesAre DEF Pointer, Slot, Scraped, Reading, Iter, Cfd, Old

\* RefsCountHolders in terms of counts.
LEMMA RefsAreCounts ==
    RefsCountHolders <=> \A s \in SV : refs[s] = Count(Pointer, s)
BY DEF RefsCountHolders, Holders, Count

\* The same after a step.
LEMMA RefsAreCountsNext ==
    RefsCountHolders' <=> \A s \in SV : refs'[s] = Count(Pointer', s)
BY DEF RefsCountHolders, Holders, Count

\* A SuperVersion that some place holds has a reference.
LEMMA HeldHasRef ==
    ASSUME TypeOK, RefsCountHolders
    PROVE  /\ \A s \in SV : refs[s] \in Nat
           /\ \A t \in Threads :
                  /\ local_sv[t] \in SV => refs[local_sv[t]] > 0
                  /\ scraped[t] \in SV => refs[scraped[t]] > 0
                  /\ sv[t] \in SV => refs[sv[t]] > 0
                  /\ iter[t] \in SV => refs[iter[t]] > 0
           /\ super_version \in SV => refs[super_version] > 0
           /\ old \in SV => refs[old] > 0
<1>1. \A p \in Places : Pointer[p] \in SV => refs[Pointer[p]] > 0
  <2> SUFFICES ASSUME NEW p \in Places, Pointer[p] \in SV
               PROVE  refs[Pointer[p]] > 0
    OBVIOUS
  <2>1. refs[Pointer[p]] = Count(Pointer, Pointer[p])  BY RefsAreCounts
  <2>2. Count(Pointer, Pointer[p]) \in Nat /\ Count(Pointer, Pointer[p]) # 0
    BY ONLY CountNat
  <2> QED  BY ONLY <2>1, <2>2
<1>2. \A s \in SV : refs[s] \in Nat  BY DEF TypeOK
<1> QED  BY ONLY <1>1, <1>2, PlacesAre, PointerAt

\* A step that changes only the places of thread t, and refs accordingly.
LEMMA ThreadStep ==
    ASSUME NEW t \in Threads, RefsCountHolders,
           \A u \in Threads \ {t} :
               /\ local_sv'[u] = local_sv[u] /\ scraped'[u] = scraped[u]
               /\ sv'[u] = sv[u] /\ iter'[u] = iter[u],
           super_version' = super_version, old' = old,
           \A s \in SV : refs'[s] = refs[s]
               - Eq(local_sv[t], s) + Eq(local_sv'[t], s)
               - Eq(scraped[t], s) + Eq(scraped'[t], s)
               - Eq(sv[t], s) + Eq(sv'[t], s)
               - Eq(iter[t], s) + Eq(iter'[t], s)
    PROVE  RefsCountHolders'
<1>1. \A p \in Places : p # Slot(t) /\ p # Scraped(t) /\ p # Reading(t)
                            /\ p # Iter(t) => Pointer'[p] = Pointer[p]
  BY PlacesAre, PointerAt, PointerAtNext
<1>2. ASSUME NEW s \in SV PROVE refs'[s] = Count(Pointer', s)
  <2>1. Count(Pointer', s) = Count(Pointer, s)
            - Eq(Pointer[Slot(t)], s) + Eq(Pointer'[Slot(t)], s)
            - Eq(Pointer[Scraped(t)], s) + Eq(Pointer'[Scraped(t)], s)
            - Eq(Pointer[Reading(t)], s) + Eq(Pointer'[Reading(t)], s)
            - Eq(Pointer[Iter(t)], s) + Eq(Pointer'[Iter(t)], s)
    BY ONLY <1>1, CountThread
  <2>2. refs[s] = Count(Pointer, s)  BY RefsAreCounts
  <2> QED  BY <2>1, <2>2, PointerAt, PointerAtNext
<1> QED  BY ONLY <1>2, RefsAreCountsNext

-----------------------------------------------------------------------------
(* The initial states. *)

\* The marks are no SuperVersions.
LEMMA Marks == /\ kSVInUse \notin SV /\ kSVObsolete \notin SV /\ Null \notin SV
               /\ kSVInUse # Null /\ kSVObsolete = Null
               /\ SV \subseteq Nat /\ 1 \in SV
BY ONLY MarksDistinct, MaxVersionPos DEF SV, kSVObsolete

\* The invariant holds when the column family has just been opened.
LEMMA InitIInv == Init => IInv
<1> SUFFICES ASSUME Init PROVE IInv  OBVIOUS
<1>1. TypeOK
  BY Marks, MaxVersionPos DEF Init, TypeOK, SV, ExtRefs
<1>2. RefsCountHolders
  <2>1. \A p \in Places : Pointer[p] \in SV => p = Cfd
    BY Marks, PlacesAre, PointerAt DEF Init
  <2>2. ASSUME NEW s \in SV, s # 1 PROVE refs[s] = Count(Pointer, s)
    <3>1. \A p \in Places : Pointer[p] # s
      BY <2>1, <2>2, PointerAt DEF Init
    <3> QED  BY <2>2, <3>1, CountNat DEF Init
  <2>3. refs[1] = Count(Pointer, 1)
    <3>1. {p \in Places : Pointer[p] = 1} = {Cfd}
      BY <2>1, Marks, PlacesAre, PointerAt DEF Init
    <3>2. Cardinality({Cfd}) = 1  BY ONLY FS_Singleton
    <3> QED  BY <3>1, <3>2, Marks DEF Init, Count
  <2> QED  BY ONLY <2>2, <2>3, RefsAreCounts
<1>3. SlotNeverLastRef
  BY Marks DEF Init, SlotNeverLastRef
<1>4. CfdOutlivesSuperVersions
  <2>1. Cardinality({"set"}) = 1 /\ IsFiniteSet({"set"})  BY ZenonT(30), FS_Singleton
  <2>2. Cardinality({"set"} \cup {"handle"}) = 2
    BY <2>1, FS_AddElement, "handle" \notin {"set"}
  <2>3. {"set"} \cup {"handle"} = {"set", "handle"}  OBVIOUS
  <2>4. (1 .. 1) \ {} = {1}  OBVIOUS
  <2>5. Cardinality({1}) = 1  BY ONLY FS_Singleton
  <2> QED  BY <2>2, <2>3, <2>4, <2>5 DEF Init, CfdOutlivesSuperVersions
<1>5. ReaderInv /\ MarkInv /\ InstallInv
  BY Marks DEF Init, ReaderInv, MarkInv, InstallInv
<1>6. ZeroInv /\ SeenInv /\ ReadIsFresh
  BY Marks DEF Init, ZeroInv, SeenInv, ReadIsFresh
<1> QED  BY ONLY <1>1, <1>2, <1>3, <1>4, <1>5, <1>6 DEF IInv

-----------------------------------------------------------------------------
(* Readers. *)

\* Unref and Ref of a SuperVersion that some place holds.
LEMMA UnrefHeld ==
    ASSUME refs \in [SV -> Nat], NEW x \in SV, refs[x] > 0, Unref(x)
    PROVE  /\ refs' \in [SV -> Nat]
           /\ \A s \in SV : refs'[s] = refs[s] - Eq(x, s)
<1>1. refs[x] \in Nat /\ refs[x] - 1 \in Nat  OBVIOUS
<1>2. refs' = [refs EXCEPT ![x] = refs[x] - 1]  BY DEF Unref
<1>3. refs' \in [SV -> Nat]  BY <1>1, <1>2
<1> QED  BY ONLY <1>2, <1>3 DEF Eq

\* Ref keeps refs typed and adds one holder to s.
LEMMA RefHeld ==
    ASSUME refs \in [SV -> Nat], NEW x \in SV, Ref(x)
    PROVE  /\ refs' \in [SV -> Nat]
           /\ \A s \in SV : refs'[s] = refs[s] + Eq(x, s)
<1>1. refs[x] \in Nat /\ refs[x] + 1 \in Nat  OBVIOUS
<1>2. refs' = [refs EXCEPT ![x] = refs[x] + 1]  BY DEF Ref
<1>3. refs' \in [SV -> Nat]  BY <1>1, <1>2
<1> QED  BY ONLY <1>2, <1>3 DEF Eq

\* Thread t drops a reference and remembers whether it was the last one.
LEMMA DropRef ==
    ASSUME TypeOK, ZeroInv, NEW t \in Threads, NEW x \in SV, refs[x] > 0,
           Unref(x), UNCHANGED <<super_version_number, cleaned>>,
           dead' = [dead EXCEPT ![t] = IF LastRef(x) THEN x ELSE Null]
    PROVE  ZeroInv'
<1>1. \A s \in SV : refs'[s] = refs[s] - Eq(x, s)
  BY UnrefHeld DEF TypeOK
<1>2. \A s \in SV : refs[s] \in Nat /\ s \in Nat  BY Marks DEF TypeOK
<1>3. super_version_number \in Nat  BY Marks DEF TypeOK
<1>4. x \notin cleaned /\ x <= super_version_number
  BY <1>2, <1>3 DEF ZeroInv
<1>5. \A u \in Threads : dead[u] # x
  BY <1>2, Marks DEF TypeOK, ZeroInv
<1>6. /\ dead'[t] # Null => dead'[t] = x /\ refs[x] = 1
      /\ \A u \in Threads \ {t} : dead'[u] = dead[u]
  BY DEF TypeOK, LastRef
<1>7. \A u \in Threads : dead'[u] # Null =>
          refs'[dead'[u]] = 0 /\ dead'[u] \notin cleaned /\
          dead'[u] <= super_version_number
  <2> SUFFICES ASSUME NEW u \in Threads, dead'[u] # Null
               PROVE  refs'[dead'[u]] = 0 /\ dead'[u] \notin cleaned /\
                      dead'[u] <= super_version_number
    OBVIOUS
  <2>1. CASE u = t  BY <2>1, <1>1, <1>4, <1>6 DEF Eq
  <2>2. CASE u # t
    <3>1. dead'[u] = dead[u] /\ dead[u] \in SV  BY <2>2, <1>6 DEF TypeOK
    <3> QED  BY <3>1, <1>1, <1>5, <1>2 DEF ZeroInv, Eq
  <2> QED  BY ONLY <2>1, <2>2
<1>8. \A s \in SV : s \in cleaned \/ s > super_version_number => refs'[s] = 0
  BY <1>1, <1>2, <1>3, <1>4 DEF ZeroInv, Eq
<1>9. \A u, v \in Threads : dead'[u] = dead'[v] /\ dead'[u] # Null => u = v
  BY <1>5, <1>6 DEF ZeroInv
<1> QED  BY <1>7, <1>8, <1>9 DEF ZeroInv

\* The slot exchange of GetThreadLocalSuperVersion preserves the invariant:
\* the reference moves from the slot to the reader.
LEMMA SwapIInv ==
    ASSUME IInv, NEW t \in Threads, Swap(t) PROVE IInv'
<1>1. TypeOK'
  BY Marks DEF IInv, TypeOK, Swap, cfdVars, installVars
<1>2. RefsCountHolders'
  <2>1. \A s \in SV : refs'[s] = refs[s]
            - Eq(local_sv[t], s) + Eq(local_sv'[t], s)
            - Eq(scraped[t], s) + Eq(scraped'[t], s)
            - Eq(sv[t], s) + Eq(sv'[t], s)
            - Eq(iter[t], s) + Eq(iter'[t], s)
    BY Marks DEF IInv, TypeOK, ReaderInv, Swap, installVars, Eq
  <2> QED  BY <2>1, ThreadStep DEF IInv, TypeOK, Swap, cfdVars, installVars
<1>3. SlotNeverLastRef'
  BY Marks DEF IInv, TypeOK, SlotNeverLastRef, Swap, cfdVars, installVars
<1>4. CfdOutlivesSuperVersions'
  BY DEF IInv, CfdOutlivesSuperVersions, Swap, cfdVars
<1>5. ReaderInv'
  BY Marks DEF IInv, TypeOK, ReaderInv, Swap, cfdVars
<1>6. MarkInv'
  BY ZenonT(30), Marks DEF IInv, TypeOK, SlotNeverLastRef, MarkInv, Swap, cfdVars, installVars
<1>7. InstallInv' /\ ZeroInv'
  BY DEF IInv, InstallInv, ZeroInv, Swap, cfdVars, installVars
<1>8. SeenInv' /\ ReadIsFresh'
  BY Marks DEF IInv, TypeOK, SeenInv, ReadIsFresh, Swap, cfdVars
<1> QED  BY ONLY <1>1, <1>2, <1>3, <1>4, <1>5, <1>6, <1>7, <1>8 DEF IInv

\* Comparing the cached version_number with super_version_number_ preserves
\* the invariant; a reader that goes on to use its pointer is fresh.
LEMMA CheckNumberIInv ==
    ASSUME IInv, NEW t \in Threads, CheckNumber(t) PROVE IInv'
<1>0. /\ \A s \in SV : refs[s] \in Nat
      /\ local_sv[t] \in SV => refs[local_sv[t]] > 0
      /\ scraped[t] \in SV => refs[scraped[t]] > 0
      /\ sv[t] \in SV => refs[sv[t]] > 0
      /\ iter[t] \in SV => refs[iter[t]] > 0
  BY HeldHasRef DEF IInv
<1>1. TypeOK'
  BY <1>0, Marks DEF IInv, TypeOK, ReaderInv, CheckNumber, cfdVars, installVars
<1>2. RefsCountHolders'
  <2>1. \A s \in SV : refs'[s] = refs[s]
            - Eq(local_sv[t], s) + Eq(local_sv'[t], s)
            - Eq(scraped[t], s) + Eq(scraped'[t], s)
            - Eq(sv[t], s) + Eq(sv'[t], s)
            - Eq(iter[t], s) + Eq(iter'[t], s)
    BY <1>0, Marks DEF IInv, TypeOK, ReaderInv, Eq, CheckNumber, cfdVars, installVars
  <2> QED  BY <2>1, ThreadStep DEF IInv, TypeOK, CheckNumber, cfdVars, installVars
<1>3. SlotNeverLastRef'
  BY Marks DEF IInv, TypeOK, SlotNeverLastRef, ReaderInv, MarkInv, CheckNumber, cfdVars, installVars
<1>4. CfdOutlivesSuperVersions'
  BY DEF IInv, CfdOutlivesSuperVersions, CheckNumber, cfdVars, installVars
<1>5. ReaderInv'
  BY Marks DEF IInv, TypeOK, ReaderInv, CheckNumber, cfdVars, installVars
<1>6. MarkInv'
  BY Marks DEF IInv, TypeOK, ReaderInv, MarkInv, InstallInv, CheckNumber, cfdVars, installVars
<1>7. InstallInv'
  BY DEF IInv, TypeOK, InstallInv, CheckNumber, cfdVars, installVars
<1>8. ZeroInv'
  BY <1>0, Marks DEF IInv, TypeOK, ReaderInv, ZeroInv, CheckNumber, cfdVars, installVars
<1>9. SeenInv' /\ ReadIsFresh'
  BY Marks DEF IInv, TypeOK, SeenInv, ReadIsFresh, CheckNumber, cfdVars, installVars
<1> QED  BY ONLY <1>1, <1>2, <1>3, <1>4, <1>5, <1>6, <1>7, <1>8, <1>9 DEF IInv

\* Unref of a stale cached SuperVersion preserves the invariant.
LEMMA DropStaleIInv ==
    ASSUME IInv, NEW t \in Threads, DropStale(t) PROVE IInv'
<1>0. /\ \A s \in SV : refs[s] \in Nat
      /\ local_sv[t] \in SV => refs[local_sv[t]] > 0
      /\ scraped[t] \in SV => refs[scraped[t]] > 0
      /\ sv[t] \in SV => refs[sv[t]] > 0
      /\ iter[t] \in SV => refs[iter[t]] > 0
  BY HeldHasRef DEF IInv
<1>1. TypeOK'
  BY <1>0, Marks DEF IInv, TypeOK, ReaderInv, DropStale, Unref, LastRef, cfdVars, installVars
<1>2. RefsCountHolders'
  <2>1. \A s \in SV : refs'[s] = refs[s]
            - Eq(local_sv[t], s) + Eq(local_sv'[t], s)
            - Eq(scraped[t], s) + Eq(scraped'[t], s)
            - Eq(sv[t], s) + Eq(sv'[t], s)
            - Eq(iter[t], s) + Eq(iter'[t], s)
    BY <1>0, Marks DEF IInv, TypeOK, ReaderInv, Eq, DropStale, Unref, LastRef, cfdVars, installVars
  <2> QED  BY <2>1, ThreadStep DEF IInv, TypeOK, DropStale, Unref, LastRef, cfdVars, installVars
<1>3. SlotNeverLastRef'
  BY Marks DEF IInv, TypeOK, SlotNeverLastRef, ReaderInv, MarkInv, DropStale, Unref, LastRef, cfdVars, installVars
<1>4. CfdOutlivesSuperVersions'
  BY DEF IInv, CfdOutlivesSuperVersions, DropStale, Unref, LastRef, cfdVars, installVars
<1>5. ReaderInv'
  BY Marks DEF IInv, TypeOK, ReaderInv, DropStale, Unref, LastRef, cfdVars, installVars
<1>6. MarkInv'
  BY Marks DEF IInv, TypeOK, ReaderInv, MarkInv, InstallInv, DropStale, Unref, LastRef, cfdVars, installVars
<1>7. InstallInv'
  BY DEF IInv, TypeOK, InstallInv, DropStale, Unref, LastRef, cfdVars, installVars
<1>8. ZeroInv'
  <2>1. CASE sv[t] = Null
    BY <2>1 DEF IInv, ZeroInv, DropStale, cfdVars
  <2>2. CASE sv[t] # Null
    <3>1. sv[t] \in SV  BY <2>2 DEF IInv, TypeOK
    <3> QED  BY <1>0, <2>2, <3>1, DropRef DEF IInv, DropStale, cfdVars
  <2> QED  BY ONLY <2>1, <2>2
<1>9. SeenInv' /\ ReadIsFresh'
  BY Marks DEF IInv, TypeOK, SeenInv, ReadIsFresh, DropStale, Unref, LastRef, cfdVars, installVars
<1> QED  BY ONLY <1>1, <1>2, <1>3, <1>4, <1>5, <1>6, <1>7, <1>8, <1>9 DEF IInv

\* The compare-and-swap that ends a Get preserves the invariant: a marked slot
\* gets a pointer that is current or about to be scraped.
LEMMA ReturnAndCleanupIInv ==
    ASSUME IInv, NEW t \in Threads, ReturnAndCleanup(t) PROVE IInv'
<1>0. /\ \A s \in SV : refs[s] \in Nat
      /\ local_sv[t] \in SV => refs[local_sv[t]] > 0
      /\ scraped[t] \in SV => refs[scraped[t]] > 0
      /\ sv[t] \in SV => refs[sv[t]] > 0
      /\ iter[t] \in SV => refs[iter[t]] > 0
  BY HeldHasRef DEF IInv
<1>1. TypeOK'
  BY <1>0, Marks DEF IInv, TypeOK, ReaderInv, ReturnAndCleanup, ReturnSV, cfdVars, installVars
<1>2. RefsCountHolders'
  <2>1. \A s \in SV : refs'[s] = refs[s]
            - Eq(local_sv[t], s) + Eq(local_sv'[t], s)
            - Eq(scraped[t], s) + Eq(scraped'[t], s)
            - Eq(sv[t], s) + Eq(sv'[t], s)
            - Eq(iter[t], s) + Eq(iter'[t], s)
    BY <1>0, Marks DEF IInv, TypeOK, ReaderInv, Eq, ReturnAndCleanup, ReturnSV, cfdVars, installVars
  <2> QED  BY <2>1, ThreadStep DEF IInv, TypeOK, ReturnAndCleanup, ReturnSV, cfdVars, installVars
<1>3. SlotNeverLastRef'
  <2>1. local_sv' = [local_sv EXCEPT ![t] = sv[t]] \/ local_sv' = local_sv
    BY DEF ReturnAndCleanup, ReturnSV
  <2>2. local_sv' # local_sv => local_sv[t] = kSVInUse
    BY DEF ReturnAndCleanup, ReturnSV
  <2>3. local_sv[t] = kSVInUse /\ sv[t] \in SV => sv[t] \in {super_version, old}
    BY Marks DEF IInv, MarkInv
  <2>4. UNCHANGED <<super_version, old, scraped>>
    BY DEF ReturnAndCleanup, cfdVars, installVars
  <2> QED  BY <2>1, <2>2, <2>3, <2>4 DEF IInv, TypeOK, SlotNeverLastRef
<1>4. CfdOutlivesSuperVersions'
  BY DEF IInv, CfdOutlivesSuperVersions, ReturnAndCleanup, ReturnSV, cfdVars, installVars
<1>5. ReaderInv'
  BY Marks DEF IInv, TypeOK, ReaderInv, ReturnAndCleanup, ReturnSV, cfdVars, installVars
<1>6. MarkInv'
  BY Marks DEF IInv, TypeOK, ReaderInv, MarkInv, InstallInv, ReturnAndCleanup, ReturnSV, cfdVars, installVars
<1>7. InstallInv'
  BY DEF IInv, TypeOK, InstallInv, ReturnAndCleanup, ReturnSV, cfdVars, installVars
<1>8. ZeroInv'
  BY <1>0, Marks DEF IInv, TypeOK, ReaderInv, ZeroInv, ReturnAndCleanup, ReturnSV, cfdVars, installVars
<1>9. SeenInv' /\ ReadIsFresh'
  BY Marks DEF IInv, TypeOK, SeenInv, ReadIsFresh, ReturnAndCleanup, ReturnSV, cfdVars, installVars
<1> QED  BY ONLY <1>1, <1>2, <1>3, <1>4, <1>5, <1>6, <1>7, <1>8, <1>9 DEF IInv

\* CleanupSuperVersion's Unref preserves the invariant.
LEMMA ReleaseIInv ==
    ASSUME IInv, NEW t \in Threads, Release(t) PROVE IInv'
<1>0. /\ \A s \in SV : refs[s] \in Nat
      /\ local_sv[t] \in SV => refs[local_sv[t]] > 0
      /\ scraped[t] \in SV => refs[scraped[t]] > 0
      /\ sv[t] \in SV => refs[sv[t]] > 0
      /\ iter[t] \in SV => refs[iter[t]] > 0
  BY HeldHasRef DEF IInv
<1>x. sv[t] \in SV
  BY Marks DEF IInv, TypeOK, ReaderInv, Release
<1>r. refs' \in [SV -> Nat]
  BY <1>0, <1>x, UnrefHeld DEF IInv, TypeOK, Release
<1>1. TypeOK'
  BY <1>r, <1>x, Marks DEF IInv, TypeOK, Release, LastRef, cfdVars, installVars
<1>2. RefsCountHolders'
  <2>1. \A s \in SV : refs'[s] = refs[s]
            - Eq(local_sv[t], s) + Eq(local_sv'[t], s)
            - Eq(scraped[t], s) + Eq(scraped'[t], s)
            - Eq(sv[t], s) + Eq(sv'[t], s)
            - Eq(iter[t], s) + Eq(iter'[t], s)
    BY <1>0, Marks DEF IInv, TypeOK, ReaderInv, Eq, Release, Unref, LastRef, cfdVars, installVars
  <2> QED  BY <2>1, ThreadStep DEF IInv, TypeOK, Release, Unref, LastRef, cfdVars, installVars
<1>3. SlotNeverLastRef'
  BY Marks DEF IInv, TypeOK, SlotNeverLastRef, ReaderInv, MarkInv, Release, Unref, LastRef, cfdVars, installVars
<1>4. CfdOutlivesSuperVersions'
  BY DEF IInv, CfdOutlivesSuperVersions, Release, Unref, LastRef, cfdVars, installVars
<1>5. ReaderInv'
  BY Marks DEF IInv, TypeOK, ReaderInv, Release, Unref, LastRef, cfdVars, installVars
<1>6. MarkInv'
  BY Marks DEF IInv, TypeOK, ReaderInv, MarkInv, InstallInv, Release, Unref, LastRef, cfdVars, installVars
<1>7. InstallInv'
  BY DEF IInv, TypeOK, InstallInv, Release, Unref, LastRef, cfdVars, installVars
<1>8. ZeroInv'
  BY ZenonT(30), <1>0, <1>x, DropRef DEF IInv, Release, cfdVars
<1>9. SeenInv' /\ ReadIsFresh'
  BY Marks DEF IInv, TypeOK, SeenInv, ReadIsFresh, Release, Unref, LastRef, cfdVars, installVars
<1> QED  BY ONLY <1>1, <1>2, <1>3, <1>4, <1>5, <1>6, <1>7, <1>8, <1>9 DEF IInv

\* The iterator's Ref in GetReferencedSuperVersion preserves the invariant.
LEMMA RefForIteratorIInv ==
    ASSUME IInv, NEW t \in Threads, RefForIterator(t) PROVE IInv'
<1>0. /\ \A s \in SV : refs[s] \in Nat
      /\ local_sv[t] \in SV => refs[local_sv[t]] > 0
      /\ scraped[t] \in SV => refs[scraped[t]] > 0
      /\ sv[t] \in SV => refs[sv[t]] > 0
      /\ iter[t] \in SV => refs[iter[t]] > 0
  BY HeldHasRef DEF IInv
<1>x. sv[t] \in SV
  BY Marks DEF IInv, TypeOK, ReaderInv, RefForIterator
<1>r. refs' \in [SV -> Nat]
  BY <1>0, <1>x, RefHeld DEF IInv, TypeOK, RefForIterator
<1>1. TypeOK'
  BY <1>r, <1>x, Marks DEF IInv, TypeOK, RefForIterator, cfdVars, installVars
<1>2. RefsCountHolders'
  <2>1. \A s \in SV : refs'[s] = refs[s]
            - Eq(local_sv[t], s) + Eq(local_sv'[t], s)
            - Eq(scraped[t], s) + Eq(scraped'[t], s)
            - Eq(sv[t], s) + Eq(sv'[t], s)
            - Eq(iter[t], s) + Eq(iter'[t], s)
    BY <1>0, Marks DEF IInv, TypeOK, ReaderInv, Eq, RefForIterator, Ref, cfdVars, installVars
  <2> QED  BY <2>1, ThreadStep DEF IInv, TypeOK, RefForIterator, Ref, cfdVars, installVars
<1>3. SlotNeverLastRef'
  BY Marks DEF IInv, TypeOK, SlotNeverLastRef, ReaderInv, MarkInv, RefForIterator, Ref, cfdVars, installVars
<1>4. CfdOutlivesSuperVersions'
  BY DEF IInv, CfdOutlivesSuperVersions, RefForIterator, Ref, cfdVars, installVars
<1>5. ReaderInv'
  BY Marks DEF IInv, TypeOK, ReaderInv, RefForIterator, Ref, cfdVars, installVars
<1>6. MarkInv'
  BY Marks DEF IInv, TypeOK, ReaderInv, MarkInv, InstallInv, RefForIterator, Ref, cfdVars, installVars
<1>7. InstallInv'
  BY DEF IInv, TypeOK, InstallInv, RefForIterator, Ref, cfdVars, installVars
<1>8. ZeroInv'
  BY <1>0, Marks DEF IInv, TypeOK, ReaderInv, ZeroInv, RefForIterator, Ref, cfdVars, installVars
<1>9. SeenInv' /\ ReadIsFresh'
  BY Marks DEF IInv, TypeOK, SeenInv, ReadIsFresh, RefForIterator, Ref, cfdVars, installVars
<1> QED  BY ONLY <1>1, <1>2, <1>3, <1>4, <1>5, <1>6, <1>7, <1>8, <1>9 DEF IInv

\* The compare-and-swap of GetReferencedSuperVersion preserves the invariant.
LEMMA ReturnReferencedIInv ==
    ASSUME IInv, NEW t \in Threads, ReturnReferenced(t) PROVE IInv'
<1>0. /\ \A s \in SV : refs[s] \in Nat
      /\ local_sv[t] \in SV => refs[local_sv[t]] > 0
      /\ scraped[t] \in SV => refs[scraped[t]] > 0
      /\ sv[t] \in SV => refs[sv[t]] > 0
      /\ iter[t] \in SV => refs[iter[t]] > 0
  BY HeldHasRef DEF IInv
<1>1. TypeOK'
  BY <1>0, Marks DEF IInv, TypeOK, ReaderInv, ReturnReferenced, ReturnSV, cfdVars, installVars
<1>2. RefsCountHolders'
  <2>1. \A s \in SV : refs'[s] = refs[s]
            - Eq(local_sv[t], s) + Eq(local_sv'[t], s)
            - Eq(scraped[t], s) + Eq(scraped'[t], s)
            - Eq(sv[t], s) + Eq(sv'[t], s)
            - Eq(iter[t], s) + Eq(iter'[t], s)
    BY <1>0, Marks DEF IInv, TypeOK, ReaderInv, Eq, ReturnReferenced, ReturnSV, cfdVars, installVars
  <2> QED  BY <2>1, ThreadStep DEF IInv, TypeOK, ReturnReferenced, ReturnSV, cfdVars, installVars
<1>3. SlotNeverLastRef'
  <2>1. local_sv' = [local_sv EXCEPT ![t] = sv[t]] \/ local_sv' = local_sv
    BY DEF ReturnReferenced, ReturnSV
  <2>2. local_sv' # local_sv => local_sv[t] = kSVInUse
    BY DEF ReturnReferenced, ReturnSV
  <2>3. local_sv[t] = kSVInUse /\ sv[t] \in SV => sv[t] \in {super_version, old}
    BY Marks DEF IInv, MarkInv
  <2>4. UNCHANGED <<super_version, old, scraped>>
    BY DEF ReturnReferenced, cfdVars, installVars
  <2> QED  BY <2>1, <2>2, <2>3, <2>4 DEF IInv, TypeOK, SlotNeverLastRef
<1>4. CfdOutlivesSuperVersions'
  BY DEF IInv, CfdOutlivesSuperVersions, ReturnReferenced, ReturnSV, cfdVars, installVars
<1>5. ReaderInv'
  BY Marks DEF IInv, TypeOK, ReaderInv, ReturnReferenced, ReturnSV, cfdVars, installVars
<1>6. MarkInv'
  BY Marks DEF IInv, TypeOK, ReaderInv, MarkInv, InstallInv, ReturnReferenced, ReturnSV, cfdVars, installVars
<1>7. InstallInv'
  BY DEF IInv, TypeOK, InstallInv, ReturnReferenced, ReturnSV, cfdVars, installVars
<1>8. ZeroInv'
  BY <1>0, Marks DEF IInv, TypeOK, ReaderInv, ZeroInv, ReturnReferenced, ReturnSV, cfdVars, installVars
<1>9. SeenInv' /\ ReadIsFresh'
  BY Marks DEF IInv, TypeOK, SeenInv, ReadIsFresh, ReturnReferenced, ReturnSV, cfdVars, installVars
<1> QED  BY ONLY <1>1, <1>2, <1>3, <1>4, <1>5, <1>6, <1>7, <1>8, <1>9 DEF IInv

\* The unchecked Unref of GetReferencedSuperVersion preserves the invariant:
\* it never drops the last reference, which the iterator has.
LEMMA DiscardCachedIInv ==
    ASSUME IInv, NEW t \in Threads, DiscardCached(t) PROVE IInv'
<1>0. /\ \A s \in SV : refs[s] \in Nat
      /\ local_sv[t] \in SV => refs[local_sv[t]] > 0
      /\ scraped[t] \in SV => refs[scraped[t]] > 0
      /\ sv[t] \in SV => refs[sv[t]] > 0
      /\ iter[t] \in SV => refs[iter[t]] > 0
  BY ZenonT(30), HeldHasRef DEF IInv
<1>x. sv[t] \in SV
  BY Marks DEF IInv, TypeOK, ReaderInv, DiscardCached
<1>r. refs' \in [SV -> Nat]
  BY <1>0, <1>x, UnrefHeld DEF IInv, TypeOK, DiscardCached
<1>1. TypeOK'
  BY <1>r, <1>x, Marks DEF IInv, TypeOK, DiscardCached, cfdVars, installVars
<1>2. RefsCountHolders'
  <2>1. \A s \in SV : refs'[s] = refs[s]
            - Eq(local_sv[t], s) + Eq(local_sv'[t], s)
            - Eq(scraped[t], s) + Eq(scraped'[t], s)
            - Eq(sv[t], s) + Eq(sv'[t], s)
            - Eq(iter[t], s) + Eq(iter'[t], s)
    BY <1>0, Marks DEF IInv, TypeOK, ReaderInv, Eq, DiscardCached, Unref, cfdVars, installVars
  <2> QED  BY <2>1, ThreadStep DEF IInv, TypeOK, DiscardCached, Unref, cfdVars, installVars
<1>3. SlotNeverLastRef'
  BY Marks DEF IInv, TypeOK, SlotNeverLastRef, ReaderInv, MarkInv, DiscardCached, Unref, cfdVars, installVars
<1>4. CfdOutlivesSuperVersions'
  BY DEF IInv, CfdOutlivesSuperVersions, DiscardCached, Unref, cfdVars, installVars
<1>5. ReaderInv'
  BY Marks DEF IInv, TypeOK, ReaderInv, DiscardCached, Unref, cfdVars, installVars
<1>6. MarkInv'
  BY Marks DEF IInv, TypeOK, ReaderInv, MarkInv, InstallInv, DiscardCached, Unref, cfdVars, installVars
<1>7. InstallInv'
  BY DEF IInv, TypeOK, InstallInv, DiscardCached, Unref, cfdVars, installVars
<1>8. ZeroInv'
  BY <1>0, Marks DEF IInv, TypeOK, ReaderInv, ZeroInv, DiscardCached, Unref, cfdVars, installVars
<1>9. SeenInv' /\ ReadIsFresh'
  BY Marks DEF IInv, TypeOK, SeenInv, ReadIsFresh, DiscardCached, Unref, cfdVars, installVars
<1> QED  BY ONLY <1>1, <1>2, <1>3, <1>4, <1>5, <1>6, <1>7, <1>8, <1>9 DEF IInv

\* CleanupSuperVersionHandle's Unref preserves the invariant.
LEMMA DeleteIteratorIInv ==
    ASSUME IInv, NEW t \in Threads, DeleteIterator(t) PROVE IInv'
<1>0. /\ \A s \in SV : refs[s] \in Nat
      /\ local_sv[t] \in SV => refs[local_sv[t]] > 0
      /\ scraped[t] \in SV => refs[scraped[t]] > 0
      /\ sv[t] \in SV => refs[sv[t]] > 0
      /\ iter[t] \in SV => refs[iter[t]] > 0
  BY HeldHasRef DEF IInv
<1>x. iter[t] \in SV
  BY Marks DEF IInv, TypeOK, ReaderInv, DeleteIterator
<1>r. refs' \in [SV -> Nat]
  BY <1>0, <1>x, UnrefHeld DEF IInv, TypeOK, DeleteIterator
<1>1. TypeOK'
  BY <1>r, <1>x, Marks DEF IInv, TypeOK, DeleteIterator, LastRef, cfdVars, installVars
<1>2. RefsCountHolders'
  <2>1. \A s \in SV : refs'[s] = refs[s]
            - Eq(local_sv[t], s) + Eq(local_sv'[t], s)
            - Eq(scraped[t], s) + Eq(scraped'[t], s)
            - Eq(sv[t], s) + Eq(sv'[t], s)
            - Eq(iter[t], s) + Eq(iter'[t], s)
    BY <1>0, Marks DEF IInv, TypeOK, ReaderInv, Eq, DeleteIterator, Unref, LastRef, cfdVars, installVars
  <2> QED  BY <2>1, ThreadStep DEF IInv, TypeOK, DeleteIterator, Unref, LastRef, cfdVars, installVars
<1>3. SlotNeverLastRef'
  BY Marks DEF IInv, TypeOK, SlotNeverLastRef, ReaderInv, MarkInv, DeleteIterator, Unref, LastRef, cfdVars, installVars
<1>4. CfdOutlivesSuperVersions'
  BY DEF IInv, CfdOutlivesSuperVersions, DeleteIterator, Unref, LastRef, cfdVars, installVars
<1>5. ReaderInv'
  BY Marks DEF IInv, TypeOK, ReaderInv, DeleteIterator, Unref, LastRef, cfdVars, installVars
<1>6. MarkInv'
  BY Marks DEF IInv, TypeOK, ReaderInv, MarkInv, InstallInv, DeleteIterator, Unref, LastRef, cfdVars, installVars
<1>7. InstallInv'
  BY DEF IInv, TypeOK, InstallInv, DeleteIterator, Unref, LastRef, cfdVars, installVars
<1>8. ZeroInv'
  BY ZenonT(30), <1>0, <1>x, DropRef DEF IInv, DeleteIterator, cfdVars
<1>9. SeenInv' /\ ReadIsFresh'
  BY Marks DEF IInv, TypeOK, SeenInv, ReadIsFresh, DeleteIterator, Unref, LastRef, cfdVars, installVars
<1> QED  BY ONLY <1>1, <1>2, <1>3, <1>4, <1>5, <1>6, <1>7, <1>8, <1>9 DEF IInv

\* OnThreadExit preserves the invariant: the exiting thread is in no read, so
\* its slot is not marked.
LEMMA OnThreadExitIInv ==
    ASSUME IInv, NEW t \in Threads, OnThreadExit(t) PROVE IInv'
<1>0. /\ \A s \in SV : refs[s] \in Nat
      /\ local_sv[t] \in SV => refs[local_sv[t]] > 0
      /\ scraped[t] \in SV => refs[scraped[t]] > 0
      /\ sv[t] \in SV => refs[sv[t]] > 0
      /\ iter[t] \in SV => refs[iter[t]] > 0
  BY HeldHasRef DEF IInv
<1>x. local_sv[t] \in SV
  BY Marks DEF IInv, TypeOK, ReaderInv, OnThreadExit
<1>r. refs' \in [SV -> Nat]
  BY <1>0, <1>x, UnrefHeld DEF IInv, TypeOK, OnThreadExit
<1>1. TypeOK'
  BY <1>r, <1>x, Marks DEF IInv, TypeOK, OnThreadExit, readerVars, cfdVars, installVars
<1>2. RefsCountHolders'
  <2>1. \A s \in SV : refs'[s] = refs[s]
            - Eq(local_sv[t], s) + Eq(local_sv'[t], s)
            - Eq(scraped[t], s) + Eq(scraped'[t], s)
            - Eq(sv[t], s) + Eq(sv'[t], s)
            - Eq(iter[t], s) + Eq(iter'[t], s)
    BY <1>0, Marks DEF IInv, TypeOK, ReaderInv, Eq, OnThreadExit, Unref, readerVars, cfdVars, installVars
  <2> QED  BY ZenonT(30), <2>1, ThreadStep DEF IInv, TypeOK, OnThreadExit, Unref, readerVars, cfdVars, installVars
<1>3. SlotNeverLastRef'
  BY Marks DEF IInv, TypeOK, SlotNeverLastRef, ReaderInv, MarkInv, OnThreadExit, Unref, readerVars, cfdVars, installVars
<1>4. CfdOutlivesSuperVersions'
  BY ZenonT(30) DEF IInv, CfdOutlivesSuperVersions, OnThreadExit, Unref, readerVars, cfdVars, installVars
<1>5. ReaderInv'
  BY Marks DEF IInv, TypeOK, ReaderInv, OnThreadExit, Unref, readerVars, cfdVars, installVars
<1>6. MarkInv'
  BY Marks DEF IInv, TypeOK, ReaderInv, MarkInv, InstallInv, OnThreadExit, Unref, readerVars, cfdVars, installVars
<1>7. InstallInv'
  BY DEF IInv, TypeOK, InstallInv, OnThreadExit, Unref, readerVars, cfdVars, installVars
<1>8. ZeroInv'
  BY <1>0, Marks DEF IInv, TypeOK, ReaderInv, ZeroInv, OnThreadExit, Unref, readerVars, cfdVars, installVars
<1>9. SeenInv' /\ ReadIsFresh'
  BY Marks DEF IInv, TypeOK, SeenInv, ReadIsFresh, OnThreadExit, Unref, readerVars, cfdVars, installVars
<1> QED  BY ONLY <1>1, <1>2, <1>3, <1>4, <1>5, <1>6, <1>7, <1>8, <1>9 DEF IInv

-----------------------------------------------------------------------------
(* InstallSuperVersion. *)

\* One exchange of Scrape preserves the invariant.
LEMMA ScrapeOneIInv ==
    ASSUME IInv, NEW t \in Threads, ScrapeOne(t) PROVE IInv'
<1>0. /\ \A s \in SV : refs[s] \in Nat
      /\ local_sv[t] \in SV => refs[local_sv[t]] > 0
      /\ scraped[t] \in SV => refs[scraped[t]] > 0
      /\ sv[t] \in SV => refs[sv[t]] > 0
      /\ iter[t] \in SV => refs[iter[t]] > 0
  BY ZenonT(30), HeldHasRef DEF IInv
<1>1. TypeOK'
  BY <1>0, Marks DEF IInv, TypeOK, ReaderInv, ScrapeOne, cfdVars, readerVars
<1>2. RefsCountHolders'
  <2>1. \A s \in SV : refs'[s] = refs[s]
            - Eq(local_sv[t], s) + Eq(local_sv'[t], s)
            - Eq(scraped[t], s) + Eq(scraped'[t], s)
            - Eq(sv[t], s) + Eq(sv'[t], s)
            - Eq(iter[t], s) + Eq(iter'[t], s)
    <3>1. /\ scraped[t] = Null /\ local_sv'[t] = Null
          /\ scraped'[t] = IF local_sv[t] = kSVInUse THEN Null ELSE local_sv[t]
          /\ UNCHANGED <<refs, sv, iter>>
      BY Marks DEF IInv, TypeOK, InstallInv, ScrapeOne, readerVars
    <3>2. ASSUME NEW s \in SV
          PROVE  Eq(local_sv[t], s) = Eq(scraped'[t], s) /\ Eq(Null, s) = 0
      BY ONLY <3>1, Marks DEF Eq
    <3>3. \A s \in SV : Eq(local_sv[t], s) \in Nat /\ Eq(sv[t], s) \in Nat
                        /\ Eq(iter[t], s) \in Nat
      BY DEF Eq
    <3> QED  BY ONLY <1>0, <3>1, <3>2, <3>3
  <2> QED  BY <2>1, ThreadStep DEF IInv, TypeOK, ScrapeOne, cfdVars, readerVars
<1>3. SlotNeverLastRef'
  BY Marks DEF IInv, TypeOK, SlotNeverLastRef, ReaderInv, MarkInv, ScrapeOne, cfdVars, readerVars
<1>4. CfdOutlivesSuperVersions'
  BY DEF IInv, CfdOutlivesSuperVersions, ScrapeOne, cfdVars, readerVars
<1>5. ReaderInv'
  BY Marks DEF IInv, TypeOK, ReaderInv, ScrapeOne, cfdVars, readerVars
<1>6. MarkInv'
  BY Marks DEF IInv, TypeOK, ReaderInv, MarkInv, InstallInv, ScrapeOne, cfdVars, readerVars
<1>7. InstallInv'
  BY DEF IInv, TypeOK, InstallInv, ScrapeOne, cfdVars, readerVars
<1>8. ZeroInv'
  BY <1>0, Marks DEF IInv, TypeOK, ReaderInv, ZeroInv, ScrapeOne, cfdVars, readerVars
<1>9. SeenInv' /\ ReadIsFresh'
  BY Marks DEF IInv, TypeOK, SeenInv, ReadIsFresh, ScrapeOne, cfdVars, readerVars
<1> QED  BY ONLY <1>1, <1>2, <1>3, <1>4, <1>5, <1>6, <1>7, <1>8, <1>9 DEF IInv

\* One Unref of ResetThreadLocalSuperVersions preserves the invariant.
LEMMA UnrefScrapedIInv ==
    ASSUME IInv, NEW t \in Threads, UnrefScraped(t) PROVE IInv'
<1>0. /\ \A s \in SV : refs[s] \in Nat
      /\ local_sv[t] \in SV => refs[local_sv[t]] > 0
      /\ scraped[t] \in SV => refs[scraped[t]] > 0
      /\ sv[t] \in SV => refs[sv[t]] > 0
      /\ iter[t] \in SV => refs[iter[t]] > 0
  BY ZenonT(30), HeldHasRef DEF IInv
<1>x. scraped[t] \in SV
  BY Marks DEF IInv, TypeOK, ReaderInv, UnrefScraped
<1>r. refs' \in [SV -> Nat]
  BY <1>0, <1>x, UnrefHeld DEF IInv, TypeOK, UnrefScraped
<1>1. TypeOK'
  BY <1>r, <1>x, Marks DEF IInv, TypeOK, UnrefScraped, cfdVars, readerVars
<1>2. RefsCountHolders'
  <2>1. \A s \in SV : refs'[s] = refs[s]
            - Eq(local_sv[t], s) + Eq(local_sv'[t], s)
            - Eq(scraped[t], s) + Eq(scraped'[t], s)
            - Eq(sv[t], s) + Eq(sv'[t], s)
            - Eq(iter[t], s) + Eq(iter'[t], s)
    BY <1>0, Marks DEF IInv, TypeOK, ReaderInv, Eq, UnrefScraped, Unref, cfdVars, readerVars
  <2> QED  BY <2>1, ThreadStep DEF IInv, TypeOK, UnrefScraped, Unref, cfdVars, readerVars
<1>3. SlotNeverLastRef'
  BY Marks DEF IInv, TypeOK, SlotNeverLastRef, UnrefScraped, cfdVars
<1>4. CfdOutlivesSuperVersions'
  BY DEF IInv, CfdOutlivesSuperVersions, UnrefScraped, Unref, cfdVars, readerVars
<1>5. ReaderInv'
  BY Marks DEF IInv, TypeOK, ReaderInv, UnrefScraped, Unref, cfdVars, readerVars
<1>6. MarkInv'
  BY Marks DEF IInv, TypeOK, ReaderInv, MarkInv, InstallInv, UnrefScraped, Unref, cfdVars, readerVars
<1>7. InstallInv'
  BY DEF IInv, TypeOK, InstallInv, UnrefScraped, Unref, cfdVars, readerVars
<1>8. ZeroInv'
  BY <1>0, Marks DEF IInv, TypeOK, ReaderInv, ZeroInv, UnrefScraped, Unref, cfdVars, readerVars
<1>9. SeenInv' /\ ReadIsFresh'
  BY Marks DEF IInv, TypeOK, SeenInv, ReadIsFresh, UnrefScraped, Unref, cfdVars, readerVars
<1> QED  BY ONLY <1>1, <1>2, <1>3, <1>4, <1>5, <1>6, <1>7, <1>8, <1>9 DEF IInv

-----------------------------------------------------------------------------
(* Counting what pins the ColumnFamilyData. *)

\* The SuperVersions made so far that are not in c.
Live(n, c) == (1 .. n) \ c

\* The SuperVersions made and not cleaned up are finitely many.
LEMMA LiveNat ==
    ASSUME NEW n \in Nat, NEW c
    PROVE  IsFiniteSet(Live(n, c)) /\ Cardinality(Live(n, c)) \in Nat
<1>1. IsFiniteSet(1 .. n)  BY ONLY FS_Interval
<1>2. IsFiniteSet(Live(n, c))  BY ONLY <1>1, FS_Subset DEF Live
<1> QED  BY ONLY <1>2, FS_CardinalityType

\* Cleaning up a live SuperVersion leaves one fewer.
LEMMA LiveRemove ==
    ASSUME NEW n \in Nat, NEW c, NEW s \in Live(n, c)
    PROVE  Cardinality(Live(n, c \cup {s})) = Cardinality(Live(n, c)) - 1
<1>1. Live(n, c \cup {s}) = Live(n, c) \ {s}  BY DEF Live
<1> QED  BY ZenonT(30), <1>1, LiveNat, FS_RemoveElement

\* Installing a SuperVersion adds one.
LEMMA LiveAdd ==
    ASSUME NEW n \in Nat, NEW c, c \subseteq 1 .. n
    PROVE  Cardinality(Live(n + 1, c)) = Cardinality(Live(n, c)) + 1
<1>1. Live(n + 1, c) = Live(n, c) \cup {n + 1} /\ n + 1 \notin Live(n, c)
  BY DEF Live
<1> QED  BY ONLY <1>1, LiveNat, FS_AddElement

\* The external holders are finitely many.
LEMMA ExtNat ==
    ASSUME NEW e, e \subseteq ExtRefs
    PROVE  /\ IsFiniteSet(e) /\ Cardinality(e) \in Nat
           /\ Cardinality(e) = 0 <=> e = {}
<1>1. IsFiniteSet({"set"})  BY ONLY FS_Singleton
<1>2. IsFiniteSet({"set"} \cup {"handle"})  BY ONLY <1>1, FS_AddElement
<1>3. IsFiniteSet({"set"} \cup {"handle"} \cup {"job"})  BY ONLY <1>2, FS_AddElement
<1>4. ExtRefs = {"set"} \cup {"handle"} \cup {"job"}  BY DEF ExtRefs
<1>5. IsFiniteSet(e)  BY ZenonT(30), <1>3, <1>4, FS_Subset
<1> QED  BY ONLY <1>5, FS_CardinalityType, FS_EmptySet

\* CfdOutlivesSuperVersions in terms of Live.
LEMMA CfdRefsAre ==
    CfdOutlivesSuperVersions <=>
        cfd_refs = Cardinality(ext) + Cardinality(Live(super_version_number, cleaned))
BY DEF CfdOutlivesSuperVersions, Live

\* The same after a step.
LEMMA CfdRefsAreNext ==
    CfdOutlivesSuperVersions' <=>
        cfd_refs' = Cardinality(ext') + Cardinality(Live(super_version_number', cleaned'))
BY DEF CfdOutlivesSuperVersions, Live

\* With an external holder and a second SuperVersion next to super_version_,
\* dropping a cfd reference is not the end of the column family.
LEMMA LiveTwo ==
    ASSUME IInv, ext # {}, super_version # Null, NEW d \in SV,
           d # super_version, d \notin cleaned, d <= super_version_number
    PROVE  /\ cfd_refs > 2
           /\ d \in Live(super_version_number, cleaned)
           /\ super_version \in Live(super_version_number, cleaned)
<1> DEFINE n == super_version_number
<1>1. n \in Nat /\ super_version \in SV /\ super_version = n
  BY Marks DEF IInv, TypeOK, InstallInv
<1>2. super_version \notin cleaned
  <2>1. refs[super_version] > 0 /\ refs[super_version] \in Nat
    BY <1>1, HeldHasRef DEF IInv
  <2> QED  BY <1>1, <2>1 DEF IInv, ZeroInv
<1>3. d \in Live(n, cleaned) /\ super_version \in Live(n, cleaned)
  BY <1>1, <1>2 DEF Live, SV
<1>4. super_version \in Live(n, cleaned \cup {d})
  BY <1>3 DEF Live
<1>5. Cardinality(Live(n, cleaned \cup {d})) = Cardinality(Live(n, cleaned)) - 1
  BY ONLY <1>1, <1>3, LiveRemove
<1>6. Cardinality(Live(n, cleaned \cup {d} \cup {super_version}))
        = Cardinality(Live(n, cleaned \cup {d})) - 1
  BY ONLY <1>1, <1>4, LiveRemove
<1>7. /\ Cardinality(Live(n, cleaned \cup {d} \cup {super_version})) \in Nat
      /\ Cardinality(Live(n, cleaned \cup {d})) \in Nat
      /\ Cardinality(Live(n, cleaned)) \in Nat
  BY ONLY <1>1, LiveNat
<1>8. Cardinality(ext) \in Nat /\ Cardinality(ext) # 0
  BY ExtNat DEF IInv, TypeOK
<1>9. cfd_refs = Cardinality(ext) + Cardinality(Live(n, cleaned))
  BY CfdRefsAre DEF IInv
<1> QED  BY ONLY <1>3, <1>5, <1>6, <1>7, <1>8, <1>9

-----------------------------------------------------------------------------
(* Steps that clean a SuperVersion up while the column family lives on. *)

\* Under the mutex, cleaning up the stale SuperVersion and referencing the
\* current one preserves the invariant.
LEMMA AcquireCurrentIInv ==
    ASSUME IInv, NEW t \in Threads, AcquireCurrent(t) PROVE IInv'
<1> DEFINE n == super_version_number
           d == dead[t]
<1>1. /\ super_version \in SV /\ super_version = n /\ old = Null
      /\ sv[t] = Null /\ "handle" \in ext
  BY Marks DEF IInv, TypeOK, ReaderInv, InstallInv, AcquireCurrent, MutexFree
<1>2. /\ \A s \in SV : refs[s] \in Nat /\ s \in Nat
      /\ refs[super_version] > 0
  BY <1>1, HeldHasRef, Marks DEF IInv
<1>3. d # Null => /\ d \in SV /\ d # super_version /\ d \notin cleaned /\ d <= n
                  /\ refs[d] = 0
  BY <1>2 DEF IInv, TypeOK, ZeroInv
<1>4. d # Null => cfd_refs > 2 /\ d \in Live(n, cleaned)
  BY <1>1, <1>3, Marks, LiveTwo
<1>5. /\ refs' = [refs EXCEPT ![super_version] = refs[super_version] + 1]
      /\ cleaned' = IF d = Null THEN cleaned ELSE cleaned \cup {d}
      /\ cfd_refs' = IF d = Null THEN cfd_refs ELSE cfd_refs - 1
      /\ UNCHANGED <<super_version, local_sv, super_version_number, ext>>
  <2>1. (d # Null => cfd_refs # 2) /\ refs \in [SV -> Nat]  BY <1>4 DEF IInv, TypeOK
  <2>2. AcquireCurrent(t)  OBVIOUS
  <2> QED  BY ONLY <1>1, <1>2, <2>1, <2>2
           DEF AcquireCurrent, Cleanup, UnrefAndTryDelete, cfdVars
<1>6. /\ sv' = [sv EXCEPT ![t] = super_version]
      /\ dead' = [dead EXCEPT ![t] = Null]
      /\ pc' = [pc EXCEPT ![t] = "use"] /\ pc[t] = "lock"
      /\ UNCHANGED <<iter, seen, old, todo, scraped>>
  BY DEF AcquireCurrent, installVars
<1>7. /\ refs' \in [SV -> Nat]
      /\ \A s \in SV : refs'[s] = refs[s] + Eq(super_version, s)
  BY ZenonT(30), <1>1, <1>5, RefHeld DEF IInv, TypeOK, Ref
<1>8. TypeOK'
  <2>1. cleaned' \subseteq SV  BY <1>3, <1>5 DEF IInv, TypeOK
  <2>2. cfd_refs' \in Nat  BY <1>4, <1>5 DEF IInv, TypeOK
  <2> QED  BY <2>1, <2>2, <1>1, <1>5, <1>6, <1>7, Marks DEF IInv, TypeOK
<1>9. RefsCountHolders'
  <2>1. \A s \in SV : refs'[s] = refs[s]
            - Eq(local_sv[t], s) + Eq(local_sv'[t], s)
            - Eq(scraped[t], s) + Eq(scraped'[t], s)
            - Eq(sv[t], s) + Eq(sv'[t], s)
            - Eq(iter[t], s) + Eq(iter'[t], s)
    BY <1>1, <1>2, <1>5, <1>6, <1>7, Marks DEF IInv, TypeOK, Eq
  <2> QED  BY <2>1, <1>5, <1>6, ThreadStep DEF IInv, TypeOK
<1>10. SlotNeverLastRef'
  BY ZenonT(30), <1>5, <1>6 DEF IInv, SlotNeverLastRef
<1>11. CfdOutlivesSuperVersions'
  <2>1. cfd_refs = Cardinality(ext) + Cardinality(Live(n, cleaned))
    BY CfdRefsAre DEF IInv
  <2>2. /\ Cardinality(ext) \in Nat /\ n \in Nat
        /\ Cardinality(Live(n, cleaned)) \in Nat
    BY Marks, ExtNat, LiveNat DEF IInv, TypeOK
  <2>3. d # Null => Cardinality(Live(n, cleaned \cup {d}))
                        = Cardinality(Live(n, cleaned)) - 1
    BY ONLY <1>4, <2>2, LiveRemove
  <2> QED  BY ONLY <1>5, <2>1, <2>2, <2>3, CfdRefsAreNext
<1>12. ReaderInv'
  BY <1>1, <1>5, <1>6, Marks DEF IInv, TypeOK, ReaderInv
<1>13. MarkInv'
  BY <1>1, <1>5, <1>6, Marks DEF IInv, TypeOK, MarkInv
<1>14. InstallInv'
  BY <1>5, <1>6 DEF IInv, InstallInv
<1>15. ZeroInv'
  <2>1. cleaned' \subseteq 1 .. n
    <3>1. cleaned \subseteq 1 .. n  BY DEF IInv, ZeroInv
    <3>2. d # Null => d \in 1 .. n  BY ONLY <1>4 DEF Live
    <3> QED  BY ZenonT(30), <3>1, <3>2, <1>5
  <2>2. \A s \in SV : s \in cleaned' \/ s > n => refs'[s] = 0
    <3>1. \A s \in SV : s \in cleaned \/ s > n => refs[s] = 0
      BY ZenonT(30) DEF IInv, ZeroInv
    <3> QED  BY ONLY <3>1, <1>1, <1>2, <1>3, <1>5, <1>7, SMTT(30), ZenonT(30) DEF Eq
  <2>3. \A u \in Threads : dead'[u] # Null => u # t /\ dead'[u] = dead[u]
    BY <1>6 DEF IInv, TypeOK
  <2>4. ASSUME NEW u \in Threads, dead'[u] # Null
        PROVE  /\ refs'[dead'[u]] = 0 /\ dead'[u] \notin cleaned'
               /\ dead'[u] <= n
    <3>1. /\ u # t /\ dead'[u] = dead[u] /\ dead[u] \in SV
          /\ refs[dead[u]] = 0 /\ dead[u] \notin cleaned /\ dead[u] <= n
      BY <2>3, <2>4, Marks DEF IInv, TypeOK, ZeroInv
    <3>2. dead[u] # d
      BY <2>4, <3>1 DEF IInv, ZeroInv
    <3> QED  BY ONLY <3>1, <3>2, <1>2, <1>5, <1>7, SMTT(30), ZenonT(30) DEF Eq
  <2> QED  BY ZenonT(30), <2>1, <2>2, <2>3, <2>4, <1>5 DEF IInv, ZeroInv
<1>16. SeenInv' /\ ReadIsFresh'
  BY <1>1, <1>5, <1>6, Marks DEF IInv, TypeOK, SeenInv, ReadIsFresh
<1> QED  BY ONLY <1>8, <1>9, <1>10, <1>11, <1>12, <1>13, <1>14, <1>15, <1>16 DEF IInv

\* Publishing a new SuperVersion preserves the invariant.
LEMMA InstallPublishIInv ==
    ASSUME IInv, InstallPublish PROVE IInv'
<1> DEFINE n == super_version_number
<1>1. /\ super_version \in SV /\ super_version = n /\ old = Null
      /\ n + 1 \in SV /\ n \in Nat /\ "job" \in ext
  BY Marks, MaxVersionPos
     DEF IInv, TypeOK, InstallInv, InstallPublish, MutexFree, SV
<1>2. /\ super_version' = n + 1 /\ super_version_number' = n + 1
      /\ refs' = [refs EXCEPT ![n + 1] = 1]
      /\ cfd_refs' = cfd_refs + 1 /\ old' = super_version /\ todo' = Threads
      /\ UNCHANGED <<cleaned, ext, local_sv, pc, sv, dead, iter, seen, scraped>>
  BY DEF InstallPublish, readerVars
<1>3. refs[n + 1] = 0 /\ \A s \in SV : refs[s] \in Nat /\ s \in Nat
  BY <1>1, Marks DEF IInv, TypeOK, ZeroInv
<1>4. TypeOK'
  BY <1>1, <1>2, Marks DEF IInv, TypeOK
<1>5. RefsCountHolders'
  <2>1. \A p \in Places : p # Cfd /\ p # Old => Pointer'[p] = Pointer[p]
    BY ONLY <1>2, PlacesAre, PointerAt, PointerAtNext
  <2>3. ASSUME NEW s \in SV PROVE refs'[s] = Count(Pointer', s)
    <3>1. Count(Pointer', s) = Count(Pointer, s)
              - Eq(Pointer[Cfd], s) + Eq(Pointer'[Cfd], s)
              - Eq(Pointer[Old], s) + Eq(Pointer'[Old], s)
      BY ONLY <2>1, CountShared
    <3>2. Count(Pointer', s) = Count(Pointer, s)
              - Eq(super_version, s) + Eq(n + 1, s)
              - Eq(Null, s) + Eq(super_version, s)
      BY ONLY <3>1, <1>1, <1>2, PointerAt, PointerAtNext
    <3>3. refs[s] = Count(Pointer, s)
      BY RefsAreCounts DEF IInv
    <3>4. refs'[s] = refs[s] + Eq(n + 1, s)
      BY <1>1, <1>2, <1>3 DEF IInv, TypeOK, Eq
    <3> QED  BY ONLY <3>2, <3>3, <3>4, <1>3, Marks DEF Eq
  <2> QED  BY ONLY <2>3, RefsAreCountsNext
<1>6. SlotNeverLastRef'
  BY <1>1, <1>2, Marks DEF IInv, SlotNeverLastRef, InstallInv
<1>7. CfdOutlivesSuperVersions'
  <2>1. Cardinality(Live(n + 1, cleaned)) = Cardinality(Live(n, cleaned)) + 1
    BY ZenonT(30), <1>1, LiveAdd DEF IInv, ZeroInv
  <2>2. /\ cfd_refs = Cardinality(ext) + Cardinality(Live(n, cleaned))
        /\ Cardinality(ext) \in Nat /\ Cardinality(Live(n, cleaned)) \in Nat
    BY <1>1, CfdRefsAre, ExtNat, LiveNat DEF IInv, TypeOK
  <2> QED  BY ONLY <1>2, <2>1, <2>2, CfdRefsAreNext
<1>8. ReaderInv'
  BY <1>2 DEF IInv, ReaderInv
<1>9. MarkInv'
  BY <1>1, <1>2, Marks DEF IInv, TypeOK, MarkInv
<1>10. InstallInv'
  BY <1>1, <1>2, Marks DEF IInv, TypeOK, InstallInv
<1>11. ZeroInv'
  <2>1. \A s \in SV : s \in cleaned \/ s > n + 1 => refs'[s] = 0
    BY <1>1, <1>2, <1>3 DEF IInv, TypeOK, ZeroInv
  <2>2. cleaned \subseteq 1 .. (n + 1)
    BY <1>1 DEF IInv, ZeroInv
  <2>3. ASSUME NEW t \in Threads, dead[t] # Null
        PROVE  refs'[dead[t]] = 0 /\ dead[t] \notin cleaned /\ dead[t] <= n + 1
    <3>1. /\ refs[dead[t]] = 0 /\ dead[t] \notin cleaned /\ dead[t] <= n
          /\ dead[t] \in SV
      BY <2>3 DEF IInv, TypeOK, ZeroInv
    <3>2. dead[t] # n + 1 /\ dead[t] <= n + 1
      <4>1. dead[t] \in Nat  BY ZenonT(30), <3>1, Marks
      <4>2. dead[t] <= n /\ n \in Nat  BY ONLY <3>1, <1>1
      <4> QED  BY ONLY <4>1, <4>2
    <3>3. refs'[dead[t]] = refs[dead[t]]
      BY ONLY <3>1, <3>2, <1>2 DEF IInv, TypeOK
    <3> QED  BY ONLY <3>1, <3>2, <3>3
  <2> QED  BY <1>2, <2>1, <2>2, <2>3 DEF IInv, ZeroInv
<1>12. SeenInv' /\ ReadIsFresh'
  <2>1. \A t \in Threads : seen[t] \in Nat /\ seen[t] <= n
    BY ZenonT(30), Marks DEF IInv, TypeOK, SeenInv
  <2>2. SeenInv'  BY ONLY <2>1, <1>1, <1>2 DEF SeenInv
  <2>3. ReadIsFresh'  BY <1>2 DEF IInv, ReadIsFresh
  <2> QED  BY ONLY <2>2, <2>3
<1> QED  BY ONLY <1>4, <1>5, <1>6, <1>7, <1>8, <1>9, <1>10, <1>11, <1>12 DEF IInv

\* Dropping the old SuperVersion at the end of an install preserves the
\* invariant; the job's reference keeps the column family alive.
LEMMA InstallFinishIInv ==
    ASSUME IInv, InstallFinish PROVE IInv'
<1> DEFINE n == super_version_number
<1>1. /\ old \in SV /\ old # Null /\ super_version \in SV /\ super_version = n
      /\ old # super_version /\ "job" \in ext /\ n \in Nat
  BY Marks DEF IInv, TypeOK, InstallInv, InstallFinish
<1>2. /\ \A s \in SV : refs[s] \in Nat /\ s \in Nat
      /\ refs[old] > 0 /\ refs[super_version] > 0
  BY <1>1, HeldHasRef, Marks DEF IInv
<1>3. old \notin cleaned /\ old <= n
  BY <1>1, <1>2 DEF IInv, ZeroInv
<1>4. cfd_refs > 2 /\ old \in Live(n, cleaned)
  BY <1>1, <1>3, Marks, LiveTwo
<1>5. /\ refs' = [refs EXCEPT ![old] = refs[old] - 1]
      /\ cleaned' = IF refs[old] = 1 THEN cleaned \cup {old} ELSE cleaned
      /\ cfd_refs' = IF refs[old] = 1 THEN cfd_refs - 1 ELSE cfd_refs
      /\ UNCHANGED <<super_version, local_sv, super_version_number, ext>>
  <2>1. cfd_refs # 2 /\ refs \in [SV -> Nat]  BY <1>4 DEF IInv, TypeOK
  <2>2. InstallFinish  OBVIOUS
  <2> QED  BY ONLY <1>1, <1>2, <2>1, <2>2, SMTT(30), ZenonT(30)
      DEF InstallFinish, LastRef, Cleanup, UnrefAndTryDelete, cfdVars
<1>6. /\ old' = Null /\ todo = {} /\ \A t \in Threads : scraped[t] = Null
      /\ UNCHANGED <<pc, sv, dead, iter, seen, todo, scraped>>
  BY DEF InstallFinish, readerVars
<1>7. /\ refs' \in [SV -> Nat]
      /\ \A s \in SV : refs'[s] = refs[s] - Eq(old, s)
  BY ZenonT(30), <1>1, <1>2, <1>5, UnrefHeld DEF IInv, TypeOK, Unref
<1>8. TypeOK'
  <2>1. cleaned' \subseteq SV  BY <1>1, <1>5 DEF IInv, TypeOK
  <2>2. cfd_refs' \in Nat  BY <1>4, <1>5 DEF IInv, TypeOK
  <2> QED  BY <2>1, <2>2, <1>5, <1>6, <1>7 DEF IInv, TypeOK
<1>9. RefsCountHolders'
  <2>1. \A p \in Places : p # Cfd /\ p # Old => Pointer'[p] = Pointer[p]
    BY <1>5, <1>6, PlacesAre, PointerAt, PointerAtNext
  <2>2. ASSUME NEW s \in SV PROVE refs'[s] = Count(Pointer', s)
    <3>1. Count(Pointer', s) = Count(Pointer, s)
              - Eq(Pointer[Cfd], s) + Eq(Pointer'[Cfd], s)
              - Eq(Pointer[Old], s) + Eq(Pointer'[Old], s)
      BY ONLY <2>1, CountShared
    <3>2. Count(Pointer', s) = Count(Pointer, s)
              - Eq(super_version, s) + Eq(super_version, s)
              - Eq(old, s) + Eq(Null, s)
      BY ZenonT(30), <3>1, <1>5, <1>6, PointerAt, PointerAtNext
    <3>3. refs[s] = Count(Pointer, s)
      BY RefsAreCounts DEF IInv
    <3> QED  BY ONLY <3>2, <3>3, <1>2, <1>7, Marks DEF Eq
  <2> QED  BY ONLY <2>2, RefsAreCountsNext
<1>10. \A t \in Threads : /\ local_sv[t] \notin SV
                          /\ local_sv[t] = kSVInUse => sv[t] = Null
  BY <1>1, <1>6 DEF IInv, MarkInv
<1>11. SlotNeverLastRef'
  BY ONLY <1>5, <1>6, <1>10, Marks DEF SlotNeverLastRef
<1>12. CfdOutlivesSuperVersions'
  <2>1. cfd_refs = Cardinality(ext) + Cardinality(Live(n, cleaned))
    BY CfdRefsAre DEF IInv
  <2>2. Cardinality(ext) \in Nat /\ Cardinality(Live(n, cleaned)) \in Nat
    BY <1>1, ExtNat, LiveNat DEF IInv, TypeOK
  <2>3. Cardinality(Live(n, cleaned \cup {old})) = Cardinality(Live(n, cleaned)) - 1
    BY ONLY <1>1, <1>4, LiveRemove
  <2> QED  BY ONLY <1>5, <2>1, <2>2, <2>3, CfdRefsAreNext
<1>13. ReaderInv'
  BY <1>5, <1>6 DEF IInv, ReaderInv
<1>14. MarkInv'
  BY ONLY <1>5, <1>6, <1>10 DEF MarkInv
<1>15. InstallInv'
  BY ONLY <1>1, <1>5, <1>6, Marks DEF IInv, InstallInv
<1>16. ZeroInv'
  <2>1. cleaned' \subseteq 1 .. n
    BY <1>4, <1>5 DEF IInv, ZeroInv, Live
  <2>2. \A s \in SV : s \in cleaned' \/ s > n => refs'[s] = 0
    BY <1>1, <1>2, <1>3, <1>5, <1>7 DEF IInv, ZeroInv, Eq
  <2>3. ASSUME NEW t \in Threads, dead[t] # Null
        PROVE  refs'[dead[t]] = 0 /\ dead[t] \notin cleaned' /\ dead[t] <= n
    <3>1. /\ dead[t] \in SV /\ refs[dead[t]] = 0 /\ dead[t] \notin cleaned
          /\ dead[t] <= n
      BY <2>3 DEF IInv, TypeOK, ZeroInv
    <3>2. dead[t] # old  BY ONLY <3>1, <1>2
    <3> QED  BY ONLY <3>1, <3>2, <1>5, <1>7, <1>2 DEF Eq
  <2> QED  BY <1>5, <1>6, <2>1, <2>2, <2>3 DEF IInv, ZeroInv
<1>17. SeenInv' /\ ReadIsFresh'
  BY ZenonT(30), <1>5, <1>6 DEF IInv, SeenInv, ReadIsFresh
<1> QED  BY ONLY <1>8, <1>9, <1>11, <1>12, <1>13, <1>14, <1>15, <1>16, <1>17 DEF IInv

\* Queueing a job preserves the invariant.
LEMMA JobStartIInv ==
    ASSUME IInv, JobStart PROVE IInv'
<1>1. /\ "job" \notin ext /\ ext' = ext \cup {"job"} /\ cfd_refs' = cfd_refs + 1
      /\ ext # {} /\ ext' # {} /\ old = Null
      /\ UNCHANGED <<super_version, super_version_number, cleaned, refs, local_sv,
                     pc, sv, dead, iter, seen, old, todo, scraped>>
  BY DEF JobStart, MutexFree, readerVars, installVars
<1>2. TypeOK'
  BY <1>1 DEF IInv, TypeOK, ExtRefs
<1>3. RefsCountHolders' /\ SlotNeverLastRef'
  BY ZenonT(30), <1>1 DEF IInv, RefsCountHolders, Holders, Pointer, SlotNeverLastRef
<1>4. CfdOutlivesSuperVersions'
  <2>1. Cardinality(ext') = Cardinality(ext) + 1 /\ Cardinality(ext) \in Nat
    BY <1>1, ExtNat, FS_AddElement DEF IInv, TypeOK
  <2>2. Cardinality(Live(super_version_number, cleaned)) \in Nat
    BY Marks, LiveNat DEF IInv, TypeOK
  <2> QED  BY <1>1, <2>1, <2>2, CfdRefsAre, CfdRefsAreNext DEF IInv
<1>5. ReaderInv' /\ MarkInv' /\ InstallInv'
  BY ZenonT(30), <1>1 DEF IInv, ReaderInv, MarkInv, InstallInv
<1>6. ZeroInv' /\ SeenInv' /\ ReadIsFresh'
  BY ZenonT(30), <1>1 DEF IInv, ZeroInv, SeenInv, ReadIsFresh
<1> QED  BY ONLY <1>2, <1>3, <1>4, <1>5, <1>6 DEF IInv

-----------------------------------------------------------------------------
(* UnrefAndTryDelete, which may detach super_version_ and reclaim the slots. *)

\* The places that lose super_version_ when the slots are reclaimed.
LEMMA Detached ==
    ASSUME IInv, old = Null, super_version # Null, super_version' = Null,
           local_sv' = [t \in Threads |-> kSVObsolete],
           UNCHANGED <<sv, iter, old, scraped>>
    PROVE  LET cached == {t \in Threads : local_sv[t] = super_version}
               left   == refs[super_version] - Cardinality(cached) - 1
           IN  /\ left \in Nat /\ left = Count(Pointer', super_version)
               /\ \A s \in SV \ {super_version} :
                      Count(Pointer', s) = Count(Pointer, s)
<1> DEFINE cached == {t \in Threads : local_sv[t] = super_version}
           slots  == {"slot"} \X cached
           gone   == slots \cup {Cfd}
           H      == {p \in Places : Pointer[p] = super_version}
           K      == {p \in Places : Pointer'[p] = super_version}
<1>1. super_version \in SV /\ \A t \in Threads : local_sv'[t] = Null
  BY Marks DEF IInv, TypeOK
<1>2. \A t \in Threads : local_sv[t] \in SV => local_sv[t] = super_version
  BY Marks DEF IInv, SlotNeverLastRef
<1>u. /\ sv' = sv /\ iter' = iter /\ scraped' = scraped
      /\ old = Null /\ old' = Null /\ super_version' = Null
  OBVIOUS
<1>3. \A p \in slots : \E t \in cached : p = Slot(t)
  BY DEF Slot
<1>4. \A t \in cached : Slot(t) \in slots
  BY DEF Slot
<1>5. gone \subseteq H
  BY ONLY <1>3, PlacesAre, PointerAt
<1>6. K = H \ gone
  <2>1. ASSUME NEW p \in Places PROVE p \in K <=> p \in H \ gone
    <3>1. CASE p = Cfd
      BY ZenonT(30), <3>1, <1>1, Marks, PointerAtNext
    <3>2. CASE p = Old
      <4>1. Pointer'[p] # super_version /\ Pointer[p] # super_version
        BY <3>2, <1>1, Marks, PointerAt, PointerAtNext
      <4> QED  BY ZenonT(30), <4>1
    <3>3. ASSUME NEW t \in Threads, p = Slot(t) PROVE p \in K <=> p \in H \ gone
      <4>1. Pointer'[p] = Null /\ Pointer[p] = local_sv[t]
        BY ZenonT(30), <3>3, <1>1, PointerAt, PointerAtNext
      <4>2. p \in H => p \in gone
        BY ZenonT(30), <3>3, <4>1, <1>4
      <4> QED  BY ONLY <4>1, <4>2, <1>1, Marks
    <3>4. ASSUME NEW t \in Threads,
                 p = Scraped(t) \/ p = Reading(t) \/ p = Iter(t)
          PROVE  p \in K <=> p \in H \ gone
      <4>1. Pointer'[p] = Pointer[p]
        BY ONLY <1>u, <3>4, PointerAt, PointerAtNext
      <4>2. p \notin gone
        BY ONLY <3>4, <1>3 DEF Slot, Scraped, Reading, Iter, Cfd
      <4> QED  BY ONLY <4>1, <4>2
    <3> QED  BY ZenonT(30), <3>1, <3>2, <3>3, <3>4, PlacesAre
  <2> QED  BY ONLY <2>1
<1>7. IsFiniteSet(H) /\ IsFiniteSet(cached)
  BY ONLY PlacesFinite, ThreadsFinite, FS_Subset
<1>8. IsFiniteSet(slots) /\ Cardinality(slots) = Cardinality(cached)
  <2>1. IsFiniteSet({"slot"}) /\ Cardinality({"slot"}) = 1  BY ZenonT(30), FS_Singleton
  <2>2. /\ IsFiniteSet(slots)
        /\ Cardinality(slots) = Cardinality({"slot"}) * Cardinality(cached)
    BY ONLY <1>7, <2>1, FS_Product
  <2>3. Cardinality(cached) \in Nat  BY ONLY <1>7, FS_CardinalityType
  <2> QED  BY ONLY <2>1, <2>2, <2>3, SMTT(30), ZenonT(30)
<1>9. IsFiniteSet(gone) /\ Cardinality(gone) = Cardinality(cached) + 1
  <2>1. Cfd \notin slots  BY ONLY <1>3 DEF Slot, Cfd
  <2> HIDE DEF slots
  <2> QED  BY ONLY <1>8, <2>1, FS_AddElement
<1>10. Cardinality(K) = Cardinality(H) - Cardinality(gone) /\ Cardinality(K) \in Nat
  <2> HIDE DEF gone, H, K
  <2>1. H \cap gone = gone  BY ONLY <1>5
  <2>2. /\ Cardinality(H \ gone) = Cardinality(H) - Cardinality(H \cap gone)
        /\ IsFiniteSet(H \ gone)
    BY ZenonT(30), <1>7, FS_Difference
  <2> QED  BY ZenonT(30), <1>6, <2>1, <2>2, FS_CardinalityType
<1>11. refs[super_version] = Cardinality(H)
  BY <1>1, RefsAreCounts DEF IInv, Count
<1>12. Cardinality(cached) \in Nat /\ Cardinality(H) \in Nat
  BY ONLY <1>7, FS_CardinalityType
<1>13. ASSUME NEW s \in SV \ {super_version}
       PROVE  Count(Pointer', s) = Count(Pointer, s)
  <2>1. ASSUME NEW p \in Places PROVE Pointer'[p] = s <=> Pointer[p] = s
    BY ONLY <1>1, <1>2, <1>u, <1>13, Marks, PlacesAre, PointerAt, PointerAtNext
  <2>2. {p \in Places : Pointer'[p] = s} = {p \in Places : Pointer[p] = s}
    BY ZenonT(30), <2>1
  <2> QED  BY ONLY <2>2 DEF Count
<1>14. Count(Pointer', super_version) = Cardinality(K)
  BY DEF Count
<1> HIDE DEF cached, H, K, gone, slots
<1>15. /\ refs[super_version] - Cardinality(cached) - 1 \in Nat
       /\ refs[super_version] - Cardinality(cached) - 1
            = Count(Pointer', super_version)
  BY ONLY <1>9, <1>10, <1>11, <1>12, <1>14
<1> QED  BY ONLY <1>13, <1>15 DEF cached

\* UnrefAndTryDelete preserves the invariant when its caller gives up one cfd
\* reference, c being what is cleaned up by then; if it detaches super_version_
\* no slot is marked.
LEMMA TryDelete ==
    ASSUME IInv, old = Null, NEW c, cleaned \subseteq c,
           c \subseteq 1 .. super_version_number, c \subseteq SV,
           \A s \in c : refs[s] = 0,
           UnrefAndTryDelete(refs, c), ext' \subseteq ext,
           Cardinality(ext') + Cardinality(Live(super_version_number, c))
               = cfd_refs - 1,
           super_version_number' = super_version_number, sv' = sv, iter' = iter,
           seen' = seen, old' = old, todo' = todo, scraped' = scraped,
           dead' \in [Threads -> SV \cup {Null}], pc' \in [Threads -> {"idle",
               "swapped", "stale", "lock", "use", "refd", "discard", "release",
               "cleanup"}],
           \A t \in Threads : dead'[t] # Null => dead'[t] = dead[t] /\ dead[t] \notin c,
           \A t \in Threads : \/ pc'[t] = pc[t]
                              \/ pc[t] = "cleanup" /\ pc'[t] = "idle",
           \A t \in Threads : pc'[t] = "cleanup" => dead'[t] # Null,
           "handle" \notin ext' => \A t \in Threads : pc[t] \in {"idle", "cleanup"}
    PROVE  /\ IInv'
           /\ super_version' = Null /\ super_version # Null =>
                  \A t \in Threads : local_sv[t] # kSVInUse
<1> DEFINE n == super_version_number
           tear == cfd_refs = 2 /\ super_version # Null
           cached == {t \in Threads : local_sv[t] = super_version}
           left   == refs[super_version] - Cardinality(cached) - 1
<1>1. /\ n \in Nat /\ n \in SV /\ Cardinality(ext') \in Nat
      /\ Cardinality(Live(n, c)) \in Nat /\ IsFiniteSet(Live(n, c))
      /\ ext' \subseteq ExtRefs
      /\ Cardinality(ext') = 0 <=> ext' = {}
  BY Marks, ExtNat, LiveNat DEF IInv, TypeOK
<1>2. super_version # Null =>
          /\ super_version \in SV /\ super_version = n /\ super_version \notin c
          /\ super_version \in Live(n, c) /\ Cardinality(Live(n, c)) # 0
  <2> SUFFICES ASSUME super_version # Null
               PROVE  /\ super_version \in SV /\ super_version = n
                      /\ super_version \notin c /\ super_version \in Live(n, c)
                      /\ Cardinality(Live(n, c)) # 0
    OBVIOUS
  <2>1. super_version \in SV /\ super_version = n
    BY DEF IInv, TypeOK, InstallInv
  <2>2. super_version \notin c
    <3>1. refs[super_version] > 0 /\ refs[super_version] \in Nat
      BY ZenonT(30), <2>1, HeldHasRef DEF IInv
    <3>2. refs[super_version] # 0  BY ONLY <3>1
    <3> QED  BY <3>2, ZenonT(30)
  <2>3. super_version \in Live(n, c)
    BY ONLY <2>1, <2>2, <1>1, SMTT(30), ZenonT(30) DEF Live, SV
  <2> QED  BY ONLY <2>1, <2>2, <2>3, <1>1, FS_EmptySet, SMTT(30), ZenonT(30)
<1>3. tear => /\ super_version' = Null
              /\ local_sv' = [t \in Threads |-> kSVObsolete]
              /\ refs' = [refs EXCEPT ![super_version] = left]
              /\ cleaned' = IF left = 0 THEN c \cup {super_version} ELSE c
              /\ cfd_refs' = IF left = 0 THEN 0 ELSE 1
              /\ ext' = {} /\ Cardinality(Live(n, c)) = 1
  <2> SUFFICES ASSUME tear
               PROVE  /\ super_version' = Null
                      /\ local_sv' = [t \in Threads |-> kSVObsolete]
                      /\ refs' = [refs EXCEPT ![super_version] = left]
                      /\ cleaned' = IF left = 0 THEN c \cup {super_version} ELSE c
                      /\ cfd_refs' = IF left = 0 THEN 0 ELSE 1
                      /\ ext' = {} /\ Cardinality(Live(n, c)) = 1
    BY ZenonT(30)
  <2> DEFINE e == Cardinality(ext')  l == Cardinality(Live(n, c))
  <2>1. e \in Nat /\ l \in Nat /\ l # 0 /\ e + l = cfd_refs - 1 /\ cfd_refs = 2
    BY <1>1, <1>2
  <2> HIDE DEF e, l
  <2>2. e = 0 /\ l = 1  BY ONLY <2>1
  <2>3. ext' = {} /\ Cardinality(Live(n, c)) = 1  BY ONLY <2>2, <1>1 DEF e, l
  <2> QED  BY <2>3 DEF UnrefAndTryDelete
<1>4. ~tear => /\ super_version' = super_version /\ local_sv' = local_sv
               /\ refs' = refs /\ cleaned' = c /\ cfd_refs' = cfd_refs - 1
  BY DEF UnrefAndTryDelete
<1>5. tear => \A t \in Threads : /\ pc[t] \in {"idle", "cleanup"}
                                 /\ local_sv[t] # kSVInUse
  BY ZenonT(30), <1>3 DEF IInv, ReaderInv
<1>6. tear => /\ left \in Nat /\ left = Count(Pointer', super_version)
              /\ \A s \in SV \ {super_version} :
                     Count(Pointer', s) = Count(Pointer, s)
  BY ZenonT(30), <1>3, Detached
<1> HIDE DEF left, cached
<1>7. /\ cleaned' \subseteq 1 .. n /\ cleaned' \subseteq SV
      /\ cleaned' \subseteq c \cup {super_version} /\ c \subseteq cleaned'
  <2>1. \/ cleaned' = c
        \/ super_version # Null /\ cleaned' = c \cup {super_version}
    BY <1>3, <1>4, ZenonT(30)
  <2>2. super_version # Null => super_version \in 1 .. n /\ super_version \in SV
    BY ONLY <1>1, <1>2, SMTT(30), ZenonT(30) DEF SV
  <2> QED  BY ZenonT(30), <2>1, <2>2
<1>8. refs' \in [SV -> Nat] /\ \A s \in SV : refs[s] = 0 => refs'[s] = 0
  <2>1. CASE tear
    <3>1. refs[super_version] > 0 /\ refs[super_version] \in Nat
      BY ZenonT(30), <2>1, <1>2, HeldHasRef DEF IInv
    <3>2. left \in Nat  BY ONLY <2>1, <1>6
    <3>3. refs \in [SV -> Nat]  BY DEF IInv, TypeOK
    <3>4. refs' = [refs EXCEPT ![super_version] = left] /\ super_version \in SV
      BY ONLY <2>1, <1>2, <1>3
    <3> QED  BY ONLY <3>1, <3>2, <3>3, <3>4, SMTT(30), ZenonT(30)
  <2>2. CASE ~tear
    BY <2>2, <1>4 DEF IInv, TypeOK
  <2> QED  BY ONLY <2>1, <2>2
<1>9. cfd_refs' \in Nat
  <2>1. CASE tear  BY ONLY <2>1, <1>3, SMTT(30), ZenonT(30)
  <2>2. CASE ~tear
    <3> DEFINE e == Cardinality(ext')  l == Cardinality(Live(n, c))
    <3>1. e \in Nat /\ l \in Nat  BY ZenonT(30), <1>1
    <3>2. e + l = cfd_refs - 1  BY ZenonT(30)
    <3>3. cfd_refs' = cfd_refs - 1  BY ONLY <2>2, <1>4
    <3> HIDE DEF e, l
    <3> QED  BY ONLY <3>1, <3>2, <3>3, SMTT(30)
  <2> QED  BY ZenonT(30), <2>1, <2>2
<1>10. super_version' \in {super_version, Null} /\ \A t \in Threads :
           local_sv'[t] = local_sv[t] \/ local_sv'[t] = Null
  <2>1. CASE tear  BY ONLY <2>1, <1>3, Marks
  <2>2. CASE ~tear  BY ONLY <2>2, <1>4
  <2> QED  BY ONLY <2>1, <2>2
<1>11. TypeOK'
  <2>1. super_version' \in SV \cup {Null}  BY ZenonT(30), <1>10 DEF IInv, TypeOK
  <2>2. local_sv' \in [Threads -> SV \cup {kSVInUse, kSVObsolete}]
    <3>1. local_sv \in [Threads -> SV \cup {kSVInUse, kSVObsolete}]
      BY DEF IInv, TypeOK
    <3>2. CASE tear  BY ONLY <3>2, <1>3
    <3>3. CASE ~tear  BY ONLY <3>1, <3>3, <1>4
    <3> QED  BY ZenonT(30), <3>2, <3>3
  <2> QED  BY ZenonT(30), <2>1, <2>2, <1>1, <1>7, <1>8, <1>9 DEF IInv, TypeOK
<1>12. RefsCountHolders'
  <2>1. CASE tear
    <3>1. ASSUME NEW s \in SV PROVE refs'[s] = Count(Pointer', s)
      <4>1. CASE s = super_version
        BY ZenonT(30), <4>1, <2>1, <1>2, <1>3, <1>6 DEF IInv, TypeOK
      <4>2. CASE s # super_version
        BY ZenonT(30), <4>2, <2>1, <1>3, <1>6, RefsAreCounts DEF IInv, TypeOK
      <4> QED  BY ONLY <4>1, <4>2
    <3> QED  BY ONLY <3>1, RefsAreCountsNext
  <2>2. CASE ~tear
    <3>1. Pointer' = Pointer  BY ZenonT(30), <2>2, <1>4 DEF Pointer
    <3> QED  BY ZenonT(30), <2>2, <3>1, <1>4, RefsAreCounts, RefsAreCountsNext DEF IInv
  <2> QED  BY ONLY <2>1, <2>2
<1>13. SlotNeverLastRef'
  <2>1. CASE tear
    <3>1. \A t \in Threads : local_sv'[t] \notin SV  BY ONLY <2>1, <1>3, Marks
    <3>2. \A t \in Threads : scraped'[t] \notin SV
      BY Marks DEF IInv, InstallInv
    <3> QED  BY ONLY <3>1, <3>2 DEF SlotNeverLastRef
  <2>2. CASE ~tear
    BY <2>2, <1>4 DEF IInv, SlotNeverLastRef
  <2> QED  BY ONLY <2>1, <2>2
<1>14. CfdOutlivesSuperVersions'
  <2>1. CASE tear
    <3>1. Cardinality(Live(n, c \cup {super_version})) = 0
      BY ONLY <2>1, <1>1, <1>2, <1>3, LiveRemove, SMTT(30), ZenonT(30)
    <3>2. Cardinality(ext') = 0  BY ONLY <2>1, <1>1, <1>3, SMTT(30), ZenonT(30)
    <3>3. super_version_number' = super_version_number  OBVIOUS
    <3> QED  BY ONLY <2>1, <3>1, <3>2, <3>3, <1>1, <1>3, CfdRefsAreNext, SMTT(30), ZenonT(30)
  <2>2. CASE ~tear
    BY <2>2, <1>4, CfdRefsAreNext
  <2> QED  BY ONLY <2>1, <2>2
<1>15. ReaderInv'
  <2>1. \A t \in Threads : pc'[t] \notin {"idle", "cleanup"} =>
                               pc'[t] = pc[t] /\ "handle" \in ext'
    OBVIOUS
  <2>2. \A t \in Threads : local_sv'[t] = kSVInUse => local_sv[t] = kSVInUse
    BY ONLY <1>10, Marks
  <2> QED  BY <2>1, <2>2 DEF IInv, ReaderInv
<1>16. MarkInv'
  <2>1. CASE tear
    <3>1. \A t \in Threads : local_sv'[t] # kSVInUse
      BY ONLY <2>1, <1>3, Marks
    <3>2. old' = Null  OBVIOUS
    <3> QED  BY ONLY <3>1, <3>2 DEF MarkInv
  <2>2. CASE ~tear
    BY <2>2, <1>4 DEF IInv, MarkInv
  <2> QED  BY ONLY <2>1, <2>2
<1>17. InstallInv'
  <2>1. super_version' = Null => ext' = {}
    BY <1>3, <1>4 DEF IInv, InstallInv
  <2>2. super_version' # Null => super_version' = super_version
    BY ONLY <1>10
  <2> QED  BY <2>1, <2>2 DEF IInv, InstallInv
<1>18. ZeroInv'
  <2>1. ASSUME NEW s \in SV, s \in cleaned' \/ s > n PROVE refs'[s] = 0
    <3>1. CASE s \in c \/ s > n
      BY <3>1, <1>8 DEF IInv, ZeroInv
    <3>2. CASE s \notin c /\ s \in cleaned'
      <4>1. tear /\ s = super_version /\ left = 0
        BY ONLY <3>2, <1>3, <1>4
      <4> QED  BY <4>1, <1>2, <1>3 DEF IInv, TypeOK
    <3> QED  BY ONLY <3>1, <3>2, <2>1
  <2>2. ASSUME NEW t \in Threads, dead'[t] # Null
        PROVE  /\ dead'[t] = dead[t] /\ refs'[dead'[t]] = 0
               /\ dead'[t] \notin cleaned' /\ dead'[t] <= n
    <3>1. /\ dead'[t] = dead[t] /\ dead[t] \in SV /\ dead[t] \notin c
          /\ refs[dead[t]] = 0 /\ dead[t] <= n
      BY ZenonT(30), <2>2 DEF IInv, TypeOK, ZeroInv
    <3>2. super_version # Null => dead[t] # super_version
      <4> SUFFICES ASSUME super_version # Null, dead[t] = super_version
                   PROVE  FALSE
        OBVIOUS
      <4>1. refs[super_version] > 0  BY <1>2, HeldHasRef DEF IInv
      <4>2. refs[super_version] = 0  BY <3>1, ZenonT(30)
      <4> QED  BY ONLY <4>1, <4>2, SMTT(30), ZenonT(30)
    <3>3. dead[t] \notin cleaned'
      <4>1. CASE tear  BY ZenonT(30), <4>1, <3>1, <3>2, <1>7
      <4>2. CASE ~tear  BY ONLY <4>2, <3>1, <1>4
      <4> QED  BY ONLY <4>1, <4>2
    <3> QED  BY ZenonT(30), <3>1, <3>3, <1>8
  <2>3. \A t, u \in Threads : dead'[t] = dead'[u] /\ dead'[t] # Null => t = u
    <3>1. \A t, u \in Threads : dead[t] = dead[u] /\ dead[t] # Null => t = u
      BY ZenonT(30) DEF IInv, ZeroInv
    <3> QED  BY ONLY <3>1, <2>2, SMTT(30), ZenonT(30)
  <2> QED  BY <2>1, <2>2, <2>3, <1>7 DEF ZeroInv
<1>19. SeenInv' /\ ReadIsFresh'
  BY DEF IInv, SeenInv, ReadIsFresh
<1>20. super_version' = Null /\ super_version # Null =>
           \A t \in Threads : local_sv[t] # kSVInUse
  BY ONLY <1>4, <1>5
<1> QED  BY ONLY <1>11, <1>12, <1>13, <1>14, <1>15, <1>16, <1>17, <1>18, <1>19, <1>20
         DEF IInv

\* CleanupDead, a reader's Cleanup of the SuperVersion it was the last to
\* hold, preserves the invariant, whether or not it ends the column family.
LEMMA CleanupDeadIInv ==
    ASSUME IInv, NEW t \in Threads, CleanupDead(t)
    PROVE  /\ IInv'
           /\ super_version' = Null /\ super_version # Null =>
                  \A u \in Threads : local_sv[u] # kSVInUse
<1> DEFINE n == super_version_number
           d == dead[t]
           c == cleaned \cup {d}
<1>1. /\ d \in SV /\ refs[d] = 0 /\ d \notin cleaned /\ d <= n /\ n \in Nat
      /\ d \in Nat /\ d > 0
  <2>1. d # Null /\ d \in SV /\ n \in Nat  BY Marks DEF IInv, TypeOK, ReaderInv, CleanupDead
  <2>2. refs[d] = 0 /\ d \notin cleaned /\ d <= n  BY <2>1, ZenonT(30) DEF IInv, ZeroInv
  <2> QED  BY ONLY <2>1, <2>2 DEF SV
<1>2. /\ cleaned \subseteq c /\ c \subseteq 1 .. n /\ c \subseteq SV
      /\ \A s \in c : refs[s] = 0
  <2>1. cleaned \subseteq 1 .. n /\ d \in 1 .. n
    BY <1>1 DEF IInv, ZeroInv
  <2> QED  BY <2>1, <1>1 DEF IInv, TypeOK, ZeroInv
<1>3. Cardinality(ext') + Cardinality(Live(n, c)) = cfd_refs - 1
  <2>1. ext' = ext  BY DEF CleanupDead
  <2>2. d \in Live(n, cleaned)  BY ONLY <1>1 DEF Live
  <2>3. Cardinality(Live(n, c)) = Cardinality(Live(n, cleaned)) - 1
    BY ONLY <1>1, <2>2, LiveRemove
  <2>4. cfd_refs = Cardinality(ext) + Cardinality(Live(n, cleaned))
    BY CfdRefsAre DEF IInv
  <2>5. Cardinality(ext) \in Nat /\ Cardinality(Live(n, cleaned)) \in Nat
    BY <1>1, ExtNat, LiveNat DEF IInv, TypeOK
  <2> QED  BY ONLY <2>1, <2>3, <2>4, <2>5
<1>4. /\ dead' = [dead EXCEPT ![t] = Null]
      /\ pc' = [pc EXCEPT ![t] = "idle"] /\ pc[t] = "cleanup" /\ old = Null
      /\ UnrefAndTryDelete(refs, c)
      /\ UNCHANGED <<super_version_number, ext, sv, iter, seen, old, todo, scraped>>
  BY DEF CleanupDead, Cleanup, MutexFree, installVars
<1>5. /\ dead' \in [Threads -> SV \cup {Null}]
      /\ pc' \in [Threads -> {"idle", "swapped", "stale", "lock", "use", "refd",
                              "discard", "release", "cleanup"}]
  BY <1>4 DEF IInv, TypeOK
<1>6. \A u \in Threads : dead'[u] # Null => dead'[u] = dead[u] /\ dead[u] \notin c
  BY <1>4 DEF IInv, TypeOK, ZeroInv
<1>7. \A u \in Threads : /\ \/ pc'[u] = pc[u]
                            \/ pc[u] = "cleanup" /\ pc'[u] = "idle"
                         /\ pc'[u] = "cleanup" => dead'[u] # Null
  BY <1>4 DEF IInv, TypeOK, ReaderInv
<1>8. "handle" \notin ext' => \A u \in Threads : pc[u] \in {"idle", "cleanup"}
  BY <1>4 DEF IInv, ReaderInv
<1> HIDE DEF c
<1> QED  BY <1>2, <1>3, <1>4, <1>5, <1>6, <1>7, <1>8, TryDelete

\* ReleaseExt, by which the set, a handle or a job lets go of the column
\* family, preserves the invariant, whether or not it ends the column family.
LEMMA ReleaseExtIInv ==
    ASSUME IInv, NEW x \in ExtRefs, ReleaseExt(x)
    PROVE  /\ IInv'
           /\ super_version' = Null /\ super_version # Null =>
                  \A u \in Threads : local_sv[u] # kSVInUse
<1> DEFINE n == super_version_number
<1>1. /\ cleaned \subseteq 1 .. n /\ cleaned \subseteq SV
      /\ \A s \in cleaned : refs[s] = 0
  BY DEF IInv, TypeOK, ZeroInv
<1>2. /\ x \in ext /\ ext' = ext \ {x} /\ old = Null
      /\ UnrefAndTryDelete(refs, cleaned)
      /\ UNCHANGED <<super_version_number, pc, sv, dead, iter, seen,
                     old, todo, scraped>>
      /\ x = "handle" => \A t \in Threads : pc[t] \in {"idle", "cleanup"}
  BY DEF ReleaseExt, MutexFree, readerVars, installVars
<1>3. Cardinality(ext') + Cardinality(Live(n, cleaned)) = cfd_refs - 1
  <2>1. Cardinality(ext') = Cardinality(ext) - 1
    BY <1>2, ExtNat, FS_RemoveElement DEF IInv, TypeOK
  <2>2. cfd_refs = Cardinality(ext) + Cardinality(Live(n, cleaned))
    BY CfdRefsAre DEF IInv
  <2>3. n \in Nat  BY Marks DEF IInv, TypeOK
  <2>4. Cardinality(ext) \in Nat /\ Cardinality(Live(n, cleaned)) \in Nat
    BY <2>3, ExtNat, LiveNat DEF IInv, TypeOK
  <2> QED  BY ONLY <2>1, <2>2, <2>4
<1>4. /\ dead' \in [Threads -> SV \cup {Null}]
      /\ pc' \in [Threads -> {"idle", "swapped", "stale", "lock", "use", "refd",
                              "discard", "release", "cleanup"}]
  BY <1>2 DEF IInv, TypeOK
<1>5. \A u \in Threads : /\ dead'[u] # Null => dead'[u] = dead[u] /\ dead[u] \notin cleaned
                         /\ pc'[u] = "cleanup" => dead'[u] # Null
  BY <1>2 DEF IInv, ZeroInv, ReaderInv
<1>6. "handle" \notin ext' => \A u \in Threads : pc[u] \in {"idle", "cleanup"}
  BY <1>2 DEF IInv, ReaderInv
<1> QED  BY <1>1, <1>2, <1>3, <1>4, <1>5, <1>6, TryDelete

-----------------------------------------------------------------------------
(* The theorems. *)

\* Every step, stuttering included, preserves the invariant, and super_version_
\* is detached (by UnrefAndTryDelete) only while no slot is marked.
LEMMA NextIInv ==
    ASSUME IInv, [Next]_vars
    PROVE  /\ IInv'
           /\ super_version' = Null /\ super_version # Null =>
                  \A t \in Threads : local_sv[t] # kSVInUse
<1> DEFINE Calm == super_version' = Null /\ super_version # Null =>
                       \A t \in Threads : local_sv[t] # kSVInUse
<1>1. ASSUME NEW t \in Threads, Swap(t) PROVE IInv' /\ Calm
  BY <1>1, SwapIInv DEF Swap, cfdVars
<1>2. ASSUME NEW t \in Threads, CheckNumber(t) PROVE IInv' /\ Calm
  BY <1>2, CheckNumberIInv DEF CheckNumber, cfdVars
<1>3. ASSUME NEW t \in Threads, DropStale(t) PROVE IInv' /\ Calm
  BY <1>3, DropStaleIInv DEF DropStale, cfdVars
<1>4. ASSUME NEW t \in Threads, AcquireCurrent(t) PROVE IInv' /\ Calm
  <2>1. IInv'  BY <1>4, AcquireCurrentIInv
  <2>2. sv'[t] # Null /\ "handle" \in ext'
    <3>1. pc'[t] = "use"  BY <1>4 DEF AcquireCurrent, IInv, TypeOK
    <3> QED  BY ONLY <2>1, <3>1 DEF IInv, ReaderInv
  <2>3. super_version' # Null  BY ONLY <2>1, <2>2 DEF IInv, InstallInv
  <2> QED  BY ONLY <2>1, <2>3
<1>5. ASSUME NEW t \in Threads, ReturnAndCleanup(t) PROVE IInv' /\ Calm
  BY <1>5, ReturnAndCleanupIInv DEF ReturnAndCleanup, cfdVars
<1>6. ASSUME NEW t \in Threads, Release(t) PROVE IInv' /\ Calm
  BY <1>6, ReleaseIInv DEF Release, cfdVars
<1>7. ASSUME NEW t \in Threads, CleanupDead(t) PROVE IInv' /\ Calm
  BY <1>7, CleanupDeadIInv
<1>8. ASSUME NEW t \in Threads, RefForIterator(t) PROVE IInv' /\ Calm
  BY <1>8, RefForIteratorIInv DEF RefForIterator, cfdVars
<1>9. ASSUME NEW t \in Threads, ReturnReferenced(t) PROVE IInv' /\ Calm
  BY <1>9, ReturnReferencedIInv DEF ReturnReferenced, cfdVars
<1>10. ASSUME NEW t \in Threads, DiscardCached(t) PROVE IInv' /\ Calm
  BY <1>10, DiscardCachedIInv DEF DiscardCached, cfdVars
<1>11. ASSUME NEW t \in Threads, DeleteIterator(t) PROVE IInv' /\ Calm
  BY <1>11, DeleteIteratorIInv DEF DeleteIterator, cfdVars
<1>12. ASSUME NEW t \in Threads, OnThreadExit(t) PROVE IInv' /\ Calm
  BY <1>12, OnThreadExitIInv DEF OnThreadExit, cfdVars
<1>13. ASSUME InstallPublish PROVE IInv' /\ Calm
  <2>1. IInv'  BY <1>13, InstallPublishIInv
  <2>2. super_version' \in SV
    BY ONLY <1>13, <2>1 DEF InstallPublish, IInv, TypeOK
  <2> QED  BY ONLY <2>1, <2>2, Marks
<1>14. ASSUME NEW t \in Threads, ScrapeOne(t) PROVE IInv' /\ Calm
  BY <1>14, ScrapeOneIInv DEF ScrapeOne, cfdVars
<1>15. ASSUME NEW t \in Threads, UnrefScraped(t) PROVE IInv' /\ Calm
  BY <1>15, UnrefScrapedIInv DEF UnrefScraped, cfdVars
<1>16. ASSUME InstallFinish PROVE IInv' /\ Calm
  <2>1. IInv'  BY <1>16, InstallFinishIInv
  <2>2. "job" \in ext'
    BY <1>16 DEF InstallFinish, IInv, InstallInv, cfdVars
  <2> QED  BY ONLY <2>1, <2>2 DEF IInv, InstallInv
<1>17. ASSUME JobStart PROVE IInv' /\ Calm
  BY <1>17, JobStartIInv DEF JobStart
<1>18. ASSUME NEW x \in ExtRefs, ReleaseExt(x) PROVE IInv' /\ Calm
  BY <1>18, ReleaseExtIInv
<1>19. ASSUME UNCHANGED vars PROVE IInv' /\ Calm
  <2>1. IInv'
    <3>1. Pointer' = Pointer  BY ONLY <1>19 DEF vars, Pointer
    <3>2. RefsCountHolders'
      BY <1>19, <3>1, RefsAreCounts, RefsAreCountsNext DEF vars, IInv
    <3> QED  BY <1>19, <3>2 DEF vars, IInv, TypeOK, SlotNeverLastRef,
             CfdOutlivesSuperVersions, ReaderInv, MarkInv, InstallInv, ZeroInv,
             SeenInv, ReadIsFresh
  <2> QED  BY ONLY <2>1, <1>19 DEF vars
<1> HIDE DEF Calm
<1>20. ASSUME NEW t \in Threads, Read(t) PROVE IInv' /\ Calm
  BY <1>20, <1>2, <1>3, <1>4, <1>5, <1>6, <1>7, <1>9, <1>10, ZenonT(30) DEF Read
<1>21. ASSUME NEW t \in Threads, \/ Swap(t) \/ Read(t) \/ RefForIterator(t)
                                 \/ DeleteIterator(t) \/ OnThreadExit(t)
       PROVE  IInv' /\ Calm
  BY <1>21, <1>1, <1>8, <1>11, <1>12, <1>20, ZenonT(30)
<1>22. ASSUME Install PROVE IInv' /\ Calm
  BY <1>22, <1>14, <1>15, <1>16, ZenonT(30) DEF Install
<1>23. ASSUME Next PROVE IInv' /\ Calm
  BY <1>23, <1>13, <1>17, <1>18, <1>21, <1>22, ZenonT(30) DEF Next
<1> QED  BY <1>19, <1>23 DEF Calm

\* The inductive invariant holds in every behaviour.
THEOREM Invariance == Spec => []IInv
<1>1. Init => IInv  BY ONLY InitIInv
<1>2. IInv /\ [Next]_vars => IInv'  BY ONLY NextIInv
<1> QED  BY <1>1, <1>2, PTL DEF Spec

\* Every variable keeps its type; in particular no refcount (SuperVersion::refs,
\* ColumnFamilyData::refs_) goes below zero.
THEOREM TypeCorrect == Spec => []TypeOK
<1>1. IInv => TypeOK  BY DEF IInv
<1> QED  BY <1>1, Invariance, PTL

\* For any number of readers, refs of every SuperVersion is the number of its
\* holders: the lock-free cache neither leaks nor double-drops a reference.
THEOREM RefsCounted == Spec => []RefsCountHolders
<1>1. IInv => RefsCountHolders  BY DEF IInv
<1> QED  BY <1>1, Invariance, PTL

\* No read, iterator, slot, install or cfd ever points to a SuperVersion on
\* which Cleanup has run.
THEOREM NothingFreedInUse == Spec => []NoUseAfterCleanup
<1>1. IInv => NoUseAfterCleanup
  <2> SUFFICES ASSUME IInv, NEW s \in cleaned PROVE Holders(s) = {}
    BY DEF NoUseAfterCleanup
  <2>1. s \in SV /\ refs[s] = 0  BY DEF IInv, TypeOK, ZeroInv
  <2>2. Count(Pointer, s) = 0  BY <2>1, RefsAreCounts DEF IInv
  <2> QED  BY ONLY <2>2, CountNat DEF Holders
<1> QED  BY <1>1, Invariance, PTL

\* What a thread-local slot caches, or a scrape collected, is never the last
\* reference: the asserts in SuperVersionUnrefHandle and
\* ResetThreadLocalSuperVersions cannot fire.
THEOREM SlotsNeverLast == Spec => []SlotNeverLastRef
<1>1. IInv => SlotNeverLastRef  BY DEF IInv
<1> QED  BY <1>1, Invariance, PTL

\* A read never works on a SuperVersion older than the one that was current
\* when it exchanged its slot in GetThreadLocalSuperVersion.
THEOREM ReadsAreFresh == Spec => []ReadIsFresh
<1>1. IInv => ReadIsFresh  BY DEF IInv
<1> QED  BY <1>1, Invariance, PTL

\* refs_ of the ColumnFamilyData counts its external holders and the
\* SuperVersions not yet cleaned up, so it is deleted after the last of them.
THEOREM CfdOutlives == Spec => []CfdOutlivesSuperVersions
<1>1. IInv => CfdOutlivesSuperVersions  BY DEF IInv
<1> QED  BY <1>1, Invariance, PTL

\* When UnrefAndTryDelete reclaims the thread-local slots, none carries the
\* kSVInUse mark, which SuperVersionUnrefHandle would take for a pointer.
THEOREM TeardownSafe == Spec => TeardownFindsNoMark
<1> DEFINE Calm == super_version' = Null /\ super_version # Null =>
                       \A t \in Threads : local_sv[t] # kSVInUse
<1>1. IInv /\ [Next]_vars => Calm  BY ONLY NextIInv
<1>2. IInv /\ [Next]_vars => [Calm]_vars  BY ONLY <1>1
<1> QED  BY <1>2, Invariance, PTL DEF Spec, TeardownFindsNoMark
=============================================================================
