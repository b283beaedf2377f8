------------------------- MODULE CompileCacheProofs -------------------------
(***************************************************************************)
(* Proofs about CompileCache, for any number of callers, requests and      *)
(* directories and any size of the cache.                                  *)
(***************************************************************************)
EXTENDS CompileCache, CommonLemmas, FiniteSetTheorems

\* _key() of a request is the request itself: language and source.
LEMMA KeyOfRequest ==
  ASSUME NEW r \in Requests
  PROVE  CacheKey(r) \in Keys /\ CacheKey(r) = r
  BY ConstantsAssumption DEF CacheKey, Keys

\* What the map holds for a key: a directory or none, a count, an age.
LEMMA EntryFacts ==
  ASSUME TypeOK, NEW k \in Keys
  PROVE  /\ entries[k] \in Entry /\ entries[k].refs \in Nat /\ lost \in Nat
         /\ entries[k].dir \in Dirs \cup {NoDir}
         /\ entries[k] = [dir |-> entries[k].dir, refs |-> entries[k].refs,
                          stale |-> entries[k].stale]
<1>1. entries[k] \in Entry /\ lost \in Nat
  BY DEF TypeOK
<1> QED
  BY <1>1 DEF Entry

\* move_to_end: the order keeps its elements, k becomes one of them.
LEMMA TouchedFacts ==
  ASSUME TypeOK, OrderSound, NEW k \in Keys
  PROVE  /\ Touched(lru, k) \in Seq(Keys) /\ IsInjective(Touched(lru, k))
         /\ ToSet(Touched(lru, k)) = ToSet(lru) \cup {k}
         /\ Len(Touched(lru, k)) = IF Mapped(k) THEN Len(lru) ELSE Len(lru) + 1
<1> DEFINE q == RemoveFirst(lru, k)
<1>1. lru \in Seq(Keys) /\ IsInjective(lru) /\ Len(lru) \in Nat
  BY LenProperties DEF TypeOK, OrderSound
<1>2. /\ q \in Seq(Keys) /\ IsInjective(q) /\ ToSet(q) = ToSet(lru) \ {k}
      /\ Len(q) = IF k \in ToSet(lru) THEN Len(lru) - 1 ELSE Len(lru)
  BY <1>1, RemoveFirstElements
<1> HIDE DEF q
<1>3. /\ Append(q, k) \in Seq(Keys) /\ IsInjective(Append(q, k))
      /\ ToSet(Append(q, k)) = ToSet(q) \cup {k}
      /\ Len(Append(q, k)) = Len(q) + 1
  BY <1>2, AppendElements
<1>4. k \in ToSet(lru) <=> Mapped(k)
  BY DEF OrderSound
<1> QED
  BY <1>1, <1>2, <1>3, <1>4 DEF Touched, q

\* Eviction: the newest MaxEntries keys stay, the oldest go.
LEMMA NewestFacts ==
  ASSUME NEW q \in Seq(Keys), IsInjective(q)
  PROVE  /\ Newest(q) \in Seq(Keys) /\ IsInjective(Newest(q))
         /\ Len(Newest(q)) <= MaxEntries
         /\ ToSet(Newest(q)) = ToSet(q) \ Oldest(q)
         /\ Oldest(q) \in SUBSET Keys
<1> DEFINE n == Excess(q)
           r == SubSeq(q, n + 1, Len(q))
<1>1. Len(q) \in Nat /\ MaxEntries \in Nat
  BY LenProperties, ConstantsAssumption
<1>2. n \in 0..Len(q) /\ Len(q) - n <= MaxEntries
  BY <1>1 DEF Excess
<1>3. Newest(q) = r /\ Oldest(q) = {q[i] : i \in 1..n}
  BY DEF Newest, Oldest
<1> HIDE DEF n, r
<1>4. /\ r \in Seq(Keys) /\ IsInjective(r) /\ Len(r) = Len(q) - n
      /\ ToSet(r) = ToSet(q) \ {q[i] : i \in 1..n}
  BY <1>2, DropFrontElements DEF r
<1>5. \A i \in 1..n : q[i] \in Keys
  <2> TAKE i \in 1..n
  <2>1. i \in 1..Len(q)
    BY <1>1, <1>2
  <2> QED
    BY <2>1, ElementOfSeq
<1>6. Len(r) <= MaxEntries
  BY <1>1, <1>2, <1>4
<1>7. ToSet(r) = ToSet(q) \ Oldest(q) /\ Oldest(q) \in SUBSET Keys
  BY <1>3, <1>4, <1>5
<1> QED
  BY <1>3, <1>4, <1>6, <1>7

\* Finitely many tasks will release a key.
LEMMA HoldersFinite ==
  ASSUME NEW k
  PROVE  IsFiniteSet(Holders(k)) /\ Cardinality(Holders(k)) \in Nat
<1>1. Holders(k) \in SUBSET Tasks
  BY DEF Holders
<1> QED
  BY <1>1, ConstantsAssumption, FS_Subset, FS_CardinalityType

-----------------------------------------------------------------------------
(***************************************************************************)
(* What the steps of a caller do to the holders of a key.                  *)
(***************************************************************************)

\* compile_once() returns to the caller.
LEMMA ReturnFacts ==
  ASSUME TypeOK, TaskSound, NEW t \in Tasks, phase[t] # "holding",
         NEW r \in Requests, NEW d \in Dirs \cup {NoDir},
         Return(t, r, r, d)
  PROVE  /\ TaskSound'
         /\ phase' \in [Tasks -> {"idle", "compiling", "holding"}]
         /\ request' \in [Tasks -> Requests \cup {NoRequest}]
         /\ work' \in [Tasks -> Requests \cup {NoRequest}]
         /\ source' \in [Tasks -> Dirs \cup {NoDir}]
         /\ lost' = lost
         /\ \A k \in Keys : Holders(k)' = IF k = CacheKey(r) THEN Holders(k) \cup {t}
                                                            ELSE Holders(k)
         /\ t \notin Holders(CacheKey(r))
<1>1. /\ phase' \in [Tasks -> {"idle", "compiling", "holding"}]
      /\ request' \in [Tasks -> Requests \cup {NoRequest}]
      /\ work' \in [Tasks -> Requests \cup {NoRequest}]
      /\ source' \in [Tasks -> Dirs \cup {NoDir}]
      /\ lost' = lost
  BY DEF Return, TypeOK
<1>2. /\ phase'[t] = "holding" /\ request'[t] = r /\ work'[t] = r
      /\ \A u \in Tasks \ {t} : phase'[u] = phase[u] /\ request'[u] = request[u] /\ work'[u] = work[u]
  BY DEF Return, TypeOK
<1>3. TaskSound'
  BY <1>2, ConstantsAssumption DEF TaskSound
<1>4. \A k \in Keys : Holders(k)' = IF k = CacheKey(r) THEN Holders(k) \cup {t} ELSE Holders(k)
  BY <1>2 DEF Holders
<1>5. t \notin Holders(CacheKey(r))
  BY DEF Holders
<1> QED
  BY <1>1, <1>3, <1>4, <1>5

\* compile_once() awaits the compiler.
LEMMA AwaitFacts ==
  ASSUME TypeOK, TaskSound, NEW t \in Tasks, phase[t] = "idle", NEW r \in Requests,
         AwaitCompiler(t, r)
  PROVE  /\ TaskSound'
         /\ phase' \in [Tasks -> {"idle", "compiling", "holding"}]
         /\ request' \in [Tasks -> Requests \cup {NoRequest}]
         /\ UNCHANGED <<work, source, lost>>
         /\ \A k \in Keys : Holders(k)' = Holders(k)
<1>1. /\ phase' \in [Tasks -> {"idle", "compiling", "holding"}]
      /\ request' \in [Tasks -> Requests \cup {NoRequest}]
      /\ UNCHANGED <<work, source, lost>>
  BY DEF AwaitCompiler, TypeOK
<1>2. /\ phase'[t] = "compiling" /\ request'[t] = r /\ work'[t] = work[t]
      /\ \A u \in Tasks \ {t} : phase'[u] = phase[u] /\ request'[u] = request[u] /\ work'[u] = work[u]
  BY DEF AwaitCompiler, TypeOK
<1>3. TaskSound'
  BY <1>2, ConstantsAssumption DEF TaskSound
<1>4. \A k \in Keys : Holders(k)' = Holders(k)
  BY <1>2 DEF Holders
<1> QED
  BY <1>1, <1>3, <1>4

\* A step that changes no count and only adds holders.
LEMMA MoreHolders ==
  ASSUME IInv, UNCHANGED entries, lost' = lost,
         \A k \in Keys : Holders(k) \subseteq Holders(k)'
  PROVE  RefsAccounted'
<1> SUFFICES ASSUME NEW k \in Keys
             PROVE  entries[k].refs <= Cardinality(Holders(k)') + lost
  BY DEF RefsAccounted
<1>1. /\ entries[k].refs \in Nat /\ lost \in Nat
      /\ entries[k].refs <= Cardinality(Holders(k)) + lost
  BY DEF IInv, TypeOK, Entry, RefsAccounted
<1>2. IsFiniteSet(Holders(k)')
  <2>1. Holders(k)' \in SUBSET Tasks
    BY DEF Holders
  <2> QED
    BY <2>1, ConstantsAssumption, FS_Subset
<1>3. Cardinality(Holders(k)) <= Cardinality(Holders(k)')
  BY <1>2, FS_Subset
<1>4. Cardinality(Holders(k)) \in Nat /\ Cardinality(Holders(k)') \in Nat
  BY <1>2, HoldersFinite, FS_CardinalityType
<1> QED
  BY <1>1, <1>3, <1>4

\* A step that leaves the cache alone and only adds holders.
LEMMA CacheUntouched ==
  ASSUME IInv, UNCHANGED cacheVars, lost' = lost,
         \A k \in Keys : Holders(k) \subseteq Holders(k)'
  PROVE  EntrySound' /\ MappedOnDisk' /\ OrderSound' /\ RefsAccounted'
<1>1. EntrySound' /\ MappedOnDisk' /\ OrderSound'
  BY DEF IInv, cacheVars, EntrySound, MappedOnDisk, OrderSound, Mapped
<1>2. RefsAccounted'
  BY MoreHolders DEF cacheVars
<1> QED
  BY <1>1, <1>2

\* Interpret, KeepUncached: a return that leaves the cache alone.
LEMMA UncachedReturn ==
  ASSUME IInv, NEW t \in Tasks, phase[t] # "holding", NEW r \in Requests,
         Return(t, r, r, NoDir), UNCHANGED cacheVars
  PROVE  IInv'
<1>1. /\ TypeOK' /\ TaskSound' /\ lost' = lost
      /\ \A k \in Keys : Holders(k) \subseteq Holders(k)'
  BY ReturnFacts DEF IInv, TypeOK, cacheVars
<1> QED
  BY <1>1, CacheUntouched DEF IInv

\* An interpreted language never touches the cache.
LEMMA InterpretInvariant ==
  ASSUME IInv, NEW t \in Tasks, NEW r \in Requests, Interpret(t, r)
  PROVE  IInv'
  BY UncachedReturn DEF Interpret

\* Neither does a compilation that is not stored.
LEMMA KeepUncachedInvariant ==
  ASSUME IInv, NEW t \in Tasks, KeepUncached(t)
  PROVE  IInv'
<1>1. PICK r \in Requests : request[t] = r
  BY DEF KeepUncached, IInv, TypeOK, TaskSound
<1> QED
  BY <1>1, UncachedReturn DEF KeepUncached

\* A miss only starts the compiler.
LEMMA MissInvariant ==
  ASSUME IInv, NEW t \in Tasks, NEW r \in Requests, Miss(t, r)
  PROVE  IInv'
<1>1. /\ TypeOK' /\ TaskSound' /\ lost' = lost
      /\ \A k \in Keys : Holders(k) \subseteq Holders(k)'
  BY AwaitFacts DEF IInv, TypeOK, cacheVars, Miss
<1> QED
  BY <1>1, CacheUntouched DEF IInv, Miss

\* A compile error: the task holds nothing and releases nothing.
LEMMA CompileErrorInvariant ==
  ASSUME IInv, NEW t \in Tasks, CompileError(t)
  PROVE  IInv'
<1>1. TypeOK' /\ lost' = lost
  BY DEF IInv, TypeOK, CompileError, cacheVars
<1>2. /\ phase[t] = "compiling" /\ phase'[t] = "idle" /\ request'[t] = NoRequest
      /\ work' = work
      /\ \A u \in Tasks \ {t} : phase'[u] = phase[u] /\ request'[u] = request[u]
  BY DEF CompileError, IInv, TypeOK
<1>3. TaskSound'
  BY <1>2 DEF IInv, TaskSound
<1>4. \A k \in Keys : Holders(k) \subseteq Holders(k)'
  BY <1>2 DEF Holders
<1> QED
  BY <1>1, <1>3, <1>4, CacheUntouched DEF IInv, CompileError

-----------------------------------------------------------------------------
\* Hit and HitRaises take a ref, HitUnusable none in the end: what they do to
\* the map, when `refs` is the new count of the entry.
LEMMA TouchInvariant ==
  ASSUME IInv, NEW k \in Keys, Mapped(k), NEW n \in Nat,
         entries' = [entries EXCEPT ![k] = [entries[k] EXCEPT !.refs = n]],
         lru' = Touched(lru, k), UNCHANGED <<disk, content>>
  PROVE  /\ entries' \in [Keys -> Entry] /\ lru' \in Seq(Keys)
         /\ EntrySound' /\ MappedOnDisk' /\ OrderSound'
         /\ entries'[k].refs = n
         /\ \A j \in Keys \ {k} : entries'[j] = entries[j]
<1>1. /\ entries' \in [Keys -> Entry]
      /\ entries'[k].refs = n /\ entries'[k].dir = entries[k].dir
      /\ \A j \in Keys \ {k} : entries'[j] = entries[j]
  BY DEF IInv, TypeOK, Entry
<1>2. \A j \in Keys : entries'[j].dir = entries[j].dir /\ (Mapped(j)' <=> Mapped(j))
  BY <1>1 DEF Mapped
<1>3. EntrySound'
  <2> SUFFICES ASSUME NEW j \in Keys
               PROVE  IF Mapped(j)
                      THEN content[entries[j].dir] \in Requests /\ CacheKey(content[entries[j].dir]) = j
                      ELSE entries'[j] = NoEntry
    BY <1>2 DEF EntrySound
  <2> QED
    BY <1>1 DEF IInv, EntrySound
<1>4. MappedOnDisk'
  BY <1>2 DEF IInv, MappedOnDisk
<1>5. lru' \in Seq(Keys) /\ OrderSound'
  <2>1. /\ lru' \in Seq(Keys) /\ IsInjective(lru') /\ ToSet(lru') = ToSet(lru) \cup {k}
        /\ Len(lru') = Len(lru)
    BY TouchedFacts DEF IInv
  <2>2. ToSet(lru') = {j \in Keys : Mapped(j)'}
    BY <2>1, <1>2 DEF IInv, OrderSound
  <2> QED
    BY <2>1, <2>2 DEF IInv, OrderSound
<1> QED
  BY <1>1, <1>3, <1>4, <1>5

\* A hit takes one ref for one new holder of the key.
LEMMA HitInvariant ==
  ASSUME IInv, NEW t \in Tasks, NEW r \in Requests, Hit(t, r)
  PROVE  IInv'
<1> DEFINE k == CacheKey(r)
           n == entries[k].refs + 1
<1>1. k \in Keys /\ Mapped(k) /\ entries[k].refs \in Nat /\ n \in Nat
      /\ entries[k].dir \in Dirs /\ lost \in Nat
  <2>1. k \in Keys /\ Mapped(k)
    BY KeyOfRequest DEF Hit, Servable
  <2>2. entries[k].refs \in Nat /\ lost \in Nat /\ entries[k].dir \in Dirs
    BY <2>1, EntryFacts DEF IInv, Mapped
  <2>3. n \in Nat
    BY <2>2
  <2> QED
    BY <2>1, <2>2, <2>3
<1>2. content[entries[k].dir] = r
  BY <1>1, KeyOfRequest DEF IInv, EntrySound
<1>3. entries' = [entries EXCEPT ![k] = [entries[k] EXCEPT !.refs = n]]
  BY <1>1 DEF Hit, RefTaken, IInv, TypeOK, Entry
<1>4. /\ entries' \in [Keys -> Entry] /\ lru' \in Seq(Keys)
      /\ EntrySound' /\ MappedOnDisk' /\ OrderSound'
      /\ entries'[k].refs = n
      /\ \A j \in Keys \ {k} : entries'[j] = entries[j]
  BY <1>1, <1>3, TouchInvariant DEF Hit
<1>5. /\ Return(t, r, r, entries[k].dir)
      /\ phase[t] # "holding"
  BY <1>2 DEF Hit
<1>6. /\ TaskSound' /\ lost' = lost
      /\ \A j \in Keys : Holders(j)' = IF j = k THEN Holders(j) \cup {t} ELSE Holders(j)
      /\ t \notin Holders(k)
      /\ TypeOK'
  <2>1. /\ TaskSound' /\ lost' = lost
        /\ phase' \in [Tasks -> {"idle", "compiling", "holding"}]
        /\ request' \in [Tasks -> Requests \cup {NoRequest}]
        /\ work' \in [Tasks -> Requests \cup {NoRequest}]
        /\ source' \in [Tasks -> Dirs \cup {NoDir}]
        /\ \A j \in Keys : Holders(j)' = IF j = k THEN Holders(j) \cup {t} ELSE Holders(j)
        /\ t \notin Holders(k)
    BY <1>1, <1>5, ReturnFacts DEF IInv
  <2>2. TypeOK'
    BY <1>1, <1>4, <2>1 DEF IInv, TypeOK, Hit
  <2> QED
    BY <2>1, <2>2
<1>7. RefsAccounted'
  <2> SUFFICES ASSUME NEW j \in Keys
               PROVE  entries'[j].refs <= Cardinality(Holders(j)') + lost
    BY <1>6 DEF RefsAccounted
  <2>1. entries[j].refs <= Cardinality(Holders(j)) + lost
    BY DEF IInv, RefsAccounted
  <2>2. CASE j # k
    <3>1. entries'[j] = entries[j] /\ Holders(j)' = Holders(j)
      BY <2>2, <1>4, <1>6
    <3> QED
      BY <2>1, <3>1
  <2>3. CASE j = k
    <3>1. Cardinality(Holders(k) \cup {t}) = Cardinality(Holders(k)) + 1
      BY <1>6, HoldersFinite, FS_AddElement
    <3>2. Cardinality(Holders(k)) \in Nat
      BY HoldersFinite
    <3>3. /\ entries'[j].refs = n /\ Holders(j)' = Holders(k) \cup {t}
          /\ entries[k].refs <= Cardinality(Holders(k)) + lost
          /\ entries[k].refs \in Nat /\ lost \in Nat
      BY <2>1, <2>3, <1>1, <1>4, <1>6
    <3> QED
      BY <3>1, <3>2, <3>3
  <2> QED
    BY <2>2, <2>3
<1> QED
  BY <1>4, <1>6, <1>7 DEF IInv

\* A hit that cannot be linked gives back the ref it took.
LEMMA HitUnusableInvariant ==
  ASSUME IInv, NEW t \in Tasks, NEW r \in Requests, HitUnusable(t, r)
  PROVE  IInv'
<1> DEFINE k == CacheKey(r)
           n == entries[k].refs
<1>1. k \in Keys /\ Mapped(k) /\ n \in Nat
  BY KeyOfRequest, EntryFacts DEF HitUnusable, Servable, IInv
<1>2. entries' = [entries EXCEPT ![k] = [entries[k] EXCEPT !.refs = n]]
  <2>1. RefGivenBack(RefTaken(entries[k])) = [entries[k] EXCEPT !.refs = n]
    <3>1. entries[k] = [dir |-> entries[k].dir, refs |-> n, stale |-> entries[k].stale]
      BY <1>1, EntryFacts DEF IInv
    <3> DEFINE e == [dir |-> entries[k].dir, refs |-> n, stale |-> entries[k].stale]
               more == [dir |-> entries[k].dir, refs |-> n + 1, stale |-> entries[k].stale]
    <3>2. RefTaken(e) = more
      BY DEF RefTaken
    <3>3. RefGivenBack(more) = e
      BY <1>1 DEF RefGivenBack
    <3>4. [e EXCEPT !.refs = n] = e
      OBVIOUS
    <3> QED
      BY <3>1, <3>2, <3>3, <3>4
  <2> QED
    BY <2>1, <1>1 DEF HitUnusable, IInv, TypeOK
<1>3. /\ entries' \in [Keys -> Entry] /\ lru' \in Seq(Keys)
      /\ EntrySound' /\ MappedOnDisk' /\ OrderSound'
      /\ entries'[k].refs = n
      /\ \A j \in Keys \ {k} : entries'[j] = entries[j]
  BY <1>1, <1>2, TouchInvariant DEF HitUnusable
<1>4. /\ TaskSound' /\ TypeOK' /\ lost' = lost
      /\ \A j \in Keys : Holders(j)' = Holders(j)
  BY <1>3, AwaitFacts DEF IInv, TypeOK, HitUnusable
<1>5. RefsAccounted'
  BY <1>3, <1>4 DEF IInv, RefsAccounted
<1> QED
  BY <1>3, <1>4, <1>5 DEF IInv

\* A hit that raises keeps its ref: one more is lost.
LEMMA HitRaisesInvariant ==
  ASSUME IInv, NEW t \in Tasks, NEW r \in Requests, HitRaises(t, r)
  PROVE  IInv'
<1> DEFINE k == CacheKey(r)
           n == entries[k].refs + 1
<1>1. k \in Keys /\ Mapped(k) /\ entries[k].refs \in Nat /\ n \in Nat /\ lost \in Nat
  <2>1. k \in Keys /\ Mapped(k)
    BY KeyOfRequest DEF HitRaises, Servable
  <2>2. entries[k].refs \in Nat /\ lost \in Nat
    BY <2>1, EntryFacts DEF IInv
  <2>3. n \in Nat
    BY <2>2
  <2> QED
    BY <2>1, <2>2, <2>3
<1>2. entries' = [entries EXCEPT ![k] = [entries[k] EXCEPT !.refs = n]]
  BY <1>1 DEF HitRaises, RefTaken, IInv, TypeOK, Entry
<1>3. /\ entries' \in [Keys -> Entry] /\ lru' \in Seq(Keys)
      /\ EntrySound' /\ MappedOnDisk' /\ OrderSound'
      /\ entries'[k].refs = n
      /\ \A j \in Keys \ {k} : entries'[j] = entries[j]
  BY <1>1, <1>2, TouchInvariant DEF HitRaises
<1>4. TypeOK' /\ TaskSound' /\ \A j \in Keys : Holders(j)' = Holders(j)
  <2>1. /\ UNCHANGED <<phase, request, work, source, disk, content>>
        /\ lost' = lost + 1
    BY DEF HitRaises, taskVars
  <2>2. TypeOK'
    <3>1. lost' \in Nat
      BY <1>1, <2>1
    <3> QED
      BY <1>3, <2>1, <3>1 DEF IInv, TypeOK
  <2>3. TaskSound'
    BY <2>1 DEF IInv, TaskSound
  <2>4. \A j \in Keys : Holders(j)' = Holders(j)
    BY <2>1 DEF Holders
  <2> QED
    BY <2>2, <2>3, <2>4
<1>5. RefsAccounted'
  <2> SUFFICES ASSUME NEW j \in Keys
               PROVE  entries'[j].refs <= Cardinality(Holders(j)) + (lost + 1)
    BY <1>4 DEF RefsAccounted, HitRaises
  <2>1. entries[j].refs <= Cardinality(Holders(j)) + lost /\ entries[j].refs \in Nat
    BY DEF IInv, RefsAccounted, TypeOK, Entry
  <2>2. Cardinality(Holders(j)) \in Nat
    BY HoldersFinite
  <2>3. entries'[j].refs = entries[j].refs \/ entries'[j].refs = entries[j].refs + 1
    BY <1>3
  <2> QED
    BY <2>1, <2>2, <2>3, <1>1
<1> QED
  BY <1>3, <1>4, <1>5 DEF IInv

-----------------------------------------------------------------------------
\* Popping the entries of K: the directories it removes, and those it spares.
LEMMA FreedFacts ==
  ASSUME IInv, NEW K \in SUBSET Keys
  PROVE  /\ WithFreed(Reclaimable(K)) \in [Dirs -> {"free", "present", "vanished"}]
         /\ \A j \in Keys \ K : Mapped(j) =>
              entries[j].dir \in Dirs /\ WithFreed(Reclaimable(K))[entries[j].dir] # "free"
<1>1. WithFreed(Reclaimable(K)) \in [Dirs -> {"free", "present", "vanished"}]
  BY DEF WithFreed, IInv, TypeOK
<1>2. ASSUME NEW j \in Keys \ K, Mapped(j)
      PROVE  entries[j].dir \in Dirs /\ WithFreed(Reclaimable(K))[entries[j].dir] # "free"
  <2>1. entries[j].dir \in Dirs /\ disk[entries[j].dir] # "free"
    BY <1>2, EntryFacts DEF IInv, MappedOnDisk, Mapped
  <2>2. entries[j].dir \notin Reclaimable(K)
    BY <1>2 DEF Reclaimable, IInv, MappedOnDisk
  <2> QED
    BY <2>1, <2>2 DEF WithFreed
<1> QED
  BY <1>1, <1>2

\* An expired entry leaves the map, the order and, unreferenced, the disk.
LEMMA MissExpiredInvariant ==
  ASSUME IInv, NEW t \in Tasks, NEW r \in Requests, MissExpired(t, r)
  PROVE  IInv'
<1> DEFINE k == CacheKey(r)
<1>1. k \in Keys /\ NoEntry \in Entry /\ NoEntry.dir = NoDir /\ NoEntry.refs = 0
  BY KeyOfRequest DEF NoEntry, Entry
<1>2. /\ entries' \in [Keys -> Entry] /\ entries'[k] = NoEntry
      /\ \A j \in Keys \ {k} : entries'[j] = entries[j]
  BY <1>1 DEF MissExpired, IInv, TypeOK
<1>3. /\ ~Mapped(k)'
      /\ \A j \in Keys \ {k} : Mapped(j)' <=> Mapped(j)
  BY <1>1, <1>2 DEF Mapped
<1>4. /\ TaskSound' /\ TypeOK' /\ lost' = lost
      /\ \A j \in Keys : Holders(j)' = Holders(j)
  <2>1. disk' \in [Dirs -> {"free", "present", "vanished"}]
    BY <1>1, FreedFacts DEF MissExpired
  <2>2. lru' \in Seq(Keys)
    BY RemoveFirstElements DEF IInv, TypeOK, OrderSound, MissExpired
  <2> QED
    BY <1>2, <2>1, <2>2, AwaitFacts DEF IInv, TypeOK, MissExpired
<1>5. EntrySound'
  BY <1>1, <1>2, <1>3 DEF MissExpired, IInv, EntrySound
<1>6. MappedOnDisk'
  <2>1. \A j \in Keys \ {k} : Mapped(j) => disk'[entries[j].dir] # "free"
    BY <1>1, FreedFacts DEF MissExpired
  <2> QED
    BY <1>1, <1>2, <1>3, <2>1 DEF IInv, MappedOnDisk, Mapped
<1>7. OrderSound'
  <2>1. lru \in Seq(Keys) /\ IsInjective(lru) /\ Len(lru) \in Nat /\ MaxEntries \in Nat
        /\ Len(lru) <= MaxEntries /\ ToSet(lru) = {j \in Keys : Mapped(j)}
    BY LenProperties, ConstantsAssumption DEF IInv, TypeOK, OrderSound
  <2>2. /\ IsInjective(lru') /\ ToSet(lru') = ToSet(lru) \ {k}
        /\ (Len(lru') = Len(lru) - 1 \/ Len(lru') = Len(lru))
    BY <2>1, RemoveFirstElements DEF MissExpired
  <2>3. Len(lru') <= MaxEntries
    BY <2>1, <2>2
  <2>4. ToSet(lru') = {j \in Keys : Mapped(j)'}
    BY <1>1, <1>3, <2>1, <2>2
  <2> QED
    BY <2>2, <2>3, <2>4 DEF OrderSound
<1>8. RefsAccounted'
  <2> SUFFICES ASSUME NEW j \in Keys
               PROVE  entries'[j].refs <= Cardinality(Holders(j)) + lost
    BY <1>4 DEF RefsAccounted
  <2>1. Cardinality(Holders(j)) \in Nat /\ lost \in Nat
    BY HoldersFinite DEF IInv, TypeOK
  <2>2. CASE j = k
    <3>1. entries'[j].refs = 0
      BY <1>1, <1>2, <2>2
    <3> QED
      BY <2>1, <3>1
  <2>3. CASE j # k
    BY <1>2, <2>3 DEF IInv, RefsAccounted
  <2> QED
    BY <2>2, <2>3
<1> QED
  BY <1>4, <1>5, <1>6, <1>7, <1>8 DEF IInv

\* A store replaces the entry of its key and evicts the oldest beyond the limit.
LEMMA StoreInvariant ==
  ASSUME IInv, NEW t \in Tasks, NEW d \in Dirs, Store(t, d)
  PROVE  IInv'
<1>1. PICK r \in Requests : request[t] = r
  BY DEF Store, IInv, TypeOK, TaskSound
<1> DEFINE k == CacheKey(r)
           queue == Touched(lru, k)
           gone == Oldest(queue)
           e == [dir |-> d, refs |-> 1, stale |-> FALSE]
<1>2. k \in Keys /\ CacheKey(r) = r
  BY KeyOfRequest
<1>3. /\ queue \in Seq(Keys) /\ IsInjective(queue)
      /\ ToSet(queue) = {j \in Keys : Mapped(j)} \cup {k}
  BY <1>2, TouchedFacts DEF IInv, OrderSound
<1>4. /\ lru' = Newest(queue)
      /\ lru' \in Seq(Keys) /\ IsInjective(lru') /\ Len(lru') <= MaxEntries
      /\ ToSet(lru') = ToSet(queue) \ gone
      /\ gone \in SUBSET Keys
  BY <1>1, <1>3, NewestFacts DEF Store
<1>5. /\ disk' = [WithFreed(Reclaimable(gone \cup {k})) EXCEPT ![d] = "present"]
      /\ content' = [content EXCEPT ![d] = r]
      /\ entries' = [j \in Keys |-> IF j \in gone THEN NoEntry ELSE IF j = k THEN e ELSE entries[j]]
      /\ Return(t, r, r, d)
      /\ phase[t] # "holding" /\ disk[d] = "free"
  BY <1>1 DEF Store, NewDir
<1> HIDE DEF queue, gone
<1>6. NoEntry \in Entry /\ NoEntry.dir = NoDir /\ NoEntry.refs = 0
      /\ e \in Entry /\ e.dir = d /\ e.refs = 1 /\ d # NoDir
  BY ConstantsAssumption DEF NoEntry, Entry
<1> HIDE DEF e
<1>7. /\ entries' \in [Keys -> Entry]
      /\ \A j \in gone : j \in Keys /\ entries'[j] = NoEntry
      /\ k \notin gone => entries'[k] = e
      /\ \A j \in Keys \ (gone \cup {k}) : entries'[j] = entries[j]
  BY <1>2, <1>4, <1>5, <1>6 DEF IInv, TypeOK
<1>8. /\ \A j \in gone : ~Mapped(j)'
      /\ k \notin gone => Mapped(k)'
      /\ \A j \in Keys \ (gone \cup {k}) : Mapped(j)' <=> Mapped(j)
  BY <1>6, <1>7 DEF Mapped
<1>9. /\ disk' \in [Dirs -> {"free", "present", "vanished"}] /\ disk'[d] = "present"
      /\ \A j \in Keys \ (gone \cup {k}) : Mapped(j) =>
           entries[j].dir \in Dirs \ {d} /\ disk'[entries[j].dir] # "free"
  <2>1. gone \cup {k} \in SUBSET Keys
    BY <1>2, <1>4
  <2>2. /\ WithFreed(Reclaimable(gone \cup {k})) \in [Dirs -> {"free", "present", "vanished"}]
        /\ \A j \in Keys \ (gone \cup {k}) : Mapped(j) =>
             /\ entries[j].dir \in Dirs
             /\ WithFreed(Reclaimable(gone \cup {k}))[entries[j].dir] # "free"
    BY <2>1, FreedFacts
  <2>3. \A j \in Keys : Mapped(j) => entries[j].dir # d
    BY <1>5 DEF IInv, MappedOnDisk
  <2> QED
    BY <1>5, <2>2, <2>3
<1>10. /\ TaskSound' /\ lost' = lost /\ TypeOK'
       /\ \A j \in Keys : Holders(j)' = IF j = k THEN Holders(j) \cup {t} ELSE Holders(j)
       /\ t \notin Holders(k)
  <2>1. /\ TaskSound' /\ lost' = lost
        /\ phase' \in [Tasks -> {"idle", "compiling", "holding"}]
        /\ request' \in [Tasks -> Requests \cup {NoRequest}]
        /\ work' \in [Tasks -> Requests \cup {NoRequest}]
        /\ source' \in [Tasks -> Dirs \cup {NoDir}]
        /\ \A j \in Keys : Holders(j)' = IF j = k THEN Holders(j) \cup {t} ELSE Holders(j)
        /\ t \notin Holders(k)
    BY <1>5, ReturnFacts DEF IInv
  <2>2. content' \in [Dirs -> Requests \cup {NoRequest}]
    BY <1>5 DEF IInv, TypeOK
  <2>3. TypeOK'
    BY <1>4, <1>7, <1>9, <2>1, <2>2 DEF IInv, TypeOK
  <2> QED
    BY <2>1, <2>3
<1>11. EntrySound'
  <2> SUFFICES ASSUME NEW j \in Keys
               PROVE  IF Mapped(j)'
                      THEN /\ content'[entries'[j].dir] \in Requests
                           /\ CacheKey(content'[entries'[j].dir]) = j
                      ELSE entries'[j] = NoEntry
    BY DEF EntrySound
  <2>1. content'[d] = r /\ \A c \in Dirs \ {d} : content'[c] = content[c]
    BY <1>5 DEF IInv, TypeOK
  <2>2. CASE j \in gone
    BY <1>7, <1>8, <2>2
  <2>3. CASE j = k /\ j \notin gone
    BY <1>1, <1>6, <1>7, <1>8, <2>1, <2>3
  <2>4. CASE j # k /\ j \notin gone
    BY <1>7, <1>8, <1>9, <2>1, <2>4 DEF IInv, EntrySound
  <2> QED
    BY <2>2, <2>3, <2>4
<1>12. MappedOnDisk'
  <2>1. ASSUME NEW j \in Keys, Mapped(j)'
        PROVE  /\ disk'[entries'[j].dir] # "free"
               /\ j = k => entries'[j].dir = d
               /\ j # k => Mapped(j) /\ entries'[j].dir = entries[j].dir /\ entries'[j].dir # d
    BY <1>6, <1>7, <1>8, <1>9, <2>1
  <2>2. ASSUME NEW i \in Keys, NEW j \in Keys, Mapped(i)', entries'[i].dir = entries'[j].dir
        PROVE  i = j
    <3>1. Mapped(j)'
      BY <2>2 DEF Mapped
    <3> QED
      BY <2>1, <2>2, <3>1 DEF IInv, MappedOnDisk
  <2> QED
    BY <2>1, <2>2 DEF MappedOnDisk
<1>13. OrderSound'
  <2>1. ToSet(lru') = {j \in Keys : Mapped(j)'}
    BY <1>2, <1>3, <1>4, <1>8
  <2> QED
    BY <1>4, <2>1 DEF OrderSound
<1>14. RefsAccounted'
  <2> SUFFICES ASSUME NEW j \in Keys
               PROVE  entries'[j].refs <= Cardinality(Holders(j)') + lost
    BY <1>10 DEF RefsAccounted
  <2>1. Cardinality(Holders(j)) \in Nat /\ lost \in Nat
    BY HoldersFinite DEF IInv, TypeOK
  <2>2. CASE j = k
    <3>1. Cardinality(Holders(k) \cup {t}) = Cardinality(Holders(k)) + 1
      BY <1>10, HoldersFinite, FS_AddElement
    <3>2. Holders(j)' = Holders(k) \cup {t} /\ (entries'[j].refs = 0 \/ entries'[j].refs = 1)
      BY <1>6, <1>7, <1>10, <2>2
    <3> QED
      BY <2>1, <2>2, <3>1, <3>2
  <2>3. CASE j # k
    <3>1. Holders(j)' = Holders(j) /\ (entries'[j].refs = 0 \/ entries'[j] = entries[j])
      BY <1>6, <1>7, <1>10, <2>3
    <3>2. entries[j].refs <= Cardinality(Holders(j)) + lost
      BY DEF IInv, RefsAccounted
    <3> QED
      BY <2>1, <3>1, <3>2
  <2> QED
    BY <2>2, <2>3
<1> QED
  BY <1>10, <1>11, <1>12, <1>13, <1>14 DEF IInv

\* A store that fails leaves a directory that no entry names.
LEMMA KeepAfterFailedStoreInvariant ==
  ASSUME IInv, NEW t \in Tasks, NEW d \in Dirs, KeepAfterFailedStore(t, d)
  PROVE  IInv'
<1>1. PICK r \in Requests : request[t] = r
  BY DEF KeepAfterFailedStore, IInv, TypeOK, TaskSound
<1>2. /\ disk' = [disk EXCEPT ![d] = "present"] /\ UNCHANGED <<entries, lru, content>>
      /\ Return(t, r, r, NoDir) /\ phase[t] # "holding"
  BY <1>1 DEF KeepAfterFailedStore
<1>3. /\ disk' \in [Dirs -> {"free", "present", "vanished"}]
      /\ \A c \in Dirs : disk[c] # "free" => disk'[c] # "free"
  BY <1>2 DEF IInv, TypeOK
<1>4. /\ TypeOK' /\ TaskSound' /\ lost' = lost
      /\ \A j \in Keys : Holders(j) \subseteq Holders(j)'
  <2>1. /\ TaskSound' /\ lost' = lost
        /\ phase' \in [Tasks -> {"idle", "compiling", "holding"}]
        /\ request' \in [Tasks -> Requests \cup {NoRequest}]
        /\ work' \in [Tasks -> Requests \cup {NoRequest}]
        /\ source' \in [Tasks -> Dirs \cup {NoDir}]
        /\ \A j \in Keys : Holders(j)' = IF j = CacheKey(r) THEN Holders(j) \cup {t}
                                                             ELSE Holders(j)
    BY <1>2, ReturnFacts DEF IInv
  <2>2. TypeOK'
    BY <1>2, <1>3, <2>1 DEF IInv, TypeOK
  <2> QED
    BY <2>1, <2>2
<1>5. EntrySound' /\ OrderSound'
  BY <1>2 DEF IInv, EntrySound, OrderSound, Mapped
<1>6. MappedOnDisk'
  <2>1. \A j \in Keys : Mapped(j) => entries[j].dir \in Dirs
    BY EntryFacts DEF IInv, Mapped
  <2> QED
    BY <1>2, <1>3, <2>1 DEF IInv, MappedOnDisk, Mapped
<1>7. RefsAccounted'
  BY <1>2, <1>4, MoreHolders DEF IInv
<1> QED
  BY <1>4, <1>5, <1>6, <1>7 DEF IInv

\* A release gives back at most one ref, and one holder of the key goes.
LEMMA ReleaseInvariant ==
  ASSUME IInv, NEW t \in Tasks, Release(t)
  PROVE  IInv'
<1>1. PICK r \in Requests : request[t] = r
  BY DEF Release, IInv, TypeOK, TaskSound
<1> DEFINE k == CacheKey(r)
           n == entries'[k].refs
<1>2. k \in Keys /\ phase[t] = "holding" /\ t \in Holders(k)
  BY <1>1, KeyOfRequest DEF Release, Holders
<1>3. /\ entries[k] = [dir |-> entries[k].dir, refs |-> entries[k].refs,
                        stale |-> entries[k].stale]
      /\ entries[k].refs \in Nat /\ entries[k] \in Entry /\ lost \in Nat
  BY <1>2, EntryFacts DEF IInv
<1>4. RefGivenBack(entries[k]) \in Entry /\ RefGivenBack(entries[k]).dir = entries[k].dir
      /\ RefGivenBack(entries[k]).refs = IF entries[k].refs > 0 THEN entries[k].refs - 1 ELSE 0
  <2>1. (IF entries[k].refs > 0 THEN entries[k].refs - 1 ELSE 0) \in Nat
    BY <1>3
  <2> QED
    BY <1>3, <2>1 DEF RefGivenBack, Entry
<1>5. /\ entries' \in [Keys -> Entry]
      /\ entries'[k] = IF Mapped(k) THEN RefGivenBack(entries[k]) ELSE entries[k]
      /\ \A j \in Keys \ {k} : entries'[j] = entries[j]
  BY <1>1, <1>2, <1>3, <1>4 DEF Release, IInv, TypeOK
<1>6. \A j \in Keys : entries'[j].dir = entries[j].dir /\ (Mapped(j)' <=> Mapped(j))
  BY <1>4, <1>5 DEF Mapped
<1>7. UNCHANGED <<lru, disk, content, lost>>
  BY DEF Release
<1>8. TypeOK'
  BY <1>5, <1>7 DEF Release, IInv, TypeOK
<1>9. /\ phase'[t] = "idle" /\ request'[t] = NoRequest /\ work'[t] = NoRequest
      /\ \A u \in Tasks \ {t} : phase'[u] = phase[u] /\ request'[u] = request[u] /\ work'[u] = work[u]
  BY DEF Release, IInv, TypeOK
<1>10. TaskSound'
  BY <1>9 DEF IInv, TaskSound
<1>11. EntrySound'
  <2> SUFFICES ASSUME NEW j \in Keys
               PROVE  IF Mapped(j)
                      THEN content[entries[j].dir] \in Requests /\ CacheKey(content[entries[j].dir]) = j
                      ELSE entries'[j] = NoEntry
    BY <1>6, <1>7 DEF EntrySound
  <2> QED
    BY <1>5 DEF IInv, EntrySound
<1>12. MappedOnDisk' /\ OrderSound'
  BY <1>6, <1>7 DEF IInv, MappedOnDisk, OrderSound
<1>13. RefsAccounted'
  <2> SUFFICES ASSUME NEW j \in Keys
               PROVE  entries'[j].refs <= Cardinality(Holders(j)') + lost
    BY <1>7 DEF RefsAccounted
  <2>1. entries[j].refs <= Cardinality(Holders(j)) + lost
    BY DEF IInv, RefsAccounted
  <2>2. CASE j # k
    <3>1. Holders(j)' = Holders(j)
      BY <1>1, <1>2, <1>9, <2>2 DEF Holders
    <3> QED
      BY <1>5, <2>1, <2>2, <3>1
  <2>3. CASE j = k
    <3>1. Holders(k)' = Holders(k) \ {t}
      <4>1. t \notin Holders(k)'
        BY <1>9 DEF Holders
      <4>2. \A u \in Tasks \ {t} : u \in Holders(k)' <=> u \in Holders(k)
        BY <1>9 DEF Holders
      <4> QED
        BY <4>1, <4>2 DEF Holders
    <3>2. Cardinality(Holders(k) \ {t}) = Cardinality(Holders(k)) - 1
      BY <1>2, HoldersFinite, FS_RemoveElement
    <3>3. Cardinality(Holders(k)) \in Nat /\ Cardinality(Holders(k) \ {t}) \in Nat
      BY HoldersFinite, FS_RemoveElement, FS_CardinalityType
    <3>4. ~Mapped(k) => entries[k].refs = 0
      BY <1>2 DEF IInv, EntrySound, NoEntry
    <3>5. entries'[k].refs = IF entries[k].refs > 0 THEN entries[k].refs - 1 ELSE 0
      BY <1>3, <1>4, <1>5, <3>4
    <3>6. entries'[j].refs = entries'[k].refs /\ Holders(j)' = Holders(k) \ {t}
          /\ entries[k].refs <= Cardinality(Holders(k)) + lost
      BY <2>1, <2>3, <3>1
    <3> QED
      BY <1>3, <3>2, <3>3, <3>5, <3>6
  <2> QED
    BY <2>2, <2>3
<1> QED
  BY <1>8, <1>10, <1>11, <1>12, <1>13 DEF IInv

\* Time passes: nothing but the age changes.
LEMMA ExpireInvariant ==
  ASSUME IInv, NEW k \in Keys, Expire(k)
  PROVE  IInv'
<1>1. /\ entries' \in [Keys -> Entry]
      /\ entries'[k] = [entries[k] EXCEPT !.stale = TRUE]
      /\ \A j \in Keys \ {k} : entries'[j] = entries[j]
  BY EntryFacts DEF Expire, IInv, TypeOK, Entry
<1>2. \A j \in Keys : /\ entries'[j].dir = entries[j].dir
                      /\ entries'[j].refs = entries[j].refs
                      /\ Mapped(j)' <=> Mapped(j)
  <2>1. entries'[k].dir = entries[k].dir /\ entries'[k].refs = entries[k].refs
    BY <1>1, EntryFacts DEF IInv
  <2> QED
    BY <1>1, <2>1 DEF Mapped
<1>3. UNCHANGED <<lru, disk, content, phase, request, work, source, lost>> /\ Mapped(k)
  BY DEF Expire, taskVars, Servable
<1>4. TypeOK' /\ TaskSound'
  BY <1>1, <1>3 DEF IInv, TypeOK, TaskSound
<1>5. EntrySound'
  <2> SUFFICES ASSUME NEW j \in Keys
               PROVE  IF Mapped(j)
                      THEN content[entries[j].dir] \in Requests /\ CacheKey(content[entries[j].dir]) = j
                      ELSE entries'[j] = NoEntry
    BY <1>2, <1>3 DEF EntrySound
  <2> QED
    BY <1>1, <1>3 DEF IInv, EntrySound
<1>6. MappedOnDisk' /\ OrderSound'
  BY <1>2, <1>3 DEF IInv, MappedOnDisk, OrderSound
<1>7. RefsAccounted'
  <2>1. \A j \in Keys : Holders(j)' = Holders(j)
    BY <1>3 DEF Holders
  <2> QED
    BY <1>2, <1>3, <2>1 DEF IInv, RefsAccounted
<1> QED
  BY <1>4, <1>5, <1>6, <1>7 DEF IInv

\* A directory that vanishes from outside stays mapped, and is not free.
LEMMA VanishInvariant ==
  ASSUME IInv, NEW d \in Dirs, Vanish(d)
  PROVE  IInv'
<1>1. /\ UNCHANGED <<entries, lru, content, phase, request, work, source, lost>>
      /\ disk' \in [Dirs -> {"free", "present", "vanished"}]
      /\ \A c \in Dirs : disk[c] # "free" => disk'[c] # "free"
  BY DEF Vanish, taskVars, IInv, TypeOK
<1>2. TypeOK' /\ TaskSound' /\ EntrySound' /\ OrderSound'
  BY <1>1 DEF IInv, TypeOK, TaskSound, EntrySound, OrderSound, Mapped
<1>3. MappedOnDisk'
  <2>1. \A j \in Keys : Mapped(j) => entries[j].dir \in Dirs
    BY EntryFacts DEF IInv, Mapped
  <2> QED
    BY <1>1, <2>1 DEF IInv, MappedOnDisk, Mapped
<1>4. RefsAccounted'
  <2>1. \A j \in Keys : Holders(j)' = Holders(j)
    BY <1>1 DEF Holders
  <2> QED
    BY <1>1, <2>1 DEF IInv, RefsAccounted
<1> QED
  BY <1>2, <1>3, <1>4 DEF IInv

-----------------------------------------------------------------------------
\* The empty cache.
LEMMA InitInvariant == Init => IInv
<1> SUFFICES ASSUME Init PROVE IInv
  OBVIOUS
<1>1. NoEntry \in Entry /\ NoEntry.dir = NoDir /\ NoEntry.refs = 0 /\ 0 \in Nat
  BY DEF NoEntry, Entry
<1>2. \A k \in Keys : entries[k] = NoEntry /\ ~Mapped(k)
  BY <1>1 DEF Init, Mapped
<1>3. TypeOK
  <2>1. lru \in Seq(Keys)
    BY EmptySeq DEF Init
  <2> QED
    BY <1>1, <2>1 DEF Init, TypeOK
<1>4. TaskSound /\ EntrySound /\ MappedOnDisk
  BY <1>2 DEF Init, TaskSound, EntrySound, MappedOnDisk
<1>5. OrderSound
  <2>1. Len(lru) = 0 /\ lru = <<>> /\ MaxEntries \in Nat
    BY ConstantsAssumption DEF Init
  <2>2. ToSet(lru) = {} /\ IsInjective(lru)
    BY <2>1 DEF ToSet, IsInjective
  <2> QED
    BY <1>2, <2>1, <2>2 DEF OrderSound
<1>6. RefsAccounted
  <2> SUFFICES ASSUME NEW k \in Keys
               PROVE  entries[k].refs <= Cardinality(Holders(k)) + lost
    BY DEF RefsAccounted
  <2>1. Cardinality(Holders(k)) \in Nat /\ entries[k].refs = 0 /\ lost = 0
    BY <1>1, <1>2, HoldersFinite DEF Init
  <2> QED
    BY <2>1
<1> QED
  BY <1>3, <1>4, <1>5, <1>6 DEF IInv

\* A step that changes nothing.
LEMMA StutterInvariant == IInv /\ UNCHANGED vars => IInv'
<1> SUFFICES ASSUME IInv, UNCHANGED vars PROVE IInv'
  OBVIOUS
<1>1. UNCHANGED <<entries, lru, disk, content, phase, request, work, source, lost>>
  BY DEF vars, cacheVars, taskVars
<1>2. TypeOK' /\ TaskSound'
  BY <1>1 DEF IInv, TypeOK, TaskSound
<1>3. \A k \in Keys : Holders(k) \subseteq Holders(k)'
  BY <1>1 DEF Holders
<1> QED
  BY <1>1, <1>2, <1>3, CacheUntouched DEF IInv, cacheVars

\* Every action keeps the inductive invariant.
LEMMA StepInvariant == IInv /\ [Next]_vars => IInv'
<1> SUFFICES ASSUME IInv, [Next]_vars PROVE IInv'
  OBVIOUS
<1>1. ASSUME NEW t \in Tasks, NEW r \in Requests, CompileOnce(t, r) PROVE IInv'
  <2>1. CASE Interpret(t, r)    BY <2>1, InterpretInvariant
  <2>2. CASE Hit(t, r)          BY <2>2, HitInvariant
  <2>3. CASE HitUnusable(t, r)  BY <2>3, HitUnusableInvariant
  <2>4. CASE HitRaises(t, r)    BY <2>4, HitRaisesInvariant
  <2>5. CASE MissExpired(t, r)  BY <2>5, MissExpiredInvariant
  <2>6. CASE Miss(t, r)         BY <2>6, MissInvariant
  <2> QED
    BY <1>1, <2>1, <2>2, <2>3, <2>4, <2>5, <2>6 DEF CompileOnce
<1>2. ASSUME NEW t \in Tasks, Resume(t) PROVE IInv'
  <2>1. CASE CompileError(t)    BY <2>1, CompileErrorInvariant
  <2>2. ASSUME NEW d \in Dirs, Store(t, d) PROVE IInv'
    BY <2>2, StoreInvariant
  <2>3. ASSUME NEW d \in Dirs, KeepAfterFailedStore(t, d) PROVE IInv'
    BY <2>3, KeepAfterFailedStoreInvariant
  <2>4. CASE KeepUncached(t)    BY <2>4, KeepUncachedInvariant
  <2> QED
    BY <1>2, <2>1, <2>2, <2>3, <2>4 DEF Resume
<1>3. ASSUME NEW t \in Tasks, Release(t) PROVE IInv'
  BY <1>3, ReleaseInvariant
<1>4. ASSUME NEW k \in Keys, Expire(k) PROVE IInv'
  BY <1>4, ExpireInvariant
<1>5. ASSUME NEW d \in Dirs, Vanish(d) PROVE IInv'
  BY <1>5, VanishInvariant
<1>6. CASE UNCHANGED vars
  BY <1>6, StutterInvariant
<1> QED
  BY <1>1, <1>2, <1>3, <1>4, <1>5, <1>6 DEF Next

\* The inductive invariant holds of every reachable state.
THEOREM InvariantHolds == Spec => []IInv
  BY InitInvariant, StepInvariant, PTL DEF Spec

\* Every variable keeps its type: no ref_count ever falls below zero.
THEOREM TypeCorrect == Spec => []TypeOK
<1>1. IInv => TypeOK
  BY DEF IInv
<1> QED
  BY <1>1, InvariantHolds, PTL

\* No ref_count outgrows the judges that still have to release the key, however
\* entries expire, are replaced or evicted between a judge's get() and release().
THEOREM NoRefOutlivesItsHolders == Spec => []RefsAccounted
<1>1. IInv => RefsAccounted
  BY DEF IInv
<1> QED
  BY <1>1, InvariantHolds, PTL

\* The cache never serves a directory it has itself removed, nor two keys from
\* one directory.
THEOREM ServedDirsExist == Spec => []MappedOnDisk
<1>1. IInv => MappedOnDisk
  BY DEF IInv
<1> QED
  BY <1>1, InvariantHolds, PTL

\* A sequence has no more elements than places.
LEMMA ElementsOfSeq ==
  ASSUME NEW q \in Seq(Keys)
  PROVE  Cardinality(ToSet(q)) <= Len(q) /\ Cardinality(ToSet(q)) \in Nat
<1>1. Len(q) \in Nat /\ DOMAIN q = 1..Len(q)
  BY LenProperties
<1>2. IsFiniteSet(1..Len(q)) /\ Cardinality(1..Len(q)) = Len(q)
  BY <1>1, FS_Interval
<1>3. ToSet(q) = {q[i] : i \in 1..Len(q)}
  BY <1>1 DEF ToSet
<1>4. IsFiniteSet(ToSet(q)) /\ Cardinality(ToSet(q)) <= Cardinality(1..Len(q))
  <2> DEFINE f == [i \in 1..Len(q) |-> q[i]]
             S == 1..Len(q)
             T == ToSet(q)
  <2>1. f \in Surjection(S, T)
    BY <1>3 DEF Surjection
  <2>2. IsFiniteSet(S)
    BY <1>2
  <2> HIDE DEF S, T, f
  <2>3. IsFiniteSet(T) /\ Cardinality(T) <= Cardinality(S)
    BY <2>1, <2>2, FS_Surjection
  <2> QED
    BY <2>3 DEF S, T
<1>5. Cardinality(ToSet(q)) \in Nat
  BY <1>4, FS_CardinalityType
<1> QED
  BY <1>2, <1>4, <1>5

\* The cache never outgrows its limit: the order, which lists its keys, does not.
THEOREM CacheIsBounded == Spec => []CacheBounded
<1>1. IInv => CacheBounded
  <2> SUFFICES ASSUME IInv PROVE CacheBounded
    OBVIOUS
  <2>1. lru \in Seq(Keys) /\ Len(lru) <= MaxEntries /\ ToSet(lru) = {k \in Keys : Mapped(k)}
    BY DEF IInv, TypeOK, OrderSound
  <2>2. Cardinality(ToSet(lru)) <= Len(lru) /\ Cardinality(ToSet(lru)) \in Nat
    BY <2>1, ElementsOfSeq
  <2>3. Len(lru) \in Nat /\ MaxEntries \in Nat
    BY <2>1, LenProperties, ConstantsAssumption
  <2>4. Cardinality(ToSet(lru)) <= MaxEntries
    BY <2>1, <2>2, <2>3
  <2> QED
    BY <2>1, <2>4 DEF CacheBounded
<1> QED
  BY <1>1, InvariantHolds, PTL

-----------------------------------------------------------------------------
\* Popping entries removes only directories of entries without refs.
LEMMA StepRemovesUnreferenced ==
  ASSUME IInv, [Next]_vars, NEW d \in Dirs, disk[d] # "free", disk'[d] = "free"
  PROVE  \E k \in Keys : entries[k].dir = d /\ entries[k].refs = 0
<1>1. ASSUME NEW K \in SUBSET Keys, WithFreed(Reclaimable(K))[d] = "free"
      PROVE  \E k \in Keys : entries[k].dir = d /\ entries[k].refs = 0
  BY <1>1 DEF WithFreed, Reclaimable
<1>2. ASSUME NEW t \in Tasks, NEW r \in Requests, MissExpired(t, r)
      PROVE  \E k \in Keys : entries[k].dir = d /\ entries[k].refs = 0
  <2>1. {CacheKey(r)} \in SUBSET Keys
    BY KeyOfRequest
  <2> QED
    BY <1>1, <1>2, <2>1 DEF MissExpired
<1>3. ASSUME NEW t \in Tasks, NEW c \in Dirs, Store(t, c)
      PROVE  \E k \in Keys : entries[k].dir = d /\ entries[k].refs = 0
  <2>1. PICK r \in Requests : request[t] = r
    BY <1>3 DEF Store, IInv, TypeOK, TaskSound
  <2> DEFINE queue == Touched(lru, CacheKey(r))
             K == Oldest(queue) \cup {CacheKey(r)}
  <2>2. queue \in Seq(Keys) /\ IsInjective(queue) /\ CacheKey(r) \in Keys
    BY KeyOfRequest, TouchedFacts DEF IInv
  <2>3. K \in SUBSET Keys
    BY <2>2, NewestFacts
  <2>4. /\ disk' = [WithFreed(Reclaimable(K)) EXCEPT ![c] = "present"]
        /\ WithFreed(Reclaimable(K)) \in [Dirs -> {"free", "present", "vanished"}]
    BY <1>3, <2>1, <2>3, FreedFacts DEF Store
  <2>5. WithFreed(Reclaimable(K))[d] = "free"
    BY <2>4
  <2> QED
    BY <1>1, <2>3, <2>5
<1>4. CASE UNCHANGED disk
  BY <1>4
<1>5. ASSUME NEW c \in Dirs, NEW new \in {"present", "vanished"}, disk' = [disk EXCEPT ![c] = new]
      PROVE  FALSE
  BY <1>5 DEF IInv, TypeOK
<1> QED
  BY <1>2, <1>3, <1>4, <1>5
     DEF Next, vars, cacheVars, CompileOnce, Resume, Interpret, Hit, HitUnusable, HitRaises, Miss,
         CompileError, KeepUncached, KeepAfterFailedStore, Release, Expire, Vanish

\* Expiry, replacement and eviction never remove a directory whose ref_count is
\* not 0.
THEOREM OnlyUnreferencedRemoved == Spec => RemovedUnreferenced
<1>1. IInv /\ [Next]_vars =>
        [\A d \in Dirs : disk[d] # "free" /\ disk'[d] = "free" =>
            \E k \in Keys : entries[k].dir = d /\ entries[k].refs = 0]_vars
  BY StepRemovesUnreferenced
<1> QED
  BY <1>1, InvariantHolds, PTL DEF Spec, RemovedUnreferenced

-----------------------------------------------------------------------------
\* The empty cache is the initial state of the service.
LEMMA RefinementInit == Init => Service!Init
  BY DEF Init, Service!Init

\* compile_once() returning is an answer; so is its return without an await.
LEMMA ReturnAnswers ==
  ASSUME IInv, NEW t \in Tasks, NEW r \in Requests, NEW d,
         Return(t, r, r, d)
  PROVE  /\ phase[t] = "idle" => Service!AnswerAtOnce(t, r)
         /\ phase[t] = "compiling" /\ request[t] = r => Service!Answer(t)
<1>1. /\ request' = [request EXCEPT ![t] = r] /\ work' = [work EXCEPT ![t] = r]
      /\ r # NoRequest
  BY ConstantsAssumption DEF Return
<1>2. phase[t] = "idle" => request[t] = NoRequest
  BY DEF IInv, TaskSound
<1>3. CASE phase[t] = "compiling" /\ request[t] = r
  <2>1. work[t] = NoRequest /\ request' = request
    BY <1>1, <1>3 DEF IInv, TaskSound, TypeOK
  <2> QED
    BY <1>1, <1>3, <2>1 DEF Service!Answer
<1> QED
  BY <1>1, <1>2, <1>3 DEF Service!AnswerAtOnce

\* Every step of the cache is a step of the service or none.
LEMMA RefinementStep == IInv /\ [Next]_vars => [Service!Next]_Service!vars
<1> SUFFICES ASSUME IInv, [Next]_vars PROVE [Service!Next]_Service!vars
  OBVIOUS
<1>1. ASSUME NEW t \in Tasks, NEW r \in Requests, CompileOnce(t, r)
      PROVE  [Service!Next]_Service!vars
  <2>1. phase[t] = "idle" => request[t] = NoRequest /\ work[t] = NoRequest
    BY DEF IInv, TaskSound
  <2>2. ASSUME AwaitCompiler(t, r), phase[t] = "idle" PROVE Service!Ask(t, r)
    BY <2>1, <2>2 DEF AwaitCompiler, Service!Ask
  <2>3. CASE Interpret(t, r)
    BY <2>3, ReturnAnswers DEF Interpret, Service!Next
  <2>4. CASE Hit(t, r)
    <3>1. CacheKey(r) \in Keys /\ content[entries[CacheKey(r)].dir] = r
      BY <2>4, KeyOfRequest DEF Hit, Servable, IInv, EntrySound
    <3> QED
      BY <2>4, <3>1, ReturnAnswers DEF Hit, Service!Next
  <2>5. CASE HitUnusable(t, r)
    BY <2>2, <2>5 DEF HitUnusable, Service!Next
  <2>6. CASE HitRaises(t, r)
    BY <2>6 DEF HitRaises, taskVars, Service!vars
  <2>7. CASE MissExpired(t, r)
    BY <2>2, <2>7 DEF MissExpired, Service!Next
  <2>8. CASE Miss(t, r)
    BY <2>2, <2>8 DEF Miss, Service!Next
  <2> QED
    BY <1>1, <2>3, <2>4, <2>5, <2>6, <2>7, <2>8 DEF CompileOnce
<1>2. ASSUME NEW t \in Tasks, Resume(t)
      PROVE  [Service!Next]_Service!vars
  <2>1. phase[t] = "compiling" => request[t] \in Requests /\ work[t] = NoRequest
    BY ConstantsAssumption DEF IInv, TaskSound, TypeOK
  <2>2. CASE CompileError(t)
    BY <2>1, <2>2, ConstantsAssumption DEF CompileError, Service!Refuse, Service!Next
  <2>3. ASSUME NEW d \in Dirs, Store(t, d) PROVE Service!Next
    BY <2>1, <2>3, ReturnAnswers DEF Store, Service!Next
  <2>4. ASSUME NEW d \in Dirs, KeepAfterFailedStore(t, d) PROVE Service!Next
    BY <2>1, <2>4, ReturnAnswers DEF KeepAfterFailedStore, Service!Next
  <2>5. CASE KeepUncached(t)
    BY <2>1, <2>5, ReturnAnswers DEF KeepUncached, Service!Next
  <2> QED
    BY <1>2, <2>2, <2>3, <2>4, <2>5 DEF Resume
<1>3. ASSUME NEW t \in Tasks, Release(t)
      PROVE  [Service!Next]_Service!vars
  <2>1. work[t] # NoRequest
    BY <1>3 DEF Release, IInv, TaskSound
  <2> QED
    BY <1>3, <2>1 DEF Release, Service!GiveBack, Service!Next
<1>4. ASSUME NEW k \in Keys, Expire(k) PROVE UNCHANGED Service!vars
  BY <1>4 DEF Expire, taskVars, Service!vars
<1>5. ASSUME NEW d \in Dirs, Vanish(d) PROVE UNCHANGED Service!vars
  BY <1>5 DEF Vanish, taskVars, Service!vars
<1>6. CASE UNCHANGED vars
  BY <1>6 DEF vars, taskVars, Service!vars
<1> QED
  BY <1>1, <1>2, <1>3, <1>4, <1>5, <1>6 DEF Next

\* The cache implements the compile service: whatever it does, a judge is given
\* artifacts of exactly the language and source it asked for, and keeps them
\* until it gives them back.
THEOREM ServiceImplemented == Spec => ImplementsService
  BY InvariantHolds, RefinementInit, RefinementStep, PTL
     DEF Spec, ImplementsService, Service!Spec

=============================================================================
