---------------------------- MODULE CompileCache ----------------------------
(***************************************************************************)
(* The compile cache of one worker process (app/sandbox/cache.py) together *)
(* with the two operations that use it, compile_once() and                 *)
(* release_compiled() (app/sandbox/runner.py).                             *)
(*                                                                         *)
(* A worker runs its coroutines on one event loop, so a step is what a     *)
(* coroutine does between two awaits.  compile_once() awaits once, for the *)
(* compiler: everything up to the spawn is one action (a hit returns       *)
(* before it), everything after the compiler's exit is another.            *)
(***************************************************************************)
EXTENDS Integers, Sequences, FiniteSets, SequencesExt

CONSTANTS Tasks,         \* concurrent callers of compile_once()
          Requests,      \* the <<language, source>> pairs they ask for
          Interpreted,   \* the languages without a compile_cmd
          Dirs,          \* the ccache_ directories the tmpfs has room for
          MaxEntries,    \* settings.compile_cache_max_entries
          MaxLost,       \* bound: how often mkdtemp raises right after a ref was taken
          MayFail,       \* whether linking a program, to the cache or from it, may fail
          NoRequest,     \* "no request"
          NoDir          \* "no directory"

ASSUME ConstantsAssumption ==
  /\ IsFiniteSet(Tasks)
  /\ MaxEntries \in Nat
  /\ MaxLost \in Nat
  /\ MayFail \in BOOLEAN
  /\ NoRequest \notin Requests
  /\ NoDir \notin Dirs
  /\ \A r \in Requests : r = <<r[1], r[2]>>

Language(r) == r[1]
Compiled(r) == Language(r) \notin Interpreted

\* A slip to catch: a key without the language.
SourceKey(r) == <<"any", r[2]>>

\* _CompileCache._key: two sources collide only if they are the same text.
CacheKey(r) == <<r[1], r[2]>>
Keys == {CacheKey(r) : r \in Requests}

VARIABLES entries,  \* key -> the _CacheEntry the map holds for it
          lru,      \* the order of the OrderedDict, least recently used first
          disk,     \* cache directory -> "free", "present", or "vanished"
          content,  \* cache directory -> the request whose artifacts it holds
          phase,    \* task -> "idle", "compiling" or "holding"
          request,  \* task -> the request it has asked for
          work,     \* task -> the request whose artifacts its work_dir holds
          source,   \* history: task -> the entry's directory its ref was taken on
          lost      \* history: refs taken by calls of compile_once() that raised

cacheVars == <<entries, lru, disk, content>>
taskVars == <<phase, request, work, source>>
vars == <<cacheVars, taskVars, lost>>

-----------------------------------------------------------------------------
NoEntry == [dir |-> NoDir, refs |-> 0, stale |-> FALSE]
Entry == [dir : Dirs \cup {NoDir}, refs : Nat, stale : BOOLEAN]

Mapped(k) == entries[k].dir # NoDir
\* get() serves an entry while its age is within the TTL.
Servable(k) == Mapped(k) /\ ~entries[k].stale

RefTaken(e) == [e EXCEPT !.refs = @ + 1]
\* A slip to catch: a count that may go below zero.
RefUnclamped(e) == [e EXCEPT !.refs = @ - 1]
RefGivenBack(e) == [e EXCEPT !.refs = IF @ > 0 THEN @ - 1 ELSE 0]

\* move_to_end
Touched(s, k) == Append(RemoveFirst(s, k), k)
\* A slip to catch: the room is made before the new entry is in.
ExcessBefore(s) == IF Len(s) - 1 > MaxEntries THEN Len(s) - 1 - MaxEntries ELSE 0
\* `while len > max: popitem(last=False)`: how many go,
Excess(s) == IF Len(s) > MaxEntries THEN Len(s) - MaxEntries ELSE 0
\* what stays, and what goes.
Newest(s) == SubSeq(s, Excess(s) + 1, Len(s))
Oldest(s) == {s[i] : i \in 1..Excess(s)}

\* A slip to catch: refs are not looked at.
Popped(ks) == {entries[k].dir : k \in {j \in ks : Mapped(j)}}
\* The directories removed when the entries of ks are popped.
Reclaimable(ks) ==
  {entries[k].dir : k \in {j \in ks : Mapped(j) /\ entries[j].refs = 0}}
WithFreed(ds) == [d \in Dirs |-> IF d \in ds THEN "free" ELSE disk[d]]

\* mkdtemp invents a name nobody has seen.
NewDir(d) == disk[d] = "free" /\ \A t \in Tasks : source[t] # d

-----------------------------------------------------------------------------
Init ==
  /\ entries = [k \in Keys |-> NoEntry]
  /\ lru = <<>>
  /\ disk = [d \in Dirs |-> "free"]
  /\ content = [d \in Dirs |-> NoRequest]
  /\ phase = [t \in Tasks |-> "idle"]
  /\ request = [t \in Tasks |-> NoRequest]
  /\ work = [t \in Tasks |-> NoRequest]
  /\ source = [t \in Tasks |-> NoDir]
  /\ lost = 0

\* The task has spawned the compiler and awaits it.
AwaitCompiler(t, r) ==
  /\ phase' = [phase EXCEPT ![t] = "compiling"]
  /\ request' = [request EXCEPT ![t] = r]
  /\ UNCHANGED <<work, source, lost>>

\* compile_once() returns a work_dir with the artifacts of a.
Return(t, r, a, d) ==
  /\ phase' = [phase EXCEPT ![t] = "holding"]
  /\ request' = [request EXCEPT ![t] = r]
  /\ work' = [work EXCEPT ![t] = a]
  /\ source' = [source EXCEPT ![t] = d]
  /\ UNCHANGED lost

\* compile_once() of an interpreted language: no await, no cache.
Interpret(t, r) ==
  /\ phase[t] = "idle"
  /\ ~Compiled(r)
  /\ Return(t, r, r, NoDir)
  /\ UNCHANGED cacheVars

\* A hit: get() takes a ref, the cached files are hardlinked into a new
\* work_dir.
Hit(t, r) ==
  LET k == CacheKey(r) IN
  /\ phase[t] = "idle"
  /\ Compiled(r)
  /\ Servable(k)
  /\ disk[entries[k].dir] = "present"
  /\ entries' = [entries EXCEPT ![k] = RefTaken(@)]
  /\ lru' = Touched(lru, k)
  /\ Return(t, r, content[entries[k].dir], entries[k].dir)
  /\ UNCHANGED <<disk, content>>

\* A slip to catch: the abandoned ref is kept.
HitAbandoned(t, r) ==
  LET k == CacheKey(r) IN
  /\ phase[t] = "idle"
  /\ Compiled(r)
  /\ Servable(k)
  /\ entries' = [entries EXCEPT ![k] = RefTaken(@)]
  /\ lru' = Touched(lru, k)
  /\ AwaitCompiler(t, r)
  /\ UNCHANGED <<disk, content>>

\* get() took a ref, but the directory has vanished or linking a file failed:
\* the ref is given back and the source compiled after all.
HitUnusable(t, r) ==
  LET k == CacheKey(r) IN
  /\ phase[t] = "idle"
  /\ Compiled(r)
  /\ Servable(k)
  /\ disk[entries[k].dir] = "vanished" \/ MayFail
  /\ entries' = [entries EXCEPT ![k] = RefGivenBack(RefTaken(@))]
  /\ lru' = Touched(lru, k)
  /\ AwaitCompiler(t, r)
  /\ UNCHANGED <<disk, content>>

\* mkdtemp or chmod raises after get() took its ref and before the `try`: the
\* exception leaves compile_once() and the caller never learns of the ref.
HitRaises(t, r) ==
  LET k == CacheKey(r) IN
  /\ lost < MaxLost
  /\ phase[t] = "idle"
  /\ Compiled(r)
  /\ Servable(k)
  /\ disk[entries[k].dir] = "present"
  /\ entries' = [entries EXCEPT ![k] = RefTaken(@)]
  /\ lru' = Touched(lru, k)
  /\ lost' = lost + 1
  /\ UNCHANGED <<disk, content, taskVars>>

\* A slip to catch: the entry stays when its directory goes.
MissKeepsEntry(t, r) ==
  LET k == CacheKey(r) IN
  /\ phase[t] = "idle"
  /\ Compiled(r)
  /\ Mapped(k)
  /\ entries[k].stale
  /\ disk' = WithFreed(Reclaimable({k}))
  /\ AwaitCompiler(t, r)
  /\ UNCHANGED <<entries, lru, content>>

\* get() finds an expired entry: it drops it, and its directory if unreferenced.
MissExpired(t, r) ==
  LET k == CacheKey(r) IN
  /\ phase[t] = "idle"
  /\ Compiled(r)
  /\ Mapped(k)
  /\ entries[k].stale
  /\ disk' = WithFreed(Reclaimable({k}))
  /\ entries' = [entries EXCEPT ![k] = NoEntry]
  /\ lru' = RemoveFirst(lru, k)
  /\ AwaitCompiler(t, r)
  /\ UNCHANGED content

Miss(t, r) ==
  /\ phase[t] = "idle"
  /\ Compiled(r)
  /\ ~Mapped(CacheKey(r))
  /\ AwaitCompiler(t, r)
  /\ UNCHANGED cacheVars

-----------------------------------------------------------------------------
\* The compiler returned non-zero or timed out: compile_once() returns None.
CompileError(t) ==
  /\ phase[t] = "compiling"
  /\ phase' = [phase EXCEPT ![t] = "idle"]
  /\ request' = [request EXCEPT ![t] = NoRequest]
  /\ UNCHANGED <<cacheVars, work, source, lost>>

\* Compiled, and the artifacts put into the cache under the request's key: the
\* previous entry of the key is replaced, the oldest entries are evicted.
Store(t, d) ==
  LET r == request[t]
      k == CacheKey(r)
      queue == Touched(lru, k)
  IN
  /\ phase[t] = "compiling"
  /\ MaxEntries > 0
  /\ NewDir(d)
  /\ disk' = [WithFreed(Reclaimable(Oldest(queue) \cup {k})) EXCEPT ![d] = "present"]
  /\ content' = [content EXCEPT ![d] = r]
  /\ entries' = [j \in Keys |->
       IF j \in Oldest(queue) THEN NoEntry
       ELSE IF j = k THEN [dir |-> d, refs |-> 1, stale |-> FALSE]
       ELSE entries[j]]
  /\ lru' = Newest(queue)
  /\ Return(t, r, r, d)

\* Compiled, but not stored: the cache is disabled or mkdtemp failed.
KeepUncached(t) ==
  /\ phase[t] = "compiling"
  /\ MaxEntries = 0 \/ MayFail
  /\ Return(t, request[t], request[t], NoDir)
  /\ UNCHANGED cacheVars

\* Compiled, and filling the cache directory failed: it stays behind, half
\* full, and the exception is swallowed.
KeepAfterFailedStore(t, d) ==
  /\ phase[t] = "compiling"
  /\ MaxEntries > 0
  /\ MayFail
  /\ NewDir(d)
  /\ disk' = [disk EXCEPT ![d] = "present"]
  /\ Return(t, request[t], request[t], NoDir)
  /\ UNCHANGED <<entries, lru, content>>

\* The judge's `finally`: rmtree(work_dir), then release_compiled().  The ref is
\* given back to whatever entry the key has now.
Release(t) ==
  LET k == CacheKey(request[t]) IN
  /\ phase[t] = "holding"
  /\ entries' = [entries EXCEPT ![k] = IF Mapped(k) THEN RefGivenBack(@) ELSE @]
  /\ phase' = [phase EXCEPT ![t] = "idle"]
  /\ request' = [request EXCEPT ![t] = NoRequest]
  /\ work' = [work EXCEPT ![t] = NoRequest]
  /\ source' = [source EXCEPT ![t] = NoDir]
  /\ UNCHANGED <<lru, disk, content, lost>>

-----------------------------------------------------------------------------
\* time.time() passes created_at + ttl_seconds.
Expire(k) ==
  /\ Servable(k)
  /\ entries' = [entries EXCEPT ![k].stale = TRUE]
  /\ UNCHANGED <<lru, disk, content, taskVars, lost>>

\* Somebody outside this process removes a cache directory.
Vanish(d) ==
  /\ disk[d] = "present"
  /\ disk' = [disk EXCEPT ![d] = "vanished"]
  /\ UNCHANGED <<entries, lru, content, taskVars, lost>>

CompileOnce(t, r) ==
  \/ Interpret(t, r)
  \/ Hit(t, r)
  \/ HitUnusable(t, r)
  \/ HitRaises(t, r)
  \/ MissExpired(t, r)
  \/ Miss(t, r)

Resume(t) ==
  \/ CompileError(t)
  \/ \E d \in Dirs : Store(t, d) \/ KeepAfterFailedStore(t, d)
  \/ KeepUncached(t)

Next ==
  \/ \E t \in Tasks : \/ \E r \in Requests : CompileOnce(t, r)
                      \/ Resume(t)
                      \/ Release(t)
  \/ \E k \in Keys : Expire(k)
  \/ \E d \in Dirs : Vanish(d)

Spec == Init /\ [][Next]_vars

-----------------------------------------------------------------------------
\* Types of the variables; refs never goes below zero, though release() may be
\* called by a task whose ref another entry of the key no longer carries.
TypeOK ==
  /\ entries \in [Keys -> Entry]
  /\ lru \in Seq(Keys)
  /\ disk \in [Dirs -> {"free", "present", "vanished"}]
  /\ content \in [Dirs -> Requests \cup {NoRequest}]
  /\ phase \in [Tasks -> {"idle", "compiling", "holding"}]
  /\ request \in [Tasks -> Requests \cup {NoRequest}]
  /\ work \in [Tasks -> Requests \cup {NoRequest}]
  /\ source \in [Tasks -> Dirs \cup {NoDir}]
  /\ lost \in Nat

\* The tasks that will still call release_compiled() for key k.
Holders(k) == {t \in Tasks : phase[t] = "holding" /\ CacheKey(request[t]) = k}

\* An entry never counts more refs than there are judges that will release its
\* key, but for the refs lost in a compile_once() that raised: every other path
\* gives back what get() and put() took, so once the last judge of a key has
\* finished its ref_count is 0 and the entry can be reclaimed.
RefsAccounted == \A k \in Keys : entries[k].refs <= Cardinality(Holders(k)) + lost

\* No two entries share a directory, and no path of the cache removes the
\* directory of an entry it still serves (a directory may only have vanished).
MappedOnDisk ==
  /\ \A k \in Keys : Mapped(k) => disk[entries[k].dir] # "free"
  /\ \A j, k \in Keys : Mapped(j) /\ entries[j].dir = entries[k].dir => j = k

\* The worker never keeps more programs than compile_cache_max_entries, whoever
\* stores while entries are served, expire or are replaced.
CacheBounded == Cardinality({k \in Keys : Mapped(k)}) <= MaxEntries

\* The order of the OrderedDict lists exactly the mapped keys, each once.
OrderSound ==
  /\ Len(lru) <= MaxEntries
  /\ ToSet(lru) = {k \in Keys : Mapped(k)}
  /\ IsInjective(lru)

\* A task has the artifacts it asked for while it holds them, and an entry's
\* directory those of the entry's key.
TaskSound ==
  \A t \in Tasks :
    /\ phase[t] = "idle" <=> request[t] = NoRequest
    /\ work[t] = IF phase[t] = "holding" THEN request[t] ELSE NoRequest
EntrySound ==
  \A k \in Keys :
    IF Mapped(k)
    THEN content[entries[k].dir] \in Requests /\ CacheKey(content[entries[k].dir]) = k
    ELSE entries[k] = NoEntry

\* The inductive invariant.
IInv ==
  TypeOK /\ TaskSound /\ EntrySound /\ MappedOnDisk /\ OrderSound /\ RefsAccounted

Service == INSTANCE CompileService
\* Whatever expires, is evicted, replaced or lost, a judge is always given the
\* artifacts of its own language and source: compile_once() implements the
\* service that compiles every request anew.
ImplementsService == Service!Spec

\* A directory is only ever removed while its ref_count is 0: get() on expiry,
\* put() on replacement and put() on eviction all respect it.
RemovedUnreferenced ==
  [][\A d \in Dirs : disk[d] # "free" /\ disk'[d] = "free" =>
       \E k \in Keys : entries[k].dir = d /\ entries[k].refs = 0]_vars

-----------------------------------------------------------------------------
\* "A live judge still holds this dir": no directory is removed while the judge
\* that took a ref on it has not released it.
HeldNotRemoved ==
  \A t \in Tasks : phase[t] = "holding" /\ source[t] # NoDir => disk[source[t]] # "free"
=============================================================================
