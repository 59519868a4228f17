------------------------- MODULE RuntimeCacheProofs -------------------------
(***************************************************************************)
(* Proofs of the safety properties of RuntimeCache, for any sets of keys,  *)
(* callers and runtimes and any timing constants.                          *)
(***************************************************************************)
EXTENDS RuntimeCache, TLAPS

\* The write lock is held across steps exactly by the caller that is
\* creating a runtime or by the reaper that is walking the map.
LockInv ==
  /\ \A c \in Callers : writer = c <=> pc[c] = "insert"
  /\ writer = Reaper <=> reaperPc = "retain"

\* A caller that is not idle has a key.
WantInv == \A c \in Callers : pc[c] # "idle" => want[c] \in Keys

\* What is cached is alive and filed under its own key.
MapInv ==
  \A k \in Keys : map[k] # None =>
    /\ key[map[k]] = k
    /\ map[k] \notin cancelled
    /\ task[map[k]] = "running"

\* What is being created is alive and its key is still free.
CreatorInv ==
  \A c \in Callers : pc[c] = "insert" =>
    /\ handle[c] # None
    /\ key[handle[c]] = want[c]
    /\ handle[c] \notin cancelled
    /\ task[handle[c]] = "running"
    /\ map[want[c]] = None

\* What is alive is cached or being created.
OwnerInv ==
  \A r \in Runtimes : task[r] # "unborn" /\ r \notin cancelled =>
    /\ task[r] = "running"
    /\ key[r] \in Keys
    /\ map[key[r]] = r \/ \E c \in Callers : pc[c] = "insert" /\ handle[c] = r

UnbornInv == \A r \in Runtimes : task[r] = "unborn" => r \notin cancelled

\* Who listens, listens to what is cached under the key asked for.
StreamInv ==
  \A c \in Callers : pc[c] = "streaming" =>
    handle[c] # None /\ map[want[c]] = handle[c]

\* The reaper visits entries that are there.
TodoInv == reaperPc = "retain" => \A k \in todo : map[k] # None

IInv ==
  /\ TypeOK
  /\ LockInv
  /\ WantInv
  /\ MapInv
  /\ CreatorInv
  /\ OwnerInv
  /\ UnbornInv
  /\ StreamInv
  /\ TodoInv

\* A call begins: the caller has a key and nothing else changes.
LEMMA GetStreamKeeps ==
  ASSUME IInv, NEW c \in Callers, NEW k \in Keys, GetStream(c, k)
  PROVE  IInv'
<1>1. TypeOK'
  BY DEF IInv, TypeOK, runtimeVars, reaperVars, GetStream
<1>2. LockInv'
  BY DEF IInv, LockInv, reaperVars, GetStream
<1>3. WantInv'
  BY DEF IInv, WantInv, TypeOK, GetStream
<1>4. CreatorInv'
  BY DEF IInv, CreatorInv, runtimeVars, GetStream
<1>5. OwnerInv'
  BY DEF IInv, OwnerInv, runtimeVars, GetStream
<1>6. StreamInv'
  BY DEF IInv, StreamInv, GetStream
<1>7. MapInv' /\ UnbornInv' /\ TodoInv'
  BY DEF IInv, MapInv, UnbornInv, TodoInv, runtimeVars, reaperVars, GetStream
<1> QED
  BY <1>1, <1>2, <1>3, <1>4, <1>5, <1>6, <1>7 DEF IInv

\* The first lookup: on a hit the caller listens to what is cached.
LEMMA ReadLookupKeeps ==
  ASSUME IInv, NEW c \in Callers, ReadLookup(c)
  PROVE  IInv'
<1>1. TypeOK'
  BY DEF IInv, TypeOK, WantInv, Subscribe, runtimeVars, reaperVars, ReadLookup
<1>2. LockInv'
  BY DEF IInv, LockInv, TypeOK, Subscribe, reaperVars, ReadLookup
<1>3. WantInv'
  BY DEF IInv, WantInv, TypeOK, Subscribe, ReadLookup
<1>4. CreatorInv'
  BY CacheAssumption DEF IInv, CreatorInv, TypeOK, LockInv, Subscribe,
     ReadLookup
<1>5. OwnerInv'
  BY CacheAssumption DEF IInv, OwnerInv, LockInv, runtimeVars, ReadLookup
<1>6. StreamInv'
  BY DEF IInv, StreamInv, TypeOK, Subscribe, ReadLookup
<1>7. MapInv' /\ UnbornInv' /\ TodoInv'
  BY DEF IInv, MapInv, UnbornInv, TodoInv, runtimeVars, reaperVars, ReadLookup
<1> QED
  BY <1>1, <1>2, <1>3, <1>4, <1>5, <1>6, <1>7 DEF IInv

\* The second lookup hits: nobody creates a second runtime.
LEMMA WriteLookupHitKeeps ==
  ASSUME IInv, NEW c \in Callers, WriteLookupHit(c)
  PROVE  IInv'
<1>1. TypeOK'
  BY DEF IInv, TypeOK, WantInv, Subscribe, runtimeVars, reaperVars,
     WriteLookupHit
<1>2. LockInv'
  BY DEF IInv, LockInv, Subscribe, reaperVars, WriteLookupHit
<1>3. WantInv'
  BY DEF IInv, WantInv, Subscribe, WriteLookupHit
<1>4. CreatorInv'
  BY CacheAssumption DEF IInv, CreatorInv, LockInv, Subscribe, WriteLookupHit
<1>5. OwnerInv'
  BY CacheAssumption DEF IInv, OwnerInv, LockInv, runtimeVars, WriteLookupHit
<1>6. StreamInv'
  BY DEF IInv, StreamInv, TypeOK, Missing, Subscribe, WriteLookupHit
<1>7. MapInv' /\ UnbornInv' /\ TodoInv'
  BY DEF IInv, MapInv, UnbornInv, TodoInv, runtimeVars, reaperVars,
     WriteLookupHit
<1> QED
  BY <1>1, <1>2, <1>3, <1>4, <1>5, <1>6, <1>7 DEF IInv

\* The second lookup misses: the runtime is new, its key is free, and its
\* creator holds the lock until it is inserted.
LEMMA WriteLookupMissKeeps ==
  ASSUME IInv, NEW c \in Callers, NEW r \in Runtimes, WriteLookupMiss(c, r)
  PROVE  IInv'
<1>1. TypeOK'
  BY CacheAssumption DEF IInv, TypeOK, StartReaper, reaperVars, WriteLookupMiss
<1>2. LockInv'
  BY CacheAssumption DEF IInv, LockInv, TypeOK, StartReaper, reaperVars,
     WriteLookupMiss
<1>3. WantInv'
  BY DEF IInv, WantInv, WriteLookupMiss
<1>4. MapInv'
  BY DEF IInv, MapInv, WriteLookupMiss
<1>5. CreatorInv'
  BY CacheAssumption DEF IInv, CreatorInv, TypeOK, UnbornInv, Missing,
     WriteLookupMiss
<1>6. OwnerInv'
  BY DEF IInv, OwnerInv, TypeOK, WantInv, WriteLookupMiss
<1>7. UnbornInv'
  BY DEF IInv, UnbornInv, WriteLookupMiss
<1>8. StreamInv'
  BY DEF IInv, StreamInv, WriteLookupMiss
<1>9. TodoInv'
  BY DEF IInv, TodoInv, StartReaper, reaperVars, WriteLookupMiss
<1> QED
  BY <1>1, <1>2, <1>3, <1>4, <1>5, <1>6, <1>7, <1>8, <1>9 DEF IInv

\* The creator inserts: it is the only one (LockInv), the key is still free
\* (CreatorInv), so no listener and no entry is overwritten.
LEMMA InsertKeeps ==
  ASSUME IInv, NEW c \in Callers, Insert(c)
  PROVE  IInv'
<1>1. TypeOK'
  BY DEF IInv, TypeOK, Subscribe, runtimeVars, reaperVars, Insert
<1>2. LockInv'
  BY CacheAssumption DEF IInv, LockInv, TypeOK, Subscribe, reaperVars, Insert
<1>3. WantInv'
  BY DEF IInv, WantInv, Subscribe, Insert
<1>4. MapInv'
  BY DEF IInv, MapInv, CreatorInv, runtimeVars, Insert
<1>5. CreatorInv'
  BY DEF IInv, CreatorInv, TypeOK, LockInv, Subscribe, Insert
<1>6. OwnerInv'
  BY CacheAssumption DEF IInv, OwnerInv, TypeOK, LockInv, CreatorInv,
     runtimeVars, Insert
<1>7. StreamInv'
  BY DEF IInv, StreamInv, TypeOK, CreatorInv, OwnerInv, Subscribe, Insert
<1>8. TodoInv'
  BY DEF IInv, TodoInv, CreatorInv, reaperVars, Insert
<1>9. UnbornInv'
  BY DEF IInv, UnbornInv, runtimeVars, Insert
<1> QED
  BY <1>1, <1>2, <1>3, <1>4, <1>5, <1>6, <1>7, <1>8, <1>9 DEF IInv

\* A caller that gives up while it waits holds neither lock nor runtime.
LEMMA AbandonKeeps ==
  ASSUME IInv, NEW c \in Callers, Abandon(c)
  PROVE  IInv'
<1>1. TypeOK'
  BY DEF IInv, TypeOK, runtimeVars, reaperVars, Abandon
<1>2. LockInv'
  BY DEF IInv, LockInv, reaperVars, Abandon
<1>3. WantInv'
  BY DEF IInv, WantInv, TypeOK, Abandon
<1>4. CreatorInv'
  BY DEF IInv, CreatorInv, runtimeVars, Abandon
<1>5. OwnerInv'
  BY DEF IInv, OwnerInv, runtimeVars, Abandon
<1>6. StreamInv'
  BY DEF IInv, StreamInv, Abandon
<1>7. MapInv' /\ UnbornInv' /\ TodoInv'
  BY DEF IInv, MapInv, UnbornInv, TodoInv, runtimeVars, reaperVars, Abandon
<1> QED
  BY <1>1, <1>2, <1>3, <1>4, <1>5, <1>6, <1>7 DEF IInv

\* A stream that is dropped leaves its runtime cached.
LEMMA DropStreamKeeps ==
  ASSUME IInv, NEW c \in Callers, DropStream(c)
  PROVE  IInv'
<1>1. TypeOK'
  BY DEF IInv, TypeOK, runtimeVars, reaperVars, DropStream
<1>2. LockInv'
  BY DEF IInv, LockInv, reaperVars, DropStream
<1>3. WantInv'
  BY DEF IInv, WantInv, TypeOK, DropStream
<1>4. CreatorInv'
  BY DEF IInv, CreatorInv, runtimeVars, DropStream
<1>5. OwnerInv'
  BY DEF IInv, OwnerInv, runtimeVars, DropStream
<1>6. StreamInv'
  BY DEF IInv, StreamInv, TypeOK, DropStream
<1>7. MapInv' /\ UnbornInv' /\ TodoInv'
  BY DEF IInv, MapInv, UnbornInv, TodoInv, runtimeVars, reaperVars, DropStream
<1> QED
  BY <1>1, <1>2, <1>3, <1>4, <1>5, <1>6, <1>7 DEF IInv

\* Only cancelled tasks end, and what is cached is not cancelled.
LEMMA TaskStopKeeps ==
  ASSUME IInv, NEW r \in Runtimes, TaskStop(r)
  PROVE  IInv'
<1>1. TypeOK'
  BY DEF IInv, TypeOK, callerVars, reaperVars, TaskStop
<1>2. MapInv'
  BY DEF IInv, MapInv, TaskStop
<1>3. CreatorInv'
  BY DEF IInv, CreatorInv, callerVars, TaskStop
<1>4. OwnerInv'
  BY DEF IInv, OwnerInv, callerVars, TaskStop
<1>5. UnbornInv'
  BY DEF IInv, UnbornInv, TaskStop
<1>6. LockInv' /\ WantInv' /\ StreamInv' /\ TodoInv'
  BY DEF IInv, LockInv, WantInv, StreamInv, TodoInv, callerVars, reaperVars,
     TaskStop
<1> QED
  BY <1>1, <1>2, <1>3, <1>4, <1>5, <1>6 DEF IInv

\* Waking up touches nothing but the reaper.
LEMMA ReaperWakeKeeps ==
  ASSUME IInv, ReaperWake
  PROVE  IInv'
<1>1. TypeOK'
  BY DEF IInv, TypeOK, callerVars, runtimeVars, ReaperWake
<1>2. LockInv'
  BY DEF IInv, LockInv, callerVars, ReaperWake
<1>3. TodoInv'
  BY DEF IInv, TodoInv, ReaperWake
<1>4. WantInv' /\ MapInv' /\ CreatorInv' /\ OwnerInv' /\ UnbornInv' /\
         StreamInv'
  BY DEF IInv, WantInv, MapInv, CreatorInv, OwnerInv, UnbornInv, StreamInv,
     callerVars, runtimeVars, ReaperWake
<1> QED
  BY <1>1, <1>2, <1>3, <1>4 DEF IInv

\* The reaper takes the lock and the keys that have an entry.
LEMMA ReaperLockKeeps ==
  ASSUME IInv, ReaperLock
  PROVE  IInv'
<1>1. TypeOK'
  BY DEF IInv, TypeOK, callerVars, runtimeVars, ReaperLock
<1>2. LockInv'
  BY CacheAssumption DEF IInv, LockInv, callerVars, ReaperLock
<1>3. TodoInv'
  BY DEF IInv, TodoInv, ReaperLock
<1>4. WantInv' /\ MapInv' /\ CreatorInv' /\ OwnerInv' /\ UnbornInv' /\
         StreamInv'
  BY DEF IInv, WantInv, MapInv, CreatorInv, OwnerInv, UnbornInv, StreamInv,
     callerVars, runtimeVars, ReaperLock
<1> QED
  BY <1>1, <1>2, <1>3, <1>4 DEF IInv

\* A visit evicts only what nobody listens to, and its key with it.
LEMMA ReaperVisitKeeps ==
  ASSUME IInv, NEW k \in Keys, ReaperVisit(k)
  PROVE  IInv'
<1>1. TypeOK'
  BY DEF IInv, TypeOK, TodoInv, DropEntry, callerVars, ReaperVisit
<1>2. MapInv'
  BY DEF IInv, MapInv, TypeOK, DropEntry, ReaperVisit
<1>3. CreatorInv'
  BY CacheAssumption DEF IInv, CreatorInv, LockInv, callerVars, ReaperVisit
<1>4. OwnerInv'
  BY CacheAssumption DEF IInv, OwnerInv, TypeOK, LockInv, DropEntry,
     ReaperVisit
<1>5. UnbornInv'
  BY DEF IInv, UnbornInv, MapInv, TodoInv, DropEntry, ReaperVisit
<1>6. StreamInv'
  BY DEF IInv, StreamInv, TypeOK, WantInv, InUse, Listeners, DropEntry,
     callerVars, ReaperVisit
<1>7. TodoInv'
  BY DEF IInv, TodoInv, TypeOK, DropEntry, ReaperVisit
<1>8. LockInv' /\ WantInv'
  BY DEF IInv, LockInv, WantInv, callerVars, ReaperVisit
<1> QED
  BY <1>1, <1>2, <1>3, <1>4, <1>5, <1>6, <1>7, <1>8 DEF IInv

\* The reaper gives the lock back.
LEMMA ReaperReleaseKeeps ==
  ASSUME IInv, ReaperRelease
  PROVE  IInv'
<1>1. TypeOK'
  BY CacheAssumption DEF IInv, TypeOK, callerVars, runtimeVars, ReaperRelease,
     LockAfterPass
<1>2. LockInv'
  BY CacheAssumption DEF IInv, LockInv, callerVars, ReaperRelease,
     LockAfterPass
<1>3. TodoInv'
  BY DEF IInv, TodoInv, ReaperRelease
<1>4. WantInv' /\ MapInv' /\ CreatorInv' /\ OwnerInv' /\ UnbornInv' /\
         StreamInv'
  BY DEF IInv, WantInv, MapInv, CreatorInv, OwnerInv, UnbornInv, StreamInv,
     callerVars, runtimeVars, ReaperRelease
<1> QED
  BY <1>1, <1>2, <1>3, <1>4 DEF IInv

\* Time touches nothing but the clock.
LEMMA TickKeeps ==
  ASSUME IInv, Tick
  PROVE  IInv'
<1>1. TypeOK'
  BY DEF IInv, TypeOK, callerVars, runtimeVars, reaperVars, Tick
<1>2. LockInv' /\ WantInv' /\ MapInv' /\ CreatorInv' /\ OwnerInv' /\ UnbornInv'
         /\ StreamInv' /\ TodoInv'
  BY DEF IInv, LockInv, WantInv, MapInv, CreatorInv, OwnerInv, UnbornInv,
     StreamInv, TodoInv, callerVars, runtimeVars, reaperVars, Tick
<1> QED
  BY <1>1, <1>2 DEF IInv

-----------------------------------------------------------------------------

\* IInv holds initially and every step keeps it, so it always holds.
THEOREM Invariance == Spec => []IInv
<1>1. Init => IInv
  BY CacheAssumption
  DEF Init, IInv, TypeOK, LockInv, WantInv, MapInv, CreatorInv, OwnerInv,
      UnbornInv, StreamInv, TodoInv
<1>2. IInv /\ [Next]_vars => IInv'
  <2> SUFFICES ASSUME IInv, [Next]_vars
               PROVE  IInv'
    OBVIOUS
  <2>1. ASSUME NEW c \in Callers, NEW k \in Keys, GetStream(c, k)
        PROVE  IInv'
    BY <2>1, GetStreamKeeps
  <2>2. ASSUME NEW c \in Callers, CallerStep(c) \/ Abandon(c) \/ DropStream(c)
        PROVE  IInv'
    BY <2>2, ReadLookupKeeps, WriteLookupHitKeeps, WriteLookupMissKeeps,
       InsertKeeps, AbandonKeeps, DropStreamKeeps DEF CallerStep
  <2>3. ASSUME NEW r \in Runtimes, TaskStop(r)
        PROVE  IInv'
    BY <2>3, TaskStopKeeps
  <2>4. CASE ReaperStep
    BY <2>4, ReaperWakeKeeps, ReaperLockKeeps, ReaperVisitKeeps,
       ReaperReleaseKeeps DEF ReaperStep
  <2>5. CASE Tick
    BY <2>5, TickKeeps
  <2>6. CASE UNCHANGED vars
    BY <2>6
    DEF vars, callerVars, runtimeVars, reaperVars, IInv, TypeOK, LockInv,
        WantInv, MapInv, CreatorInv, OwnerInv, UnbornInv, StreamInv, TodoInv
  <2> QED
    BY <2>1, <2>2, <2>3, <2>4, <2>5, <2>6 DEF Next
<1> QED
  BY <1>1, <1>2, PTL DEF Spec

\* Every reachable state is well-typed: in particular the reaper cancels
\* runtimes only, never the absence of one.
THEOREM TypeCorrect == Spec => []TypeOK
<1>1. IInv => TypeOK
  BY DEF IInv
<1> QED
  BY <1>1, Invariance, PTL

\* A stream that get_stream returned is served for as long as it is kept: its
\* runtime stays cached under its key, uncancelled and running.
THEOREM StreamsServed == Spec => []StreamsAreServed
<1>1. IInv => StreamsAreServed
  BY DEF IInv, TypeOK, WantInv, MapInv, StreamInv, StreamsAreServed
<1> QED
  BY <1>1, Invariance, PTL

\* No two uncancelled runtimes have the same key, however many callers miss
\* at once.
THEOREM OneRuntime == Spec => []OneRuntimePerKey
<1>1. IInv => OneRuntimePerKey
  <2> SUFFICES ASSUME IInv, NEW r1 \in Runtimes, NEW r2 \in Runtimes,
                      task[r1] # "unborn", r1 \notin cancelled,
                      task[r2] # "unborn", r2 \notin cancelled,
                      key[r1] = key[r2]
               PROVE  r1 = r2
    BY DEF OneRuntimePerKey
  <2>1. ASSUME NEW c1 \in Callers, pc[c1] = "insert",
               NEW c2 \in Callers, pc[c2] = "insert"
        PROVE  handle[c1] = handle[c2]
    BY <2>1 DEF IInv, LockInv
  <2>2. ASSUME NEW c \in Callers, pc[c] = "insert"
        PROVE  map[key[handle[c]]] = None
    BY <2>2 DEF IInv, CreatorInv
  <2> QED
    BY <2>1, <2>2, CacheAssumption DEF IInv, OwnerInv
<1> QED
  BY <1>1, Invariance, PTL

\* A background task that runs is cancelled, cached or about to be inserted.
THEOREM NoLeaks == Spec => []NoRuntimeLeaks
<1>1. IInv => NoRuntimeLeaks
  BY DEF IInv, OwnerInv, NoRuntimeLeaks
<1> QED
  BY <1>1, Invariance, PTL

-----------------------------------------------------------------------------

\* The reaper's clock: not too far ahead asleep, not ahead at all awake, and
\* never more than MaxLate behind.
ReaperInv ==
  /\ reaperPc # "unborn" => now <= reaperTime + MaxLate
  /\ reaperPc = "sleep" => reaperTime <= now + REAPER_INTERVAL
  /\ reaperPc \in {"lock", "retain"} => reaperTime <= now

Alive(r) == task[r] # "unborn" /\ r \notin cancelled

\* How far the reaper's clock may have run past the grace period of a live
\* runtime, cached or about to be: not at all once this pass has visited it,
\* and since then by the end of the pass, one sleep and the delay of the next
\* wake-up.
DeadlineInv ==
  \A r \in Runtimes : Alive(r) =>
    LET expiry == lastUsed[r] + EVICT_AFTER_IDLE IN
    /\ reaperPc # "unborn"
    /\ reaperPc = "sleep" => reaperTime < expiry + REAPER_INTERVAL + MaxLate
    /\ reaperPc \in {"lock", "retain"} =>
         reaperTime < expiry + REAPER_INTERVAL + 2 * MaxLate
    /\ reaperPc = "retain" /\ key[r] \notin todo => reaperTime < expiry

TimeInv == ReaperInv /\ DeadlineInv

\* The timing constants as the proofs use them.
LEMMA Timing ==
  /\ EVICT_AFTER_IDLE \in Nat /\ EVICT_AFTER_IDLE > 0
  /\ REAPER_INTERVAL \in Nat
  /\ MaxLate \in Nat /\ MaxLate > 0
BY CacheAssumption

\* While the lock is free or the reaper has it, what is alive is cached.
LEMMA AliveIsCached ==
  ASSUME IInv, NEW r \in Runtimes, Alive(r), writer \in {None, Reaper}
  PROVE  key[r] \in Keys /\ map[key[r]] = r
BY CacheAssumption DEF IInv, OwnerInv, LockInv, Alive

\* A step that touches neither the clocks nor the runtimes keeps the deadlines.
LEMMA CallersKeepTime ==
  ASSUME TimeInv, UNCHANGED <<now, runtimeVars, reaperVars>>
  PROVE  TimeInv'
BY DEF TimeInv, ReaperInv, DeadlineInv, Alive, runtimeVars, reaperVars

\* A new runtime is as young as can be, and if it is the first one the reaper
\* starts with it.
LEMMA WriteLookupMissKeepsTime ==
  ASSUME IInv, TimeInv, NEW c \in Callers, NEW r \in Runtimes,
         WriteLookupMiss(c, r)
  PROVE  TimeInv'
<1>1. ReaperInv'
  BY Timing DEF IInv, TypeOK, TimeInv, ReaperInv, StartReaper, reaperVars,
     WriteLookupMiss
<1>2. reaperPc # "retain"
  BY CacheAssumption DEF IInv, LockInv, WriteLookupMiss
<1>3. DeadlineInv'
  <2>1. lastUsed'[r] = now /\ now \in Nat
    BY DEF IInv, TypeOK, WriteLookupMiss
  <2>2. \A q \in Runtimes : q # r /\ Alive(q)' =>
          Alive(q) /\ lastUsed'[q] = lastUsed[q] /\ lastUsed[q] \in Nat
    BY DEF IInv, TypeOK, Alive, WriteLookupMiss
  <2>3. \A q \in Runtimes : Alive(q) => UNCHANGED reaperVars
    BY DEF TimeInv, DeadlineInv, StartReaper, WriteLookupMiss
  <2>4. reaperPc' # "unborn" /\ reaperPc' # "retain"
    BY <1>2 DEF StartReaper, reaperVars, WriteLookupMiss
  <2> QED
    BY <1>1, <2>1, <2>2, <2>3, <2>4, Timing
    DEF IInv, TypeOK, TimeInv, ReaperInv, DeadlineInv, StartReaper, reaperVars,
        WriteLookupMiss
<1> QED
  BY <1>1, <1>3 DEF TimeInv

\* A visit renews what is in use and leaves nothing alive that has expired.
LEMMA ReaperVisitKeepsTime ==
  ASSUME IInv, TimeInv, NEW k \in Keys, ReaperVisit(k)
  PROVE  TimeInv'
<1>1. ReaperInv'
  BY DEF TimeInv, ReaperInv, ReaperVisit
<1>2. PICK q \in Runtimes : q = map[k] /\ key[q] = k
  BY DEF IInv, TypeOK, TodoInv, MapInv, ReaperVisit
<1>3. \A r \in Runtimes : Alive(r)' => Alive(r)
  BY DEF DropEntry, Alive, ReaperVisit
<1>4. \A r \in Runtimes : Alive(r) /\ key[r] = k => r = q
  BY <1>2, AliveIsCached DEF IInv, LockInv, ReaperVisit
<1>5. \A r \in Runtimes : r # q => lastUsed'[r] = lastUsed[r]
  BY <1>2 DEF IInv, TypeOK, DropEntry, ReaperVisit
<1>6. Alive(q)' => /\ reaperTime < lastUsed'[q] + EVICT_AFTER_IDLE
                   /\ lastUsed'[q] \in Nat
  BY <1>2, Timing
  DEF IInv, TypeOK, Expired, DurationSince, DropEntry, Alive, ReaperVisit
<1>7. DeadlineInv'
  <2> SUFFICES ASSUME NEW r \in Runtimes, Alive(r)'
               PROVE  /\ reaperTime < lastUsed'[r] + EVICT_AFTER_IDLE
                                        + REAPER_INTERVAL + 2 * MaxLate
                      /\ key[r] \notin todo' =>
                           reaperTime < lastUsed'[r] + EVICT_AFTER_IDLE
    BY DEF DeadlineInv, ReaperVisit
  <2>1. CASE r = q
    BY <1>6, <2>1, Timing DEF IInv, TypeOK
  <2>2. CASE r # q
    BY <1>3, <1>4, <1>5, <2>2 DEF TimeInv, DeadlineInv, ReaperVisit
  <2> QED
    BY <2>1, <2>2
<1> QED
  BY <1>1, <1>7 DEF TimeInv

\* The other steps of the reaper move its clock by at most one delay each.
LEMMA ReaperKeepsTime ==
  ASSUME IInv, TimeInv, ReaperWake \/ ReaperLock \/ ReaperRelease
  PROVE  TimeInv'
<1>1. ReaperInv'
  BY Timing DEF IInv, TypeOK, TimeInv, ReaperInv, ReaperWake, ReaperLock,
     ReaperRelease
<1>2. CASE ReaperWake
  BY <1>1, <1>2, Timing
  DEF IInv, TypeOK, TimeInv, ReaperInv, DeadlineInv, Alive, runtimeVars,
      ReaperWake
<1>3. CASE ReaperLock
  <2>1. \A r \in Runtimes : Alive(r) => key[r] \in todo'
    BY <1>3, AliveIsCached, CacheAssumption DEF ReaperLock
  <2> QED
    BY <1>1, <1>3, <2>1
    DEF TimeInv, DeadlineInv, Alive, runtimeVars, ReaperLock
<1>4. CASE ReaperRelease
  BY <1>1, <1>4, Timing
  DEF IInv, TypeOK, TimeInv, ReaperInv, DeadlineInv, Alive, runtimeVars,
      ReaperRelease
<1> QED
  BY <1>2, <1>3, <1>4

\* A runtime is gone when the grace period, one sleep and three delays of the
\* reaper have passed since it was last seen in use, however the callers and
\* the reaper interleave; between its creation and its insertion too.
THEOREM PromptEviction == Spec => []EvictionIsPrompt
<1>1. Init => TimeInv
  BY DEF Init, TimeInv, ReaperInv, DeadlineInv, Alive
<1>2. IInv /\ TimeInv /\ [Next]_vars => TimeInv'
  <2> SUFFICES ASSUME IInv, TimeInv, [Next]_vars
               PROVE  TimeInv'
    OBVIOUS
  <2>1. ASSUME NEW c \in Callers, NEW k \in Keys, GetStream(c, k)
        PROVE  TimeInv'
    BY <2>1, CallersKeepTime DEF GetStream
  <2>2. ASSUME NEW c \in Callers,
               \/ ReadLookup(c) \/ WriteLookupHit(c) \/ Insert(c)
               \/ Abandon(c) \/ DropStream(c)
        PROVE  TimeInv'
    BY <2>2, CallersKeepTime
    DEF ReadLookup, WriteLookupHit, Insert, Abandon, DropStream
  <2>3. ASSUME NEW c \in Callers, NEW r \in Runtimes, WriteLookupMiss(c, r)
        PROVE  TimeInv'
    BY <2>3, WriteLookupMissKeepsTime
  <2>4. ASSUME NEW r \in Runtimes, TaskStop(r)
        PROVE  TimeInv'
    BY <2>4 DEF IInv, TypeOK, TimeInv, ReaperInv, DeadlineInv, Alive,
       reaperVars, TaskStop
  <2>5. CASE ReaperStep
    BY <2>5, ReaperKeepsTime, ReaperVisitKeepsTime DEF ReaperStep
  <2>6. CASE Tick
    BY <2>6, Timing DEF IInv, TypeOK, TimeInv, ReaperInv, DeadlineInv, Alive,
       runtimeVars, reaperVars, Tick
  <2>7. CASE UNCHANGED vars
    BY <2>7, CallersKeepTime DEF vars
  <2> QED
    BY <2>1, <2>2, <2>3, <2>4, <2>5, <2>6, <2>7 DEF Next, CallerStep
<1>3. IInv /\ TimeInv => EvictionIsPrompt
  <2> SUFFICES ASSUME IInv, TimeInv, NEW k \in Keys, map[k] # None
               PROVE  now < lastUsed[map[k]] + EVICT_AFTER_IDLE
                              + REAPER_INTERVAL + 3 * MaxLate
    BY DEF EvictionIsPrompt
  <2>1. map[k] \in Runtimes /\ Alive(map[k])
    BY DEF IInv, TypeOK, MapInv, Alive
  <2> QED
    BY <2>1, Timing DEF IInv, TypeOK, TimeInv, ReaperInv, DeadlineInv
<1> QED
  BY <1>1, <1>2, <1>3, Invariance, PTL DEF Spec

-----------------------------------------------------------------------------

\* The refinement mapping, as in the substitution of Abstract.
holdingMap == [c \in Callers |-> IF pc[c] = "streaming" THEN handle[c] ELSE None]
madeMap == {r \in Runtimes : r \in cancelled \/ \E k \in Keys : map[k] = r}

\* A step that leaves the three mapped variables alone is an abstract stutter.
LEMMA StutterRefines ==
  ASSUME UNCHANGED <<map, holdingMap, madeMap>>
  PROVE  [Abstract!Next]_(Abstract!vars)
BY DEF Abstract!vars, holdingMap, madeMap

\* A caller that finds its runtime cached acquires it.
LEMMA SubscribeRefines ==
  ASSUME IInv, NEW c \in Callers, pc[c] \in {"read", "write"},
         NEW k \in Keys, k = want[c],
         map[k] # None, Subscribe(c, map[k]),
         UNCHANGED <<map, cancelled>>
  PROVE  Abstract!Acquire(c, k)
BY CacheAssumption DEF IInv, TypeOK, Subscribe, Abstract!Acquire

\* Inserting is making: the key is free and the runtime was never current.
LEMMA InsertRefines ==
  ASSUME IInv, NEW c \in Callers, Insert(c),
         NEW k \in Keys, k = want[c],
         NEW r \in Runtimes, r = handle[c]
  PROVE  Abstract!Make(c, k, r)
<1>1. want[c] \in Keys /\ handle[c] \in Runtimes
  OBVIOUS
<1>2. r \notin madeMap
  BY <1>1, CacheAssumption DEF IInv, CreatorInv, MapInv, Insert, madeMap
<1>3. madeMap' = madeMap \cup {r}
  BY <1>1, CacheAssumption
  DEF IInv, TypeOK, CreatorInv, Insert, madeMap, runtimeVars
<1> QED
  BY <1>1, <1>2, <1>3, CacheAssumption, ZenonT(40)
  DEF IInv, TypeOK, CreatorInv, Insert, Subscribe, Abstract!Make, madeMap

\* Dropping a stream is releasing.
LEMMA DropStreamRefines ==
  ASSUME IInv, NEW c \in Callers, DropStream(c)
  PROVE  Abstract!Release(c)
<1>1. holdingMap[c] # None
  BY DEF IInv, StreamInv, DropStream, holdingMap
<1>2. holdingMap' = [holdingMap EXCEPT ![c] = None]
  BY DEF IInv, TypeOK, DropStream, holdingMap
<1>3. UNCHANGED <<map, madeMap>>
  BY DEF DropStream, runtimeVars, madeMap
<1> QED
  BY <1>1, <1>2, <1>3 DEF Abstract!Release, holdingMap, madeMap

\* A visit keeps the entry, or retires a runtime nobody holds.
LEMMA ReaperVisitRefines ==
  ASSUME IInv, NEW k \in Keys, ReaperVisit(k)
  PROVE  Abstract!Retire(k) \/ UNCHANGED <<map, holdingMap, madeMap>>
<1>1. map[k] # None /\ map[k] \in Runtimes
  BY DEF IInv, TypeOK, TodoInv, ReaperVisit
<1>2. CASE UNCHANGED <<map, cancelled>>
  BY <1>2 DEF ReaperVisit, callerVars, holdingMap, madeMap
<1>3. CASE ~InUse(map[k]) /\ DropEntry(k)
  <2>1. madeMap' = madeMap
    BY <1>1, <1>3, CacheAssumption DEF IInv, TypeOK, DropEntry, madeMap
  <2>2. \A c \in Callers : holdingMap[c] # map[k]
    BY <1>1, <1>3 DEF InUse, Listeners, holdingMap
  <2> QED
    BY <1>1, <1>3, <2>1, <2>2
    DEF ReaperVisit, callerVars, DropEntry, Abstract!Retire, holdingMap, madeMap
<1> QED
  BY <1>2, <1>3 DEF ReaperVisit

\* RuntimeCache implements SharedResources with exclusive retirement: the
\* callers of a key share one runtime, which is never replaced while it is
\* current, never evicted while somebody listens and never brought back.
THEOREM Refinement == Spec => ImplementsSharedResources
<1>1. Init => Abstract!Init
  BY CacheAssumption DEF Init, Abstract!Init
<1>2. IInv /\ [Next]_vars => [Abstract!Next]_(Abstract!vars)
  <2> SUFFICES ASSUME IInv, [Next]_vars
               PROVE  [Abstract!Next]_(Abstract!vars)
    OBVIOUS
  <2>1. ASSUME NEW c \in Callers, NEW k \in Keys, GetStream(c, k)
        PROVE  [Abstract!Next]_(Abstract!vars)
    <3>1. UNCHANGED <<map, holdingMap, madeMap>>
      BY <2>1 DEF IInv, TypeOK, GetStream, runtimeVars, holdingMap, madeMap
    <3> QED
      BY <3>1, StutterRefines
  <2>2. ASSUME NEW c \in Callers, ReadLookup(c) \/ WriteLookupHit(c)
        PROVE  [Abstract!Next]_(Abstract!vars)
    <3>1. CASE map[want[c]] # None
      <4>1. PICK k \in Keys : k = want[c]
        BY <2>2 DEF IInv, WantInv, ReadLookup, WriteLookupHit
      <4>2. Abstract!Acquire(c, k)
        BY <2>2, <3>1, <4>1, SubscribeRefines
        DEF ReadLookup, WriteLookupHit, runtimeVars
      <4> QED
        BY <4>2 DEF Abstract!Next
    <3>2. CASE map[want[c]] = None
      <4>1. UNCHANGED <<map, holdingMap, madeMap>>
        BY <2>2, <3>2
        DEF IInv, TypeOK, ReadLookup, WriteLookupHit, Missing, runtimeVars,
            holdingMap, madeMap
      <4> QED
        BY <4>1, StutterRefines
    <3> QED
      BY <3>1, <3>2
  <2>3. ASSUME NEW c \in Callers, NEW r \in Runtimes, WriteLookupMiss(c, r)
        PROVE  [Abstract!Next]_(Abstract!vars)
    <3>1. UNCHANGED <<map, holdingMap, madeMap>>
      BY <2>3 DEF IInv, TypeOK, WriteLookupMiss, holdingMap, madeMap
    <3> QED
      BY <3>1, StutterRefines
  <2>4. ASSUME NEW c \in Callers, Insert(c)
        PROVE  [Abstract!Next]_(Abstract!vars)
    <3>1. PICK k \in Keys : k = want[c]
      BY <2>4 DEF IInv, WantInv, Insert
    <3>2. PICK r \in Runtimes : r = handle[c]
      BY <2>4 DEF IInv, TypeOK, CreatorInv, Insert
    <3>3. Abstract!Make(c, k, r)
      BY <2>4, <3>1, <3>2, InsertRefines
    <3> QED
      BY <3>3 DEF Abstract!Next
  <2>5. ASSUME NEW c \in Callers, Abandon(c)
        PROVE  [Abstract!Next]_(Abstract!vars)
    <3>1. UNCHANGED <<map, holdingMap, madeMap>>
      BY <2>5 DEF IInv, TypeOK, Abandon, runtimeVars, holdingMap, madeMap
    <3> QED
      BY <3>1, StutterRefines
  <2>6. ASSUME NEW c \in Callers, DropStream(c)
        PROVE  [Abstract!Next]_(Abstract!vars)
    BY <2>6, DropStreamRefines DEF Abstract!Next
  <2>7. ASSUME NEW r \in Runtimes, TaskStop(r)
        PROVE  [Abstract!Next]_(Abstract!vars)
    BY <2>7, StutterRefines DEF TaskStop, callerVars, holdingMap, madeMap
  <2>8. CASE ReaperWake \/ ReaperLock \/ ReaperRelease
    BY <2>8, StutterRefines
    DEF ReaperWake, ReaperLock, ReaperRelease, callerVars, runtimeVars,
        holdingMap, madeMap
  <2>9. ASSUME NEW k \in Keys, ReaperVisit(k)
        PROVE  [Abstract!Next]_(Abstract!vars)
    BY <2>9, ReaperVisitRefines, StutterRefines DEF Abstract!Next
  <2>10. CASE Tick \/ UNCHANGED vars
    BY <2>10, StutterRefines
    DEF Tick, vars, callerVars, runtimeVars, holdingMap, madeMap
  <2> QED
    BY <2>1, <2>2, <2>3, <2>4, <2>5, <2>6, <2>7, <2>8, <2>9, <2>10
    DEF Next, CallerStep, ReaperStep
<1> QED
  BY <1>1, <1>2, Invariance, PTL DEF Spec, Abstract!Spec, ImplementsSharedResources
=============================================================================
