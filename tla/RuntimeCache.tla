---------------------------- MODULE RuntimeCache ----------------------------
(***************************************************************************)
(* The process-wide cache of subscriber runtimes (src/src/cache.rs).       *)
(*                                                                         *)
(* A caller of get_stream looks its key up under the read lock and, on a   *)
(* miss, again under the write lock; if the key is still missing it spawns *)
(* the background task, subscribes to its broadcast channel and inserts    *)
(* the entry.  A reaper task, started by the first insertion, walks the    *)
(* map from time to time and evicts the entries nobody has listened to.    *)
(*                                                                         *)
(* Granularity.  The section under the read lock awaits nothing and only   *)
(* reads the map, so it is one step.  Under the write lock the spawned     *)
(* task runs before its entry is inserted, and listeners may be dropped    *)
(* between two entries of a reaper pass, so those are separate steps.      *)
(* Dropping a stream takes no lock at all.                                 *)
(***************************************************************************)
EXTENDS Naturals

CONSTANTS
  Keys,              \* CacheKey values: (host, topic, source)
  Callers,           \* tasks that call get_stream, each holding one stream
  Runtimes,          \* identities of CachedRuntime instances, never reused
  None,              \* Option::None
  EVICT_AFTER_IDLE,  \* grace period, in ticks
  REAPER_INTERVAL,   \* sleep between two passes, in ticks
  MaxLate,           \* bound: how far the reaper falls behind the clock
  MaxTime            \* bound: the clock stops here

\* The identity under which the reaper task holds the write lock.
Reaper == "reaper"

ASSUME CacheAssumption ==
  /\ None \notin Keys \cup Runtimes \cup Callers \cup {Reaper}
  /\ Reaper \notin Callers
  /\ EVICT_AFTER_IDLE \in Nat \ {0}
  /\ REAPER_INTERVAL \in Nat \ {0}
  /\ MaxLate \in Nat \ {0}
  /\ MaxTime \in Nat

VARIABLES
  now,        \* the process clock
  map,        \* RUNTIMES_MAP: the runtime cached under each key, or None
  writer,     \* who holds the write lock across steps, or None
  key,        \* key of each runtime that was created, or None
  lastUsed,   \* CachedRuntime::last_used
  cancelled,  \* runtimes whose cancel_token has fired
  task,       \* the background task of each runtime
  pc,         \* control point of each caller
  want,       \* the key a caller asked for
  handle,     \* the runtime a caller is creating or listening to
  reaperPc,   \* control point of the reaper task
  reaperTime, \* its wake-up time asleep, its `now` awake
  todo        \* keys the running pass has still to visit

callerVars  == <<pc, want, handle>>
runtimeVars == <<key, lastUsed, cancelled, task>>
reaperVars  == <<reaperPc, reaperTime, todo>>
vars == <<now, map, writer, runtimeVars, callerVars, reaperVars>>

TypeOK ==
  /\ now \in Nat
  /\ map \in [Keys -> Runtimes \cup {None}]
  /\ writer \in Callers \cup {Reaper, None}
  /\ key \in [Runtimes -> Keys \cup {None}]
  /\ lastUsed \in [Runtimes -> Nat]
  /\ cancelled \in SUBSET Runtimes
  /\ task \in [Runtimes -> {"unborn", "running", "stopped"}]
  /\ pc \in [Callers -> {"idle", "read", "write", "insert", "streaming"}]
  /\ want \in [Callers -> Keys \cup {None}]
  /\ handle \in [Callers -> Runtimes \cup {None}]
  /\ reaperPc \in {"unborn", "sleep", "lock", "retain"}
  /\ reaperTime \in Nat
  /\ todo \in SUBSET Keys

Init ==
  /\ now = 0
  /\ map = [k \in Keys |-> None]
  /\ writer = None
  /\ key = [r \in Runtimes |-> None]
  /\ lastUsed = [r \in Runtimes |-> 0]
  /\ cancelled = {}
  /\ task = [r \in Runtimes |-> "unborn"]
  /\ pc = [c \in Callers |-> "idle"]
  /\ want = [c \in Callers |-> None]
  /\ handle = [c \in Callers |-> None]
  /\ reaperPc = "unborn"
  /\ reaperTime = 0
  /\ todo = {}

-----------------------------------------------------------------------------
(* Callers *)

\* Sender::receiver_count() > 0 is Listeners(r) # {}.
Listeners(r) == {c \in Callers : pc[c] = "streaming" /\ handle[c] = r}

\* get_stream is called: the key is built and the read lock requested.
GetStream(c, k) ==
  /\ pc[c] = "idle"
  /\ pc' = [pc EXCEPT ![c] = "read"]
  /\ want' = [want EXCEPT ![c] = k]
  /\ UNCHANGED <<now, map, writer, runtimeVars, handle, reaperVars>>

\* CachedRuntime::get_stream on the entry found: subscribe to its channel.
Subscribe(c, r) ==
  /\ pc' = [pc EXCEPT ![c] = "streaming"]
  /\ handle' = [handle EXCEPT ![c] = r]

\* The lookup under the read lock.
ReadLookup(c) ==
  /\ pc[c] = "read"
  /\ writer = None
  /\ \/ /\ map[want[c]] # None
        /\ Subscribe(c, map[want[c]])
     \/ /\ map[want[c]] = None
        /\ pc' = [pc EXCEPT ![c] = "write"]
        /\ UNCHANGED handle
  /\ UNCHANGED <<now, map, writer, runtimeVars, want, reaperVars>>

\* Mutant of Missing: no second lookup once the write lock is held.
MissingUnchecked(c) == TRUE

\* The second lookup, under the write lock, finds nothing.
Missing(c) == map[want[c]] = None

\* The second lookup finds an entry another caller inserted meanwhile.
WriteLookupHit(c) ==
  /\ pc[c] = "write"
  /\ writer = None
  /\ ~Missing(c)
  /\ Subscribe(c, map[want[c]])
  /\ UNCHANGED <<now, map, writer, runtimeVars, want, reaperVars>>

\* The first insertion starts the reaper, which first sleeps one interval.
StartReaper ==
  IF reaperPc = "unborn"
  THEN /\ reaperPc' = "sleep"
       /\ reaperTime' = now + REAPER_INTERVAL
       /\ UNCHANGED todo
  ELSE UNCHANGED reaperVars

\* The second lookup fails: the write lock is kept, the reaper is running,
\* the runtime is created and its task is spawned.
WriteLookupMiss(c, r) ==
  /\ pc[c] = "write"
  /\ writer = None
  /\ Missing(c)
  /\ task[r] = "unborn"
  /\ StartReaper
  /\ key' = [key EXCEPT ![r] = want[c]]
  /\ lastUsed' = [lastUsed EXCEPT ![r] = now]
  /\ task' = [task EXCEPT ![r] = "running"]
  /\ writer' = c
  /\ pc' = [pc EXCEPT ![c] = "insert"]
  /\ handle' = [handle EXCEPT ![c] = r]
  /\ UNCHANGED <<now, map, cancelled, want>>

\* The creator subscribes, the entry goes into the map, the lock is freed.
Insert(c) ==
  /\ pc[c] = "insert"
  /\ Subscribe(c, handle[c])
  /\ map' = [map EXCEPT ![want[c]] = handle[c]]
  /\ writer' = None
  /\ UNCHANGED <<now, runtimeVars, want, reaperVars>>

\* The future of get_stream is dropped while it awaits one of the locks.
Abandon(c) ==
  /\ pc[c] \in {"read", "write"}
  /\ pc' = [pc EXCEPT ![c] = "idle"]
  /\ want' = [want EXCEPT ![c] = None]
  /\ UNCHANGED <<now, map, writer, runtimeVars, handle, reaperVars>>

\* The caller drops its MessageStream, and with it its receiver.
DropStream(c) ==
  /\ pc[c] = "streaming"
  /\ pc' = [pc EXCEPT ![c] = "idle"]
  /\ want' = [want EXCEPT ![c] = None]
  /\ handle' = [handle EXCEPT ![c] = None]
  /\ UNCHANGED <<now, map, writer, runtimeVars, reaperVars>>

-----------------------------------------------------------------------------
(* Background tasks *)

\* The stream_task of a runtime returns only once it was cancelled.
TaskStop(r) ==
  /\ task[r] = "running"
  /\ r \in cancelled
  /\ task' = [task EXCEPT ![r] = "stopped"]
  /\ UNCHANGED <<now, map, writer, key, lastUsed, cancelled, callerVars,
                 reaperVars>>

\* The reaper wakes up and reads the clock, before it asks for the lock.
ReaperWake ==
  /\ reaperPc = "sleep"
  /\ now >= reaperTime
  /\ reaperPc' = "lock"
  /\ reaperTime' = now
  /\ UNCHANGED <<now, map, writer, runtimeVars, callerVars, todo>>

ReaperLock ==
  /\ reaperPc = "lock"
  /\ writer = None
  /\ writer' = Reaper
  /\ reaperPc' = "retain"
  /\ todo' = {k \in Keys : map[k] # None}
  /\ UNCHANGED <<now, map, runtimeVars, callerVars, reaperTime>>

\* Instant::duration_since saturates at zero: an entry may be younger than
\* the time the reaper read before it waited for the lock.
DurationSince(later, earlier) ==
  IF later > earlier THEN later - earlier ELSE 0

\* Mutant of Expired: idle entries are never let go.
ExpiredNever(r) == FALSE

Expired(r) == DurationSince(reaperTime, lastUsed[r]) >= EVICT_AFTER_IDLE

\* Mutant of InUse: the reaper looks at the time alone.
InUseIgnored(r) == FALSE

InUse(r) == Listeners(r) # {}

\* Mutant of DropEntry: the entry goes without cancelling its task.
DropEntryUncancelled(k) ==
  /\ map' = [map EXCEPT ![k] = None]
  /\ UNCHANGED <<lastUsed, cancelled>>

\* Mutant of DropEntry: the slot is emptied before its token is looked up.
DropEntryFirst(k) ==
  /\ map' = [map EXCEPT ![k] = None]
  /\ cancelled' = cancelled \cup {map'[k]}
  /\ UNCHANGED lastUsed

\* retain removes the entry, and Drop for CachedRuntime cancels its task.
DropEntry(k) ==
  /\ map' = [map EXCEPT ![k] = None]
  /\ cancelled' = cancelled \cup {map[k]}
  /\ UNCHANGED lastUsed

\* One call of the closure given to retain.
ReaperVisit(k) ==
  /\ reaperPc = "retain"
  /\ k \in todo
  /\ todo' = todo \ {k}
  /\ \/ /\ InUse(map[k])
        /\ lastUsed' = [lastUsed EXCEPT ![map[k]] = reaperTime]
        /\ UNCHANGED <<map, cancelled>>
     \/ /\ ~InUse(map[k])
        /\ ~Expired(map[k])
        /\ UNCHANGED <<map, lastUsed, cancelled>>
     \/ /\ ~InUse(map[k])
        /\ Expired(map[k])
        /\ DropEntry(k)
  /\ UNCHANGED <<now, writer, key, task, callerVars, reaperPc, reaperTime>>

\* Mutant of LockAfterPass: the reaper sleeps with the lock held.
LockAfterPassHeld == Reaper

\* The guard is a temporary of the statement that calls retain.
LockAfterPass == None

\* The pass is over: the lock is freed and the reaper goes back to sleep.
ReaperRelease ==
  /\ reaperPc = "retain"
  /\ todo = {}
  /\ writer' = LockAfterPass
  /\ reaperPc' = "sleep"
  /\ reaperTime' = now + REAPER_INTERVAL
  /\ UNCHANGED <<now, map, runtimeVars, callerVars, todo>>

\* Time passes.  The reaper may be late, because it waits for the lock or
\* for the scheduler, but by less than MaxLate ticks.
Tick ==
  /\ now < MaxTime
  /\ reaperPc # "unborn" => now < reaperTime + MaxLate
  /\ now' = now + 1
  /\ UNCHANGED <<map, writer, runtimeVars, callerVars, reaperVars>>

-----------------------------------------------------------------------------
CallerStep(c) ==
  \/ ReadLookup(c)
  \/ WriteLookupHit(c)
  \/ \E r \in Runtimes : WriteLookupMiss(c, r)
  \/ Insert(c)

ReaperStep ==
  \/ ReaperWake
  \/ ReaperLock
  \/ \E k \in Keys : ReaperVisit(k)
  \/ ReaperRelease

Next ==
  \/ \E c \in Callers, k \in Keys : GetStream(c, k)
  \/ \E c \in Callers : CallerStep(c) \/ Abandon(c) \/ DropStream(c)
  \/ \E r \in Runtimes : TaskStop(r)
  \/ ReaperStep
  \/ Tick

Spec == Init /\ [][Next]_vars

(***************************************************************************)
(* Tokio's RwLock queues its waiters first-in first-out, so a caller or    *)
(* the reaper that keeps asking gets the lock even though others hold it   *)
(* in between: strong fairness.  Everything else a task does once it is    *)
(* runnable: weak fairness.  Callers need not ask for streams, drop them   *)
(* or give up.                                                             *)
(***************************************************************************)
Fairness ==
  /\ \A c \in Callers : SF_vars(CallerStep(c))
  /\ SF_vars(ReaperStep)
  /\ \A r \in Runtimes : WF_vars(TaskStop(r))
  /\ WF_vars(Tick)

FairSpec == Spec /\ Fairness

-----------------------------------------------------------------------------
(* Properties *)

\* A stream that get_stream returned stays attached to a live runtime for
\* as long as its owner keeps it: the runtime is the one cached under the
\* key that was asked for, it is not cancelled and its task runs, whatever
\* the reaper and the other callers do.  Otherwise the stream would end or
\* stay silent for ever.
StreamsAreServed ==
  \A c \in Callers : pc[c] = "streaming" =>
    /\ map[want[c]] = handle[c]
    /\ key[handle[c]] = want[c]
    /\ handle[c] \notin cancelled
    /\ task[handle[c]] = "running"

\* "Each (host, topic) pair reuses one background streaming runtime": two
\* runtimes of one key are never both uncancelled, even when several
\* callers miss at once and each goes on to the write lock.
OneRuntimePerKey ==
  \A r1, r2 \in Runtimes :
    /\ task[r1] # "unborn" /\ r1 \notin cancelled
    /\ task[r2] # "unborn" /\ r2 \notin cancelled
    /\ key[r1] = key[r2]
    => r1 = r2

\* A background task is never leaked: one that still runs was told to stop,
\* or is cached, or its creator is about to insert it.
NoRuntimeLeaks ==
  \A r \in Runtimes : task[r] = "running" =>
    \/ r \in cancelled
    \/ map[key[r]] = r
    \/ \E c \in Callers : pc[c] = "insert" /\ handle[c] = r

\* "Idle runtimes are evicted after a short grace period once they no longer
\* have active listeners" (module comment of cache.rs): a runtime without
\* listeners is gone when the grace period and one sleep of the reaper have
\* passed since it was last seen in use, and the reaper was late in ending
\* a pass, in waking up and in getting the lock, its clock already read.
EvictionIsPrompt ==
  \A k \in Keys : map[k] # None /\ Listeners(map[k]) = {} =>
    now < lastUsed[map[k]] + EVICT_AFTER_IDLE + REAPER_INTERVAL + 3 * MaxLate

\* A call of get_stream returns a stream unless its caller gives up, or the
\* bound on runtimes is reached: nobody waits for the locks for ever.
GetStreamReturns ==
  \A c \in Callers :
    (pc[c] \in {"read", "write"})
    ~> (pc[c] \in {"streaming", "idle"} \/ \A r \in Runtimes : task[r] # "unborn")

Abstract == INSTANCE SharedResources
  WITH Users <- Callers, Resources <- Runtimes, RetireInUse <- FALSE,
       current <- map,
       holding <- [c \in Callers |->
                     IF pc[c] = "streaming" THEN handle[c] ELSE None],
       made <- {r \in Runtimes : r \in cancelled \/ \E k \in Keys : map[k] = r}

\* The callers of a key share one runtime, which is not replaced before it is
\* evicted, not evicted while somebody listens and not brought back.
ImplementsSharedResources == Abstract!Spec
=============================================================================
