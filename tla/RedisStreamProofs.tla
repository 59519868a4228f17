-------------------------- MODULE RedisStreamProofs --------------------------
(***************************************************************************)
(* Proofs of the safety properties of RedisStreamRuntime, for any number   *)
(* of entries, hosts, users and managers.                                  *)
(***************************************************************************)
EXTENDS RedisStreamRuntime, Integers, TLAPS

(***************************************************************************)
(* The connection cache                                                    *)
(***************************************************************************)

\* A user that is not idle works with a host, it holds a manager from the
\* moment get_connection returned one, and the lock is held across steps
\* exactly by the user that connects, whose host has no manager yet.
CacheInv ==
  /\ \A u \in Users : users[u] # "idle" => host[u] \in Hosts
  /\ \A u \in Users : users[u] \in {"idle", "read", "write", "connecting"}
       => conn[u] = None
  /\ \A u \in Users : writer = u <=> users[u] = "connecting"
  /\ \A u \in Users : users[u] = "connecting" => map[host[u]] = None

(***************************************************************************)
(* The stream                                                              *)
(***************************************************************************)

\* A session begins with its first entry, and entries are known to exist.
SessionInv ==
  /\ latest = Dollar <=> first = 0
  /\ latest # Dollar => first <= latest /\ latest <= added
  /\ \A i \in 1 .. Len(sent) :
       sent[i] <= added /\ (latest # Dollar => sent[i] <= latest)

\* A reply is a run of consecutive entries behind everything sent and seen.
ReplyInv ==
  /\ pc \notin {"reply", "entries"} => reply = <<>>
  /\ \A i \in 1 .. Len(reply) :
       /\ reply[i] = reply[1] + i - 1
       /\ reply[i] <= added
       /\ latest # Dollar => latest < reply[i]
       /\ \A j \in 1 .. Len(sent) : sent[j] < reply[i]

\* What lies between the latest entry and the reply was trimmed unread; so was
\* what is trimmed beyond the reply; and a poll blocks only if nothing else
\* lies beyond the latest entry.
GapInv ==
  /\ reply # <<>> /\ latest # Dollar => latest + 1 .. reply[1] - 1 \subseteq missed
  /\ reply # <<>> => reply[Len(reply)] + 1 .. trimmed \subseteq missed
  /\ reply = <<>> /\ latest # Dollar => latest + 1 .. trimmed \subseteq missed
  /\ pc = "blocked" /\ latest # Dollar => latest + 1 .. added \subseteq 1 .. trimmed

StreamInv ==
  /\ SessionInv
  /\ ReplyInv
  /\ GapInv
  /\ SentInOrder
  /\ NoGapInSession

IInv == TypeOK /\ CacheInv /\ StreamInv

-----------------------------------------------------------------------------
(* The task and its fellow users take the steps of ConnectionCache *)

\* Every step of the runtime is a step of the cache or none of its business.
LEMMA StepUsesCache ==
  ASSUME [Next]_vars
  PROVE  [Cache!Next]_(Cache!vars)
<1>1. ASSUME UNCHANGED cacheVars
      PROVE  [Cache!Next]_(Cache!vars)
  BY <1>1 DEF cacheVars, Cache!vars
<1>2. ASSUME NEW u \in Users,
             GetConnection(u) \/ Cache!ConnectFails(u) \/ Cache!EvictConnection(u)
      PROVE  Cache!Next
  BY <1>2 DEF GetConnection, Connects, Cache!Next, Cache!UserStep
<1>3. ASSUME NEW u \in Users,
             \/ \E h \in Hosts : Cache!GetConnection(u, h)
             \/ Cache!Abandon(u) \/ Cache!Release(u) \/ Cache!XreadFails(u)
      PROVE  Cache!Next
  BY <1>3 DEF Cache!Next
<1>4. CASE LoopCheck
  BY <1>1, <1>3, <1>4, StreamAssumption DEF LoopCheck
<1>5. CASE GetConnectionStep
  BY <1>2, <1>5, StreamAssumption DEF GetConnectionStep
<1>6. ASSUME NEW kind \in ErrorKinds,
             GetConnectionFails(kind) \/ EvictConnection(kind)
      PROVE  Cache!Next
  BY <1>2, <1>6, StreamAssumption DEF GetConnectionFails, EvictConnection
<1>7. CASE XreadFails \/ MonitorCancelled
  BY <1>3, <1>7, StreamAssumption DEF XreadFails, MonitorCancelled
<1>8. CASE SleepEnds
  BY <1>1, <1>3, <1>8, StreamAssumption DEF SleepEnds
<1>9. CASE XreadArrives \/ XreadTimesOut \/ EmptyReply \/ HandleEntry
  BY <1>1, <1>9 DEF XreadArrives, XreadTimesOut, EmptyReply, HandleEntry
<1>10. CASE Cancel \/ Xadd \/ ServerGoesDown \/ ServerComesUp \/ UNCHANGED vars
  BY <1>1, <1>10 DEF Cancel, Xadd, ServerGoesDown, ServerComesUp, vars
<1>11. ASSUME NEW u \in Users, OtherUserGoesOn(u) \/ OtherUserTurns(u)
       PROVE  Cache!Next
  BY <1>2, <1>3, <1>11 DEF OtherUserGoesOn, OtherUserTurns
<1> QED
  BY <1>4, <1>5, <1>6, <1>7, <1>8, <1>9, <1>10, <1>11 DEF Next, TaskStep

\* A user asks for a connection.
LEMMA CacheGetConnection ==
  ASSUME Cache!TypeOK, CacheInv, NEW u \in Users, NEW h \in Hosts,
         Cache!GetConnection(u, h)
  PROVE  Cache!TypeOK' /\ CacheInv'
<1>1. Cache!TypeOK'
  BY DEF Cache!TypeOK, Cache!GetConnection
<1>2. CacheInv'
  BY DEF CacheInv, Cache!TypeOK, Cache!GetConnection
<1> QED
  BY <1>1, <1>2

\* Lookups, under the read lock and under the write lock.
LEMMA CacheLookup ==
  ASSUME Cache!TypeOK, CacheInv, NEW u \in Users,
         Cache!ReadLookup(u) \/ Cache!WriteLookupHit(u) \/ Cache!WriteLookupMiss(u)
  PROVE  Cache!TypeOK' /\ CacheInv'
<1>1. host[u] \in Hosts
  BY DEF CacheInv, Cache!ReadLookup, Cache!WriteLookupHit, Cache!WriteLookupMiss
<1>2. Cache!TypeOK'
  BY <1>1 DEF Cache!TypeOK, Cache!ReadLookup, Cache!WriteLookupHit,
     Cache!WriteLookupMiss, Cache!Obtain, Cache!Missing
<1>3. CacheInv'
  BY <1>1, StreamAssumption
  DEF CacheInv, Cache!TypeOK, Cache!ReadLookup, Cache!WriteLookupHit,
      Cache!WriteLookupMiss, Cache!Obtain, Cache!Missing
<1> QED
  BY <1>2, <1>3

\* The user that holds the lock connects; nobody else can have.
LEMMA CacheConnect ==
  ASSUME Cache!TypeOK, CacheInv, NEW u \in Users, NEW m \in Managers,
         Cache!ConnectOk(u, m)
  PROVE  Cache!TypeOK' /\ CacheInv'
<1>1. Cache!TypeOK'
  BY StreamAssumption DEF CacheInv, Cache!TypeOK, Cache!ConnectOk, Cache!Obtain
<1>2. CacheInv'
  BY StreamAssumption DEF CacheInv, Cache!TypeOK, Cache!ConnectOk, Cache!Obtain
<1> QED
  BY <1>1, <1>2

\* A call ends, and with it the lock if the user had it.
LEMMA CacheFinish ==
  ASSUME Cache!TypeOK, CacheInv, NEW u \in Users,
         Cache!ConnectFails(u) \/ Cache!Abandon(u) \/ Cache!Release(u)
  PROVE  Cache!TypeOK' /\ CacheInv'
<1>1. Cache!TypeOK'
  BY DEF Cache!TypeOK, Cache!ConnectFails, Cache!Abandon, Cache!Release,
     Cache!Finish, Cache!LockAfterError
<1>2. CacheInv'
  BY StreamAssumption
  DEF CacheInv, Cache!TypeOK, Cache!ConnectFails, Cache!Abandon, Cache!Release,
     Cache!Finish, Cache!LockAfterError
<1> QED
  BY <1>1, <1>2

\* Whatever is cached is evicted, but not while somebody connects.
LEMMA CacheEvict ==
  ASSUME Cache!TypeOK, CacheInv, NEW u \in Users,
         Cache!XreadFails(u) \/ Cache!EvictConnection(u)
  PROVE  Cache!TypeOK' /\ CacheInv'
<1>1. Cache!TypeOK'
  BY DEF Cache!TypeOK, Cache!XreadFails, Cache!EvictConnection
<1>2. CacheInv'
  BY StreamAssumption
  DEF CacheInv, Cache!TypeOK, Cache!XreadFails, Cache!EvictConnection
<1> QED
  BY <1>1, <1>2

LEMMA CacheKeeps ==
  ASSUME Cache!TypeOK, CacheInv, [Cache!Next]_(Cache!vars)
  PROVE  Cache!TypeOK' /\ CacheInv'
<1>1. CASE UNCHANGED Cache!vars
  BY <1>1 DEF Cache!vars, Cache!TypeOK, CacheInv
<1>2. CASE Cache!Next
  BY <1>2, CacheGetConnection, CacheLookup, CacheConnect, CacheFinish,
     CacheEvict DEF Cache!Next, Cache!UserStep
<1> QED
  BY <1>1, <1>2

\* A lookup that hits acquires, connecting makes, the end of a call releases
\* what the user held, and an eviction retires what is cached, if anything.
LEMMA CacheRefines ==
  ASSUME Cache!TypeOK, CacheInv, [Cache!Next]_(Cache!vars)
  PROVE  [Cache!Abstract!Next]_(Cache!Abstract!vars)
<1>1. ASSUME UNCHANGED <<map, conn, made>>
      PROVE  [Cache!Abstract!Next]_(Cache!Abstract!vars)
  BY <1>1 DEF Cache!Abstract!vars
<1>2. ASSUME NEW u \in Users, Cache!ReadLookup(u) \/ Cache!WriteLookupHit(u)
      PROVE  [Cache!Abstract!Next]_(Cache!Abstract!vars)
  <2>1. PICK h \in Hosts : h = host[u]
    BY <1>2 DEF CacheInv, Cache!ReadLookup, Cache!WriteLookupHit
  <2>2. CASE map[h] # None
    <3>1. Cache!Abstract!Acquire(u, h)
      BY <1>2, <2>1, <2>2
      DEF CacheInv, Cache!ReadLookup, Cache!WriteLookupHit, Cache!Obtain,
          Cache!Abstract!Acquire
    <3> QED
      BY <3>1 DEF Cache!Abstract!Next
  <2>3. CASE map[h] = None
    BY <1>1, <1>2, <2>1, <2>3
    DEF Cache!ReadLookup, Cache!WriteLookupHit, Cache!Missing
  <2> QED
    BY <2>2, <2>3
<1>3. ASSUME NEW u \in Users, NEW m \in Managers, Cache!ConnectOk(u, m)
      PROVE  [Cache!Abstract!Next]_(Cache!Abstract!vars)
  <2>1. PICK h \in Hosts : h = host[u]
    BY <1>3 DEF CacheInv, Cache!ConnectOk
  <2>2. Cache!Abstract!Make(u, h, m)
    BY <1>3, <2>1
    DEF CacheInv, Cache!ConnectOk, Cache!Obtain, Cache!Abstract!Make
  <2> QED
    BY <2>2 DEF Cache!Abstract!Next
<1>4. ASSUME NEW u \in Users, Cache!ConnectFails(u) \/ Cache!Abandon(u)
      PROVE  [Cache!Abstract!Next]_(Cache!Abstract!vars)
  <2>1. conn' = conn
    BY <1>4 DEF Cache!TypeOK, CacheInv, Cache!ConnectFails, Cache!Abandon,
       Cache!Finish
  <2> QED
    BY <1>1, <1>4, <2>1 DEF Cache!ConnectFails, Cache!Abandon
<1>5. ASSUME NEW u \in Users, Cache!Release(u)
      PROVE  [Cache!Abstract!Next]_(Cache!Abstract!vars)
  <2>1. Cache!Abstract!Release(u)
    BY <1>5 DEF Cache!TypeOK, Cache!Release, Cache!Finish,
       Cache!Abstract!Release
  <2> QED
    BY <2>1 DEF Cache!Abstract!Next
<1>6. ASSUME NEW u \in Users, Cache!EvictConnection(u)
      PROVE  [Cache!Abstract!Next]_(Cache!Abstract!vars)
  <2>1. PICK h \in Hosts : h = host[u]
    BY <1>6 DEF CacheInv, Cache!EvictConnection
  <2>2. CASE map[h] # None
    <3>1. Cache!Abstract!Retire(h)
      BY <1>6, <2>1, <2>2 DEF Cache!EvictConnection, Cache!Abstract!Retire
    <3> QED
      BY <3>1 DEF Cache!Abstract!Next
  <2>3. CASE map[h] = None
    <3>1. map' = map
      BY <1>6, <2>1, <2>3 DEF Cache!TypeOK, Cache!EvictConnection
    <3> QED
      BY <1>1, <1>6, <3>1 DEF Cache!EvictConnection
  <2> QED
    BY <2>2, <2>3
<1>7. ASSUME NEW u \in Users, NEW h \in Hosts,
             \/ Cache!GetConnection(u, h)
             \/ Cache!WriteLookupMiss(u)
             \/ Cache!XreadFails(u)
      PROVE  [Cache!Abstract!Next]_(Cache!Abstract!vars)
  BY <1>1, <1>7
  DEF Cache!GetConnection, Cache!WriteLookupMiss, Cache!XreadFails
<1>8. CASE UNCHANGED Cache!vars
  BY <1>1, <1>8 DEF Cache!vars
<1> QED
  BY <1>2, <1>3, <1>4, <1>5, <1>6, <1>7, <1>8, StreamAssumption
  DEF Cache!Next, Cache!UserStep

\* The runtime and its fellow users behave as ConnectionCache says users do.
THEOREM UsesCache == Spec => Cache!Spec
<1>1. Init => Cache!Init
  BY DEF Init
<1>2. [Next]_vars => [Cache!Next]_(Cache!vars)
  BY StepUsesCache
<1> QED
  BY <1>1, <1>2, PTL DEF Spec, Cache!Spec

\* The users of a host share one manager, which is not replaced before it is
\* evicted, and users that miss at the same time share what the first makes.
THEOREM Refinement == Spec => ImplementsSharedResources
<1>1. Cache!Init => Cache!TypeOK /\ CacheInv
  BY StreamAssumption DEF Cache!Init, Cache!TypeOK, CacheInv
<1>2. Cache!TypeOK /\ CacheInv /\ [Cache!Next]_(Cache!vars)
      => Cache!TypeOK' /\ CacheInv'
  BY CacheKeeps
<1>3. Cache!Init => Cache!Abstract!Init
  BY DEF Cache!Init, Cache!Abstract!Init
<1>4. Cache!TypeOK /\ CacheInv /\ [Cache!Next]_(Cache!vars)
      => [Cache!Abstract!Next]_(Cache!Abstract!vars)
  BY CacheRefines
<1> QED
  BY <1>1, <1>2, <1>3, <1>4, UsesCache, PTL
  DEF Cache!Spec, Cache!Abstract!Spec, Cache!ImplementsSharedResources,
      ImplementsSharedResources

-----------------------------------------------------------------------------
(* What the queue operations do to the entries in a sequence *)

LEMMA ElementsOf ==
  ASSUME NEW S, NEW s \in Seq(S)
  PROVE  Len(s) \in Nat /\ \A i \in 1 .. Len(s) : s[i] \in S
OBVIOUS

LEMMA ToSetAppend ==
  ASSUME NEW S, NEW s \in Seq(S), NEW e \in S
  PROVE  ToSet(s) \cup {e} \subseteq ToSet(Append(s, e))
<1>1. ToSet(s) \subseteq ToSet(Append(s, e))
  BY DEF ToSet
<1>2. e \in ToSet(Append(s, e))
  <2>1. Append(s, e)[Len(s) + 1] = e /\ Len(s) + 1 \in DOMAIN Append(s, e)
    OBVIOUS
  <2> QED
    BY <2>1 DEF ToSet
<1> QED
  BY <1>1, <1>2

-----------------------------------------------------------------------------
(* The task *)

\* The part of TypeOK that is not about the cache.
TaskTypeOK ==
  /\ cancelled \in BOOLEAN
  /\ pc \in {"check", "connect", "request", "blocked", "reply", "entries",
            "evict", "sleep", "done"}
  /\ outage \in OutageStates
  /\ latest \in Entries \cup {Dollar}
  /\ reply \in Seq(Entries)
  /\ sent \in Seq(Entries)
  /\ added \in 0 .. MaxEntries
  /\ trimmed \in 0 .. added
  /\ serverUp \in BOOLEAN
  /\ first \in 0 .. MaxEntries
  /\ missed \in SUBSET Entries

TaskInv == TaskTypeOK /\ StreamInv

LEMMA TaskPart == TypeOK <=> TaskTypeOK /\ Cache!TypeOK
BY DEF TypeOK, TaskTypeOK

LEMMA EntryTypes ==
  /\ Entries \subseteq Nat \ {0}
  /\ TaskTypeOK => /\ added \in Nat /\ trimmed \in Nat /\ trimmed <= added
                   /\ first \in Nat
                   /\ latest # Dollar => latest \in Nat \ {0}
                   /\ Len(sent) \in Nat /\ Len(reply) \in Nat
                   /\ \A i \in 1 .. Len(sent) : sent[i] \in Nat \ {0}
                   /\ \A i \in 1 .. Len(reply) : reply[i] \in Nat \ {0}
<1>1. Entries \subseteq Nat \ {0}
  BY StreamAssumption DEF Entries
<1>2. ASSUME TaskTypeOK
      PROVE  /\ \A i \in 1 .. Len(sent) : sent[i] \in Nat \ {0}
             /\ \A i \in 1 .. Len(reply) : reply[i] \in Nat \ {0}
             /\ Len(sent) \in Nat /\ Len(reply) \in Nat
  BY <1>1, <1>2, ElementsOf DEF TaskTypeOK
<1>3. ASSUME TaskTypeOK
      PROVE  /\ added \in Nat /\ trimmed \in Nat /\ trimmed <= added
             /\ first \in Nat
             /\ latest # Dollar => latest \in Nat \ {0}
  <2>1. /\ added \in 0 .. MaxEntries /\ trimmed \in 0 .. added
        /\ first \in 0 .. MaxEntries /\ latest \in Entries \cup {Dollar}
    BY <1>3 DEF TaskTypeOK
  <2> QED
    BY <1>1, <2>1, StreamAssumption
<1> QED
  BY <1>1, <1>2, <1>3

\* Steps that leave the stream and its entries alone.
LEMMA QuietKeeps ==
  ASSUME TaskInv, UNCHANGED <<latest, reply, sent, added, trimmed, first, missed>>,
         pc' = pc \/ (pc' # "blocked" /\ (pc' = "reply" \/ reply = <<>>))
  PROVE  StreamInv'
<1>1. SessionInv' /\ SentInOrder' /\ NoGapInSession'
  BY DEF TaskInv, StreamInv, SessionInv, SentInOrder, NoGapInSession
<1>2. ReplyInv'
  BY DEF TaskInv, StreamInv, ReplyInv
<1>3. GapInv'
  BY DEF TaskInv, StreamInv, GapInv
<1> QED
  BY <1>1, <1>2, <1>3 DEF StreamInv

\* monitor_stream ends: the next session starts from "$" again.
LEMMA MonitorEndsKeeps ==
  ASSUME TaskInv, MonitorEnds, UNCHANGED <<sent, added, trimmed, missed>>,
         pc' \in {"evict", "check"}
  PROVE  StreamInv'
<1>1. SessionInv' /\ SentInOrder' /\ NoGapInSession'
  BY DEF TaskInv, StreamInv, SessionInv, SentInOrder, NoGapInSession, MonitorEnds
<1>2. ReplyInv' /\ GapInv'
  BY DEF ReplyInv, GapInv, MonitorEnds
<1> QED
  BY <1>1, <1>2 DEF StreamInv

\* A recovery forgets the outage altogether.
LEMMA OnRecoveryResets ==
  ASSUME NEW o \in OutageStates
  PROVE  OnRecovery(o) \in OutageStates
<1>1. INITIAL_BACKOFF \in INITIAL_BACKOFF .. MAX_BACKOFF
  BY BackoffAssumption
<1>2. [o EXCEPT !.last_error_kind = NoError] \in OutageStates
  BY DEF OutageStates
<1>3. OnRecovery(o) = [[o EXCEPT !.last_error_kind = NoError]
                          EXCEPT !.next_backoff = INITIAL_BACKOFF]
  BY DEF OnRecovery
<1> HIDE DEF OnRecovery
<1> QED
  BY <1>1, <1>2, <1>3 DEF OutageStates

\* The steps of start_stream.
LEMMA StartStreamKeeps ==
  ASSUME TaskInv,
         \/ LoopCheck \/ GetConnectionStep \/ SleepEnds
         \/ \E kind \in ErrorKinds : GetConnectionFails(kind) \/ EvictConnection(kind)
  PROVE  TaskInv'
<1>1. outage \in OutageStates
  BY DEF TaskInv, TaskTypeOK
<1>2. outage' \in OutageStates
  <2>1. CASE LoopCheck \/ GetConnectionStep
    BY <1>1, <2>1, OnRecoveryResets DEF LoopCheck, GetConnectionStep
  <2>2. CASE SleepEnds
    BY <1>1, <2>2, BackoffAssumption DEF SleepEnds, AdvanceBackoff, OutageStates
  <2>3. ASSUME NEW kind \in ErrorKinds,
               GetConnectionFails(kind) \/ EvictConnection(kind)
        PROVE  outage' \in OutageStates
    BY <1>1, <2>3
    DEF GetConnectionFails, EvictConnection, RecordError, RecordErrorLogs,
        OutageStates
  <2> QED
    BY <2>1, <2>2, <2>3
<1>3. /\ UNCHANGED <<cancelled, latest, reply, sent, added, trimmed, serverUp,
                     first, missed>>
      /\ pc \in {"check", "connect", "evict", "sleep"}
      /\ pc' \in {"check", "connect", "request", "sleep", "done"}
  BY DEF LoopCheck, GetConnectionStep, SleepEnds, GetConnectionFails,
     EvictConnection, redisVars, historyVars
<1>4. reply = <<>>
  BY <1>3 DEF TaskInv, StreamInv, ReplyInv
<1>5. TaskTypeOK'
  BY <1>2, <1>3 DEF TaskInv, TaskTypeOK
<1> QED
  BY <1>3, <1>4, <1>5, QuietKeeps DEF TaskInv

\* An error or the token ends monitor_stream.
LEMMA SessionEndKeeps ==
  ASSUME TaskInv, XreadFails \/ MonitorCancelled
  PROVE  TaskInv'
<1>1. /\ MonitorEnds
      /\ UNCHANGED <<cancelled, outage, sent, added, trimmed, serverUp, missed>>
      /\ pc' \in {"evict", "check"}
  BY DEF XreadFails, MonitorCancelled, redisVars
<1>2. TaskTypeOK'
  <2>1. reply' \in Seq(Entries) /\ first' \in 0 .. MaxEntries
    BY <1>1, StreamAssumption DEF MonitorEnds
  <2> QED
    BY <1>1, <2>1 DEF TaskInv, TaskTypeOK, MonitorEnds
<1> QED
  BY <1>1, <1>2, MonitorEndsKeeps DEF TaskInv

\* Redis answers with all it has beyond the latest entry, or nothing: the
\* entries of the reply are consecutive, and what is missing before them was
\* trimmed.
LEMMA XreadArrivesKeeps ==
  ASSUME TaskInv, XreadArrives
  PROVE  TaskInv'
<1> DEFINE id == IF latest = Dollar THEN added ELSE latest
           base == IF id > trimmed THEN id ELSE trimmed
<1>1. /\ TaskTypeOK /\ SessionInv /\ ReplyInv /\ GapInv
      /\ SentInOrder /\ NoGapInSession
  BY DEF TaskInv, StreamInv
<1>2. /\ added \in Nat /\ trimmed \in Nat /\ trimmed <= added
      /\ latest # Dollar => latest \in Nat /\ latest <= added
      /\ added <= MaxEntries
  BY <1>1, EntryTypes DEF SessionInv, TaskTypeOK
<1>3. /\ UNCHANGED <<cancelled, outage, latest, sent, added, trimmed, serverUp,
                     first, missed>>
      /\ pc' = IF reply' = <<>> THEN "blocked" ELSE "reply"
      /\ reply = <<>>
  BY <1>1 DEF XreadArrives, ReplyInv, redisVars, historyVars
<1>4. base \in Nat /\ base <= added
  BY <1>2
<1>5. /\ reply' = [i \in 1 .. added - base |-> base + i]
      /\ added - base \in Nat
  <2>1. reply' = Newer(id)
    BY DEF XreadArrives
  <2> HIDE DEF id
  <2>2. Newer(id) = [i \in 1 .. added - base |-> base + i]
    BY DEF Newer
  <2> QED
    BY <1>2, <1>4, <2>1, <2>2
<1>6. /\ latest = Dollar => base = added
      /\ latest # Dollar => base >= latest
      /\ base > trimmed /\ latest # Dollar => base = latest
      /\ base >= trimmed
  BY <1>2
<1> HIDE DEF base, id
<1>7. /\ reply' \in Seq(Entries)
      /\ Len(reply') = added - base
      /\ \A i \in 1 .. Len(reply') : reply'[i] = base + i
      /\ reply' = <<>> <=> added = base
  <2>1. \A i \in 1 .. added - base : base + i \in Entries
    BY <1>2, <1>4, StreamAssumption DEF Entries
  <2>2. reply' \in Seq(Entries) /\ Len(reply') = added - base
    BY <1>5, <2>1
  <2>3. \A i \in 1 .. Len(reply') : reply'[i] = base + i
    BY <1>5, <2>2
  <2>4. reply' = <<>> <=> Len(reply') = 0
    BY <2>2
  <2> QED
    BY <1>2, <1>4, <2>2, <2>3, <2>4
<1>8. TaskTypeOK'
  BY <1>1, <1>3, <1>7 DEF TaskTypeOK
<1>9. SessionInv' /\ SentInOrder' /\ NoGapInSession'
  BY <1>1, <1>3 DEF SessionInv, SentInOrder, NoGapInSession
<1>10. ReplyInv'
  <2>1. pc' \notin {"reply", "entries"} => reply' = <<>>
    BY <1>3
  <2>2. ASSUME NEW i \in 1 .. Len(reply')
        PROVE  /\ reply'[i] = reply'[1] + i - 1
               /\ reply'[i] <= added
               /\ latest # Dollar /\ latest < reply'[i]
    <3>1. i \in Nat /\ 1 <= i /\ i <= added - base /\ 1 \in 1 .. Len(reply')
      BY <1>2, <1>4, <1>7, <2>2
    <3>2. reply'[i] = base + i /\ reply'[1] = base + 1
      BY <1>7, <2>2, <3>1
    <3> QED
      BY <1>2, <1>4, <1>6, <3>1, <3>2
  <2>3. ASSUME NEW i \in 1 .. Len(reply'), NEW j \in 1 .. Len(sent)
        PROVE  sent[j] < reply'[i]
    <3>1. sent[j] \in Nat /\ sent[j] <= latest /\ reply'[i] \in Nat
      BY <1>1, <1>7, <2>2, <2>3, EntryTypes, ElementsOf DEF SessionInv
    <3> QED
      BY <1>2, <2>2, <2>3, <3>1
  <2> QED
    BY <1>3, <2>1, <2>2, <2>3 DEF ReplyInv
<1>11. GapInv'
  <2>1. ASSUME reply' # <<>>, latest # Dollar
        PROVE  latest + 1 .. reply'[1] - 1 \subseteq missed
    <3>1. reply'[1] = base + 1
      BY <1>2, <1>4, <1>7, <2>1
    <3>2. latest + 1 .. reply'[1] - 1 \subseteq latest + 1 .. trimmed
      BY <1>2, <1>4, <1>6, <2>1, <3>1
    <3> QED
      BY <1>1, <1>3, <2>1, <3>2 DEF GapInv
  <2>2. ASSUME reply' # <<>>
        PROVE  reply'[Len(reply')] + 1 .. trimmed \subseteq missed
    <3>1. Len(reply') \in 1 .. Len(reply')
      BY <1>2, <1>4, <1>7, <2>2
    <3>2. reply'[Len(reply')] = added
      BY <1>2, <1>4, <1>7, <3>1
    <3> QED
      BY <1>2, <3>2
  <2>3. reply' = <<>> /\ latest # Dollar => latest + 1 .. trimmed \subseteq missed
    BY <1>1, <1>3 DEF GapInv
  <2>4. ASSUME reply' = <<>>, latest # Dollar
        PROVE  latest + 1 .. added \subseteq 1 .. trimmed
    BY <1>2, <1>4, <1>6, <1>7, <2>4
  <2> QED
    BY <1>3, <2>1, <2>2, <2>3, <2>4 DEF GapInv
<1> QED
  BY <1>8, <1>9, <1>10, <1>11 DEF TaskInv, StreamInv

\* The turns of monitor_stream in which nothing is read or sent.
LEMMA PollKeeps ==
  ASSUME TaskInv, XreadTimesOut \/ EmptyReply
  PROVE  TaskInv'
<1>1. /\ UNCHANGED <<cancelled, outage, latest, reply, sent, added, trimmed,
                     serverUp, first, missed>>
      /\ \/ pc' = "reply"
         \/ pc' = "request" /\ reply = <<>>
  BY DEF XreadTimesOut, EmptyReply, redisVars, historyVars
<1>2. TaskTypeOK'
  BY <1>1 DEF TaskInv, TaskTypeOK
<1> QED
  BY <1>1, <1>2, QuietKeeps DEF TaskInv

\* The next entry of a reply is taken: it is sent behind all others or cannot
\* be converted, and becomes the latest one.
LEMMA HandleEntryKeeps ==
  ASSUME TaskInv, HandleEntry
  PROVE  TaskInv'
<1>1. /\ TaskTypeOK /\ SessionInv /\ ReplyInv /\ GapInv
      /\ SentInOrder /\ NoGapInSession
  BY DEF TaskInv, StreamInv
<1>2. /\ added \in Nat /\ trimmed \in Nat /\ first \in Nat
      /\ latest # Dollar => latest \in Nat \ {0}
      /\ Len(sent) \in Nat /\ Len(reply) \in Nat
      /\ \A i \in 1 .. Len(sent) : sent[i] \in Nat \ {0}
      /\ \A i \in 1 .. Len(reply) : reply[i] \in Nat \ {0}
  BY <1>1, EntryTypes
<1>3. reply \in Seq(Entries) /\ sent \in Seq(Entries) /\ reply # <<>>
  BY <1>1 DEF TaskTypeOK, HandleEntry
<1>4. PICK h \in Entries : h = reply[1] /\ h = Head(reply)
  BY <1>3
<1>5. /\ Len(reply) >= 1 /\ 1 \in 1 .. Len(reply) /\ h \in Nat \ {0}
      /\ h <= added
      /\ latest # Dollar => latest < h
      /\ \A j \in 1 .. Len(sent) : sent[j] < h
  <2>1. 1 \in 1 .. Len(reply)
    BY <1>2, <1>3
  <2> QED
    BY <1>1, <1>2, <1>4, <2>1 DEF ReplyInv
<1>6. /\ latest' = h /\ reply' = Tail(reply)
      /\ first' = IF first = 0 THEN h ELSE first
      /\ sent' = IF h \in Undecodable THEN sent ELSE Append(sent, h)
      /\ pc' = IF reply' = <<>> THEN "request" ELSE "entries"
      /\ UNCHANGED <<cancelled, outage, added, trimmed, serverUp, missed>>
  BY <1>4 DEF HandleEntry, LatestAfter, redisVars
<1>7. /\ reply' \in Seq(Entries)
      /\ Len(reply') = Len(reply) - 1
      /\ \A i \in 1 .. Len(reply') : reply'[i] = reply[i + 1]
      /\ reply' = <<>> <=> Len(reply) = 1
  <2>1. /\ reply' \in Seq(Entries)
        /\ Len(reply') = Len(reply) - 1
        /\ \A i \in 1 .. Len(reply') : reply'[i] = reply[i + 1]
    BY <1>3, <1>6
  <2>2. reply' = <<>> <=> Len(reply') = 0
    BY <2>1
  <2> QED
    BY <1>2, <2>1, <2>2
<1>8. /\ sent' \in Seq(Entries)
      /\ Len(sent') \in {Len(sent), Len(sent) + 1}
      /\ \A i \in 1 .. Len(sent) : sent'[i] = sent[i]
      /\ Len(sent') = Len(sent) + 1 => sent'[Len(sent) + 1] = h
  BY <1>3, <1>6
<1>9. \A i \in 1 .. Len(sent') : sent'[i] \in Nat /\ sent'[i] <= h
  <2>1. \A i \in 1 .. Len(sent') : i \in 1 .. Len(sent) \/ i = Len(sent) + 1
    BY <1>2, <1>8
  <2> QED
    BY <1>2, <1>5, <1>8, <2>1
<1>10. TaskTypeOK'
  <2>1. first' \in 0 .. MaxEntries
    BY <1>1, <1>6, StreamAssumption DEF TaskTypeOK, Entries
  <2> QED
    BY <1>1, <1>6, <1>7, <1>8, <2>1 DEF TaskTypeOK
<1>11. SessionInv'
  <2>1. latest' # Dollar /\ first' # 0
    BY <1>2, <1>5, <1>6, StreamAssumption
  <2>2. first' <= latest' /\ latest' <= added'
    BY <1>1, <1>2, <1>5, <1>6 DEF SessionInv
  <2>3. \A i \in 1 .. Len(sent') : sent'[i] <= added' /\ sent'[i] <= latest'
    BY <1>2, <1>5, <1>6, <1>9
  <2> QED
    BY <2>1, <2>2, <2>3 DEF SessionInv
<1>12. ReplyInv'
  <2>1. pc' \notin {"reply", "entries"} => reply' = <<>>
    BY <1>6
  <2>2. ASSUME NEW i \in 1 .. Len(reply')
        PROVE  /\ reply'[i] = reply'[1] + i - 1
               /\ reply'[i] <= added'
               /\ latest' < reply'[i]
               /\ \A j \in 1 .. Len(sent') : sent'[j] < reply'[i]
    <3>1. i + 1 \in 1 .. Len(reply) /\ 2 \in 1 .. Len(reply) /\ 1 \in 1 .. Len(reply')
      BY <1>2, <1>7, <2>2
    <3>2. /\ reply'[i] = reply[i + 1] /\ reply'[1] = reply[2]
          /\ reply[i + 1] = h + i /\ reply[2] = h + 1
          /\ reply[i + 1] <= added
      BY <1>1, <1>2, <1>4, <1>5, <1>7, <2>2, <3>1 DEF ReplyInv
    <3>3. reply'[i] = reply'[1] + i - 1 /\ reply'[i] <= added' /\ h < reply'[i]
      BY <1>5, <1>6, <2>2, <3>2
    <3> QED
      BY <1>5, <1>6, <1>9, <2>2, <3>2, <3>3, SMTT(30)
  <2> QED
    BY <2>1, <2>2 DEF ReplyInv
<1>13. GapInv'
  <2>1. ASSUME reply' # <<>>
        PROVE  /\ latest' + 1 .. reply'[1] - 1 = {}
               /\ reply'[Len(reply')] = reply[Len(reply)]
    <3>1. /\ 2 \in 1 .. Len(reply) /\ 1 \in 1 .. Len(reply')
          /\ Len(reply') \in 1 .. Len(reply') /\ Len(reply') + 1 = Len(reply)
      BY <1>2, <1>5, <1>7, <2>1
    <3>2. reply'[1] = h + 1
      BY <1>1, <1>4, <1>5, <1>7, <3>1 DEF ReplyInv
    <3> QED
      BY <1>5, <1>6, <1>7, <3>1, <3>2
  <2>2. ASSUME reply' = <<>>
        PROVE  latest' + 1 .. trimmed \subseteq missed
    BY <1>1, <1>3, <1>4, <1>6, <1>7, <2>2 DEF GapInv
  <2> QED
    BY <1>1, <1>3, <1>6, <2>1, <2>2 DEF GapInv
<1>14. SentInOrder'
  <2> SUFFICES ASSUME NEW i \in 1 .. Len(sent'), NEW j \in 1 .. Len(sent'), i < j
               PROVE  sent'[i] < sent'[j]
    BY DEF SentInOrder
  <2>1. i \in 1 .. Len(sent) /\ (j \in 1 .. Len(sent) \/ j = Len(sent) + 1)
    BY <1>2, <1>8
  <2> QED
    BY <1>1, <1>5, <1>8, <2>1 DEF SentInOrder
<1>15. NoGapInSession'
  <2>1. ToSet(sent) \subseteq ToSet(sent)' /\ h \in ToSet(sent)' \cup Undecodable
    BY <1>3, <1>6, ToSetAppend
  <2> SUFFICES ASSUME NEW m \in first' .. h
               PROVE  m \in ToSet(sent)' \cup Undecodable \cup missed
    BY <1>6 DEF NoGapInSession
  <2>2. CASE m = h
    BY <2>1, <2>2
  <2>3. CASE m # h
    <3>1. first # 0 /\ latest # Dollar /\ m \in Nat /\ first <= m /\ m < h
      BY <1>1, <1>2, <1>5, <1>6, <2>3 DEF SessionInv
    <3>2. CASE m <= latest
      <4>1. m \in first .. latest
        BY <1>2, <3>1, <3>2
      <4> QED
        BY <1>1, <2>1, <3>1, <4>1 DEF NoGapInSession
    <3>3. CASE latest < m
      <4>1. m \in latest + 1 .. reply[1] - 1
        BY <1>2, <1>4, <1>5, <3>1, <3>3
      <4> QED
        BY <1>1, <1>3, <3>1, <4>1 DEF GapInv
    <3> QED
      BY <1>2, <3>1, <3>2, <3>3
  <2> QED
    BY <2>2, <2>3
<1> QED
  BY <1>10, <1>11, <1>12, <1>13, <1>14, <1>15 DEF TaskInv, StreamInv

\* An entry is added behind all others, and the oldest ones may be trimmed;
\* the ones among them that no poll can return any more are missed.
LEMMA XaddKeeps ==
  ASSUME TaskInv, Xadd
  PROVE  TaskInv'
<1>1. /\ TaskTypeOK /\ SessionInv /\ ReplyInv /\ GapInv
      /\ SentInOrder /\ NoGapInSession
  BY DEF TaskInv, StreamInv
<1>2. /\ added \in Nat /\ trimmed \in Nat /\ trimmed <= added /\ first \in Nat
      /\ latest # Dollar => latest \in Nat \ {0}
      /\ Len(sent) \in Nat /\ Len(reply) \in Nat
      /\ \A i \in 1 .. Len(sent) : sent[i] \in Nat \ {0}
      /\ \A i \in 1 .. Len(reply) : reply[i] \in Nat \ {0}
  BY <1>1, EntryTypes
<1>3. /\ added' = added + 1 /\ added' <= MaxEntries
      /\ UNCHANGED <<cancelled, outage, latest, sent, serverUp, first>>
  BY <1>2, StreamAssumption DEF Xadd
<1>4. trimmed' \in Nat /\ trimmed <= trimmed' /\ trimmed' <= added
  BY <1>2 DEF Xadd
<1>5. /\ missed \subseteq missed'
      /\ \A m \in trimmed + 1 .. trimmed' : m > Unread => m \in missed'
  BY DEF Xadd
<1>6. \/ pc = "blocked" /\ reply = <<>> /\ reply' = <<added'>> /\ pc' = "reply"
      \/ pc # "blocked" /\ UNCHANGED <<reply, pc>>
  BY <1>1 DEF Xadd, ReplyInv
<1>7. TaskTypeOK'
  <2>1. added' \in Entries /\ added' \in 0 .. MaxEntries /\ trimmed' \in 0 .. added'
    BY <1>2, <1>3, <1>4, StreamAssumption DEF Entries
  <2>2. reply' \in Seq(Entries)
    <3>1. PICK e \in Entries : e = added'
      BY <2>1
    <3>2. <<e>> \in Seq(Entries)
      OBVIOUS
    <3> QED
      BY <1>1, <1>6, <3>1, <3>2 DEF TaskTypeOK
  <2>3. missed' \subseteq Entries
    <3>1. trimmed + 1 .. trimmed' \subseteq Entries
      BY <1>2, <1>3, <1>4, StreamAssumption DEF Entries
    <3> QED
      BY <1>1, <3>1 DEF Xadd, TaskTypeOK
  <2> QED
    BY <1>1, <1>3, <1>6, <2>1, <2>2, <2>3 DEF TaskTypeOK
<1>8. SessionInv'
  BY <1>1, <1>2, <1>3 DEF SessionInv
<1>9. SentInOrder' /\ NoGapInSession'
  <2>1. ToSet(sent)' = ToSet(sent)
    BY <1>3
  <2> QED
    BY <1>1, <1>3, <1>5, <2>1 DEF SentInOrder, NoGapInSession
<1>10. CASE pc = "blocked"
  <2>1. /\ reply = <<>> /\ reply' = <<added'>> /\ pc' = "reply"
        /\ Len(reply') = 1 /\ reply'[1] = added'
    BY <1>6, <1>10
  <2>2. ReplyInv'
    <3>1. /\ latest # Dollar => latest < added'
          /\ \A j \in 1 .. Len(sent) : sent[j] < added'
      BY <1>1, <1>2, <1>3 DEF SessionInv
    <3>2. \A i \in 1 .. Len(reply') : i = 1
      BY <2>1
    <3> QED
      BY <1>2, <1>3, <2>1, <3>1, <3>2 DEF ReplyInv
  <2>3. GapInv'
    <3>1. latest # Dollar => latest + 1 .. added \subseteq missed
      BY <1>1, <1>2, <1>10, <2>1 DEF GapInv
    <3>2. added' - 1 = added /\ added' + 1 .. trimmed' = {}
      BY <1>2, <1>3, <1>4
    <3> QED
      BY <1>3, <1>5, <2>1, <3>1, <3>2 DEF GapInv
  <2> QED
    BY <1>7, <1>8, <1>9, <2>2, <2>3 DEF TaskInv, StreamInv
<1>11. CASE pc # "blocked"
  <2>1. UNCHANGED <<reply, pc>>
    BY <1>6, <1>11
  <2>2. ReplyInv'
    BY <1>1, <1>2, <1>3, <2>1 DEF ReplyInv
  <2>3. ASSUME NEW n \in Nat, n = Unread, n + 1 .. trimmed \subseteq missed
        PROVE  n + 1 .. trimmed' \subseteq missed'
    BY <1>2, <1>4, <1>5, <2>3
  <2>4. ASSUME reply # <<>>
        PROVE  reply[Len(reply)] + 1 .. trimmed' \subseteq missed'
    <3>1. reply[Len(reply)] \in Nat /\ Unread = reply[Len(reply)]
      <4>1. Len(reply) \in 1 .. Len(reply)
        BY <1>1, <1>2, <2>4 DEF TaskTypeOK
      <4> QED
        BY <1>2, <2>4, <4>1 DEF Unread, Last
    <3> QED
      BY <1>1, <2>3, <2>4, <3>1 DEF GapInv
  <2>5. ASSUME reply = <<>>, latest # Dollar
        PROVE  latest + 1 .. trimmed' \subseteq missed'
    <3>1. Unread = latest
      BY <2>5 DEF Unread
    <3> QED
      BY <1>1, <1>2, <2>3, <2>5, <3>1 DEF GapInv
  <2>6. GapInv'
    BY <1>1, <1>3, <1>5, <1>11, <2>1, <2>4, <2>5 DEF GapInv
  <2> QED
    BY <1>7, <1>8, <1>9, <2>2, <2>6 DEF TaskInv, StreamInv
<1> QED
  BY <1>10, <1>11

\* The token, the server and the other users of the connections.
LEMMA EnvironmentKeeps ==
  ASSUME TaskInv,
         \/ Cancel \/ ServerGoesDown \/ ServerComesUp \/ UNCHANGED vars
         \/ \E u \in Users \ {Task} : OtherUserGoesOn(u) \/ OtherUserTurns(u)
  PROVE  TaskInv'
<1>1. /\ UNCHANGED <<pc, outage, latest, reply, sent, added, trimmed, first, missed>>
      /\ cancelled' \in BOOLEAN /\ serverUp' \in BOOLEAN
  <2>1. cancelled \in BOOLEAN /\ serverUp \in BOOLEAN
    BY DEF TaskInv, TaskTypeOK
  <2> QED
    BY <2>1 DEF Cancel, ServerGoesDown, ServerComesUp, OtherUserGoesOn,
       OtherUserTurns, vars, redisVars, historyVars
<1>2. TaskTypeOK'
  BY <1>1 DEF TaskInv, TaskTypeOK
<1> QED
  BY <1>1, <1>2, QuietKeeps DEF TaskInv

-----------------------------------------------------------------------------

\* IInv holds initially and every step keeps it, so it always holds.
THEOREM Invariance == Spec => []IInv
<1>1. Init => IInv
  <2> SUFFICES ASSUME Init
               PROVE  IInv
    OBVIOUS
  <2>1. Cache!TypeOK /\ CacheInv
    BY StreamAssumption DEF Init, Cache!Init, Cache!TypeOK, CacheInv
  <2>2. TaskTypeOK
    <3>1. reply \in Seq(Entries) /\ sent \in Seq(Entries)
      BY DEF Init
    <3>2. outage \in OutageStates
      BY BackoffAssumption DEF Init, Default, OutageStates
    <3>3. /\ added \in 0 .. MaxEntries /\ trimmed \in 0 .. added
          /\ first \in 0 .. MaxEntries
      BY StreamAssumption DEF Init
    <3> QED
      BY <3>1, <3>2, <3>3 DEF Init, TaskTypeOK
  <2>3. StreamInv
    BY DEF Init, StreamInv, SessionInv, ReplyInv, GapInv, SentInOrder,
       NoGapInSession
  <2> QED
    BY <2>1, <2>2, <2>3, TaskPart DEF IInv
<1>2. IInv /\ [Next]_vars => IInv'
  <2> SUFFICES ASSUME IInv, [Next]_vars
               PROVE  IInv'
    OBVIOUS
  <2>1. TaskInv /\ Cache!TypeOK /\ CacheInv
    BY TaskPart DEF IInv, TaskInv
  <2>2. Cache!TypeOK' /\ CacheInv'
    BY <2>1, StepUsesCache, CacheKeeps
  <2>3. TaskInv'
    <3>1. CASE TaskStep
      BY <2>1, <3>1, StartStreamKeeps, SessionEndKeeps, XreadArrivesKeeps,
         PollKeeps, HandleEntryKeeps DEF TaskStep
    <3>2. CASE MonitorCancelled
      BY <2>1, <3>2, SessionEndKeeps
    <3>3. CASE Xadd
      BY <2>1, <3>3, XaddKeeps
    <3>4. CASE \/ Cancel \/ ServerGoesDown \/ ServerComesUp \/ UNCHANGED vars
               \/ \E u \in Users \ {Task} : OtherUserGoesOn(u) \/ OtherUserTurns(u)
      BY <2>1, <3>4, EnvironmentKeeps
    <3> QED
      BY <3>1, <3>2, <3>3, <3>4 DEF Next
  <2>4. TypeOK'
    BY <2>2, <2>3 DEF TaskInv, TaskTypeOK, TypeOK
  <2> QED
    BY <2>2, <2>3, <2>4 DEF IInv, TaskInv
<1> QED
  BY <1>1, <1>2, PTL DEF Spec

\* Every reachable state is well-typed: the task's locals, the stream and the
\* connection cache it shares.
THEOREM TypeCorrect == Spec => []TypeOK
<1>1. IInv => TypeOK
  BY DEF IInv
<1> QED
  BY <1>1, Invariance, PTL

\* Entries go out in stream order and none goes out twice, across polls,
\* trimming and any number of sessions that start again from "$".
THEOREM OrderKept == Spec => []SentInOrder
<1>1. IInv => SentInOrder
  BY DEF IInv, StreamInv
<1> QED
  BY <1>1, Invariance, PTL

\* From the first entry of a session up to latest_id every entry was sent,
\* cannot be converted, or was trimmed by Redis before it could be read.
THEOREM NoGap == Spec => []NoGapInSession
<1>1. IInv => NoGapInSession
  BY DEF IInv, StreamInv
<1> QED
  BY <1>1, Invariance, PTL
=============================================================================
