------------------------- MODULE RedisStreamRuntime -------------------------
(***************************************************************************)
(* The background task of a Redis Stream subscriber                        *)
(* (src/src/redis_impls/stream/runtime/mod.rs): take the shared connection *)
(* of the host, poll the stream with XREAD BLOCK from the latest id seen,  *)
(* send what comes back to the broadcast channel; on an error evict the    *)
(* connection, back off and start again from "$".                          *)
(*                                                                         *)
(* The task is one user of HOST_MAP (module ConnectionCache) among others, *)
(* which may work with other hosts and hold the lock the task waits for.   *)
(*                                                                         *)
(* Entries are numbered in the order Redis adds them.  Redis is external:  *)
(* it resolves "$" when the XREAD arrives, answers at once if it has newer *)
(* entries and otherwise with the next entry added or, after the block     *)
(* time, with nothing; XADD may trim the oldest entries beyond MAXLEN.     *)
(***************************************************************************)
EXTENDS OutageState, Sequences, SequencesExt

CONSTANTS
  MaxEntries,   \* bound: entries are numbered 1 .. MaxEntries
  MaxLen,       \* stream_max_len of the publishers
  Undecodable,  \* the entries that cannot be converted
  Dollar,       \* the id "$"
  Task,         \* this task as a user of HOST_MAP
  Host,         \* the host it subscribes to
  Hosts, Users, Managers, None  \* see ConnectionCache

Entries == 1 .. MaxEntries

ASSUME StreamAssumption ==
  /\ MaxEntries \in Nat
  /\ MaxLen \in Nat \ {0}
  /\ Undecodable \subseteq Entries
  /\ Dollar \notin Nat
  /\ Task \in Users
  /\ Host \in Hosts
  /\ None \notin Hosts \cup Users \cup Managers

VARIABLES
  cancelled,  \* the cancellation token has fired
  pc,         \* control point of start_stream and monitor_stream
  outage,     \* the OutageState of start_stream
  map, writer, users, host, conn, made,  \* see ConnectionCache
  latest,     \* latest_id
  reply,      \* the entries of the reply on its way to the task
  sent,       \* the entries given to Sender::send
  added,      \* the stream holds the entries trimmed + 1 .. added
  trimmed,
  serverUp,   \* whether Redis accepts connections and commands
  first,      \* history: the first entry of this session, or 0
  missed      \* history: entries trimmed before an XREAD could return them

Cache == INSTANCE ConnectionCache WITH pc <- users

cacheVars == <<map, writer, users, host, conn, made>>
redisVars == <<added, trimmed, serverUp>>
historyVars == <<first, missed>>
vars == <<cancelled, pc, outage, cacheVars, latest, reply, sent, redisVars,
          historyVars>>

TypeOK ==
  /\ cancelled \in BOOLEAN
  /\ pc \in {"check", "connect", "request", "blocked", "reply", "entries",
            "evict", "sleep", "done"}
  /\ outage \in OutageStates
  /\ Cache!TypeOK
  /\ latest \in Entries \cup {Dollar}
  /\ reply \in Seq(Entries)
  /\ sent \in Seq(Entries)
  /\ added \in 0 .. MaxEntries
  /\ trimmed \in 0 .. added
  /\ serverUp \in BOOLEAN
  /\ first \in 0 .. MaxEntries
  /\ missed \in SUBSET Entries

Init ==
  /\ cancelled = FALSE
  /\ pc = "check"
  /\ outage = Default
  /\ Cache!Init
  /\ latest = Dollar
  /\ reply = <<>>
  /\ sent = <<>>
  /\ added \in {n \in 0 .. 1 : n <= MaxEntries}
  /\ trimmed = 0
  /\ serverUp \in BOOLEAN
  /\ first = 0
  /\ missed = {}

-----------------------------------------------------------------------------
(* start_stream *)

LoopCheck ==
  /\ pc = "check"
  /\ \/ /\ cancelled
        /\ pc' = "done"
        /\ UNCHANGED cacheVars
     \/ /\ ~cancelled
        /\ pc' = "connect"
        /\ Cache!GetConnection(Task, Host)
  /\ UNCHANGED <<cancelled, outage, latest, reply, sent, redisVars,
                 historyVars>>

\* ConnectionManager::new connects to Redis; the other hosts are up.
Connects(u) ==
  /\ serverUp \/ host[u] # Host
  /\ \E m \in Managers : Cache!ConnectOk(u, m)

\* A step of get_connection that does not fail.
GetConnection(u) ==
  \/ Cache!ReadLookup(u)
  \/ Cache!WriteLookupHit(u)
  \/ Cache!WriteLookupMiss(u)
  \/ Connects(u)

\* get_connection goes on.  With a connection, monitor_stream starts.
GetConnectionStep ==
  /\ pc = "connect"
  /\ GetConnection(Task)
  /\ IF users'[Task] = "using"
     THEN outage' = OnRecovery(outage) /\ pc' = "request"
     ELSE UNCHANGED <<outage, pc>>
  /\ UNCHANGED <<cancelled, latest, reply, sent, redisVars, historyVars>>

GetConnectionFails(kind) ==
  /\ pc = "connect"
  /\ Cache!ConnectFails(Task)
  /\ outage' = RecordError(outage, kind)
  /\ pc' = "sleep"
  /\ UNCHANGED <<cancelled, latest, reply, sent, redisVars, first, missed>>

\* monitor_stream is over and its locals are gone.
MonitorEnds ==
  /\ latest' = Dollar
  /\ reply' = <<>>
  /\ first' = 0

XreadFails ==
  /\ pc \in {"request", "blocked", "reply"}
  /\ ~serverUp
  /\ MonitorEnds
  /\ Cache!XreadFails(Task)
  /\ pc' = "evict"
  /\ UNCHANGED <<cancelled, outage, sent, redisVars, missed>>

\* The connection of the host is evicted, then on_error.
EvictConnection(kind) ==
  /\ pc = "evict"
  /\ Cache!EvictConnection(Task)
  /\ outage' = RecordError(outage, kind)
  /\ pc' = "sleep"
  /\ UNCHANGED <<cancelled, latest, reply, sent, redisVars, historyVars>>

SleepEnds ==
  /\ pc = "sleep"
  /\ outage' = AdvanceBackoff(outage)
  /\ pc' = "check"
  /\ IF users[Task] = "sleep" THEN Cache!Release(Task) ELSE UNCHANGED cacheVars
  /\ UNCHANGED <<cancelled, latest, reply, sent, redisVars, historyVars>>

\* Mutant of Interrupted: the token is looked at between polls only.
InterruptedBetweenPolls == cancelled /\ pc = "never"

\* run_until_cancelled drops monitor_stream at the await it is in.
Interrupted == cancelled /\ pc \in {"request", "blocked", "reply"}

MonitorCancelled ==
  /\ Interrupted
  /\ MonitorEnds
  /\ Cache!Release(Task)
  /\ pc' = "check"
  /\ UNCHANGED <<cancelled, outage, sent, redisVars, missed>>

-----------------------------------------------------------------------------
(* monitor_stream *)

\* The retained entries with an id above id.
Newer(id) == [i \in 1 .. added - (IF id > trimmed THEN id ELSE trimmed) |->
                (IF id > trimmed THEN id ELSE trimmed) + i]

\* XREAD reaches Redis, which answers at once if it can.
XreadArrives ==
  /\ pc = "request"
  /\ serverUp
  /\ reply' = Newer(IF latest = Dollar THEN added ELSE latest)
  /\ pc' = IF reply' = <<>> THEN "blocked" ELSE "reply"
  /\ UNCHANGED <<cancelled, outage, cacheVars, latest, sent, redisVars,
                 historyVars>>

\* The block time is over: an empty reply.
XreadTimesOut ==
  /\ pc = "blocked"
  /\ pc' = "reply"
  /\ UNCHANGED <<cancelled, outage, cacheVars, latest, reply, sent,
                 redisVars, historyVars>>

\* A reply without entries: poll again.
EmptyReply ==
  /\ pc = "reply"
  /\ reply = <<>>
  /\ pc' = "request"
  /\ UNCHANGED <<cancelled, outage, cacheVars, latest, reply, sent, redisVars,
                 historyVars>>

\* Mutant of LatestAfter: the id of the first entry is kept, not of the last.
LatestAfterFirst(id) == IF latest = Dollar THEN id ELSE latest

\* Mutant of LatestAfter: the newest id of the stream is kept.
LatestAfterNewest(id) == added

\* latest_id = entry.id.clone()
LatestAfter(id) == id

\* One turn of the loop over the entries of a reply.  The loop awaits nothing,
\* so once it has begun neither the token nor the connection can stop it.
HandleEntry ==
  /\ pc \in {"reply", "entries"}
  /\ reply # <<>>
  /\ latest' = LatestAfter(Head(reply))
  /\ sent' = IF Head(reply) \in Undecodable
             THEN sent ELSE Append(sent, Head(reply))
  /\ first' = IF first = 0 THEN Head(reply) ELSE first
  /\ reply' = Tail(reply)
  /\ pc' = IF reply' = <<>> THEN "request" ELSE "entries"
  /\ UNCHANGED <<cancelled, outage, cacheVars, redisVars, missed>>

-----------------------------------------------------------------------------
(* Environment *)

Cancel ==
  /\ ~cancelled
  /\ cancelled' = TRUE
  /\ UNCHANGED <<pc, outage, cacheVars, latest, reply, sent, redisVars,
                 historyVars>>

\* The lowest id a later XREAD can still ask for.
Unread ==
  IF reply # <<>> THEN Last(reply)
  ELSE IF latest # Dollar THEN latest ELSE 0

\* XADD with MAXLEN, exact or approximate: the stream keeps at least MaxLen
\* entries and may keep more.  A blocked XREAD gets the new entry.
Xadd ==
  /\ serverUp
  /\ added < MaxEntries
  /\ added' = added + 1
  /\ trimmed' \in {trimmed} \cup {n \in trimmed .. added : n = added' - MaxLen}
  /\ missed' = missed \cup {m \in trimmed + 1 .. trimmed' : m > Unread}
  /\ IF pc = "blocked"
     THEN reply' = <<added'>> /\ pc' = "reply"
     ELSE UNCHANGED <<reply, pc>>
  /\ UNCHANGED <<cancelled, outage, cacheVars, latest, sent, serverUp, first>>

\* Publishers, snapshots and the other runtimes of the process.
OtherUserGoesOn(u) ==
  /\ GetConnection(u) \/ Cache!ConnectFails(u) \/ Cache!EvictConnection(u)
  /\ UNCHANGED <<cancelled, pc, outage, latest, reply, sent, redisVars,
                 historyVars>>

OtherUserTurns(u) ==
  /\ \/ \E h \in Hosts : Cache!GetConnection(u, h)
     \/ Cache!Abandon(u)
     \/ Cache!Release(u)
     \/ Cache!XreadFails(u)
  /\ UNCHANGED <<cancelled, pc, outage, latest, reply, sent, redisVars,
                 historyVars>>

ServerGoesDown ==
  /\ serverUp
  /\ serverUp' = FALSE
  /\ UNCHANGED <<cancelled, pc, outage, cacheVars, latest, reply, sent,
                 added, trimmed, historyVars>>

ServerComesUp ==
  /\ ~serverUp
  /\ serverUp' = TRUE
  /\ UNCHANGED <<cancelled, pc, outage, cacheVars, latest, reply, sent,
                 added, trimmed, historyVars>>

-----------------------------------------------------------------------------
TaskStep ==
  \/ LoopCheck
  \/ GetConnectionStep
  \/ \E kind \in ErrorKinds : GetConnectionFails(kind) \/ EvictConnection(kind)
  \/ XreadFails
  \/ SleepEnds
  \/ XreadArrives
  \/ XreadTimesOut
  \/ EmptyReply
  \/ HandleEntry

Next ==
  \/ TaskStep
  \/ MonitorCancelled
  \/ Cancel
  \/ Xadd
  \/ \E u \in Users \ {Task} : OtherUserGoesOn(u) \/ OtherUserTurns(u)
  \/ ServerGoesDown
  \/ ServerComesUp

Spec == Init /\ [][Next]_vars

\* The task is polled when it can go on, every XREAD is answered or fails,
\* and run_until_cancelled notices the token some time.  The lock of HOST_MAP
\* queues its waiters, and a connection attempt ends one way or the other
\* (the connection manager bounds its own retries).
FairSpec ==
  /\ Spec
  /\ SF_vars(TaskStep)
  /\ WF_vars(MonitorCancelled)
  /\ \A u \in Users \ {Task} : SF_vars(OtherUserGoesOn(u))

-----------------------------------------------------------------------------
(* Properties *)

\* Entries go out in stream order and none goes out twice, across polls,
\* trimming and any number of sessions that start again from "$".
SentInOrder == \A i, j \in 1 .. Len(sent) : i < j => sent[i] < sent[j]

\* From the first entry of a session on, nothing is skipped: every entry up
\* to latest_id was sent, unless it cannot be converted or Redis trimmed it
\* before it could be read.
NoGapInSession ==
  latest # Dollar =>
    first .. latest \subseteq ToSet(sent) \cup Undecodable \cup missed

\* An entry newer than the latest one seen is sent, unless it is trimmed or
\* the session ends first.
NewEntriesAreSent ==
  \A m \in Entries \ Undecodable :
    (latest # Dollar /\ latest < m /\ m <= added)
    ~> (m \in ToSet(sent) \/ m <= trimmed \/ ~serverUp \/ cancelled)

\* A cancelled task ends, even if Redis never has anything to say.
CancelledTaskStops == cancelled ~> (pc = "done")

\* "Each call to get_stream subscribes to the shared broadcast channel ...
\* and receives messages published from that point onward" (stream/mod.rs):
\* if nothing ever fails, nothing published since the task was spawned is
\* skipped.
NothingPublishedIsSkipped ==
  \A start \in 0 .. MaxEntries :
    added = start /\ [](pc \notin {"evict", "sleep"})
    => [](sent # <<>> =>
            start + 1 .. Last(sent) \subseteq ToSet(sent) \cup Undecodable \cup missed)

\* Every call of get_connection and of evict_connection returns, whatever the
\* other users do: no error path and no abandoned call leaves the lock of all
\* hosts behind.
CallsReturn == Cache!CallsReturn

\* The users of a host share one manager, which is not replaced before it is
\* evicted, and users that miss at the same time share what the first makes.
ImplementsSharedResources == Cache!ImplementsSharedResources
=============================================================================
