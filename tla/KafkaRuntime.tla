---------------------------- MODULE KafkaRuntime ----------------------------
(***************************************************************************)
(* The background task of a Kafka subscriber                               *)
(* (src/src/kafka_impl/runtime/mod.rs) and the streams that it feeds: the  *)
(* consumer is created and subscribed, its messages go into the broadcast  *)
(* channel of FanOut, and a consumer that ends is replaced by another one  *)
(* of the same group.                                                      *)
(*                                                                         *)
(* Kafka is external: one partition whose messages are 1 .. high.  A       *)
(* consumer starts at the offset its group committed, or where             *)
(* auto.offset.reset says if there is none: at the end, or at the          *)
(* beginning in builds with testing-utils.  The client commits positions   *)
(* in the background and when it is closed.                                *)
(***************************************************************************)
EXTENDS OutageState, Powers, Sequences, SequencesExt

CONSTANTS
  Streams,                   \* streams returned by get_stream
  DEFAULT_CHANNEL_CAPACITY,
  Capacity,                  \* the least power of two that is not below it
  MaxMessages,               \* bound: messages are numbered 1 .. MaxMessages
  Tombstones,                \* the messages without a payload
  MaxFaults                  \* bound: consumers that fail or end

Messages == 1 .. MaxMessages

ASSUME KafkaRuntimeAssumption ==
  /\ DEFAULT_CHANNEL_CAPACITY \in Nat \ {0}
  /\ Capacity \in DEFAULT_CHANNEL_CAPACITY .. 2 * DEFAULT_CHANNEL_CAPACITY - 1
  /\ \E e \in 0 .. Capacity : Capacity = Pow2[e]
  /\ MaxMessages \in Nat
  /\ Tombstones \subseteq Messages
  /\ MaxFaults \in Nat

VARIABLES
  cancelled,     \* the cancellation token has fired
  pc,            \* control point of start_stream
  outage,        \* its OutageState
  streamOutage,  \* the OutageState of monitor_stream
  high,          \* messages produced so far
  position,      \* what the consumer reads next, 0 before its assignment
  committed,     \* the committed offset of the group, 0 if there is none
  faults,        \* consumers that could not be made or that ended
  sent,          \* what was given to Sender::send
  begin,         \* history: position and Len(sent) when this consumer started
  since,         \* history: the first offset that was committed, 0 before
  log, open, joined, next, yielded, warned, behind  \* the channel

Channel == INSTANCE FanOut

channelVars == <<log, open, joined, next, yielded, warned, behind>>
taskVars == <<pc, outage, streamOutage, sent>>
kafkaVars == <<high, position, committed, faults, begin, since>>
vars == <<cancelled, taskVars, kafkaVars, channelVars>>

TypeOK ==
  /\ cancelled \in BOOLEAN
  /\ pc \in {"check", "create", "monitor", "sleep", "done"}
  /\ outage \in OutageStates
  /\ streamOutage \in OutageStates
  /\ high \in 0 .. MaxMessages
  /\ position \in 0 .. high + 1
  /\ committed \in 0 .. high + 1
  /\ faults \in 0 .. MaxFaults
  /\ sent \in Seq(Messages \ Tombstones)
  /\ begin \in [position : Nat, sent : Nat]
  /\ since \in 0 .. high + 1
  /\ Channel!TypeOK

Init ==
  /\ cancelled = FALSE
  /\ pc = "check"
  /\ outage = Default
  /\ streamOutage = Default
  /\ high \in {n \in 0 .. 1 : n <= MaxMessages}
  /\ position = 0
  /\ committed = 0
  /\ faults = 0
  /\ sent = <<>>
  /\ begin = [position |-> 0, sent |-> 0]
  /\ since = 0
  /\ Channel!Init

-----------------------------------------------------------------------------
(* start_stream *)

\* Mutant of LoopAgain: the loop never looks at the token.
LoopAgainForever == TRUE

\* while !cancel_token.is_cancelled()
LoopAgain == ~cancelled

LoopCheck ==
  /\ pc = "check"
  /\ pc' = IF LoopAgain THEN "create" ELSE "done"
  /\ UNCHANGED <<cancelled, outage, streamOutage, sent, kafkaVars, channelVars>>

\* Mutant of GroupOffset: every consumer has a group of its own.
GroupOffsetForgotten == 0

\* The group is named once, before the loop: its offset outlives the consumer.
GroupOffset == committed

\* The consumer is created and subscribed, and monitor_stream begins.
CreateOk ==
  /\ pc = "create"
  /\ pc' = "monitor"
  /\ outage' = OnRecovery(outage)
  /\ streamOutage' = Default
  /\ position' = 0
  /\ committed' = GroupOffset
  /\ UNCHANGED <<cancelled, high, faults, sent, begin, since, channelVars>>

\* Creating the consumer or subscribing it fails: on_error.
CreateFails(kind) ==
  /\ pc = "create"
  /\ faults < MaxFaults
  /\ faults' = faults + 1
  /\ pc' = "sleep"
  /\ outage' = RecordError(outage, kind)
  /\ UNCHANGED <<cancelled, streamOutage, high, position, committed, sent,
                 begin, since, channelVars>>

\* The sleep inside on_error ends.  It does not listen to the token.
SleepEnds ==
  /\ pc = "sleep"
  /\ pc' = "check"
  /\ outage' = AdvanceBackoff(outage)
  /\ UNCHANGED <<cancelled, streamOutage, sent, kafkaVars, channelVars>>

\* The consumer is closed, and may commit how far it came.
CloseConsumer ==
  /\ position' = 0
  /\ committed' \in {committed, IF position = 0 THEN committed ELSE position}
  /\ since' = IF since = 0 THEN committed' ELSE since

\* run_until_cancelled drops monitor_stream.
MonitorCancelled ==
  /\ pc = "monitor"
  /\ cancelled
  /\ pc' = "check"
  /\ CloseConsumer
  /\ UNCHANGED <<cancelled, outage, streamOutage, high, faults, sent, begin,
                 channelVars>>

-----------------------------------------------------------------------------
(* monitor_stream *)

\* convert_to_message
Converts(m) == m \notin Tombstones

\* Mutant of Sends: the message that ends a stream outage is taken for the
\* notice of its end.
SendsUnlessRecovering(m) == Converts(m) /\ ~IsInOutage(streamOutage)

\* Mutant of Sends: a message without a payload is sent all the same.
SendsAnything(m) == TRUE

Sends(m) == Converts(m)

\* Ok(msg): sent if it converts, skipped with a warning otherwise.
HandleMessage ==
  /\ pc = "monitor"
  /\ position \in 1 .. high
  /\ streamOutage' = OnRecovery(streamOutage)
  /\ IF Sends(position)
     THEN sent' = Append(sent, position) /\ Channel!Send(position)
     ELSE UNCHANGED <<sent, channelVars>>
  /\ position' = position + 1
  /\ UNCHANGED <<cancelled, pc, outage, high, committed, faults, begin, since>>

\* Err(e): recorded, and the loop goes on with the same consumer.
HandleError(kind) ==
  /\ pc = "monitor"
  /\ streamOutage' = RecordError(streamOutage, kind)
  /\ UNCHANGED <<cancelled, pc, outage, sent, kafkaVars, channelVars>>

\* Mutant of AfterStream: the task ends with its consumer.
AfterStreamDone == "done"

AfterStream == "check"

\* The stream of the consumer ends: the next consumer is made at once.
StreamEnds ==
  /\ pc = "monitor"
  /\ faults < MaxFaults
  /\ faults' = faults + 1
  /\ pc' = AfterStream
  /\ CloseConsumer
  /\ UNCHANGED <<cancelled, outage, streamOutage, high, sent, begin, channelVars>>

-----------------------------------------------------------------------------
(* Kafka, the cache and the callers *)

\* The consumer is given its partition.
Assign ==
  /\ pc = "monitor"
  /\ position = 0
  /\ position' \in IF committed = 0 THEN {1, high + 1} ELSE {committed}
  /\ begin' = [position |-> position', sent |-> Len(sent)]
  /\ UNCHANGED <<cancelled, taskVars, high, committed, faults, since, channelVars>>

AutoCommit ==
  /\ pc = "monitor"
  /\ position # 0
  /\ committed # position
  /\ committed' = position
  /\ since' = IF since = 0 THEN position ELSE since
  /\ UNCHANGED <<cancelled, taskVars, high, position, faults, begin, channelVars>>

Produce ==
  /\ high < MaxMessages
  /\ high' = high + 1
  /\ UNCHANGED <<cancelled, taskVars, position, committed, faults, begin, since,
                 channelVars>>

\* The cache drops the runtime, which no stream uses, and cancels the token.
Cancel ==
  /\ ~cancelled
  /\ open = {}
  /\ cancelled' = TRUE
  /\ UNCHANGED <<taskVars, kafkaVars, channelVars>>

\* A stream is subscribed through the cache, which has the runtime until it
\* is cancelled; it is read and dropped whenever its owner likes.
Join(s) ==
  /\ ~cancelled
  /\ Channel!Subscribe(s)
  /\ UNCHANGED <<cancelled, taskVars, kafkaVars>>

Read(s) ==
  /\ Channel!Yield(s) \/ Channel!Lagged(s)
  /\ UNCHANGED <<cancelled, taskVars, kafkaVars>>

Leave(s) ==
  /\ Channel!DropStream(s)
  /\ UNCHANGED <<cancelled, taskVars, kafkaVars>>

-----------------------------------------------------------------------------
TaskStep ==
  \/ LoopCheck
  \/ CreateOk
  \/ \E kind \in ErrorKinds : CreateFails(kind)
  \/ SleepEnds
  \/ HandleMessage

Next ==
  \/ TaskStep
  \/ \E kind \in ErrorKinds : HandleError(kind)
  \/ MonitorCancelled
  \/ StreamEnds
  \/ Assign
  \/ AutoCommit
  \/ Produce
  \/ Cancel
  \/ \E s \in Streams : Join(s) \/ Read(s) \/ Leave(s)

Spec == Init /\ [][Next]_vars

\* The task is polled when it can go on, run_until_cancelled looks at the
\* token whenever it is polled, and a consumer that is up is given its
\* partition and hands over what it holds, between any errors it reports.
\* Producers, callers and the cache owe nothing.
FairSpec ==
  Spec /\ WF_vars(TaskStep) /\ WF_vars(MonitorCancelled) /\ WF_vars(Assign)

-----------------------------------------------------------------------------
(* Properties *)

\* What a consumer was handed, from the position it began at to the one it
\* reads next, is sent once each, in order and without a gap, whatever errors
\* its stream reports in between and except for messages without a payload.
SessionIsFaithful ==
  position # 0 =>
    /\ \A i, j \in begin.sent + 1 .. Len(sent) : i < j => sent[i] < sent[j]
    /\ {sent[i] : i \in begin.sent + 1 .. Len(sent)} =
         (begin.position .. position - 1) \ Tombstones

\* A new consumer goes on where the last one committed: from the first
\* commit on, no message is skipped by any sequence of failed consumers.
NothingSkippedAfterCommit ==
  since # 0 /\ position # 0 =>
    \A m \in (since .. position - 1) \ Tombstones : m \in ToSet(sent)

\* A stream loses nothing silently, however often the consumer behind it was
\* replaced: what it yielded, what its lag warnings announced and what still
\* waits add up to all that was sent since it subscribed.  And one that never
\* falls behind by more than DEFAULT_CHANNEL_CAPACITY loses nothing at all.
LossIsAnnounced == Channel!LossIsAnnounced

\* A cancelled task ends, even if messages keep coming or the broker fails.
CancelledTaskStops == cancelled ~> (pc = "done")

\* Once the group has an offset, every message after it is sent, unless the
\* task is cancelled: no mixture of failed consumers, stream errors and
\* ended streams leaves the task deaf.
KeepsConsuming ==
  \A m \in Messages \ Tombstones :
    (since # 0 /\ m \in since .. high) ~> (cancelled \/ m \in ToSet(sent))
=============================================================================
