-------------------------- MODULE KafkaRuntimeProofs --------------------------
(***************************************************************************)
(* Proofs of the safety properties of KafkaRuntime and of the fan-out it   *)
(* feeds, for any number of streams, messages and faults and any capacity. *)
(***************************************************************************)
EXTENDS KafkaRuntime, TLAPS

\* The channel holds at least as many messages as it was asked to.
LEMMA CapacityEnough ==
  /\ Capacity \in Nat
  /\ Capacity >= DEFAULT_CHANNEL_CAPACITY
  BY KafkaRuntimeAssumption

-----------------------------------------------------------------------------
(* The fan-out *)

\* A stream that is not subscribed has nothing; one that is has at some time
\* been behind by as much as it is now.
StreamInv ==
  /\ \A s \in Streams \ open : yielded[s] = <<>> /\ warned[s] = 0
  /\ \A s \in open : next[s] <= Len(log) + 1 /\ Channel!Pending(s) <= behind[s]

ChannelInv == Channel!TypeOK /\ StreamInv /\ Channel!LossIsAnnounced

LEMMA ChannelTypes ==
  ASSUME Channel!TypeOK
  PROVE  /\ Len(log) \in Nat
         /\ \A s \in Streams : /\ joined[s] \in Nat /\ next[s] \in Nat \ {0}
                               /\ yielded[s] \in Seq(Messages)
                               /\ Len(yielded[s]) \in Nat
                               /\ warned[s] \in Nat /\ behind[s] \in Nat
         /\ open \subseteq Streams
BY DEF Channel!TypeOK

\* A message is added for every subscribed stream, or for nobody.
LEMMA SendKeeps ==
  ASSUME ChannelInv, NEW m \in Messages, Channel!Send(m)
  PROVE  ChannelInv'
<1>1. /\ Len(log) \in Nat /\ open \subseteq Streams
      /\ \A s \in Streams : /\ joined[s] \in Nat /\ next[s] \in Nat \ {0}
                            /\ Len(yielded[s]) \in Nat
                            /\ warned[s] \in Nat /\ behind[s] \in Nat
  BY ChannelTypes DEF ChannelInv
<1>2. /\ log' \in Seq(Messages)
      /\ Len(log') \in Nat
      /\ Len(log') = IF open = {} THEN Len(log) ELSE Len(log) + 1
  BY DEF ChannelInv, Channel!TypeOK, Channel!Send
<1>3. UNCHANGED <<open, joined, next, yielded, warned>>
  BY DEF Channel!Send
<1>4. /\ behind' \in [Streams -> Nat]
      /\ \A s \in Streams : behind'[s] >= behind[s]
      /\ \A s \in open : Len(log') + 1 - next[s] <= behind'[s]
  <2>1. behind' = [s \in Streams |->
                     IF s \in open /\ Len(log') + 1 - next[s] > behind[s]
                     THEN Len(log') + 1 - next[s] ELSE behind[s]]
    BY DEF Channel!Send
  <2>2. \A s \in Streams : Len(log') + 1 - next[s] \in Int
    BY <1>1, <1>2
  <2>3. ASSUME NEW s \in Streams
        PROVE  /\ behind'[s] \in Nat /\ behind'[s] >= behind[s]
               /\ s \in open => Len(log') + 1 - next[s] <= behind'[s]
    BY <1>1, <2>1, <2>2, <2>3
  <2> QED
    BY <1>1, <2>1, <2>3
<1>5. Channel!TypeOK'
  BY <1>2, <1>3, <1>4 DEF ChannelInv, Channel!TypeOK
<1>6. StreamInv'
  BY <1>1, <1>2, <1>3, <1>4 DEF ChannelInv, StreamInv, Channel!Pending
<1>7. Channel!LossIsAnnounced'
  <2> SUFFICES ASSUME NEW s \in open
               PROVE  /\ Len(yielded[s]) + warned[s] + (Len(log') + 1 - next[s])
                           = Len(log') - joined[s]
                      /\ behind'[s] <= DEFAULT_CHANNEL_CAPACITY => warned[s] = 0
    BY <1>3 DEF Channel!LossIsAnnounced, Channel!Pending
  <2>1. /\ Len(yielded[s]) + warned[s] + (Len(log) + 1 - next[s])
             = Len(log) - joined[s]
        /\ behind[s] <= DEFAULT_CHANNEL_CAPACITY => warned[s] = 0
    BY DEF ChannelInv, Channel!LossIsAnnounced, Channel!Pending
  <2>2. Len(log') = Len(log) + 1
    BY <1>2
  <2>3. /\ Len(yielded[s]) \in Nat /\ warned[s] \in Nat /\ next[s] \in Nat
        /\ joined[s] \in Nat /\ behind[s] \in Nat /\ behind'[s] \in Nat
        /\ behind'[s] >= behind[s]
    BY <1>1, <1>4
  <2>4. Len(yielded[s]) + warned[s] + (Len(log') + 1 - next[s]) = Len(log') - joined[s]
    <3>1. PICK a \in Nat, b \in Nat, n \in Nat, j \in Nat, l \in Nat :
            /\ a = Len(yielded[s]) /\ b = warned[s] /\ n = next[s]
            /\ j = joined[s] /\ l = Len(log)
      BY <1>1, <2>3
    <3>2. a + b + (l + 1 - n) = l - j
      BY <2>1, <3>1
    <3>3. a + b + ((l + 1) + 1 - n) = (l + 1) - j
      BY <3>2
    <3> QED
      BY <2>2, <3>1, <3>3
  <2>5. behind'[s] <= DEFAULT_CHANNEL_CAPACITY => warned[s] = 0
    BY <2>1, <2>3, KafkaRuntimeAssumption
  <2> QED
    BY <2>4, <2>5
<1> QED
  BY <1>5, <1>6, <1>7 DEF ChannelInv

\* A stream starts behind everything that was sent.
LEMMA SubscribeKeeps ==
  ASSUME ChannelInv, NEW s \in Streams, Channel!Subscribe(s)
  PROVE  ChannelInv'
<1>1. /\ Len(log) \in Nat /\ open \subseteq Streams
      /\ \A t \in Streams : /\ joined[t] \in Nat /\ next[t] \in Nat \ {0}
                            /\ Len(yielded[t]) \in Nat
                            /\ warned[t] \in Nat /\ behind[t] \in Nat
  BY ChannelTypes DEF ChannelInv
<1>2. /\ open' = open \cup {s} /\ s \notin open
      /\ joined' = [joined EXCEPT ![s] = Len(log)]
      /\ next' = [next EXCEPT ![s] = Len(log) + 1]
      /\ UNCHANGED <<log, yielded, warned, behind>>
  BY DEF Channel!Subscribe
<1>3. Channel!TypeOK'
  BY <1>1, <1>2 DEF ChannelInv, Channel!TypeOK
<1>4. /\ joined'[s] = Len(log) /\ next'[s] = Len(log) + 1
      /\ \A t \in open : joined'[t] = joined[t] /\ next'[t] = next[t]
  BY <1>1, <1>2 DEF ChannelInv, Channel!TypeOK
<1>5. StreamInv'
  BY <1>1, <1>2, <1>4 DEF ChannelInv, StreamInv, Channel!Pending
<1>6. Channel!LossIsAnnounced'
  <2>1. Len(yielded[s]) = 0 /\ warned[s] = 0
    BY <1>2 DEF ChannelInv, StreamInv
  <2>2. Len(yielded[s]) + warned[s] + (Len(log) + 1 - next'[s]) = Len(log) - joined'[s]
    BY <1>1, <1>4, <2>1
  <2> QED
    BY <1>2, <1>4, <2>1, <2>2
    DEF ChannelInv, Channel!LossIsAnnounced, Channel!Pending
<1> QED
  BY <1>3, <1>5, <1>6 DEF ChannelInv

\* A message that waited is yielded.
LEMMA YieldKeeps ==
  ASSUME ChannelInv, NEW s \in Streams, Channel!Yield(s)
  PROVE  ChannelInv'
<1>1. /\ Len(log) \in Nat /\ open \subseteq Streams
      /\ \A t \in Streams : /\ joined[t] \in Nat /\ next[t] \in Nat \ {0}
                            /\ yielded[t] \in Seq(Messages)
                            /\ Len(yielded[t]) \in Nat
                            /\ warned[t] \in Nat /\ behind[t] \in Nat
  BY ChannelTypes DEF ChannelInv
<1>2. PICK m \in Messages : m = log[next[s]]
  <2>1. next[s] <= Len(log) /\ next[s] \in 1 .. Len(log)
    BY <1>1 DEF Channel!Yield
  <2> QED
    BY <2>1 DEF ChannelInv, Channel!TypeOK
<1>3. /\ s \in open /\ next[s] <= Len(log)
      /\ yielded' = [yielded EXCEPT ![s] = Append(yielded[s], m)]
      /\ next' = [next EXCEPT ![s] = next[s] + 1]
      /\ UNCHANGED <<log, open, joined, warned, behind>>
  BY <1>1, <1>2 DEF Channel!Yield
<1>4. PICK y \in Seq(Messages) : /\ y = Append(yielded[s], m)
                                 /\ Len(y) = Len(yielded[s]) + 1
  <2>1. PICK q \in Seq(Messages) : q = yielded[s]
    BY <1>1
  <2>2. Append(q, m) \in Seq(Messages) /\ Len(Append(q, m)) = Len(q) + 1
    OBVIOUS
  <2> QED
    BY <2>1, <2>2
<1>5. Channel!TypeOK'
  BY <1>1, <1>3, <1>4 DEF ChannelInv, Channel!TypeOK
<1>6. /\ yielded'[s] = y /\ next'[s] = next[s] + 1
      /\ \A t \in Streams : t # s => yielded'[t] = yielded[t] /\ next'[t] = next[t]
  BY <1>3, <1>4 DEF ChannelInv, Channel!TypeOK
<1>7. StreamInv'
  BY <1>1, <1>3, <1>6 DEF ChannelInv, StreamInv, Channel!Pending
<1>8. Channel!LossIsAnnounced'
  <2>1. Len(y) + warned[s] + (Len(log) + 1 - next'[s])
          = Len(yielded[s]) + warned[s] + (Len(log) + 1 - next[s])
    <3>1. /\ Len(y) = Len(yielded[s]) + 1 /\ next'[s] = next[s] + 1
          /\ Len(yielded[s]) \in Nat /\ warned[s] \in Nat /\ next[s] \in Nat
      BY <1>1, <1>4, <1>6
    <3>2. PICK a \in Nat, b \in Nat, n \in Nat, l \in Nat :
            /\ a = Len(yielded[s]) /\ b = warned[s] /\ n = next[s] /\ l = Len(log)
      BY <1>1, <3>1
    <3>3. (a + 1) + b + (l + 1 - (n + 1)) = a + b + (l + 1 - n)
      OBVIOUS
    <3> QED
      BY <3>1, <3>2, <3>3
  <2> QED
    BY <1>1, <1>3, <1>6, <2>1
    DEF ChannelInv, Channel!LossIsAnnounced, Channel!Pending
<1> QED
  BY <1>5, <1>7, <1>8 DEF ChannelInv

\* Who is warned was behind by more than the channel holds.
LEMMA LaggedKeeps ==
  ASSUME ChannelInv, NEW s \in Streams, Channel!Lagged(s)
  PROVE  ChannelInv'
<1>1. /\ Len(log) \in Nat /\ open \subseteq Streams
      /\ \A t \in Streams : /\ joined[t] \in Nat /\ next[t] \in Nat \ {0}
                            /\ Len(yielded[t]) \in Nat
                            /\ warned[t] \in Nat /\ behind[t] \in Nat
  BY ChannelTypes DEF ChannelInv
<1>2. PICK o \in Nat : /\ o = Channel!Oldest
                       /\ o = Len(log) - Capacity + 1
                       /\ next[s] < o
  <2>1. next[s] < Channel!Oldest /\ next[s] \in Nat \ {0}
    BY <1>1 DEF Channel!Lagged
  <2>2. Channel!Oldest = IF Len(log) > Capacity
                         THEN Len(log) - Capacity + 1 ELSE 1
    BY DEF Channel!Oldest
  <2>3. Len(log) > Capacity
    BY <2>1, <2>2
  <2>4. Len(log) - Capacity + 1 \in Nat
    BY <1>1, <2>3, CapacityEnough
  <2> QED
    BY <2>1, <2>2, <2>3, <2>4
<1>3. /\ s \in open
      /\ warned' = [warned EXCEPT ![s] = warned[s] + (o - next[s])]
      /\ next' = [next EXCEPT ![s] = o]
      /\ UNCHANGED <<log, open, joined, yielded, behind>>
  BY <1>2 DEF Channel!Lagged, Channel!AfterLag
<1>4. PICK w \in Nat : w = warned[s] + (o - next[s])
  BY <1>1, <1>2
<1>5. Channel!TypeOK'
  BY <1>1, <1>2, <1>3, <1>4 DEF ChannelInv, Channel!TypeOK
<1>6. /\ warned'[s] = w /\ next'[s] = o
      /\ \A t \in Streams : t # s => warned'[t] = warned[t] /\ next'[t] = next[t]
  BY <1>3, <1>4 DEF ChannelInv, Channel!TypeOK
<1>7. StreamInv'
  <2>1. o <= Len(log) + 1 /\ Len(log) + 1 - o <= Len(log) + 1 - next[s]
    BY <1>1, <1>2, CapacityEnough
  <2> QED
    BY <1>1, <1>2, <1>3, <1>6, <2>1 DEF ChannelInv, StreamInv, Channel!Pending
<1>8. Channel!LossIsAnnounced'
  <2>1. Len(yielded[s]) + w + (Len(log) + 1 - o)
          = Len(yielded[s]) + warned[s] + (Len(log) + 1 - next[s])
    <3>1. PICK a \in Nat, b \in Nat, n \in Nat, l \in Nat :
            /\ a = Len(yielded[s]) /\ b = warned[s] /\ n = next[s] /\ l = Len(log)
      BY <1>1
    <3>2. w = b + (o - n)
      BY <1>4, <3>1
    <3>3. a + w + (l + 1 - o) = a + b + (l + 1 - n)
      BY <3>2
    <3> QED
      BY <3>1, <3>3
  <2>2. ~ (behind[s] <= DEFAULT_CHANNEL_CAPACITY)
    <3>1. Len(log) + 1 - next[s] <= behind[s]
      BY <1>3 DEF ChannelInv, StreamInv, Channel!Pending
    <3> QED
      BY <1>1, <1>2, <3>1, CapacityEnough, KafkaRuntimeAssumption, SMTT(30)
  <2> QED
    BY <1>1, <1>3, <1>6, <2>1, <2>2
    DEF ChannelInv, Channel!LossIsAnnounced, Channel!Pending
<1> QED
  BY <1>5, <1>7, <1>8 DEF ChannelInv

LEMMA DropStreamKeeps ==
  ASSUME ChannelInv, NEW s \in Streams, Channel!DropStream(s)
  PROVE  ChannelInv'
<1>1. Channel!TypeOK'
  <2>1. yielded' \in [Streams -> Seq(Messages)]
    <3>1. <<>> \in Seq(Messages)
      OBVIOUS
    <3> QED
      BY <3>1 DEF ChannelInv, Channel!TypeOK, Channel!DropStream
  <2> QED
    BY <2>1 DEF ChannelInv, Channel!TypeOK, Channel!DropStream
<1>2. /\ open' = open \ {s} /\ log' = log
      /\ yielded'[s] = <<>> /\ warned'[s] = 0
      /\ \A t \in Streams : t # s =>
           /\ yielded'[t] = yielded[t] /\ warned'[t] = warned[t]
           /\ joined'[t] = joined[t] /\ next'[t] = next[t]
           /\ behind'[t] = behind[t]
  BY DEF ChannelInv, Channel!TypeOK, Channel!DropStream
<1>3. open \subseteq Streams
  BY ChannelTypes DEF ChannelInv
<1>4. StreamInv'
  BY <1>2, <1>3 DEF ChannelInv, StreamInv, Channel!Pending
<1>5. Channel!LossIsAnnounced'
  BY <1>2, <1>3 DEF ChannelInv, Channel!LossIsAnnounced, Channel!Pending
<1> QED
  BY <1>1, <1>4, <1>5 DEF ChannelInv

LEMMA ChannelUnchanged ==
  ASSUME ChannelInv, UNCHANGED channelVars
  PROVE  ChannelInv'
<1>1. Channel!TypeOK' /\ StreamInv'
  BY DEF ChannelInv, StreamInv, Channel!TypeOK, Channel!Pending, channelVars
<1>2. Channel!LossIsAnnounced'
  BY DEF ChannelInv, Channel!LossIsAnnounced, Channel!Pending, channelVars
<1> QED
  BY <1>1, <1>2 DEF ChannelInv

-----------------------------------------------------------------------------
(* The task and its consumers *)

\* The part of TypeOK that is not about the channel.
TaskTypeOK ==
  /\ cancelled \in BOOLEAN
  /\ pc \in {"check", "create", "monitor", "sleep", "done"}
  /\ outage \in OutageStates
  /\ streamOutage \in OutageStates
  /\ high \in 0 .. MaxMessages
  /\ position \in 0 .. high + 1
  /\ committed \in 0 .. high + 1
  /\ faults \in 0 .. MaxFaults
  /\ sent \in Seq(Messages \ Tombstones)
  /\ begin \in [position : Nat, sent : Nat]
  /\ since \in 0 .. high + 1

\* A consumer does not move backwards.
SessionInv ==
  position # 0 =>
    /\ 1 <= begin.position /\ begin.position <= position
    /\ begin.sent <= Len(sent)

\* The group has an offset from the first commit on, and what lies before
\* the offset was sent: the next consumer may begin there.
CommitInv ==
  /\ since = 0 <=> committed = 0
  /\ \A m \in (since .. committed - 1) \ Tombstones : since # 0 => m \in ToSet(sent)

TaskInv ==
  /\ TaskTypeOK
  /\ SessionInv
  /\ CommitInv
  /\ SessionIsFaithful
  /\ NothingSkippedAfterCommit

IInv == TypeOK /\ TaskInv /\ ChannelInv

LEMMA TaskTypes ==
  ASSUME TaskTypeOK
  PROVE  /\ high \in Nat /\ position \in Nat /\ committed \in Nat /\ since \in Nat
         /\ position <= high + 1 /\ committed <= high + 1 /\ since <= high + 1
         /\ high <= MaxMessages
         /\ begin.position \in Nat /\ begin.sent \in Nat
         /\ Len(sent) \in Nat
         /\ \A i \in 1 .. Len(sent) : sent[i] \in Messages \ Tombstones
<1>1. /\ high \in 0 .. MaxMessages /\ position \in 0 .. high + 1
      /\ committed \in 0 .. high + 1 /\ since \in 0 .. high + 1
      /\ begin \in [position : Nat, sent : Nat]
      /\ sent \in Seq(Messages \ Tombstones)
  BY DEF TaskTypeOK
<1>2. /\ Len(sent) \in Nat
      /\ \A i \in 1 .. Len(sent) : sent[i] \in Messages \ Tombstones
  BY <1>1
<1> QED
  BY <1>1, <1>2, KafkaRuntimeAssumption

\* Steps of the loop that move neither a consumer nor the group.
LEMMA QuietKeeps ==
  ASSUME TaskInv, TaskTypeOK', UNCHANGED <<position, committed, sent, begin, since>>
  PROVE  TaskInv'
<1>1. SessionInv' /\ CommitInv'
  BY DEF TaskInv, SessionInv, CommitInv
<1>2. SessionIsFaithful' /\ NothingSkippedAfterCommit'
  BY DEF TaskInv, SessionIsFaithful, NothingSkippedAfterCommit
<1> QED
  BY <1>1, <1>2 DEF TaskInv

\* A recovery forgets the outage altogether.
LEMMA OnRecoveryResets ==
  ASSUME NEW o \in OutageStates
  PROVE  OnRecovery(o) \in OutageStates
<1>1. INITIAL_BACKOFF \in INITIAL_BACKOFF .. MAX_BACKOFF
  BY BackoffAssumption
<1>2. [o EXCEPT !.last_error_kind = NoError] \in OutageStates
  BY DEF OutageStates
<1>3. OnRecovery(o) = [[o EXCEPT !.last_error_kind = NoError]
                          EXCEPT !.next_backoff = INITIAL_BACKOFF]
  BY DEF OnRecovery
<1> HIDE DEF OnRecovery
<1> QED
  BY <1>1, <1>2, <1>3 DEF OutageStates

LEMMA OutageKeeps ==
  /\ Default \in OutageStates
  /\ \A o \in OutageStates : AdvanceBackoff(o) \in OutageStates
  /\ \A o \in OutageStates, kind \in ErrorKinds : RecordError(o, kind) \in OutageStates
<1>1. Default \in OutageStates
  BY BackoffAssumption DEF Default, OutageStates
<1>2. ASSUME NEW o \in OutageStates
      PROVE  AdvanceBackoff(o) \in OutageStates
  BY <1>2, BackoffAssumption DEF AdvanceBackoff, OutageStates
<1>3. ASSUME NEW o \in OutageStates, NEW kind \in ErrorKinds
      PROVE  RecordError(o, kind) \in OutageStates
  BY <1>3 DEF RecordError, RecordErrorLogs, OutageStates
<1> QED
  BY <1>1, <1>2, <1>3

\* The steps of start_stream that leave the consumers alone, the errors a
\* consumer reports, and what goes on around the task.
LEMMA LoopKeeps ==
  ASSUME TaskInv,
         \/ LoopCheck \/ SleepEnds \/ Produce \/ Cancel \/ UNCHANGED vars
         \/ \E kind \in ErrorKinds : CreateFails(kind) \/ HandleError(kind)
         \/ \E s \in Streams : Join(s) \/ Read(s) \/ Leave(s)
  PROVE  TaskInv'
<1>1. TaskTypeOK
  BY DEF TaskInv
<1>2. UNCHANGED <<position, committed, sent, begin, since>>
  BY DEF LoopCheck, SleepEnds, Produce, Cancel, CreateFails, HandleError, Join,
     Read, Leave, vars, taskVars, kafkaVars
<1>3. outage' \in OutageStates /\ streamOutage' \in OutageStates
  <2>1. outage \in OutageStates /\ streamOutage \in OutageStates
    BY <1>1 DEF TaskTypeOK
  <2> QED
    BY <2>1, OutageKeeps
    DEF LoopCheck, SleepEnds, Produce, Cancel, CreateFails, HandleError, Join,
        Read, Leave, vars, taskVars, kafkaVars
<1>4. /\ pc' \in {"check", "create", "monitor", "sleep", "done"}
      /\ cancelled' \in BOOLEAN
  BY <1>1
  DEF TaskTypeOK, LoopCheck, SleepEnds, Produce, Cancel, CreateFails, HandleError,
      Join, Read, Leave, vars, taskVars, kafkaVars
<1>5. faults' \in 0 .. MaxFaults
  <2>1. faults \in 0 .. MaxFaults
    BY <1>1 DEF TaskTypeOK
  <2>2. faults' = faults \/ (faults < MaxFaults /\ faults' = faults + 1)
    BY DEF LoopCheck, SleepEnds, Produce, Cancel, CreateFails, HandleError,
       Join, Read, Leave, vars, taskVars, kafkaVars
  <2> QED
    BY <2>1, <2>2, KafkaRuntimeAssumption
<1>6. /\ high' \in 0 .. MaxMessages /\ position' \in 0 .. high' + 1
      /\ committed' \in 0 .. high' + 1 /\ since' \in 0 .. high' + 1
  <2>1. high' = high \/ (high < MaxMessages /\ high' = high + 1)
    BY DEF LoopCheck, SleepEnds, Produce, Cancel, CreateFails, HandleError,
       Join, Read, Leave, vars, taskVars, kafkaVars
  <2> QED
    BY <1>1, <1>2, <2>1, TaskTypes, KafkaRuntimeAssumption
<1>7. TaskTypeOK'
  BY <1>1, <1>2, <1>3, <1>4, <1>5, <1>6 DEF TaskTypeOK
<1> QED
  BY <1>2, <1>7, QuietKeeps

\* A new consumer has no position yet, and its group the offset it had.
LEMMA CreateOkKeeps ==
  ASSUME TaskInv, CreateOk
  PROVE  TaskInv'
<1>1. TaskTypeOK
  BY DEF TaskInv
<1>2. /\ position' = 0 /\ committed' = committed /\ pc' = "monitor"
      /\ outage' = OnRecovery(outage) /\ streamOutage' = Default
      /\ UNCHANGED <<cancelled, high, faults, sent, begin, since>>
  BY DEF CreateOk, GroupOffset
<1>3. outage' \in OutageStates /\ streamOutage' \in OutageStates
  BY <1>1, <1>2, OnRecoveryResets, OutageKeeps DEF TaskTypeOK
<1>4. position' \in 0 .. high' + 1
  BY <1>1, <1>2, TaskTypes
<1>5. TaskTypeOK'
  BY <1>1, <1>2, <1>3, <1>4 DEF TaskTypeOK
<1>6. SessionInv' /\ SessionIsFaithful' /\ NothingSkippedAfterCommit'
  BY <1>2 DEF SessionInv, SessionIsFaithful, NothingSkippedAfterCommit
<1>7. CommitInv'
  BY <1>2 DEF TaskInv, CommitInv
<1> QED
  BY <1>5, <1>6, <1>7 DEF TaskInv

\* What a consumer commits, when it is closed or in the background, is how
\* far it came.
LEMMA CommitKeeps ==
  ASSUME TaskInv, UNCHANGED sent,
         committed' = committed \/ (position # 0 /\ committed' = position),
         since' = IF since = 0 THEN committed' ELSE since
  PROVE  /\ CommitInv'
         /\ committed' \in 0 .. high + 1
         /\ since' \in 0 .. high + 1
<1>1. TaskTypeOK /\ CommitInv /\ NothingSkippedAfterCommit
  BY DEF TaskInv
<1>2. /\ high \in Nat /\ position \in Nat /\ committed \in Nat /\ since \in Nat
      /\ position <= high + 1 /\ committed <= high + 1 /\ since <= high + 1
  BY <1>1, TaskTypes
<1>3. committed' \in 0 .. high + 1 /\ since' \in 0 .. high + 1
  BY <1>2
<1>4. since' = 0 <=> committed' = 0
  BY <1>1, <1>2 DEF CommitInv
<1>5. ASSUME NEW m \in (since' .. committed' - 1) \ Tombstones, since' # 0
      PROVE  m \in ToSet(sent)
  <2>1. since # 0
    <3> SUFFICES ASSUME since = 0
                 PROVE  since' .. committed' - 1 = {}
      BY <1>5
    <3>1. PICK c \in Nat : c = committed' /\ c = since'
      BY <1>2, <1>3
    <3>2. c .. c - 1 = {}
      OBVIOUS
    <3> QED
      BY <3>1, <3>2
  <2>2. CASE committed' = committed
    BY <1>1, <1>5, <2>1, <2>2 DEF CommitInv
  <2>3. CASE position # 0 /\ committed' = position
    BY <1>1, <1>5, <2>1, <2>3 DEF NothingSkippedAfterCommit
  <2> QED
    BY <2>2, <2>3
<1> QED
  BY <1>3, <1>4, <1>5 DEF CommitInv

\* The consumer is closed, by the token or because its stream ended.
LEMMA CloseKeeps ==
  ASSUME TaskInv, MonitorCancelled \/ StreamEnds
  PROVE  TaskInv'
<1>1. TaskTypeOK
  BY DEF TaskInv
<1>2. /\ position' = 0 /\ pc' = "check"
      /\ committed' = committed \/ (position # 0 /\ committed' = position)
      /\ since' = IF since = 0 THEN committed' ELSE since
      /\ UNCHANGED <<cancelled, outage, streamOutage, high, sent, begin>>
      /\ faults' = faults \/ (faults < MaxFaults /\ faults' = faults + 1)
  BY DEF MonitorCancelled, StreamEnds, CloseConsumer, AfterStream
<1>3. /\ CommitInv'
      /\ committed' \in 0 .. high + 1 /\ since' \in 0 .. high + 1
  BY <1>2, CommitKeeps
<1>4. position' \in 0 .. high' + 1 /\ faults' \in 0 .. MaxFaults
  <2>1. faults \in 0 .. MaxFaults /\ high \in Nat
    BY <1>1, TaskTypes DEF TaskTypeOK
  <2> QED
    BY <1>2, <2>1, KafkaRuntimeAssumption
<1>5. TaskTypeOK'
  BY <1>1, <1>2, <1>3, <1>4 DEF TaskTypeOK
<1>6. SessionInv' /\ SessionIsFaithful' /\ NothingSkippedAfterCommit'
  BY <1>2 DEF SessionInv, SessionIsFaithful, NothingSkippedAfterCommit
<1> QED
  BY <1>3, <1>5, <1>6 DEF TaskInv

LEMMA AutoCommitKeeps ==
  ASSUME TaskInv, AutoCommit
  PROVE  TaskInv'
<1>1. TaskTypeOK
  BY DEF TaskInv
<1>2. /\ position # 0 /\ committed' = position
      /\ since' = IF since = 0 THEN committed' ELSE since
      /\ UNCHANGED <<cancelled, pc, outage, streamOutage, sent, high, position,
                     faults, begin>>
  BY DEF AutoCommit, taskVars
<1>3. /\ CommitInv'
      /\ committed' \in 0 .. high + 1 /\ since' \in 0 .. high + 1
  BY <1>2, CommitKeeps
<1>4. TaskTypeOK'
  BY <1>1, <1>2, <1>3 DEF TaskTypeOK
<1>5. SessionInv' /\ SessionIsFaithful'
  BY <1>2 DEF TaskInv, SessionInv, SessionIsFaithful
<1>6. NothingSkippedAfterCommit'
  <2>1. CASE since = 0
    <3>1. since' = position /\ position \in Nat
      BY <1>1, <1>2, <2>1, TaskTypes
    <3>2. since' .. position' - 1 = {}
      BY <1>2, <3>1
    <3> QED
      BY <3>2 DEF NothingSkippedAfterCommit
  <2>2. CASE since # 0
    BY <1>2, <2>2 DEF TaskInv, NothingSkippedAfterCommit
  <2> QED
    BY <2>1, <2>2
<1> QED
  BY <1>3, <1>4, <1>5, <1>6 DEF TaskInv

\* A consumer begins at the offset of the group, if there is one.
LEMMA AssignKeeps ==
  ASSUME TaskInv, Assign
  PROVE  TaskInv'
<1>1. TaskTypeOK /\ CommitInv
  BY DEF TaskInv
<1>2. /\ high \in Nat /\ committed \in Nat /\ committed <= high + 1
      /\ Len(sent) \in Nat
  BY <1>1, TaskTypes
<1>3. PICK p \in 1 .. high + 1 :
        /\ position' = p
        /\ committed # 0 => p = committed
        /\ begin' = [position |-> p, sent |-> Len(sent)]
  BY <1>2 DEF Assign
<1>4. UNCHANGED <<cancelled, pc, outage, streamOutage, sent, high, committed,
                  faults, since>>
  BY DEF Assign, taskVars
<1>5. /\ p \in Nat /\ 1 <= p
      /\ begin' \in [position : Nat, sent : Nat]
      /\ begin'.position = p /\ begin'.sent = Len(sent)
  BY <1>2, <1>3
<1>6. TaskTypeOK'
  <2>1. position' \in 0 .. high' + 1
    BY <1>2, <1>3, <1>4
  <2> QED
    BY <1>1, <1>4, <1>5, <2>1 DEF TaskTypeOK
<1>7. SessionInv' /\ CommitInv'
  BY <1>1, <1>2, <1>3, <1>4, <1>5 DEF SessionInv, CommitInv
<1>8. SessionIsFaithful'
  <2>1. begin'.sent + 1 .. Len(sent') = {} /\ begin'.position .. position' - 1 = {}
    BY <1>2, <1>3, <1>4, <1>5
  <2> QED
    BY <2>1 DEF SessionIsFaithful
<1>9. NothingSkippedAfterCommit'
  BY <1>1, <1>3, <1>4 DEF CommitInv, NothingSkippedAfterCommit
<1> QED
  BY <1>6, <1>7, <1>8, <1>9 DEF TaskInv

\* Sending keeps what was sent and adds the message.
LEMMA ToSetAppend ==
  ASSUME NEW S, NEW s \in Seq(S), NEW e \in S
  PROVE  ToSet(s) \cup {e} \subseteq ToSet(Append(s, e))
<1>1. ToSet(s) \subseteq ToSet(Append(s, e))
  BY DEF ToSet
<1>2. e \in ToSet(Append(s, e))
  <2>1. Append(s, e)[Len(s) + 1] = e /\ Len(s) + 1 \in DOMAIN Append(s, e)
    OBVIOUS
  <2> QED
    BY <2>1 DEF ToSet
<1> QED
  BY <1>1, <1>2

\* The consumer hands over the next message, which is sent or has no payload.
LEMMA HandleMessageKeeps ==
  ASSUME TaskInv, HandleMessage
  PROVE  TaskInv'
<1>1. /\ TaskTypeOK /\ SessionInv /\ CommitInv /\ SessionIsFaithful
      /\ NothingSkippedAfterCommit
  BY DEF TaskInv
<1>2. /\ high \in Nat /\ position \in Nat /\ committed \in Nat /\ since \in Nat
      /\ high <= MaxMessages
      /\ begin.position \in Nat /\ begin.sent \in Nat /\ Len(sent) \in Nat
      /\ \A i \in 1 .. Len(sent) : sent[i] \in Messages \ Tombstones
  BY <1>1, TaskTypes
<1>3. /\ 1 <= position /\ position <= high /\ position \in Messages
      /\ 1 <= begin.position /\ begin.position <= position
      /\ begin.sent <= Len(sent)
  <2>1. 1 <= position /\ position <= high
    BY <1>2 DEF HandleMessage
  <2> QED
    BY <1>1, <1>2, <2>1, KafkaRuntimeAssumption DEF SessionInv, Messages
<1>4. /\ UNCHANGED <<cancelled, pc, outage, high, committed, faults, begin, since>>
      /\ position' = position + 1
      /\ streamOutage' = OnRecovery(streamOutage)
      /\ sent' = IF position \notin Tombstones THEN Append(sent, position) ELSE sent
  BY DEF HandleMessage, Sends, Converts
<1>5. /\ sent \in Seq(Messages \ Tombstones) /\ sent' \in Seq(Messages \ Tombstones)
      /\ ToSet(sent) \subseteq ToSet(sent)'
      /\ position \notin Tombstones => position \in ToSet(sent)'
  <2>1. sent \in Seq(Messages \ Tombstones)
    BY <1>1 DEF TaskTypeOK
  <2>2. CASE position \notin Tombstones
    <3>1. position \in Messages \ Tombstones
      BY <1>3, <2>2
    <3>2. ToSet(sent) \cup {position} \subseteq ToSet(Append(sent, position))
      BY <2>1, <3>1, ToSetAppend
    <3>3. Append(sent, position) \in Seq(Messages \ Tombstones)
      BY <2>1, <3>1
    <3> QED
      BY <1>4, <2>1, <2>2, <3>2, <3>3
  <2>3. CASE position \in Tombstones
    BY <1>4, <2>1, <2>3
  <2> QED
    BY <2>2, <2>3
<1>6. TaskTypeOK'
  <2>1. streamOutage' \in OutageStates
    BY <1>1, <1>4, OnRecoveryResets DEF TaskTypeOK
  <2>2. position' \in 0 .. high' + 1
    BY <1>2, <1>3, <1>4
  <2> QED
    BY <1>1, <1>4, <1>5, <2>1, <2>2 DEF TaskTypeOK
<1>7. SessionInv'
  <2>1. Len(sent) <= Len(sent') /\ Len(sent') \in Nat
    BY <1>2, <1>4, <1>5
  <2> QED
    BY <1>2, <1>3, <1>4, <2>1 DEF SessionInv
<1>8. CommitInv'
  BY <1>1, <1>4, <1>5 DEF CommitInv
<1>9. NothingSkippedAfterCommit'
  <2> SUFFICES ASSUME since # 0, NEW m \in (since .. position) \ Tombstones
               PROVE  m \in ToSet(sent)'
    BY <1>2, <1>4 DEF NothingSkippedAfterCommit
  <2>1. CASE m = position
    BY <1>5, <2>1
  <2>2. CASE m # position
    <3>1. m \in since .. position - 1
      BY <1>2, <2>2
    <3> QED
      BY <1>1, <1>3, <1>5, <3>1 DEF NothingSkippedAfterCommit
  <2> QED
    BY <2>1, <2>2
<1>10. SessionIsFaithful'
  <2>1. /\ \A i, j \in begin.sent + 1 .. Len(sent) : i < j => sent[i] < sent[j]
        /\ {sent[i] : i \in begin.sent + 1 .. Len(sent)} =
             (begin.position .. position - 1) \ Tombstones
    BY <1>1, <1>3 DEF SessionIsFaithful
  <2>2. CASE position \in Tombstones
    <3>1. (begin.position .. position) \ Tombstones =
            (begin.position .. position - 1) \ Tombstones
      BY <1>2, <2>2
    <3>2. sent' = sent /\ begin' = begin /\ position' - 1 = position
      BY <1>2, <1>4, <2>2
    <3> QED
      BY <2>1, <3>1, <3>2 DEF SessionIsFaithful
  <2>3. CASE position \notin Tombstones
    <3>1. /\ sent' = Append(sent, position) /\ begin' = begin
          /\ position' - 1 = position
      BY <1>2, <1>4, <2>3
    <3>2. /\ Len(sent') = Len(sent) + 1
          /\ sent'[Len(sent) + 1] = position
          /\ \A i \in 1 .. Len(sent) : sent'[i] = sent[i]
      BY <1>5, <3>1
    <3>3. \A i \in begin.sent + 1 .. Len(sent') :
            \/ i = Len(sent) + 1
            \/ i \in begin.sent + 1 .. Len(sent) /\ i \in 1 .. Len(sent)
      BY <1>2, <3>2
    <3>4. \A i \in begin.sent + 1 .. Len(sent) : i \in 1 .. Len(sent)
      BY <1>2
    <3>5. \A i \in begin.sent + 1 .. Len(sent) :
            sent[i] \in begin.position .. position - 1 /\ sent[i] < position
      <4>1. \A i \in begin.sent + 1 .. Len(sent) :
              sent[i] \in begin.position .. position - 1
        BY <2>1
      <4> QED
        BY <1>2, <4>1
    <3>6. ASSUME NEW i \in begin.sent + 1 .. Len(sent'),
                 NEW j \in begin.sent + 1 .. Len(sent'), i < j
          PROVE  sent'[i] < sent'[j]
      <4>1. i \in begin.sent + 1 .. Len(sent) /\ i \in 1 .. Len(sent)
        BY <1>2, <3>2, <3>6
      <4>2. CASE j = Len(sent) + 1
        BY <3>2, <3>5, <4>1, <4>2
      <4>3. CASE j \in begin.sent + 1 .. Len(sent)
        BY <2>1, <3>2, <3>4, <3>6, <4>1, <4>3
      <4> QED
        BY <3>3, <3>6, <4>2, <4>3
    <3>7. {sent'[i] : i \in begin.sent + 1 .. Len(sent')} =
            {sent[i] : i \in begin.sent + 1 .. Len(sent)} \cup {position}
      <4>1. Len(sent) + 1 \in begin.sent + 1 .. Len(sent')
        BY <1>2, <1>3, <3>2
      <4>2. \A i \in begin.sent + 1 .. Len(sent) :
              i \in begin.sent + 1 .. Len(sent') /\ sent'[i] = sent[i]
        BY <1>2, <3>2, <3>4
      <4> QED
        BY <3>2, <3>3, <4>1, <4>2
    <3>8. (begin.position .. position) \ Tombstones =
            ((begin.position .. position - 1) \ Tombstones) \cup {position}
      BY <1>2, <1>3, <2>3
    <3> QED
      BY <2>1, <3>1, <3>6, <3>7, <3>8 DEF SessionIsFaithful
  <2> QED
    BY <2>2, <2>3
<1> QED
  BY <1>6, <1>7, <1>8, <1>9, <1>10 DEF TaskInv

-----------------------------------------------------------------------------

\* Every step of the task and around it leaves the channel alone or is one of
\* the channel's.
LEMMA StepKeepsChannel ==
  ASSUME TaskInv, ChannelInv, [Next]_vars
  PROVE  ChannelInv'
<1>1. CASE UNCHANGED channelVars
  BY <1>1, ChannelUnchanged
<1>2. CASE HandleMessage
  <2>1. position \in Messages
    <3>1. high \in Nat /\ high <= MaxMessages /\ position \in 1 .. high
      BY <1>2, TaskTypes DEF TaskInv, HandleMessage
    <3> QED
      BY <3>1, KafkaRuntimeAssumption DEF Messages
  <2> QED
    BY <1>2, <2>1, SendKeeps, ChannelUnchanged DEF HandleMessage
<1>3. ASSUME NEW s \in Streams, Join(s) \/ Read(s) \/ Leave(s)
      PROVE  ChannelInv'
  BY <1>3, SubscribeKeeps, YieldKeeps, LaggedKeeps, DropStreamKeeps
  DEF Join, Read, Leave
<1>4. CASE \/ LoopCheck \/ CreateOk \/ SleepEnds \/ MonitorCancelled \/ StreamEnds
           \/ \E kind \in ErrorKinds : CreateFails(kind) \/ HandleError(kind)
           \/ Assign \/ AutoCommit \/ Produce \/ Cancel \/ UNCHANGED vars
  <2>1. UNCHANGED channelVars
    BY <1>4
    DEF LoopCheck, CreateOk, SleepEnds, MonitorCancelled, StreamEnds, CreateFails,
        HandleError, Assign, AutoCommit, Produce, Cancel, vars
  <2> QED
    BY <1>1, <2>1
<1> QED
  BY <1>2, <1>3, <1>4 DEF Next, TaskStep

LEMMA StepKeepsTask ==
  ASSUME TaskInv, [Next]_vars
  PROVE  TaskInv'
BY LoopKeeps, CreateOkKeeps, CloseKeeps, AutoCommitKeeps, AssignKeeps,
   HandleMessageKeeps DEF Next, TaskStep

\* IInv holds initially and every step keeps it, so it always holds.
THEOREM Invariance == Spec => []IInv
<1>1. Init => IInv
  <2> SUFFICES ASSUME Init
               PROVE  IInv
    OBVIOUS
  <2>1. TaskTypeOK
    <3>1. sent \in Seq(Messages \ Tombstones)
      BY DEF Init
    <3>2. outage \in OutageStates /\ streamOutage \in OutageStates
      BY OutageKeeps DEF Init
    <3>3. /\ high \in 0 .. MaxMessages /\ position \in 0 .. high + 1
          /\ committed \in 0 .. high + 1 /\ faults \in 0 .. MaxFaults
          /\ since \in 0 .. high + 1
      BY KafkaRuntimeAssumption DEF Init
    <3> QED
      BY <3>1, <3>2, <3>3 DEF Init, TaskTypeOK
  <2>2. TaskInv
    BY <2>1 DEF Init, TaskInv, SessionInv, CommitInv, SessionIsFaithful,
       NothingSkippedAfterCommit
  <2>3. Channel!TypeOK
    <3>1. log \in Seq(Messages) /\ yielded \in [Streams -> Seq(Messages)]
      BY DEF Init, Channel!Init
    <3> QED
      BY <3>1 DEF Init, Channel!Init, Channel!TypeOK
  <2>4. ChannelInv
    BY <2>3 DEF Init, Channel!Init, ChannelInv, StreamInv, Channel!LossIsAnnounced
  <2>5. TypeOK
    BY <2>1, <2>3 DEF TaskTypeOK, TypeOK
  <2> QED
    BY <2>2, <2>4, <2>5 DEF IInv
<1>2. IInv /\ [Next]_vars => IInv'
  <2> SUFFICES ASSUME IInv, [Next]_vars
               PROVE  IInv'
    OBVIOUS
  <2>1. TaskInv'
    BY StepKeepsTask DEF IInv
  <2>2. ChannelInv'
    BY StepKeepsChannel DEF IInv
  <2>3. TypeOK'
    BY <2>1, <2>2 DEF TaskInv, TaskTypeOK, ChannelInv, TypeOK
  <2> QED
    BY <2>1, <2>2, <2>3 DEF IInv
<1> QED
  BY <1>1, <1>2, PTL DEF Spec

\* Every reachable state is well-typed: in particular no message without a
\* payload is ever sent, and no consumer is beyond the end of the partition.
THEOREM TypeCorrect == Spec => []TypeOK
<1>1. IInv => TypeOK
  BY DEF IInv
<1> QED
  BY <1>1, Invariance, PTL

\* What a consumer was handed is sent once each, in order and without a gap,
\* except for messages without a payload.
THEOREM FaithfulSession == Spec => []SessionIsFaithful
<1>1. IInv => SessionIsFaithful
  BY DEF IInv, TaskInv
<1> QED
  BY <1>1, Invariance, PTL

\* From the first commit on, no message is skipped by any sequence of failed
\* consumers.
THEOREM NothingSkipped == Spec => []NothingSkippedAfterCommit
<1>1. IInv => NothingSkippedAfterCommit
  BY DEF IInv, TaskInv
<1> QED
  BY <1>1, Invariance, PTL

\* What a stream yielded, what its warnings announced and what still waits add
\* up to what was sent since it subscribed, and a stream that never falls
\* behind by more than DEFAULT_CHANNEL_CAPACITY is warned of nothing.
THEOREM AnnouncedLoss == Spec => []LossIsAnnounced
<1>1. IInv => LossIsAnnounced
  BY DEF IInv, ChannelInv, LossIsAnnounced
<1> QED
  BY <1>1, Invariance, PTL
=============================================================================
