------------------------------- MODULE FanOut -------------------------------
(***************************************************************************)
(* The fan-out of one runtime: its task sends messages into a broadcast    *)
(* channel, and every stream that get_stream returned reads them at its    *)
(* own pace (get_stream and CachedRuntime of src/src/cache.rs).            *)
(*                                                                         *)
(* The channel is tokio's, external: it keeps the last messages, as many   *)
(* as the capacity rounded up to a power of two; a message sent while      *)
(* nobody is subscribed is refused and dropped; a receiver that missed     *)
(* messages is told how many and goes on with the oldest one left.         *)
(***************************************************************************)
EXTENDS Naturals, Sequences

CONSTANTS
  Streams,                   \* streams returned by get_stream
  Messages,                  \* what the task may send
  DEFAULT_CHANNEL_CAPACITY,
  Capacity                   \* what tokio's channel makes of it

VARIABLES
  log,      \* the messages the channel accepted
  open,     \* the streams that are subscribed
  joined,   \* length of log when each stream subscribed
  next,     \* position in log each stream reads next
  yielded,  \* the messages each stream yielded
  warned,   \* the number of messages its lag warnings announced
  behind    \* history: the most messages that ever waited for it

vars == <<log, open, joined, next, yielded, warned, behind>>

TypeOK ==
  /\ log \in Seq(Messages)
  /\ open \in SUBSET Streams
  /\ joined \in [Streams -> Nat]
  /\ next \in [Streams -> Nat \ {0}]
  /\ yielded \in [Streams -> Seq(Messages)]
  /\ warned \in [Streams -> Nat]
  /\ behind \in [Streams -> Nat]

Init ==
  /\ log = <<>>
  /\ open = {}
  /\ joined = [s \in Streams |-> 0]
  /\ next = [s \in Streams |-> 1]
  /\ yielded = [s \in Streams |-> <<>>]
  /\ warned = [s \in Streams |-> 0]
  /\ behind = [s \in Streams |-> 0]

\* Position of the oldest message the channel still has.
Oldest == IF Len(log) > Capacity THEN Len(log) - Capacity + 1 ELSE 1

\* The messages that wait for s.
Pending(s) == Len(log) + 1 - next[s]

\* The task sends a message and ignores whether anybody is there.
Send(m) ==
  /\ log' = IF open = {} THEN log ELSE Append(log, m)
  /\ behind' = [s \in Streams |->
                  IF s \in open /\ Len(log') + 1 - next[s] > behind[s]
                  THEN Len(log') + 1 - next[s] ELSE behind[s]]
  /\ UNCHANGED <<open, joined, next, yielded, warned>>

\* BroadcastStream::new(sender.subscribe())
Subscribe(s) ==
  /\ s \notin open
  /\ open' = open \cup {s}
  /\ joined' = [joined EXCEPT ![s] = Len(log)]
  /\ next' = [next EXCEPT ![s] = Len(log) + 1]
  /\ UNCHANGED <<log, yielded, warned, behind>>

\* The stream yields the next message, converted.
Yield(s) ==
  /\ s \in open
  /\ next[s] \in Oldest .. Len(log)
  /\ yielded' = [yielded EXCEPT ![s] = Append(@, log[next[s]])]
  /\ next' = [next EXCEPT ![s] = @ + 1]
  /\ UNCHANGED <<log, open, joined, warned, behind>>

\* Mutant of AfterLag: the stream starts again with what comes next.
AfterLagNewest == Len(log) + 1

\* Where a stream that lagged goes on.
AfterLag == Oldest

\* The stream lagged: the warning says by how much and nothing is yielded.
Lagged(s) ==
  /\ s \in open
  /\ next[s] < Oldest
  /\ warned' = [warned EXCEPT ![s] = @ + (Oldest - next[s])]
  /\ next' = [next EXCEPT ![s] = AfterLag]
  /\ UNCHANGED <<log, open, joined, yielded, behind>>

\* The stream is dropped, with all that waited for it.
DropStream(s) ==
  /\ s \in open
  /\ open' = open \ {s}
  /\ joined' = [joined EXCEPT ![s] = 0]
  /\ next' = [next EXCEPT ![s] = 1]
  /\ yielded' = [yielded EXCEPT ![s] = <<>>]
  /\ warned' = [warned EXCEPT ![s] = 0]
  /\ behind' = [behind EXCEPT ![s] = 0]
  /\ UNCHANGED log

-----------------------------------------------------------------------------
(* Properties *)

\* What a stream yielded, what its warnings announced and what still waits add
\* up to all that was sent since it subscribed; and "a subscriber that falls
\* behind by more than this many messages will be considered lagged": one that
\* never does is warned of nothing, however slow the other streams are.
LossIsAnnounced ==
  \A s \in open :
    /\ Len(yielded[s]) + warned[s] + Pending(s) = Len(log) - joined[s]
    /\ behind[s] <= DEFAULT_CHANNEL_CAPACITY => warned[s] = 0
=============================================================================
