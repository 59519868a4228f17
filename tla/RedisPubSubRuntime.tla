------------------------- MODULE RedisPubSubRuntime -------------------------
(***************************************************************************)
(* The background task of a Redis pub/sub subscriber                       *)
(* (src/src/redis_impls/pubsub/runtime/mod.rs): connect and subscribe,     *)
(* drain messages into the broadcast channel until the connection breaks   *)
(* or the task is cancelled, back off, start again.                        *)
(*                                                                         *)
(* Redis is external: a message is pushed to the connections subscribed at *)
(* the time it is published and to nobody else, and what was not yet read  *)
(* from a connection that breaks may be lost.                              *)
(***************************************************************************)
EXTENDS OutageState, Powers, Sequences, SequencesExt

CONSTANTS
  MaxMessages,  \* bound: messages are numbered 1 .. MaxMessages
  Undecodable,  \* the messages whose payload cannot be converted
  Io            \* ErrorKind::Io, the kind given to a dropped connection

Messages == 1 .. MaxMessages

ASSUME PubSubAssumption ==
  /\ MaxMessages \in Nat
  /\ Undecodable \subseteq Messages
  /\ Io \in ErrorKinds

VARIABLES
  cancelled,  \* the cancellation token has fired
  pc,         \* control point of start_stream
  outage,     \* its OutageState
  conn,       \* the pub/sub connection: "none", "open" or "closed"
  inbox,      \* what the connection received and drain_messages did not take
  sent,       \* what was given to Sender::send
  published,  \* how many messages were published
  received,   \* history: the messages that reached a subscribed connection
  waits,      \* history: sleeps completed since the last recovery, counted
              \* until they reach MAX_BACKOFF
  lastError,  \* history: the last error, "none", "connect" or "drop"
  serverUp    \* whether Redis accepts connections

taskVars == <<pc, outage, conn, inbox, sent, waits, lastError>>
vars == <<cancelled, taskVars, published, received, serverUp>>

TypeOK ==
  /\ cancelled \in BOOLEAN
  /\ pc \in {"check", "connect", "drain", "sleep", "done"}
  /\ outage \in OutageStates
  /\ conn \in {"none", "open", "closed"}
  /\ inbox \in Seq(Messages)
  /\ sent \in Seq(Messages)
  /\ published \in 0 .. MaxMessages
  /\ received \in SUBSET Messages
  /\ waits \in Nat
  /\ lastError \in {"none", "connect", "drop"}
  /\ serverUp \in BOOLEAN

Init ==
  /\ cancelled = FALSE
  /\ pc = "check"
  /\ outage = Default
  /\ conn = "none"
  /\ inbox = <<>>
  /\ sent = <<>>
  /\ published = 0
  /\ received = {}
  /\ waits = 0
  /\ lastError = "none"
  /\ serverUp \in BOOLEAN

-----------------------------------------------------------------------------
(* The task *)

\* Mutant of LoopAgain: the loop never looks at the token.
LoopAgainForever == TRUE

\* while !cancel_token.is_cancelled()
LoopAgain == ~cancelled

LoopCheck ==
  /\ pc = "check"
  /\ pc' = IF LoopAgain THEN "connect" ELSE "done"
  /\ UNCHANGED <<cancelled, outage, conn, inbox, sent, published, received,
                 waits, lastError, serverUp>>

\* connect_and_subscribe succeeds, and the outage is over.
ConnectOk ==
  /\ pc = "connect"
  /\ serverUp
  /\ conn' = "open"
  /\ inbox' = <<>>
  /\ outage' = OnRecovery(outage)
  /\ waits' = 0
  /\ pc' = "drain"
  /\ UNCHANGED <<cancelled, sent, published, received, lastError, serverUp>>

\* Opening the client, connecting or subscribing fails: on_error.
ConnectFails(kind) ==
  /\ pc = "connect"
  /\ ~serverUp
  /\ outage' = RecordError(outage, kind)
  /\ lastError' = "connect"
  /\ pc' = "sleep"
  /\ UNCHANGED <<cancelled, conn, inbox, sent, published, received, waits,
                 serverUp>>

\* The sleep inside on_error ends.  It does not listen to the token.
SleepEnds ==
  /\ pc = "sleep"
  /\ outage' = AdvanceBackoff(outage)
  /\ waits' = IF INITIAL_BACKOFF * Pow2[waits] < MAX_BACKOFF THEN waits + 1 ELSE waits
  /\ pc' = "check"
  /\ UNCHANGED <<cancelled, conn, inbox, sent, published, received, lastError,
                 serverUp>>

\* Mutant of TakeMessage: an undecodable payload ends the drain.
TakeMessageGivingUp ==
  /\ sent' = IF Head(inbox) \in Undecodable
             THEN sent ELSE Append(sent, Head(inbox))
  /\ inbox' = IF Head(inbox) \in Undecodable THEN <<>> ELSE Tail(inbox)

\* Mutant of TakeMessage: a message that was sent stays in the buffer.
TakeMessageTwice ==
  /\ sent' = IF Head(inbox) \in Undecodable
             THEN sent ELSE Append(sent, Head(inbox))
  /\ inbox' \in {inbox, Tail(inbox)}

\* The next message is converted and sent, or skipped with a warning.
TakeMessage ==
  /\ sent' = IF Head(inbox) \in Undecodable
             THEN sent ELSE Append(sent, Head(inbox))
  /\ inbox' = Tail(inbox)

Forward ==
  /\ pc = "drain"
  /\ inbox # <<>>
  /\ TakeMessage
  /\ UNCHANGED <<cancelled, pc, outage, conn, published, received, waits,
                 lastError, serverUp>>

\* Mutant of AfterDrop: the task ends with its connection.
AfterDropDone == "done"

AfterDrop == "sleep"

\* The connection is closed and its buffer drained: DrainOutcome::Reconnect,
\* and on_error with an error of kind Io.
ConnectionDropped ==
  /\ pc = "drain"
  /\ conn = "closed"
  /\ inbox = <<>>
  /\ conn' = "none"
  /\ outage' = RecordError(outage, Io)
  /\ lastError' = "drop"
  /\ pc' = AfterDrop
  /\ UNCHANGED <<cancelled, inbox, sent, published, received, waits, serverUp>>

\* The other branch of the select!, which may win over a ready message.
DrainCancelled ==
  /\ pc = "drain"
  /\ cancelled
  /\ conn' = "none"
  /\ inbox' = <<>>
  /\ pc' = "done"
  /\ UNCHANGED <<cancelled, outage, sent, published, received, waits,
                 lastError, serverUp>>

-----------------------------------------------------------------------------
(* Its environment *)

\* The cache drops the runtime and cancels the token.
Cancel ==
  /\ ~cancelled
  /\ cancelled' = TRUE
  /\ UNCHANGED <<taskVars, published, received, serverUp>>

Publish ==
  /\ serverUp
  /\ published < MaxMessages
  /\ published' = published + 1
  /\ inbox' = IF conn = "open" THEN Append(inbox, published') ELSE inbox
  /\ received' = IF conn = "open" THEN received \cup {published'} ELSE received
  /\ UNCHANGED <<cancelled, pc, outage, conn, sent, waits, lastError, serverUp>>

\* The connection breaks, and loses what was still on the wire.
ConnectionBreaks ==
  /\ conn = "open"
  /\ conn' = "closed"
  /\ \E n \in 0 .. Len(inbox) :
       /\ inbox' = SubSeq(inbox, 1, n)
       /\ received' = received \ {inbox[i] : i \in n + 1 .. Len(inbox)}
  /\ UNCHANGED <<cancelled, pc, outage, sent, published, waits, lastError,
                 serverUp>>

ServerGoesDown ==
  /\ serverUp
  /\ conn # "open"
  /\ serverUp' = FALSE
  /\ UNCHANGED <<cancelled, taskVars, published, received>>

ServerComesUp ==
  /\ ~serverUp
  /\ serverUp' = TRUE
  /\ UNCHANGED <<cancelled, taskVars, published, received>>

-----------------------------------------------------------------------------
TaskStep ==
  \/ LoopCheck
  \/ ConnectOk
  \/ \E kind \in ErrorKinds : ConnectFails(kind)
  \/ SleepEnds
  \/ Forward
  \/ ConnectionDropped

Next ==
  \/ TaskStep
  \/ DrainCancelled
  \/ Cancel
  \/ Publish
  \/ ConnectionBreaks
  \/ ServerGoesDown
  \/ ServerComesUp

Spec == Init /\ [][Next]_vars

\* The task is polled when it can go on: a connection attempt ends one way
\* or the other, a sleep ends, and a select! whose cancelled branch is ready
\* for ever takes it some time.  Redis owes nothing.
FairSpec == Spec /\ WF_vars(TaskStep) /\ WF_vars(DrainCancelled)

-----------------------------------------------------------------------------
(* Properties *)

\* Messages go out in the order they were published and none goes out twice,
\* across any number of reconnections.
SentInOrder == \A i, j \in 1 .. Len(sent) : i < j => sent[i] < sent[j]

\* A message that reached a subscribed connection and that can be converted
\* is sent or still waits to be: an undecodable message and a break of the
\* connection after it cost nothing but themselves.
NothingReceivedIsLost ==
  pc # "done" =>
    \A m \in received \ Undecodable : m \in ToSet(sent) \cup ToSet(inbox)

\* The n-th wait of an outage lasts INITIAL_BACKOFF * 2^(n-1), up to
\* MAX_BACKOFF, and every outage starts again from INITIAL_BACKOFF.
BackoffIsExponential ==
  outage.next_backoff =
    IF INITIAL_BACKOFF * Pow2[waits] <= MAX_BACKOFF
    THEN INITIAL_BACKOFF * Pow2[waits] ELSE MAX_BACKOFF

\* A cancelled task ends, even if Redis stays down and even if messages keep
\* coming.
CancelledTaskStops == cancelled ~> (pc = "done")

\* A task that is not cancelled is subscribed again and again as long as
\* Redis stays up, however often the connection breaks.
KeepsReconnecting == []<>(conn = "open" \/ ~serverUp \/ cancelled)

\* "Treat an unexpected connection drop as an IoError-shaped outage so that
\* repeated drops are deduplicated and backoff is applied" (start_stream):
\* a drop whose previous error was a drop as well is not logged again.
RepeatedDropsAreDeduplicated ==
  [][ConnectionDropped /\ lastError = "drop" => ~RecordErrorLogs(outage, Io)]_vars
=============================================================================
