------------------------------ MODULE MockRedis ------------------------------
(***************************************************************************)
(* The in-process Redis server of src/src/redis_impls/testing_utils/mod.rs *)
(* and the TestHarness that watches it.                                    *)
(*                                                                         *)
(* A connection is a stream of bytes that arrives in chunks of any size.   *)
(* read_stream decodes each chunk by itself, lossily, keeps what does not  *)
(* yet make a command in pending, executes the complete commands and then  *)
(* writes their responses.  A command on the wire is a cell for all its    *)
(* tokens but the last (with the array header, or as the first words of a  *)
(* line), the bytes of the last token and a cell for the closing CRLF: a   *)
(* part of such a cell is worth as much to the parser as none of it.  Only *)
(* the last token has characters of two bytes or a CRLF in it, and no part *)
(* of it reads like the beginning of a command.                            *)
(*                                                                         *)
(* There is one stream topic, whose entries are numbered as push numbers   *)
(* them.  An id is written in base Base (ten in the code) and ids are      *)
(* compared as strings.  TCP and tokio's channels are external.  Of the    *)
(* two channels the harness receives from, which are read by the same      *)
(* code, the one of payloads is modelled, and not the one of descriptions. *)
(***************************************************************************)
EXTENDS Integers, Sequences, SequencesExt, FiniteSets

CONSTANTS
  Clients,   \* connections, each with one client
  Scripts,   \* for each client the commands it sends, several choices
  Ascii,     \* the characters of one byte
  Base,      \* base of the numbers in entry ids
  Capacity,  \* broadcast::channel(32)
  Expected,  \* the payloads a test may look for
  Preloaded, \* number of pubsub_messages of the topic
  Dollar,    \* the id "$"
  None

\* What a command begins with; Unknown stands for every other word.
Words == {"CLIENT", "PUBLISH", "XADD", "XRANGE", "XREAD", "SUBSCRIBE", "Unknown"}

\* The bytes of a text.  A character of two bytes is "lead" and "cont", and a
\* CRLF is "cr" and "lf".
IsText(bytes) ==
  /\ bytes \in Seq(Ascii \cup {"lead", "cont", "cr", "lf"})
  /\ \A i \in 1 .. Len(bytes) :
       /\ bytes[i] = "lead" => i < Len(bytes) /\ bytes[i + 1] = "cont"
       /\ bytes[i] = "cont" => i > 1 /\ bytes[i - 1] = "lead"

\* No CRLF
OneLine(bytes) == \A i \in 2 .. Len(bytes) : ~ (bytes[i - 1] = "cr" /\ bytes[i] = "lf")

\* What a client may send: a command, with its arguments, fewer than it needs
\* ("short") or, for an XADD, such that the last one is no value ("odd"), as
\* an array or in one line.
IsCommand(cmd) ==
  /\ cmd = [word |-> cmd.word, form |-> cmd.form, inline |-> cmd.inline,
            payload |-> cmd.payload, id |-> None]
  /\ cmd.word \in Words
  /\ cmd.form \in {"full", "short", "odd"}
  /\ cmd.word = "SUBSCRIBE" => cmd.form = "full"
  /\ cmd.inline \in BOOLEAN
  /\ IsText(cmd.payload)
  /\ cmd.inline => \A i \in 1 .. Len(cmd.payload) : cmd.payload[i] \notin {"cr", "lf"}

ASSUME MockAssumption ==
  /\ \A s \in Scripts : \A c \in Clients :
       Len(s[c]) \in Nat /\ \A i \in 1 .. Len(s[c]) : IsCommand(s[c][i])
  /\ Ascii \cap {"head", "words", "crlf", "lead", "cont", "cr", "lf", "bad"} = {}
  /\ Base \in Nat \ {0, 1}
  /\ Capacity \in Nat \ {0}
  /\ Dollar \notin Nat

VARIABLES
  script,     \* what the clients send
  shutdown,   \* the token of the harness was cancelled
  listening,  \* the task of listen_for_requests runs
  wire,       \* the cells on their way to the server, per connection
  conn,       \* the connections, see Connection
  added,      \* number of entries of the stream
  log,        \* the payloads sent to the harness and the commands they are from
  read,       \* how many of them it has received or lost
  looking     \* the payload it waits for, or None

harnessVars == <<log, read, looking>>
vars == <<script, shutdown, listening, wire, conn, added, harnessVars>>

\* A connection nobody has made yet.
Connection ==
  [task      |-> "none",  \* handle_connection: none, open, ended or panicked
   pending   |-> <<>>,    \* decoded cells that make no command yet
   queue     |-> <<>>,    \* parsed commands to be executed
   capture   |-> None,    \* payload of the XADD that was pushed, to be sent
   responses |-> <<>>,    \* to be written when the queue is through
   done      |-> <<>>,    \* history: the commands that were executed
   split     |-> FALSE,   \* history: a chunk ended inside a character
   closed    |-> FALSE,   \* client: it hung up
   sent      |-> 0,       \* client: how many commands of its script it sent
   answered  |-> 0,       \* client: how many responses it read
   last      |-> Dollar,  \* client: the id it reads the stream from
   got       |-> <<>>]    \* client: the entries its XREADs returned

Init ==
  /\ script \in Scripts
  /\ shutdown = FALSE
  /\ listening = TRUE
  /\ wire = [c \in Clients |-> <<>>]
  /\ conn = [c \in Clients |-> Connection]
  /\ added = 0
  /\ log = <<>>
  /\ read = 0
  /\ looking = None

-----------------------------------------------------------------------------
(* The parser *)

Cells(payload) == [i \in 1 .. Len(payload) |-> [k |-> payload[i]]]

Text(cells) == [i \in 1 .. Len(cells) |-> cells[i].k]

\* A command on the wire: an array, with the length of its last token, or a line.
Frame(cmd) ==
  <<[k |-> IF cmd.inline THEN "words" ELSE "head", cmd |-> cmd, len |-> Len(cmd.payload)]>>
  \o Cells(cmd.payload) \o <<[k |-> "crlf"]>>

\* String::from_utf8_lossy of one chunk: half a character becomes a replacement
\* character.
Decode(chunk) ==
  [i \in 1 .. Len(chunk) |->
     IF \/ chunk[i].k = "lead" /\ i = Len(chunk)
        \/ chunk[i].k = "cont" /\ i = 1
     THEN [k |-> "bad"] ELSE chunk[i]]

\* The bytes of the cells from i + 1 to j: a CRLF has two and a replacement
\* character has three.
Size(p, i, j) ==
  (j - i) + Cardinality({n \in i + 1 .. j : p[n].k \in {"crlf", "bad"}})
          + Cardinality({n \in i + 1 .. j : p[n].k = "bad"})

\* A CRLF ends at j,
EndsLine(p, i, j) == p[j].k = "crlf" \/ (j > i /\ p[j].k = "lf" /\ p[j - 1].k = "cr")

\* and this comes before it.
Before(p, j) == IF p[j].k = "crlf" THEN j - 1 ELSE j - 2

\* The command that begins at i.  An array needs as many bytes as its header
\* announces and a CRLF; slicing them off inside a character panics.  A line
\* needs its CRLF and a word before it.  end is where the CRLF ends, 0 if the
\* command is not complete (or never will be).
parse_one(p, i) ==
  LET arrived == Size(p, i, Len(p)) >= p[i].len + 2
      slice == {j \in i .. Len(p) : Size(p, i, j) = p[i].len /\ p[j].k # "lead"}
      crlf == {j \in i .. Len(p) : EndsLine(p, i, j)}
      ends == IF p[i].k = "head" THEN {j \in crlf : arrived /\ Before(p, j) \in slice}
              ELSE {j \in crlf : /\ \A n \in crlf : j <= n
                                 /\ \E n \in i .. Before(p, j) : p[n].k \notin {"cr", "lf"}}
  IN  [end |-> IF ends = {} THEN 0 ELSE CHOOSE j \in ends : TRUE,
       panics |-> p[i].k = "head" /\ arrived /\ slice = {}]

\* The variant of Command that from_parts makes of cmd.
Variant(cmd) ==
  IF cmd.word \in {"PUBLISH", "XADD", "XRANGE", "XREAD"} /\ cmd.form = "short"
  THEN "Unknown" ELSE cmd.word

\* An XADD has the values of its fields only.
from_parts(cmd) ==
  [name    |-> Variant(cmd),
   payload |-> IF cmd.word = "XADD" /\ cmd.form = "odd" THEN <<>> ELSE cmd.payload,
   id      |-> cmd.id]

\* The command from i to the CRLF that ends at j.  A line that no client sent is
\* what was left of a content.
build_command(p, i, j) ==
  IF p[i].k \in {"head", "words"}
  THEN from_parts([p[i].cmd EXCEPT !.payload = Text(SubSeq(p, i + 1, Before(p, j)))])
  ELSE [name |-> "Unknown", payload |-> Text(SubSeq(p, i, Before(p, j))), id |-> None]

\* The complete commands at the head of p and what is left of it.
parse_resp_commands(p) ==
  LET parse[i \in 1 .. Len(p) + 1] ==
        LET one == IF i > Len(p) THEN [end |-> 0, panics |-> FALSE] ELSE parse_one(p, i)
        IN  IF one.end = 0
            THEN [commands |-> <<>>, rest |-> SubSeq(p, i, Len(p)), panics |-> one.panics]
            ELSE [parse[one.end + 1] EXCEPT
                    !.commands = <<build_command(p, i, one.end)>> \o @]
  IN  parse[1]

-----------------------------------------------------------------------------
(* StreamState *)

\* The digits of entry n's id and its "-", which sorts below them.
Id(n) ==
  (IF n < Base THEN <<n + 1>> ELSE <<(n \div Base) + 1, (n % Base) + 1>>) \o <<0>>

\* entry.id.as_str() > last_seen
Above(m, n) ==
  \E i \in DOMAIN Id(m) \cap DOMAIN Id(n) :
    /\ SubSeq(Id(m), 1, i - 1) = SubSeq(Id(n), 1, i - 1)
    /\ Id(m)[i] > Id(n)[i]

\* The numbers of S in ascending order.
InOrder(S) ==
  [i \in 1 .. Cardinality(S) |->
     CHOOSE m \in S : Cardinality({n \in S : n < m}) = i - 1]

\* Mutant of after: the last entry seen is returned again.
after_inclusive(id) ==
  IF id = Dollar THEN IF added = 0 THEN <<>> ELSE <<added>>
  ELSE InOrder({m \in 1 .. added : m = id \/ Above(m, id)})

\* "$" stands for the last entry, if there is one.
after(id) ==
  IF id = Dollar THEN IF added = 0 THEN <<>> ELSE <<added>>
  ELSE InOrder({m \in 1 .. added : Above(m, id)})

-----------------------------------------------------------------------------
(* Clients *)

\* A client sends its next command; an XREAD only when all before is answered.
Send(c) ==
  /\ conn[c].task = "open"
  /\ ~conn[c].closed
  /\ conn[c].sent < Len(script[c])
  /\ LET cmd == script[c][conn[c].sent + 1]
     IN  /\ Variant(cmd) = "XREAD" => conn[c].answered = conn[c].sent
         /\ wire' = [wire EXCEPT ![c] = @ \o Frame([cmd EXCEPT !.id = conn[c].last])]
  /\ conn' = [conn EXCEPT ![c].sent = @ + 1]
  /\ UNCHANGED <<script, shutdown, listening, added, harnessVars>>

HangUp(c) ==
  /\ conn[c].task = "open"
  /\ ~conn[c].closed
  /\ conn' = [conn EXCEPT ![c].closed = TRUE]
  /\ UNCHANGED <<script, shutdown, listening, wire, added, harnessVars>>

-----------------------------------------------------------------------------
(* listen_for_requests and handle_connection *)

Accept(c) ==
  /\ listening
  /\ conn[c].task = "none"
  /\ conn' = [conn EXCEPT ![c].task = "open"]
  /\ UNCHANGED <<script, shutdown, listening, wire, added, harnessVars>>

StopListening ==
  /\ shutdown
  /\ listening
  /\ listening' = FALSE
  /\ UNCHANGED <<script, shutdown, wire, conn, added, harnessVars>>

\* All commands read so far are executed.
Idle(c) == conn[c].task = "open" /\ conn[c].queue = <<>> /\ conn[c].capture = None

\* handle_connection waits in its select!.
Selecting(c) == Idle(c) /\ conn[c].responses = <<>>


\* The select! may take the cancelled token whether or not the socket is ready.
Stops(c) == shutdown /\ Selecting(c)

Stop(c) ==
  /\ Stops(c)
  /\ conn' = [conn EXCEPT ![c].task = "ended"]
  /\ UNCHANGED <<script, shutdown, listening, wire, added, harnessVars>>

\* Mutant of Drained: pending is cleared once a command was found.
DrainedAll(parsed) == IF parsed.commands = <<>> THEN parsed.rest ELSE <<>>

\* pending.drain(..consumed)
Drained(parsed) == parsed.rest

\* A chunk of n cells has arrived and is read.
Takes(c, n) ==
  /\ Selecting(c)
  /\ n \in 1 .. Len(wire[c])
  /\ wire' = [wire EXCEPT ![c] = SubSeq(@, n + 1, Len(@))]

\* read_stream parses all it has before it executes anything.
ReadStream(c, n) ==
  /\ Takes(c, n)
  /\ UNCHANGED <<script, shutdown, listening, added, harnessVars>>
  /\ \E parsed \in {parse_resp_commands(conn[c].pending \o Decode(SubSeq(wire[c], 1, n)))} :
       conn' = [conn EXCEPT
         ![c].pending = Drained(parsed),
         ![c].queue = IF parsed.panics THEN <<>> ELSE parsed.commands,
         ![c].task = IF parsed.panics THEN "panicked" ELSE @,
         ![c].split = @ \/ wire[c][n].k = "lead"]

\* Ok(0): the connection was closed, which read_stream takes for success.
ReadEof(c) ==
  /\ Selecting(c)
  /\ conn[c].closed
  /\ wire[c] = <<>>
  /\ UNCHANGED vars

\* Reading from or writing to a connection that was reset fails.
Fail(c) ==
  /\ Idle(c)
  /\ conn[c].closed
  /\ conn' = [conn EXCEPT ![c].task = "ended", ![c].responses = <<>>]
  /\ UNCHANGED <<script, shutdown, listening, wire, added, harnessVars>>

-----------------------------------------------------------------------------
(* execute_command *)

\* Mutant of Pushes: an entry without content is not worth pushing.
PushesContent(cmd) == cmd.name = "XADD" /\ cmd.payload # <<>>

Pushes(cmd) == cmd.name = "XADD"

\* What the response to cmd carries, apart from its form.
Entries(cmd) ==
  CASE cmd.name = "XRANGE" -> [i \in 1 .. added |-> i]
    [] cmd.name = "XREAD" -> after(cmd.id)
    [] cmd.name = "SUBSCRIBE" -> [i \in 1 .. Preloaded |-> i]
    [] OTHER -> <<>>

\* The next command; its response is kept until the chunk is through.
Execute(c) ==
  /\ conn[c].queue # <<>>
  /\ conn[c].capture = None
  /\ LET cmd == Head(conn[c].queue)
     IN  /\ added' = IF Pushes(cmd) THEN added + 1 ELSE added
         /\ log' = IF cmd.name = "PUBLISH"
                   THEN Append(log, [by |-> cmd.name, text |-> cmd.payload]) ELSE log
         /\ conn' = [conn EXCEPT
              ![c].queue = Tail(@),
              ![c].capture = IF cmd.name = "XADD" THEN cmd.payload ELSE None,
              ![c].responses = Append(@, [name |-> cmd.name, entries |-> Entries(cmd)]),
              ![c].done = Append(@, cmd)]
  /\ UNCHANGED <<script, shutdown, listening, wire, read, looking>>

\* An XADD whose entry is pushed, the lock released, sends the payload on.
FinishXadd(c) ==
  /\ conn[c].capture # None
  /\ log' = Append(log, [by |-> "XADD", text |-> conn[c].capture])
  /\ conn' = [conn EXCEPT ![c].capture = None]
  /\ UNCHANGED <<script, shutdown, listening, wire, added, read, looking>>

\* A response is written, and read by the client unless it hung up.  A client
\* that follows the stream goes on from the last entry.
Respond(c) ==
  /\ Idle(c)
  /\ conn[c].responses # <<>>
  /\ LET r == Head(conn[c].responses)
         entries == IF r.name = "XREAD" /\ ~conn[c].closed THEN r.entries ELSE <<>>
     IN  conn' = [conn EXCEPT
           ![c].responses = Tail(@),
           ![c].answered = IF conn[c].closed THEN @ ELSE @ + 1,
           ![c].last = IF entries = <<>> THEN @ ELSE Last(entries),
           ![c].got = @ \o entries]
  /\ UNCHANGED <<script, shutdown, listening, wire, added, harnessVars>>

-----------------------------------------------------------------------------
(* TestHarness *)

\* check_for_message is called.
Check(expected) ==
  /\ ~shutdown
  /\ looking = None
  /\ looking' = expected
  /\ UNCHANGED <<script, shutdown, listening, wire, conn, added, log, read>>

\* What can still be received: a receiver that lags skips what is overwritten.
Available == {i \in 1 .. Len(log) : i > read /\ i + Capacity > Len(log)}

\* message.contains(&expected)
Matches(text, expected) ==
  \E i \in 0 .. Len(text) - Len(expected) :
    SubSeq(text, i + 1, i + Len(expected)) = expected

\* wait_for_broadcast_message is polled: it takes what there is up to the
\* first match, and all of it if there is none.
Poll ==
  /\ looking # None
  /\ Available # {}
  /\ LET matches == {i \in Available : Matches(log[i].text, looking)}
     IN  \/ /\ matches = {}
            /\ read' = Len(log)
            /\ UNCHANGED looking
         \/ \E i \in matches :
              /\ \A j \in matches : i <= j
              /\ read' = i
              /\ looking' = None
  /\ UNCHANGED <<script, shutdown, listening, wire, conn, added, log>>

\* The second is over, and nothing is left to be received.
CheckTimesOut ==
  /\ looking # None
  /\ Available = {}
  /\ looking' = None
  /\ UNCHANGED <<script, shutdown, listening, wire, conn, added, log, read>>

\* Drop for TestHarness
DropHarness ==
  /\ ~shutdown
  /\ looking = None
  /\ shutdown' = TRUE
  /\ UNCHANGED <<script, listening, wire, conn, added, harnessVars>>

-----------------------------------------------------------------------------
\* The rest of read_stream after a chunk was read.
Continue(c) == Execute(c) \/ FinishXadd(c) \/ Respond(c)

Next ==
  \/ \E c \in Clients :
       \/ Send(c) \/ HangUp(c) \/ Accept(c) \/ Stop(c) \/ ReadEof(c) \/ Fail(c)
       \/ Continue(c) \/ \E n \in 1 .. Len(wire[c]) : ReadStream(c, n)
  \/ StopListening
  \/ \E payload \in Expected : Check(payload)
  \/ Poll
  \/ CheckTimesOut
  \/ DropHarness

Spec == Init /\ [][Next]_vars

\* Tasks that can go on are polled: what arrives is read some time, read_stream
\* goes on, and a select! that is entered again and again takes each branch
\* that stays ready, for it picks at random.
FairSpec ==
  /\ Spec
  /\ WF_vars(StopListening)
  /\ \A c \in Clients :
       /\ WF_wire(\E n \in 1 .. Len(wire[c]) : Takes(c, n))
       /\ WF_vars(Continue(c))
       /\ WF_vars(Stop(c))

-----------------------------------------------------------------------------
(* Properties *)

\* No chunk tore a character, or no content has a CRLF: the end of a command
\* is where the client has put it.
Framed(c) ==
  \/ ~conn[c].split
  \/ \A i \in 1 .. Len(script[c]) : OneLine(script[c][i].payload)

\* However the bytes of a connection are cut into chunks, the commands that
\* are executed are those the client sent, in that order, whatever their
\* contents, as long as no chunk ends inside a character.  Such a chunk spoils
\* lines; it does not alter an array if no content has a CRLF.  (If one has, the
\* array may be taken to end there and the rest of the content for a line.)
ExecutesWhatWasSent ==
  \A c \in Clients : Framed(c) =>
    \A i \in 1 .. Len(conn[c].done) :
      /\ i <= conn[c].sent
      /\ conn[c].done[i].name = Variant(script[c][i])
      /\ \/ conn[c].done[i].payload = from_parts(script[c][i]).payload
         \/ conn[c].split /\ script[c][i].inline

\* A client whose commands wait catches up, whatever they share their chunks
\* with, unless a chunk ended inside a character, which read_stream does not
\* survive, the client hung up or the server shut down.
CommandsAreAnswered ==
  \A c \in Clients :
    (conn[c].answered < conn[c].sent)
    ~> (conn[c].answered = conn[c].sent \/ conn[c].split \/ conn[c].closed \/ shutdown)

\* As long as ids have one digit, a client that follows the stream gets every
\* entry from the first it saw on, once and in order, unless the server answers
\* what the client did not send.
FollowsStream ==
  added < Base =>
    \A c \in Clients : Framed(c) =>
      \A i \in 1 .. Len(conn[c].got) : conn[c].got[i] = conn[c].got[1] + i - 1

\* What the harness has observed of the stream is there to be read: no payload
\* of an XADD reaches check_for_message before its entry is in the stream.
ObservedIsStored == Cardinality({i \in 1 .. Len(log) : log[i].by = "XADD"}) <= added

=============================================================================
