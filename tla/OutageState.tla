----------------------------- MODULE OutageState -----------------------------
(***************************************************************************)
(* The error deduplication and backoff state of a reconnect loop           *)
(* (src/src/backoff.rs), as operators on a record.  on_error is two steps, *)
(* because the task sleeps in the middle of it: RecordError before the     *)
(* sleep of next_backoff, AdvanceBackoff after it.                         *)
(***************************************************************************)
EXTENDS Naturals

CONSTANTS
  ErrorKinds,       \* K: what errors are deduplicated by
  NoError,          \* last_error_kind is None
  INITIAL_BACKOFF,
  MAX_BACKOFF

ASSUME BackoffAssumption ==
  /\ NoError \notin ErrorKinds
  /\ INITIAL_BACKOFF \in Nat \ {0}
  /\ MAX_BACKOFF \in Nat
  /\ INITIAL_BACKOFF <= MAX_BACKOFF

OutageStates ==
  [last_error_kind : ErrorKinds \cup {NoError},
   next_backoff    : INITIAL_BACKOFF .. MAX_BACKOFF]

Default == [last_error_kind |-> NoError, next_backoff |-> INITIAL_BACKOFF]

IsInOutage(o) == o.last_error_kind # NoError

\* record_error returns whether it logged.
RecordErrorLogs(o, kind) == o.last_error_kind # kind

RecordError(o, kind) ==
  IF RecordErrorLogs(o, kind) THEN [o EXCEPT !.last_error_kind = kind] ELSE o

\* Mutant of AdvanceBackoff: the cap is applied before the doubling.
AdvanceBackoffUncapped(o) ==
  IF o.next_backoff <= MAX_BACKOFF
  THEN [o EXCEPT !.next_backoff = 2 * @]
  ELSE [o EXCEPT !.next_backoff = MAX_BACKOFF]

AdvanceBackoff(o) ==
  [o EXCEPT !.next_backoff = IF 2 * @ <= MAX_BACKOFF THEN 2 * @ ELSE MAX_BACKOFF]

\* Mutant of OnRecovery: the timer is left where the outage took it.
OnRecoveryKeepingTimer(o) == [o EXCEPT !.last_error_kind = NoError]

OnRecovery(o) ==
  [o EXCEPT !.last_error_kind = NoError, !.next_backoff = INITIAL_BACKOFF]
=============================================================================
