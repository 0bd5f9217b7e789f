------------------------------ MODULE AwsClient ------------------------------
(***************************************************************************)
(* Calls of AWS: the deadline around each attempt (fetchWithTimeout) and,  *)
(* for those clients that are wrapped in it, the retries of                *)
(* RetryingAwsClient.  Time passes in units for all calls alike; timers    *)
(* are punctual.  What AWS answers, and whether it ever does, is open.     *)
(***************************************************************************)
EXTENDS Integers, Sequences, SequencesExt

CONSTANTS
  Client,
  Attempts,   \* Attempts[c]: maxAttempts, 1 for a client that is not wrapped
  Timeout,    \* the deadline of an attempt
  MaxDelay,   \* MAX_RETRY_DELAY_MS
  BaseDelay,
  Asked       \* waits that Retry-After asks for, 0 for a response without it

ASSUME ClientAssumption ==
  /\ Attempts \in [Client -> Nat \ {0}]
  /\ Timeout \in Nat \ {0} /\ MaxDelay \in Nat /\ BaseDelay \in Nat /\ Asked \subseteq Nat

VARIABLES
  call,     \* call[c]: the call of the client
  elapsed   \* time since the start

Answered == [kind : {"answer"}, status : {"ok", "refused", "throttled", "fault"}, asks : Asked]
\* Errors that carry a verdict, those without a message, and others, by what their
\* message speaks of.
Thrown == [kind : {"typed"}, retryable : BOOLEAN]
          \cup [kind : {"blank"}]
          \cup [kind : {"plain"}, speaks : SUBSET {"permanent", "transient"}]
Outcome == Answered \cup Thrown
TimedOut == [kind |-> "typed", retryable |-> TRUE]

NoCall == [pc |-> "idle", tried |-> <<>>, since |-> 0, wait |-> 0]
Sent == [NoCall EXCEPT !.pc = "sending"]
Result(c) == Last(call[c].tried)
IsOk(o) == o.kind = "answer" /\ o.status = "ok"

\* isRetryableHttpStatus
IsRetryableHttpStatus(status) == status \in {"throttled", "fault"}

\* Slip: the words of a transient fault are looked for first.
TransientFirst(error) ==
  \/ error.kind = "typed" /\ error.retryable
  \/ error.kind = "plain" /\ ("transient" \in error.speaks \/ error.speaks = {})

\* isRetryableThrownError: a verdict is kept; an error without a message is not tried
\* again; else permanent words decide first, and what speaks of neither is tried again.
IsRetryableThrownError(error) ==
  \/ error.kind = "typed" /\ error.retryable
  \/ error.kind = "plain" /\ "permanent" \notin error.speaks

\* Slip: a wait that is asked for is kept, however long.
HonoursRetryAfter(attempt, o) ==
  IF o.kind = "answer" /\ o.asks > 0 THEN {o.asks} ELSE {0}

\* The waits that may follow an attempt: none when AWS asks for more than can be waited.
NextDelays(attempt, o) ==
  IF o.kind = "answer" /\ o.asks > 0 THEN {o.asks} \cap 0..MaxDelay
  ELSE {d \in 0..MaxDelay : d = 0 \/ d < BaseDelay * 2 ^ (attempt - 1)}

\* Slip: the last attempt is one more than there are.
OneTooMany(c, attempt) == attempt > Attempts[c]

IsLastAttempt(c, attempt) == attempt = Attempts[c]

\* One attempt has come to o.
Settle(c, o) ==
  LET tried == Append(call[c].tried, o)
      retryable == IF o.kind = "answer" THEN IsRetryableHttpStatus(o.status) ELSE IsRetryableThrownError(o)
      waits == NextDelays(Len(tried), o) IN
  /\ IF IsLastAttempt(c, Len(tried)) \/ ~retryable \/ waits = {}
       THEN call' = [call EXCEPT ![c] = [NoCall EXCEPT !.pc = "done", !.tried = tried]]
       ELSE \E d \in waits : call' = [call EXCEPT ![c] = [pc |-> "waiting", tried |-> tried, since |-> 0, wait |-> d]]
  /\ UNCHANGED elapsed

\* The headers have come, the body has not: it is read under the same deadline.
Headers(c) ==
  /\ call[c].pc = "sending"
  /\ call' = [call EXCEPT ![c].pc = "reading"]
  /\ UNCHANGED elapsed

Body(c) == call[c].pc = "reading" /\ \E o \in Answered : Settle(c, o)

\* What fails once the timer has fired is the timeout, whatever it says.
Rejects(c) ==
  /\ call[c].pc \in {"sending", "reading"}
  /\ \E o \in Thrown : Settle(c, IF call[c].since = Timeout THEN TimedOut ELSE o)

\* Slip: the deadline ends with the headers.
DeadlineOfHeaders(c) == call[c].pc = "sending" /\ call[c].since = Timeout /\ Settle(c, TimedOut)

Deadline(c) ==
  /\ call[c].pc \in {"sending", "reading"} /\ call[c].since = Timeout
  /\ Settle(c, TimedOut)

Resume(c) ==
  /\ call[c].pc = "waiting" /\ call[c].since = call[c].wait
  /\ call' = [call EXCEPT ![c].pc = "sending", ![c].since = 0]
  /\ UNCHANGED elapsed

Limit(c) == IF call[c].pc = "waiting" THEN call[c].wait ELSE Timeout
UnderWay == {c \in Client : call[c].pc \in {"sending", "reading", "waiting"}}

\* What has settled is taken up before time passes: the event loop is not blocked.
Tick ==
  /\ UnderWay # {} /\ \A c \in UnderWay : call[c].since # Limit(c)
  /\ \A c \in Client : call[c].pc # "done"
  /\ call' = [c \in Client |-> IF c \in UnderWay THEN [call[c] EXCEPT !.since = @ + 1] ELSE call[c]]
  /\ elapsed' = elapsed + 1

CallStep(c) == Headers(c) \/ Body(c) \/ Rejects(c) \/ Deadline(c) \/ Resume(c)

\* The timers run; AWS owes nothing.
Timers == Tick \/ \E c \in Client : Deadline(c) \/ Resume(c)

CallTypeOK ==
  /\ call \in [Client -> [pc : {"idle", "sending", "reading", "waiting", "done"}, tried : Seq(Outcome),
                          since : Nat, wait : Nat]]
  /\ \A c \in Client : /\ Len(call[c].tried) <= Attempts[c]
                       /\ call[c].pc = "waiting" => call[c].wait <= MaxDelay
                       /\ call[c].since <= Limit(c)
  /\ elapsed \in Nat
=============================================================================
