-------------------------------- MODULE Gate --------------------------------
(***************************************************************************)
(* A request through the pipeline of the API worker: the signature of an   *)
(* internal call and its replay guard, the guards and the authentication,  *)
(* the validation, the handler of an endpoint (the tokens in full, the     *)
(* others by their answer), and the record of it in the audit log, with    *)
(* the task that prunes that log.                                          *)
(* Middleware that reads and writes nothing shared is one step; each call  *)
(* of a store is a step of its own. The tokens are those of one user.      *)
(***************************************************************************)
EXTENDS Routes, Integers, Sequences

CONSTANTS
  Slot,         \* requests under way at once
  Signature,    \* signatures of internal requests
  Window,       \* how far the stamp of a signed request may be off
  Skew,         \* how far the signer's clock is off
  MinTtl,       \* the least life of a nonce
  Retention,    \* how long a record of the audit log is kept
  PruneBatch,   \* rows deleted at once
  MaxTokens,    \* live tokens of a user
  MaxTime,      \* bound on the clock
  MaxRequests   \* bound on the requests

ASSUME GateAssumption ==
  /\ {Window, Skew, MinTtl, Retention, MaxTokens, MaxTime, MaxRequests} \subseteq Nat
  /\ PruneBatch \in Nat \ {0} /\ Skew < Window
  /\ IsFiniteSet(Slot)

VARIABLES
  demo,      \* DEMO_MODE
  now,
  requests,  \* requests[s]: the request, or Idle
  arrived,   \* how many have arrived
  nonces,    \* nonces[g]: until when the store keeps the signature, -1 for never put
  signed,    \* signed[g]: what the signature was made of
  tokens,    \* how many live tokens the user has
  stamps,    \* the stamps of all records that were ever inserted into the log
  log,       \* the records that are there, by number
  pruner,    \* the pass of the pruning task
  cleared,   \* ghost: the cutoff of the last pass that ended
  taken,     \* ghost: signatures that were accepted and recorded
  missed     \* ghost: a handler ran and nothing was to be recorded

vars == <<demo, now, requests, arrived, nonces, signed, tokens, stamps, log, pruner, cleared, taken, missed>>
store == <<nonces, signed, taken>>
audit == <<stamps, log, pruner, cleared>>

Idle == [step |-> "idle"]
Answered == [step |-> "record"]  \* all that is left is to record it
Unsigned == [stamp |-> -1]
Off == [on |-> FALSE, cutoff |-> 0]

Init ==
  /\ demo \in BOOLEAN
  /\ now = 0 /\ arrived = 0
  /\ requests = [s \in Slot |-> Idle]
  /\ nonces = [g \in Signature |-> -1] /\ signed = [g \in Signature |-> Unsigned] /\ taken = {}
  /\ tokens = 0
  /\ stamps = <<>> /\ log = {} /\ pruner = Off /\ cleared = 0
  /\ missed = FALSE

-----------------------------------------------------------------------------

New(ask, sig) ==
  [step |-> IF sig = "none" THEN "gate" ELSE "claim", ask |-> ask, sig |-> sig,
   again |-> FALSE, blind |-> FALSE, known |-> FALSE, ran |-> FALSE]

Goes(s, step) == requests' = [requests EXCEPT ![s].step = step]
Step(s, step) == requests[s].step = step

Arrive(s, ask) ==
  /\ Step(s, "idle") /\ arrived < MaxRequests
  /\ arrived' = arrived + 1
  /\ requests' = [requests EXCEPT ![s] = New(ask, "none")]
  /\ UNCHANGED <<demo, now, store, tokens, audit, missed>>

\* An internal request: signed now by a clock that is a little off, over everything that is asked.
Sign(s, g, ask, stamp) ==
  /\ Step(s, "idle") /\ arrived < MaxRequests
  /\ signed[g] = Unsigned /\ stamp \in now - Skew .. now + Skew
  /\ arrived' = arrived + 1
  /\ signed' = [signed EXCEPT ![g] = [stamp |-> stamp, ask |-> ask]]
  /\ requests' = [requests EXCEPT ![s] = New(ask, g)]
  /\ UNCHANGED <<demo, now, nonces, taken, tokens, audit, missed>>

\* The same signed request once more.
Resend(s, g) ==
  /\ Step(s, "idle") /\ arrived < MaxRequests
  /\ signed[g] # Unsigned
  /\ arrived' = arrived + 1
  /\ requests' = [requests EXCEPT ![s] = New(signed[g].ask, g)]
  /\ UNCHANGED <<demo, now, store, tokens, audit, missed>>

-----------------------------------------------------------------------------
(* HMACHandler and ReplayGuard *)

Larger(a, b) == IF a > b THEN a ELSE b

\* Slip: the nonce lives for one window.
OneWindow == Larger(MinTtl, Window)

\* A stamp may be as far ahead as it may be behind.
Ttl == Larger(MinTtl, 2 * Window)

InWindow(stamp) == now - stamp \in -Window .. Window

\* A refusal comes before the activity audit and leaves no record.
Unheard(s) == requests' = [requests EXCEPT ![s] = Idle]

\* A read that fails, and a store that is not bound, let the request pass; the store may be behind.
ClaimReads(s) ==
  LET r == requests[s]
      live == now < nonces[r.sig]
      passes(step, blind) == requests' = [requests EXCEPT ![s].step = step, ![s].blind = blind, ![s].again = r.sig \in taken] IN
  /\ Step(s, "claim")
  /\ \/ (~InWindow(signed[r.sig].stamp) \/ live) /\ Unheard(s)
     \/ InWindow(signed[r.sig].stamp) /\ ~live /\ passes("put", FALSE)
     \/ InWindow(signed[r.sig].stamp) /\ live /\ passes("put", TRUE)
     \/ InWindow(signed[r.sig].stamp) /\ passes("gate", TRUE)
  /\ UNCHANGED <<demo, now, arrived, store, tokens, audit, missed>>

ClaimPuts(s) ==
  LET g == requests[s].sig IN
  /\ Step(s, "put")
  /\ Goes(s, "gate")
  /\ \/ nonces' = [nonces EXCEPT ![g] = now + Ttl] /\ taken' = taken \cup {g}
     \/ UNCHANGED <<nonces, taken>>
  /\ UNCHANGED <<demo, now, arrived, signed, tokens, audit, missed>>

-----------------------------------------------------------------------------
(* Guards, authentication, validation *)

\* Slip: no answer 401 is recorded, whoever asked.
DueByStatus(status, known) == status # 401

\* activityAudit: all but the refusal of somebody unknown.
Due(status, known) == status # 401 \/ known

Answer(s, status, known) ==
  /\ requests' = [requests EXCEPT ![s] = IF Due(status, known) THEN Answered ELSE Idle]
  /\ missed' = (missed \/ (requests[s].ran /\ ~Due(status, known)))

\* csrfProtection on the surface of the browser, rateLimit on the other.
Stopped(s) ==
  /\ Step(s, "gate")
  /\ Answer(s, IF requests[s].ask.surface = "user" THEN 403 ELSE 429, FALSE)
  /\ UNCHANGED <<demo, now, arrived, store, tokens, audit>>

\* A session, a demo user, an internal header or a live token is wanted.
Outsider(s) ==
  /\ Step(s, "gate") /\ ~demo
  /\ \E status \in {401, 500} : Answer(s, status, FALSE)
  /\ UNCHANGED <<demo, now, arrived, store, tokens, audit>>

Authenticates(r) == demo \/ r.ask.surface = "user" \/ r.sig # "none" \/ tokens > 0

Invalid(s) ==
  /\ Step(s, "gate") /\ Authenticates(requests[s]) /\ requests[s].ask.refusal # "no"
  /\ Goes(s, "invalid")
  /\ UNCHANGED <<demo, now, arrived, store, tokens, audit, missed>>

\* No administration in demo mode, and none but by a superadmin.
NotAdmin(s) ==
  /\ Step(s, "gate") /\ Authenticates(requests[s]) /\ requests[s].ask.refusal = "no" /\ requests[s].ask.admin
  /\ Answer(s, IF demo THEN 405 ELSE 403, TRUE)
  /\ UNCHANGED <<demo, now, arrived, store, tokens, audit>>

\* The handler finds the address of the caller set for the audit behind it.
Handle(s) ==
  LET r == requests[s]
      first == IF "createToken" \in r.ask.effect THEN "count" ELSE IF "deleteToken" \in r.ask.effect THEN "delete" ELSE "answer" IN
  /\ Step(s, "gate") /\ Authenticates(r) /\ r.ask.refusal = "no" /\ (r.ask.admin => ~demo)
  /\ requests' = [requests EXCEPT ![s].step = first, ![s].known = TRUE, ![s].ran = TRUE]
  /\ UNCHANGED <<demo, now, arrived, store, tokens, audit, missed>>

-----------------------------------------------------------------------------
(* Handlers: the answer, or the tokens *)

\* A service may refuse as well, with 401 too.
Other(s) ==
  /\ Step(s, "answer")
  /\ \E status \in {200, 400, 401, 500} : Answer(s, status, requests[s].known)
  /\ UNCHANGED <<demo, now, arrived, store, tokens, audit>>

\* Slip: one more than the limit.
FullPastLimit(active) == active > MaxTokens

Full(active) == active >= MaxTokens

\* Too many tokens are refused, as is a life that is too long.
CountTokens(s) ==
  /\ Step(s, "count")
  /\ \/ Answer(s, 400, requests[s].known)
     \/ ~Full(tokens) /\ Goes(s, "insert") /\ UNCHANGED missed
  /\ UNCHANGED <<demo, now, arrived, store, tokens, audit>>

InsertToken(s) ==
  /\ Step(s, "insert")
  /\ \/ tokens' = tokens + 1 /\ Answer(s, 200, requests[s].known)
     \/ UNCHANGED tokens /\ Answer(s, 500, requests[s].known)
  /\ UNCHANGED <<demo, now, arrived, store, audit>>

\* A token that is not the user's is left alone, and the answer is the same.
DeleteToken(s) ==
  /\ Step(s, "delete")
  /\ tokens' \in {tokens, Larger(tokens - 1, 0)}
  /\ Answer(s, 200, requests[s].known)
  /\ UNCHANGED <<demo, now, arrived, store, audit>>

TokenExpires ==
  /\ tokens > 0 /\ tokens' = tokens - 1
  /\ UNCHANGED <<demo, now, requests, arrived, store, audit, missed>>

-----------------------------------------------------------------------------
(* The audit log *)

\* After the answer, with the time of the insert; a failure is logged and nothing else.
Record(s) ==
  /\ requests[s].step \in {"record", "invalid"}
  /\ requests' = [requests EXCEPT ![s] = Idle]
  /\ \/ stamps' = Append(stamps, now) /\ log' = log \cup {Len(stamps) + 1}
     \/ UNCHANGED <<stamps, log>>
  /\ UNCHANGED <<demo, now, arrived, store, tokens, pruner, cleared, missed>>

\* Slip: a batch that is just full ends the pass.
GoesOnPastFull(deleted) == deleted > PruneBatch

GoesOn(deleted) == deleted >= PruneBatch

DeleteOlderThanBatch(cutoff) ==
  LET old == {n \in log : stamps[n] < cutoff} IN
  /\ \E batch \in SUBSET old :
       /\ Cardinality(batch) = PruneBatch \/ (batch = old /\ Cardinality(batch) < PruneBatch)
       /\ log' = log \ batch
       /\ IF GoesOn(Cardinality(batch)) THEN pruner' = [on |-> TRUE, cutoff |-> cutoff] /\ UNCHANGED cleared
                                        ELSE pruner' = Off /\ cleared' = Larger(cleared, cutoff)
  /\ UNCHANGED <<demo, now, requests, arrived, store, tokens, stamps, missed>>

BeginPass == ~pruner.on /\ DeleteOlderThanBatch(now - Retention)
NextBatch == pruner.on /\ DeleteOlderThanBatch(pruner.cutoff)

PassFails ==
  /\ pruner.on /\ pruner' = Off
  /\ UNCHANGED <<demo, now, requests, arrived, store, tokens, stamps, log, cleared, missed>>

Tick ==
  /\ now < MaxTime /\ now' = now + 1
  /\ UNCHANGED <<demo, requests, arrived, store, tokens, audit, missed>>

-----------------------------------------------------------------------------

\* Internal requests are calls of the programmatic surface.
Begins(s) ==
  \E ask \in Asks :
    \/ Arrive(s, ask)
    \/ \E g \in Signature, stamp \in 0 .. MaxTime + Skew : ask.surface = "api" /\ Sign(s, g, ask, stamp)

Next ==
  \/ \E s \in Slot :
       \/ Begins(s) \/ \E g \in Signature : Resend(s, g)
       \/ ClaimReads(s) \/ ClaimPuts(s)
       \/ Stopped(s) \/ Outsider(s) \/ Invalid(s) \/ NotAdmin(s) \/ Handle(s)
       \/ Other(s) \/ CountTokens(s) \/ InsertToken(s) \/ DeleteToken(s)
       \/ Record(s)
  \/ TokenExpires \/ BeginPass \/ NextBatch \/ PassFails \/ Tick

Spec == Init /\ [][Next]_vars

-----------------------------------------------------------------------------
(* Properties *)

Steps == {"claim", "put", "gate", "answer", "count", "insert", "delete", "invalid"}
Request == [step : Steps, ask : Asks, sig : Signature \cup {"none"},
            again : BOOLEAN, blind : BOOLEAN, known : BOOLEAN, ran : BOOLEAN]

\* The type of the state; of the tokens it says that a user has no more than the limit, and one for each
\* further creation that counted before the others had inserted: the count and the insert are two statements.
TypeOK ==
  /\ demo \in BOOLEAN /\ missed \in BOOLEAN /\ now \in 0 .. MaxTime /\ arrived \in 0 .. MaxRequests
  /\ \A s \in Slot : requests[s] \in {Idle, Answered} \cup Request
  /\ \A g \in Signature : nonces[g] \in -1 .. MaxTime + Ttl
  /\ \A g \in Signature : signed[g] = Unsigned \/ (signed[g].stamp \in 0 .. MaxTime + Skew /\ signed[g].ask \in Asks)
  /\ taken \subseteq {g \in Signature : signed[g] # Unsigned}
  /\ tokens \in 0 .. Larger(MaxTokens + Cardinality(Slot) - 1, 0)
  /\ \A n \in DOMAIN stamps : stamps[n] \in 0 .. MaxTime
  /\ log \subseteq DOMAIN stamps
  /\ pruner.on \in BOOLEAN /\ pruner.cutoff \in -Retention .. MaxTime /\ cleared \in 0 .. MaxTime

Asked(s) == requests[s] \notin {Idle, Answered}

\* A handler runs only on an input that has every field it reads, with nothing lost of what was rightly sent,
\* and answers every field the web application reads; and of what is documented, or sent by the web
\* application, only the known exceptions are refused. The schemas, the endpoints, the registrations and the
\* services of the web application are kept apart, and agree by their strings alone.
HandlersGetWhatTheyRead ==
  \A s \in Slot : Asked(s) =>
    /\ requests[s].ran => requests[s].ask.inFull
    /\ Step(s, "invalid") => requests[s].ask.refusal # "unfair"

\* An internal request that was accepted and recorded is not accepted again, through all the time in which its
\* stamp is good, unless the store failed or was behind: the life of a nonce covers both sides of the window.
ServedOnce == \A s \in Slot : Asked(s) => (requests[s].again => requests[s].blind)

\* A handler that runs is recorded, whatever it answers; no record younger than the retention is missing; and
\* after a pass of the pruning task that has ended none is left from before its cutoff.
LogIsTrue ==
  /\ ~missed
  /\ \A n \in DOMAIN stamps : stamps[n] >= now - Retention => n \in log
  /\ \A n \in log : stamps[n] >= cleared

\* The values the documentation of an endpoint and the pages of the web application offer are accepted.
WhatIsOfferedIsAccepted ==
  \A s \in Slot : Asked(s) => (Step(s, "invalid") => requests[s].ask.refusal \in {"half", "deserved"})
=============================================================================
