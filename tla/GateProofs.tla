------------------------------ MODULE GateProofs ------------------------------
(***************************************************************************)
(* For any number of requests at once and of internal signatures, and for  *)
(* any windows, lives, limits and batches: the tokens stay within what     *)
(* overlapping creations allow, no accepted signature is accepted again,   *)
(* and the audit log misses nothing it should have.                        *)
(***************************************************************************)
EXTENDS Gate, FiniteSetTheorems, SequenceTheorems, TLAPS

Handling == {"answer", "count", "insert", "delete"}

\* A request whose signature is being looked at is of a signature that was made; the
\* handler has run from the moment it is reached until the request is answered, and for
\* a caller who is known; and a signature that is accepted again is so because the store
\* failed or was behind.
Sound(r) ==
  /\ r \in {Idle, Answered} \cup Request
  /\ r.step \in {"claim", "put"} => r.sig \in Signature /\ signed[r.sig] # Unsigned
  /\ r \in Request => /\ r.ran = TRUE <=> r.step \in Handling
                      /\ r.again = TRUE => r.blind = TRUE
                      /\ r.ran = TRUE => r.known = TRUE

RequestsInv ==
  /\ requests \in [Slot -> {Idle, Answered} \cup Request]
  /\ \A s \in Slot : Sound(requests[s])

ClockInv == now \in 0 .. MaxTime /\ arrived \in 0 .. MaxRequests /\ demo \in BOOLEAN

\* The store keeps an accepted signature for longer than its stamp is good.
NonceInv ==
  /\ nonces \in [Signature -> -1 .. MaxTime + Ttl]
  /\ signed \in [Signature -> {Unsigned} \cup [stamp : 0 .. MaxTime + Skew, ask : Asks]]
  /\ \A g \in Signature : signed[g] # Unsigned => signed[g].stamp <= now + Skew
  /\ taken \subseteq Signature
  /\ \A g \in taken : signed[g] # Unsigned /\ nonces[g] > signed[g].stamp + Window

Inserting == {s \in Slot : Step(s, "insert")}
Limit == Larger(MaxTokens + Cardinality(Slot) - 1, 0)

\* A creation that has counted and not yet inserted has its place already.
TokenInv == tokens \in Nat /\ tokens + Cardinality(Inserting) <= Limit

\* What the pass under way deletes is older than the retention, and no record is older
\* than the last pass that ended.
LogInv ==
  /\ stamps \in Seq(0 .. MaxTime) /\ log \subseteq DOMAIN stamps
  /\ pruner \in [on : BOOLEAN, cutoff : -Retention .. MaxTime]
  /\ pruner.on = TRUE => pruner.cutoff <= now - Retention
  /\ cleared \in 0 .. MaxTime /\ cleared <= now
  /\ \A n \in DOMAIN stamps : stamps[n] >= now - Retention => n \in log
  /\ \A n \in log : stamps[n] >= cleared

Inv == RequestsInv /\ ClockInv /\ NonceInv /\ TokenInv /\ LogInv /\ missed = FALSE

-----------------------------------------------------------------------------
(* Types *)

LEMMA Bounds ==
  /\ Window \in Nat /\ Skew \in Nat /\ MinTtl \in Nat /\ Retention \in Nat /\ MaxTokens \in Nat
  /\ MaxTime \in Nat /\ MaxRequests \in Nat /\ PruneBatch \in Nat \ {0} /\ Skew < Window
  /\ IsFiniteSet(Slot) /\ Cardinality(Slot) \in Nat
BY GateAssumption, FS_CardinalityType

LEMMA TtlCoversTheWindow == Ttl \in Nat /\ Ttl >= 2 * Window
BY Bounds DEF Ttl, Larger

LEMMA Kinds ==
  /\ Idle.step = "idle" /\ Answered.step = "record"
  /\ Idle \notin Request /\ Answered \notin Request
  /\ Sound(Idle) /\ Sound(Answered)
BY DEF Idle, Answered, Request, Steps, Sound

\* A request is none of the two others by its step.
LEMMA ByStep ==
  ASSUME RequestsInv, NEW s \in Slot, NEW step \in Steps, Step(s, step)
  PROVE  requests[s] \in Request /\ requests[s].step = step /\ Sound(requests[s])
BY Kinds DEF RequestsInv, Step, Steps

LEMMA StampType ==
  ASSUME LogInv
  PROVE  \A n \in DOMAIN stamps : stamps[n] \in 0 .. MaxTime
<1>1. stamps \in Seq(0 .. MaxTime)
  BY DEF LogInv
<1>2. DOMAIN stamps = 1 .. Len(stamps)
  BY <1>1
<1>. QED
  BY <1>1, <1>2, ElementOfSeq

-----------------------------------------------------------------------------
(* What the steps do with the requests *)

\* One request changes, the others are as they were.
LEMMA OneMoves ==
  ASSUME RequestsInv, NEW s \in Slot, NEW r, requests' = [requests EXCEPT ![s] = r], Sound(r), signed' = signed
  PROVE  /\ RequestsInv'
         /\ requests'[s] = r /\ \A q \in Slot \ {s} : requests'[q] = requests[q]
BY DEF RequestsInv, Sound

LEMMA GoesSound ==
  ASSUME RequestsInv, NEW s \in Slot, requests[s] \in Request, NEW step \in Steps,
         step \in {"claim", "put"} => requests[s].step \in {"claim", "put"},
         step \in Handling <=> requests[s].step \in Handling,
         Goes(s, step), signed' = signed
  PROVE  /\ RequestsInv'
         /\ requests'[s].step = step /\ \A q \in Slot \ {s} : requests'[q] = requests[q]
<1>. DEFINE r == [requests[s] EXCEPT !.step = step]
<1>1. requests' = [requests EXCEPT ![s] = r]
  BY DEF Goes, RequestsInv
<1>2. r \in Request /\ r.step = step
  BY DEF Request
<1>3. /\ r.sig = requests[s].sig /\ r.ran = requests[s].ran
      /\ r.again = requests[s].again /\ r.blind = requests[s].blind /\ r.ask = requests[s].ask
  BY DEF Request
<1>4. Sound(requests[s])
  BY DEF RequestsInv
<1>5. Sound(r)
  BY <1>2, <1>3, <1>4 DEF Sound
<1>. HIDE DEF r
<1>. QED
  BY <1>1, <1>2, <1>5, OneMoves

\* An answer: the request is over, and is recorded if its handler has run.
LEMMA AnswerSound ==
  ASSUME RequestsInv, missed = FALSE, NEW s \in Slot, NEW status, NEW known \in BOOLEAN, Answer(s, status, known),
         requests[s].ran = TRUE => known = TRUE, requests[s].ran \in BOOLEAN, signed' = signed
  PROVE  /\ RequestsInv' /\ missed' = FALSE
         /\ requests'[s].step \in {"idle", "record"} /\ \A q \in Slot \ {s} : requests'[q] = requests[q]
<1>1. CASE Due(status, known)
  <2>1. requests' = [requests EXCEPT ![s] = Answered]
    BY <1>1 DEF Answer
  <2>2. missed' = FALSE
    BY <1>1 DEF Answer
  <2>. QED
    BY <2>1, <2>2, Kinds, OneMoves
<1>2. CASE ~Due(status, known)
  <2>1. requests' = [requests EXCEPT ![s] = Idle]
    BY <1>2 DEF Answer
  <2>2. known = FALSE
    BY <1>2 DEF Due
  <2>3. missed' = FALSE
    BY <2>2 DEF Answer
  <2>. QED
    BY <2>1, <2>3, Kinds, OneMoves
<1>. QED
  BY <1>1, <1>2

\* What the steps of a request leave alone but for what is said of them.
LEMMA NewSound ==
  ASSUME NEW ask \in Asks, NEW sig \in Signature \cup {"none"}, sig # "none" => sig \in Signature /\ signed[sig] # Unsigned
  PROVE  Sound(New(ask, sig)) /\ New(ask, sig).step \in {"gate", "claim"}
<1>. DEFINE r == New(ask, sig)
<1>1. /\ r.step = IF sig = "none" THEN "gate" ELSE "claim"
      /\ r.sig = sig /\ r.ran = FALSE /\ r.again = FALSE
      /\ r \in Request
  BY DEF New, Request, Steps
<1>. HIDE DEF r
<1>. QED
  BY <1>1 DEF Sound, Handling, r

-----------------------------------------------------------------------------
(* Tokens *)

LEMMA SlotsAreFinite ==
  ASSUME NEW S \in SUBSET Slot
  PROVE  IsFiniteSet(S) /\ Cardinality(S) \in Nat /\ Cardinality(S) <= Cardinality(Slot)
BY Bounds, FS_Subset, FS_CardinalityType

LEMMA LimitIs == Limit \in Nat /\ MaxTokens + Cardinality(Slot) - 1 <= Limit /\ Limit' = Limit
BY Bounds DEF Limit, Larger

\* No creation more, no token more.
LEMMA FewerTokens ==
  ASSUME TokenInv, Inserting' \subseteq Inserting, tokens' \in Nat, tokens' <= tokens
  PROVE  TokenInv'
<1>1. /\ IsFiniteSet(Inserting) /\ Cardinality(Inserting) \in Nat /\ Cardinality(Inserting') \in Nat
      /\ Cardinality(Inserting') <= Cardinality(Inserting)
  <2>1. Inserting \in SUBSET Slot
    BY DEF Inserting
  <2>. QED
    BY <2>1, SlotsAreFinite, FS_Subset, FS_CardinalityType
<1>. QED
  BY <1>1, LimitIs DEF TokenInv

\* The count of a creation, below the limit.
LEMMA CountedTokens ==
  ASSUME TokenInv, tokens < MaxTokens, tokens' = tokens
  PROVE  TokenInv'
<1>1. Inserting' \in SUBSET Slot
  BY DEF Inserting
<1>2. Cardinality(Inserting') \in Nat /\ Cardinality(Inserting') <= Cardinality(Slot)
  BY <1>1, SlotsAreFinite
<1>. QED
  BY <1>2, Bounds, LimitIs DEF TokenInv

\* An insert takes the place that the creation had.
LEMMA InsertedTokens ==
  ASSUME TokenInv, tokens' = tokens + 1, NEW s \in Inserting, Inserting' \subseteq Inserting \ {s}
  PROVE  TokenInv'
<1>1. Inserting \in SUBSET Slot /\ IsFiniteSet(Inserting) /\ Cardinality(Inserting) \in Nat
  BY SlotsAreFinite DEF Inserting
<1>2. Cardinality(Inserting \ {s}) = Cardinality(Inserting) - 1 /\ IsFiniteSet(Inserting \ {s})
  BY <1>1, FS_RemoveElement
<1>3. Cardinality(Inserting') \in Nat /\ Cardinality(Inserting') <= Cardinality(Inserting) - 1
  BY <1>2, FS_Subset, FS_CardinalityType
<1>. QED
  BY <1>1, <1>3, LimitIs DEF TokenInv

\* The creations after a request has moved and the others have not.
LEMMA InsertingAfter ==
  ASSUME NEW s \in Slot, \A q \in Slot \ {s} : requests'[q] = requests[q]
  PROVE  /\ requests'[s].step # "insert" => Inserting' \subseteq Inserting \ {s}
         /\ Inserting' \subseteq Inserting \cup {s}
BY DEF Inserting, Step

-----------------------------------------------------------------------------
(* The steps *)

\* Nothing happens to the store of nonces, and to the log.
LEMMA StoreStays == ASSUME NonceInv, UNCHANGED <<store, now>> PROVE NonceInv'
BY DEF NonceInv, store, Ttl

LEMMA AuditStays == ASSUME LogInv, UNCHANGED <<audit, now>> PROVE LogInv'
BY DEF LogInv, audit

\* A step of one request that writes nothing, and no creation goes on by it.
LEMMA QuietMove ==
  ASSUME Inv, NEW s \in Slot, UNCHANGED <<demo, now, arrived, store, tokens, audit>>, missed' = FALSE, RequestsInv',
         requests'[s].step # "insert", \A q \in Slot \ {s} : requests'[q] = requests[q]
  PROVE  Inv'
<1>1. Inserting' \subseteq Inserting
  BY InsertingAfter
<1>2. TokenInv'
  BY <1>1, FewerTokens DEF Inv, TokenInv
<1>. QED
  BY <1>2, StoreStays, AuditStays DEF Inv, ClockInv

\* The answers of the middleware, of a service and of a full house.
LEMMA AnswerInv ==
  ASSUME Inv, NEW s \in Slot, NEW step \in Steps, Step(s, step), NEW status, NEW known \in BOOLEAN,
         Answer(s, status, known), step \in Handling => known = TRUE,
         UNCHANGED <<demo, now, arrived, store, tokens, audit>>
  PROVE  Inv'
<1>1. requests[s] \in Request /\ Sound(requests[s]) /\ requests[s].step = step
  BY ByStep DEF Inv
<1>2. requests[s].ran \in BOOLEAN /\ (requests[s].ran = TRUE => known = TRUE)
  BY <1>1 DEF Sound, Request
<1>3. /\ RequestsInv' /\ missed' = FALSE
      /\ requests'[s].step \in {"idle", "record"} /\ \A q \in Slot \ {s} : requests'[q] = requests[q]
  BY <1>2, AnswerSound DEF Inv, store
<1>. QED
  BY <1>3, QuietMove

\* The caller of a handler is known.
LEMMA HandlersKnow ==
  ASSUME Inv, NEW s \in Slot, NEW step \in Steps \cap Handling, Step(s, step)
  PROVE  requests[s].known = TRUE
<1>1. requests[s] \in Request /\ Sound(requests[s]) /\ requests[s].step = step
  BY ByStep DEF Inv
<1>. QED
  BY <1>1 DEF Sound

LEMMA RefusalsInv ==
  ASSUME Inv, NEW s \in Slot, Stopped(s) \/ Outsider(s) \/ NotAdmin(s) \/ Other(s)
  PROVE  Inv'
<1>1. "gate" \in Steps \ Handling /\ "answer" \in Steps \cap Handling
  BY DEF Steps, Handling
<1>2. CASE Stopped(s)
  <2>1. PICK status \in {403, 429} : Answer(s, status, FALSE)
    BY ZenonT(40), <1>2 DEF Stopped
  <2>2. Step(s, "gate") /\ UNCHANGED <<demo, now, arrived, store, tokens, audit>>
    BY <1>2 DEF Stopped
  <2>. QED
    BY <1>1, <2>1, <2>2, AnswerInv
<1>3. CASE Outsider(s)
  <2>1. PICK status \in {401, 500} : Answer(s, status, FALSE)
    BY <1>3 DEF Outsider
  <2>2. Step(s, "gate") /\ UNCHANGED <<demo, now, arrived, store, tokens, audit>>
    BY <1>3 DEF Outsider
  <2>. QED
    BY <1>1, <2>1, <2>2, AnswerInv
<1>4. CASE NotAdmin(s)
  <2>1. PICK status \in {403, 405} : Answer(s, status, TRUE)
    BY ZenonT(40), <1>4 DEF NotAdmin
  <2>2. Step(s, "gate") /\ UNCHANGED <<demo, now, arrived, store, tokens, audit>>
    BY <1>4 DEF NotAdmin
  <2>. QED
    BY <1>1, <2>1, <2>2, AnswerInv
<1>5. CASE Other(s)
  <2>1. Step(s, "answer") /\ UNCHANGED <<demo, now, arrived, store, tokens, audit>>
    BY <1>5 DEF Other
  <2>2. PICK status \in {200, 400, 401, 500} : Answer(s, status, requests[s].known)
    BY <1>5 DEF Other
  <2>3. requests[s].known = TRUE
    <3>1. requests[s] \in Request /\ Sound(requests[s]) /\ requests[s].step = "answer"
      BY <1>1, <2>1, ByStep DEF Inv
    <3>. QED
      BY <3>1 DEF Sound, Handling
  <2>4. Answer(s, status, TRUE)
    BY <2>2, <2>3
  <2>. QED
    BY <1>1, <2>1, <2>4, AnswerInv
<1>. QED
  BY <1>2, <1>3, <1>4, <1>5

LEMMA InvalidInv ==
  ASSUME Inv, NEW s \in Slot, Invalid(s)
  PROVE  Inv'
<1>1. requests[s] \in Request /\ requests[s].step = "gate"
  BY ByStep DEF Inv, Invalid, Steps
<1>2. Goes(s, "invalid") /\ UNCHANGED <<demo, now, arrived, store, tokens, audit>> /\ missed' = FALSE
  BY DEF Invalid, Inv
<1>3. /\ RequestsInv' /\ requests'[s].step = "invalid"
      /\ \A q \in Slot \ {s} : requests'[q] = requests[q]
  BY <1>1, <1>2, GoesSound DEF Inv, store, Steps, Handling
<1>. QED
  BY <1>2, <1>3, QuietMove

LEMMA HandleInv ==
  ASSUME Inv, NEW s \in Slot, Handle(s)
  PROVE  Inv'
<1>1. requests[s] \in Request /\ requests[s].step = "gate" /\ Sound(requests[s])
  BY ByStep DEF Inv, Handle, Steps
<1>2. /\ UNCHANGED <<demo, now, arrived, store, tokens, audit>> /\ missed' = FALSE
  BY DEF Handle, Inv
<1>3. PICK first \in {"count", "delete", "answer"} : requests' = [requests EXCEPT ![s].step = first, ![s].known = TRUE, ![s].ran = TRUE]
  BY DEF Handle
<1>. DEFINE r == [requests[s] EXCEPT !.step = first, !.known = TRUE, !.ran = TRUE]
<1>4. requests' = [requests EXCEPT ![s] = r]
  BY <1>3 DEF Inv, RequestsInv
<1>5. /\ r \in Request /\ r.step = first /\ r.ran = TRUE /\ r.again = requests[s].again /\ r.blind = requests[s].blind
      /\ r.known = TRUE
  BY <1>1 DEF Request, Steps
<1>. HIDE DEF r
<1>6. Sound(r)
  BY <1>1, <1>5 DEF Sound, Handling
<1>7. RequestsInv' /\ requests'[s] = r /\ \A q \in Slot \ {s} : requests'[q] = requests[q]
  BY <1>2, <1>4, <1>6, OneMoves DEF Inv, store
<1>. QED
  BY <1>2, <1>5, <1>7, QuietMove

LEMMA ArriveInv ==
  ASSUME Inv, NEW s \in Slot, NEW ask \in Asks, Arrive(s, ask)
  PROVE  Inv'
<1>1. /\ requests' = [requests EXCEPT ![s] = New(ask, "none")] /\ arrived' = arrived + 1 /\ arrived < MaxRequests
      /\ UNCHANGED <<demo, now, store, tokens, audit, missed>>
  BY DEF Arrive
<1>2. Sound(New(ask, "none")) /\ New(ask, "none").step \in {"gate", "claim"}
  BY NewSound
<1>3. RequestsInv' /\ requests'[s] = New(ask, "none") /\ \A q \in Slot \ {s} : requests'[q] = requests[q]
  BY <1>1, <1>2, OneMoves DEF Inv, store
<1>4. Inserting' \subseteq Inserting
  BY <1>2, <1>3, InsertingAfter
<1>5. TokenInv' /\ ClockInv'
  BY <1>1, <1>4, FewerTokens, Bounds DEF Inv, TokenInv, ClockInv
<1>. QED
  BY <1>1, <1>3, <1>5, StoreStays, AuditStays DEF Inv

LEMMA ResendInv ==
  ASSUME Inv, NEW s \in Slot, NEW g \in Signature, Resend(s, g)
  PROVE  Inv'
<1>. DEFINE r == New(signed[g].ask, g)
<1>1. /\ requests' = [requests EXCEPT ![s] = r] /\ arrived' = arrived + 1 /\ arrived < MaxRequests
      /\ UNCHANGED <<demo, now, store, tokens, audit, missed>> /\ signed[g] # Unsigned
  BY DEF Resend
<1>2. signed[g].ask \in Asks
  BY <1>1 DEF Inv, NonceInv
<1>3. Sound(r) /\ r.step \in {"gate", "claim"}
  BY <1>1, <1>2, NewSound
<1>. HIDE DEF r
<1>4. RequestsInv' /\ requests'[s] = r /\ \A q \in Slot \ {s} : requests'[q] = requests[q]
  BY <1>1, <1>3, OneMoves DEF Inv, store
<1>5. Inserting' \subseteq Inserting
  BY <1>3, <1>4, InsertingAfter
<1>6. TokenInv' /\ ClockInv'
  BY <1>1, <1>5, FewerTokens, Bounds DEF Inv, TokenInv, ClockInv
<1>. QED
  BY <1>1, <1>4, <1>6, StoreStays, AuditStays DEF Inv

LEMMA SignInv ==
  ASSUME Inv, NEW s \in Slot, NEW g \in Signature, NEW ask \in Asks, NEW stamp \in 0 .. MaxTime + Skew,
         Sign(s, g, ask, stamp)
  PROVE  Inv'
<1>. DEFINE r == New(ask, g)
            made == [stamp |-> stamp, ask |-> ask]
<1>1. /\ requests' = [requests EXCEPT ![s] = r] /\ arrived' = arrived + 1 /\ arrived < MaxRequests
      /\ signed' = [signed EXCEPT ![g] = made] /\ signed[g] = Unsigned /\ stamp \in now - Skew .. now + Skew
      /\ UNCHANGED <<demo, now, nonces, taken, tokens, audit, missed>>
  BY DEF Sign
<1>2. made # Unsigned /\ made.stamp = stamp /\ made \in [stamp : 0 .. MaxTime + Skew, ask : Asks]
  BY DEF Unsigned
<1>. HIDE DEF made
<1>3. /\ \A h \in Signature : signed'[h] = IF h = g THEN made ELSE signed[h]
      /\ \A h \in Signature : signed[h] # Unsigned => signed'[h] = signed[h]
  BY <1>1 DEF Inv, NonceInv
<1>4. NonceInv'
  <2>1. signed' \in [Signature -> {Unsigned} \cup [stamp : 0 .. MaxTime + Skew, ask : Asks]]
    BY <1>1, <1>2 DEF Inv, NonceInv
  <2>2. \A h \in Signature : signed'[h] # Unsigned => signed'[h].stamp <= now + Skew
    BY <1>1, <1>2, <1>3, Bounds DEF Inv, NonceInv, ClockInv
  <2>3. \A h \in taken : signed'[h] # Unsigned /\ nonces[h] > signed'[h].stamp + Window
    BY <1>3 DEF Inv, NonceInv
  <2>. QED
    BY <1>1, <2>1, <2>2, <2>3 DEF Inv, NonceInv, Ttl
<1>5. /\ r \in Request /\ r.step \in {"gate", "claim"} /\ r.sig = g
      /\ r.ran = FALSE /\ r.again = FALSE
  BY DEF New, Request, Steps
<1>. HIDE DEF r
<1>6. Sound(r)'
  BY <1>2, <1>3, <1>5 DEF Sound, Handling
<1>7. \A q \in Slot : Sound(requests[q]) => Sound(requests[q])'
  <2> SUFFICES ASSUME NEW q \in Slot, q # s, Sound(requests[q])
               PROVE  /\ requests'[q] \in {Idle, Answered} \cup Request
                      /\ requests'[q].step \in {"claim", "put"} => requests'[q].sig \in Signature /\ signed'[requests'[q].sig] # Unsigned
                      /\ requests'[q] \in Request => /\ requests'[q].ran = TRUE <=> requests'[q].step \in Handling
                                                     /\ requests'[q].again = TRUE => requests'[q].blind = TRUE
                                                     /\ requests'[q].ran = TRUE => requests'[q].known = TRUE
    BY <1>1, <1>6 DEF Sound, Inv, RequestsInv
  <2>1. requests'[q] = requests[q]
    BY <1>1 DEF Inv, RequestsInv
  <2>. QED
    BY <1>3, <2>1 DEF Sound
<1>8. requests'[s] = r /\ \A q \in Slot \ {s} : requests'[q] = requests[q]
  BY <1>1 DEF Inv, RequestsInv
<1>9. RequestsInv'
  BY <1>1, <1>5, <1>7 DEF Inv, RequestsInv
<1>10. Inserting' \subseteq Inserting
  BY <1>5, <1>8, InsertingAfter
<1>11. TokenInv' /\ ClockInv'
  BY <1>1, <1>10, FewerTokens, Bounds DEF Inv, TokenInv, ClockInv
<1>. QED
  BY <1>1, <1>4, <1>9, <1>11, AuditStays DEF Inv

LEMMA ClaimReadsInv ==
  ASSUME Inv, NEW s \in Slot, ClaimReads(s)
  PROVE  Inv'
<1>. DEFINE g == requests[s].sig
            live == now < nonces[g]
            next(step, blind) == [requests[s] EXCEPT !.step = step, !.blind = blind, !.again = g \in taken]
<1>1. /\ requests[s] \in Request /\ requests[s].step = "claim" /\ Sound(requests[s])
      /\ UNCHANGED <<demo, now, arrived, store, tokens, audit>> /\ missed' = FALSE
  BY ByStep DEF ClaimReads, Inv, Steps
<1>2. g \in Signature /\ signed[g] # Unsigned
  BY <1>1 DEF Sound
<1>3. CASE Unheard(s)
  <2>1. requests' = [requests EXCEPT ![s] = Idle]
    BY <1>3 DEF Unheard
  <2>2. RequestsInv' /\ requests'[s] = Idle /\ \A q \in Slot \ {s} : requests'[q] = requests[q]
    BY <1>1, <2>1, Kinds, OneMoves DEF Inv, store
  <2>. QED
    BY <1>1, <2>2, Kinds, QuietMove
<1>4. ASSUME NEW step \in {"put", "gate"}, NEW blind \in BOOLEAN, requests' = [requests EXCEPT ![s] = next(step, blind)],
             g \in taken => blind = TRUE
      PROVE  Inv'
  <2>. DEFINE r == next(step, blind)
  <2>1. /\ r \in Request /\ r.step = step /\ r.sig = g /\ r.ran = requests[s].ran /\ r.blind = blind
        /\ r.known = requests[s].known
        /\ r.again = TRUE => g \in taken
    <3>. DEFINE with(again) == [requests[s] EXCEPT !.step = step, !.blind = blind, !.again = again]
    <3>1. (g \in taken) = TRUE \/ (g \in taken) = FALSE
      OBVIOUS
    <3>2. r = with(g \in taken)
      OBVIOUS
    <3>3. CASE (g \in taken) = TRUE
      <4>1. r = with(TRUE)
        BY <3>2, <3>3
      <4>. HIDE DEF r
      <4>. QED
        BY <1>1, <3>3, <4>1 DEF Request, Steps
    <3>4. CASE (g \in taken) = FALSE
      <4>1. r = with(FALSE)
        BY <3>2, <3>4
      <4>. HIDE DEF r
      <4>. QED
        BY <1>1, <4>1 DEF Request, Steps
    <3>. QED
      BY <3>1, <3>3, <3>4
  <2>. HIDE DEF r, next
  <2>2. Sound(r)
    BY <1>1, <1>2, <1>4, <2>1 DEF Sound, Handling
  <2>3. RequestsInv' /\ requests'[s] = r /\ \A q \in Slot \ {s} : requests'[q] = requests[q]
    BY <1>1, <1>4, <2>2, OneMoves DEF Inv, store, r
  <2>. QED
    BY <1>1, <2>1, <2>3, QuietMove
<1>5. ASSUME InWindow(signed[g].stamp), ~live PROVE g \notin taken
  <2>1. signed[g].stamp \in 0 .. MaxTime + Skew /\ nonces[g] \in Int /\ now \in Int
    BY <1>2, TtlCoversTheWindow, Bounds DEF Inv, NonceInv, ClockInv
  <2>2. now <= signed[g].stamp + Window
    BY <1>5, <2>1, Bounds DEF InWindow
  <2>. QED
    BY <1>5, <2>1, <2>2, Bounds DEF Inv, NonceInv
<1>6. CASE InWindow(signed[g].stamp) /\ ~live /\ requests' = [requests EXCEPT ![s] = next("put", FALSE)]
  BY <1>4, <1>5, <1>6
<1>7. CASE requests' = [requests EXCEPT ![s] = next("put", TRUE)] \/ requests' = [requests EXCEPT ![s] = next("gate", TRUE)]
  BY <1>4, <1>7
<1>. QED
  BY <1>3, <1>6, <1>7 DEF ClaimReads, Inv, RequestsInv

\* The nonce of a request that is still good is kept until its stamp is not.
LEMMA ClaimPutsInv ==
  ASSUME Inv, NEW s \in Slot, ClaimPuts(s)
  PROVE  Inv'
<1>. DEFINE g == requests[s].sig
<1>1. /\ requests[s] \in Request /\ requests[s].step = "put" /\ Sound(requests[s])
      /\ Goes(s, "gate") /\ UNCHANGED <<demo, now, arrived, signed, tokens, audit>> /\ missed' = FALSE
  BY ByStep DEF ClaimPuts, Inv, Steps
<1>2. g \in Signature /\ signed[g] # Unsigned
  BY <1>1 DEF Sound
<1>3. RequestsInv' /\ requests'[s].step = "gate" /\ \A q \in Slot \ {s} : requests'[q] = requests[q]
  BY <1>1, GoesSound DEF Inv, Steps, Handling
<1>4. NonceInv'
  <2>1. CASE UNCHANGED <<nonces, taken>>
    BY <1>1, <2>1, StoreStays DEF Inv, store
  <2>2. CASE nonces' = [nonces EXCEPT ![g] = now + Ttl] /\ taken' = taken \cup {g}
    <3>1. now + Ttl \in -1 .. MaxTime + Ttl
      BY TtlCoversTheWindow, Bounds DEF Inv, ClockInv
    <3>2. signed[g].stamp \in 0 .. MaxTime + Skew /\ signed[g].stamp <= now + Skew
      BY <1>2 DEF Inv, NonceInv
    <3>3. now + Ttl > signed[g].stamp + Window
      BY <3>2, TtlCoversTheWindow, Bounds DEF Inv, ClockInv
    <3>4. \A h \in taken' : signed[h] # Unsigned /\ nonces'[h] > signed[h].stamp + Window
      BY <1>2, <2>2, <3>3 DEF Inv, NonceInv
    <3>. QED
      BY <1>1, <1>2, <2>2, <3>1, <3>4 DEF Inv, NonceInv, Ttl
  <2>. QED
    BY <2>1, <2>2 DEF ClaimPuts
<1>5. Inserting' \subseteq Inserting
  BY <1>3, InsertingAfter
<1>6. TokenInv'
  BY <1>1, <1>5, FewerTokens DEF Inv, TokenInv
<1>. QED
  BY <1>1, <1>3, <1>4, <1>6, AuditStays DEF Inv, ClockInv

LEMMA TokensInv ==
  ASSUME Inv, NEW s \in Slot, CountTokens(s) \/ InsertToken(s) \/ DeleteToken(s)
  PROVE  Inv'
<1>1. \A step \in {"count", "insert", "delete"} : step \in Steps \cap Handling
  BY DEF Steps, Handling
<1>2. CASE CountTokens(s)
  <2>1. Step(s, "count") /\ UNCHANGED <<demo, now, arrived, store, tokens, audit>>
    BY <1>2 DEF CountTokens
  <2>2. CASE Answer(s, 400, requests[s].known)
    <3>1. Answer(s, 400, TRUE)
      BY <1>1, <2>1, <2>2, HandlersKnow
    <3>. QED
      BY <1>1, <2>1, <3>1, AnswerInv
  <2>3. CASE ~Full(tokens) /\ Goes(s, "insert") /\ UNCHANGED missed
    <3>1. requests[s] \in Request /\ requests[s].step = "count"
      BY <1>1, <2>1, ByStep DEF Inv
    <3>2. RequestsInv'
      BY <1>1, <2>1, <2>3, <3>1, GoesSound DEF Inv, store
    <3>3. tokens < MaxTokens
      BY <2>3, Bounds DEF Full, Inv, TokenInv
    <3>4. TokenInv'
      BY <2>1, <3>3, CountedTokens DEF Inv
    <3>. QED
      BY <2>1, <2>3, <3>2, <3>4, StoreStays, AuditStays DEF Inv, ClockInv
  <2>. QED
    BY <1>2, <2>2, <2>3 DEF CountTokens
<1>3. ASSUME NEW step \in {"insert", "delete"}, Step(s, step), NEW status, Answer(s, status, TRUE),
             UNCHANGED <<demo, now, arrived, store, audit>>
      PROVE  /\ RequestsInv' /\ ClockInv' /\ NonceInv' /\ LogInv' /\ missed' = FALSE
             /\ Inserting' \subseteq Inserting \ {s}
  <2>1. requests[s] \in Request /\ Sound(requests[s])
    BY <1>1, <1>3, ByStep DEF Inv
  <2>2. requests[s].ran \in BOOLEAN
    BY <2>1 DEF Request
  <2>3. /\ RequestsInv' /\ missed' = FALSE
        /\ requests'[s].step \in {"idle", "record"} /\ \A q \in Slot \ {s} : requests'[q] = requests[q]
    BY <1>3, <2>2, AnswerSound DEF Inv, store
  <2>4. requests'[s].step # "insert"
    BY <2>3
  <2>. QED
    BY <1>3, <2>3, <2>4, InsertingAfter, StoreStays, AuditStays DEF Inv, ClockInv
<1>4. CASE InsertToken(s)
  <2>1. /\ Step(s, "insert") /\ UNCHANGED <<demo, now, arrived, store, audit>>
        /\ \/ tokens' = tokens + 1 /\ Answer(s, 200, TRUE)
           \/ UNCHANGED tokens /\ Answer(s, 500, TRUE)
    <3>1. Step(s, "insert")
      BY <1>4 DEF InsertToken
    <3>2. requests[s].known = TRUE
      BY <1>1, <3>1, HandlersKnow
    <3>. QED
      BY <1>4, <3>2 DEF InsertToken
  <2>2. RequestsInv' /\ ClockInv' /\ NonceInv' /\ LogInv' /\ missed' = FALSE /\ Inserting' \subseteq Inserting \ {s}
    BY <1>3, <2>1
  <2>3. s \in Inserting
    BY <2>1 DEF Inserting
  <2>4. TokenInv'
    <3>1. CASE tokens' = tokens + 1
      BY <2>2, <2>3, <3>1, InsertedTokens DEF Inv
    <3>2. CASE tokens' = tokens
      BY <2>2, <3>2, FewerTokens DEF Inv, TokenInv
    <3>. QED
      BY <2>1, <3>1, <3>2
  <2>. QED
    BY <2>2, <2>4 DEF Inv
<1>5. CASE DeleteToken(s)
  <2>1. /\ Step(s, "delete") /\ Answer(s, 200, TRUE) /\ UNCHANGED <<demo, now, arrived, store, audit>>
        /\ tokens' \in {tokens, Larger(tokens - 1, 0)}
    <3>1. Step(s, "delete")
      BY <1>5 DEF DeleteToken
    <3>2. requests[s].known = TRUE
      BY <1>1, <3>1, HandlersKnow
    <3>. QED
      BY <1>5, <3>2 DEF DeleteToken
  <2>2. RequestsInv' /\ ClockInv' /\ NonceInv' /\ LogInv' /\ missed' = FALSE /\ Inserting' \subseteq Inserting \ {s}
    BY <1>3, <2>1
  <2>3. tokens' \in Nat /\ tokens' <= tokens
    BY <2>1 DEF Larger, Inv, TokenInv
  <2>4. TokenInv'
    BY <2>2, <2>3, FewerTokens DEF Inv
  <2>. QED
    BY <2>2, <2>4 DEF Inv
<1>. QED
  BY <1>2, <1>4, <1>5

\* A record is of now, and so younger than all the pruning task has deleted.
LEMMA RecordInv ==
  ASSUME Inv, NEW s \in Slot, Record(s)
  PROVE  Inv'
<1>1. /\ requests' = [requests EXCEPT ![s] = Idle]
      /\ \/ stamps' = Append(stamps, now) /\ log' = log \cup {Len(stamps) + 1}
         \/ UNCHANGED <<stamps, log>>
      /\ UNCHANGED <<demo, now, arrived, store, tokens, pruner, cleared, missed>>
  BY DEF Record
<1>2. RequestsInv' /\ requests'[s] = Idle /\ \A q \in Slot \ {s} : requests'[q] = requests[q]
  BY <1>1, Kinds, OneMoves DEF Inv, store
<1>3. Inserting' \subseteq Inserting
  BY <1>2, Kinds, InsertingAfter
<1>4. TokenInv'
  BY <1>1, <1>3, FewerTokens DEF Inv, TokenInv
<1>5. LogInv'
  <2>1. CASE UNCHANGED <<stamps, log>>
    BY <1>1, <2>1 DEF Inv, LogInv
  <2>2. CASE stamps' = Append(stamps, now) /\ log' = log \cup {Len(stamps) + 1}
    <3>1. /\ stamps \in Seq(0 .. MaxTime) /\ DOMAIN stamps = 1 .. Len(stamps) /\ Len(stamps) \in Nat
          /\ now \in 0 .. MaxTime /\ log \subseteq DOMAIN stamps
      BY DEF Inv, LogInv, ClockInv
    <3>2. /\ stamps' \in Seq(0 .. MaxTime) /\ Len(stamps') = Len(stamps) + 1 /\ DOMAIN stamps' = 1 .. Len(stamps) + 1
          /\ stamps'[Len(stamps) + 1] = now
          /\ \A n \in 1 .. Len(stamps) : stamps'[n] = stamps[n]
      BY <2>2, <3>1
    <3>3. \A n \in DOMAIN stamps' : n \in DOMAIN stamps \/ n = Len(stamps) + 1
      BY <3>1, <3>2
    <3>4. \A n \in DOMAIN stamps' : stamps'[n] >= now - Retention => n \in log'
      BY <2>2, <3>1, <3>2, <3>3 DEF Inv, LogInv
    <3>5. \A n \in log' : stamps'[n] >= cleared
      BY <2>2, <3>1, <3>2, <3>3 DEF Inv, LogInv
    <3>. QED
      BY <1>1, <2>2, <3>1, <3>2, <3>4, <3>5 DEF Inv, LogInv
  <2>. QED
    BY <1>1, <2>1, <2>2
<1>. QED
  BY <1>1, <1>2, <1>4, <1>5, StoreStays DEF Inv, ClockInv

\* What is deleted is older than the cutoff, and a pass ends only when all of that is gone.
LEMMA BatchInv ==
  ASSUME Inv, NEW cutoff \in -Retention .. MaxTime, cutoff <= now - Retention, DeleteOlderThanBatch(cutoff)
  PROVE  Inv'
<1>. DEFINE old == {n \in log : stamps[n] < cutoff}
<1>1. PICK batch \in SUBSET old :
        /\ Cardinality(batch) = PruneBatch \/ (batch = old /\ Cardinality(batch) < PruneBatch)
        /\ log' = log \ batch
        /\ IF GoesOn(Cardinality(batch)) THEN pruner' = [on |-> TRUE, cutoff |-> cutoff] /\ UNCHANGED cleared
                                         ELSE pruner' = Off /\ cleared' = Larger(cleared, cutoff)
  BY DEF DeleteOlderThanBatch
<1>2. UNCHANGED <<demo, now, requests, arrived, store, tokens, stamps, missed>>
  BY DEF DeleteOlderThanBatch
<1>3. /\ now \in Nat /\ cutoff \in Int /\ Retention \in Nat /\ MaxTime \in Nat /\ cleared \in Nat /\ now <= MaxTime
      /\ \A n \in DOMAIN stamps : stamps[n] \in Int
      /\ log \subseteq DOMAIN stamps
  BY StampType, Bounds DEF Inv, LogInv, ClockInv
<1>4. \A n \in DOMAIN stamps : stamps[n] >= now - Retention => n \in log'
  BY <1>1, <1>3 DEF Inv, LogInv
<1>5. ASSUME GoesOn(Cardinality(batch)) PROVE LogInv'
  <2>1. pruner' = [on |-> TRUE, cutoff |-> cutoff] /\ cleared' = cleared /\ log' \subseteq log
    BY <1>1, <1>5
  <2>2. pruner' \in [on : BOOLEAN, cutoff : -Retention .. MaxTime] /\ pruner'.cutoff <= now - Retention
    BY <2>1
  <2>3. \A n \in log' : stamps[n] >= cleared
    BY <2>1 DEF Inv, LogInv
  <2>. QED
    BY <1>2, <1>3, <1>4, <2>1, <2>2, <2>3 DEF Inv, LogInv
<1>6. ASSUME ~GoesOn(Cardinality(batch)) PROVE LogInv'
  <2>1. batch = old
    BY <1>1, <1>6, Bounds DEF GoesOn
  <2>2. \A n \in log' : stamps[n] >= cutoff /\ stamps[n] >= cleared
    BY <1>1, <1>3, <2>1 DEF Inv, LogInv
  <2>3. cleared' \in {cleared, cutoff} /\ cleared' \in 0 .. MaxTime /\ cleared' <= now
    BY <1>1, <1>3, <1>6 DEF Larger, Inv, LogInv
  <2>4. pruner' = Off /\ Off.on = FALSE /\ Off \in [on : BOOLEAN, cutoff : -Retention .. MaxTime]
    BY <1>1, <1>3, <1>6 DEF Off
  <2>5. stamps' = stamps /\ now' = now /\ log' \subseteq log
    BY <1>1, <1>2
  <2>. QED
    BY <1>3, <1>4, <2>2, <2>3, <2>4, <2>5 DEF Inv, LogInv
<1>7. LogInv'
  BY <1>5, <1>6
<1>8. RequestsInv' /\ TokenInv' /\ ClockInv'
  <2>1. Inserting' = Inserting
    BY <1>2 DEF Inserting, Step
  <2>2. \A s \in Slot : Sound(requests[s])'
    BY <1>2 DEF Sound, Inv, RequestsInv, store
  <2>. QED
    BY <1>2, <2>1, <2>2, FewerTokens DEF Inv, RequestsInv, TokenInv, ClockInv
<1>. QED
  BY <1>2, <1>7, <1>8, StoreStays DEF Inv

\* The steps of no request.
LEMMA OthersInv ==
  ASSUME Inv, TokenExpires \/ BeginPass \/ NextBatch \/ PassFails \/ Tick
  PROVE  Inv'
<1>1. CASE TokenExpires
  <2>1. UNCHANGED <<demo, now, requests, arrived, store, audit, missed>> /\ tokens > 0 /\ tokens' = tokens - 1
    BY <1>1 DEF TokenExpires
  <2>2. Inserting' = Inserting /\ \A s \in Slot : Sound(requests[s])'
    BY <2>1 DEF Inserting, Step, Sound, Inv, RequestsInv, store
  <2>3. TokenInv'
    BY <2>1, <2>2, FewerTokens DEF Inv, TokenInv
  <2>. QED
    BY <2>1, <2>2, <2>3, StoreStays, AuditStays DEF Inv, RequestsInv, ClockInv
<1>2. CASE BeginPass
  <2>1. now - Retention \in -Retention .. MaxTime
    BY Bounds DEF Inv, ClockInv
  <2>. QED
    BY <1>2, <2>1, BatchInv DEF BeginPass
<1>3. CASE NextBatch
  <2>1. pruner.cutoff \in -Retention .. MaxTime /\ pruner.cutoff <= now - Retention
    BY <1>3 DEF NextBatch, Inv, LogInv
  <2>. QED
    BY <1>3, <2>1, BatchInv DEF NextBatch
<1>4. CASE PassFails
  <2>1. UNCHANGED <<demo, now, requests, arrived, store, tokens, stamps, log, cleared, missed>> /\ pruner' = Off
    BY <1>4 DEF PassFails
  <2>2. Inserting' = Inserting /\ \A s \in Slot : Sound(requests[s])'
    BY <2>1 DEF Inserting, Step, Sound, Inv, RequestsInv, store
  <2>3. TokenInv'
    BY <2>1, <2>2, FewerTokens DEF Inv, TokenInv
  <2>4. Off.on = FALSE /\ Off \in [on : BOOLEAN, cutoff : -Retention .. MaxTime]
    BY Bounds DEF Off
  <2>5. LogInv'
    BY <2>1, <2>4 DEF Inv, LogInv
  <2>. QED
    BY <2>1, <2>2, <2>3, <2>5, StoreStays DEF Inv, RequestsInv, ClockInv
<1>5. CASE Tick
  <2>1. UNCHANGED <<demo, requests, arrived, store, tokens, audit, missed>> /\ now < MaxTime /\ now' = now + 1
    BY <1>5 DEF Tick
  <2>2. Inserting' = Inserting /\ \A s \in Slot : Sound(requests[s])'
    BY <2>1 DEF Inserting, Step, Sound, Inv, RequestsInv, store
  <2>3. TokenInv'
    BY <2>1, <2>2, FewerTokens DEF Inv, TokenInv
  <2>4. now \in Nat /\ now' \in 0 .. MaxTime
    BY <2>1, Bounds DEF Inv, ClockInv
  <2>5. NonceInv'
    <3>1. \A g \in Signature : signed[g] # Unsigned => signed[g].stamp <= now + Skew /\ signed[g].stamp \in Int
      BY Bounds DEF Inv, NonceInv
    <3>2. \A g \in Signature : signed[g] # Unsigned => signed[g].stamp <= now' + Skew
      BY <2>1, <2>4, <3>1, Bounds
    <3>. QED
      BY <2>1, <3>2 DEF Inv, NonceInv, store, Ttl
  <2>6. LogInv'
    <3>1. \A n \in DOMAIN stamps : stamps[n] \in Int
      BY StampType DEF Inv
    <3>2. \A n \in DOMAIN stamps : stamps[n] >= now' - Retention => n \in log
      BY <2>1, <2>4, <3>1, Bounds DEF Inv, LogInv
    <3>3. (pruner.on = TRUE => pruner.cutoff <= now' - Retention) /\ cleared <= now'
      BY <2>1, <2>4, Bounds DEF Inv, LogInv
    <3>. QED
      BY <2>1, <3>2, <3>3 DEF Inv, LogInv, audit
  <2>. QED
    BY <2>1, <2>2, <2>3, <2>4, <2>5, <2>6 DEF Inv, RequestsInv, ClockInv
<1>. QED
  BY <1>1, <1>2, <1>3, <1>4, <1>5

LEMMA InvNext == Inv /\ [Next]_vars => Inv'
<1> SUFFICES ASSUME Inv, [Next]_vars PROVE Inv'
  OBVIOUS
<1>1. ASSUME NEW s \in Slot, Begins(s) PROVE Inv'
  BY <1>1, ArriveInv, SignInv DEF Begins
<1>2. ASSUME NEW s \in Slot,
             \/ \E g \in Signature : Resend(s, g)
             \/ ClaimReads(s) \/ ClaimPuts(s)
             \/ Stopped(s) \/ Outsider(s) \/ Invalid(s) \/ NotAdmin(s) \/ Handle(s)
             \/ Other(s) \/ CountTokens(s) \/ InsertToken(s) \/ DeleteToken(s)
             \/ Record(s)
      PROVE  Inv'
  BY <1>2, ResendInv, ClaimReadsInv, ClaimPutsInv, RefusalsInv, InvalidInv, HandleInv, TokensInv, RecordInv
<1>3. CASE UNCHANGED vars
  <2>1. Inserting' = Inserting /\ \A s \in Slot : Sound(requests[s])'
    BY <1>3 DEF vars, Inserting, Step, Sound, Inv, RequestsInv
  <2>2. TokenInv'
    BY <1>3, <2>1, FewerTokens DEF vars, Inv, TokenInv
  <2>. QED
    BY <1>3, <2>1, <2>2, StoreStays, AuditStays DEF vars, Inv, RequestsInv, ClockInv, store, audit
<1>. QED
  BY <1>1, <1>2, <1>3, OthersInv DEF Next

LEMMA InvInit == Init => Inv
<1> SUFFICES ASSUME Init PROVE Inv
  OBVIOUS
<1>1. RequestsInv
  BY Kinds DEF Init, RequestsInv
<1>2. ClockInv /\ missed = FALSE
  BY Bounds DEF Init, ClockInv
<1>3. NonceInv
  BY TtlCoversTheWindow, Bounds DEF Init, NonceInv
<1>4. TokenInv
  <2>1. Inserting = {}
    BY Kinds DEF Init, Inserting, Step
  <2>. QED
    BY <2>1, LimitIs, FS_EmptySet DEF Init, TokenInv
<1>5. LogInv
  <2>1. stamps = <<>> /\ log = {} /\ DOMAIN stamps = {} /\ stamps \in Seq(0 .. MaxTime)
    BY DEF Init
  <2>2. Off.on = FALSE /\ Off \in [on : BOOLEAN, cutoff : -Retention .. MaxTime]
    BY Bounds DEF Off
  <2>. QED
    BY <2>1, <2>2, Bounds DEF Init, LogInv
<1>. QED
  BY <1>1, <1>2, <1>3, <1>4, <1>5 DEF Inv

LEMMA Always == Spec => []Inv
BY InvInit, InvNext, PTL DEF Spec

\* The state of the pipeline has its types; and a user has no more tokens than the limit
\* and one for each further creation under way at once.
THEOREM TypeCorrect == Spec => []TypeOK
<1>1. Inv => TypeOK
  <2> SUFFICES ASSUME Inv PROVE TypeOK
    OBVIOUS
  <2>1. demo \in BOOLEAN /\ missed \in BOOLEAN /\ now \in 0 .. MaxTime /\ arrived \in 0 .. MaxRequests
    BY DEF Inv, ClockInv
  <2>2. \A s \in Slot : requests[s] \in {Idle, Answered} \cup Request
    BY DEF Inv, RequestsInv
  <2>3. \A g \in Signature : nonces[g] \in -1 .. MaxTime + Ttl
    BY DEF Inv, NonceInv
  <2>4. \A g \in Signature : signed[g] = Unsigned \/ (signed[g].stamp \in 0 .. MaxTime + Skew /\ signed[g].ask \in Asks)
    BY DEF Inv, NonceInv
  <2>5. taken \subseteq {g \in Signature : signed[g] # Unsigned}
    BY DEF Inv, NonceInv
  <2>6. tokens \in 0 .. Larger(MaxTokens + Cardinality(Slot) - 1, 0)
    <3>1. Cardinality(Inserting) \in Nat
      BY SlotsAreFinite DEF Inserting
    <3>. QED
      BY <3>1, LimitIs DEF Inv, TokenInv, Limit
  <2>7. \A n \in DOMAIN stamps : stamps[n] \in 0 .. MaxTime
    BY StampType DEF Inv
  <2>8. log \subseteq DOMAIN stamps /\ pruner.on \in BOOLEAN /\ pruner.cutoff \in -Retention .. MaxTime /\ cleared \in 0 .. MaxTime
    BY DEF Inv, LogInv
  <2>. QED
    BY <2>1, <2>2, <2>3, <2>4, <2>5, <2>6, <2>7, <2>8 DEF TypeOK
<1>. QED
  BY <1>1, Always, PTL

\* An internal request that was accepted and recorded is not accepted again while its stamp
\* is good, unless the store failed or was behind: whatever the window, the clock's skew and
\* the time between the check and the record.
THEOREM NoSignatureServesTwice == Spec => []ServedOnce
<1>1. Inv => ServedOnce
  BY DEF Inv, RequestsInv, Sound, ServedOnce, Asked, Request
<1>. QED
  BY <1>1, Always, PTL

\* A handler that runs is recorded, no record younger than the retention is missing, and
\* none is left from before a pass of the pruning task that has ended.
THEOREM TheLogIsTrue == Spec => []LogIsTrue
<1>1. Inv => LogIsTrue
  BY DEF Inv, LogInv, LogIsTrue
<1>. QED
  BY <1>1, Always, PTL
=============================================================================
