---------------------------- MODULE AwsSweepProofs ----------------------------
(***************************************************************************)
(* For any regions, resources, limits and numbers of attempts, and         *)
(* whatever AWS answers or leaves unanswered: a fault is tried again and a *)
(* refusal is not, the sweep ends within its time, and each region is      *)
(* answered whole or failed.                                               *)
(***************************************************************************)
EXTENDS AwsSweep, TLAPS

CallState ==
  [pc : {"idle", "sending", "reading", "waiting", "done"}, tried : Seq(Outcome), since : Nat, wait : Nat]

\* The attempt i of c, that came to o, is not followed by another.
Ends(c, i, o) ==
  LET refusal == CASE o.kind = "answer" -> o.status \in {"ok", "refused"}
                   [] o.kind = "typed" -> ~o.retryable
                   [] o.kind = "plain" -> "permanent" \in o.speaks
                   [] OTHER -> TRUE IN
  refusal \/ (o.kind = "answer" /\ o.asks > MaxDelay) \/ i = Attempts[c]

CallInv ==
  /\ call \in [Client -> CallState] /\ elapsed \in Nat
  /\ \A c \in Client : /\ Len(call[c].tried) <= Attempts[c]
                       /\ call[c].pc = "waiting" => call[c].wait <= MaxDelay
                       /\ call[c].since <= Limit(c)
                       /\ call[c].pc \in {"waiting", "done"} => call[c].tried # <<>>
                       /\ c \in Region => call[c].pc # "waiting"
  /\ \A c \in Client : \A i \in DOMAIN call[c].tried :
       Ends(c, i, call[c].tried[i]) <=> i = Len(call[c].tried) /\ call[c].pc = "done"

ServiceInv ==
  /\ remote \in [Region -> SUBSET Item] /\ stable \in [Region -> SUBSET Item] /\ ever \in [Region -> SUBSET Item]
  /\ \A r \in Region : stable[r] \subseteq remote[r] /\ remote[r] \subseteq ever[r]

WalkState ==
  [pc : {"walking", "whole", "failed"}, pages : 0..MaxPages, token : [at : {0} \cup Item, n : Nat],
   seen : SUBSET Token, items : SUBSET Item]

\* A walk has read all that was there throughout as far as its token goes, and nothing
\* that never was there; and a region has a call as long as its walk goes on.
WalkInv ==
  /\ walk \in [Region -> WalkState]
  /\ \A r \in Region : walk[r].items \subseteq ever[r]
  /\ \A r \in Region : walk[r].pc = "walking" => /\ walk[r].pages < MaxPages
                                                 /\ {i \in stable[r] : i <= walk[r].token.at} \subseteq walk[r].items
  /\ phase \in {"assume", "sweep", "over", "thrown"}
  /\ result \in [succeeded : SUBSET Region, failed : SUBSET Region, items : SUBSET (Region \X Item)]
  /\ phase = "assume" => \A r \in Region : /\ walk[r].pc = "walking" /\ walk[r].pages = 0
                                           /\ call[r].pc = "idle"
  /\ phase = "sweep" => /\ call[Sts].pc = "idle"
                        /\ \A r \in Region : walk[r].pc = "walking" <=> call[r].pc # "idle"
  /\ phase = "over" => \A r \in Region : walk[r].pc # "walking"
  /\ phase \in {"over", "thrown"} => \A c \in Client : call[c].pc \in {"idle", "done"}

\* The time that k attempts take at most, with the waits between them and with the wait
\* after them too; and the time of so many pages.
Attempted(k) == k * Timeout + (k - 1) * MaxDelay
Waited(k) == k * Timeout + k * MaxDelay
Paged(k) == k * Timeout
Role == Attempted(Attempts[Sts])

\* Time is spent by the attempts and waits for the role, then by the pages of every region
\* that is still walked alike.
TimeInv ==
  /\ elapsed <= Role + Paged(MaxPages)
  /\ phase = "assume" =>
       LET role == call[Sts]
           k == Len(role.tried) IN
       \/ role.pc \in {"sending", "reading"} /\ elapsed <= Waited(k) + role.since
       \/ role.pc = "waiting" /\ elapsed <= Attempted(k) + role.since
       \/ role.pc = "done" /\ elapsed <= Attempted(k)
  /\ phase = "sweep" =>
       \A r \in Region : walk[r].pc = "walking" =>
         elapsed <= Role + Paged(walk[r].pages) + (IF call[r].pc = "done" THEN Timeout ELSE call[r].since)

Inv == CallInv /\ ServiceInv /\ WalkInv /\ TimeInv

-----------------------------------------------------------------------------
(* Calls *)

LEMMA Constants ==
  /\ Client = Region \cup {Sts} /\ Sts \notin Region /\ Item \subseteq Nat \ {0} /\ MaxPages \in Nat \ {0}
  /\ Attempts \in [Client -> Nat \ {0}] /\ \A r \in Region : Attempts[r] = 1
  /\ Timeout \in Nat \ {0} /\ MaxDelay \in Nat /\ Asked \subseteq Nat
BY SweepAssumption, ClientAssumption

LEMMA NewCalls ==
  /\ NoCall \in CallState /\ NoCall.pc = "idle" /\ NoCall.tried = <<>> /\ NoCall.since = 0
  /\ Sent \in CallState /\ Sent.pc = "sending" /\ Sent.tried = <<>> /\ Sent.since = 0
<1>1. NoCall \in CallState /\ NoCall.pc = "idle" /\ NoCall.tried = <<>> /\ NoCall.since = 0
  BY DEF NoCall, CallState
<1>2. /\ [NoCall EXCEPT !.pc = "sending"] \in CallState
      /\ [NoCall EXCEPT !.pc = "sending"].pc = "sending" /\ [NoCall EXCEPT !.pc = "sending"].tried = <<>>
      /\ [NoCall EXCEPT !.pc = "sending"].since = 0
  BY <1>1 DEF CallState
<1> QED BY <1>1, <1>2 DEF Sent

\* A call that is done, or waits, with one attempt more.
Done(tried) == [NoCall EXCEPT !.pc = "done", !.tried = tried]
Waiting(tried, d) == [pc |-> "waiting", tried |-> tried, since |-> 0, wait |-> d]

LEMMA SettledCalls ==
  ASSUME NEW tried \in Seq(Outcome), NEW d \in Nat
  PROVE  /\ Done(tried) \in CallState /\ Done(tried).pc = "done" /\ Done(tried).tried = tried /\ Done(tried).since = 0
         /\ Waiting(tried, d) \in CallState /\ Waiting(tried, d).pc = "waiting" /\ Waiting(tried, d).tried = tried
         /\ Waiting(tried, d).since = 0 /\ Waiting(tried, d).wait = d
BY DEF Done, Waiting, NoCall, CallState

\* What isRetryableHttpStatus, isRetryableThrownError and the waits come to: an attempt
\* that is the last, or whose outcome is not to be tried again, ends the call.
LEMMA WhenItEnds ==
  ASSUME NEW c \in Client, NEW k \in Nat, NEW o \in Outcome
  PROVE  LET retryable == IF o.kind = "answer" THEN IsRetryableHttpStatus(o.status) ELSE IsRetryableThrownError(o) IN
         Ends(c, k, o) <=> IsLastAttempt(c, k) \/ ~retryable \/ NextDelays(k, o) = {}
<1> DEFINE retryable == IF o.kind = "answer" THEN IsRetryableHttpStatus(o.status) ELSE IsRetryableThrownError(o)
<1>1. CASE o \in Answered
  <2>1. o.kind = "answer" /\ o.status \in {"ok", "refused", "throttled", "fault"} /\ o.asks \in Nat
    BY <1>1, Constants DEF Answered
  <2>2. retryable <=> o.status \notin {"ok", "refused"}
    BY <2>1 DEF IsRetryableHttpStatus
  <2>3. NextDelays(k, o) = {} <=> o.asks > MaxDelay
    <3>1. CASE o.asks > 0
      BY <2>1, <3>1, Constants DEF NextDelays
    <3>2. CASE o.asks = 0
      <4>1. 0 \in NextDelays(k, o)
        BY <2>1, <3>2, Constants DEF NextDelays
      <4> QED BY <3>2, <4>1, Constants
    <3> QED BY <2>1, <3>1, <3>2
  <2> HIDE DEF retryable
  <2>4. Ends(c, k, o) <=> o.status \in {"ok", "refused"} \/ o.asks > MaxDelay \/ k = Attempts[c]
    BY <2>1 DEF Ends
  <2> QED BY <2>2, <2>3, <2>4 DEF IsLastAttempt, retryable
<1>2. CASE o \in Thrown
  <2>1. o.kind \in {"typed", "blank", "plain"}
    BY <1>2 DEF Thrown
  <2>2. 0 \in NextDelays(k, o)
    BY <2>1, Constants DEF NextDelays
  <2>3. Ends(c, k, o) <=> ~retryable \/ k = Attempts[c]
    BY <2>1 DEF Ends, IsRetryableThrownError
  <2> HIDE DEF retryable
  <2> QED BY <2>2, <2>3 DEF IsLastAttempt, retryable
<1> QED BY <1>1, <1>2 DEF Outcome

LEMMA DelaysAreShort ==
  ASSUME NEW k \in Nat, NEW o \in Outcome, NEW d \in NextDelays(k, o)
  PROVE  d \in Nat /\ d <= MaxDelay
BY Constants DEF NextDelays

LEMMA EachOutcome == TimedOut \in Outcome /\ Answered \subseteq Outcome /\ Thrown \subseteq Outcome
BY DEF TimedOut, Outcome, Thrown, Answered

\* A step of a call: it has the headers, settles for good or for a wait, or is sent again.
Reads(old, new) ==
  old.pc = "sending" /\ new.pc = "reading" /\ new.tried = old.tried /\ new.since = old.since
Settles(c, old, new) ==
  /\ old.pc \in {"sending", "reading"} /\ new.since = 0
  /\ \E o \in Outcome :
       /\ new.tried = Append(old.tried, o)
       /\ \/ new.pc = "done" /\ Ends(c, Len(old.tried) + 1, o)
          \/ new.pc = "waiting" /\ new.wait <= MaxDelay /\ ~Ends(c, Len(old.tried) + 1, o)
Resumes(old, new) ==
  old.pc = "waiting" /\ old.since = old.wait /\ new.pc = "sending" /\ new.tried = old.tried /\ new.since = 0

LEMMA SettleIs ==
  ASSUME CallInv, NEW c \in Client, call[c].pc \in {"sending", "reading"}, NEW o \in Outcome, Settle(c, o)
  PROVE  /\ call' \in [Client -> CallState] /\ \A b \in Client \ {c} : call'[b] = call[b]
         /\ Settles(c, call[c], call'[c])
<1> DEFINE tried == Append(call[c].tried, o)
           k == Len(call[c].tried) + 1
           retryable == IF o.kind = "answer" THEN IsRetryableHttpStatus(o.status) ELSE IsRetryableThrownError(o)
<1>1. call \in [Client -> CallState] /\ call[c].tried \in Seq(Outcome)
  BY DEF CallInv, CallState
<1>2. tried \in Seq(Outcome) /\ Len(tried) = k /\ k \in Nat
  BY <1>1
<1>3. IF IsLastAttempt(c, Len(tried)) \/ ~retryable \/ NextDelays(Len(tried), o) = {}
        THEN call' = [call EXCEPT ![c] = Done(tried)]
        ELSE \E d \in NextDelays(Len(tried), o) : call' = [call EXCEPT ![c] = Waiting(tried, d)]
  BY DEF Settle, Done, Waiting
<1>4. Ends(c, k, o) <=> IsLastAttempt(c, k) \/ ~retryable \/ NextDelays(k, o) = {}
  BY <1>2, WhenItEnds
<1> HIDE DEF retryable, tried
<1>5. CASE Ends(c, k, o)
  <2>1. call' = [call EXCEPT ![c] = Done(tried)]
    BY <1>2, <1>3, <1>4, <1>5
  <2>2. Done(tried) \in CallState /\ Done(tried).pc = "done" /\ Done(tried).tried = tried /\ Done(tried).since = 0
    BY <1>2, SettledCalls
  <2> QED BY <1>1, <1>5, <2>1, <2>2 DEF Settles, tried
<1>6. CASE ~Ends(c, k, o)
  <2>1. PICK d \in NextDelays(k, o) : call' = [call EXCEPT ![c] = Waiting(tried, d)]
    BY <1>2, <1>3, <1>4, <1>6
  <2>2. d \in Nat /\ d <= MaxDelay
    BY <1>2, DelaysAreShort
  <2>3. /\ Waiting(tried, d) \in CallState /\ Waiting(tried, d).pc = "waiting" /\ Waiting(tried, d).tried = tried
        /\ Waiting(tried, d).since = 0 /\ Waiting(tried, d).wait = d
    BY <1>2, <2>2, SettledCalls
  <2> QED BY <1>1, <1>6, <2>1, <2>2, <2>3 DEF Settles, tried
<1> QED BY <1>5, <1>6

LEMMA CallSteps ==
  ASSUME CallInv, NEW c \in Client, CallStep(c)
  PROVE  /\ elapsed' = elapsed /\ call' \in [Client -> CallState] /\ \A b \in Client \ {c} : call'[b] = call[b]
         /\ \/ Reads(call[c], call'[c]) \/ Settles(c, call[c], call'[c]) \/ Resumes(call[c], call'[c])
<1>1. call \in [Client -> CallState] /\ call[c] \in CallState
  BY DEF CallInv
<1>2. CASE Headers(c)
  BY <1>1, <1>2 DEF Headers, Reads, CallState
<1>3. CASE Resume(c)
  BY <1>1, <1>3 DEF Resume, Resumes, CallState
<1>4. CASE Body(c) \/ Rejects(c) \/ Deadline(c)
  <2>1. call[c].pc \in {"sending", "reading"} /\ \E o \in Outcome : Settle(c, o)
    BY <1>4, EachOutcome DEF Body, Rejects, Deadline
  <2> QED BY <2>1, SettleIs DEF Settle
<1> QED BY <1>2, <1>3, <1>4 DEF CallStep

LEMMA CallsStep ==
  ASSUME CallInv, NEW c \in Client, CallStep(c)
  PROVE  CallInv'
<1>1. /\ elapsed' = elapsed /\ call' \in [Client -> CallState] /\ \A b \in Client \ {c} : call'[b] = call[b]
      /\ \/ Reads(call[c], call'[c]) \/ Settles(c, call[c], call'[c]) \/ Resumes(call[c], call'[c])
  BY CallSteps
<1>2. call[c] \in CallState /\ call'[c] \in CallState /\ Attempts[c] \in Nat
  BY <1>1, Constants DEF CallInv
<1>3. /\ Len(call'[c].tried) <= Attempts[c]
      /\ call'[c].pc = "waiting" => call'[c].wait <= MaxDelay
      /\ call'[c].since <= Limit(c)'
      /\ call'[c].pc \in {"waiting", "done"} => call'[c].tried # <<>>
      /\ c \in Region => call'[c].pc # "waiting"
      /\ \A i \in DOMAIN call'[c].tried :
           Ends(c, i, call'[c].tried[i]) <=> i = Len(call'[c].tried) /\ call'[c].pc = "done"
  <2>1. CASE Reads(call[c], call'[c])
    BY <1>2, <2>1 DEF Reads, CallInv, Limit
  <2>2. CASE Resumes(call[c], call'[c])
    BY <1>2, <2>2, Constants DEF Resumes, CallInv, Limit
  <2>3. CASE Settles(c, call[c], call'[c])
    <3> DEFINE old == call[c].tried
    <3>1. PICK o \in Outcome :
            /\ call'[c].tried = Append(old, o)
            /\ \/ call'[c].pc = "done" /\ Ends(c, Len(old) + 1, o)
               \/ call'[c].pc = "waiting" /\ call'[c].wait <= MaxDelay /\ ~Ends(c, Len(old) + 1, o)
      BY <2>3 DEF Settles
    <3>2. old \in Seq(Outcome) /\ Len(old) <= Attempts[c] /\ call[c].pc # "done" /\ call'[c].since = 0
      BY <1>2, <2>3 DEF CallInv, CallState, Settles
    <3>3. \A i \in DOMAIN old : ~Ends(c, i, old[i])
      BY <3>2 DEF CallInv
    <3> HIDE DEF old
    <3>4. Len(old) # Attempts[c]
      <4> SUFFICES ASSUME Len(old) = Attempts[c] PROVE FALSE
        OBVIOUS
      <4>1. Len(old) \in DOMAIN old
        BY <3>2, Constants
      <4> QED BY <3>3, <4>1 DEF Ends
    <3>5. /\ Len(call'[c].tried) = Len(old) + 1 /\ DOMAIN call'[c].tried = 1..Len(old) + 1 /\ DOMAIN old = 1..Len(old)
          /\ \A i \in DOMAIN old : call'[c].tried[i] = old[i]
          /\ call'[c].tried[Len(old) + 1] = o
      BY <3>1, <3>2
    <3>6. Len(call'[c].tried) <= Attempts[c] /\ call'[c].tried # <<>>
      BY <1>2, <3>2, <3>4, <3>5
    <3>7. call'[c].since <= Limit(c)'
      BY <1>2, <3>2, Constants DEF Limit, CallState
    <3>8. \A i \in DOMAIN call'[c].tried :
            Ends(c, i, call'[c].tried[i]) <=> i = Len(call'[c].tried) /\ call'[c].pc = "done"
      <4> SUFFICES ASSUME NEW i \in 1..Len(old) + 1
                   PROVE  Ends(c, i, call'[c].tried[i]) <=> i = Len(old) + 1 /\ call'[c].pc = "done"
        BY <3>5
      <4>1. CASE i = Len(old) + 1
        BY <3>1, <3>5, <4>1
      <4>2. CASE i \in DOMAIN old
        BY <3>2, <3>3, <3>5, <4>2
      <4> QED BY <3>2, <3>5, <4>1, <4>2
    <3>9. c \in Region => call'[c].pc # "waiting"
      <4>1. c \in Region => Attempts[c] = 1 /\ Len(old) + 1 = 1
        BY <3>2, <3>4, Constants
      <4> QED BY <3>1, <4>1 DEF Ends
    <3> QED BY <3>1, <3>6, <3>7, <3>8, <3>9
  <2> QED BY <1>1, <2>1, <2>2, <2>3
<1>4. \A b \in Client \ {c} : Limit(b)' = Limit(b)
  BY <1>1 DEF Limit
<1> HIDE DEF Limit
<1> QED BY <1>1, <1>3, <1>4 DEF CallInv

LEMMA TickStep ==
  ASSUME CallInv, Tick
  PROVE  /\ CallInv' /\ elapsed' = elapsed + 1
         /\ \A c \in Client : /\ call'[c].pc = call[c].pc /\ call'[c].tried = call[c].tried
                              /\ call[c].pc # "done"
                              /\ c \in UnderWay => call'[c].since = call[c].since + 1
<1>1. /\ call' \in [Client -> CallState] /\ elapsed' = elapsed + 1 /\ elapsed' \in Nat
      /\ \A c \in Client : call'[c] = IF c \in UnderWay THEN [call[c] EXCEPT !.since = @ + 1] ELSE call[c]
  <2>1. \A c \in Client : [call[c] EXCEPT !.since = @ + 1] \in CallState
    BY SMTT(30) DEF CallInv, CallState
  <2> QED BY <2>1 DEF Tick, CallInv
<1>2. ASSUME NEW c \in Client
      PROVE  /\ call'[c].pc = call[c].pc /\ call'[c].tried = call[c].tried /\ call'[c].wait = call[c].wait
             /\ call'[c].since = IF c \in UnderWay THEN call[c].since + 1 ELSE call[c].since
             /\ call'[c].since <= Limit(c)'
  <2>1. call[c] \in CallState /\ Limit(c) \in Nat /\ call[c].since <= Limit(c)
    BY Constants DEF CallInv, CallState, Limit
  <2>2. /\ call'[c].pc = call[c].pc /\ call'[c].tried = call[c].tried /\ call'[c].wait = call[c].wait
        /\ call'[c].since = IF c \in UnderWay THEN call[c].since + 1 ELSE call[c].since
    BY <1>1, <2>1 DEF CallState
  <2>3. Limit(c)' = Limit(c)
    BY <2>2 DEF Limit
  <2>4. c \in UnderWay => call[c].since # Limit(c)
    BY DEF Tick
  <2>5. call[c].since \in Nat
    BY <2>1 DEF CallState
  <2> HIDE DEF Limit
  <2> QED BY <2>1, <2>2, <2>3, <2>4, <2>5
<1> HIDE DEF Limit
<1>3. CallInv'
  BY <1>1, <1>2 DEF CallInv
<1> QED BY <1>1, <1>2, <1>3 DEF Tick

\* Calls that are begun anew or put away.
LEMMA FreshCalls ==
  ASSUME CallInv, elapsed' = elapsed, call' \in [Client -> CallState],
         \A c \in Client : call'[c] \in {call[c], NoCall, Sent}
  PROVE  CallInv'
<1>1. ASSUME NEW c \in Client
      PROVE  /\ Len(call'[c].tried) <= Attempts[c]
             /\ call'[c].pc = "waiting" => call'[c].wait <= MaxDelay
             /\ call'[c].since <= Limit(c)'
             /\ call'[c].pc \in {"waiting", "done"} => call'[c].tried # <<>>
             /\ c \in Region => call'[c].pc # "waiting"
             /\ \A i \in DOMAIN call'[c].tried :
                  Ends(c, i, call'[c].tried[i]) <=> i = Len(call'[c].tried) /\ call'[c].pc = "done"
  <2>1. CASE call'[c] = call[c]
    BY <2>1 DEF CallInv, Limit
  <2>2. CASE call'[c] \in {NoCall, Sent}
    BY <2>2, NewCalls, Constants DEF Limit
  <2> QED BY <1>1, <2>1, <2>2
<1> HIDE DEF Limit
<1> QED BY <1>1 DEF CallInv

-----------------------------------------------------------------------------
(* Walks *)

LEMMA FirstToken == NoWalk \in WalkState /\ NoWalk.pc = "walking" /\ NoWalk.pages = 0 /\ NoWalk.token.at = 0
                    /\ NoWalk.items = {} /\ NoToken \notin Token /\ NoToken \in [at : {0} \cup Item, n : Nat]
BY Constants DEF NoWalk, WalkState, Start, NoToken, Token

\* A page holds all that is there from the token as far as the next one, and the last
\* page all the rest; a token that was not given before has a number of its own.
LEMMA PageIs ==
  ASSUME ServiceInv, WalkInv, NEW r \in Region, walk[r].pc = "walking", NEW page \in Pages(r, walk[r])
  PROVE  /\ page.items \subseteq remote[r]
         /\ page.next = NoToken => \A i \in remote[r] : i > walk[r].token.at => i \in page.items
         /\ page.next # NoToken /\ page.next \notin walk[r].seen =>
              \A i \in remote[r] : i > walk[r].token.at /\ i <= page.next.at => i \in page.items
         /\ page.next \in Token \cup {NoToken}
<1> DEFINE w == walk[r]
           from == w.token.at
           ends == {from} \cup Behind(r, from)
           upTo(end) == Behind(r, from) \ Behind(r, end)
<1>1. /\ w \in WalkState /\ from \in {0} \cup Item /\ w.pages \in Nat /\ w.pages < MaxPages
      /\ w.seen \subseteq Token /\ remote[r] \subseteq Item /\ \A i \in remote[r] : i \in Nat
  BY Constants DEF WalkInv, WalkState, ServiceInv
<1>2. \A end \in ends : end \in {0} \cup Item /\ end \in Nat
  <2>1. Behind(r, from) \subseteq remote[r]
    BY DEF Behind
  <2> HIDE DEF from
  <2>2. \A end \in ends : end = from \/ end \in Item
    BY <1>1, <2>1
  <2>3. \A i \in {0} \cup Item : i \in Nat
    BY Constants
  <2> QED BY <1>1, <2>2, <2>3
<1>3. PICK end \in ends :
        /\ page.items = upTo(end)
        /\ \/ page.next = [at |-> end, n |-> w.pages + 1]
           \/ page.next = NoToken /\ Behind(r, end) = {}
           \/ page.next \in w.seen
  BY DEF Pages
<1>4. page.items = {i \in remote[r] : i > from /\ ~(i > end)}
  BY <1>3 DEF Behind
<1>5. CASE page.next = [at |-> end, n |-> w.pages + 1]
  <2>1. page.next \in Token /\ page.next.at = end
    BY <1>1, <1>2, <1>5, Constants DEF Token
  <2> QED BY <1>1, <1>2, <1>4, <2>1, FirstToken
<1>6. CASE page.next = NoToken /\ Behind(r, end) = {}
  <2>1. \A i \in remote[r] : ~(i > end)
    BY <1>6 DEF Behind
  <2> QED BY <1>4, <1>6, <2>1
<1>7. CASE page.next \in w.seen
  <2>1. page.next \in Token /\ page.next # NoToken
    BY <1>1, <1>7, FirstToken
  <2> QED BY <1>4, <1>7, <2>1
<1> QED BY <1>3, <1>5, <1>6, <1>7

\* What TakePage makes of a walk with a page.
TakesPage(old, page, new) ==
  /\ new.pages = old.pages + 1 /\ new.token = page.next /\ new.items = old.items \cup page.items
  /\ new.pc \in {"walking", "whole", "failed"}
  /\ new.pc = "whole" <=> page.next = NoToken
  /\ new.pc = "walking" <=> page.next # NoToken /\ old.pages + 1 < MaxPages /\ page.next \notin old.seen

LEMMA TakingIs ==
  ASSUME ServiceInv, WalkInv, call \in [Client -> CallState], NEW r \in Region, TakePage(r)
  PROVE  /\ walk' \in [Region -> WalkState] /\ \A s \in Region \ {r} : walk'[s] = walk[s]
         /\ call' \in [Client -> CallState] /\ \A c \in Client \ {r} : call'[c] = call[c]
         /\ call'[r] = IF walk'[r].pc = "walking" THEN Sent ELSE NoCall
         /\ \E page \in Pages(r, walk[r]) : TakesPage(walk[r], page, walk'[r])
<1> DEFINE w == walk[r]
           read(page) == [w EXCEPT !.pages = @ + 1, !.items = @ \cup page.items]
           pc(page) == AfterPage(read(page), page.next)
<1>1. PICK page \in Pages(r, w) :
        /\ walk' = [walk EXCEPT ![r] = [read(page) EXCEPT !.pc = pc(page), !.token = page.next,
                                          !.seen = IF pc(page) = "walking" THEN @ \cup {page.next} ELSE @]]
        /\ call' = [call EXCEPT ![r] = IF pc(page) = "walking" THEN Sent ELSE NoCall]
  BY DEF TakePage
<1>2. /\ w \in WalkState /\ w.pc = "walking" /\ w.pages \in Nat /\ w.pages < MaxPages /\ MaxPages \in Nat
      /\ walk \in [Region -> WalkState]
  BY Constants DEF WalkInv, WalkState, TakePage
<1>3. /\ page.items \subseteq Item /\ page.next \in Token \cup {NoToken} /\ page.next \in [at : {0} \cup Item, n : Nat]
  <2>1. Token \subseteq [at : {0} \cup Item, n : Nat]
    BY Constants DEF Token
  <2> QED BY <1>2, <2>1, PageIs, FirstToken DEF ServiceInv
<1> DEFINE pages == w.pages + 1
           items == w.items \cup page.items
<1>4. /\ read(page) \in WalkState /\ read(page).pages = pages /\ read(page).seen = w.seen /\ read(page).items = items
      /\ pages \in 0..MaxPages
  <2>1. pages \in 0..MaxPages /\ items \in SUBSET Item
    BY <1>2, <1>3 DEF WalkState
  <2> HIDE DEF pages, items
  <2>2. read(page) = [w EXCEPT !.pages = pages, !.items = items]
    BY DEF pages, items
  <2> QED BY <1>2, <2>1, <2>2 DEF WalkState
<1>5. /\ pc(page) = "whole" <=> page.next = NoToken
      /\ pc(page) = "walking" <=> page.next # NoToken /\ pages < MaxPages /\ page.next \notin w.seen
      /\ pc(page) \in {"walking", "whole", "failed"}
  BY <1>2, <1>4 DEF AfterPage
<1>6. pc(page) = "walking" => page.next \in Token
  BY <1>3, <1>5
<1> DEFINE p == pc(page)
           old == read(page)
           new == [old EXCEPT !.pc = p, !.token = page.next,
                              !.seen = IF p = "walking" THEN @ \cup {page.next} ELSE @]
<1>7. walk' = [walk EXCEPT ![r] = new] /\ call' = [call EXCEPT ![r] = IF p = "walking" THEN Sent ELSE NoCall]
  BY <1>1
<1> HIDE DEF p, old, pages, items
<1>8. new \in WalkState /\ new.pc = p /\ new.pages = pages /\ new.token = page.next /\ new.items = items
  BY <1>2, <1>3, <1>4, <1>5, <1>6 DEF WalkState, p, old
<1> HIDE DEF new
<1>9. TakesPage(w, page, new)
  BY <1>5, <1>8 DEF TakesPage, p, pages, items
<1>10. r \in Client
  BY Constants
<1>11. /\ walk' \in [Region -> WalkState] /\ walk'[r] = new /\ \A s \in Region \ {r} : walk'[s] = walk[s]
  BY <1>2, <1>7, <1>8
<1>12. /\ call' \in [Client -> CallState] /\ \A c \in Client \ {r} : call'[c] = call[c]
       /\ call'[r] = IF p = "walking" THEN Sent ELSE NoCall
  BY <1>7, <1>10, NewCalls
<1> QED BY <1>8, <1>9, <1>11, <1>12

-----------------------------------------------------------------------------
(* The service, the calls and the walks together *)

\* A step of the sweep is none of the service, and the other way about.
LEMMA StepsAre ==
  ASSUME [Next]_vars
  PROVE  \/ Time /\ UNCHANGED service
         \/ (\E c \in Client : Call(c)) /\ UNCHANGED service
         \/ Assumed /\ UNCHANGED service
         \/ Collected /\ UNCHANGED service
         \/ (\E r \in Region : TakePage(r)) /\ UNCHANGED service
         \/ (\E r \in Region : PageFails(r)) /\ UNCHANGED service
         \/ \E r \in Region, i \in Item : Change(r, i)
         \/ UNCHANGED vars
<1>1. CASE Time \/ (\E c \in Client : Call(c)) \/ Assumed \/ Collected
  BY <1>1 DEF Time, Call, Assumed, Collected
<1>2. CASE \E r \in Region : Take(r)
  BY <1>2 DEF Take, TakePage, PageFails
<1> QED BY <1>1, <1>2 DEF Next

LEMMA ServiceStep ==
  ASSUME ServiceInv, [Next]_vars
  PROVE  ServiceInv' /\ \A r \in Region : ever[r] \subseteq ever'[r] /\ stable'[r] \subseteq stable[r]
<1>1. CASE UNCHANGED service \/ UNCHANGED vars
  BY <1>1 DEF service, vars, ServiceInv
<1>2. ASSUME NEW r \in Region, NEW i \in Item, Change(r, i)
      PROVE  ServiceInv' /\ \A s \in Region : ever[s] \subseteq ever'[s] /\ stable'[s] \subseteq stable[s]
  <2>1. /\ remote' \in [Region -> SUBSET Item] /\ stable' \in [Region -> SUBSET Item] /\ ever' \in [Region -> SUBSET Item]
        /\ \A s \in Region : /\ remote'[s] = IF s = r THEN (remote[s] \cup {i}) \ (remote[s] \cap {i}) ELSE remote[s]
                             /\ stable'[s] = IF s = r THEN stable[s] \ {i} ELSE stable[s]
                             /\ ever'[s] = IF s = r THEN ever[s] \cup {i} ELSE ever[s]
    BY <1>2 DEF Change, ServiceInv
  <2> QED BY <2>1 DEF ServiceInv
<1> QED BY <1>1, <1>2, StepsAre

\* What may change of the walks without a page.
LEMMA WalksKept ==
  ASSUME WalkInv, ServiceInv, [Next]_vars, walk' = walk, phase' = phase, result' = result,
         \A c \in Client : (call[c].pc = "idle" <=> call'[c].pc = "idle") /\ (call[c].pc = "done" => call'[c].pc = "done"),
         phase \in {"over", "thrown"} => \A c \in Client : call'[c].pc \in {"idle", "done"}
  PROVE  WalkInv'
BY ServiceStep, Constants DEF WalkInv

LEMMA WalkStep ==
  ASSUME CallInv, ServiceInv, WalkInv, [Next]_vars
  PROVE  CallInv' /\ WalkInv'
<1>0. \A r \in Region : ever[r] \subseteq ever'[r] /\ stable'[r] \subseteq stable[r]
  BY ServiceStep
<1>1. CASE Time
  BY <1>1, TickStep, WalksKept DEF Time, WalkInv
<1>2. ASSUME NEW c \in Client, Call(c)
      PROVE  CallInv' /\ WalkInv'
  <2>1. CallInv' /\ UNCHANGED <<walk, phase, result>>
    BY <1>2, CallsStep DEF Call
  <2>2. /\ \A b \in Client \ {c} : call'[b] = call[b]
        /\ Reads(call[c], call'[c]) \/ Settles(c, call[c], call'[c]) \/ Resumes(call[c], call'[c])
    BY <1>2, CallSteps DEF Call
  <2>3. call[c].pc \in {"sending", "reading", "waiting"} /\ call'[c].pc # "idle"
    BY <2>2 DEF Reads, Settles, Resumes
  <2>4. phase \notin {"over", "thrown"}
    BY <2>3 DEF WalkInv
  <2> QED BY <2>1, <2>2, <2>3, <2>4, WalksKept
<1>3. CASE Assumed
  <2>1. CASE phase' = "sweep" /\ call' = [c \in Client |-> IF c = Sts THEN NoCall ELSE Sent]
    <3>1. /\ call' \in [Client -> CallState] /\ call'[Sts].pc = "idle" /\ \A r \in Region : call'[r].pc = "sending"
          /\ \A c \in Client : call'[c] \in {NoCall, Sent}
      BY <2>1, NewCalls, Constants
    <3>2. CallInv'
      BY <1>3, <3>1, FreshCalls DEF Assumed
    <3>3. walk' = walk /\ result' = result /\ \A r \in Region : walk[r].pc = "walking"
      BY <1>3 DEF Assumed, WalkInv
    <3> QED BY <1>0, <2>1, <3>1, <3>2, <3>3 DEF WalkInv
  <2>2. CASE phase' = "thrown" /\ UNCHANGED call
    <3>1. CallInv' /\ walk' = walk /\ result' = result
      BY <1>3, <2>2 DEF Assumed, CallInv, Limit
    <3>2. \A c \in Client : call'[c].pc \in {"idle", "done"}
      BY <1>3, <2>2, Constants DEF Assumed, WalkInv
    <3> QED BY <1>0, <2>2, <3>1, <3>2 DEF WalkInv
  <2> QED BY <1>3, <2>1, <2>2 DEF Assumed
<1>4. CASE Collected
  <2>1. /\ CallInv' /\ walk' = walk /\ phase = "sweep" /\ phase' \in {"over", "thrown"} /\ call' = call
        /\ \A r \in Region : walk[r].pc # "walking"
    BY <1>4 DEF Collected, CallInv, Limit
  <2>2. \A c \in Client : call'[c].pc = "idle"
    BY <2>1, Constants DEF WalkInv
  <2>3. result' \in [succeeded : SUBSET Region, failed : SUBSET Region, items : SUBSET (Region \X Item)]
    BY <1>4 DEF Collected, WalkInv
  <2> QED BY <1>0, <2>1, <2>2, <2>3 DEF WalkInv
<1>5. ASSUME NEW r \in Region, TakePage(r)
      PROVE  CallInv' /\ WalkInv'
  <2>1. /\ phase = "sweep" /\ phase' = phase /\ result' = result /\ elapsed' = elapsed
        /\ walk[r].pc = "walking" /\ r \in Client /\ r # Sts /\ Sts \in Client
    BY <1>5, Constants DEF TakePage
  <2>2. /\ walk' \in [Region -> WalkState] /\ \A s \in Region \ {r} : walk'[s] = walk[s]
        /\ call' \in [Client -> CallState] /\ \A c \in Client \ {r} : call'[c] = call[c]
        /\ call'[r] = IF walk'[r].pc = "walking" THEN Sent ELSE NoCall
        /\ \E page \in Pages(r, walk[r]) : TakesPage(walk[r], page, walk'[r])
    BY <1>5, TakingIs DEF CallInv
  <2>3. CallInv'
    BY <2>1, <2>2, FreshCalls
  <2>4. PICK page \in Pages(r, walk[r]) : TakesPage(walk[r], page, walk'[r])
    BY <2>2
  <2>5. /\ page.items \subseteq remote[r]
        /\ page.next # NoToken /\ page.next \notin walk[r].seen =>
             \A i \in remote[r] : i > walk[r].token.at /\ i <= page.next.at => i \in page.items
    BY <2>1, <2>4, PageIs
  <2>6. walk'[r].items \subseteq ever'[r]
    BY <1>0, <2>4, <2>5 DEF TakesPage, ServiceInv, WalkInv
  <2>7. ASSUME walk'[r].pc = "walking"
        PROVE  walk'[r].pages < MaxPages /\ {i \in stable'[r] : i <= walk'[r].token.at} \subseteq walk'[r].items
    <3>1. /\ walk'[r].pages < MaxPages /\ walk'[r].token = page.next /\ walk'[r].items = walk[r].items \cup page.items
          /\ page.next # NoToken /\ page.next \notin walk[r].seen
      BY <2>4, <2>7 DEF TakesPage
    <3>2. ASSUME NEW i \in stable'[r], i <= page.next.at
          PROVE  i \in walk[r].items \cup page.items
      <4>1. i \in stable[r] /\ i \in remote[r] /\ i \in Nat /\ walk[r].token.at \in Nat
        <5>1. i \in stable[r] /\ stable[r] \subseteq remote[r] /\ remote[r] \subseteq Item
          BY <1>0 DEF ServiceInv
        <5>2. walk[r].token.at \in {0} \cup Item
          BY DEF WalkInv, WalkState
        <5>3. \A j \in {0} \cup Item : j \in Nat
          BY Constants
        <5> QED BY <5>1, <5>2, <5>3
      <4>2. CASE i <= walk[r].token.at
        BY <2>1, <4>1, <4>2 DEF WalkInv
      <4>3. CASE i > walk[r].token.at
        BY <2>5, <3>1, <3>2, <4>1, <4>3
      <4> QED BY <4>1, <4>2, <4>3
    <3> QED BY <3>1, <3>2
  <2>8. \A s \in Region : walk'[s].pc = "walking" <=> call'[s].pc # "idle"
    <3>1. walk'[r].pc = "walking" <=> call'[r].pc # "idle"
      BY <2>2, NewCalls
    <3> QED BY <2>1, <2>2, <3>1, Constants DEF WalkInv
  <2>9. ASSUME NEW s \in Region
        PROVE  /\ walk'[s].items \subseteq ever'[s]
               /\ walk'[s].pc = "walking" => /\ walk'[s].pages < MaxPages
                                             /\ {i \in stable'[s] : i <= walk'[s].token.at} \subseteq walk'[s].items
    <3>1. CASE s = r
      BY <2>6, <2>7, <3>1
    <3>2. CASE s # r
      BY <1>0, <2>2, <3>2 DEF WalkInv
    <3> QED BY <3>1, <3>2
  <2>10. call'[Sts].pc = "idle"
    BY <2>1, <2>2 DEF WalkInv
  <2> QED BY <2>1, <2>2, <2>3, <2>8, <2>9, <2>10 DEF WalkInv
<1>6. ASSUME NEW r \in Region, PageFails(r)
      PROVE  CallInv' /\ WalkInv'
  <2>1. /\ phase = "sweep" /\ phase' = phase /\ result' = result /\ elapsed' = elapsed
        /\ r \in Client /\ r # Sts /\ Sts \in Client
    BY <1>6, Constants DEF PageFails
  <2>2. /\ walk' \in [Region -> WalkState] /\ \A s \in Region \ {r} : walk'[s] = walk[s]
        /\ walk'[r].pc = "failed" /\ walk'[r].items = walk[r].items
    BY <1>6 DEF PageFails, WalkInv, WalkState
  <2>3. /\ call' \in [Client -> CallState] /\ \A c \in Client \ {r} : call'[c] = call[c]
        /\ call'[r] = NoCall
    BY <1>6, <2>1, NewCalls DEF PageFails, CallInv
  <2>4. CallInv'
    BY <2>1, <2>3, FreshCalls
  <2>5. \A s \in Region : walk'[s].pc = "walking" <=> call'[s].pc # "idle"
    BY <2>1, <2>2, <2>3, NewCalls, Constants DEF WalkInv
  <2> QED BY <1>0, <2>1, <2>2, <2>3, <2>4, <2>5 DEF WalkInv
<1>7. ASSUME NEW r \in Region, NEW i \in Item, Change(r, i)
      PROVE  CallInv' /\ WalkInv'
  <2>1. CallInv' /\ UNCHANGED <<call, walk, phase, result>>
    BY <1>7 DEF Change, CallInv, Limit
  <2> QED BY <2>1, WalksKept DEF WalkInv
<1>8. CASE UNCHANGED vars
  <2>1. CallInv' /\ UNCHANGED <<call, walk, phase, result>>
    BY <1>8 DEF vars, CallInv, Limit
  <2> QED BY <2>1, WalksKept DEF WalkInv
<1> QED BY <1>1, <1>2, <1>3, <1>4, <1>5, <1>6, <1>7, <1>8, StepsAre

-----------------------------------------------------------------------------
(* Time *)

LEMMA Products ==
  ASSUME NEW k \in Nat, NEW m \in Nat, NEW u \in Nat
  PROVE  k * u \in Nat /\ (k + 1) * u = k * u + u /\ (k <= m => k * u <= m * u) /\ 0 * u = 0
<1>1. k * u \in Nat /\ (k + 1) * u = k * u + u /\ 0 * u = 0
  OBVIOUS
<1>2. ASSUME k <= m PROVE k * u <= m * u
  <2>1. PICK n \in Nat : m = k + n
    <3>1. m - k \in Nat /\ m = k + (m - k)
      BY <1>2
    <3> QED BY <3>1
  <2>2. m * u = k * u + n * u /\ n * u \in Nat /\ k * u \in Nat
    BY <2>1
  <2> QED BY <2>2
<1> QED BY <1>1, <1>2

LEMMA Spending ==
  ASSUME NEW k \in Nat, NEW m \in Nat
  PROVE  /\ Attempted(k) \in Int /\ Waited(k) \in Int /\ Paged(k) \in Nat /\ Paged(0) = 0
         /\ Attempted(k + 1) = Waited(k) + Timeout /\ Waited(k) = Attempted(k) + MaxDelay
         /\ Paged(k + 1) = Paged(k) + Timeout
         /\ k <= m => Attempted(k) <= Attempted(m) /\ Paged(k) <= Paged(m)
<1>1. Timeout \in Nat /\ MaxDelay \in Nat
  BY Constants
<1>2. /\ k * Timeout \in Nat /\ (k + 1) * Timeout = k * Timeout + Timeout /\ (k <= m => k * Timeout <= m * Timeout)
      /\ 0 * Timeout = 0
  BY <1>1, Products
<1>3. /\ k * MaxDelay \in Nat /\ (k <= m => k * MaxDelay <= m * MaxDelay)
      /\ m * Timeout \in Nat /\ m * MaxDelay \in Nat
  BY <1>1, Products
<1>4. (k - 1) * MaxDelay = k * MaxDelay - MaxDelay /\ (m - 1) * MaxDelay = m * MaxDelay - MaxDelay
  BY <1>1
<1>5. (k + 1) - 1 = k
  OBVIOUS
<1>6. /\ Attempted(k) = k * Timeout + k * MaxDelay - MaxDelay /\ Attempted(m) = m * Timeout + m * MaxDelay - MaxDelay
      /\ Attempted(k + 1) = k * Timeout + Timeout + k * MaxDelay
  BY <1>1, <1>2, <1>3, <1>4, <1>5 DEF Attempted
<1>7. Attempted(k) \in Int /\ Waited(k) \in Int /\ Paged(k) \in Nat /\ Paged(0) = 0 /\ Paged(k + 1) = Paged(k) + Timeout
  BY <1>1, <1>2, <1>3, <1>6 DEF Waited, Paged
<1>8. Attempted(k + 1) = Waited(k) + Timeout /\ Waited(k) = Attempted(k) + MaxDelay
  BY <1>1, <1>2, <1>3, <1>6 DEF Waited
<1>9. k <= m => Attempted(k) <= Attempted(m) /\ Paged(k) <= Paged(m)
  BY <1>1, <1>2, <1>3, <1>6 DEF Paged
<1> QED BY <1>7, <1>8, <1>9

\* A call that is not done has an attempt left.
LEMMA AttemptsLeft ==
  ASSUME CallInv, NEW c \in Client
  PROVE  /\ Len(call[c].tried) \in Nat /\ Len(call[c].tried) <= Attempts[c] /\ Attempts[c] \in Nat \ {0}
         /\ call[c].since \in Nat /\ call[c].since <= Limit(c)
         /\ call[c].pc # "done" => Len(call[c].tried) + 1 <= Attempts[c]
<1> DEFINE tried == call[c].tried
<1>1. /\ tried \in Seq(Outcome) /\ Len(tried) <= Attempts[c] /\ Attempts[c] \in Nat \ {0} /\ call[c].since \in Nat
      /\ call[c].since <= Limit(c)
  BY Constants DEF CallInv, CallState
<1>2. \A i \in DOMAIN tried : i = Attempts[c] => call[c].pc = "done"
  BY DEF CallInv, Ends
<1> HIDE DEF tried
<1>3. Len(tried) = Attempts[c] => Len(tried) \in DOMAIN tried
  BY <1>1
<1>4. call[c].pc # "done" => Len(tried) # Attempts[c]
  BY <1>2, <1>3
<1> QED BY <1>1, <1>4 DEF tried

LEMMA RoleTime == Role \in Nat /\ Sts \in Client /\ Paged(MaxPages) \in Nat /\ Timeout \in Nat /\ MaxDelay \in Nat
<1>1. Sts \in Client /\ Attempts[Sts] \in Nat \ {0} /\ MaxPages \in Nat /\ Timeout \in Nat /\ MaxDelay \in Nat
  BY Constants
<1>2. Attempted(1) = Timeout
  BY <1>1 DEF Attempted
<1>3. Attempted(1) <= Attempted(Attempts[Sts]) /\ Attempted(Attempts[Sts]) \in Int
  BY SMTT(30), <1>1, Spending
<1>4. Paged(MaxPages) \in Nat
  BY <1>1, Spending
<1> HIDE DEF Attempted
<1> QED BY <1>1, <1>2, <1>3, <1>4 DEF Role

LEMMA CallsInTime ==
  ASSUME CallInv, WalkInv, TimeInv, CallInv', NEW c \in Client, Call(c)
  PROVE  TimeInv'
<1>1. /\ elapsed' = elapsed /\ \A b \in Client \ {c} : call'[b] = call[b]
      /\ \/ Reads(call[c], call'[c]) \/ Settles(c, call[c], call'[c]) \/ Resumes(call[c], call'[c])
      /\ UNCHANGED <<walk, phase>>
  BY CallSteps DEF Call
<1>2. /\ Len(call[c].tried) \in Nat /\ call[c].since \in Nat /\ call[c].since <= Limit(c)
      /\ call[c].tried \in Seq(Outcome) /\ call[c].pc \notin {"idle", "done"}
  BY <1>1, AttemptsLeft DEF CallInv, CallState, Reads, Settles, Resumes
<1>3. Role \in Nat /\ Sts \in Client /\ Timeout \in Nat /\ MaxDelay \in Nat /\ elapsed \in Nat
  BY RoleTime DEF CallInv
<1>4. ASSUME phase = "assume"
      PROVE  LET role == call'[Sts]
                 k == Len(role.tried) IN
             \/ role.pc \in {"sending", "reading"} /\ elapsed <= Waited(k) + role.since
             \/ role.pc = "waiting" /\ elapsed <= Attempted(k) + role.since
             \/ role.pc = "done" /\ elapsed <= Attempted(k)
  <2> DEFINE k == Len(call[Sts].tried)
  <2>1. c = Sts
    BY <1>2, <1>4, Constants DEF WalkInv
  <2>2. /\ Attempted(k) \in Int /\ Waited(k) \in Int /\ Attempted(k + 1) = Waited(k) + Timeout
        /\ Waited(k) = Attempted(k) + MaxDelay /\ Attempted(k + 1) \in Int
    <3>1. k \in Nat
      BY <1>2, <2>1
    <3> HIDE DEF k
    <3>2. /\ Attempted(k) \in Int /\ Waited(k) \in Int /\ Attempted(k + 1) = Waited(k) + Timeout
          /\ Waited(k) = Attempted(k) + MaxDelay
      BY <3>1, Spending
    <3>3. k + 1 \in Nat
      BY <3>1
    <3>4. Attempted(k + 1) \in Int
      BY <3>3, Spending
    <3> QED BY <3>2, <3>4
  <2>3. /\ call[c].pc \in {"sending", "reading"} => elapsed <= Waited(k) + call[c].since
        /\ call[c].pc = "waiting" => elapsed <= Attempted(k) + call[c].since
    BY <1>4, <2>1 DEF TimeInv
  <2>4. CASE Reads(call[c], call'[c])
    BY <1>2, <2>1, <2>3, <2>4 DEF Reads
  <2>5. CASE Settles(c, call[c], call'[c])
    <3>1. call[c].pc \in {"sending", "reading"} /\ call[c].since <= Timeout
      BY <1>2, <2>5 DEF Settles, Limit
    <3>2. call'[c].pc \in {"waiting", "done"} /\ call'[c].since = 0 /\ Len(call'[c].tried) = k + 1
      BY <1>2, <2>1, <2>5 DEF Settles
    <3>3. elapsed <= Attempted(k + 1)
      BY <1>2, <1>3, <2>2, <2>3, <3>1
    <3> QED BY <2>1, <2>2, <3>2, <3>3
  <2>6. CASE Resumes(call[c], call'[c])
    <3>1. call[c].pc = "waiting" /\ call[c].since <= MaxDelay /\ call'[c].since = 0
      BY <1>2, <2>6 DEF Resumes, CallInv
    <3>2. elapsed <= Waited(k)
      BY <1>2, <1>3, <2>2, <2>3, <3>1
    <3> QED BY <2>1, <2>2, <2>6, <3>1, <3>2 DEF Resumes
  <2> QED BY <1>1, <2>4, <2>5, <2>6
<1>5. ASSUME phase = "sweep", NEW r \in Region, walk[r].pc = "walking"
      PROVE  elapsed <= Role + Paged(walk[r].pages) + (IF call'[r].pc = "done" THEN Timeout ELSE call'[r].since)
  <2>1. elapsed <= Role + Paged(walk[r].pages) + (IF call[r].pc = "done" THEN Timeout ELSE call[r].since)
    BY <1>5 DEF TimeInv
  <2>2. CASE r # c
    BY <1>1, <1>5, <2>1, <2>2, Constants
  <2>3. CASE r = c
    <3>1. Paged(walk[r].pages) \in Nat
      BY Spending DEF WalkInv, WalkState
    <3>2. CASE Reads(call[c], call'[c])
      BY <1>2, <2>1, <2>3, <3>2 DEF Reads
    <3>3. CASE Settles(c, call[c], call'[c])
      <4>1. call[c].pc \in {"sending", "reading"} /\ call[c].since <= Timeout
        BY <1>2, <3>3 DEF Settles, Limit
      <4>2. call'[c].pc = "done"
        BY <2>3, <3>3 DEF Settles, CallInv
      <4> QED BY <1>2, <1>3, <2>1, <2>3, <3>1, <4>1, <4>2
    <3>4. CASE Resumes(call[c], call'[c])
      BY <2>3, <3>4 DEF Resumes, CallInv
    <3> QED BY <1>1, <3>2, <3>3, <3>4
  <2> QED BY <2>2, <2>3
<1> QED BY <1>1, <1>4, <1>5 DEF TimeInv

LEMMA TicksInTime ==
  ASSUME CallInv, WalkInv, TimeInv, CallInv', Time
  PROVE  TimeInv'
<1>1. /\ elapsed' = elapsed + 1 /\ elapsed \in Nat /\ UNCHANGED <<walk, phase>>
      /\ \A c \in Client : /\ call'[c].pc = call[c].pc /\ call'[c].tried = call[c].tried
                           /\ call[c].pc # "done"
                           /\ c \in UnderWay => call'[c].since = call[c].since + 1
  BY TickStep DEF Time, CallInv
<1>2. /\ Role \in Nat /\ Sts \in Client /\ Timeout \in Nat /\ MaxDelay \in Nat /\ Paged(MaxPages) \in Nat
      /\ MaxPages \in Nat
  BY RoleTime, Constants
<1>3. \A c \in Client : /\ call'[c].since \in Nat /\ call'[c].since <= Limit(c)'
                        /\ call[c].since \in Nat
                        /\ call[c].pc \in {"sending", "reading", "waiting"} => call'[c].since = call[c].since + 1
  BY <1>1, AttemptsLeft DEF CallInv, CallState, UnderWay
<1>4. PICK c \in Client : call[c].pc \in {"sending", "reading", "waiting"}
  BY DEF Time, Tick, UnderWay
<1>5. CASE phase = "assume"
  <2> DEFINE k == Len(call[Sts].tried)
  <2>1. c = Sts
    BY <1>4, <1>5, Constants DEF WalkInv
  <2>2. k \in Nat /\ k + 1 <= Attempts[Sts] /\ Attempts[Sts] \in Nat
    BY <1>4, <2>1, AttemptsLeft
  <2> HIDE DEF k
  <2>3. /\ Attempted(k) \in Int /\ Waited(k) \in Int /\ Attempted(k + 1) = Waited(k) + Timeout
        /\ Waited(k) = Attempted(k) + MaxDelay /\ Attempted(k + 1) <= Role
    <3>1. k + 1 \in Nat
      BY <2>2
    <3> QED BY <2>2, <3>1, Spending DEF Role
  <2>4. CASE call[Sts].pc \in {"sending", "reading"}
    <3>1. elapsed' <= Waited(k) + call'[Sts].since
      <4>1. elapsed <= Waited(k) + call[Sts].since
        BY <1>5, <2>4 DEF TimeInv, k
      <4>2. call'[Sts].since = call[Sts].since + 1 /\ call[Sts].since \in Nat
        BY <1>2, <1>3, <2>4
      <4> QED BY <1>1, <2>3, <4>1, <4>2
    <3>2. call'[Sts].since <= Timeout
      BY <1>1, <1>2, <1>3, <2>4 DEF Limit
    <3>3. elapsed' <= Role + Paged(MaxPages)
      BY <1>1, <1>2, <1>3, <2>3, <3>1, <3>2
    <3> QED BY <1>1, <1>2, <1>5, <2>4, <3>1, <3>3 DEF TimeInv, k
  <2>5. CASE call[Sts].pc = "waiting"
    <3>1. elapsed' <= Attempted(k) + call'[Sts].since
      <4>1. elapsed <= Attempted(k) + call[Sts].since
        BY <1>5, <2>5 DEF TimeInv, k
      <4>2. call'[Sts].since = call[Sts].since + 1 /\ call[Sts].since \in Nat
        BY <1>2, <1>3, <2>5
      <4> QED BY <1>1, <2>3, <4>1, <4>2
    <3>2. call'[Sts].since <= MaxDelay
      <4>1. call'[Sts].since <= call'[Sts].wait /\ call'[Sts].wait <= MaxDelay /\ call'[Sts].wait \in Nat
        BY <1>1, <1>2, <1>3, <2>5 DEF Limit, CallInv, CallState
      <4> QED BY <1>2, <1>3, <4>1
    <3>3. elapsed' <= Role + Paged(MaxPages)
      BY <1>1, <1>2, <1>3, <2>3, <3>1, <3>2
    <3> QED BY <1>1, <1>2, <1>5, <2>5, <3>1, <3>3 DEF TimeInv, k
  <2> QED BY <1>4, <2>1, <2>4, <2>5
<1>6. CASE phase = "sweep"
  <2>1. ASSUME NEW r \in Region, walk[r].pc = "walking"
        PROVE  elapsed' <= Role + Paged(walk[r].pages) + call'[r].since /\ call'[r].since <= Timeout
    <3>1. r \in Client /\ call[r].pc \in {"sending", "reading"}
      <4>1. r \in Client
        BY Constants
      <4>2. call[r].pc \notin {"idle", "done", "waiting"} /\ call[r] \in CallState
        BY <1>1, <1>6, <2>1, <4>1 DEF WalkInv, CallInv
      <4> QED BY <4>1, <4>2 DEF CallState
    <3>2. call'[r].since = call[r].since + 1 /\ call[r].since \in Nat /\ call'[r].since <= Timeout
      BY <1>1, <1>3, <3>1 DEF Limit
    <3>3. elapsed <= Role + Paged(walk[r].pages) + call[r].since
      BY <1>6, <2>1, <3>1 DEF TimeInv
    <3>4. Paged(walk[r].pages) \in Nat
      BY Spending DEF WalkInv, WalkState
    <3> QED BY <1>1, <1>2, <3>2, <3>3, <3>4
  <2>2. c \in Region /\ walk[c].pc = "walking"
    BY <1>4, <1>6, Constants DEF WalkInv
  <2>3. walk[c].pages \in Nat /\ walk[c].pages + 1 <= MaxPages
    BY <1>2, <2>2 DEF WalkInv, WalkState
  <2>4. Paged(walk[c].pages) \in Nat /\ Paged(walk[c].pages) + Timeout <= Paged(MaxPages)
    <3> DEFINE n == walk[c].pages
    <3> HIDE DEF n
    <3>1. n \in Nat /\ n + 1 \in Nat /\ n + 1 <= MaxPages
      BY <2>3 DEF n
    <3>2. Paged(n) \in Nat /\ Paged(n + 1) = Paged(n) + Timeout /\ Paged(n + 1) <= Paged(MaxPages)
      BY <1>2, <3>1, Spending
    <3> QED BY <3>2 DEF n
  <2>5. elapsed' <= Role + Paged(MaxPages)
    BY <1>1, <1>2, <1>3, <2>1, <2>2, <2>4
  <2>6. \A r \in Region : walk[r].pc = "walking" => call'[r].pc # "done"
    BY <1>1, Constants
  <2> QED BY <1>1, <1>6, <2>1, <2>5, <2>6 DEF TimeInv
<1>7. phase \notin {"over", "thrown"}
  BY <1>4 DEF WalkInv
<1> QED BY <1>5, <1>6, <1>7 DEF WalkInv

LEMMA TimeStep ==
  ASSUME CallInv, ServiceInv, WalkInv, TimeInv, CallInv', [Next]_vars
  PROVE  TimeInv'
<1>1. /\ Role \in Nat /\ Sts \in Client /\ Timeout \in Nat /\ elapsed \in Nat /\ Paged(MaxPages) \in Nat
      /\ Paged(0) = 0 /\ Attempts[Sts] \in Nat
  BY RoleTime, Spending, Constants DEF CallInv
<1>2. ASSUME NEW c \in Client, Call(c)
      PROVE  TimeInv'
  BY <1>2, CallsInTime
<1>3. CASE Assumed
  <2> DEFINE k == Len(call[Sts].tried)
  <2>1. elapsed <= Role
    <3>1. elapsed <= Attempted(k)
      BY <1>3 DEF Assumed, TimeInv
    <3>2. k \in Nat /\ k <= Attempts[Sts]
      BY <1>1, AttemptsLeft
    <3> HIDE DEF k
    <3>3. Attempted(k) <= Role /\ Attempted(k) \in Int
      BY <1>1, <3>2, Spending DEF Role
    <3> QED BY <1>1, <3>1, <3>3
  <2>2. CASE phase' = "sweep" /\ call' = [c \in Client |-> IF c = Sts THEN NoCall ELSE Sent]
    <3>1. ASSUME NEW r \in Region
          PROVE  call'[r].pc # "done" /\ call'[r].since = 0 /\ walk'[r].pages = 0
      BY <1>3, <2>2, NewCalls, Constants DEF Assumed, WalkInv
    <3>2. elapsed' = elapsed
      BY <1>3 DEF Assumed
    <3>3. \A r \in Region : Role + Paged(walk'[r].pages) + call'[r].since = Role
      BY <1>1, <3>1
    <3> QED BY <1>1, <2>1, <2>2, <3>1, <3>2, <3>3 DEF TimeInv
  <2>3. CASE phase' = "thrown"
    BY <1>1, <1>3, <2>1, <2>3 DEF Assumed, TimeInv
  <2> QED BY <1>3, <2>2, <2>3 DEF Assumed
<1>4. CASE Collected
  BY <1>4 DEF Collected, TimeInv
<1>5. ASSUME NEW r \in Region, TakePage(r)
      PROVE  TimeInv'
  <2>1. /\ phase = "sweep" /\ phase' = phase /\ elapsed' = elapsed /\ walk[r].pc = "walking" /\ call[r].pc = "done"
    BY <1>5 DEF TakePage
  <2>2. /\ \A s \in Region \ {r} : walk'[s] = walk[s]
        /\ \A c \in Client \ {r} : call'[c] = call[c]
        /\ call'[r] = IF walk'[r].pc = "walking" THEN Sent ELSE NoCall
        /\ walk'[r].pages = walk[r].pages + 1
    BY <1>5, TakingIs DEF CallInv, TakesPage
  <2>3. walk[r].pages \in Nat /\ Paged(walk[r].pages + 1) = Paged(walk[r].pages) + Timeout /\ Paged(walk[r].pages) \in Nat
    <3>1. walk[r].pages \in Nat
      BY Constants DEF WalkInv, WalkState
    <3> QED BY <3>1, Spending
  <2>4. elapsed <= Role + Paged(walk[r].pages) + Timeout
    BY <2>1 DEF TimeInv
  <2>5. walk'[r].pc = "walking" => call'[r].pc # "done" /\ call'[r].since = 0
    BY <2>2, NewCalls
  <2>6. ASSUME NEW s \in Region, walk'[s].pc = "walking"
        PROVE  elapsed' <= Role + Paged(walk'[s].pages) + (IF call'[s].pc = "done" THEN Timeout ELSE call'[s].since)
    <3>1. CASE s = r
      <4>1. Role + Paged(walk'[r].pages) + call'[r].since = Role + Paged(walk[r].pages) + Timeout
        BY <1>1, <2>2, <2>3, <2>5, <2>6, <3>1
      <4> QED BY <2>1, <2>4, <2>5, <2>6, <3>1, <4>1
    <3>2. CASE s # r
      BY <2>1, <2>2, <2>6, <3>2, Constants DEF TimeInv
    <3> QED BY <3>1, <3>2
  <2> QED BY <2>1, <2>6 DEF TimeInv
<1>6. ASSUME NEW r \in Region, PageFails(r)
      PROVE  TimeInv'
  <2>1. /\ phase = "sweep" /\ phase' = phase /\ elapsed' = elapsed
        /\ \A s \in Region \ {r} : walk'[s] = walk[s] /\ call'[s] = call[s]
        /\ walk'[r].pc = "failed"
    BY <1>6, Constants DEF PageFails, WalkInv, WalkState, CallInv
  <2> QED BY <2>1 DEF TimeInv
<1>7. CASE UNCHANGED vars \/ \E r \in Region, i \in Item : Change(r, i)
  BY <1>7 DEF vars, Change, TimeInv
<1> QED BY <1>2, <1>3, <1>4, <1>5, <1>6, <1>7, StepsAre, TicksInTime

-----------------------------------------------------------------------------
(* The invariant *)

LEMMA InitInv ==
  ASSUME Init
  PROVE  Inv
<1>1. /\ call \in [Client -> CallState] /\ call[Sts] = Sent /\ Sts \in Client
      /\ \A c \in Client : call[c] \in {NoCall, Sent} /\ (c # Sts => call[c] = NoCall)
  BY NewCalls, Constants DEF Init
<1>2. CallInv
  <2>1. \A c \in Client : /\ call[c].tried = <<>> /\ call[c].since = 0
                          /\ call[c].pc \in {"idle", "sending"} /\ Limit(c) = Timeout
                          /\ Len(call[c].tried) = 0 /\ DOMAIN call[c].tried = {}
    BY <1>1, NewCalls DEF Limit
  <2> HIDE DEF Limit
  <2>2. \A c \in Client : Attempts[c] \in Nat /\ Timeout \in Nat
    BY Constants
  <2>3. elapsed \in Nat
    BY DEF Init
  <2> QED BY <1>1, <2>1, <2>2, <2>3 DEF CallInv
<1>3. ServiceInv
  BY SweepAssumption DEF Init, ServiceInv
<1>4. WalkInv
  <2>1. walk \in [Region -> WalkState] /\ \A r \in Region : walk[r] = NoWalk
    BY FirstToken DEF Init
  <2>2. \A r \in Region : {i \in stable[r] : i <= 0} = {}
    <3>1. \A i \in Item : ~(i <= 0)
      BY Constants
    <3> QED BY <1>3, <3>1 DEF ServiceInv
  <2>3. \A r \in Region : call[r].pc = "idle"
    BY <1>1, NewCalls, Constants
  <2>4. result \in [succeeded : SUBSET Region, failed : SUBSET Region, items : SUBSET (Region \X Item)]
    BY DEF Init, NoResult
  <2> QED BY <2>1, <2>2, <2>3, <2>4, FirstToken, Constants DEF Init, WalkInv
<1>5. TimeInv
  <2>1. Role \in Nat /\ Paged(MaxPages) \in Nat /\ Waited(0) = 0
    <3>1. Waited(0) = 0
      BY Constants DEF Waited
    <3> QED BY <3>1, RoleTime
  <2>2. call[Sts].pc = "sending" /\ call[Sts].since = 0 /\ Len(call[Sts].tried) = 0
    BY <1>1, NewCalls
  <2> QED BY <2>1, <2>2 DEF Init, TimeInv
<1> QED BY <1>2, <1>3, <1>4, <1>5 DEF Inv

LEMMA InvStep ==
  ASSUME Inv, [Next]_vars
  PROVE  Inv'
<1>1. CallInv' /\ ServiceInv' /\ WalkInv'
  BY WalkStep, ServiceStep DEF Inv
<1> QED BY <1>1, TimeStep DEF Inv

LEMMA InvHolds == Spec => []Inv
<1>1. Inv /\ [Next]_vars => Inv'
  BY InvStep
<1> QED BY <1>1, InitInv, PTL DEF Spec

\* Types; and no call has more attempts than it may, nor waits longer.
THEOREM TypeCorrect == Spec => []TypeOK
<1>1. Inv => TypeOK
  <2> SUFFICES ASSUME Inv PROVE TypeOK
    OBVIOUS
  <2>1. CallTypeOK
    BY DEF Inv, CallInv, CallTypeOK, CallState
  <2> QED BY <2>1 DEF Inv, WalkInv, WalkState, TypeOK
<1> QED BY <1>1, InvHolds, PTL

\* For any number of attempts: a call goes on exactly while its last outcome may pass, AWS
\* asks for no more time than there is, and an attempt is left.
THEOREM FaultsAreRetried == Spec => []RetriesWhatMayPass
<1>1. Inv => RetriesWhatMayPass
  BY DEF Inv, CallInv, Ends, RetriesWhatMayPass
<1> QED BY <1>1, InvHolds, PTL

\* For any deadline, delay and number of attempts and of pages.
THEOREM SweepEndsInTime == Spec => []EndsInTime
<1>1. Inv => EndsInTime
  <2> SUFFICES ASSUME Inv PROVE EndsInTime
    OBVIOUS
  <2>1. elapsed <= Role + Paged(MaxPages)
    BY DEF Inv, TimeInv
  <2> QED BY <2>1 DEF EndsInTime, Role, Attempted, Paged
<1> QED BY <1>1, InvHolds, PTL

-----------------------------------------------------------------------------
(* The listing *)

LEMMA ListingStart ==
  ASSUME Init
  PROVE  Promised!Init
<1>1. \A r \in Region : walk[r].pc = "walking" /\ phase # "thrown"
  BY FirstToken DEF Init
<1>2. Status = [r \in Region |-> "reading"] /\ Answer = [r \in Region |-> {}]
  BY <1>1 DEF Status, Answer
<1> QED BY <1>2, SweepAssumption DEF Init, Promised!Init

LEMMA ByRegion ==
  /\ Status' = [s \in Region |-> Status'[s]] /\ Status = [s \in Region |-> Status[s]]
  /\ Answer' = [s \in Region |-> Answer'[s]] /\ Answer = [s \in Region |-> Answer[s]]
<1> DEFINE S(r) == IF phase = "thrown" THEN "failed"
                   ELSE IF walk[r].pc = "walking" THEN "reading" ELSE walk[r].pc
           A(r) == IF walk[r].pc = "whole" THEN walk[r].items ELSE {}
<1>1. Status = [r \in Region |-> S(r)] /\ Answer = [r \in Region |-> A(r)]
  BY DEF Status, Answer
<1>2. Status' = [r \in Region |-> S(r)'] /\ Answer' = [r \in Region |-> A(r)']
  BY DEF Status, Answer
<1> HIDE DEF S, A
<1> QED BY <1>1, <1>2

LEMMA ListingStutters ==
  ASSUME UNCHANGED <<remote, stable, ever>>, Status' = Status, Answer' = Answer
  PROVE  UNCHANGED Promised!vars
BY DEF Promised!vars

\* The last page completes what was there throughout.
LEMMA WholeHoldsAll ==
  ASSUME Inv, NEW r \in Region, TakePage(r), walk'[r].pc = "whole"
  PROVE  walk'[r].items \subseteq ever[r] /\ stable[r] \subseteq walk'[r].items
<1>1. PICK page \in Pages(r, walk[r]) : TakesPage(walk[r], page, walk'[r])
  BY TakingIs DEF Inv, CallInv
<1>2. walk[r].pc = "walking" /\ phase = "sweep"
  BY DEF TakePage
<1>3. /\ page.items \subseteq remote[r]
      /\ \A i \in remote[r] : i > walk[r].token.at => i \in page.items
      /\ walk'[r].items = walk[r].items \cup page.items
  BY <1>1, <1>2, PageIs DEF Inv, TakesPage
<1>4. /\ walk[r].items \subseteq ever[r] /\ remote[r] \subseteq ever[r] /\ stable[r] \subseteq remote[r]
      /\ {i \in stable[r] : i <= walk[r].token.at} \subseteq walk[r].items
  BY <1>2 DEF Inv, ServiceInv, WalkInv
<1>5. ASSUME NEW i \in stable[r] PROVE i <= walk[r].token.at \/ i > walk[r].token.at
  <2>1. stable[r] \subseteq Item /\ walk[r].token.at \in {0} \cup Item
    BY DEF Inv, ServiceInv, WalkInv, WalkState
  <2>2. \A j \in {0} \cup Item : j \in Nat
    BY Constants
  <2>3. i \in Nat /\ walk[r].token.at \in Nat
    BY <2>1, <2>2
  <2> QED BY <2>3
<1> QED BY <1>3, <1>4, <1>5

LEMMA ListingStep ==
  ASSUME Inv, [Next]_vars
  PROVE  [Promised!Next]_Promised!vars
<1>1. ASSUME UNCHANGED <<walk, phase, service>>
      PROVE  UNCHANGED Promised!vars
  BY <1>1 DEF Promised!vars, Status, Answer, service
<1>2. CASE Time \/ (\E c \in Client : Call(c)) \/ UNCHANGED vars
  BY <1>1, <1>2 DEF Time, Call, vars, service
<1>3. CASE Assumed
  <2>1. CASE phase' = "sweep"
    <3>1. phase = "assume" /\ walk' = walk
      BY <1>3 DEF Assumed
    <3>2. Status' = Status /\ Answer' = Answer
      BY <2>1, <3>1 DEF Status, Answer
    <3> QED BY <1>3, <3>2, ListingStutters DEF Assumed, service
  <2>2. CASE phase' = "thrown"
    <3>1. phase = "assume" /\ walk' = walk /\ UNCHANGED service /\ \A r \in Region : walk[r].pc = "walking"
      BY <1>3 DEF Assumed, Inv, WalkInv
    <3>2. /\ Status = [r \in Region |-> "reading"] /\ Status' = [r \in Region |-> "failed"] /\ Answer' = Answer
      <4>1. Status = [r \in Region |-> "reading"]
        BY <3>1 DEF Status
      <4>2. Status' = [r \in Region |-> "failed"]
        BY <2>2 DEF Status
      <4>3. Answer' = Answer
        BY <3>1 DEF Answer
      <4> QED BY <4>1, <4>2, <4>3
    <3>3. CASE Region = {}
      <4>1. Status' = Status
        BY <3>2, <3>3
      <4> QED BY <3>1, <3>2, <4>1, ListingStutters DEF service
    <3>4. ASSUME NEW r \in Region
          PROVE  Promised!Next
      <4>1. Promised!Fail(Region)
        BY <3>1, <3>2, <3>4 DEF Promised!Fail, service
      <4> QED BY <4>1 DEF Promised!Next, Promised!Settle
    <3> QED BY <3>3, <3>4
  <2> QED BY <1>3, <2>1, <2>2 DEF Assumed
<1>4. CASE Collected
  <2>1. /\ phase = "sweep" /\ phase' \in {"over", "thrown"} /\ walk' = walk /\ UNCHANGED service
        /\ \A r \in Region : walk[r].pc # "walking"
    BY <1>4 DEF Collected
  <2>2. phase' = "thrown" => \A r \in Region : walk[r].pc = "failed"
    BY <1>4, SweepAssumption DEF Collected
  <2>3. Status' = Status /\ Answer' = Answer
    BY <2>1, <2>2 DEF Status, Answer
  <2> QED BY <2>1, <2>3, ListingStutters DEF service
<1>5. ASSUME NEW r \in Region, TakePage(r)
      PROVE  [Promised!Next]_Promised!vars
  <2>1. /\ phase = "sweep" /\ phase' = phase /\ UNCHANGED service /\ walk[r].pc = "walking"
    BY <1>5 DEF TakePage
  <2>2. PICK page \in Pages(r, walk[r]) : TakesPage(walk[r], page, walk'[r])
    BY <1>5, TakingIs DEF Inv, CallInv
  <2>3. \A s \in Region \ {r} : walk'[s] = walk[s]
    BY <1>5, TakingIs DEF Inv, CallInv
  <2>4. /\ \A s \in Region \ {r} : Status'[s] = Status[s] /\ Answer'[s] = Answer[s]
        /\ Status[r] = "reading" /\ Answer[r] = {}
        /\ Status'[r] = IF walk'[r].pc = "walking" THEN "reading" ELSE walk'[r].pc
        /\ Answer'[r] = IF walk'[r].pc = "whole" THEN walk'[r].items ELSE {}
    BY <2>1, <2>3 DEF Status, Answer
  <2>5. /\ Status' = [s \in Region |-> Status'[s]] /\ Status = [s \in Region |-> Status[s]]
        /\ Answer' = [s \in Region |-> Answer'[s]] /\ Answer = [s \in Region |-> Answer[s]]
    BY ByRegion
  <2>6. CASE walk'[r].pc = "walking"
    <3>1. \A s \in Region : Status'[s] = Status[s] /\ Answer'[s] = Answer[s]
      BY <2>4, <2>6
    <3>2. Status' = Status /\ Answer' = Answer
      BY <2>5, <3>1
    <3> QED BY <2>1, <3>2, ListingStutters DEF service
  <2>7. CASE walk'[r].pc = "whole"
    <3>1. walk'[r].items \subseteq ever[r] /\ stable[r] \subseteq walk'[r].items
      BY <1>5, <2>7, WholeHoldsAll
    <3>2. Status' = [Status EXCEPT ![r] = "whole"] /\ Answer' = [Answer EXCEPT ![r] = walk'[r].items]
      BY <2>4, <2>5, <2>7
    <3>3. Promised!AnswerWhole(r)
      BY <2>1, <2>4, <3>1, <3>2 DEF Promised!AnswerWhole, service
    <3> QED BY <3>3 DEF Promised!Next, Promised!Settle
  <2>8. CASE walk'[r].pc = "failed"
    <3>1. Status' = [s \in Region |-> IF s \in {r} THEN "failed" ELSE Status[s]] /\ Answer' = Answer
      BY <2>4, <2>5, <2>8
    <3>2. Promised!Fail({r})
      BY <2>1, <2>4, <3>1 DEF Promised!Fail, service
    <3> QED BY <3>2 DEF Promised!Next, Promised!Settle
  <2> QED BY <2>2, <2>6, <2>7, <2>8 DEF TakesPage
<1>6. ASSUME NEW r \in Region, PageFails(r)
      PROVE  [Promised!Next]_Promised!vars
  <2>1. /\ phase = "sweep" /\ phase' = phase /\ UNCHANGED service /\ walk[r].pc = "walking"
        /\ walk'[r].pc = "failed" /\ \A s \in Region \ {r} : walk'[s] = walk[s]
    BY <1>6 DEF PageFails, Inv, WalkInv, WalkState
  <2>2. Status[r] = "reading" /\ Status' = [s \in Region |-> IF s \in {r} THEN "failed" ELSE Status[s]] /\ Answer' = Answer
    BY <2>1 DEF Status, Answer
  <2>3. Promised!Fail({r})
    BY <2>1, <2>2 DEF Promised!Fail, service
  <2> QED BY <2>3 DEF Promised!Next, Promised!Settle
<1>7. ASSUME NEW r \in Region, NEW i \in Item, Change(r, i)
      PROVE  [Promised!Next]_Promised!vars
  <2>1. Status' = Status /\ Answer' = Answer
    BY <1>7 DEF Change, Status, Answer
  <2>2. Promised!Change(r, i)
    BY <1>7, <2>1 DEF Change, Promised!Change
  <2> QED BY <2>2 DEF Promised!Next
<1> QED BY <1>2, <1>3, <1>4, <1>5, <1>6, <1>7, StepsAre

\* The sweep implements the listing but for its fairness: a region is answered whole, or
\* failed, or not yet, and what is answered whole has all that was there throughout,
\* however many pages there are and whatever tokens AWS gives out.
THEOREM SweepIsAListing == Spec => Promised!Safety
<1>1. Inv /\ [Next]_vars => [Promised!Next]_Promised!vars
  BY ListingStep
<1> QED BY <1>1, InvHolds, ListingStart, PTL DEF Spec, Promised!Safety

-----------------------------------------------------------------------------
(* What is returned *)

\* What a sweep returned of a region.
Listed(r) == {i \in Item : <<r, i>> \in result.items}

\* What collectAllRegions returns sets the regions that failed apart from those it lists,
\* and lists of these all that was there throughout and nothing that never was; a sweep
\* that throws returns nothing.  Inventory takes it so.
ReturnedIsTrue ==
  /\ phase # "over" => result = NoResult
  /\ phase = "over" =>
       /\ result.succeeded \cup result.failed = Region /\ result.succeeded \cap result.failed = {}
       /\ \A r \in result.succeeded : stable[r] \subseteq Listed(r) /\ Listed(r) \subseteq ever[r]
       /\ \A r \in result.failed : Listed(r) = {}

\* A walk that came to its end has all that was there throughout, and the result is what
\* the walks came to.
ReturnedInv ==
  /\ \A r \in Region : walk[r].pc = "whole" => stable[r] \subseteq walk[r].items
  /\ phase # "over" => result = NoResult
  /\ phase = "over" =>
       LET failed == {r \in Region : walk[r].pc = "failed"} IN
       result = [succeeded |-> Region \ failed, failed |-> failed,
                 items |-> {x \in Region \X Item : x[1] \notin failed /\ x[2] \in walk[x[1]].items}]

LEMMA ReturnedStart ==
  ASSUME Init
  PROVE  ReturnedInv
<1>1. \A r \in Region : walk[r].pc # "whole"
  BY FirstToken DEF Init
<1> QED BY <1>1 DEF Init, ReturnedInv

LEMMA ReturnedStep ==
  ASSUME Inv, ReturnedInv, [Next]_vars
  PROVE  ReturnedInv'
<1>0. \A r \in Region : stable'[r] \subseteq stable[r]
  BY ServiceStep DEF Inv
<1>1. ASSUME walk' = walk, UNCHANGED <<phase, result>>
      PROVE  ReturnedInv'
  BY <1>0, <1>1 DEF ReturnedInv
<1>2. CASE Time \/ (\E c \in Client : Call(c)) \/ (\E r \in Region, i \in Item : Change(r, i)) \/ UNCHANGED vars
  BY <1>1, <1>2 DEF Time, Call, Change, vars
<1>3. CASE Assumed
  <2>1. phase = "assume" /\ phase' \in {"sweep", "thrown"} /\ walk' = walk /\ result' = result
    BY <1>3 DEF Assumed
  <2> QED BY <1>0, <2>1 DEF ReturnedInv
<1>4. CASE Collected
  <2>1. phase = "sweep" /\ walk' = walk
    BY <1>4 DEF Collected
  <2>2. CASE phase' = "thrown" /\ result' = result
    BY <1>0, <2>1, <2>2 DEF ReturnedInv
  <2>3. CASE /\ phase' = "over"
             /\ result' = LET failed == {r \in Region : walk[r].pc = "failed"} IN
                          [succeeded |-> Region \ failed, failed |-> failed,
                           items |-> {x \in Region \X Item : x[1] \notin failed /\ x[2] \in walk[x[1]].items}]
    BY <1>0, <2>1, <2>3 DEF ReturnedInv
  <2> QED BY <1>4, <2>2, <2>3 DEF Collected
<1>5. ASSUME NEW r \in Region, TakePage(r)
      PROVE  ReturnedInv'
  <2>1. phase = "sweep" /\ UNCHANGED <<phase, result>>
    BY <1>5 DEF TakePage
  <2>2. \A s \in Region \ {r} : walk'[s] = walk[s]
    BY <1>5, TakingIs DEF Inv, CallInv
  <2>3. walk'[r].pc = "whole" => stable[r] \subseteq walk'[r].items
    BY <1>5, WholeHoldsAll
  <2> QED BY <1>0, <2>1, <2>2, <2>3 DEF ReturnedInv
<1>6. ASSUME NEW r \in Region, PageFails(r)
      PROVE  ReturnedInv'
  <2>1. /\ phase = "sweep" /\ UNCHANGED <<phase, result>> /\ walk'[r].pc = "failed"
        /\ \A s \in Region \ {r} : walk'[s] = walk[s]
    BY <1>6 DEF PageFails, Inv, WalkInv, WalkState
  <2> QED BY <1>0, <2>1 DEF ReturnedInv
<1> QED BY <1>2, <1>3, <1>4, <1>5, <1>6, StepsAre

\* A region is pruned by what its sweep returned (ResourceInventoryCollectionTask): this is
\* what that relies on.
THEOREM SweepReturnsTheTruth == Spec => []ReturnedIsTrue
<1>1. Inv /\ ReturnedInv => ReturnedIsTrue
  <2> SUFFICES ASSUME Inv, ReturnedInv, phase = "over" PROVE ReturnedIsTrue
    BY DEF ReturnedInv, ReturnedIsTrue
  <2> DEFINE failed == {r \in Region : walk[r].pc = "failed"}
  <2>1. /\ result.succeeded = Region \ failed /\ result.failed = failed
        /\ result.items = {x \in Region \X Item : x[1] \notin failed /\ x[2] \in walk[x[1]].items}
    BY DEF ReturnedInv
  <2>2. \A r \in Region : walk[r].items \subseteq Item /\ walk[r].items \subseteq ever[r]
    BY DEF Inv, WalkInv, WalkState
  <2>3. \A r \in Region \ failed : Listed(r) = walk[r].items /\ walk[r].pc = "whole"
    <3> TAKE r \in Region \ failed
    <3>1. walk[r].pc = "whole"
      BY DEF Inv, WalkInv, WalkState
    <3>2. \A i \in Item : <<r, i>> \in result.items <=> i \in walk[r].items
      BY <2>1
    <3> QED BY <2>2, <3>1, <3>2 DEF Listed
  <2>4. \A r \in failed : Listed(r) = {}
    BY <2>1 DEF Listed
  <2>5. failed \subseteq Region
    OBVIOUS
  <2> HIDE DEF failed
  <2> QED BY <2>1, <2>2, <2>3, <2>4, <2>5 DEF ReturnedInv, ReturnedIsTrue
<1>2. Inv /\ ReturnedInv /\ [Next]_vars => ReturnedInv'
  BY ReturnedStep
<1> QED BY <1>1, <1>2, InvHolds, ReturnedStart, PTL DEF Spec
=============================================================================
