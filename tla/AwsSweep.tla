------------------------------ MODULE AwsSweep -------------------------------
(***************************************************************************)
(* One collector's sweep: the role is assumed by a client that retries,    *)
(* then every region is listed page by page at once, each page by a call   *)
(* of one attempt (BaseAwsCollector.collectAllRegions, paginate, send).    *)
(*                                                                         *)
(* The service pages by position: a token stands for the resources behind  *)
(* it.  It may answer less than a page, or nothing with a token, or repeat *)
(* a token.  A page holds what is there when it is taken up.               *)
(***************************************************************************)
EXTENDS AwsClient

CONSTANTS
  Region,
  Item,        \* resources: positive integers in the order of the listing
  Sts,         \* the client that assumes the role
  MaxPages,    \* MAX_COLLECTION_PAGES
  IsRegional,
  InitialContents, \* what the regions may have at first
  MaxChanges   \* bound on the changes of what is there

ASSUME SweepAssumption ==
  /\ Client = Region \cup {Sts} /\ Sts \notin Region /\ Item \subseteq Nat \ {0}
  /\ \A r \in Region : Attempts[r] = 1
  /\ MaxPages \in Nat \ {0} /\ MaxChanges \in Nat /\ IsRegional \in BOOLEAN
  /\ InitialContents \subseteq [Region -> SUBSET Item]
  /\ ~IsRegional => \E r \in Region : Region = {r}

VARIABLES
  remote, stable, ever,  \* what is there, was throughout, was at some time
  walk,      \* walk[r]: paginate for the region
  phase,     \* "assume", "sweep", "over" or "thrown"
  result,    \* what collectAllRegions returned
  changes

vars == <<call, elapsed, remote, stable, ever, walk, phase, result, changes>>
service == <<remote, stable, ever, changes>>

\* A token: the position behind which it continues, and its number.
Start == [at |-> 0, n |-> 0]
Token == [at : {0} \cup Item, n : 1..MaxPages]
NoToken == [at |-> 0, n |-> MaxPages + 1]
NoWalk == [pc |-> "walking", pages |-> 0, token |-> Start, seen |-> {}, items |-> {}]
NoResult == [succeeded |-> {}, failed |-> {}, items |-> {}]

Init ==
  /\ call = [c \in Client |-> IF c = Sts THEN Sent ELSE NoCall] /\ elapsed = 0
  /\ remote \in InitialContents /\ stable = remote /\ ever = remote /\ changes = 0
  /\ walk = [r \in Region |-> NoWalk]
  /\ phase = "assume" /\ result = NoResult

-----------------------------------------------------------------------------

\* The service: resources come and go.
Change(r, i) ==
  /\ phase = "sweep" /\ changes < MaxChanges
  /\ remote' = [remote EXCEPT ![r] = (@ \cup {i}) \ (@ \cap {i})]
  /\ stable' = [stable EXCEPT ![r] = @ \ {i}]
  /\ ever' = [ever EXCEPT ![r] = @ \cup {i}]
  /\ changes' = changes + 1
  /\ UNCHANGED <<call, elapsed, walk, phase, result>>

\* The pages the service may answer to a token: what is there up to some resource, and
\* the token of the rest.
Behind(r, at) == {i \in remote[r] : i > at}
Pages(r, w) ==
  LET from == w.token.at
      ends == {from} \cup Behind(r, from)
      upTo(end) == Behind(r, from) \ Behind(r, end) IN
  {[items |-> upTo(end), next |-> [at |-> end, n |-> w.pages + 1]] : end \in ends}
  \cup {[items |-> upTo(end), next |-> NoToken] : end \in {e \in ends : Behind(r, e) = {}}}
  \cup {[items |-> upTo(end), next |-> t] : end \in ends, t \in w.seen}

\* assumeRole: with a session every region is swept at once, else there is no sweep.
Assumed ==
  /\ phase = "assume" /\ call[Sts].pc = "done"
  /\ IF IsOk(Result(Sts))
       THEN phase' = "sweep" /\ call' = [c \in Client |-> IF c = Sts THEN NoCall ELSE Sent]
       ELSE phase' = "thrown" /\ UNCHANGED call
  /\ UNCHANGED <<elapsed, service, walk, result>>

\* Slip: a walk that is cut short returns the pages that were read.
CutShort(w, next) ==
  IF next = NoToken \/ w.pages >= MaxPages \/ next \in w.seen THEN "whole" ELSE "walking"

\* paginate after a page: the last one, one too many or over again, or the next.
AfterPage(w, next) ==
  IF next = NoToken THEN "whole"
  ELSE IF w.pages >= MaxPages \/ next \in w.seen THEN "failed" ELSE "walking"

TakePage(r) ==
  /\ phase = "sweep" /\ walk[r].pc = "walking" /\ call[r].pc = "done" /\ IsOk(Result(r))
  /\ \E page \in Pages(r, walk[r]) :
       LET read == [walk[r] EXCEPT !.pages = @ + 1, !.items = @ \cup page.items]
           pc == AfterPage(read, page.next) IN
       /\ walk' = [walk EXCEPT ![r] = [read EXCEPT !.pc = pc, !.token = page.next,
                                                   !.seen = IF pc = "walking" THEN @ \cup {page.next} ELSE @]]
       /\ call' = [call EXCEPT ![r] = IF pc = "walking" THEN Sent ELSE NoCall]
  /\ UNCHANGED <<elapsed, service, phase, result>>

\* A refusal (assertOk), an error of the call, or a body that is not JSON.
PageFails(r) ==
  /\ phase = "sweep" /\ walk[r].pc = "walking" /\ call[r].pc = "done"
  /\ walk' = [walk EXCEPT ![r].pc = "failed"]
  /\ call' = [call EXCEPT ![r] = NoCall]
  /\ UNCHANGED <<elapsed, service, phase, result>>

\* Promise.all: a regional collector returns what each region came to, a global one throws.
Collected ==
  LET failed == {r \in Region : walk[r].pc = "failed"} IN
  /\ phase = "sweep" /\ \A r \in Region : walk[r].pc # "walking"
  /\ IF IsRegional \/ failed = {}
       THEN /\ phase' = "over"
            /\ result' = [succeeded |-> Region \ failed, failed |-> failed,
                          items |-> {x \in Region \X Item : x[1] \notin failed /\ x[2] \in walk[x[1]].items}]
       ELSE phase' = "thrown" /\ UNCHANGED result
  /\ UNCHANGED <<call, elapsed, service, walk>>

Call(c) == CallStep(c) /\ UNCHANGED <<service, walk, phase, result>>
Time == Tick /\ UNCHANGED <<service, walk, phase, result>>
Take(r) == TakePage(r) \/ PageFails(r)

Next ==
  \/ Time \/ \E c \in Client : Call(c)
  \/ Assumed \/ Collected
  \/ \E r \in Region : Take(r) \/ \E i \in Item : Change(r, i)

Spec == Init /\ [][Next]_vars

\* Timers fire and what has settled is taken up; nothing is expected of AWS.
OwnSteps ==
  \/ Timers /\ UNCHANGED <<service, walk, phase, result>>
  \/ Assumed \/ Collected \/ \E r \in Region : Take(r)

FairSpec == Spec /\ WF_vars(OwnSteps) /\ \A r \in Region : WF_vars(Take(r))

-----------------------------------------------------------------------------
(* Properties *)

TypeOK ==
  /\ CallTypeOK
  /\ \A r \in Region :
       /\ walk[r].pc \in {"walking", "whole", "failed"} /\ walk[r].pages \in 0..MaxPages
       /\ walk[r].items \subseteq Item /\ walk[r].seen \subseteq Token
  /\ phase \in {"assume", "sweep", "over", "thrown"}
  /\ result.succeeded \cup result.failed \subseteq Region

\* A role that AWS refuses to have assumed is refused at once, not after the waits of a
\* retry; and a fault is answered only when the attempts are spent or AWS asked for more
\* time than a request has (RetryingAwsClient, isRetryableThrownError).  An error that says
\* nothing at all is a refusal, one that says something unheard of is a fault.
RetriesWhatMayPass ==
  \A c \in Client : \A i \in DOMAIN call[c].tried :
    LET o == call[c].tried[i]
        refusal == CASE o.kind = "answer" -> o.status \in {"ok", "refused"}
                     [] o.kind = "typed" -> ~o.retryable
                     [] o.kind = "plain" -> "permanent" \in o.speaks
                     [] OTHER -> TRUE
        unaffordable == o.kind = "answer" /\ o.asks > MaxDelay IN
    refusal \/ unaffordable \/ i = Attempts[c]
      <=> i = Len(call[c].tried) /\ call[c].pc = "done"

\* However AWS behaves, the collection of one type has ended after the attempts and waits
\* of the role and the pages of a region, so that the task that waits for it, and the
\* guard of the cron object behind it, are free again (FetchTimeout.ts, its header).
EndsInTime ==
  elapsed <= Attempts[Sts] * Timeout + (Attempts[Sts] - 1) * MaxDelay + MaxPages * Timeout

\* What a region is said to have: Listing, with the walk as its reading.
Status == [r \in Region |->
  IF phase = "thrown" THEN "failed"
  ELSE IF walk[r].pc = "walking" THEN "reading" ELSE walk[r].pc]
Answer == [r \in Region |-> IF walk[r].pc = "whole" THEN walk[r].items ELSE {}]

Promised == INSTANCE Listing WITH status <- Status, answer <- Answer

\* The sweep implements the listing: each region is answered whole or failed, never in
\* part, and is in the end, though calls hang, tokens repeat and pages go on for ever.
ListsWhole == Promised!Spec
=============================================================================
