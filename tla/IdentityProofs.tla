---------------------------- MODULE IdentityProofs ----------------------------
(***************************************************************************)
(* For any addresses, however written, and any number of requests and      *)
(* changes: what a request acts for; and who keeps which address, when the *)
(* changes of one account are made one at a time, the script is run alone, *)
(* or both, as each theorem says.                                          *)
(***************************************************************************)
EXTENDS Identity, TLAPS

UnderWay == {"claimed", "current", "lookup", "claim", "revoke", "move", "lookupLink", "claimLink"} \cup ScriptSteps

RequestState ==
  [pc      : Reading \cup {"idle", "resolved"},
   address : Address \cup {Null},
   account : Address \cup {Null},
   seen    : SUBSET (Address \cup {Null})]

ChangeState ==
  [pc  : UnderWay \cup {"idle"},
   who : Address \cup {Null},
   to  : Normal \cup {Null}]

Row == [owner : Address \cup {Null}, verified : BOOLEAN]

\* A change under way is of somebody, to some address.
ChangeInv ==
  \A c \in Change : change[c].pc # "idle" => change[c].who \in Address /\ change[c].to \in Normal

\* A change that has claimed its address: the registry has a row of it, which is never
\* taken away again.
ClaimInv ==
  \A c \in Change : change[c].pc \in {"revoke", "move"} => registry[change[c].to].owner # Null

\* A request that is past the registry has seen whoever may come to hold its address: the
\* holder of it, a change that has claimed it, and the unmigrated account of its anchor.
PastRegistry(r) ==
  /\ \A u \in Holders(Lower[req[r].address]) : u \in req[r].seen
  /\ \A c \in Change :
       change[c].pc \in {"revoke", "move"} /\ change[c].to = Lower[req[r].address] => change[c].who \in req[r].seen

Aware(r) ==
  /\ req[r].pc # "idle" => req[r].address \in Address
  /\ req[r].pc \in Reading => Resolve(req[r].address) \in req[r].seen
  /\ req[r].pc \in Reading /\ current[req[r].address] = Null => req[r].address \in req[r].seen
  /\ req[r].pc \in {"hydrate", "resolved"} => req[r].account \in req[r].seen \cup {Null}
  /\ req[r].pc \in {"current", "anchor"} => PastRegistry(r)

RequestInv == \A r \in Request : Aware(r)

-----------------------------------------------------------------------------
(* What the changes leave each other *)

\* No two changes of one account, and no change beside the script's.
AloneInv ==
  \A c, d \in Change :
    c # d /\ change[c].pc # "idle" /\ change[d].pc # "idle" =>
      /\ AccountAlone => change[c].who # change[d].who
      /\ ScriptAlone => change[c].pc \notin ScriptSteps /\ change[d].pc \notin ScriptSteps

\* What the script has checked holds until its batch.
CheckedInv(c) ==
  ScriptAlone /\ change[c].pc \in {"holder", "batch"} => ~VerifiedOfAnother(c)

\* What a change has claimed is its own until it is over: neither another change of the
\* account nor the script takes it away.
ClaimedInv(c) ==
  AccountAlone /\ ScriptAlone /\ change[c].pc \in {"revoke", "move"} =>
    registry[change[c].to] = Verified(change[c].who)

\* What a change has revoked no other change of the account claims.
RevokedInv(c) ==
  AccountAlone /\ change[c].pc = "move" =>
    \A n \in Normal \ {change[c].to} : registry[n] # Verified(change[c].who)

HeldInv == \A c \in Change : CheckedInv(c) /\ ClaimedInv(c) /\ RevokedInv(c)

\* Whoever has moved away from an address has another, and cannot sign in with that one.
LeftInv ==
  AccountAlone => \A n \in Normal, u \in Address :
    <<n, u>> \in left => current[u] \in Normal \ {n} /\ registry[n] # Verified(u)

-----------------------------------------------------------------------------
(* Types *)

CurrentType(cur) ==
  /\ cur \in [Address -> Normal \cup {Null, NoRow}]
  /\ \A u, v \in Address : cur[u] = cur[v] /\ cur[u] \in Normal => u = v

RegistryType(reg) ==
  /\ reg \in [Normal -> Row]
  /\ \A n \in Normal : reg[n].owner = Null => ~reg[n].verified

LEMMA Names ==
  /\ Normal \subseteq Address /\ Null \notin Normal /\ NoRow \notin Normal
  /\ \A e \in Address : Lower[e] \in Normal
BY IdentityAssumption DEF Normal

LEMMA ChangeStates ==
  UnderWay \cup {"idle"} = {"idle", "claimed", "current", "lookup", "claim", "revoke", "move",
                           "lookupLink", "claimLink"} \cup ScriptSteps
BY DEF UnderWay

LEMMA TypeIs ==
  TypeOK <=> /\ CurrentType(current) /\ RegistryType(registry)
             /\ req \in [Request -> RequestState] /\ change \in [Change -> ChangeState]
             /\ begun \in 0..MaxChanges /\ left \subseteq Normal \X Address
BY ChangeStates DEF TypeOK, CurrentType, RegistryType, RequestState, ChangeState, Row

LEMMA TypeIsNext ==
  TypeOK' <=> /\ CurrentType(current') /\ RegistryType(registry')
              /\ req' \in [Request -> RequestState] /\ change' \in [Change -> ChangeState]
              /\ begun' \in 0..MaxChanges /\ left' \subseteq Normal \X Address
BY ChangeStates DEF TypeOK, CurrentType, RegistryType, RequestState, ChangeState, Row

LEMMA VerifiedType ==
  ASSUME NEW u \in Address
  PROVE  Verified(u) \in Row /\ Verified(u).owner = u /\ Verified(u).verified = TRUE /\ u # Null
BY IdentityAssumption DEF Verified, Row

\* A registered address resolves to its owner, one that is not registered to its holder.
LEMMA ResolveOwner ==
  ASSUME NEW cur, NEW reg, NEW e, reg[Lower[e]].owner # Null
  PROVE  ResolveIn(cur, reg, e) = IF reg[Lower[e]].verified THEN reg[Lower[e]].owner ELSE Null
BY DEF ResolveIn

LEMMA ResolveHolder ==
  ASSUME NEW cur, NEW reg, NEW e \in Address, CurrentType(cur), reg[Lower[e]].owner = Null,
         NEW u \in Address, cur[u] = Lower[e]
  PROVE  ResolveIn(cur, reg, e) = u
<1>. DEFINE holders == {v \in Address : cur[v] = Lower[e]}
<1>1. \A v \in holders : v = u
  BY Names DEF CurrentType
<1>2. u \in holders
  OBVIOUS
<1>3. ResolveIn(cur, reg, e) = CHOOSE v \in holders : TRUE
  BY <1>2 DEF ResolveIn
<1>4. (CHOOSE v \in holders : TRUE) \in holders
  BY <1>2
<1>. QED
  BY <1>1, <1>3, <1>4

LEMMA ResolveType ==
  ASSUME NEW cur, NEW reg, NEW e \in Address, CurrentType(cur), RegistryType(reg)
  PROVE  ResolveIn(cur, reg, e) \in Address \cup {Null}
<1>1. CASE reg[Lower[e]].owner # Null
  BY <1>1, Names, ResolveOwner DEF RegistryType, Row
<1>2. CASE reg[Lower[e]].owner = Null /\ \E u \in Address : cur[u] = Lower[e]
  BY <1>2, ResolveHolder
<1>3. CASE reg[Lower[e]].owner = Null /\ ~ \E u \in Address : cur[u] = Lower[e]
  <2>1. ResolveIn(cur, reg, e) = ByAnchor(cur, e)
    BY <1>3 DEF ResolveIn
  <2>. QED
    BY <2>1 DEF ByAnchor
<1>. QED
  BY <1>1, <1>2, <1>3

LEMMA IdleType ==
  /\ IdleRequest \in RequestState /\ IdleRequest.pc = "idle"
  /\ IdleChange \in ChangeState /\ IdleChange.pc = "idle"
BY DEF IdleRequest, RequestState, IdleChange, ChangeState

LEMMA TypeInit == Init => TypeOK
<1> SUFFICES ASSUME Init PROVE TypeOK
  OBVIOUS
<1>1. PICK old \in SUBSET Address : Migrated(old)
  BY DEF Init
<1>. DEFINE alone(u) == \A v \in old : Lower[v] = Lower[u] => v = u
<1>2. current = [u \in Address |-> IF u \notin old THEN NoRow ELSE IF alone(u) THEN Lower[u] ELSE Null]
  BY <1>1 DEF Migrated
<1>3. CurrentType(current)
  BY <1>2, Names DEF CurrentType
<1>4. registry = [n \in Normal |->
        IF \E u \in old : alone(u) /\ Lower[u] = n
          THEN Verified(CHOOSE u \in old : Lower[u] = n) ELSE Unregistered]
  BY <1>1 DEF Migrated
<1>5. ASSUME NEW n \in Normal
      PROVE  registry[n] \in Row /\ (registry[n].owner = Null => ~registry[n].verified)
  <2>1. CASE \E u \in old : alone(u) /\ Lower[u] = n
    <3>1. (CHOOSE u \in old : Lower[u] = n) \in Address
      BY <2>1
    <3>2. registry[n] = Verified(CHOOSE u \in old : Lower[u] = n)
      BY <1>4, <2>1
    <3>. HIDE DEF alone
    <3>. QED
      BY <3>1, <3>2, VerifiedType
  <2>2. CASE ~ \E u \in old : alone(u) /\ Lower[u] = n
    BY <1>4, <2>2 DEF Unregistered, Row
  <2>. QED
    BY <2>1, <2>2
<1>6. RegistryType(registry)
  BY <1>4, <1>5 DEF RegistryType
<1>. QED
  BY <1>3, <1>6, IdleType, IdentityAssumption, TypeIs DEF Init

-----------------------------------------------------------------------------
(* What the steps do *)

\* Whoever reads sees what its address resolves to, and who is made with it.
LEMMA WatchedEffect ==
  ASSUME NEW state \in [Request -> RequestState], NEW r \in Request, req' = Watched(state)
  PROVE  /\ req'[r].pc = state[r].pc /\ req'[r].address = state[r].address /\ req'[r].account = state[r].account
         /\ state[r].seen \subseteq req'[r].seen
         /\ state[r].pc \in Reading => /\ ResolveIn(current', registry', state[r].address) \in req'[r].seen
                                       /\ Made(state[r].address) \subseteq req'[r].seen
BY DEF Watched, RequestState

LEMMA WatchedType ==
  ASSUME NEW state \in [Request -> RequestState], CurrentType(current'), RegistryType(registry'),
         \A r \in Request : state[r].pc # "idle" => state[r].address \in Address
  PROVE  Watched(state) \in [Request -> RequestState]
<1> SUFFICES ASSUME NEW r \in Request PROVE Watched(state)[r] \in RequestState
  BY DEF Watched
<1>1. CASE state[r].pc \notin Reading
  BY <1>1 DEF Watched
<1>2. CASE state[r].pc \in Reading
  <2>1. state[r].address \in Address
    BY <1>2 DEF Reading
  <2>2. ResolveIn(current', registry', state[r].address) \in Address \cup {Null}
    BY <2>1, ResolveType
  <2>3. Made(state[r].address) \subseteq Address
    BY DEF Made
  <2>4. Watched(state)[r] =
          [state[r] EXCEPT !.seen = @ \cup {ResolveIn(current', registry', state[r].address)} \cup Made(state[r].address)]
    BY <1>2 DEF Watched
  <2>. QED
    BY <2>2, <2>3, <2>4 DEF RequestState
<1>. QED
  BY <1>1, <1>2

LEMMA StepEffect ==
  ASSUME TypeOK, NEW c \in Change, NEW pc \in UnderWay \cup {"idle"}, Step(c, pc)
  PROVE  /\ change' \in [Change -> ChangeState]
         /\ \A d \in Change \ {c} : change'[d] = change[d]
         /\ change'[c].pc = pc
         /\ pc # "idle" => change'[c].who = change[c].who /\ change'[c].to = change[c].to
<1>1. change \in [Change -> ChangeState]
  BY TypeIs
<1>2. CASE pc = "idle"
  BY <1>1, <1>2, IdleType DEF Step
<1>3. CASE pc # "idle"
  BY <1>1, <1>3 DEF Step, ChangeState
<1>. QED
  BY <1>2, <1>3

\* The steps of a change that leave the tables alone, but for its beginning.
Waits(c, to) ==
  /\ change[c].pc # "idle"
  /\ Step(c, to)
  /\ \/ to = "idle"
     \/ change[c].pc = "claimed" /\ to = "current"
     \/ change[c].pc = "current" /\ to = "lookup"
     \/ change[c].pc = "lookup" /\ to = "claim"
     \/ change[c].pc = "lookupLink" /\ to = "claimLink"
     \/ change[c].pc = "takeover" /\ to = "holder" /\ ~VerifiedOfAnother(c)
     \/ change[c].pc = "holder" /\ to = "batch"
  /\ UNCHANGED <<tables, req, begun, left>>

QuietStep(c) ==
  \/ ClaimedInRegistry(c) \/ ClaimedAsCurrent(c) \/ LookUpBeforeClaim(c)
  \/ TakeoverCheck(c) \/ OtherHolderCheck(c) \/ Die(c)

LEMMA QuietStepWaits ==
  ASSUME NEW c \in Change, QuietStep(c)
  PROVE  \E to \in UnderWay \cup {"idle"} : Waits(c, to)
BY DEF QuietStep, ClaimedInRegistry, ClaimedAsCurrent, LookUpBeforeClaim, TakeoverCheck, OtherHolderCheck, Die,
       Proceeds, Waits, UnderWay, ScriptSteps

\* A request that goes on, the tables being as they were.
LEMMA GoesEffect ==
  ASSUME TypeOK, NEW r \in Request, NEW pc \in Reading \cup {"idle", "resolved"}, NEW account \in Address \cup {Null},
         Goes(r, pc, account)
  PROVE  /\ UNCHANGED <<current, registry, change, begun, left>>
         /\ req' \in [Request -> RequestState]
         /\ \A q \in Request \ {r} : req'[q] = req[q]
         /\ req'[r].pc = pc /\ req'[r].account = account
         /\ req'[r].address = req[r].address /\ req'[r].seen = req[r].seen
<1>1. req \in [Request -> RequestState]
  BY TypeIs
<1>. QED
  BY <1>1 DEF Goes, tables, changeVars, RequestState

LEMMA ReadEffect ==
  ASSUME TypeOK, RequestInv, NEW r \in Request, ReadRegistry(r) \/ Hydrate(r) \/ ReadCurrent(r) \/ ReadAnchor(r)
  PROVE  \E pc \in Reading \cup {"idle", "resolved"}, account \in Address \cup {Null} : Goes(r, pc, account)
<1>1. req[r].address \in Address /\ req[r].account \in Address \cup {Null}
  BY TypeIs DEF ReadRegistry, Hydrate, ReadCurrent, ReadAnchor, RequestInv, Aware, RequestState
<1>2. CASE ReadRegistry(r)
  <2>1. registry[Lower[req[r].address]].owner \in Address \cup {Null}
    BY <1>1, Names, TypeIs DEF RegistryType, Row
  <2>. QED
    BY <1>2, <2>1 DEF ReadRegistry, Reading
<1>3. CASE Hydrate(r)
  BY <1>1, <1>3 DEF Hydrate, Reading
<1>4. CASE ReadCurrent(r)
  BY <1>4 DEF ReadCurrent, Reading, Holders
<1>5. CASE ReadAnchor(r)
  BY <1>1, <1>5 DEF ReadAnchor, Reading, ByAnchor
<1>. QED
  BY <1>2, <1>3, <1>4, <1>5

\* The owner a request has its statements keyed on, and the row that is made of it.
LEMMA EnsureEffect ==
  ASSUME TypeOK, RequestInv, NEW r \in Request, EnsureUserEmailExists(r)
  PROVE  /\ UNCHANGED <<registry, change, begun, left>>
         /\ CurrentType(current')
         /\ \A u \in Address : current'[u] = current[u] \/ (current[u] = NoRow /\ current'[u] = Lower[u])
         /\ [req EXCEPT ![r] = IdleRequest] \in [Request -> RequestState]
         /\ req' = Watched([req EXCEPT ![r] = IdleRequest])
<1>1. OwnerAnchor(r) \in Address
  <2>1. req[r].account \in Address \cup {Null} /\ req[r].address \in Address
    BY TypeIs DEF RequestState, RequestInv, Aware, EnsureUserEmailExists
  <2>. QED
    BY <2>1 DEF OwnerAnchor
<1>. DEFINE e == OwnerAnchor(r)
<1>2. CASE current' = current
  BY <1>2, IdleType, TypeIs DEF EnsureUserEmailExists, changeVars
<1>3. CASE current[e] = NoRow /\ Holders(Lower[e]) = {} /\ current' = [current EXCEPT ![e] = Lower[e]]
  <2>1. CurrentType(current)
    BY TypeIs
  <2>2. \A u \in Address : current[u] # Lower[e]
    BY <1>3 DEF Holders
  <2>3. CurrentType(current')
    BY <1>1, <1>3, <2>1, <2>2, Names DEF CurrentType
  <2>4. \A u \in Address : current'[u] = current[u] \/ (current[u] = NoRow /\ current'[u] = Lower[u])
    BY <1>1, <1>3, <2>1 DEF CurrentType
  <2>. QED
    BY <2>3, <2>4, IdleType, TypeIs DEF EnsureUserEmailExists, changeVars
<1>. QED
  BY <1>2, <1>3 DEF EnsureUserEmailExists

\* What registering makes of the registry: a verified row stays, and no row loses its owner.
LEMMA ClaimedEffect ==
  ASSUME TypeOK, NEW c \in Change, change[c].who \in Address, change[c].to \in Normal
  PROVE  /\ RegistryType(Claimed(c))
         /\ \A n \in Normal : n # change[c].to => Claimed(c)[n] = registry[n]
         /\ \A n \in Normal : registry[n].verified => Claimed(c)[n] = registry[n]
         /\ \A n \in Normal : registry[n].owner # Null => Claimed(c)[n].owner # Null
         /\ Claimed(c) # registry => Claimed(c)[change[c].to] = Verified(change[c].who)
BY VerifiedType, TypeIs DEF Claimed, RegistryType

LEMMA RevokedEffect ==
  ASSUME NEW reg, RegistryType(reg), NEW u \in Address, NEW to \in Normal
  PROVE  /\ RegistryType(Revoked(u, to, reg))
         /\ Revoked(u, to, reg)[to] = reg[to]
         /\ \A n \in Normal : /\ Revoked(u, to, reg)[n].owner = reg[n].owner
                              /\ Revoked(u, to, reg)[n].verified => Revoked(u, to, reg)[n] = reg[n]
                              /\ reg[n].owner # u => Revoked(u, to, reg)[n] = reg[n]
         /\ \A n \in Normal \ {to} : Revoked(u, to, reg)[n] # Verified(u)
<1>1. ASSUME NEW n \in Normal, n # to, reg[n].owner = u
      PROVE  /\ Revoked(u, to, reg)[n] = [reg[n] EXCEPT !.verified = FALSE]
             /\ Revoked(u, to, reg)[n] \in Row
             /\ Revoked(u, to, reg)[n].owner = u /\ Revoked(u, to, reg)[n].verified = FALSE
  BY <1>1 DEF Revoked, RegistryType, Row
<1>2. ASSUME NEW n \in Normal, n = to \/ reg[n].owner # u
      PROVE  Revoked(u, to, reg)[n] = reg[n]
  BY <1>2 DEF Revoked
<1>3. RegistryType(Revoked(u, to, reg))
  <2>1. \A n \in Normal : /\ Revoked(u, to, reg)[n] \in Row
                          /\ Revoked(u, to, reg)[n].owner = Null => ~Revoked(u, to, reg)[n].verified
    BY <1>1, <1>2 DEF RegistryType
  <2>2. Revoked(u, to, reg) = [n \in Normal |-> Revoked(u, to, reg)[n]]
    BY DEF Revoked
  <2>. QED
    BY <2>1, <2>2 DEF RegistryType
<1>4. ASSUME NEW n \in Normal \ {to}, Revoked(u, to, reg)[n] = Verified(u) PROVE FALSE
  <2>1. Revoked(u, to, reg)[n].owner = u /\ Revoked(u, to, reg)[n].verified = TRUE
    BY <1>4, VerifiedType
  <2>2. CASE reg[n].owner = u
    BY <1>1, <2>1, <2>2
  <2>3. CASE reg[n].owner # u
    BY <1>2, <2>1, <2>3
  <2>. QED
    BY <2>2, <2>3
<1>5. ASSUME NEW n \in Normal
      PROVE  /\ Revoked(u, to, reg)[n].owner = reg[n].owner
             /\ Revoked(u, to, reg)[n].verified => Revoked(u, to, reg)[n] = reg[n]
             /\ reg[n].owner # u => Revoked(u, to, reg)[n] = reg[n]
  BY <1>1, <1>2
<1>6. Revoked(u, to, reg)[to] = reg[to]
  BY <1>2
<1>. QED
  BY <1>3, <1>4, <1>5, <1>6

\* The address a change has moved its account to.
LEMMA MoveEffect ==
  ASSUME TypeOK, NEW c \in Change, change[c].who \in Address, change[c].to \in Normal, ~HeldByAnother(c),
         current' = [current EXCEPT ![change[c].who] = change[c].to]
  PROVE  /\ CurrentType(current')
         /\ \A u \in Address : current'[u] = IF u = change[c].who THEN change[c].to ELSE current[u]
<1>1. CurrentType(current)
  BY TypeIs
<1>2. \A u \in Address : current[u] = change[c].to => u = change[c].who
  BY DEF HeldByAnother, Holders
<1>. QED
  BY <1>1, <1>2 DEF CurrentType

LEMMA TypeNext ==
  ASSUME TypeOK, ChangeInv, RequestInv, [Next]_vars
  PROVE  TypeOK'
<1>0. /\ CurrentType(current) /\ RegistryType(registry)
      /\ req \in [Request -> RequestState] /\ change \in [Change -> ChangeState]
      /\ begun \in 0..MaxChanges /\ left \subseteq Normal \X Address
  BY TypeIs
<1>1. ASSUME NEW r \in Request, NEW e \in Address, Arrive(r, e) PROVE TypeOK'
  <2>1. {Resolve(e)} \cup Unmigrated(e) \subseteq Address \cup {Null}
    BY <1>0, ResolveType DEF Resolve, Unmigrated
  <2>2. req' \in [Request -> RequestState]
    BY <1>0, <1>1, <2>1 DEF Arrive, RequestState, Reading
  <2>. QED
    BY <1>0, <1>1, <2>2, TypeIsNext DEF Arrive, tables, changeVars
<1>2. ASSUME NEW r \in Request, ReadRegistry(r) \/ Hydrate(r) \/ ReadCurrent(r) \/ ReadAnchor(r) PROVE TypeOK'
  BY <1>0, <1>2, ReadEffect, GoesEffect, TypeIsNext
<1>3. ASSUME NEW r \in Request, EnsureUserEmailExists(r) PROVE TypeOK'
  <2>1. \A q \in Request : [req EXCEPT ![r] = IdleRequest][q].pc # "idle"
                             => [req EXCEPT ![r] = IdleRequest][q].address \in Address
    BY <1>0, IdleType DEF RequestInv, Aware
  <2>2. CurrentType(current') /\ RegistryType(registry')
    BY <1>0, <1>3, EnsureEffect
  <2>3. [req EXCEPT ![r] = IdleRequest] \in [Request -> RequestState] /\ req' = Watched([req EXCEPT ![r] = IdleRequest])
    BY <1>3, EnsureEffect
  <2>4. req' \in [Request -> RequestState]
    BY <2>1, <2>2, <2>3, WatchedType
  <2>. QED
    BY <1>0, <1>3, <2>2, <2>4, EnsureEffect, TypeIsNext
<1>4. ASSUME NEW r \in Request, Leave(r) PROVE TypeOK'
  BY <1>0, <1>4, IdleType, TypeIsNext DEF Leave, tables, changeVars
<1>5. ASSUME NEW c \in Change, NEW who \in Address, NEW to \in Normal, NEW pc \in {"claimed", "lookupLink", "takeover"},
             Begin(c, who, to, pc)
      PROVE  TypeOK'
  <2>1. [pc |-> pc, who |-> who, to |-> to] \in ChangeState
    BY DEF ChangeState, UnderWay, ScriptSteps
  <2>2. begun' \in 0..MaxChanges
    BY <1>0, <1>5, IdentityAssumption DEF Begin
  <2>. QED
    BY <1>0, <1>5, <2>1, <2>2, TypeIsNext DEF Begin, tables
<1>6. ASSUME NEW c \in Change, QuietStep(c) PROVE TypeOK'
  <2>1. PICK to \in UnderWay \cup {"idle"} : Waits(c, to)
    BY <1>6, QuietStepWaits
  <2>2. change' \in [Change -> ChangeState]
    BY <2>1, StepEffect DEF Waits
  <2>. QED
    BY <1>0, <2>1, <2>2, TypeIsNext DEF Waits, tables
<1>7. ASSUME NEW c \in Change, NEW to \in UnderWay \cup {"idle"}, Step(c, to), req' = Watched(req), begun' = begun,
             CurrentType(current'), RegistryType(registry'), left' \subseteq Normal \X Address
      PROVE  TypeOK'
  <2>1. req' \in [Request -> RequestState]
    BY <1>0, <1>7, WatchedType DEF RequestInv, Aware
  <2>. QED
    BY <1>0, <1>7, <2>1, StepEffect, TypeIsNext
<1>8. ASSUME NEW c \in Change, change[c].pc # "idle"
      PROVE  /\ change[c].who \in Address /\ change[c].to \in Normal
             /\ Moved(change[c].who, change[c].to) => left' \subseteq Normal \X Address
  BY <1>0, <1>8 DEF ChangeInv, Moved
<1>9. ASSUME NEW c \in Change, Register(c) PROVE TypeOK'
  <2>1. PICK to \in UnderWay \cup {"idle"} : Step(c, to)
    BY <1>9 DEF Register, UnderWay
  <2>. QED
    BY <1>0, <1>7, <1>8, <1>9, <2>1, ClaimedEffect DEF Register
<1>10. ASSUME NEW c \in Change, RevokeAllVerified(c) PROVE TypeOK'
  <2>1. Step(c, "move") /\ "move" \in UnderWay \cup {"idle"}
    BY <1>10 DEF RevokeAllVerified, UnderWay
  <2>. QED
    BY <1>0, <1>7, <1>8, <1>10, <2>1, RevokedEffect DEF RevokeAllVerified
<1>11. ASSUME NEW c \in Change, SetCurrentEmail(c) PROVE TypeOK'
  BY <1>0, <1>7, <1>8, <1>11, MoveEffect DEF SetCurrentEmail
<1>12. ASSUME NEW c \in Change, ChangeEmail(c) PROVE TypeOK'
  <2>. DEFINE u == change[c].who
              to == change[c].to
  <2>1. RegistryType([registry EXCEPT ![to] = Verified(u)])
    BY <1>0, <1>8, <1>12, VerifiedType DEF ChangeEmail, RegistryType
  <2>2. RegistryType(Revoked(u, to, [registry EXCEPT ![to] = Verified(u)]))
    BY <1>8, <1>12, <2>1, RevokedEffect DEF ChangeEmail
  <2>. QED
    BY <1>0, <1>7, <1>8, <1>12, <2>2, MoveEffect DEF ChangeEmail, tables
<1>13. CASE UNCHANGED vars
  BY <1>0, <1>13, TypeIsNext DEF vars
<1>. QED
  BY <1>1, <1>2, <1>3, <1>4, <1>5, <1>6, <1>9, <1>10, <1>11, <1>12, <1>13
  DEF Next, RequestStep, ChangeStep, QuietStep

-----------------------------------------------------------------------------
(* What a request has seen *)

\* A change that goes on or is over.
LEMMA StepChange ==
  ASSUME TypeOK, ChangeInv, NEW c \in Change, NEW pc \in UnderWay \cup {"idle"}, Step(c, pc), change[c].pc # "idle"
  PROVE  ChangeInv'
BY StepEffect DEF ChangeInv

\* Claims of the registry, under way.
Claiming(ch, c) == ch[c].pc \in {"revoke", "move"}

\* Every request that reads is aware of what a step makes of the tables.
LEMMA WatchedAware ==
  ASSUME TypeOK, RequestInv, NEW state \in [Request -> RequestState], req' = Watched(state),
         \A q \in Request : state[q].pc # "idle" => state[q] = req[q],
         \A u \in Address : current'[u] = Null => current[u] = Null,
         \A e, u \in Address : current'[u] = Lower[e] =>
           \/ current[u] = Lower[e]
           \/ u \in Made(e)
           \/ ResolveIn(current', registry', e) = u
           \/ \E c \in Change : Claiming(change, c) /\ change[c].to = Lower[e] /\ change[c].who = u,
         \A d \in Change : Claiming(change', d) =>
           \/ Claiming(change, d) /\ change[d].to = change'[d].to /\ change[d].who = change'[d].who
           \/ \A e \in Address : change'[d].to = Lower[e] => ResolveIn(current', registry', e) = change'[d].who
  PROVE  RequestInv'
<1> SUFFICES ASSUME NEW r \in Request PROVE Aware(r)'
  BY DEF RequestInv
<1>1. /\ req'[r].pc = state[r].pc /\ req'[r].address = state[r].address /\ req'[r].account = state[r].account
      /\ state[r].seen \subseteq req'[r].seen
      /\ state[r].pc \in Reading => /\ ResolveIn(current', registry', state[r].address) \in req'[r].seen
                                    /\ Made(state[r].address) \subseteq req'[r].seen
  BY WatchedEffect
<1>2. CASE state[r].pc = "idle"
  BY <1>1, <1>2 DEF Aware, Reading
<1>3. CASE state[r].pc # "idle"
  <2>1. state[r] = req[r] /\ Aware(r) /\ req[r].address \in Address
    BY <1>3 DEF RequestInv, Aware
  <2>2. req'[r].pc \in {"current", "anchor"} => PastRegistry(r)'
    <3> SUFFICES ASSUME req'[r].pc \in {"current", "anchor"} PROVE PastRegistry(r)'
      OBVIOUS
    <3>. DEFINE e == req[r].address
    <3>1. PastRegistry(r) /\ req[r].pc \in Reading
      BY <1>1, <2>1 DEF Aware, Reading
    <3>2. ASSUME NEW u \in Address, current'[u] = Lower[e] PROVE u \in req'[r].seen
      BY <1>1, <2>1, <3>1, <3>2 DEF PastRegistry, Holders, Claiming
    <3>3. ASSUME NEW d \in Change, Claiming(change', d), change'[d].to = Lower[e] PROVE change'[d].who \in req'[r].seen
      BY <1>1, <2>1, <3>1, <3>3 DEF PastRegistry, Claiming
    <3>. QED
      BY <1>1, <2>1, <3>2, <3>3 DEF PastRegistry, Holders, Claiming
  <2>3. req'[r].pc \in Reading => /\ Resolve(req[r].address)' \in req'[r].seen
                                  /\ current'[req'[r].address] = Null => req'[r].address \in req'[r].seen
    BY <1>1, <2>1 DEF Aware, Resolve
  <2>. QED
    BY <1>1, <2>1, <2>2, <2>3 DEF Aware, Resolve
<1>. QED
  BY <1>2, <1>3

\* Nobody forgets what it has seen while the tables stay as they are.
LEMMA StillAware ==
  ASSUME NEW q \in Request, Aware(q), UNCHANGED tables, req'[q] = req[q],
         \A d \in Change : Claiming(change', d) =>
           Claiming(change, d) /\ change'[d].to = change[d].to /\ change'[d].who = change[d].who
  PROVE  Aware(q)'
<1>1. PastRegistry(q) => PastRegistry(q)'
  BY DEF PastRegistry, Holders, Claiming, tables
<1>. QED
  BY <1>1 DEF Aware, Resolve, tables

LEMMA ReadAware ==
  ASSUME TypeOK, RequestInv, ClaimInv, NEW r \in Request,
         ReadRegistry(r) \/ Hydrate(r) \/ ReadCurrent(r) \/ ReadAnchor(r)
  PROVE  RequestInv'
<1>. DEFINE e == req[r].address
            row == registry[Lower[e]]
<1>1. Aware(r) /\ e \in Address /\ Lower[e] \in Normal
  BY Names DEF RequestInv, Aware, ReadRegistry, Hydrate, ReadCurrent, ReadAnchor
<1>2. PICK pc \in Reading \cup {"idle", "resolved"}, account \in Address \cup {Null} : Goes(r, pc, account)
  BY ReadEffect
<1>3. /\ UNCHANGED <<current, registry, change, begun, left>>
      /\ \A q \in Request \ {r} : req'[q] = req[q]
      /\ req'[r].address = e /\ req'[r].seen = req[r].seen
  BY <1>2, GoesEffect
<1>4. ASSUME NEW q \in Request \ {r} PROVE Aware(q)'
  BY <1>3, StillAware DEF RequestInv, tables
<1>5. ASSUME req'[r].pc \in {"hydrate", "resolved"} => req'[r].account \in req[r].seen \cup {Null},
             req'[r].pc \in {"current", "anchor"} => PastRegistry(r),
             req[r].pc \in Reading
      PROVE  Aware(r)'
  <2>1. PastRegistry(r) => PastRegistry(r)'
    BY <1>3 DEF PastRegistry, Holders
  <2>. QED
    BY <1>1, <1>3, <1>5, <2>1 DEF Aware, Resolve
<1>6. CASE ReadRegistry(r)
  <2>1. Resolve(e) \in req[r].seen
    BY <1>1, <1>6 DEF Aware, ReadRegistry, Reading
  <2>2. CASE row.owner = Null
    <3>1. Goes(r, "current", Null)
      BY <1>6, <2>2 DEF ReadRegistry
    <3>2. \A u \in Holders(Lower[e]) : u = Resolve(e)
      BY <1>1, <2>2, ResolveHolder, TypeIs DEF Holders, Resolve
    <3>3. \A c \in Change : change[c].pc \in {"revoke", "move"} => change[c].to # Lower[e]
      BY <2>2 DEF ClaimInv
    <3>4. PastRegistry(r)
      BY <2>1, <3>2, <3>3 DEF PastRegistry
    <3>5. req'[r].pc = "current"
      BY <3>1, GoesEffect DEF Reading
    <3>. QED
      BY <1>4, <1>5, <1>6, <3>4, <3>5 DEF ReadRegistry, Reading, RequestInv
  <2>3. CASE row.owner # Null /\ row.verified
    <3>1. Goes(r, "hydrate", row.owner) /\ row.owner \in Address \cup {Null}
      BY <1>1, <1>6, <2>3, TypeIs DEF ReadRegistry, RegistryType, Row
    <3>2. req'[r].pc = "hydrate" /\ req'[r].account = row.owner
      BY <3>1, GoesEffect DEF Reading
    <3>3. row.owner \in req[r].seen
      BY <2>1, <2>3, ResolveOwner DEF Resolve
    <3>. QED
      BY <1>4, <1>5, <1>6, <3>2, <3>3 DEF ReadRegistry, Reading, RequestInv
  <2>4. CASE row.owner # Null /\ ~row.verified
    <3>1. Goes(r, "resolved", Null)
      BY <1>6, <2>4 DEF ReadRegistry
    <3>2. req'[r].pc = "resolved" /\ req'[r].account = Null
      BY <3>1, GoesEffect DEF Reading
    <3>. QED
      BY <1>4, <1>5, <1>6, <3>2 DEF ReadRegistry, Reading, RequestInv
  <2>. QED
    BY <2>2, <2>3, <2>4
<1>7. CASE Hydrate(r)
  <2>1. req[r].account \in req[r].seen \cup {Null} /\ req[r].account \in Address \cup {Null}
    BY <1>1, <1>7, TypeIs DEF Aware, Hydrate, RequestState
  <2>2. req'[r].pc = "resolved" /\ req'[r].account = req[r].account
    BY <1>7, <2>1, GoesEffect DEF Hydrate
  <2>. QED
    BY <1>4, <1>5, <1>7, <2>1, <2>2 DEF Hydrate, Reading, RequestInv
<1>8. CASE ReadCurrent(r)
  <2>1. PastRegistry(r)
    BY <1>1, <1>8 DEF Aware, ReadCurrent
  <2>2. CASE Goes(r, "anchor", Null)
    <3>1. req'[r].pc = "anchor"
      BY <2>2, GoesEffect DEF Reading
    <3>. QED
      BY <1>4, <1>5, <1>8, <2>1, <3>1 DEF ReadCurrent, Reading, RequestInv
  <2>3. ASSUME NEW u \in Holders(Lower[e]), Goes(r, "resolved", u) PROVE RequestInv'
    <3>1. u \in Address \cup {Null}
      BY DEF Holders
    <3>2. req'[r].pc = "resolved" /\ req'[r].account = u
      BY <2>3, <3>1, GoesEffect
    <3>. QED
      BY <1>4, <1>5, <1>8, <2>1, <3>2 DEF ReadCurrent, Reading, RequestInv, PastRegistry
  <2>. QED
    BY <1>8, <2>2, <2>3 DEF ReadCurrent
<1>9. CASE ReadAnchor(r)
  <2>1. PastRegistry(r) /\ (current[e] = Null => e \in req[r].seen)
    BY <1>1, <1>9 DEF Aware, ReadAnchor, Reading
  <2>2. ByAnchor(current, e) \in req[r].seen \cup {Null} /\ ByAnchor(current, e) \in Address \cup {Null}
    BY <1>1, <2>1 DEF ByAnchor, PastRegistry, Holders
  <2>3. req'[r].pc = "resolved" /\ req'[r].account = ByAnchor(current, e)
    BY <1>9, <2>2, GoesEffect DEF ReadAnchor
  <2>. QED
    BY <1>4, <1>5, <1>9, <2>2, <2>3 DEF ReadAnchor, Reading, RequestInv
<1>. QED
  BY <1>6, <1>7, <1>8, <1>9

\* What a step of a change can make of the registry: no row loses its owner.
LEMMA RegistryGrows ==
  ASSUME TypeOK, ChangeInv, NEW c \in Change, Register(c) \/ RevokeAllVerified(c) \/ SetCurrentEmail(c) \/ ChangeEmail(c),
         NEW n \in Normal, registry[n].owner # Null
  PROVE  registry'[n].owner # Null
<1>. DEFINE u == change[c].who
            to == change[c].to
<1>1. u \in Address /\ to \in Normal /\ RegistryType(registry)
  BY TypeIs DEF ChangeInv, Register, RevokeAllVerified, SetCurrentEmail, ChangeEmail
<1>2. CASE Register(c)
  BY <1>1, <1>2, ClaimedEffect DEF Register
<1>3. CASE RevokeAllVerified(c)
  BY <1>1, <1>3, RevokedEffect DEF RevokeAllVerified
<1>4. CASE SetCurrentEmail(c)
  BY <1>4 DEF SetCurrentEmail
<1>5. CASE ChangeEmail(c)
  <2>. DEFINE claimed == [registry EXCEPT ![to] = Verified(u)]
  <2>1. RegistryType(claimed) /\ claimed[n].owner # Null
    BY <1>1, VerifiedType DEF RegistryType
  <2>2. Revoked(u, to, claimed)[n].owner # Null
    <3>. HIDE DEF claimed
    <3>. QED
      BY <1>1, <2>1, RevokedEffect
  <2>3. registry' = registry \/ registry' = Revoked(u, to, claimed)
    BY <1>5 DEF ChangeEmail, tables
  <2>. HIDE DEF claimed
  <2>. QED
    BY <2>2, <2>3
<1>. QED
  BY <1>2, <1>3, <1>4, <1>5

\* Where a change goes from the steps that write.
LEMMA WriteStep ==
  ASSUME NEW c \in Change, Register(c) \/ RevokeAllVerified(c) \/ SetCurrentEmail(c) \/ ChangeEmail(c)
  PROVE  /\ change[c].pc # "idle" /\ req' = Watched(req)
         /\ \E pc \in UnderWay \cup {"idle"} :
              /\ Step(c, pc)
              /\ pc \in {"revoke", "move", "idle"}
              /\ pc = "revoke" => Register(c) /\ registry' # registry
              /\ pc = "move" => RevokeAllVerified(c)
<1>1. CASE Register(c)
  <2>. DEFINE pc == IF registry' # registry /\ change[c].pc = "claim" THEN "revoke" ELSE "idle"
  <2>1. Step(c, pc) /\ change[c].pc # "idle" /\ req' = Watched(req)
    BY <1>1 DEF Register
  <2>2. pc \in {"revoke", "idle"} /\ (pc = "revoke" => registry' # registry)
    OBVIOUS
  <2>3. pc \in UnderWay \cup {"idle"}
    BY <2>2 DEF UnderWay
  <2>. HIDE DEF pc
  <2>. QED
    BY <1>1, <2>1, <2>2, <2>3
<1>2. CASE RevokeAllVerified(c)
  BY <1>2 DEF RevokeAllVerified, UnderWay
<1>3. CASE SetCurrentEmail(c) \/ ChangeEmail(c)
  BY <1>3 DEF SetCurrentEmail, ChangeEmail
<1>. QED
  BY <1>1, <1>2, <1>3

\* A change that is at its claim has its row.
LEMMA RegisterWrites ==
  ASSUME TypeOK, ChangeInv, NEW c \in Change, Register(c), registry' # registry
  PROVE  registry'[change[c].to] = Verified(change[c].who) /\ change[c].who \in Address
BY TypeIs, ClaimedEffect DEF ChangeInv, Register

LEMMA ClaimWrites ==
  ASSUME TypeOK, ChangeInv, ClaimInv, NEW c \in Change,
         Register(c) \/ RevokeAllVerified(c) \/ SetCurrentEmail(c) \/ ChangeEmail(c)
  PROVE  ClaimInv'
<1>1. PICK pc \in UnderWay \cup {"idle"} : /\ Step(c, pc)
                                           /\ pc \in {"revoke", "move", "idle"}
                                           /\ pc = "revoke" => Register(c) /\ registry' # registry
                                           /\ pc = "move" => RevokeAllVerified(c)
  BY WriteStep
<1>2. change[c].pc # "idle" /\ \A d \in Change : change[d].pc # "idle" => change[d].to \in Normal
  BY WriteStep DEF ChangeInv
<1> SUFFICES ASSUME NEW d \in Change, change'[d].pc \in {"revoke", "move"} PROVE registry'[change'[d].to].owner # Null
  BY DEF ClaimInv
<1>3. CASE d # c
  BY <1>1, <1>2, <1>3, StepEffect, RegistryGrows DEF ClaimInv
<1>4. CASE d = c
  <2>1. change'[c].pc = pc /\ change'[c].to = change[c].to
    BY <1>1, <1>4, StepEffect
  <2>2. CASE pc = "revoke"
    BY ZenonT(40), <1>1, <1>4, <2>1, <2>2, RegisterWrites, VerifiedType
  <2>3. CASE pc = "move"
    <3>1. change[c].pc = "revoke"
      BY <1>1, <2>3 DEF RevokeAllVerified
    <3>. QED
      BY <1>1, <1>2, <1>4, <2>1, <3>1, RegistryGrows DEF ClaimInv
  <2>. QED
    BY <1>1, <1>4, <2>1, <2>2, <2>3
<1>. QED
  BY <1>3, <1>4

\* Who comes to hold an address by a step of a change: nobody, or whoever has claimed it
\* and by that is what it resolves to, or has been seen.
LEMMA NewHolder ==
  ASSUME TypeOK, ChangeInv, NEW c \in Change, Register(c) \/ RevokeAllVerified(c) \/ SetCurrentEmail(c) \/ ChangeEmail(c),
         NEW u \in Address, current'[u] # current[u]
  PROVE  /\ u = change[c].who /\ current'[u] = change[c].to /\ current'[u] \in Normal
         /\ \/ change[c].pc = "move"
            \/ registry'[current'[u]] = Verified(u)
<1>. DEFINE who == change[c].who
            to == change[c].to
            claimed == [registry EXCEPT ![to] = Verified(who)]
<1>1. who \in Address /\ to \in Normal /\ RegistryType(registry) /\ CurrentType(current)
  BY TypeIs DEF ChangeInv, Register, RevokeAllVerified, SetCurrentEmail, ChangeEmail
<1>2. CASE SetCurrentEmail(c)
  BY <1>1, <1>2, MoveEffect DEF SetCurrentEmail
<1>3. CASE ChangeEmail(c)
  <2>1. ~HeldByAnother(c) /\ current' = [current EXCEPT ![who] = to] /\ registry' = Revoked(who, to, claimed)
    BY <1>3 DEF ChangeEmail, tables
  <2>2. u = who /\ current'[u] = to
    BY <1>1, <2>1, MoveEffect
  <2>3. RegistryType(claimed) /\ claimed[to] = Verified(who)
    BY <1>1, VerifiedType DEF RegistryType
  <2>4. registry'[to] = Verified(who)
    <3>. HIDE DEF claimed
    <3>. QED
      BY <1>1, <2>1, <2>3, RevokedEffect
  <2>. QED
    BY <1>1, <2>2, <2>4
<1>4. CASE Register(c) \/ RevokeAllVerified(c)
  BY <1>4 DEF Register, RevokeAllVerified
<1>. QED
  BY <1>2, <1>3, <1>4

LEMMA WriteAware ==
  ASSUME TypeOK, ChangeInv, RequestInv, NEW c \in Change,
         Register(c) \/ RevokeAllVerified(c) \/ SetCurrentEmail(c) \/ ChangeEmail(c)
  PROVE  RequestInv'
<1>1. PICK pc \in UnderWay \cup {"idle"} : /\ Step(c, pc)
                                           /\ pc \in {"revoke", "move", "idle"}
                                           /\ pc = "revoke" => Register(c) /\ registry' # registry
                                           /\ pc = "move" => RevokeAllVerified(c)
  BY WriteStep
<1>2. req \in [Request -> RequestState] /\ req' = Watched(req) /\ change[c].pc # "idle"
  BY WriteStep, TypeIs
<1>3. ASSUME NEW u \in Address, current'[u] = Null PROVE current[u] = Null
  BY <1>3, NewHolder, Names
<1>4. ASSUME NEW e \in Address, NEW u \in Address, registry'[Lower[e]] = Verified(u)
      PROVE  ResolveIn(current', registry', e) = u
  <2>1. registry'[Lower[e]].owner = u /\ registry'[Lower[e]].verified = TRUE /\ u # Null
    BY <1>4, VerifiedType
  <2>2. ResolveIn(current', registry', e) = IF registry'[Lower[e]].verified THEN registry'[Lower[e]].owner ELSE Null
    BY <2>1, ResolveOwner
  <2>. QED
    BY <2>1, <2>2
<1>5. ASSUME NEW e \in Address, NEW u \in Address, current'[u] = Lower[e]
      PROVE  \/ current[u] = Lower[e]
             \/ ResolveIn(current', registry', e) = u
             \/ \E d \in Change : Claiming(change, d) /\ change[d].to = Lower[e] /\ change[d].who = u
  BY <1>4, <1>5, NewHolder DEF Claiming
<1>6. ASSUME NEW d \in Change, Claiming(change', d)
      PROVE  \/ Claiming(change, d) /\ change[d].to = change'[d].to /\ change[d].who = change'[d].who
             \/ \A e \in Address : change'[d].to = Lower[e] => ResolveIn(current', registry', e) = change'[d].who
  <2>1. CASE d # c
    BY <1>1, <1>6, <2>1, StepEffect DEF Claiming
  <2>2. CASE d = c
    <3>1. change'[c].pc = pc /\ pc # "idle" /\ change'[c].who = change[c].who /\ change'[c].to = change[c].to
      BY <1>1, <1>6, <2>2, StepEffect DEF Claiming
    <3>2. CASE pc = "revoke"
      BY <1>1, <1>4, <2>2, <3>1, <3>2, RegisterWrites
    <3>3. CASE pc = "move"
      BY <1>1, <2>2, <3>1, <3>3 DEF RevokeAllVerified, Claiming
    <3>. QED
      BY <1>1, <3>1, <3>2, <3>3
  <2>. QED
    BY <2>1, <2>2
<1>. QED
  BY <1>2, <1>3, <1>5, <1>6, WatchedAware

LEMMA EnsureAware ==
  ASSUME TypeOK, RequestInv, NEW r \in Request, EnsureUserEmailExists(r)
  PROVE  RequestInv'
<1>. DEFINE state == [req EXCEPT ![r] = IdleRequest]
<1>1. /\ change' = change /\ state \in [Request -> RequestState] /\ req' = Watched(state)
      /\ \A u \in Address : current'[u] = current[u] \/ (current[u] = NoRow /\ current'[u] = Lower[u])
  BY EnsureEffect
<1>2. \A q \in Request : state[q].pc # "idle" => state[q] = req[q]
  BY IdleType, TypeIs
<1>3. \A u \in Address : current'[u] = Null => current[u] = Null
  BY <1>1, Names
<1>4. \A e, u \in Address : current'[u] = Lower[e] => current[u] = Lower[e] \/ u \in Made(e)
  BY <1>1 DEF Made
<1>5. \A d \in Change : Claiming(change', d) =>
        Claiming(change, d) /\ change[d].to = change'[d].to /\ change[d].who = change'[d].who
  BY <1>1 DEF Claiming
<1>. HIDE DEF state
<1>. QED
  BY <1>1, <1>2, <1>3, <1>4, <1>5, WatchedAware

\* A request that comes, or leaves.
LEMMA ComesAware ==
  ASSUME TypeOK, RequestInv, NEW r \in Request, Leave(r) \/ \E e \in Address : Arrive(r, e)
  PROVE  RequestInv'
<1>1. \A q \in Request \ {r} : req'[q] = req[q] /\ Aware(q)
  BY TypeIs DEF Leave, Arrive, RequestInv
<1>2. \A q \in Request \ {r} : Aware(q)'
  BY <1>1, StillAware DEF Leave, Arrive, changeVars
<1>3. Aware(r)'
  <2>1. CASE Leave(r)
    <3>1. req'[r] = IdleRequest
      BY <2>1, TypeIs DEF Leave
    <3>. QED
      BY <3>1, IdleType DEF Aware, Reading
  <2>2. ASSUME NEW e \in Address, Arrive(r, e) PROVE Aware(r)'
    <3>1. /\ req'[r].pc = "registry" /\ req'[r].address = e
          /\ req'[r].seen = {Resolve(e)} \cup Unmigrated(e)
      BY <2>2, TypeIs DEF Arrive
    <3>2. Resolve(e)' = Resolve(e) /\ current' = current
      BY <2>2 DEF Arrive, tables, Resolve
    <3>. QED
      BY <3>1, <3>2 DEF Aware, Unmigrated, Resolve
  <2>. QED
    BY <2>1, <2>2
<1>. QED
  BY <1>2, <1>3 DEF RequestInv

\* A change that begins, waits or dies.
LEMMA WaitsAware ==
  ASSUME TypeOK, ChangeInv, ClaimInv, RequestInv, NEW c \in Change,
         \/ QuietStep(c)
         \/ \E who \in Address, to \in Normal, pc \in {"claimed", "lookupLink", "takeover"} : Begin(c, who, to, pc)
  PROVE  ChangeInv' /\ ClaimInv' /\ RequestInv'
<1>. DEFINE Kept(d) == Claiming(change', d) =>
              Claiming(change, d) /\ change'[d].to = change[d].to /\ change'[d].who = change[d].who
<1>1. ASSUME UNCHANGED <<current, registry, req>>, \A d \in Change : Kept(d) PROVE ClaimInv' /\ RequestInv'
  <2>1. ClaimInv'
    BY <1>1 DEF ClaimInv, Claiming
  <2>. QED
    BY <1>1, <2>1, StillAware DEF RequestInv, tables
<1>2. CASE QuietStep(c)
  <2>1. PICK to \in UnderWay \cup {"idle"} : Waits(c, to)
    BY <1>2, QuietStepWaits
  <2>2. \A d \in Change : Kept(d)
    BY <2>1, StepEffect DEF Waits, Claiming
  <2>3. ChangeInv'
    BY <2>1, StepChange DEF Waits
  <2>. QED
    BY <1>1, <2>1, <2>2, <2>3 DEF Waits, tables
<1>3. ASSUME NEW who \in Address, NEW to \in Normal, NEW pc \in {"claimed", "lookupLink", "takeover"},
             Begin(c, who, to, pc)
      PROVE  ChangeInv' /\ ClaimInv' /\ RequestInv'
  <2>1. /\ \A d \in Change \ {c} : change'[d] = change[d]
        /\ change'[c] = [pc |-> pc, who |-> who, to |-> to]
    BY <1>3, TypeIs DEF Begin
  <2>2. \A d \in Change : Kept(d)
    BY <2>1 DEF Claiming
  <2>3. ChangeInv'
    BY <2>1 DEF ChangeInv
  <2>. QED
    BY <1>1, <1>3, <2>2, <2>3 DEF Begin, tables
<1>. QED
  BY <1>2, <1>3

Inv == TypeOK /\ ChangeInv /\ ClaimInv /\ RequestInv

LEMMA InvNext == Inv /\ [Next]_vars => Inv'
<1> SUFFICES ASSUME Inv, [Next]_vars PROVE Inv'
  OBVIOUS
<1>1. TypeOK'
  BY TypeNext DEF Inv
<1>2. CASE \E r \in Request : RequestStep(r)
  <2>1. PICK r \in Request : RequestStep(r)
    BY <1>2
  <2>2. change' = change /\ registry' = registry
    <3>1. CASE EnsureUserEmailExists(r)
      BY <3>1, EnsureEffect DEF Inv
    <3>2. CASE ReadRegistry(r) \/ Hydrate(r) \/ ReadCurrent(r) \/ ReadAnchor(r)
      BY <3>2, ReadEffect, GoesEffect DEF Inv
    <3>3. CASE Leave(r) \/ \E e \in Address : Arrive(r, e)
      BY <3>3 DEF Leave, Arrive, tables, changeVars
    <3>. QED
      BY <2>1, <3>1, <3>2, <3>3 DEF RequestStep
  <2>3. ChangeInv' /\ ClaimInv'
    BY <2>2 DEF Inv, ChangeInv, ClaimInv
  <2>4. RequestInv'
    BY <2>1, ReadAware, EnsureAware, ComesAware DEF Inv, RequestStep
  <2>. QED
    BY <1>1, <2>3, <2>4 DEF Inv
<1>3. CASE \E c \in Change : ChangeStep(c)
  <2>1. PICK c \in Change : ChangeStep(c)
    BY <1>3
  <2>2. CASE Register(c) \/ RevokeAllVerified(c) \/ SetCurrentEmail(c) \/ ChangeEmail(c)
    <3>1. change[c].pc # "idle" /\ \E pc \in UnderWay \cup {"idle"} : Step(c, pc)
      BY <2>2, WriteStep
    <3>2. ChangeInv'
      BY <3>1, StepChange DEF Inv
    <3>. QED
      BY <1>1, <2>2, <3>2, ClaimWrites, WriteAware DEF Inv
  <2>3. CASE \/ QuietStep(c)
             \/ \E who \in Address, to \in Normal, pc \in {"claimed", "lookupLink", "takeover"} : Begin(c, who, to, pc)
    BY <1>1, <2>3, WaitsAware DEF Inv
  <2>. QED
    BY <2>1, <2>2, <2>3 DEF ChangeStep, QuietStep
<1>4. CASE UNCHANGED vars
  <2>1. ChangeInv' /\ ClaimInv'
    BY <1>4 DEF vars, Inv, ChangeInv, ClaimInv
  <2>2. RequestInv'
    BY <1>4, StillAware DEF vars, Inv, RequestInv, Claiming, tables
  <2>. QED
    BY <1>1, <2>1, <2>2 DEF Inv
<1>. QED
  BY <1>2, <1>3, <1>4 DEF Next

LEMMA InvInit == Init => Inv
<1>1. Init => ChangeInv /\ ClaimInv /\ RequestInv
  BY IdleType DEF Init, ChangeInv, ClaimInv, RequestInv, Aware, Reading
<1>. QED
  BY <1>1, TypeInit DEF Inv

\* Requests and changes keep to what they may hold, no two accounts have one current
\* address, and no row of the registry is verified that has no owner.
THEOREM TypeCorrect == Spec => []TypeOK
<1>1. Inv => TypeOK
  BY DEF Inv
<1>. QED
  BY <1>1, InvInit, InvNext, PTL DEF Spec

\* A request acts for no account but one that its address did belong to, or that was made
\* with it, at some moment since the request came.
THEOREM RequestsActForTheirOwn == Spec => []ResolutionWasTrue
<1>1. Inv => ResolutionWasTrue
  BY DEF Inv, RequestInv, Aware, ResolutionWasTrue
<1>. QED
  BY <1>1, InvInit, InvNext, PTL DEF Spec

-----------------------------------------------------------------------------
(* Who keeps which address *)

LEMMA VerifiedRow ==
  ASSUME NEW reg, RegistryType(reg), NEW n \in Normal
  PROVE  /\ reg[n].verified \in BOOLEAN
         /\ reg[n].verified = TRUE => reg[n] = Verified(reg[n].owner) /\ reg[n].owner \in Address
         /\ \A u \in Address : reg[n] = Verified(u) <=> reg[n].verified = TRUE /\ reg[n].owner = u
<1>1. reg[n] \in Row /\ (reg[n].owner = Null => ~reg[n].verified)
  BY DEF RegistryType
<1>2. PICK o \in Address \cup {Null}, v \in BOOLEAN : reg[n] = [owner |-> o, verified |-> v]
  BY <1>1 DEF Row
<1>3. CASE v = TRUE
  <2>1. reg[n].owner = o /\ reg[n].verified = TRUE /\ reg[n] = Verified(o)
    BY <1>2, <1>3 DEF Verified
  <2>2. o \in Address
    BY <1>1, <2>1
  <2>3. \A u \in Address : Verified(o) = Verified(u) <=> o = u
    BY DEF Verified
  <2>. QED
    BY <2>1, <2>2, <2>3
<1>4. CASE v = FALSE
  BY <1>2, <1>4 DEF Verified
<1>. QED
  BY <1>2, <1>3, <1>4

Writes(c) == Register(c) \/ RevokeAllVerified(c) \/ SetCurrentEmail(c) \/ ChangeEmail(c)

\* A change that writes: none gains a row by it but its own account; and, with the script
\* alone, no other account loses one.
LEMMA RowsMove ==
  ASSUME Inv, HeldInv, NEW c \in Change, Writes(c), NEW n \in Normal
  PROVE  /\ RegistryType(registry')
         /\ ScriptAlone /\ registry[n].verified = TRUE =>
              /\ registry'[n].verified = TRUE => registry'[n] = registry[n]
              /\ registry[n].owner # change[c].who => registry'[n] = registry[n]
         /\ registry'[n].verified = TRUE =>
              registry'[n] = registry[n] \/ (n = change[c].to /\ registry'[n] = Verified(change[c].who))
<1>. DEFINE who == change[c].who
            to == change[c].to
            claimed == [registry EXCEPT ![to] = Verified(who)]
<1>1. who \in Address /\ to \in Normal /\ RegistryType(registry) /\ TypeOK
  BY TypeIs DEF Inv, ChangeInv, Writes, Register, RevokeAllVerified, SetCurrentEmail, ChangeEmail
<1>2. CASE Register(c)
  <2>1. registry' = Claimed(c)
    BY <1>2 DEF Register
  <2>2. /\ RegistryType(registry')
        /\ registry'[n] = registry[n] \/ (n = to /\ registry'[n] = Verified(who))
        /\ registry[n].verified = TRUE => registry'[n] = registry[n]
    BY <1>1, <2>1, ClaimedEffect
  <2>. QED
    BY <2>2
<1>3. CASE RevokeAllVerified(c)
  <2>1. registry' = Revoked(who, to, registry)
    BY <1>3 DEF RevokeAllVerified
  <2>2. /\ RegistryType(registry')
        /\ registry'[n].verified = TRUE => registry'[n] = registry[n]
        /\ registry[n].owner # who => registry'[n] = registry[n]
    BY <1>1, <2>1, RevokedEffect
  <2>. QED
    BY <2>2
<1>4. CASE SetCurrentEmail(c)
  BY <1>1, <1>4 DEF SetCurrentEmail
<1>5. CASE ChangeEmail(c)
  <2>1. registry' = registry \/ registry' = Revoked(who, to, claimed)
    BY <1>5 DEF ChangeEmail, tables
  <2>2. RegistryType(claimed) /\ claimed[to] = Verified(who) /\ \A m \in Normal \ {to} : claimed[m] = registry[m]
    BY <1>1, VerifiedType DEF RegistryType
  <2>3. ScriptAlone /\ registry[to].verified = TRUE => registry[to].owner = who
    BY <1>5 DEF HeldInv, CheckedInv, ChangeEmail, VerifiedOfAnother
  <2>4. ScriptAlone /\ registry[to].verified = TRUE => registry[to] = Verified(who)
    BY <1>1, <2>3, VerifiedRow
  <2>5. CASE registry' = Revoked(who, to, claimed)
    <3>. HIDE DEF claimed
    <3>1. /\ RegistryType(registry')
          /\ registry'[n].verified = TRUE => registry'[n] = claimed[n]
          /\ claimed[n].owner # who => registry'[n] = claimed[n]
          /\ registry'[to] = claimed[to]
      BY <1>1, <2>2, <2>5, RevokedEffect
    <3>2. CASE n = to
      BY <2>2, <2>4, <3>1, <3>2
    <3>3. CASE n # to
      BY <2>2, <3>1, <3>3
    <3>. QED
      BY <3>2, <3>3
  <2>. QED
    BY <1>1, <2>1, <2>5
<1>. QED
  BY <1>2, <1>3, <1>4, <1>5 DEF Writes

\* What the writer itself has of its rows.
LEMMA OwnRows ==
  ASSUME Inv, HeldInv, NEW c \in Change, Writes(c)
  PROVE  /\ AccountAlone /\ ScriptAlone /\ change[c].pc \in {"revoke", "move"} =>
              registry'[change[c].to] = Verified(change[c].who)
         /\ \/ AccountAlone /\ change[c].pc \in {"revoke", "move"}
            \/ ChangeEmail(c) /\ ~HeldByAnother(c)
            => \A n \in Normal \ {change[c].to} : registry'[n] # Verified(change[c].who)
         /\ ChangeEmail(c) => UNCHANGED registry \/ registry'[change[c].to] = Verified(change[c].who)
<1>. DEFINE who == change[c].who
            to == change[c].to
            claimed == [registry EXCEPT ![to] = Verified(who)]
<1>1. who \in Address /\ to \in Normal /\ RegistryType(registry)
  BY TypeIs DEF Inv, ChangeInv, Writes, Register, RevokeAllVerified, SetCurrentEmail, ChangeEmail
<1>2. CASE Register(c)
  BY <1>2 DEF Register, ChangeEmail
<1>3. CASE RevokeAllVerified(c)
  <2>1. change[c].pc = "revoke" /\ registry' = Revoked(who, to, registry) /\ ~ChangeEmail(c)
    BY <1>3 DEF RevokeAllVerified, ChangeEmail
  <2>2. AccountAlone /\ ScriptAlone => registry[to] = Verified(who)
    BY <2>1 DEF HeldInv, ClaimedInv
  <2>3. registry'[to] = registry[to] /\ \A n \in Normal \ {to} : registry'[n] # Verified(who)
    BY <1>1, <2>1, RevokedEffect
  <2>. QED
    BY <2>1, <2>2, <2>3
<1>4. CASE SetCurrentEmail(c)
  BY <1>4 DEF SetCurrentEmail, HeldInv, ClaimedInv, RevokedInv, ChangeEmail
<1>5. CASE ChangeEmail(c)
  <2>1. /\ change[c].pc = "batch"
        /\ registry' = registry \/ registry' = Revoked(who, to, claimed)
        /\ ~HeldByAnother(c) => registry' = Revoked(who, to, claimed)
    BY <1>5 DEF ChangeEmail, tables
  <2>2. RegistryType(claimed) /\ claimed[to] = Verified(who)
    BY <1>1, VerifiedType DEF RegistryType
  <2>. HIDE DEF claimed
  <2>3. Revoked(who, to, claimed)[to] = Verified(who) /\ \A n \in Normal \ {to} : Revoked(who, to, claimed)[n] # Verified(who)
    BY <1>1, <2>2, RevokedEffect
  <2>. QED
    BY <2>1, <2>3
<1>. QED
  BY <1>2, <1>3, <1>4, <1>5 DEF Writes

Keeping == AloneInv /\ HeldInv /\ LeftInv

\* The steps that leave the tables and the ghost of what was left alone.
Idles(c) ==
  \/ QuietStep(c)
  \/ \E who \in Address, to \in Normal, pc \in {"claimed", "lookupLink", "takeover"} : Begin(c, who, to, pc)

LEMMA IdlesKeep ==
  ASSUME Inv, Keeping, NEW c \in Change, Idles(c)
  PROVE  AloneInv' /\ HeldInv' /\ UNCHANGED <<current, registry, left>>
<1>1. CASE QuietStep(c)
  <2>1. PICK to \in UnderWay \cup {"idle"} : Waits(c, to)
    BY <1>1, QuietStepWaits
  <2>2. /\ \A d \in Change \ {c} : change'[d] = change[d]
        /\ change'[c].pc = to
        /\ to # "idle" => change'[c].who = change[c].who /\ change'[c].to = change[c].to
        /\ change[c].pc # "idle" /\ UNCHANGED <<current, registry, left>>
    BY <2>1, StepEffect DEF Waits, Inv, tables
  <2>3. to \in ScriptSteps => change[c].pc \in ScriptSteps
    BY <2>1 DEF Waits, ScriptSteps
  <2>4. AloneInv'
    BY <2>2, <2>3 DEF Keeping, AloneInv
  <2>5. /\ to \notin {"revoke", "move"}
        /\ ScriptAlone /\ to \in {"holder", "batch"} => ~VerifiedOfAnother(c)
    BY <2>1 DEF Waits, Keeping, HeldInv, CheckedInv
  <2>6. HeldInv'
    <3> SUFFICES ASSUME NEW d \in Change PROVE CheckedInv(d)' /\ ClaimedInv(d)' /\ RevokedInv(d)'
      BY DEF HeldInv
    <3>1. CASE d = c
      BY <2>2, <2>5, <3>1 DEF CheckedInv, ClaimedInv, RevokedInv, VerifiedOfAnother
    <3>2. CASE d # c
      BY <2>2, <3>2 DEF Keeping, HeldInv, CheckedInv, ClaimedInv, RevokedInv, VerifiedOfAnother
    <3>. QED
      BY <3>1, <3>2
  <2>. QED
    BY <2>2, <2>4, <2>6
<1>2. ASSUME NEW who \in Address, NEW to \in Normal, NEW pc \in {"claimed", "lookupLink", "takeover"},
             Begin(c, who, to, pc)
      PROVE  AloneInv' /\ HeldInv' /\ UNCHANGED <<current, registry, left>>
  <2>1. /\ \A d \in Change \ {c} : change'[d] = change[d]
        /\ change'[c] = [pc |-> pc, who |-> who, to |-> to]
        /\ UNCHANGED <<current, registry, left>>
    BY <1>2, TypeIs DEF Begin, Inv, tables
  <2>2. \A d \in Change \ {c} : change[d].pc # "idle" =>
          /\ AccountAlone => who # change[d].who
          /\ ScriptAlone => pc \notin ScriptSteps /\ change[d].pc \notin ScriptSteps
    BY <1>2 DEF Begin, MayBegin
  <2>3. AloneInv'
    BY <2>1, <2>2 DEF Keeping, AloneInv
  <2>4. HeldInv'
    BY <2>1 DEF Keeping, HeldInv, CheckedInv, ClaimedInv, RevokedInv, VerifiedOfAnother
  <2>. QED
    BY <2>1, <2>3, <2>4
<1>. QED
  BY <1>1, <1>2 DEF Idles

LEMMA WritesKeep ==
  ASSUME Inv, Keeping, NEW c \in Change, Writes(c)
  PROVE  AloneInv' /\ HeldInv'
<1>1. PICK pc \in UnderWay \cup {"idle"} : /\ Step(c, pc)
                                           /\ pc \in {"revoke", "move", "idle"}
                                           /\ pc = "revoke" => Register(c) /\ registry' # registry
                                           /\ pc = "move" => RevokeAllVerified(c)
  BY WriteStep DEF Writes
<1>2. /\ \A d \in Change \ {c} : change'[d] = change[d]
      /\ change'[c].pc = pc
      /\ pc # "idle" => change'[c].who = change[c].who /\ change'[c].to = change[c].to
  BY <1>1, StepEffect DEF Inv
<1>3. change[c].pc # "idle"
  BY WriteStep DEF Writes
<1>4. AloneInv'
  BY <1>1, <1>2, <1>3 DEF Keeping, AloneInv, ScriptSteps
<1>5. ASSUME NEW d \in Change, d # c, change[d].pc # "idle"
      PROVE  /\ change[d].who \in Address /\ change[d].to \in Normal
             /\ AccountAlone => change[d].who # change[c].who
             /\ ScriptAlone => change[d].pc \notin ScriptSteps
  BY <1>3, <1>5 DEF Keeping, AloneInv, Inv, ChangeInv
<1>6. ASSUME NEW d \in Change PROVE CheckedInv(d)' /\ ClaimedInv(d)' /\ RevokedInv(d)'
  <2>1. CASE d # c /\ change[d].pc # "idle"
    <3>1. change'[d] = change[d] /\ (ScriptAlone => change[d].pc \notin {"holder", "batch"})
      BY <1>2, <1>5, <2>1 DEF ScriptSteps
    <3>2. ASSUME AccountAlone, ScriptAlone, change[d].pc \in {"revoke", "move"}
          PROVE  registry'[change[d].to] = Verified(change[d].who)
      <4>1. registry[change[d].to] = Verified(change[d].who)
        BY <3>2 DEF Keeping, HeldInv, ClaimedInv
      <4>2. change[d].who \in Address /\ change[d].who # change[c].who
        BY <1>5, <2>1, <3>2
      <4>3. registry[change[d].to].verified = TRUE /\ registry[change[d].to].owner # change[c].who
        BY <4>1, <4>2, VerifiedType
      <4>. QED
        BY <1>5, <2>1, <3>2, <4>1, <4>3, RowsMove DEF Keeping
    <3>3. ASSUME AccountAlone, change[d].pc = "move", NEW n \in Normal \ {change[d].to}
          PROVE  registry'[n] # Verified(change[d].who)
      <4>1. registry[n] # Verified(change[d].who)
        BY <3>3 DEF Keeping, HeldInv, RevokedInv
      <4>2. ASSUME registry'[n] = Verified(change[d].who) PROVE FALSE
        <5>1. change[d].who \in Address /\ change[d].who # change[c].who
          BY <1>5, <2>1, <3>3
        <5>2. registry'[n].verified = TRUE /\ registry'[n].owner # change[c].who
          BY <4>2, <5>1, VerifiedType
        <5>3. change[c].who \in Address
          BY <1>3 DEF Inv, ChangeInv
        <5>. QED
          BY <4>1, <4>2, <5>2, <5>3, RowsMove, VerifiedType DEF Keeping
      <4>. QED
        BY <4>2
    <3>. QED
      BY <3>1, <3>2, <3>3 DEF CheckedInv, ClaimedInv, RevokedInv
  <2>2. CASE d # c /\ change[d].pc = "idle"
    BY <1>2, <2>2 DEF CheckedInv, ClaimedInv, RevokedInv
  <2>3. CASE d = c
    <3>1. CheckedInv(c)' /\ ClaimedInv(c)' /\ RevokedInv(c)'
      <4>1. CASE pc = "revoke"
        <5>1. registry'[change'[c].to] = Verified(change'[c].who)
          BY <1>1, <1>2, <4>1, RegisterWrites DEF Inv
        <5>. QED
          BY <1>2, <4>1, <5>1 DEF CheckedInv, ClaimedInv, RevokedInv
      <4>2. CASE pc = "move"
        <5>1. change[c].pc = "revoke"
          BY <1>1, <4>2 DEF RevokeAllVerified
        <5>. QED
          BY <1>2, <4>2, <5>1, OwnRows DEF Keeping, CheckedInv, ClaimedInv, RevokedInv
      <4>3. CASE pc = "idle"
        BY <1>2, <4>3 DEF CheckedInv, ClaimedInv, RevokedInv
      <4>. QED
        BY <1>1, <4>1, <4>2, <4>3
    <3>. QED
      BY <2>3, <3>1
  <2>. QED
    BY <2>1, <2>2, <2>3
<1>7. HeldInv'
  BY <1>6 DEF HeldInv
<1>. QED
  BY <1>4, <1>7

\* An account that moves holds only the address it moves to.
LEMMA MovesLeave ==
  ASSUME Inv, Keeping, NEW c \in Change, SetCurrentEmail(c) \/ ChangeEmail(c), ~HeldByAnother(c)
  PROVE  LeftInv'
<1>. DEFINE who == change[c].who
            to == change[c].to
<1>1. /\ who \in Address /\ to \in Normal /\ CurrentType(current) /\ RegistryType(registry) /\ TypeOK
      /\ left \subseteq Normal \X Address
  BY TypeIs DEF Inv, ChangeInv, SetCurrentEmail, ChangeEmail
<1>2. current' = [current EXCEPT ![who] = to] /\ Moved(who, to)
  BY DEF SetCurrentEmail, ChangeEmail
<1>3. \A u \in Address : current'[u] = IF u = who THEN to ELSE current[u]
  BY <1>1, <1>2, MoveEffect
<1>4. change[c].pc = "move" \/ ChangeEmail(c)
  BY DEF SetCurrentEmail
<1>5. AccountAlone => \A n \in Normal \ {to} : registry'[n] # Verified(who)
  BY <1>4, OwnRows DEF Keeping, Writes
<1> SUFFICES ASSUME AccountAlone, NEW n \in Normal, NEW u \in Address, <<n, u>> \in left'
             PROVE  current'[u] \in Normal \ {n} /\ registry'[n] # Verified(u)
  BY DEF LeftInv
<1>6. CASE u = who
  <2>1. n # to
    BY <1>2, <1>6 DEF Moved
  <2>. QED
    BY <1>1, <1>3, <1>5, <1>6, <2>1
<1>7. CASE u # who
  <2>1. <<n, u>> \in left
    BY <1>2, <1>7 DEF Moved
  <2>2. current[u] \in Normal \ {n} /\ registry[n] # Verified(u)
    BY <2>1 DEF Keeping, LeftInv
  <2>3. ASSUME registry'[n] = Verified(u) PROVE FALSE
    <3>1. registry'[n].verified = TRUE /\ registry'[n].owner = u
      BY <2>3, VerifiedType
    <3>. QED
      BY <1>1, <1>7, <2>2, <2>3, <3>1, RowsMove, VerifiedType DEF Keeping, Writes
  <2>. QED
    BY <1>3, <1>7, <2>2, <2>3
<1>. QED
  BY <1>6, <1>7

LEMMA LeftKept ==
  ASSUME Inv, Keeping, NEW c \in Change, Writes(c)
  PROVE  LeftInv'
<1>. DEFINE who == change[c].who
            to == change[c].to
<1>1. CASE SetCurrentEmail(c) \/ ChangeEmail(c)
  <2>1. CASE ~HeldByAnother(c)
    BY <1>1, <2>1, MovesLeave
  <2>2. CASE HeldByAnother(c)
    BY <1>1, <2>2 DEF SetCurrentEmail, ChangeEmail, tables, Keeping, LeftInv
  <2>. QED
    BY <2>1, <2>2
<1>2. CASE Register(c) \/ RevokeAllVerified(c)
  <2>1. who \in Address /\ to \in Normal
    BY <1>2 DEF Inv, ChangeInv, Register, RevokeAllVerified
  <2>2. /\ current' = current /\ left' \subseteq left
        /\ registry' # registry => (\A n \in Normal : registry'[n] = Verified(who) => registry[n] = Verified(who))
                                   \/ left' = left \ {<<to, who>>}
    <3>1. CASE Register(c)
      BY <3>1 DEF Register
    <3>2. CASE RevokeAllVerified(c)
      <4>1. registry' = Revoked(who, to, registry)
        BY <3>2 DEF RevokeAllVerified
      <4>2. registry'[to] = registry[to] /\ \A n \in Normal \ {to} : registry'[n] # Verified(who)
        BY <2>1, <4>1, RevokedEffect, TypeIs DEF Inv
      <4>. QED
        BY <3>2, <4>2 DEF RevokeAllVerified
    <3>. QED
      BY <1>2, <3>1, <3>2
  <2> SUFFICES ASSUME AccountAlone, NEW n \in Normal, NEW u \in Address, <<n, u>> \in left'
               PROVE  current'[u] \in Normal \ {n} /\ registry'[n] # Verified(u)
    BY DEF LeftInv
  <2>3. current[u] \in Normal \ {n} /\ registry[n] # Verified(u)
    BY <2>2 DEF Keeping, LeftInv
  <2>4. ASSUME registry'[n] = Verified(u) PROVE FALSE
    <3>1. registry'[n].verified = TRUE /\ registry'[n] # registry[n]
      BY <2>3, <2>4, VerifiedType
    <3>2. n = to /\ registry'[n] = Verified(who)
      BY <3>1, RowsMove DEF Keeping
    <3>3. u = who
      BY <2>1, <2>4, <3>2, VerifiedType
    <3>. QED
      BY <2>2, <2>3, <2>4, <3>1, <3>2, <3>3
  <2>. QED
    BY <2>2, <2>3, <2>4
<1>. QED
  BY <1>1, <1>2 DEF Writes

\* Only a change's own steps write the registry.
LEMMA RegistryKept ==
  ASSUME Inv, [Next]_vars, ~ \E c \in Change : Writes(c)
  PROVE  registry' = registry
<1>1. ASSUME NEW r \in Request, RequestStep(r) PROVE registry' = registry
  <2>1. CASE EnsureUserEmailExists(r)
    BY <2>1 DEF EnsureUserEmailExists
  <2>2. CASE ReadRegistry(r) \/ Hydrate(r) \/ ReadCurrent(r) \/ ReadAnchor(r)
    BY <2>2, ReadEffect DEF Inv, Goes, tables
  <2>3. CASE Leave(r) \/ \E e \in Address : Arrive(r, e)
    BY <2>3 DEF Leave, Arrive, tables
  <2>. QED
    BY <1>1, <2>1, <2>2, <2>3 DEF RequestStep
<1>2. ASSUME NEW c \in Change, QuietStep(c) PROVE registry' = registry
  BY <1>2, QuietStepWaits DEF Waits, tables
<1>3. ASSUME NEW c \in Change, NEW who, NEW to, NEW pc, Begin(c, who, to, pc) PROVE registry' = registry
  BY <1>3 DEF Begin, tables
<1>. QED
  BY <1>1, <1>2, <1>3 DEF Next, ChangeStep, Writes, QuietStep, vars

LEMMA KeepingNext ==
  ASSUME Inv, Keeping, [Next]_vars
  PROVE  Keeping'
<1>1. ASSUME UNCHANGED <<registry, change, left>>, \A u \in Address : current[u] \in Normal => current'[u] = current[u]
      PROVE  Keeping'
  <2>1. AloneInv' /\ HeldInv'
    BY <1>1 DEF Keeping, AloneInv, HeldInv, CheckedInv, ClaimedInv, RevokedInv, VerifiedOfAnother
  <2>2. LeftInv'
    BY <1>1 DEF Keeping, LeftInv
  <2>. QED
    BY <2>1, <2>2 DEF Keeping
<1>2. ASSUME NEW r \in Request, RequestStep(r) PROVE Keeping'
  <2>1. CASE EnsureUserEmailExists(r)
    BY <1>1, <2>1, EnsureEffect, Names DEF Inv
  <2>2. CASE ReadRegistry(r) \/ Hydrate(r) \/ ReadCurrent(r) \/ ReadAnchor(r)
    BY <1>1, <2>2, ReadEffect, GoesEffect DEF Inv
  <2>3. CASE Leave(r) \/ \E e \in Address : Arrive(r, e)
    BY <1>1, <2>3 DEF Leave, Arrive, tables, changeVars
  <2>. QED
    BY <1>2, <2>1, <2>2, <2>3 DEF RequestStep
<1>3. ASSUME NEW c \in Change, ChangeStep(c) PROVE Keeping'
  <2>1. CASE Writes(c)
    BY <2>1, WritesKeep, LeftKept DEF Keeping
  <2>2. CASE Idles(c)
    <3>1. AloneInv' /\ HeldInv' /\ UNCHANGED <<current, registry, left>>
      BY <2>2, IdlesKeep
    <3>. QED
      BY <3>1 DEF Keeping, LeftInv
  <2>. QED
    BY <1>3, <2>1, <2>2 DEF ChangeStep, QuietStep, Writes, Idles
<1>4. CASE UNCHANGED vars
  BY <1>1, <1>4 DEF vars
<1>. QED
  BY <1>2, <1>3, <1>4 DEF Next

LEMMA KeepingInit == Init => Keeping
BY IdleType DEF Init, Keeping, AloneInv, HeldInv, CheckedInv, ClaimedInv, RevokedInv, LeftInv, VerifiedOfAnother

\* An address that an account has moved away from does not resolve to it again, unless it
\* is claimed anew, whatever the script runs beside.
THEOREM MovedAwayIsAway == ASSUME AccountAlone PROVE Spec => []LeftIsLeft
<1>1. ASSUME Inv, Keeping PROVE LeftIsLeft
  <2> SUFFICES ASSUME NEW e \in Address, NEW u \in Address, <<Lower[e], u>> \in left, Resolve(e) = u PROVE FALSE
    BY DEF LeftIsLeft
  <2>. DEFINE n == Lower[e]
  <2>1. n \in Normal /\ CurrentType(current) /\ RegistryType(registry) /\ u # Null
    BY <1>1, Names, TypeIs, VerifiedType DEF Inv
  <2>2. current[u] \in Normal \ {n} /\ registry[n] # Verified(u)
    BY <1>1, <2>1 DEF Keeping, LeftInv
  <2>3. CASE registry[n].owner # Null
    <3>1. registry[n].verified \in BOOLEAN
      BY <2>1, VerifiedRow
    <3>2. Resolve(e) = IF registry[n].verified THEN registry[n].owner ELSE Null
      BY <2>3, ResolveOwner DEF Resolve
    <3>3. registry[n].verified = TRUE /\ registry[n].owner = u
      BY <2>1, <3>1, <3>2
    <3>. QED
      BY <2>1, <2>2, <3>3, VerifiedRow
  <2>4. CASE registry[n].owner = Null /\ \E v \in Address : current[v] = n
    <3>1. PICK v \in Address : current[v] = n
      BY <2>4
    <3>2. Resolve(e) = v
      BY <2>1, <2>4, <3>1, ResolveHolder DEF Resolve
    <3>. QED
      BY <2>2, <3>1, <3>2
  <2>5. CASE registry[n].owner = Null /\ ~ \E v \in Address : current[v] = n
    <3>1. Resolve(e) = ByAnchor(current, e)
      BY <2>5 DEF Resolve, ResolveIn
    <3>. QED
      BY <2>1, <2>2, <3>1, Names DEF ByAnchor
  <2>. QED
    BY <2>3, <2>4, <2>5
<1>2. Inv /\ Keeping /\ [Next]_vars => Inv' /\ Keeping'
  BY InvNext, KeepingNext
<1>3. Init => Inv /\ Keeping
  BY InvInit, KeepingInit
<1>. QED
  BY <1>1, <1>2, <1>3, PTL DEF Spec

\* A verified address is not handed to another account: it is revoked first,
\* however many changes of one account are made at once.
THEOREM VerifiedIsNotHandedOver == ASSUME ScriptAlone PROVE Spec => VerifiedRowKeepsOwner
<1>1. ASSUME Inv, Keeping, [Next]_vars
      PROVE  [\A n \in Normal : registry[n].verified /\ registry'[n].verified
                => registry'[n].owner = registry[n].owner]_vars
  <2>1. ASSUME NEW n \in Normal, registry[n].verified, registry'[n].verified
        PROVE  registry'[n].owner = registry[n].owner
    <3>1. CASE \E c \in Change : Writes(c)
      <4>1. PICK c \in Change : Writes(c)
        BY <3>1
      <4>2. RegistryType(registry')
        BY <1>1, <4>1, RowsMove DEF Keeping
      <4>3. registry[n].verified = TRUE /\ registry'[n].verified = TRUE
        BY <1>1, <2>1, <4>2, VerifiedRow, TypeIs DEF Inv
      <4>. QED
        BY <1>1, <4>1, <4>3, RowsMove DEF Keeping
    <3>2. CASE registry' = registry
      BY <3>2
    <3>. QED
      BY <1>1, <3>1, <3>2, RegistryKept
  <2>. QED
    BY <2>1
<1>2. Inv /\ Keeping /\ [Next]_vars => Inv' /\ Keeping'
  BY InvNext, KeepingNext
<1>3. Init => Inv /\ Keeping
  BY InvInit, KeepingInit
<1>. QED
  BY <1>1, <1>2, <1>3, PTL DEF Spec, VerifiedRowKeepsOwner

\* An account that signs in through the registry keeps an address it can sign in with,
\* whatever step a change stops at.
THEOREM NobodyIsLockedOut == ASSUME AccountAlone, ScriptAlone PROVE Spec => KeepsALogin
<1>1. ASSUME Inv, Keeping, [Next]_vars
      PROVE  [\A u \in Address : HasLogin(u) => HasLogin(u)']_vars
  <2>1. ASSUME NEW u \in Address, HasLogin(u) PROVE HasLogin(u)'
    <3>1. PICK n \in Normal : registry[n] = Verified(u)
      BY <2>1 DEF HasLogin
    <3>2. CASE \E c \in Change : Writes(c)
      <4>1. PICK c \in Change : Writes(c)
        BY <3>2
      <4>2. registry[n].verified = TRUE /\ registry[n].owner = u
        BY <3>1, VerifiedType
      <4>3. CASE u # change[c].who
        <5>1. registry'[n] = Verified(u)
          BY <1>1, <3>1, <4>1, <4>2, <4>3, RowsMove DEF Keeping
        <5>. QED
          BY <5>1 DEF HasLogin
      <4>4. CASE u = change[c].who
        <5>1. change[c].to \in Normal
          BY <1>1, <4>1 DEF Inv, ChangeInv, Writes, Register, RevokeAllVerified, SetCurrentEmail, ChangeEmail
        <5>2. CASE change[c].pc \in {"revoke", "move"} \/ ChangeEmail(c)
          <6>1. registry' = registry \/ registry'[change[c].to] = Verified(u)
            BY <1>1, <4>1, <4>4, <5>2, OwnRows DEF Keeping
          <6>. QED
            BY <3>1, <5>1, <6>1 DEF HasLogin
        <5>3. CASE Register(c)
          <6>1. registry'[n] = Verified(u)
            <7>1. registry' = Claimed(c) /\ change[c].who \in Address
              BY <1>1, <5>3 DEF Register, Inv, ChangeInv
            <7>. QED
              BY <1>1, <3>1, <4>2, <5>1, <7>1, ClaimedEffect DEF Inv
          <6>. QED
            BY <6>1 DEF HasLogin
        <5>. QED
          BY <4>1, <5>2, <5>3 DEF Writes, RevokeAllVerified, SetCurrentEmail
      <4>. QED
        BY <4>3, <4>4
    <3>3. CASE registry' = registry
      BY <3>1, <3>3 DEF HasLogin
    <3>. QED
      BY <1>1, <3>2, <3>3, RegistryKept
  <2>. QED
    BY <2>1
<1>2. Inv /\ Keeping /\ [Next]_vars => Inv' /\ Keeping'
  BY InvNext, KeepingNext
<1>3. Init => Inv /\ Keeping
  BY InvInit, KeepingInit
<1>. QED
  BY <1>1, <1>2, <1>3, PTL DEF Spec, KeepsALogin
=============================================================================
