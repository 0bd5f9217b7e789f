------------------------------ MODULE Identity -------------------------------
(***************************************************************************)
(* Who an address is: accounts, the registry of their addresses, the       *)
(* resolution of the address a request comes with, and the changes of an   *)
(* account's sign-in address, by the service or by the operator's script.  *)
(*                                                                         *)
(* An account is known by its anchor, the address it was provisioned with, *)
(* which never changes; its id stands in one-to-one relation to it.        *)
(* Addresses are written in any case; the registry and current_email hold  *)
(* the lower-cased form.  The schema is that of migration 0032.            *)
(***************************************************************************)
EXTENDS Naturals

CONSTANTS
  Address,     \* addresses as people write them
  Lower,       \* Lower[e] is e in lower case
  Null,        \* no account, no address
  NoRow,       \* no row in user_metadata
  Request,     \* requests under way at once
  Change,      \* changes under way at once
  MaxChanges,  \* bound on the changes begun
  AccountAlone,  \* whether the changes of one account are made one at a time
  ScriptAlone    \* whether the script is run while no other change is under way

ASSUME IdentityAssumption ==
  /\ Lower \in [Address -> Address]
  /\ \A e \in Address : Lower[Lower[e]] = Lower[e]
  /\ Null \notin Address /\ NoRow \notin Address /\ Null # NoRow
  /\ MaxChanges \in Nat /\ AccountAlone \in BOOLEAN /\ ScriptAlone \in BOOLEAN

Normal == {Lower[e] : e \in Address}

VARIABLES
  current,    \* current[u]: current_email in the row of the account with anchor u
  registry,   \* registry[n]: the row of user_emails for n
  req,        \* req[r]: how far request r has resolved its address
  change,     \* change[c]: how far change c is
  begun,      \* changes begun
  left        \* ghost: <<n, u>> when u has moved, and n is not the address it moved to

vars == <<current, registry, req, change, begun, left>>

Unregistered == [owner |-> Null, verified |-> FALSE]
Verified(u) == [owner |-> u, verified |-> TRUE]
IdleRequest == [pc |-> "idle", address |-> Null, account |-> Null, seen |-> {}]
IdleChange == [pc |-> "idle", who |-> Null, to |-> Null]

Accounts == {u \in Address : current[u] # NoRow}
Holders(n) == {u \in Address : current[u] = n}

\* Migration 0032 gives a current address to each account whose lower-cased anchor no
\* other has, and registers it.
Migrated(old) ==
  LET alone(u) == \A v \in old : Lower[v] = Lower[u] => v = u IN
  /\ current = [u \in Address |-> IF u \notin old THEN NoRow ELSE IF alone(u) THEN Lower[u] ELSE Null]
  /\ registry = [n \in Normal |->
       IF \E u \in old : alone(u) /\ Lower[u] = n
         THEN Verified(CHOOSE u \in old : Lower[u] = n) ELSE Unregistered]

Init ==
  /\ \E old \in SUBSET Address : Migrated(old)
  /\ req = [r \in Request |-> IdleRequest]
  /\ change = [c \in Change |-> IdleChange]
  /\ begun = 0
  /\ left = {}

-----------------------------------------------------------------------------
(* Resolution *)

\* Slip: an account may be found by its anchor wherever it has moved.
ByAnchorMoved(cur, e) == IF cur[e] # NoRow THEN e ELSE Null

\* The account with anchor e, unless its address has moved away from it.
ByAnchor(cur, e) == IF cur[e] \in {Null, Lower[e]} THEN e ELSE Null

\* What load answers for e when the tables are these all the while it reads.
ResolveIn(cur, reg, e) ==
  LET row == reg[Lower[e]]
      holders == {u \in Address : cur[u] = Lower[e]} IN
  IF row.owner # Null THEN IF row.verified THEN row.owner ELSE Null
  ELSE IF holders # {} THEN CHOOSE u \in holders : TRUE
  ELSE ByAnchor(cur, e)

Resolve(e) == ResolveIn(current, registry, e)

Reading == {"registry", "hydrate", "current", "anchor"}

\* Accounts that this step makes with e as their address.
Made(e) == {u \in Address : current[u] = NoRow /\ current'[u] = Lower[e]}

\* Requests that are resolving see what their address resolves to after this step, and
\* who is made with it.
Watched(state) ==
  [r \in Request |-> IF state[r].pc \in Reading
     THEN [state[r] EXCEPT !.seen = @ \cup {ResolveIn(current', registry', state[r].address)} \cup Made(state[r].address)]
     ELSE state[r]]

tables == <<current, registry>>
changeVars == <<change, begun, left>>

\* The account with anchor e, if the migration gave it no current address.
Unmigrated(e) == {u \in {e} : current[u] = Null}

Arrive(r, e) ==
  /\ req[r].pc = "idle"
  /\ req' = [req EXCEPT ![r] = [pc |-> "registry", address |-> e, account |-> Null,
                                seen |-> {Resolve(e)} \cup Unmigrated(e)]]
  /\ UNCHANGED <<tables, changeVars>>

Goes(r, pc, account) ==
  /\ req' = [req EXCEPT ![r].pc = pc, ![r].account = account]
  /\ UNCHANGED <<tables, changeVars>>

\* A registered address is settled here: a revoked one resolves to nobody.
ReadRegistry(r) ==
  LET row == registry[Lower[req[r].address]] IN
  /\ req[r].pc = "registry"
  /\ IF row.owner = Null THEN Goes(r, "current", Null)
     ELSE IF row.verified THEN Goes(r, "hydrate", row.owner)
     ELSE Goes(r, "resolved", Null)

\* Accounts are never deleted, so the id of a registry row has a row of its own.
Hydrate(r) ==
  /\ req[r].pc = "hydrate"
  /\ Goes(r, "resolved", req[r].account)

ReadCurrent(r) ==
  LET holders == Holders(Lower[req[r].address]) IN
  /\ req[r].pc = "current"
  /\ IF holders = {} THEN Goes(r, "anchor", Null)
     ELSE \E u \in holders : Goes(r, "resolved", u)

ReadAnchor(r) ==
  /\ req[r].pc = "anchor"
  /\ Goes(r, "resolved", ByAnchor(current, req[r].address))

\* What the statements of the request are keyed on; an unknown address is its own.
OwnerAnchor(r) == IF req[r].account = Null THEN req[r].address ELSE req[r].account

\* INSERT OR IGNORE: neither the anchor nor the current address may be taken.
EnsureUserEmailExists(r) ==
  LET e == OwnerAnchor(r) IN
  /\ req[r].pc = "resolved"
  /\ current' = IF current[e] = NoRow /\ Holders(Lower[e]) = {}
                  THEN [current EXCEPT ![e] = Lower[e]] ELSE current
  /\ UNCHANGED registry
  /\ req' = Watched([req EXCEPT ![r] = IdleRequest])
  /\ UNCHANGED changeVars

\* Slip: the memo of a resolution outlives its request.
LeaveWithMemo(r) ==
  /\ req[r].pc = "resolved"
  /\ \/ req' = [req EXCEPT ![r] = IdleRequest]
     \/ req' = [req EXCEPT ![r].seen = {Resolve(req[r].address)}]
  /\ UNCHANGED <<tables, changeVars>>

\* The memo of a resolution goes with the request that made it.
Leave(r) ==
  /\ req[r].pc = "resolved"
  /\ req' = [req EXCEPT ![r] = IdleRequest]
  /\ UNCHANGED <<tables, changeVars>>

RequestStep(r) ==
  \/ \E e \in Address : Arrive(r, e)
  \/ ReadRegistry(r) \/ Hydrate(r) \/ ReadCurrent(r) \/ ReadAnchor(r)
  \/ EnsureUserEmailExists(r) \/ Leave(r)

-----------------------------------------------------------------------------
(* Changes of address *)

ScriptSteps == {"takeover", "holder", "batch"}

\* What is assumed of the operators: an account has one change at a time, and the script
\* is run while no other change is under way.
MayBegin(c, who, pc) ==
  \A d \in Change \ {c} : change[d].pc # "idle" =>
    /\ AccountAlone => who # change[d].who
    /\ ScriptAlone => pc \notin ScriptSteps /\ change[d].pc \notin ScriptSteps

\* The address reported for u.
Reported(u) == IF current[u] = Null THEN Lower[u] ELSE current[u]

\* A change the user asks for is none when it is to the address he has.  The operator's
\* script has no such test, and a link has no check but that of the registry.
Begin(c, who, to, pc) ==
  /\ change[c].pc = "idle" /\ begun < MaxChanges
  /\ who \in Accounts
  /\ pc = "claimed" => Reported(who) # to
  /\ MayBegin(c, who, pc)
  /\ change' = [change EXCEPT ![c] = [pc |-> pc, who |-> who, to |-> to]]
  /\ begun' = begun + 1
  /\ UNCHANGED <<tables, req, left>>

\* A refused or failed change leaves what it has done.
Step(c, pc) == change' = [change EXCEPT ![c] = IF pc = "idle" THEN IdleChange ELSE [change[c] EXCEPT !.pc = pc]]

Proceeds(c, from, ok, to) ==
  /\ change[c].pc = from
  /\ Step(c, IF ok THEN to ELSE "idle")
  /\ UNCHANGED <<tables, req, begun, left>>

VerifiedOfAnother(c) ==
  registry[change[c].to].verified /\ registry[change[c].to].owner # change[c].who

\* Slip: nobody looks, nor does an index, whether another account holds the address.
HeldUnseen(c) == FALSE

HeldByAnother(c) == Holders(change[c].to) \ {change[c].who} # {}

\* isClaimedByOther: two reads.
ClaimedInRegistry(c) == Proceeds(c, "claimed", ~VerifiedOfAnother(c), "current")
ClaimedAsCurrent(c) == Proceeds(c, "current", ~HeldByAnother(c), "lookup")

\* register: a read, then a conditional upsert.
LookUpBeforeClaim(c) ==
  \/ Proceeds(c, "lookup", ~registry[change[c].to].verified, "claim")
  \/ Proceeds(c, "lookupLink", ~registry[change[c].to].verified, "claimLink")

\* Slip: the upsert is unconditional, as the read before it found no verified row.
ClaimedUnchecked(c) == [registry EXCEPT ![change[c].to] = Verified(change[c].who)]

\* What the upsert makes of the registry: a verified row is left alone.
Claimed(c) ==
  IF registry[change[c].to].verified THEN registry
  ELSE [registry EXCEPT ![change[c].to] = Verified(change[c].who)]

\* Slip: the revocation spares no address.
RevokedAll(u, to, table) ==
  [n \in Normal |-> IF table[n].owner = u THEN [table[n] EXCEPT !.verified = FALSE] ELSE table[n]]

\* Every other address of u stops authenticating it.
Revoked(u, to, table) ==
  [n \in Normal |-> IF n # to /\ table[n].owner = u
                      THEN [table[n] EXCEPT !.verified = FALSE] ELSE table[n]]

Register(c) ==
  /\ change[c].pc \in {"claim", "claimLink"}
  /\ registry' = Claimed(c)
  /\ UNCHANGED current
  /\ left' = IF registry' = registry THEN left ELSE left \ {<<change[c].to, change[c].who>>}
  /\ Step(c, IF registry' # registry /\ change[c].pc = "claim" THEN "revoke" ELSE "idle")
  /\ req' = Watched(req)
  /\ UNCHANGED begun

RevokeAllVerified(c) ==
  /\ change[c].pc = "revoke"
  /\ registry' = Revoked(change[c].who, change[c].to, registry)
  /\ UNCHANGED current
  /\ Step(c, "move")
  /\ req' = Watched(req)
  /\ UNCHANGED <<begun, left>>

Moved(u, to) == left' = (left \ {<<to, u>>}) \cup {<<n, u>> : n \in Normal \ {to}}

\* The unique index on current_email refuses an address that another account holds.
SetCurrentEmail(c) ==
  /\ change[c].pc = "move"
  /\ IF HeldByAnother(c)
       THEN UNCHANGED <<current, left>>
       ELSE /\ current' = [current EXCEPT ![change[c].who] = change[c].to]
            /\ Moved(change[c].who, change[c].to)
  /\ UNCHANGED registry
  /\ Step(c, "idle")
  /\ req' = Watched(req)
  /\ UNCHANGED begun

\* The script: two checks, then claim, move and revoke in one batch.  Its claim is
\* unconditional, and the batch fails as a whole on the unique index.
TakeoverCheck(c) == Proceeds(c, "takeover", ~VerifiedOfAnother(c), "holder")
OtherHolderCheck(c) == Proceeds(c, "holder", ~HeldByAnother(c), "batch")

ChangeEmail(c) ==
  LET u == change[c].who to == change[c].to IN
  /\ change[c].pc = "batch"
  /\ IF HeldByAnother(c)
       THEN UNCHANGED <<tables, left>>
       ELSE /\ registry' = Revoked(u, to, [registry EXCEPT ![to] = Verified(u)])
            /\ current' = [current EXCEPT ![u] = to]
            /\ Moved(u, to)
  /\ Step(c, "idle")
  /\ req' = Watched(req)
  /\ UNCHANGED begun

\* A statement fails, or the process ends, between any two steps.
Die(c) ==
  /\ change[c].pc # "idle"
  /\ Step(c, "idle")
  /\ UNCHANGED <<tables, req, begun, left>>

ChangeStep(c) ==
  \/ \E who \in Address, to \in Normal, pc \in {"claimed", "lookupLink", "takeover"} : Begin(c, who, to, pc)
  \/ ClaimedInRegistry(c) \/ ClaimedAsCurrent(c) \/ LookUpBeforeClaim(c)
  \/ Register(c) \/ RevokeAllVerified(c) \/ SetCurrentEmail(c)
  \/ TakeoverCheck(c) \/ OtherHolderCheck(c) \/ ChangeEmail(c)
  \/ Die(c)

-----------------------------------------------------------------------------

Next == (\E r \in Request : RequestStep(r)) \/ (\E c \in Change : ChangeStep(c))

Spec == Init /\ [][Next]_vars

-----------------------------------------------------------------------------
(* Properties *)

TypeOK ==
  /\ current \in [Address -> Normal \cup {Null, NoRow}]
  /\ \A u, v \in Address : current[u] = current[v] /\ current[u] \in Normal => u = v
  /\ registry \in [Normal -> [owner : Address \cup {Null}, verified : BOOLEAN]]
  /\ \A n \in Normal : registry[n].owner = Null => ~registry[n].verified
  /\ req \in [Request -> [pc      : Reading \cup {"idle", "resolved"},
                          address : Address \cup {Null},
                          account : Address \cup {Null},
                          seen    : SUBSET (Address \cup {Null})]]
  /\ change \in [Change -> [pc  : {"idle", "claimed", "current", "lookup", "claim", "revoke", "move",
                                   "lookupLink", "claimLink"} \cup ScriptSteps,
                            who : Address \cup {Null},
                            to  : Normal \cup {Null}]]
  /\ begun \in 0..MaxChanges
  /\ left \subseteq Normal \X Address

\* The reads of a resolution are not one: still, a request acts for no account but one
\* that its address did belong to at some moment since the request came.  (It may find
\* nobody although the address was never without an account.)  Two accounts may be found
\* that it never resolved to, once another account has claimed it in the registry behind
\* the first read: one that another request made with the address, and one with this very
\* anchor that the migration gave no address, when the holder of it has moved away.
ResolutionWasTrue ==
  \A r \in Request : req[r].pc = "resolved" => req[r].account \in req[r].seen \cup {Null}

\* A verified address is not handed to another account, however claims, revocations
\* and sign-ins interleave: it has to be revoked first.  The script, whose claim has no
\* condition, must be alone for that.
VerifiedRowKeepsOwner ==
  [][\A n \in Normal : registry[n].verified /\ registry'[n].verified
       => registry'[n].owner = registry[n].owner]_vars

HasLogin(u) == \E n \in Normal : registry[n] = Verified(u)

\* "Claiming first means the account is never locked out": an account that signs in
\* through the registry keeps an address it can sign in with, whatever step a change
\* stops at.  Two changes of one account would revoke each other's claims.
KeepsALogin == [][\A u \in Address : HasLogin(u) => HasLogin(u)']_vars

\* An address that an account has moved away from does not resolve to it again, unless
\* it is claimed anew, as a second change of the account may meanwhile.
LeftIsLeft ==
  \A e \in Address, u \in Address : <<Lower[e], u>> \in left => Resolve(e) # u
=============================================================================
