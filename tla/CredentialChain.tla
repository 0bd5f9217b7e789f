--------------------------- MODULE CredentialChain ---------------------------
(***************************************************************************)
(* The credential chain of AccessBridge: the credentials table (D1), the   *)
(* cache of assumed sessions (KV), and the walks that resolve a principal  *)
(* through its trust chain.                                                *)
(*                                                                         *)
(* A row of the table holds base keys, the principal that assumes it, or   *)
(* both.  An interactive request walks from its target towards the base    *)
(* and stops early at a hop whose session is cached; the cron refresh and  *)
(* the collection tasks walk the whole chain.  Every await of a walk is a  *)
(* step of its own, so administrators, other walks and expiry interleave   *)
(* between the read of a row and the session minted from it.               *)
(*                                                                         *)
(* Cryptography, ARNs and clock times are abstracted: a session is known   *)
(* by whose it is and by the hops it was minted through.                   *)
(***************************************************************************)
EXTENDS Naturals, Sequences

CONSTANTS
  Principal,      \* principal ARNs
  NoPrincipal,    \* an empty assumed_by column
  NoSession,      \* a cache miss, or no credentials in hand
  Requests,       \* interactive assume-role requests
  Refreshers,     \* runs of the cron credential-cache refresh
  Collectors,     \* runs of a collection task, or of an admin chain test
  Admins,         \* administrators' requests that write the table
  Limit,          \* PRINCIPAL_TRUST_CHAIN_LIMIT
  MaxWrites,      \* bound on administrators' writes, for model checking
  InitialTables   \* tables the system may start from

Walker == Requests \cup Refreshers \cup Collectors

Row == [keys : {"none", "longterm", "temporary"},
        assumedBy : Principal \cup {NoPrincipal}]

NoRow == [keys |-> "none", assumedBy |-> NoPrincipal]

\* owner: "user" for a session named after the caller, "service" for a session
\* every caller may share, "base" for stored keys.  The rest are ghosts.  under: the
\* hops it was minted through, the nearest first, down to the base.  clean: no write of
\* an administrator had a step between the start of the minting walk and the put.
\* firm: nor of any walk that put a session it was minted from, and the row of no hop
\* under it was written since.
Session == [holder : Principal,
            under  : Seq(Principal),
            owner  : {"base", "service", "user"},
            kind   : {"longterm", "temporary"},
            token  : BOOLEAN,
            clean  : BOOLEAN,
            firm   : BOOLEAN]

ASSUME ChainAssumption ==
  /\ NoPrincipal \notin Principal
  /\ NoSession \notin Session
  /\ Requests \cap Refreshers = {}
  /\ Requests \cap Collectors = {}
  /\ Refreshers \cap Collectors = {}
  /\ Limit \in Nat \ {0}
  /\ MaxWrites \in Nat
  /\ InitialTables \subseteq [Principal -> Row]

VARIABLES
  credentials,    \* credentials[p]: the D1 row of p
  cache,          \* cache[p]: the KV entry of p
  cacheConfig,    \* principals registered for the cron refresh
  batch,          \* batch[w]: principals run w of the refresh has yet to walk
  walk,           \* walk[w]: where walk w is, and what it has read
  admin,          \* admin[a]: the write of administrator a under way
  writes,         \* table writes so far
  written,        \* ghost: every relationship ever stored
  unpurged        \* ghost: rows written whose cache entry was not dropped since

vars == <<credentials, cache, cacheConfig, batch, walk, admin, writes, written, unpurged>>

IdleWalk == [pc |-> "idle", trail |-> <<>>, next |-> 0, cred |-> NoSession, clean |-> TRUE]
IdleAdmin == [pc |-> "idle", p |-> NoPrincipal, relate |-> FALSE]

Edges(table) == {e \in Principal \X Principal : table[e[1]].assumedBy = e[2]}

Init ==
  /\ credentials \in InitialTables
  /\ cache = [p \in Principal |-> NoSession]
  /\ cacheConfig = {p \in Principal : credentials[p].assumedBy # NoPrincipal}
  /\ batch = [w \in Refreshers |-> {}]
  /\ walk = [w \in Walker |-> IdleWalk]
  /\ admin = [a \in Admins |-> IdleAdmin]
  /\ writes = 0
  /\ written = Edges(credentials)
  /\ unpurged = {}

-----------------------------------------------------------------------------
(* Walks *)

tableVars == <<credentials, batch, admin, writes, written, unpurged>>

Become(w, state) == walk' = [walk EXCEPT ![w] = state]

\* A run of the refresh reads its batch of registered principals, once.
ReadBatch(w) ==
  /\ walk[w].pc = "idle"
  /\ \E b \in SUBSET cacheConfig \ {{}} : batch' = [batch EXCEPT ![w] = b]
  /\ UNCHANGED <<credentials, cache, cacheConfig, walk, admin, writes, written, unpurged>>

\* A request starts at its target (access has been verified); the refresh takes the
\* next principal of its batch, registered still or not; a collection or a chain test
\* takes any principal.
Start(w, p) ==
  /\ walk[w].pc = "idle"
  /\ w \in Refreshers => p \in batch[w]
  /\ Become(w, [IdleWalk EXCEPT !.pc = "read", !.trail = <<p>>])
  /\ batch' = [v \in Refreshers |-> IF v = w THEN batch[v] \ {p} ELSE batch[v]]
  /\ UNCHANGED <<credentials, cache, cacheConfig, admin, writes, written, unpurged>>

Tip(w) == walk[w].trail[Len(walk[w].trail)]

\* Slip: the boundary hop is looked up as well.
ConsultsCacheAtBoundary(w, hops) == w \in Requests /\ 1 < hops /\ hops <= Limit

\* Only an interactive walk consults the cache, past its target and short of the
\* last hop the limit allows.
ConsultsCache(w, hops) == w \in Requests /\ 1 < hops /\ hops < Limit

\* The session a walk takes from the cache.  (Ghost: of an entry that a write has yet to
\* drop nothing is known.)
Cached(hop) == [cache[hop] EXCEPT !.firm = cache[hop].firm /\ hop \notin unpurged]

LookUp(w) ==
  /\ walk[w].pc = "lookup"
  /\ Become(w, IF cache[Tip(w)] # NoSession
                 THEN [walk[w] EXCEPT !.pc = "scan", !.next = 2, !.cred = Cached(Tip(w))]
                 ELSE [walk[w] EXCEPT !.pc = "read"])
  /\ UNCHANGED <<cache, cacheConfig, tableVars>>

BaseSession(p) ==
  [holder |-> p, under |-> <<>>, owner |-> "base",
   kind |-> credentials[p].keys, token |-> credentials[p].keys = "temporary",
   clean |-> TRUE, firm |-> TRUE]

\* Slip: the walk does not stop at a row that nothing assumes.
ReadRowPastBase(w) ==
  /\ walk[w].pc = "read"
  /\ Len(walk[w].trail) < Limit
  /\ Become(w, [walk[w] EXCEPT !.trail = Append(walk[w].trail, credentials[Tip(w)].assumedBy)])
  /\ UNCHANGED <<cache, cacheConfig, tableVars>>

\* A row that names a principal that assumes it extends the trail, unless the
\* limit is reached; a row without one ends it, and must hold keys.
ReadRow(w) ==
  LET hops == Len(walk[w].trail)
      row  == credentials[Tip(w)]
  IN
  /\ walk[w].pc = "read"
  /\ \/ /\ row.assumedBy # NoPrincipal
        /\ hops < Limit
        /\ Become(w, [walk[w] EXCEPT
             !.pc = IF ConsultsCache(w, hops + 1) THEN "lookup" ELSE "read",
             !.trail = Append(walk[w].trail, row.assumedBy)])
     \/ /\ row.assumedBy = NoPrincipal
        /\ row.keys # "none"
        /\ hops > 1
        /\ Become(w, [walk[w] EXCEPT
             !.pc = IF w \in Requests THEN "scan" ELSE "assume",
             !.next = IF w \in Requests THEN 2 ELSE hops - 1,
             !.cred = BaseSession(Tip(w))])
     \/ \* too deep, no such row, no keys, or long-term keys asked for
        /\ \/ row.assumedBy # NoPrincipal /\ hops >= Limit
           \/ row.assumedBy = NoPrincipal /\ (row.keys = "none" \/ hops = 1)
        /\ Become(w, IdleWalk)
  /\ UNCHANGED <<cache, cacheConfig, tableVars>>

\* The scan finds a cached hop, and the hop above it is assumed next.
Reuse(w, hop) ==
  [walk[w] EXCEPT !.pc = "assume", !.next = walk[w].next - 1, !.cred = Cached(hop)]

\* Slip: when the cached hop is gone the request resolves its chain again.
ScanRestarts(w) ==
  LET hop == walk[w].trail[walk[w].next] IN
  /\ walk[w].pc = "scan"
  /\ Become(w, IF cache[hop] # NoSession
                 THEN Reuse(w, hop)
                 ELSE [IdleWalk EXCEPT !.pc = "read", !.trail = <<walk[w].trail[1]>>])
  /\ UNCHANGED <<cache, cacheConfig, tableVars>>

\* The request looks again for the cached hop closest to its target.  When none is
\* left it falls back on the key pair of the walk, without its session token.
Scan(w) ==
  LET hop  == walk[w].trail[walk[w].next]
      bare == [walk[w].cred EXCEPT !.token = FALSE]
  IN
  /\ walk[w].pc = "scan"
  /\ \/ /\ cache[hop] # NoSession
        /\ Become(w, Reuse(w, hop))
     \/ /\ cache[hop] = NoSession
        /\ walk[w].next < Len(walk[w].trail)
        /\ Become(w, [walk[w] EXCEPT !.next = walk[w].next + 1])
     \/ /\ cache[hop] = NoSession
        /\ walk[w].next = Len(walk[w].trail)
        /\ Become(w, [walk[w] EXCEPT !.pc = "assume", !.next = walk[w].next - 1, !.cred = bare])
  /\ UNCHANGED <<cache, cacheConfig, tableVars>>

\* The hops a session speaks for, itself first.
ChainOf(session) == <<session.holder>> \o session.under

Minted(w) ==
  [holder |-> walk[w].trail[walk[w].next], under |-> ChainOf(walk[w].cred),
   owner |-> IF w \in Requests /\ walk[w].next = 1 THEN "user" ELSE "service",
   kind |-> "temporary", token |-> TRUE, clean |-> TRUE, firm |-> walk[w].cred.firm]

\* With the session of a hop in hand the walk goes on to the hop above, if any.
Onward(w, session) ==
  IF walk[w].next = 1
    THEN [walk[w] EXCEPT !.pc = "done", !.cred = session]
    ELSE [walk[w] EXCEPT !.pc = "assume", !.next = walk[w].next - 1, !.cred = session]

\* Slip: the target's session is cached as well.
CachesTarget(w) == w \notin Collectors

\* Requests and the refresh cache the sessions of intermediate hops, never the target's.
Caches(w) == w \notin Collectors /\ walk[w].next > 1

\* Slip: the loop over the hops ends before the target.
AssumeStopsShort(w) ==
  /\ walk[w].pc = "assume"
  /\ w \in Refreshers => walk[w].next > 1
  /\ Become(w, IF walk[w].next = 2
                 THEN [walk[w] EXCEPT !.pc = "done", !.cred = Minted(w)]
                 ELSE Onward(w, Minted(w)))
  /\ UNCHANGED <<cache, cacheConfig, tableVars>>

\* STS mints the session of a hop.  It accepts a temporary key pair only with its
\* session token.
Assume(w) ==
  /\ walk[w].pc = "assume"
  /\ w \in Refreshers => walk[w].next > 1
  /\ walk[w].cred.kind = "temporary" => walk[w].cred.token
  /\ Become(w, IF Caches(w)
                 THEN [walk[w] EXCEPT !.pc = "store", !.cred = Minted(w)]
                 ELSE Onward(w, Minted(w)))
  /\ UNCHANGED <<cache, cacheConfig, tableVars>>

\* The session just minted is put in the cache, whatever was written meanwhile.
Store(w) ==
  LET hop   == walk[w].trail[walk[w].next]
      entry == [walk[w].cred EXCEPT !.clean = walk[w].clean,
                                    !.firm = walk[w].cred.firm /\ walk[w].clean]
  IN
  /\ walk[w].pc = "store"
  /\ cache' = [cache EXCEPT ![hop] = entry]
  /\ Become(w, Onward(w, walk[w].cred))
  /\ UNCHANGED <<cacheConfig, tableVars>>

\* The answer is sent; the refresh, which never assumes its target, is finished.
Finish(w) ==
  /\ \/ walk[w].pc = "done"
     \/ w \in Refreshers /\ walk[w].pc = "assume" /\ walk[w].next = 1
  /\ Become(w, IdleWalk)
  /\ UNCHANGED <<cache, cacheConfig, tableVars>>

\* Any await may throw: D1, KV, or STS refusing the hop.
WalkFails(w) ==
  /\ walk[w].pc \in {"lookup", "read", "scan", "assume", "store"}
  /\ Become(w, IdleWalk)
  /\ UNCHANGED <<cache, cacheConfig, tableVars>>

\* An entry reaches its expiry, or no longer decrypts: a read drops it.
Expire(p) ==
  /\ cache[p] # NoSession
  /\ cache' = [cache EXCEPT ![p] = NoSession]
  /\ UNCHANGED <<cacheConfig, walk, tableVars>>

-----------------------------------------------------------------------------
(* Administrators *)

\* Ghost: the walks under way are no longer clean.
Disturbed == [w \in Walker |->
                IF walk[w].pc = "idle" THEN walk[w] ELSE [walk[w] EXCEPT !.clean = FALSE]]

\* Ghost: the entries minted through the row written are no longer firm.  The write
\* does not touch them.
Undercut(p) ==
  [q \in Principal |->
     IF cache[q] # NoSession /\ \E i \in 1..Len(cache[q].under) : cache[q].under[i] = p
       THEN [cache[q] EXCEPT !.firm = FALSE]
       ELSE cache[q]]

\* Slip: a principal that holds keys is taken for a base and deregistered.
StoreCredentialDeregisters(a, p, keys) ==
  /\ admin[a].pc = "idle"
  /\ writes < MaxWrites
  /\ credentials' = [credentials EXCEPT ![p].keys = keys]
  /\ cacheConfig' = cacheConfig \ {p}
  /\ writes' = writes + 1
  /\ walk' = Disturbed
  /\ UNCHANGED <<cache, batch, admin, written, unpurged>>

\* New keys replace the old; an assumed_by already stored is kept.
StoreCredential(a, p, keys) ==
  /\ admin[a].pc = "idle"
  /\ writes < MaxWrites
  /\ keys # "none"
  /\ credentials' = [credentials EXCEPT ![p].keys = keys]
  /\ writes' = writes + 1
  /\ walk' = Disturbed
  /\ UNCHANGED <<cache, cacheConfig, batch, admin, written, unpurged>>

\* First step of storing a relationship: the row.  Keys already stored are kept.
StoreRelationship(a, p, q) ==
  /\ admin[a].pc = "idle"
  /\ writes < MaxWrites
  /\ credentials' = [credentials EXCEPT ![p].assumedBy = q]
  /\ admin' = [admin EXCEPT ![a] = [pc |-> "purge", p |-> p, relate |-> TRUE]]
  /\ writes' = writes + 1
  /\ written' = written \cup {<<p, q>>}
  /\ unpurged' = unpurged \cup {p}
  /\ walk' = Disturbed
  /\ cache' = Undercut(p)
  /\ UNCHANGED <<cacheConfig, batch>>

\* First step of a removal: the row, and by the foreign key its registration.
RemoveCredential(a, p) ==
  /\ admin[a].pc = "idle"
  /\ writes < MaxWrites
  /\ credentials' = [credentials EXCEPT ![p] = NoRow]
  /\ cacheConfig' = cacheConfig \ {p}
  /\ admin' = [admin EXCEPT ![a] = [pc |-> "purge", p |-> p, relate |-> FALSE]]
  /\ writes' = writes + 1
  /\ unpurged' = unpurged \cup {p}
  /\ walk' = Disturbed
  /\ cache' = Undercut(p)
  /\ UNCHANGED <<batch, written>>

\* Slip: only a principal still registered is thought to be cached.
InvalidateRegistered(a) ==
  LET p == admin[a].p IN
  /\ admin[a].pc = "purge"
  /\ cache' = IF p \in cacheConfig THEN [cache EXCEPT ![p] = NoSession] ELSE cache
  /\ admin' = [admin EXCEPT ![a].pc = "register"]
  /\ unpurged' = unpurged \ {p}
  /\ walk' = Disturbed
  /\ UNCHANGED <<credentials, cacheConfig, batch, writes, written>>

\* Second step of either: the cache entry of the principal written, and only that.
InvalidateCachedCredential(a) ==
  LET p == admin[a].p IN
  /\ admin[a].pc = "purge"
  /\ cache' = [cache EXCEPT ![p] = NoSession]
  /\ admin' = [admin EXCEPT ![a].pc = "register"]
  /\ unpurged' = unpurged \ {p}
  /\ walk' = Disturbed
  /\ UNCHANGED <<credentials, cacheConfig, batch, writes, written>>

\* Last step: the registration for the refresh, whose foreign key needs the row.
Register(a) ==
  LET p == admin[a].p IN
  /\ admin[a].pc = "register"
  /\ admin[a].relate => credentials[p] # NoRow
  /\ cacheConfig' = IF admin[a].relate THEN cacheConfig \cup {p} ELSE cacheConfig \ {p}
  /\ admin' = [admin EXCEPT ![a] = IdleAdmin]
  /\ UNCHANGED <<credentials, cache, batch, walk, writes, written, unpurged>>

\* The request dies between two of its steps; the rest is never done.
AdminFails(a) ==
  /\ admin[a].pc # "idle"
  /\ admin' = [admin EXCEPT ![a] = IdleAdmin]
  /\ UNCHANGED <<credentials, cache, cacheConfig, batch, walk, writes, written, unpurged>>

-----------------------------------------------------------------------------

WalkStep(w) ==
  \/ LookUp(w) \/ ReadRow(w) \/ Scan(w)
  \/ Assume(w) \/ Store(w)
  \/ Finish(w) \/ WalkFails(w)

AdminStep(a) ==
  \/ \E p \in Principal, keys \in {"longterm", "temporary"} : StoreCredential(a, p, keys)
  \/ \E p, q \in Principal : StoreRelationship(a, p, q)
  \/ \E p \in Principal : RemoveCredential(a, p)
  \/ InvalidateCachedCredential(a)
  \/ Register(a)
  \/ AdminFails(a)

Next ==
  \/ \E w \in Refreshers : ReadBatch(w)
  \/ \E w \in Walker : WalkStep(w) \/ \E p \in Principal : Start(w, p)
  \/ \E p \in Principal : Expire(p)
  \/ \E a \in Admins : AdminStep(a)

Spec == Init /\ [][Next]_vars

-----------------------------------------------------------------------------
(* Properties *)

WalkState == [pc    : {"idle", "lookup", "read", "scan", "assume", "store", "done"},
              trail : Seq(Principal),
              next  : Nat,
              cred  : Session \cup {NoSession},
              clean : BOOLEAN]

AdminState ==
  {IdleAdmin} \cup [pc : {"purge", "register"}, p : Principal, relate : BOOLEAN]

TypeOK ==
  /\ credentials \in [Principal -> Row]
  /\ cache \in [Principal -> Session \cup {NoSession}]
  /\ cacheConfig \subseteq Principal
  /\ batch \in [Refreshers -> SUBSET Principal]
  /\ walk \in [Walker -> WalkState]
  /\ admin \in [Admins -> AdminState]
  /\ writes \in Nat
  /\ written \subseteq Principal \X Principal
  /\ unpurged \subseteq Principal

\* What a request hands out is a session of exactly the role asked for, in the
\* caller's name: never a stored key pair, never another hop's session, never one
\* shared between callers.
ServedSessionIsTheTargets ==
  \A w \in Requests : walk[w].pc = "done" =>
    /\ walk[w].cred.holder = walk[w].trail[1]
    /\ walk[w].cred.owner = "user"
    /\ walk[w].cred.kind = "temporary" /\ walk[w].cred.token

\* The cache holds, under each principal, a shareable session of that principal,
\* minted from one that some stored relationship let assume it.  No user's session,
\* no base keys and no misfiled hop is ever served to the next caller.
CachedSessionsAreShareable ==
  \A p \in Principal : cache[p] # NoSession =>
    /\ cache[p].holder = p
    /\ cache[p].owner = "service"
    /\ cache[p].token
    /\ cache[p].under # <<>> /\ <<p, cache[p].under[1]>> \in written

\* A cached session that speaks for a relationship the table no longer has was
\* minted by a walk that a write overlapped, or the write has not dropped it (yet):
\* the invalidation of CredentialStoreService leaves no other way.
CleanEntryIsCurrent ==
  \A p \in Principal :
    cache[p] # NoSession /\ cache[p].clean /\ p \notin unpurged
      => credentials[p].assumedBy = cache[p].under[1]

\* A path through a table: each hop's row names the next, and the last holds keys.
IsChain(table, path) ==
  /\ \A i \in 1..(Len(path) - 1) : table[path[i]].assumedBy = path[i + 1]
  /\ table[path[Len(path)]].assumedBy = NoPrincipal
  /\ table[path[Len(path)]].keys # "none"

\* The walk of the table alone, as the cron does it, yields a session.
ColdServes(p) ==
  \E n \in 2..Limit : \E path \in [1..n -> Principal] : path[1] = p /\ IsChain(credentials, path)

\* However many writes came before, a request that no write overlaps, and whose session
\* no write undercut, is served along a chain that the table holds, every hop of it
\* down to the base; within the default limit the walk of the table alone would have
\* served it too.  So the cache can make an answer stale in one way only: a row below a
\* cached hop was written, or a write overlapped the walk that cached it.
WarmAgreesWithCold ==
  \A w \in Requests :
    walk[w].pc = "done" /\ walk[w].clean /\ walk[w].cred.firm
      => /\ IsChain(credentials, ChainOf(walk[w].cred))
         /\ Limit <= 3 => ColdServes(walk[w].trail[1])

\* CredentialChainService says that a re-pointed chain cannot hide behind a hit of the
\* cache, because the write drops the hop's entry, and that this walk and the walk of
\* the table must agree.  A request that no write overlaps, when every write has run to
\* its end and no walk that a write overlapped has cached anything, is then served only
\* if the walk of the table alone would serve it.
RepointedChainIsRefused ==
  \A w \in Requests :
    /\ walk[w].pc = "done" /\ walk[w].clean
    /\ unpurged = {} /\ \A a \in Admins : admin[a].pc = "idle"
    /\ \A p \in Principal : cache[p] # NoSession => cache[p].clean
    => ColdServes(walk[w].trail[1])

\* A role registered for the refresh stays registered as long as something assumes it,
\* whatever else is stored for it or removed elsewhere.  (With one administrator at a
\* time: two can interleave a removal with a relationship stored anew.)
RelatedRolesAreRegistered ==
  [][\A p \in Principal :
       p \in cacheConfig /\ p \notin cacheConfig' => credentials'[p].assumedBy = NoPrincipal]_vars

\* The awaits a walk still has before it, at most: up to two for each hop it may yet
\* find, then one for each hop it scans, and two for each hop it assumes.
AwaitsLeft(w) ==
  LET hops == Len(walk[w].trail)
      next == walk[w].next
  IN  CASE walk[w].pc = "idle"   -> 0
        [] walk[w].pc = "done"   -> 1
        [] walk[w].pc = "store"  -> 2 * next - 1
        [] walk[w].pc = "assume" -> 2 * next
        [] walk[w].pc = "scan"   -> 3 * hops - next
        [] walk[w].pc = "read"   -> 3 * Limit + 2 * (Limit - hops) + 1
        [] walk[w].pc = "lookup" -> 3 * Limit + 2 * (Limit - hops) + 2

\* Every step of a walk under way takes it nearer its end, and no step of anybody else
\* sets it back: whatever the table says, cycles included, and however administrators
\* rewrite it or entries expire meanwhile, no walk runs on for ever.
WalksRunDown ==
  [][\A w \in Walker :
       walk[w].pc # "idle" =>
         /\ AwaitsLeft(w)' \in Nat
         /\ \/ AwaitsLeft(w)' < AwaitsLeft(w)
            \/ walk'[w] = [walk[w] EXCEPT !.clean = walk'[w].clean]]_vars
=============================================================================
