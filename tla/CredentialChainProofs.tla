------------------------ MODULE CredentialChainProofs ------------------------
(***************************************************************************)
(* For any principals, walkers, limit, administrators and starting table:  *)
(* what a request is handed, what the cache may hold, when a cached        *)
(* session may speak for a relationship that is gone, along which chain a  *)
(* request is served, and that every walk runs down; for one               *)
(* administrator, that registrations stay.                                 *)
(*                                                                         *)
(* The inductive invariant follows a walk: every hop of its trail was a    *)
(* stored relationship, it is still stored if no write overlapped the      *)
(* walk, and the credentials in hand are always those of the hop just      *)
(* below the one assumed next.  Of what is cached and in hand it says      *)
(* through which hops it was minted: while the ghost firm says that no     *)
(* write undercut them, the table holds that chain down to its base.       *)
(***************************************************************************)
EXTENDS CredentialChain, TLAPS

\* What holds of a walk under way.
TrailIsWritten(w) ==
  LET t == walk[w].trail IN
  \A i \in 1..(Len(t) - 1) : <<t[i], t[i + 1]>> \in written

CleanTrailIsCurrent(w) ==
  LET t == walk[w].trail IN
  walk[w].clean => \A i \in 1..(Len(t) - 1) : credentials[t[i]].assumedBy = t[i + 1]

CredIsTheHopBelow(w) ==
  LET t == walk[w].trail IN
  /\ walk[w].pc = "idle" => Len(t) = 0
  /\ walk[w].pc \in {"lookup", "read"} => Len(t) >= 1
  /\ walk[w].pc = "lookup" => Len(t) > 1
  /\ walk[w].pc = "scan" =>
       /\ walk[w].next \in 2..Len(t)
       /\ walk[w].cred # NoSession
       /\ walk[w].cred.holder = t[Len(t)]
  /\ walk[w].pc = "assume" =>
       /\ walk[w].next \in 1..(Len(t) - 1)
       /\ walk[w].cred # NoSession
       /\ walk[w].cred.holder = t[walk[w].next + 1]
  /\ walk[w].pc = "store" =>
       /\ walk[w].next \in 2..(Len(t) - 1)
       /\ walk[w].cred # NoSession
       /\ walk[w].cred.holder = t[walk[w].next]
       /\ walk[w].cred.under # <<>> /\ walk[w].cred.under[1] = t[walk[w].next + 1]
       /\ walk[w].cred.owner = "service"
       /\ walk[w].cred.token
  /\ walk[w].pc = "done" =>
       /\ Len(t) >= 1
       /\ walk[w].cred # NoSession
       /\ walk[w].cred.holder = t[1] /\ walk[w].cred.under # <<>>
       /\ w \in Requests => walk[w].cred.owner = "user"
       /\ walk[w].cred.kind = "temporary" /\ walk[w].cred.token

WalkOK(w) == TrailIsWritten(w) /\ CleanTrailIsCurrent(w) /\ CredIsTheHopBelow(w)

WalksOK == \A w \in Walker : WalkOK(w)

RowsAreWritten ==
  \A p \in Principal : credentials[p].assumedBy # NoPrincipal =>
    <<p, credentials[p].assumedBy>> \in written

\* The inductive invariant.
IInv ==
  /\ TypeOK
  /\ RowsAreWritten
  /\ WalksOK
  /\ CachedSessionsAreShareable
  /\ CleanEntryIsCurrent

-----------------------------------------------------------------------------
(* Types *)

LEMMA IdleWalkType == IdleWalk \in WalkState
BY DEF IdleWalk, WalkState

LEMMA DisturbedType ==
  ASSUME TypeOK
  PROVE  Disturbed \in [Walker -> WalkState]
BY DEF TypeOK, Disturbed, WalkState

-----------------------------------------------------------------------------
(* Steps of a walk *)

\* A step of w that leaves the table and the cache alone preserves the invariant as
\* soon as it does so for w, whatever it takes from a batch.
LEMMA StepOfBatch ==
  ASSUME IInv, NEW w \in Walker, NEW r \in WalkState,
         Become(w, r),
         UNCHANGED <<credentials, cache, cacheConfig, admin, writes, written, unpurged>>,
         batch' \in [Refreshers -> SUBSET Principal],
         WalkOK(w)'
  PROVE  IInv'
<1>1. TypeOK'
  BY DEF IInv, TypeOK, Become
<1>2. RowsAreWritten' /\ CachedSessionsAreShareable' /\ CleanEntryIsCurrent'
  BY DEF IInv, RowsAreWritten, CachedSessionsAreShareable, CleanEntryIsCurrent
<1>3. ASSUME NEW v \in Walker, v # w PROVE WalkOK(v)'
  <2>1. walk'[v] = walk[v]
    BY <1>3 DEF IInv, TypeOK, Become
  <2>2. WalkOK(v)
    BY DEF IInv, WalksOK
  <2>. QED
    BY <2>1, <2>2 DEF WalkOK, TrailIsWritten, CleanTrailIsCurrent, CredIsTheHopBelow
<1>. QED
  BY <1>1, <1>2, <1>3 DEF IInv, WalksOK

LEMMA StepOfWalk ==
  ASSUME IInv, NEW w \in Walker, NEW r \in WalkState,
         Become(w, r),
         UNCHANGED <<cache, cacheConfig, tableVars>>,
         WalkOK(w)'
  PROVE  IInv'
<1>1. batch' \in [Refreshers -> SUBSET Principal]
  BY DEF IInv, TypeOK, tableVars
<1>. QED
  BY <1>1, StepOfBatch DEF tableVars

\* A walk that ends, for whatever reason, leaves nothing behind.
LEMMA EndOfWalk ==
  ASSUME IInv, NEW w \in Walker,
         Become(w, IdleWalk),
         UNCHANGED <<cache, cacheConfig, tableVars>>
  PROVE  IInv'
<1>1. walk'[w] = IdleWalk
  BY DEF IInv, TypeOK, Become
<1>2. WalkOK(w)'
  BY <1>1 DEF WalkOK, TrailIsWritten, CleanTrailIsCurrent, CredIsTheHopBelow, IdleWalk
<1>. QED
  BY <1>2, IdleWalkType, StepOfWalk

LEMMA ReadBatchStep ==
  ASSUME IInv, NEW w \in Refreshers, ReadBatch(w)
  PROVE  IInv'
<1>1. TypeOK'
  BY DEF IInv, TypeOK, ReadBatch
<1>2. WalksOK'
  BY DEF IInv, WalksOK, WalkOK, TrailIsWritten, CleanTrailIsCurrent, CredIsTheHopBelow, ReadBatch
<1>3. RowsAreWritten' /\ CachedSessionsAreShareable' /\ CleanEntryIsCurrent'
  BY DEF IInv, RowsAreWritten, CachedSessionsAreShareable, CleanEntryIsCurrent, ReadBatch
<1>. QED
  BY <1>1, <1>2, <1>3 DEF IInv

LEMMA StartStep ==
  ASSUME IInv, NEW w \in Walker, NEW p \in Principal, Start(w, p)
  PROVE  IInv'
<1> DEFINE r == [IdleWalk EXCEPT !.pc = "read", !.trail = <<p>>]
<1>1. <<p>> \in Seq(Principal) /\ Len(<<p>>) = 1
  OBVIOUS
<1>2. r.pc = "read" /\ r.trail = <<p>>
  BY DEF IdleWalk
<1>3. r \in WalkState
  BY <1>1, IdleWalkType DEF WalkState, IdleWalk
<1>4. Become(w, r) /\ walk'[w] = r
  BY DEF Start, IInv, TypeOK, Become
<1> HIDE DEF r
<1>5. WalkOK(w)'
  <2>1. walk'[w].trail = <<p>> /\ Len(walk'[w].trail) - 1 = 0 /\ walk'[w].pc = "read"
    BY <1>1, <1>2, <1>4
  <2>2. TrailIsWritten(w)' /\ CleanTrailIsCurrent(w)'
    BY <2>1 DEF TrailIsWritten, CleanTrailIsCurrent
  <2>3. CredIsTheHopBelow(w)'
    BY <2>1, <1>1 DEF CredIsTheHopBelow
  <2>. QED
    BY <2>2, <2>3 DEF WalkOK
<1>6. batch' \in [Refreshers -> SUBSET Principal]
  BY DEF Start, IInv, TypeOK
<1>. QED
  BY <1>3, <1>4, <1>5, <1>6, StepOfBatch DEF Start

\* What a walk takes from the cache is the entry, but for what is known of its rows.
LEMMA CachedFacts ==
  ASSUME TypeOK, NEW p \in Principal, cache[p] # NoSession
  PROVE  /\ Cached(p) \in Session /\ Cached(p) # NoSession
         /\ Cached(p).holder = cache[p].holder
         /\ Cached(p).under = cache[p].under
         /\ Cached(p).firm => cache[p].firm /\ p \notin unpurged
<1>1. cache[p] \in Session
  BY DEF TypeOK
<1>2. Cached(p) \in Session
  BY <1>1 DEF Cached, Session
<1>3. Cached(p) # NoSession
  BY <1>2, ChainAssumption
<1>4. /\ Cached(p).holder = cache[p].holder
      /\ Cached(p).under = cache[p].under
      /\ Cached(p).firm = (cache[p].firm /\ p \notin unpurged)
  BY <1>1 DEF Cached, Session
<1>. QED
  BY <1>2, <1>3, <1>4

LEMMA LookUpStep ==
  ASSUME IInv, NEW w \in Walker, LookUp(w)
  PROVE  IInv'
<1> DEFINE r == IF cache[Tip(w)] # NoSession
                  THEN [walk[w] EXCEPT !.pc = "scan", !.next = 2, !.cred = Cached(Tip(w))]
                  ELSE [walk[w] EXCEPT !.pc = "read"]
<1>1. /\ walk[w] \in WalkState /\ walk[w].pc = "lookup" /\ Len(walk[w].trail) > 1
      /\ WalkOK(w)
  BY DEF IInv, TypeOK, WalksOK, WalkOK, CredIsTheHopBelow, LookUp
<1>2. Tip(w) \in Principal
  BY <1>1 DEF WalkState, Tip
<1>3. /\ r \in WalkState /\ r.trail = walk[w].trail /\ r.clean = walk[w].clean
      /\ \/ /\ r.pc = "scan" /\ r.next = 2 /\ r.cred = Cached(Tip(w))
            /\ cache[Tip(w)] # NoSession /\ r.cred # NoSession
         \/ r.pc = "read"
  <2>1. CASE cache[Tip(w)] # NoSession
    BY <1>1, <1>2, <2>1, CachedFacts DEF IInv, WalkState
  <2>2. CASE cache[Tip(w)] = NoSession
    BY <1>1, <2>2 DEF WalkState
  <2>. QED
    BY <2>1, <2>2
<1>4. Become(w, r) /\ walk'[w] = r
  BY DEF LookUp, IInv, TypeOK, Become
<1>5. cache[Tip(w)] # NoSession => Cached(Tip(w)).holder = Tip(w)
  BY <1>2, CachedFacts DEF IInv, CachedSessionsAreShareable
<1> HIDE DEF r
<1>6. TrailIsWritten(w)' /\ CleanTrailIsCurrent(w)'
  BY <1>1, <1>3, <1>4 DEF WalkOK, TrailIsWritten, CleanTrailIsCurrent, LookUp, tableVars
<1>7. CredIsTheHopBelow(w)'
  BY <1>1, <1>3, <1>4, <1>5 DEF CredIsTheHopBelow, Tip, WalkState
<1>. QED
  BY <1>3, <1>4, <1>6, <1>7, StepOfWalk DEF WalkOK, LookUp

LEMMA AppendFacts ==
  ASSUME NEW S, NEW t \in Seq(S), NEW q \in S
  PROVE  /\ Append(t, q) \in Seq(S)
         /\ Len(Append(t, q)) = Len(t) + 1
         /\ \A i \in 1..Len(t) : Append(t, q)[i] = t[i]
         /\ Append(t, q)[Len(t) + 1] = q
OBVIOUS

\* The trail grows by the row that was read: a relationship the table holds now.
LEMMA ReadRowExtends ==
  ASSUME IInv, NEW w \in Walker, walk[w].pc = "read",
         NEW q \in Principal, q = credentials[Tip(w)].assumedBy,
         NEW c \in {"lookup", "read"},
         Become(w, [walk[w] EXCEPT !.pc = c, !.trail = Append(walk[w].trail, q)]),
         UNCHANGED <<cache, cacheConfig, tableVars>>
  PROVE  IInv'
<1> DEFINE t == walk[w].trail
           r == [walk[w] EXCEPT !.pc = c, !.trail = Append(t, q)]
<1>1. /\ walk[w] \in WalkState /\ t \in Seq(Principal) /\ Len(t) \in Nat /\ Len(t) >= 1
      /\ WalkOK(w)
  BY DEF IInv, TypeOK, WalksOK, WalkOK, CredIsTheHopBelow, WalkState
<1>2. /\ Append(t, q) \in Seq(Principal)
      /\ Len(Append(t, q)) = Len(t) + 1
      /\ \A i \in 1..Len(t) : Append(t, q)[i] = t[i]
      /\ Append(t, q)[Len(t) + 1] = q
  BY <1>1, AppendFacts
<1>3. r.pc = c /\ r.trail = Append(t, q) /\ r.clean = walk[w].clean
  BY <1>1 DEF WalkState
<1>4. r \in WalkState
  BY <1>1, <1>2 DEF WalkState
<1>5. Become(w, r) /\ walk'[w] = r
  BY DEF IInv, TypeOK, Become
<1>6. Tip(w) = t[Len(t)] /\ t[Len(t)] \in Principal
  BY <1>1 DEF Tip
<1>7. <<t[Len(t)], q>> \in written /\ credentials[t[Len(t)]].assumedBy = q
  BY <1>6, ChainAssumption DEF IInv, RowsAreWritten
<1> HIDE DEF r
<1>8. TrailIsWritten(w)'
  <2> SUFFICES ASSUME NEW i \in 1..(Len(walk'[w].trail) - 1)
               PROVE  <<walk'[w].trail[i], walk'[w].trail[i + 1]>> \in written'
    BY DEF TrailIsWritten
  <2>1. i \in 1..Len(t) /\ walk'[w].trail = Append(t, q) /\ written' = written
    BY <1>1, <1>2, <1>3, <1>5 DEF tableVars
  <2>2. CASE i = Len(t)
    BY <2>1, <2>2, <1>1, <1>2, <1>7
  <2>3. CASE i # Len(t)
    <3>1. i \in 1..(Len(t) - 1) /\ i + 1 \in 1..Len(t)
      BY <2>1, <2>3, <1>1
    <3>2. <<t[i], t[i + 1]>> \in written
      BY <3>1, <1>1 DEF WalkOK, TrailIsWritten
    <3>. QED
      BY <3>1, <3>2, <2>1, <1>2
  <2>. QED
    BY <2>2, <2>3
<1>9. CleanTrailIsCurrent(w)'
  <2> SUFFICES ASSUME walk'[w].clean, NEW i \in 1..(Len(walk'[w].trail) - 1)
               PROVE  credentials'[walk'[w].trail[i]].assumedBy = walk'[w].trail[i + 1]
    BY DEF CleanTrailIsCurrent
  <2>1. /\ i \in 1..Len(t) /\ walk'[w].trail = Append(t, q) /\ credentials' = credentials
        /\ walk[w].clean
    BY <1>1, <1>2, <1>3, <1>5 DEF tableVars
  <2>2. CASE i = Len(t)
    BY <2>1, <2>2, <1>1, <1>2, <1>7
  <2>3. CASE i # Len(t)
    <3>1. i \in 1..(Len(t) - 1) /\ i + 1 \in 1..Len(t)
      BY <2>1, <2>3, <1>1
    <3>2. credentials[t[i]].assumedBy = t[i + 1]
      BY <3>1, <2>1, <1>1 DEF WalkOK, CleanTrailIsCurrent
    <3>. QED
      BY <3>1, <3>2, <2>1, <1>2
  <2>. QED
    BY <2>2, <2>3
<1>10. CredIsTheHopBelow(w)'
  BY <1>1, <1>2, <1>3, <1>5 DEF CredIsTheHopBelow
<1>. QED
  BY <1>4, <1>5, <1>8, <1>9, <1>10, StepOfWalk DEF WalkOK

LEMMA BaseSessionType ==
  ASSUME NEW p \in Principal, credentials[p].keys \in {"longterm", "temporary"}
  PROVE  /\ BaseSession(p) \in Session
         /\ BaseSession(p).holder = p
         /\ BaseSession(p) # NoSession
<1>1. (credentials[p].keys = "temporary") \in BOOLEAN /\ <<>> \in Seq(Principal)
  OBVIOUS
<1>2. BaseSession(p) \in Session /\ BaseSession(p).holder = p
  BY <1>1 DEF BaseSession, Session
<1>. QED
  BY <1>2, ChainAssumption

\* The trail ends at a base: its keys are in hand, to be used for the hop above.
LEMMA ReadRowEnds ==
  ASSUME IInv, NEW w \in Walker, walk[w].pc = "read",
         credentials[Tip(w)].assumedBy = NoPrincipal,
         credentials[Tip(w)].keys # "none",
         Len(walk[w].trail) > 1,
         Become(w, [walk[w] EXCEPT
           !.pc = IF w \in Requests THEN "scan" ELSE "assume",
           !.next = IF w \in Requests THEN 2 ELSE Len(walk[w].trail) - 1,
           !.cred = BaseSession(Tip(w))]),
         UNCHANGED <<cache, cacheConfig, tableVars>>
  PROVE  IInv'
<1> DEFINE t == walk[w].trail
           b == BaseSession(Tip(w))
           c == IF w \in Requests THEN "scan" ELSE "assume"
           n == IF w \in Requests THEN 2 ELSE Len(t) - 1
           r == [walk[w] EXCEPT !.pc = c, !.next = n, !.cred = b]
<1>1. /\ walk[w] \in WalkState /\ t \in Seq(Principal) /\ Len(t) \in Nat /\ WalkOK(w)
  BY DEF IInv, TypeOK, WalksOK, WalkState
<1>2. Tip(w) = t[Len(t)] /\ Tip(w) \in Principal
  BY <1>1 DEF Tip
<1>3. credentials[Tip(w)].keys \in {"longterm", "temporary"}
  BY <1>2 DEF IInv, TypeOK, Row
<1>4. b \in Session /\ b.holder = Tip(w) /\ b # NoSession
  BY <1>2, <1>3, BaseSessionType
<1> HIDE DEF b
<1>5. Become(w, r) /\ walk'[w] = r
  BY DEF IInv, TypeOK, Become, b
<1>6. c \in {"scan", "assume"} /\ n \in Nat
  BY <1>1
<1> HIDE DEF c, n
<1>7. /\ r \in WalkState /\ r.trail = t /\ r.clean = walk[w].clean /\ r.cred = b
      /\ r.pc = c /\ r.next = n
  BY <1>1, <1>4, <1>6 DEF WalkState
<1> HIDE DEF r
<1>8. TrailIsWritten(w)' /\ CleanTrailIsCurrent(w)'
  BY <1>1, <1>7, <1>5 DEF WalkOK, TrailIsWritten, CleanTrailIsCurrent, tableVars
<1>9. CredIsTheHopBelow(w)'
  <2>1. /\ walk'[w].trail = t /\ walk'[w].cred = b /\ b # NoSession /\ b.holder = t[Len(t)]
        /\ walk'[w].next = IF w \in Requests THEN 2 ELSE Len(t) - 1
        /\ walk'[w].pc = IF w \in Requests THEN "scan" ELSE "assume"
        /\ Len(t) \in Nat /\ Len(t) > 1
    BY <1>1, <1>2, <1>4, <1>7, <1>5 DEF c, n
  <2>2. 2 \in 2..Len(t) /\ Len(t) - 1 \in 1..(Len(t) - 1) /\ (Len(t) - 1) + 1 = Len(t)
    BY <2>1
  <2> HIDE DEF t, b
  <2>. QED
    BY <2>1, <2>2 DEF CredIsTheHopBelow
<1>. QED
  BY <1>7, <1>5, <1>8, <1>9, StepOfWalk DEF WalkOK

LEMMA ReadRowStep ==
  ASSUME IInv, NEW w \in Walker, ReadRow(w)
  PROVE  IInv'
<1> DEFINE hops == Len(walk[w].trail)
           row  == credentials[Tip(w)]
<1>1. walk[w].pc = "read" /\ UNCHANGED <<cache, cacheConfig, tableVars>>
  BY DEF ReadRow
<1>2. Tip(w) \in Principal
  BY <1>1 DEF IInv, TypeOK, WalksOK, WalkOK, CredIsTheHopBelow, WalkState, Tip
<1>3. row.assumedBy \in Principal \cup {NoPrincipal}
  BY <1>2 DEF IInv, TypeOK, Row
<1>4. CASE /\ row.assumedBy # NoPrincipal
           /\ Become(w, [walk[w] EXCEPT
                !.pc = IF ConsultsCache(w, hops + 1) THEN "lookup" ELSE "read",
                !.trail = Append(walk[w].trail, row.assumedBy)])
           /\ ConsultsCache(w, hops + 1) \/ ~ConsultsCache(w, hops + 1)
  <2>1. row.assumedBy \in Principal
    BY <1>3, <1>4
  <2>2. PICK c \in {"lookup", "read"} :
          Become(w, [walk[w] EXCEPT !.pc = c, !.trail = Append(walk[w].trail, row.assumedBy)])
    BY <1>4
  <2>. QED
    BY <1>1, <2>1, <2>2, ReadRowExtends
<1>5. CASE /\ row.assumedBy = NoPrincipal /\ row.keys # "none" /\ hops > 1
           /\ Become(w, [walk[w] EXCEPT
                !.pc = IF w \in Requests THEN "scan" ELSE "assume",
                !.next = IF w \in Requests THEN 2 ELSE hops - 1,
                !.cred = BaseSession(Tip(w))])
  BY <1>1, <1>5, ReadRowEnds
<1>6. CASE Become(w, IdleWalk)
  BY <1>1, <1>6, EndOfWalk
<1>. QED
  BY <1>4, <1>5, <1>6 DEF ReadRow

\* However the scan goes on, the credentials in hand are those of the hop below the
\* one assumed next.
LEMMA ScanOutcome ==
  ASSUME IInv, NEW w \in Walker, walk[w].pc = "scan",
         UNCHANGED <<cache, cacheConfig, tableVars>>,
         NEW c \in {"scan", "assume"},
         NEW n \in Nat,
         NEW k \in Session,
         LET t == walk[w].trail IN
           \/ c = "scan" /\ k = walk[w].cred /\ n \in 2..Len(t)
           \/ c = "assume" /\ n \in 1..(Len(t) - 1) /\ k.holder = t[n + 1],
         Become(w, [walk[w] EXCEPT !.pc = c, !.next = n, !.cred = k])
  PROVE  IInv'
<1> DEFINE t == walk[w].trail
           r == [walk[w] EXCEPT !.pc = c, !.next = n, !.cred = k]
<1>1. walk[w] \in WalkState /\ WalkOK(w) /\ k # NoSession
  BY ChainAssumption DEF IInv, TypeOK, WalksOK
<1>2. r \in WalkState /\ r.pc = c /\ r.next = n /\ r.cred = k /\ r.trail = t /\ r.clean = walk[w].clean
  <2>1. /\ r.pc = c /\ r.next = n /\ r.cred = k /\ r.trail = t /\ r.clean = walk[w].clean
    BY <1>1 DEF WalkState
  <2>2. r \in WalkState
    BY <1>1 DEF WalkState
  <2>. QED
    BY <2>1, <2>2
<1>3. Become(w, r) /\ walk'[w] = r
  BY DEF IInv, TypeOK, Become
<1> HIDE DEF r
<1>4. TrailIsWritten(w)' /\ CleanTrailIsCurrent(w)'
  BY <1>1, <1>2, <1>3 DEF WalkOK, TrailIsWritten, CleanTrailIsCurrent, tableVars
<1>5. CredIsTheHopBelow(w)'
  <2>1. c = "scan" => k.holder = t[Len(t)]
    BY <1>1 DEF WalkOK, CredIsTheHopBelow
  <2>2. walk'[w].trail = t /\ walk'[w].pc = c /\ walk'[w].next = n /\ walk'[w].cred = k
    BY <1>2, <1>3
  <2>. QED
    BY <1>1, <2>1, <2>2 DEF CredIsTheHopBelow
<1>. QED
  BY <1>2, <1>3, <1>4, <1>5, StepOfWalk DEF WalkOK

LEMMA ScanStep ==
  ASSUME IInv, NEW w \in Walker, Scan(w)
  PROVE  IInv'
<1> DEFINE t == walk[w].trail
           n == walk[w].next
           bare == [walk[w].cred EXCEPT !.token = FALSE]
<1>1. /\ walk[w].pc = "scan" /\ UNCHANGED <<cache, cacheConfig, tableVars>>
      /\ walk[w] \in WalkState /\ t \in Seq(Principal) /\ Len(t) \in Nat
      /\ WalkOK(w)
  BY DEF Scan, IInv, TypeOK, WalksOK, WalkState
<1>2. n \in 2..Len(t) /\ walk[w].cred \in Session /\ walk[w].cred.holder = t[Len(t)]
  BY <1>1 DEF WalkOK, CredIsTheHopBelow, WalkState
<1>3. t[n] \in Principal
  BY <1>1, <1>2
<1>4. CASE cache[t[n]] # NoSession /\ Become(w, Reuse(w, t[n]))
  <2>1. Cached(t[n]) \in Session /\ Cached(t[n]).holder = t[n]
    BY <1>3, <1>4, CachedFacts DEF IInv, CachedSessionsAreShareable
  <2>2. n - 1 \in Nat /\ n - 1 \in 1..(Len(t) - 1) /\ (n - 1) + 1 = n
    BY <1>1, <1>2
  <2>3. Become(w, [walk[w] EXCEPT !.pc = "assume", !.next = n - 1, !.cred = Cached(t[n])])
    BY <1>4 DEF Reuse
  <2>. QED
    BY <1>1, <2>1, <2>2, <2>3, ScanOutcome
<1>5. CASE n < Len(t) /\ Become(w, [walk[w] EXCEPT !.next = n + 1])
  <2>1. n + 1 \in Nat /\ n + 1 \in 2..Len(t)
    BY <1>1, <1>2, <1>5
  <2>2. Become(w, [walk[w] EXCEPT !.pc = "scan", !.next = n + 1, !.cred = walk[w].cred])
    <3>1. [walk[w] EXCEPT !.next = n + 1]
            = [walk[w] EXCEPT !.pc = "scan", !.next = n + 1, !.cred = walk[w].cred]
      BY <1>1 DEF WalkState
    <3>. QED
      BY <1>5, <3>1
  <2>. QED
    BY <1>1, <1>2, <2>1, <2>2, ScanOutcome
<1>6. CASE n = Len(t) /\ Become(w, [walk[w] EXCEPT !.pc = "assume", !.next = n - 1, !.cred = bare])
  <2>1. bare \in Session /\ bare.holder = t[Len(t)]
    BY <1>2 DEF Session
  <2>2. n - 1 \in Nat /\ n - 1 \in 1..(Len(t) - 1) /\ (n - 1) + 1 = Len(t)
    BY <1>1, <1>2, <1>6
  <2> HIDE DEF bare
  <2>. QED
    BY <1>1, <1>6, <2>1, <2>2, ScanOutcome
<1>. QED
  BY <1>4, <1>5, <1>6 DEF Scan

LEMMA ChainOfFacts ==
  ASSUME NEW session \in Session
  PROVE  LET c == ChainOf(session) IN
           /\ c \in Seq(Principal) /\ c # <<>>
           /\ Len(c) = Len(session.under) + 1
           /\ c[1] = session.holder
           /\ \A i \in 1..Len(session.under) : c[i + 1] = session.under[i]
<1>1. session.holder \in Principal /\ session.under \in Seq(Principal)
  BY DEF Session
<1>. QED
  BY <1>1 DEF ChainOf

\* The session a walk mints: of the hop it assumes, from the hop below it.
LEMMA MintedFacts ==
  ASSUME IInv, NEW w \in Walker, walk[w].pc = "assume"
  PROVE  LET t == walk[w].trail
             n == walk[w].next
             m == Minted(w)
         IN  /\ n \in 1..(Len(t) - 1) /\ Len(t) \in Nat
             /\ m \in Session /\ m # NoSession
             /\ m.holder = t[n] /\ m.under = ChainOf(walk[w].cred)
             /\ m.under # <<>> /\ m.under[1] = t[n + 1]
             /\ m.kind = "temporary" /\ m.token /\ m.firm = walk[w].cred.firm
             /\ w \in Requests /\ n = 1 => m.owner = "user"
             /\ n > 1 => m.owner = "service"
<1> DEFINE t == walk[w].trail
           n == walk[w].next
<1>1. /\ walk[w] \in WalkState /\ t \in Seq(Principal) /\ Len(t) \in Nat /\ n \in Nat
      /\ walk[w].cred \in Session \cup {NoSession}
  BY DEF IInv, TypeOK, WalkState
<1>2. n \in 1..(Len(t) - 1) /\ walk[w].cred # NoSession /\ walk[w].cred.holder = t[n + 1]
  BY DEF IInv, WalksOK, WalkOK, CredIsTheHopBelow
<1> DEFINE u == ChainOf(walk[w].cred)
           f == walk[w].cred.firm
<1>9. u \in Seq(Principal) /\ u # <<>> /\ u[1] = t[n + 1] /\ f \in BOOLEAN
  <2>1. walk[w].cred \in Session /\ f \in BOOLEAN
    BY <1>1, <1>2 DEF Session
  <2>. QED
    BY <2>1, <1>2, ChainOfFacts
<1>3. t[n] \in Principal
  BY <1>1, <1>2
<1> DEFINE o == IF w \in Requests /\ n = 1 THEN "user" ELSE "service"
<1>4. /\ o \in {"base", "service", "user"}
      /\ w \in Requests /\ n = 1 => o = "user"
      /\ n > 1 => o = "service"
  BY <1>1
<1>5. Minted(w) = [holder |-> t[n], under |-> u, owner |-> o,
                   kind |-> "temporary", token |-> TRUE, clean |-> TRUE, firm |-> f]
  BY DEF Minted
<1> HIDE DEF o, u, f
<1>6. Minted(w) \in Session
  BY <1>3, <1>4, <1>5, <1>9 DEF Session
<1>7. Minted(w) # NoSession
  BY <1>6, ChainAssumption
<1>8. /\ Minted(w).holder = t[n] /\ Minted(w).under = u
      /\ Minted(w).kind = "temporary" /\ Minted(w).token /\ Minted(w).firm = f
      /\ Minted(w).owner = o
  BY <1>5
<1>. QED
  BY <1>1, <1>2, <1>4, <1>6, <1>7, <1>8, <1>9 DEF u, f

\* What Onward makes of a walk with the session of its hop in hand.
LEMMA OnwardFacts ==
  ASSUME NEW w \in Walker, walk[w] \in WalkState,
         NEW m \in Session,
         NEW n, n = walk[w].next,
         n >= 1
  PROVE  /\ Onward(w, m) \in WalkState
         /\ Onward(w, m).trail = walk[w].trail
         /\ Onward(w, m).clean = walk[w].clean
         /\ Onward(w, m).cred = m
         /\ n = 1 => Onward(w, m).pc = "done"
         /\ n # 1 => Onward(w, m).pc = "assume" /\ Onward(w, m).next = n - 1
<1>1. n \in Nat
  BY DEF WalkState
<1>2. CASE n = 1
  <2>1. Onward(w, m) = [walk[w] EXCEPT !.pc = "done", !.cred = m]
    BY <1>2 DEF Onward
  <2>. QED
    BY <1>2, <2>1 DEF WalkState
<1>3. CASE n # 1
  <2>1. Onward(w, m) = [walk[w] EXCEPT !.pc = "assume", !.next = n - 1, !.cred = m]
    BY <1>3 DEF Onward
  <2>2. n - 1 \in Nat
    BY <1>1
  <2>. QED
    BY <1>3, <2>1, <2>2 DEF WalkState
<1>. QED
  BY <1>2, <1>3

LEMMA AssumeStep ==
  ASSUME IInv, NEW w \in Walker, Assume(w)
  PROVE  IInv'
<1> DEFINE t == walk[w].trail
           n == walk[w].next
           m == Minted(w)
<1>1. /\ n \in 1..(Len(t) - 1) /\ Len(t) \in Nat
      /\ m \in Session /\ m # NoSession
      /\ m.holder = t[n] /\ m.under # <<>> /\ m.under[1] = t[n + 1]
      /\ m.kind = "temporary" /\ m.token
      /\ w \in Requests /\ n = 1 => m.owner = "user"
      /\ n > 1 => m.owner = "service"
  BY MintedFacts DEF Assume
<1>2. walk[w] \in WalkState /\ WalkOK(w)
  BY DEF IInv, TypeOK, WalksOK
<1>3. UNCHANGED <<cache, cacheConfig, tableVars>>
  BY DEF Assume
<1>4. CASE n > 1 /\ Become(w, [walk[w] EXCEPT !.pc = "store", !.cred = m])
  <2> DEFINE r == [walk[w] EXCEPT !.pc = "store", !.cred = m]
  <2> HIDE DEF m
  <2>1. r \in WalkState
    BY <1>1, <1>2 DEF WalkState
  <2>2. r.pc = "store" /\ r.cred = m /\ r.trail = t /\ r.next = n /\ r.clean = walk[w].clean
    BY <1>2 DEF WalkState
  <2>3. Become(w, r) /\ walk'[w] = r
    BY <1>4 DEF IInv, TypeOK, Become
  <2> HIDE DEF r
  <2>4. TrailIsWritten(w)' /\ CleanTrailIsCurrent(w)'
    BY <1>2, <1>3, <2>2, <2>3 DEF WalkOK, TrailIsWritten, CleanTrailIsCurrent, tableVars
  <2>5. n \in 2..(Len(t) - 1)
    BY <1>1, <1>4
  <2>6. CredIsTheHopBelow(w)'
    BY <1>1, <1>4, <2>2, <2>3, <2>5 DEF CredIsTheHopBelow
  <2>. QED
    BY <1>3, <2>1, <2>3, <2>4, <2>6, StepOfWalk DEF WalkOK
<1>5. CASE Become(w, Onward(w, m))
  <2> DEFINE r == Onward(w, m)
  <2>1. /\ r \in WalkState /\ r.trail = t /\ r.clean = walk[w].clean /\ r.cred = m
        /\ n = 1 => r.pc = "done"
        /\ n # 1 => r.pc = "assume" /\ r.next = n - 1
    BY <1>1, <1>2, OnwardFacts
  <2>2. Become(w, r) /\ walk'[w] = r
    BY <1>5 DEF IInv, TypeOK, Become
  <2> HIDE DEF r, m
  <2>3. TrailIsWritten(w)' /\ CleanTrailIsCurrent(w)'
    BY <1>2, <1>3, <2>1, <2>2 DEF WalkOK, TrailIsWritten, CleanTrailIsCurrent, tableVars
  <2>4. n # 1 => n - 1 \in 1..(Len(t) - 1) /\ (n - 1) + 1 = n
    BY <1>1
  <2>5. CredIsTheHopBelow(w)'
    <3>1. CASE n = 1
      <4>1. /\ walk'[w].pc = "done" /\ walk'[w].trail = t /\ walk'[w].cred = m
            /\ Len(t) >= 1 /\ m.holder = t[1]
        BY <1>1, <2>1, <2>2, <3>1
      <4>. QED
        BY <1>1, <3>1, <4>1 DEF CredIsTheHopBelow
    <3>2. CASE n # 1
      BY <1>1, <2>1, <2>2, <2>4, <3>2 DEF CredIsTheHopBelow
    <3>. QED
      BY <3>1, <3>2
  <2>. QED
    BY <1>3, <2>1, <2>2, <2>3, <2>5, StepOfWalk DEF WalkOK
<1>. QED
  BY <1>4, <1>5 DEF Assume, Caches

\* An entry is put for the hop whose session is in hand, so the cache keeps what is
\* promised of it, and the walk goes on.
LEMMA StoreStep ==
  ASSUME IInv, NEW w \in Walker, Store(w)
  PROVE  IInv'
<1> DEFINE t == walk[w].trail
           n == walk[w].next
           k == walk[w].cred
           e == [k EXCEPT !.clean = walk[w].clean, !.firm = k.firm /\ walk[w].clean]
           r == Onward(w, k)
<1>1. walk[w] \in WalkState /\ WalkOK(w) /\ t \in Seq(Principal) /\ Len(t) \in Nat
  BY DEF IInv, TypeOK, WalksOK, WalkState
<1>2. /\ n \in 2..(Len(t) - 1) /\ k # NoSession
      /\ k.holder = t[n] /\ k.under # <<>> /\ k.under[1] = t[n + 1]
      /\ k.owner = "service" /\ k.token
  BY <1>1 DEF Store, WalkOK, CredIsTheHopBelow
<1>3. k \in Session /\ walk[w].clean \in BOOLEAN
  BY <1>1, <1>2 DEF WalkState
<1>4. /\ e \in Session
      /\ e.holder = t[n] /\ e.under # <<>> /\ e.under[1] = t[n + 1]
      /\ e.owner = "service" /\ e.token
      /\ e.clean = walk[w].clean
  BY <1>2, <1>3 DEF Session
<1>5. t[n] \in Principal /\ n >= 1
  BY <1>1, <1>2
<1>6. /\ r \in WalkState /\ r.trail = t /\ r.clean = walk[w].clean /\ r.cred = k
      /\ r.pc = "assume" /\ r.next = n - 1
  BY <1>1, <1>2, <1>3, <1>5, OnwardFacts
<1>7. Become(w, r) /\ walk'[w] = r
  BY DEF Store, IInv, TypeOK, Become
<1>8. cache' = [cache EXCEPT ![t[n]] = e] /\ UNCHANGED <<cacheConfig, tableVars>>
  BY DEF Store
<1> HIDE DEF r, e
<1>9. TypeOK'
  <2>1. cache' \in [Principal -> Session \cup {NoSession}]
    BY <1>4, <1>8 DEF IInv, TypeOK
  <2>2. walk' \in [Walker -> WalkState]
    BY <1>6, <1>7 DEF IInv, TypeOK, Become
  <2>. QED
    BY <2>1, <2>2, <1>8 DEF IInv, TypeOK, tableVars
<1>10. RowsAreWritten'
  BY <1>8 DEF IInv, RowsAreWritten, tableVars
<1>11. WalkOK(w)'
  <2>1. TrailIsWritten(w)' /\ CleanTrailIsCurrent(w)'
    BY <1>1, <1>6, <1>7, <1>8 DEF WalkOK, TrailIsWritten, CleanTrailIsCurrent, tableVars
  <2>2. n - 1 \in 1..(Len(t) - 1) /\ k.holder = t[(n - 1) + 1] /\ k # NoSession
    <3>1. Len(t) \in Nat /\ n \in 2..(Len(t) - 1)
      BY <1>1, <1>2
    <3>2. n - 1 \in 1..(Len(t) - 1) /\ (n - 1) + 1 = n
      BY <3>1
    <3>. QED
      BY <1>2, <3>2
  <2>3. /\ walk'[w].pc = "assume" /\ walk'[w].next = n - 1
        /\ walk'[w].trail = t /\ walk'[w].cred = k
    BY <1>6, <1>7
  <2>4. CredIsTheHopBelow(w)'
    BY <1>2, <2>2, <2>3 DEF CredIsTheHopBelow
  <2>. QED
    BY <2>1, <2>4 DEF WalkOK
<1>12. ASSUME NEW v \in Walker, v # w PROVE WalkOK(v)'
  <2>1. walk'[v] = walk[v]
    BY <1>7, <1>12 DEF IInv, TypeOK, Become
  <2>2. WalkOK(v)
    BY DEF IInv, WalksOK
  <2>3. TrailIsWritten(v)' /\ CleanTrailIsCurrent(v)'
    BY <2>1, <2>2, <1>8 DEF WalkOK, TrailIsWritten, CleanTrailIsCurrent, tableVars
  <2>4. CredIsTheHopBelow(v)'
    BY <2>1, <2>2 DEF WalkOK, CredIsTheHopBelow
  <2>. QED
    BY <2>3, <2>4 DEF WalkOK
<1>13. cache'[t[n]] = e /\ \A p \in Principal : p # t[n] => cache'[p] = cache[p]
  BY <1>5, <1>8 DEF IInv, TypeOK
<1>14. <<t[n], t[n + 1]>> \in written
       /\ (walk[w].clean => credentials[t[n]].assumedBy = t[n + 1])
  <2>1. n \in 1..(Len(t) - 1)
    BY <1>1, <1>2
  <2>. QED
    BY <1>1, <2>1 DEF WalkOK, TrailIsWritten, CleanTrailIsCurrent
<1>15. CachedSessionsAreShareable'
  <2> SUFFICES ASSUME NEW p \in Principal, cache'[p] # NoSession
               PROVE  /\ cache'[p].holder = p
                      /\ cache'[p].owner = "service"
                      /\ cache'[p].token
                      /\ cache'[p].under # <<>> /\ <<p, cache'[p].under[1]>> \in written'
    BY DEF CachedSessionsAreShareable
  <2>1. CASE p # t[n]
    BY <2>1, <1>8, <1>13 DEF IInv, CachedSessionsAreShareable, tableVars
  <2>2. CASE p = t[n]
    BY <2>2, <1>4, <1>8, <1>13, <1>14 DEF tableVars
  <2>. QED
    BY <2>1, <2>2
<1>16. CleanEntryIsCurrent'
  <2> SUFFICES ASSUME NEW p \in Principal, cache'[p] # NoSession, cache'[p].clean,
                      p \notin unpurged'
               PROVE  credentials'[p].assumedBy = cache'[p].under[1]
    BY DEF CleanEntryIsCurrent
  <2>1. CASE p # t[n]
    BY <2>1, <1>8, <1>13 DEF IInv, CleanEntryIsCurrent, tableVars
  <2>2. CASE p = t[n]
    BY <2>2, <1>4, <1>8, <1>13, <1>14 DEF tableVars
  <2>. QED
    BY <2>1, <2>2
<1>. QED
  BY <1>9, <1>10, <1>11, <1>12, <1>15, <1>16 DEF IInv, WalksOK

LEMMA ExpireStep ==
  ASSUME IInv, NEW p \in Principal, Expire(p)
  PROVE  IInv'
<1>1. TypeOK'
  BY DEF IInv, TypeOK, Expire, tableVars
<1>2. WalksOK' /\ RowsAreWritten'
  BY DEF IInv, WalksOK, WalkOK, TrailIsWritten, CleanTrailIsCurrent, CredIsTheHopBelow,
         RowsAreWritten, Expire, tableVars
<1>3. \A q \in Principal : cache'[q] # NoSession => cache'[q] = cache[q]
  BY DEF IInv, TypeOK, Expire
<1>4. CachedSessionsAreShareable'
  BY <1>3 DEF IInv, CachedSessionsAreShareable, Expire, tableVars
<1>5. CleanEntryIsCurrent'
  BY <1>3 DEF IInv, CleanEntryIsCurrent, Expire, tableVars
<1>. QED
  BY <1>1, <1>2, <1>4, <1>5 DEF IInv

LEMMA WalkStepPreserves ==
  ASSUME IInv, NEW w \in Walker, WalkStep(w)
  PROVE  IInv'
<1>1. CASE LookUp(w)
  BY <1>1, LookUpStep
<1>2. CASE ReadRow(w)
  BY <1>2, ReadRowStep
<1>3. CASE Scan(w)
  BY <1>3, ScanStep
<1>4. CASE Assume(w)
  BY <1>4, AssumeStep
<1>5. CASE Store(w)
  BY <1>5, StoreStep
<1>6. CASE Finish(w)
  BY <1>6, EndOfWalk DEF Finish
<1>7. CASE WalkFails(w)
  BY <1>7, EndOfWalk DEF WalkFails
<1>. QED
  BY <1>1, <1>2, <1>3, <1>4, <1>5, <1>6, <1>7 DEF WalkStep

-----------------------------------------------------------------------------
(* Steps of an administrator *)

\* A write leaves every walk as it was, but no longer clean if it is under way.
LEMMA DisturbedFacts ==
  ASSUME TypeOK, NEW w \in Walker
  PROVE  /\ Disturbed[w].pc = walk[w].pc
         /\ Disturbed[w].trail = walk[w].trail
         /\ Disturbed[w].next = walk[w].next
         /\ Disturbed[w].cred = walk[w].cred
         /\ Disturbed[w].clean => walk[w].pc = "idle"
<1>1. walk[w] \in WalkState
  BY DEF TypeOK
<1>. QED
  BY <1>1 DEF Disturbed, WalkState

LEMMA DisturbedWalks ==
  ASSUME IInv, walk' = Disturbed, written \subseteq written'
  PROVE  WalksOK'
<1> SUFFICES ASSUME NEW w \in Walker PROVE WalkOK(w)'
  BY DEF WalksOK
<1>1. /\ walk'[w].pc = walk[w].pc
      /\ walk'[w].trail = walk[w].trail
      /\ walk'[w].next = walk[w].next
      /\ walk'[w].cred = walk[w].cred
      /\ walk'[w].clean => walk[w].pc = "idle"
  BY DisturbedFacts DEF IInv
<1>2. WalkOK(w)
  BY DEF IInv, WalksOK
<1>3. TrailIsWritten(w)'
  BY <1>1, <1>2 DEF WalkOK, TrailIsWritten
<1>4. CleanTrailIsCurrent(w)'
  <2>1. walk'[w].clean => Len(walk'[w].trail) = 0
    BY <1>1, <1>2 DEF WalkOK, CredIsTheHopBelow
  <2>. QED
    BY <2>1 DEF CleanTrailIsCurrent
<1>5. CredIsTheHopBelow(w)'
  BY <1>1, <1>2 DEF WalkOK, CredIsTheHopBelow
<1>. QED
  BY <1>3, <1>4, <1>5 DEF WalkOK

LEMMA StoreCredentialStep ==
  ASSUME IInv, NEW a \in Admins, NEW p \in Principal, NEW keys \in {"longterm", "temporary"},
         StoreCredential(a, p, keys)
  PROVE  IInv'
<1>1. /\ credentials' \in [Principal -> Row]
      /\ \A q \in Principal : credentials'[q].assumedBy = credentials[q].assumedBy
  BY DEF IInv, TypeOK, StoreCredential, Row
<1>2. TypeOK'
  BY <1>1, DisturbedType DEF IInv, TypeOK, StoreCredential
<1>3. WalksOK'
  BY DisturbedWalks DEF StoreCredential
<1>4. RowsAreWritten'
  BY <1>1 DEF IInv, RowsAreWritten, StoreCredential
<1>5. CachedSessionsAreShareable'
  BY DEF IInv, CachedSessionsAreShareable, StoreCredential
<1>6. CleanEntryIsCurrent'
  BY <1>1 DEF IInv, CleanEntryIsCurrent, StoreCredential
<1>. QED
  BY <1>2, <1>3, <1>4, <1>5, <1>6 DEF IInv

\* A write leaves every entry as it was, but for what is known of the rows under it.
LEMMA UndercutFacts ==
  ASSUME TypeOK, NEW p \in Principal, NEW q \in Principal
  PROVE  /\ Undercut(p)[q] \in Session \cup {NoSession}
         /\ Undercut(p)[q] # NoSession =>
              /\ cache[q] # NoSession
              /\ Undercut(p)[q].holder = cache[q].holder
              /\ Undercut(p)[q].under = cache[q].under
              /\ Undercut(p)[q].owner = cache[q].owner
              /\ Undercut(p)[q].token = cache[q].token
              /\ Undercut(p)[q].clean = cache[q].clean
              /\ Undercut(p)[q].firm =>
                   cache[q].firm /\ \A i \in 1..Len(cache[q].under) : cache[q].under[i] # p
<1> DEFINE hit == cache[q] # NoSession /\ \E i \in 1..Len(cache[q].under) : cache[q].under[i] = p
<1>1. cache[q] \in Session \cup {NoSession}
  BY DEF TypeOK
<1>2. CASE hit
  <2>1. cache[q] \in Session /\ Undercut(p)[q] = [cache[q] EXCEPT !.firm = FALSE]
    BY <1>1, <1>2 DEF Undercut
  <2>. QED
    BY <1>2, <2>1 DEF Session
<1>3. CASE ~hit
  <2>1. Undercut(p)[q] = cache[q]
    BY <1>3 DEF Undercut
  <2>. QED
    BY <1>1, <1>3, <2>1
<1>. QED
  BY <1>2, <1>3

\* The row of p changes its principal, and is marked until its entry is dropped.
LEMMA RowWritten ==
  ASSUME IInv, NEW p \in Principal, NEW row \in Row,
         credentials' = [credentials EXCEPT ![p] = row],
         row.assumedBy # NoPrincipal => <<p, row.assumedBy>> \in written',
         written \subseteq written',
         unpurged' = unpurged \cup {p},
         walk' = Disturbed,
         cache' = Undercut(p)
  PROVE  /\ credentials' \in [Principal -> Row]
         /\ cache' \in [Principal -> Session \cup {NoSession}]
         /\ WalksOK' /\ RowsAreWritten' /\ CachedSessionsAreShareable' /\ CleanEntryIsCurrent'
<1>1. /\ credentials' \in [Principal -> Row]
      /\ credentials'[p] = row
      /\ \A q \in Principal : q # p => credentials'[q] = credentials[q]
  BY DEF IInv, TypeOK
<1>2. WalksOK'
  BY DisturbedWalks
<1>3. RowsAreWritten'
  BY <1>1 DEF IInv, RowsAreWritten
<1>6. cache' \in [Principal -> Session \cup {NoSession}]
  <2>1. TypeOK
    BY DEF IInv
  <2>2. \A q \in Principal : Undercut(p)[q] \in Session \cup {NoSession}
    BY <2>1, UndercutFacts
  <2>. QED
    BY <2>2 DEF Undercut
<1>7. ASSUME NEW q \in Principal, cache'[q] # NoSession
      PROVE  /\ cache[q] # NoSession
             /\ cache'[q].holder = cache[q].holder /\ cache'[q].under = cache[q].under
             /\ cache'[q].owner = cache[q].owner /\ cache'[q].token = cache[q].token
             /\ cache'[q].clean = cache[q].clean
  BY <1>7, UndercutFacts DEF IInv
<1>4. CachedSessionsAreShareable'
  BY <1>7 DEF IInv, CachedSessionsAreShareable
<1>5. CleanEntryIsCurrent'
  BY <1>1, <1>7 DEF IInv, CleanEntryIsCurrent
<1>. QED
  BY <1>1, <1>2, <1>3, <1>4, <1>5, <1>6

LEMMA StoreRelationshipStep ==
  ASSUME IInv, NEW a \in Admins, NEW p \in Principal, NEW q \in Principal,
         StoreRelationship(a, p, q)
  PROVE  IInv'
<1> DEFINE row == [credentials[p] EXCEPT !.assumedBy = q]
<1>1. row \in Row /\ row.assumedBy = q
  BY DEF IInv, TypeOK, Row
<1>2. credentials' = [credentials EXCEPT ![p] = row]
  BY DEF StoreRelationship
<1> HIDE DEF row
<1>3. /\ credentials' \in [Principal -> Row]
      /\ cache' \in [Principal -> Session \cup {NoSession}]
      /\ WalksOK' /\ RowsAreWritten' /\ CachedSessionsAreShareable' /\ CleanEntryIsCurrent'
  BY <1>1, <1>2, RowWritten DEF StoreRelationship
<1>4. admin' \in [Admins -> AdminState]
  BY DEF IInv, TypeOK, StoreRelationship, AdminState
<1>5. TypeOK'
  BY <1>3, <1>4, DisturbedType DEF IInv, TypeOK, StoreRelationship
<1>. QED
  BY <1>3, <1>5 DEF IInv

LEMMA RemoveCredentialStep ==
  ASSUME IInv, NEW a \in Admins, NEW p \in Principal, RemoveCredential(a, p)
  PROVE  IInv'
<1>1. NoRow \in Row /\ NoRow.assumedBy = NoPrincipal
  BY DEF NoRow, Row
<1>2. /\ credentials' \in [Principal -> Row]
      /\ cache' \in [Principal -> Session \cup {NoSession}]
      /\ WalksOK' /\ RowsAreWritten' /\ CachedSessionsAreShareable' /\ CleanEntryIsCurrent'
  BY <1>1, RowWritten DEF RemoveCredential
<1>3. admin' \in [Admins -> AdminState]
  BY DEF IInv, TypeOK, RemoveCredential, AdminState
<1>4. TypeOK'
  BY <1>2, <1>3, DisturbedType DEF IInv, TypeOK, RemoveCredential
<1>. QED
  BY <1>2, <1>4 DEF IInv

LEMMA InvalidateStep ==
  ASSUME IInv, NEW a \in Admins, InvalidateCachedCredential(a)
  PROVE  IInv'
<1>1. admin[a] \in AdminState /\ admin[a].pc = "purge" /\ admin[a].p \in Principal
  BY DEF IInv, TypeOK, InvalidateCachedCredential, AdminState, IdleAdmin
<1>2. admin' \in [Admins -> AdminState]
  <2>1. [admin[a] EXCEPT !.pc = "register"] \in AdminState
    BY <1>1 DEF AdminState, IdleAdmin
  <2>. QED
    BY <2>1 DEF IInv, TypeOK, InvalidateCachedCredential
<1>3. TypeOK'
  BY <1>2, DisturbedType DEF IInv, TypeOK, InvalidateCachedCredential
<1>4. WalksOK' /\ RowsAreWritten'
  BY DisturbedWalks DEF IInv, RowsAreWritten, InvalidateCachedCredential
<1>5. \A q \in Principal : cache'[q] # NoSession => cache'[q] = cache[q] /\ q # admin[a].p
  BY DEF IInv, TypeOK, InvalidateCachedCredential
<1>6. CachedSessionsAreShareable'
  BY <1>5 DEF IInv, CachedSessionsAreShareable, InvalidateCachedCredential
<1>7. CleanEntryIsCurrent'
  BY <1>5 DEF IInv, CleanEntryIsCurrent, InvalidateCachedCredential
<1>. QED
  BY <1>3, <1>4, <1>6, <1>7 DEF IInv

\* What touches neither rows, cache nor walks preserves all but the types.
LEMMA UntouchedFacts ==
  ASSUME IInv, TypeOK', UNCHANGED <<credentials, cache, walk, written, unpurged>>
  PROVE  IInv'
BY DEF IInv, WalksOK, WalkOK, TrailIsWritten, CleanTrailIsCurrent, CredIsTheHopBelow,
       RowsAreWritten, CachedSessionsAreShareable, CleanEntryIsCurrent

LEMMA RegisterStep ==
  ASSUME IInv, NEW a \in Admins, Register(a)
  PROVE  IInv'
<1>1. admin[a].p \in Principal
  BY DEF IInv, TypeOK, Register, AdminState, IdleAdmin
<1>2. admin' \in [Admins -> AdminState]
  BY DEF IInv, TypeOK, Register, AdminState
<1>3. TypeOK'
  BY <1>1, <1>2 DEF IInv, TypeOK, Register
<1>. QED
  BY <1>3, UntouchedFacts DEF Register

LEMMA AdminFailsStep ==
  ASSUME IInv, NEW a \in Admins, AdminFails(a)
  PROVE  IInv'
<1>1. TypeOK'
  BY DEF IInv, TypeOK, AdminFails, AdminState
<1>. QED
  BY <1>1, UntouchedFacts DEF AdminFails

LEMMA AdminStepPreserves ==
  ASSUME IInv, NEW a \in Admins, AdminStep(a)
  PROVE  IInv'
<1>1. CASE \E p \in Principal, keys \in {"longterm", "temporary"} : StoreCredential(a, p, keys)
  BY <1>1, StoreCredentialStep
<1>2. CASE \E p, q \in Principal : StoreRelationship(a, p, q)
  BY <1>2, StoreRelationshipStep
<1>3. CASE \E p \in Principal : RemoveCredential(a, p)
  BY <1>3, RemoveCredentialStep
<1>4. CASE InvalidateCachedCredential(a)
  BY <1>4, InvalidateStep
<1>5. CASE Register(a)
  BY <1>5, RegisterStep
<1>6. CASE AdminFails(a)
  BY <1>6, AdminFailsStep
<1>. QED
  BY <1>1, <1>2, <1>3, <1>4, <1>5, <1>6 DEF AdminStep

-----------------------------------------------------------------------------
(* The invariant *)

\* A table from InitialTables, an empty cache and no walk under way satisfy it.
LEMMA InitInvariant == Init => IInv
<1> SUFFICES ASSUME Init PROVE IInv
  OBVIOUS
<1>1. credentials \in [Principal -> Row]
  BY ChainAssumption DEF Init
<1>2. TypeOK
  <2>1. \A w \in Walker : IdleWalk \in WalkState
    BY IdleWalkType
  <2>2. written \subseteq Principal \X Principal
    BY DEF Init, Edges
  <2>. QED
    BY <1>1, <2>1, <2>2 DEF Init, TypeOK, AdminState
<1>3. RowsAreWritten
  BY <1>1 DEF Init, Edges, RowsAreWritten, Row
<1>4. WalksOK
  BY DEF Init, WalksOK, WalkOK, TrailIsWritten, CleanTrailIsCurrent, CredIsTheHopBelow, IdleWalk
<1>5. CachedSessionsAreShareable /\ CleanEntryIsCurrent
  BY DEF Init, CachedSessionsAreShareable, CleanEntryIsCurrent
<1>. QED
  BY <1>2, <1>3, <1>4, <1>5 DEF IInv

\* Every step of a walk, an expiry or an administrator preserves it.
LEMMA NextInvariant == IInv /\ [Next]_vars => IInv'
<1> SUFFICES ASSUME IInv, [Next]_vars PROVE IInv'
  OBVIOUS
<1>1. ASSUME NEW w \in Walker, WalkStep(w) PROVE IInv'
  BY <1>1, WalkStepPreserves
<1>2. ASSUME NEW w \in Walker, NEW p \in Principal, Start(w, p) PROVE IInv'
  BY <1>2, StartStep
<1>6. ASSUME NEW w \in Refreshers, ReadBatch(w) PROVE IInv'
  BY <1>6, ReadBatchStep
<1>3. ASSUME NEW p \in Principal, Expire(p) PROVE IInv'
  BY <1>3, ExpireStep
<1>4. ASSUME NEW a \in Admins, AdminStep(a) PROVE IInv'
  BY <1>4, AdminStepPreserves
<1>5. CASE UNCHANGED vars
  <2>1. TypeOK'
    BY <1>5 DEF IInv, TypeOK, vars
  <2>. QED
    BY <1>5, <2>1, UntouchedFacts DEF vars
<1>. QED
  BY <1>1, <1>2, <1>3, <1>4, <1>5, <1>6 DEF Next

\* The invariant holds of every reachable state, whatever the constants.
THEOREM ChainInvariant == Spec => []IInv
BY InitInvariant, NextInvariant, PTL DEF Spec

\* Rows, entries, walks and administrators' requests keep their types: no walk
\* follows a principal that is none, no administrator registers one.
THEOREM TypeCorrect == Spec => []TypeOK
<1>1. IInv => TypeOK
  BY DEF IInv
<1>. QED
  BY <1>1, ChainInvariant, PTL

\* Whoever interleaves, the cache never holds a user's session, base keys, or a
\* session filed under another principal or minted from one never related to it.
THEOREM CacheIsShareable == Spec => []CachedSessionsAreShareable
<1>1. IInv => CachedSessionsAreShareable
  BY DEF IInv
<1>. QED
  BY <1>1, ChainInvariant, PTL

\* The invalidation of the entry of the principal written is enough for that
\* principal: only a walk that overlapped a write can leave a stale entry.
THEOREM InvalidationIsEnough == Spec => []CleanEntryIsCurrent
<1>1. IInv => CleanEntryIsCurrent
  BY DEF IInv
<1>. QED
  BY <1>1, ChainInvariant, PTL

\* A request is handed a session of the role it asked for, in its caller's name.
THEOREM RequestsAreServedTheirTarget == Spec => []ServedSessionIsTheTargets
<1>1. IInv => ServedSessionIsTheTargets
  BY DEF IInv, WalksOK, WalkOK, CredIsTheHopBelow, ServedSessionIsTheTargets, Walker
<1>. QED
  BY <1>1, ChainInvariant, PTL

-----------------------------------------------------------------------------
(* Registrations *)

\* Between the removal of a row and that of its registration the row names nobody.
RemovalIsOfNobody ==
  \A a \in Admins : admin[a].pc # "idle" /\ ~admin[a].relate =>
    credentials[admin[a].p].assumedBy = NoPrincipal

LEMMA AdminKeepsRemovals ==
  ASSUME TypeOK, RemovalIsOfNobody, \A x, y \in Admins : x = y,
         NEW a \in Admins, AdminStep(a)
  PROVE  RemovalIsOfNobody'
<1>1. ASSUME NEW p \in Principal, NEW keys, StoreCredential(a, p, keys)
      PROVE  RemovalIsOfNobody'
  BY <1>1 DEF StoreCredential, TypeOK, Row, AdminState, IdleAdmin, RemovalIsOfNobody
<1>2. ASSUME NEW p \in Principal, NEW q \in Principal, StoreRelationship(a, p, q)
      PROVE  RemovalIsOfNobody'
  BY <1>2 DEF StoreRelationship, TypeOK, RemovalIsOfNobody
<1>3. ASSUME NEW p \in Principal, RemoveCredential(a, p)
      PROVE  RemovalIsOfNobody'
  BY <1>3 DEF RemoveCredential, NoRow, TypeOK, RemovalIsOfNobody
<1>4. CASE InvalidateCachedCredential(a)
  BY <1>4 DEF InvalidateCachedCredential, TypeOK, AdminState, RemovalIsOfNobody
<1>5. CASE Register(a) \/ AdminFails(a)
  BY <1>5 DEF Register, AdminFails, IdleAdmin, TypeOK, RemovalIsOfNobody
<1>. QED
  BY <1>1, <1>2, <1>3, <1>4, <1>5 DEF AdminStep

\* Only a removal, in its first step or in its last, takes a registration away.
LEMMA OnlyRemovalsDeregister ==
  ASSUME TypeOK, RemovalIsOfNobody, [Next]_vars,
         NEW p \in Principal, p \in cacheConfig, p \notin cacheConfig'
  PROVE  credentials'[p].assumedBy = NoPrincipal
<1>1. PICK a \in Admins : AdminStep(a)
  BY DEF Next, vars, WalkStep, LookUp, ReadRow, Scan, Assume, Store, Finish, WalkFails,
         Start, Expire, ReadBatch
<1>2. ASSUME NEW q \in Principal, RemoveCredential(a, q)
      PROVE  credentials'[p].assumedBy = NoPrincipal
  BY <1>2 DEF RemoveCredential, NoRow, TypeOK
<1>3. CASE Register(a)
  BY <1>3 DEF Register, RemovalIsOfNobody
<1>4. ~InvalidateCachedCredential(a) /\ ~AdminFails(a)
  BY DEF InvalidateCachedCredential, AdminFails
<1>5. \A q, r \in Principal : ~StoreRelationship(a, q, r)
  BY DEF StoreRelationship
<1>6. \A q \in Principal, keys \in {"longterm", "temporary"} : ~StoreCredential(a, q, keys)
  BY DEF StoreCredential
<1>. QED
  BY <1>1, <1>2, <1>3, <1>4, <1>5, <1>6 DEF AdminStep

LEMMA RemovalsNext ==
  ASSUME TypeOK, RemovalIsOfNobody, \A x, y \in Admins : x = y, [Next]_vars
  PROVE  RemovalIsOfNobody'
<1>1. CASE \E a \in Admins : AdminStep(a)
  BY <1>1, AdminKeepsRemovals
<1>2. CASE UNCHANGED <<credentials, admin>>
  BY <1>2 DEF RemovalIsOfNobody
<1>. QED
  BY <1>1, <1>2 DEF Next, vars, WalkStep, LookUp, ReadRow, Scan, Assume, Store, Finish,
                    WalkFails, Start, Expire, ReadBatch, tableVars

\* With one administrator at a time a role stays registered for the refresh as long as
\* something assumes it, wherever that administrator's requests stop.
THEOREM RegistrationsStay ==
  ASSUME \A x, y \in Admins : x = y
  PROVE  Spec => RelatedRolesAreRegistered
<1>1. Init => RemovalIsOfNobody
  BY DEF Init, IdleAdmin, RemovalIsOfNobody
<1>2. TypeOK /\ RemovalIsOfNobody /\ [Next]_vars => RemovalIsOfNobody'
  BY RemovalsNext
<1>3. TypeOK /\ RemovalIsOfNobody /\ [Next]_vars =>
        [\A p \in Principal :
           p \in cacheConfig /\ p \notin cacheConfig' => credentials'[p].assumedBy = NoPrincipal]_vars
  BY OnlyRemovalsDeregister
<1>. QED
  BY <1>1, <1>2, <1>3, TypeCorrect, PTL DEF Spec, RelatedRolesAreRegistered

-----------------------------------------------------------------------------
(* What a session speaks for *)

\* While no row under an entry was written, its hops are a chain of the table, and
\* within the default limit it is an entry of the hop above a base.
FirmEntry(p) ==
  cache[p] # NoSession /\ cache[p].firm /\ p \notin unpurged =>
    /\ IsChain(credentials, ChainOf(cache[p]))
    /\ Limit <= 3 => Len(cache[p].under) = 1

\* Where on its trail the session in hand stands.
Hop(w) ==
  CASE walk[w].pc = "scan"   -> Len(walk[w].trail)
    [] walk[w].pc = "assume" -> walk[w].next + 1
    [] walk[w].pc = "store"  -> walk[w].next
    [] OTHER                 -> 1

\* So are the hops of the session a walk has in hand, as long as no write overlapped the
\* walk, and within the default limit they and the hops above it are within the limit.
FirmWalk(w) ==
  /\ Len(walk[w].trail) <= Limit
  /\ walk[w].pc = "lookup" => Len(walk[w].trail) < Limit
  /\ walk[w].pc = "scan" /\ walk[w].clean =>
       \/ Len(walk[w].trail) < Limit
       \/ credentials[Tip(w)].assumedBy = NoPrincipal
  /\ walk[w].pc \in {"scan", "assume", "store", "done"} /\ walk[w].clean /\ walk[w].cred.firm =>
       /\ IsChain(credentials, ChainOf(walk[w].cred))
       /\ Limit <= 3 => Len(walk[w].cred.under) + Hop(w) <= Limit

FirmInv ==
  /\ \A p \in Principal : FirmEntry(p)
  /\ \A w \in Walker : FirmWalk(w)

LEMMA ChainGrows ==
  ASSUME NEW table, NEW h \in Principal, NEW c \in Seq(Principal), c # <<>>,
         IsChain(table, c), table[h].assumedBy = c[1]
  PROVE  IsChain(table, <<h>> \o c)
<1> DEFINE d == <<h>> \o c
<1>1. /\ Len(c) \in Nat /\ Len(c) >= 1 /\ Len(d) = Len(c) + 1
      /\ d[1] = h /\ \A i \in 1..Len(c) : d[i + 1] = c[i]
  OBVIOUS
<1> HIDE DEF d
<1>2. ASSUME NEW i \in 1..(Len(d) - 1) PROVE table[d[i]].assumedBy = d[i + 1]
  <2>1. CASE i = 1
    BY <1>1, <2>1
  <2>2. CASE i # 1
    <3>1. i - 1 \in 1..(Len(c) - 1) /\ i - 1 \in 1..Len(c) /\ i \in 1..Len(c) /\ (i - 1) + 1 = i
      BY <1>1, <2>2
    <3>2. d[i] = c[i - 1] /\ d[i + 1] = c[i]
      BY <1>1, <3>1
    <3>3. table[c[i - 1]].assumedBy = c[i]
      BY <3>1 DEF IsChain
    <3>. QED
      BY <3>2, <3>3
  <2>. QED
    BY <2>1, <2>2
<1>3. d[Len(d)] = c[Len(c)]
  BY <1>1
<1>4. IsChain(table, d)
  BY <1>2, <1>3 DEF IsChain
<1>. QED
  BY <1>4 DEF d

LEMMA BaseIsChain ==
  ASSUME NEW table, NEW p \in Principal,
         table[p].assumedBy = NoPrincipal, table[p].keys # "none"
  PROVE  IsChain(table, <<p>> \o <<>>)
<1>1. <<p>> \o <<>> = <<p>> /\ Len(<<p>>) = 1 /\ <<p>>[1] = p
  OBVIOUS
<1>. QED
  BY <1>1 DEF IsChain

\* What does not write the hops of a chain leaves it one.
LEMMA ChainStands ==
  ASSUME NEW table, NEW after, NEW c \in Seq(Principal), c # <<>>, IsChain(table, c),
         \A i \in 1..Len(c) :
           /\ after[c[i]].assumedBy = table[c[i]].assumedBy
           /\ table[c[i]].keys # "none" => after[c[i]].keys # "none"
  PROVE  IsChain(after, c)
<1>1. Len(c) \in Nat /\ Len(c) >= 1
  OBVIOUS
<1>. QED
  BY <1>1 DEF IsChain

LEMMA LimitIsNat == Limit \in Nat /\ Limit >= 1
BY ChainAssumption

LEMMA WithinLimit ==
  /\ \A n \in Nat : 1 < n /\ n < Limit /\ Limit <= 3 => n = 2 /\ Limit = 3
  /\ \A u, n \in Nat : u = 1 /\ n < Limit => u + n <= Limit
  /\ \A u, n \in Nat : u = 1 /\ n + 1 <= Limit => u + n <= Limit
  /\ \A u, n, k \in Nat : k = u + 1 /\ u + (n + 1) <= Limit => k + n <= Limit
BY LimitIsNat

\* A step of one walk disturbs no other.
LEMMA StaysFirm ==
  ASSUME TypeOK, FirmInv, NEW w \in Walker, NEW r, Become(w, r),
         credentials' = credentials,
         \A p \in Principal : FirmEntry(p)',
         FirmWalk(w)'
  PROVE  FirmInv'
<1>1. ASSUME NEW v \in Walker, v # w PROVE FirmWalk(v)'
  <2>1. walk'[v] = walk[v]
    BY <1>1 DEF TypeOK, Become
  <2>2. FirmWalk(v)
    BY DEF FirmInv
  <2>. QED
    BY <2>1, <2>2 DEF FirmWalk, Hop, Tip
<1>. QED
  BY <1>1 DEF FirmInv

\* Nor an entry of the cache, unless it puts one.
LEMMA EntriesStayFirm ==
  ASSUME FirmInv, UNCHANGED <<credentials, cache, unpurged>>
  PROVE  \A p \in Principal : FirmEntry(p)'
BY DEF FirmInv, FirmEntry

LEMMA FirmEnd ==
  ASSUME TypeOK, FirmInv, NEW w \in Walker, Become(w, IdleWalk),
         UNCHANGED <<credentials, cache, unpurged>>
  PROVE  FirmInv'
<1>1. walk'[w] = IdleWalk
  BY DEF TypeOK, Become
<1>2. FirmWalk(w)'
  BY <1>1, ChainAssumption DEF FirmWalk, IdleWalk
<1>. QED
  BY <1>2, EntriesStayFirm, StaysFirm

\* What a walk takes from the cache.
LEMMA CachedIsFirm ==
  ASSUME IInv, FirmInv, NEW p \in Principal, cache[p] # NoSession, Cached(p).firm
  PROVE  /\ IsChain(credentials, ChainOf(Cached(p)))
         /\ Limit <= 3 => Len(Cached(p).under) = 1
         /\ credentials[p].assumedBy # NoPrincipal \/ Limit > 3
<1>1. /\ Cached(p).holder = cache[p].holder /\ Cached(p).under = cache[p].under
      /\ Cached(p) \in Session /\ cache[p].firm /\ p \notin unpurged
      /\ Cached(p).holder = p
  BY CachedFacts DEF IInv, CachedSessionsAreShareable
<1>2. ChainOf(Cached(p)) = ChainOf(cache[p])
  BY <1>1 DEF ChainOf
<1>3. /\ IsChain(credentials, ChainOf(cache[p]))
      /\ Limit <= 3 => Len(cache[p].under) = 1
  BY <1>1 DEF FirmInv, FirmEntry
<1>4. CASE Limit <= 3
  <2> DEFINE c == ChainOf(Cached(p))
  <2>1. Len(c) = 2 /\ c[1] = p /\ c \in Seq(Principal)
    <3>1. /\ c \in Seq(Principal) /\ c[1] = Cached(p).holder
          /\ Len(c) = Len(Cached(p).under) + 1
      BY <1>1, ChainOfFacts
    <3>2. Len(Cached(p).under) = 1
      BY <1>1, <1>3, <1>4
    <3> HIDE DEF c
    <3>. QED
      BY <1>1, <3>1, <3>2
  <2>2. c[2] \in Principal
    BY <2>1
  <2>3. credentials[c[1]].assumedBy = c[2]
    <3>1. 1 \in 1..(Len(c) - 1)
      BY <2>1
    <3> HIDE DEF c
    <3>2. IsChain(credentials, c)
      BY <1>2, <1>3 DEF c
    <3>3. credentials[c[1]].assumedBy = c[1 + 1]
      BY <3>1, <3>2 DEF IsChain
    <3>. QED
      BY <3>3
  <2>. QED
    BY <1>1, <1>2, <1>3, <2>1, <2>2, <2>3, ChainAssumption
<1>5. Limit <= 3 \/ Limit > 3
  BY ChainAssumption
<1>. QED
  BY <1>1, <1>2, <1>3, <1>4, <1>5

LEMMA FirmStart ==
  ASSUME IInv, FirmInv, NEW w \in Walker, NEW p \in Principal, Start(w, p)
  PROVE  FirmInv'
<1>1. walk'[w].pc = "read" /\ walk'[w].trail = <<p>> /\ Len(<<p>>) = 1
  BY DEF Start, Become, IInv, TypeOK, IdleWalk
<1>2. FirmWalk(w)'
  BY <1>1, ChainAssumption DEF FirmWalk
<1>3. PICK r : Become(w, r)
  BY DEF Start
<1>4. TypeOK /\ \A q \in Principal : FirmEntry(q)'
  BY EntriesStayFirm DEF Start, IInv
<1>. QED
  BY <1>2, <1>3, <1>4, StaysFirm DEF Start

\* A step of a walk that leaves the cache alone, and what it makes of the walk.
LEMMA FirmBecomes ==
  ASSUME IInv, FirmInv, NEW w \in Walker, NEW r \in WalkState, Become(w, r),
         UNCHANGED <<cache, cacheConfig, tableVars>>,
         LET t == r.trail
             h == CASE r.pc = "scan" -> Len(t) [] r.pc = "assume" -> r.next + 1
                    [] r.pc = "store" -> r.next [] OTHER -> 1
         IN  /\ Len(t) <= Limit
             /\ r.pc = "lookup" => Len(t) < Limit
             /\ r.pc = "scan" /\ r.clean =>
                  Len(t) < Limit \/ credentials[t[Len(t)]].assumedBy = NoPrincipal
             /\ r.pc \in {"scan", "assume", "store", "done"} /\ r.clean /\ r.cred.firm =>
                  /\ IsChain(credentials, ChainOf(r.cred))
                  /\ Limit <= 3 => Len(r.cred.under) + h <= Limit
  PROVE  FirmInv'
<1>1. walk'[w] = r /\ TypeOK
  BY DEF Become, IInv, TypeOK
<1>2. FirmWalk(w)'
  BY <1>1 DEF FirmWalk, Hop, Tip, tableVars
<1>3. \A p \in Principal : FirmEntry(p)'
  BY EntriesStayFirm DEF tableVars
<1>. QED
  BY <1>1, <1>2, <1>3, StaysFirm DEF tableVars

LEMMA FirmLookUp ==
  ASSUME IInv, FirmInv, NEW w \in Walker, LookUp(w)
  PROVE  FirmInv'
<1> DEFINE t == walk[w].trail
           k == Cached(Tip(w))
<1>1. /\ walk[w] \in WalkState /\ walk[w].pc = "lookup" /\ Len(t) > 1 /\ Len(t) \in Nat
      /\ Len(t) < Limit /\ t \in Seq(Principal) /\ TypeOK
      /\ UNCHANGED <<cache, cacheConfig, tableVars>>
  BY DEF IInv, TypeOK, WalksOK, WalkOK, CredIsTheHopBelow, LookUp, FirmInv, FirmWalk, WalkState
<1>2. Tip(w) \in Principal /\ Tip(w) = t[Len(t)]
  BY <1>1 DEF Tip
<1>3. CASE cache[Tip(w)] # NoSession
  <2> DEFINE r == [walk[w] EXCEPT !.pc = "scan", !.next = 2, !.cred = k]
  <2>1. k \in Session
    BY <1>1, <1>2, <1>3, CachedFacts
  <2>2. k.firm => /\ IsChain(credentials, ChainOf(k))
                  /\ Limit <= 3 => Len(k.under) = 1
    BY <1>2, <1>3, CachedIsFirm
  <2>3. k.firm /\ Limit <= 3 => Len(k.under) = 1 /\ Len(k.under) \in Nat
    BY <2>2
  <2> HIDE DEF k
  <2>4. /\ r \in WalkState /\ r.pc = "scan" /\ r.cred = k /\ r.trail = t
    BY <1>1, <2>1 DEF WalkState
  <2>5. Become(w, r)
    BY <1>3 DEF LookUp, k
  <2>6. Limit <= 3 /\ k.firm => Len(k.under) + Len(t) <= Limit
    BY <1>1, <2>3, WithinLimit
  <2>7. Len(t) <= Limit
    BY <1>1, LimitIsNat
  <2> HIDE DEF r
  <2>. QED
    BY <1>1, <2>2, <2>4, <2>5, <2>6, <2>7, FirmBecomes
<1>4. CASE cache[Tip(w)] = NoSession
  <2> DEFINE r == [walk[w] EXCEPT !.pc = "read"]
  <2>1. r \in WalkState /\ r.pc = "read" /\ r.trail = t /\ Become(w, r)
    BY <1>1, <1>4 DEF WalkState, LookUp
  <2>2. Len(t) <= Limit
    BY <1>1, LimitIsNat
  <2> HIDE DEF r
  <2>. QED
    BY <1>1, <2>1, <2>2, LimitIsNat, FirmBecomes
<1>. QED
  BY <1>3, <1>4

LEMMA FirmReadRow ==
  ASSUME IInv, FirmInv, NEW w \in Walker, ReadRow(w)
  PROVE  FirmInv'
<1> DEFINE t == walk[w].trail
           row == credentials[Tip(w)]
<1>1. /\ walk[w] \in WalkState /\ walk[w].pc = "read" /\ Len(t) >= 1 /\ Len(t) \in Nat
      /\ Len(t) <= Limit /\ t \in Seq(Principal) /\ TypeOK
      /\ UNCHANGED <<cache, cacheConfig, tableVars>>
  BY DEF IInv, TypeOK, WalksOK, WalkOK, CredIsTheHopBelow, ReadRow, FirmInv, FirmWalk, WalkState
<1>2. Tip(w) \in Principal /\ Tip(w) = t[Len(t)] /\ row \in Row
  BY <1>1 DEF Tip, TypeOK
<1>3. CASE /\ row.assumedBy # NoPrincipal /\ Len(t) < Limit
           /\ Become(w, [walk[w] EXCEPT
                !.pc = IF ConsultsCache(w, Len(t) + 1) THEN "lookup" ELSE "read",
                !.trail = Append(t, row.assumedBy)])
  <2> DEFINE c == IF ConsultsCache(w, Len(t) + 1) THEN "lookup" ELSE "read"
             q == row.assumedBy
             r == [walk[w] EXCEPT !.pc = c, !.trail = Append(t, q)]
  <2>1. q \in Principal
    BY <1>2, <1>3 DEF Row
  <2>2. Append(t, q) \in Seq(Principal) /\ Len(Append(t, q)) = Len(t) + 1
    BY <1>1, <2>1, AppendFacts
  <2>3. c \in {"lookup", "read"} /\ (c = "lookup" => Len(t) + 1 < Limit)
    BY DEF ConsultsCache
  <2> HIDE DEF c, q
  <2>4. r \in WalkState /\ r.pc = c /\ r.trail = Append(t, q)
    BY <1>1, <2>2, <2>3 DEF WalkState
  <2>5. Become(w, r)
    BY <1>3 DEF c, q
  <2>6. Len(r.trail) <= Limit /\ (r.pc = "lookup" => Len(r.trail) < Limit)
    BY <1>1, <1>3, <2>2, <2>3, <2>4, ChainAssumption
  <2>7. r.pc \notin {"scan", "assume", "store", "done"}
    BY <2>3, <2>4
  <2> HIDE DEF r
  <2>. QED
    BY <1>1, <2>4, <2>5, <2>6, <2>7, FirmBecomes
<1>4. CASE /\ row.assumedBy = NoPrincipal /\ row.keys # "none" /\ Len(t) > 1
           /\ Become(w, [walk[w] EXCEPT
                !.pc = IF w \in Requests THEN "scan" ELSE "assume",
                !.next = IF w \in Requests THEN 2 ELSE Len(t) - 1,
                !.cred = BaseSession(Tip(w))])
  <2> DEFINE c == IF w \in Requests THEN "scan" ELSE "assume"
             n == IF w \in Requests THEN 2 ELSE Len(t) - 1
             k == BaseSession(Tip(w))
             r == [walk[w] EXCEPT !.pc = c, !.next = n, !.cred = k]
  <2>1. k \in Session /\ k.under = <<>> /\ k.holder = Tip(w)
    <3>1. row.keys \in {"longterm", "temporary"}
      BY <1>2, <1>4 DEF Row
    <3>. QED
      BY <1>2, <3>1, BaseSessionType DEF BaseSession
  <2>2. IsChain(credentials, ChainOf(k)) /\ Len(k.under) = 0
    BY <1>2, <1>4, <2>1, BaseIsChain DEF ChainOf
  <2>3. c \in {"scan", "assume"} /\ n \in Nat /\ (c = "assume" => n + 1 = Len(t))
    BY <1>1, <1>4
  <2> HIDE DEF c, n, k
  <2>4. r \in WalkState /\ r.pc = c /\ r.next = n /\ r.cred = k /\ r.trail = t
    BY <1>1, <2>1, <2>3 DEF WalkState
  <2>5. Become(w, r)
    BY <1>4 DEF c, n, k
  <2>6. Len(k.under) + Len(t) <= Limit
    BY <1>1, <2>2
  <2>7. CASE c = "scan"
    <3> HIDE DEF r
    <3>. QED
      BY <1>1, <1>2, <1>4, <2>2, <2>4, <2>5, <2>6, <2>7, FirmBecomes
  <2>8. CASE c = "assume"
    <3> HIDE DEF r
    <3>. QED
      BY <1>1, <2>2, <2>3, <2>4, <2>5, <2>6, <2>8, FirmBecomes
  <2>. QED
    BY <2>3, <2>7, <2>8
<1>5. CASE Become(w, IdleWalk)
  BY <1>1, <1>5, FirmEnd DEF tableVars
<1>. QED
  BY <1>3, <1>4, <1>5 DEF ReadRow

LEMMA FirmScan ==
  ASSUME IInv, FirmInv, NEW w \in Walker, Scan(w)
  PROVE  FirmInv'
<1> DEFINE t == walk[w].trail
           n == walk[w].next
           bare == [walk[w].cred EXCEPT !.token = FALSE]
<1>1. /\ walk[w] \in WalkState /\ walk[w].pc = "scan" /\ Len(t) \in Nat
      /\ Len(t) <= Limit /\ t \in Seq(Principal) /\ TypeOK
      /\ UNCHANGED <<cache, cacheConfig, tableVars>>
  BY DEF IInv, TypeOK, Scan, FirmInv, FirmWalk, WalkState
<1>2. n \in 2..Len(t) /\ walk[w].cred \in Session /\ t[n] \in Principal
  BY <1>1 DEF IInv, WalksOK, WalkOK, CredIsTheHopBelow, WalkState
<1>7. n - 1 \in Nat /\ (n - 1) + 1 = n /\ n \in Nat
  BY <1>1, <1>2
<1>3. /\ walk[w].clean => Len(t) < Limit \/ credentials[t[Len(t)]].assumedBy = NoPrincipal
      /\ walk[w].clean /\ walk[w].cred.firm =>
           /\ IsChain(credentials, ChainOf(walk[w].cred))
           /\ Limit <= 3 => Len(walk[w].cred.under) + Len(t) <= Limit
  BY <1>1 DEF FirmInv, FirmWalk, Hop, Tip
<1>4. CASE cache[t[n]] # NoSession /\ Become(w, Reuse(w, t[n]))
  <2> DEFINE k == Cached(t[n])
             r == [walk[w] EXCEPT !.pc = "assume", !.next = n - 1, !.cred = k]
  <2>1. k \in Session
    BY <1>1, <1>2, <1>4, CachedFacts
  <2>2. k.firm => /\ IsChain(credentials, ChainOf(k))
                  /\ Limit <= 3 => Len(k.under) = 1
                  /\ credentials[t[n]].assumedBy # NoPrincipal \/ Limit > 3
    BY <1>2, <1>4, CachedIsFirm
  <2>3. walk[w].clean /\ k.firm /\ Limit <= 3 => n + 1 <= Limit
    BY <1>1, <1>2, <1>3, <2>2, LimitIsNat
  <2> HIDE DEF k
  <2>4. /\ r \in WalkState /\ r.pc = "assume" /\ r.next = n - 1 /\ r.cred = k /\ r.trail = t
        /\ r.clean = walk[w].clean
    BY <1>1, <1>7, <2>1 DEF WalkState
  <2>5. Become(w, r)
    BY <1>4 DEF Reuse, k
  <2>6. walk[w].clean /\ k.firm /\ Limit <= 3 => Len(k.under) + n <= Limit
    <3>1. k.firm /\ Limit <= 3 => Len(k.under) = 1 /\ Len(k.under) \in Nat
      BY <2>2
    <3>. QED
      BY <1>7, <2>3, <3>1, WithinLimit
  <2> HIDE DEF r
  <2>. QED
    BY <1>1, <2>2, <2>4, <2>5, <2>6, <1>7, FirmBecomes
<1>5. CASE n < Len(t) /\ Become(w, [walk[w] EXCEPT !.next = n + 1])
  <2> DEFINE r == [walk[w] EXCEPT !.next = n + 1]
  <2>1. /\ r \in WalkState /\ r.pc = "scan" /\ r.cred = walk[w].cred /\ r.trail = t
        /\ r.clean = walk[w].clean
    BY <1>1, <1>2 DEF WalkState
  <2>2. Become(w, r)
    BY <1>5
  <2> HIDE DEF r
  <2>. QED
    BY <1>1, <1>3, <2>1, <2>2, FirmBecomes
<1>6. CASE n = Len(t) /\ Become(w, [walk[w] EXCEPT !.pc = "assume", !.next = n - 1, !.cred = bare])
  <2> DEFINE r == [walk[w] EXCEPT !.pc = "assume", !.next = n - 1, !.cred = bare]
  <2>1. /\ bare \in Session /\ bare.under = walk[w].cred.under
        /\ bare.holder = walk[w].cred.holder /\ bare.firm = walk[w].cred.firm
    BY <1>2 DEF Session
  <2>2. ChainOf(bare) = ChainOf(walk[w].cred)
    BY <2>1 DEF ChainOf
  <2> HIDE DEF bare
  <2>3. /\ r \in WalkState /\ r.pc = "assume" /\ r.next = n - 1 /\ r.cred = bare /\ r.trail = t
        /\ r.clean = walk[w].clean
    BY <1>1, <1>7, <2>1 DEF WalkState
  <2>4. Become(w, r)
    BY <1>6 DEF bare
  <2> HIDE DEF r
  <2>. QED
    BY <1>1, <1>3, <2>1, <2>2, <2>3, <2>4, <1>6, <1>7, FirmBecomes
<1>. QED
  BY <1>4, <1>5, <1>6 DEF Scan

\* A session minted from a chain of the table, for a hop whose row names the head of the
\* chain, speaks for a chain longer by one.
LEMMA FirmMinted ==
  ASSUME IInv, FirmInv, NEW w \in Walker, walk[w].pc = "assume"
  PROVE  LET n == walk[w].next
             m == Minted(w)
         IN  walk[w].clean /\ m.firm =>
               /\ IsChain(credentials, ChainOf(m))
               /\ Limit <= 3 => Len(m.under) + n <= Limit
<1> DEFINE t == walk[w].trail
           n == walk[w].next
           m == Minted(w)
           c == ChainOf(walk[w].cred)
<1>1. /\ n \in 1..(Len(t) - 1) /\ Len(t) \in Nat /\ m.holder = t[n] /\ m.under = c
      /\ m.firm = walk[w].cred.firm
  BY MintedFacts
<1>2. /\ walk[w] \in WalkState /\ walk[w].cred \in Session /\ walk[w].cred.holder = t[n + 1]
      /\ t \in Seq(Principal)
  BY DEF IInv, TypeOK, WalkState, WalksOK, WalkOK, CredIsTheHopBelow
<1>3. /\ c \in Seq(Principal) /\ c # <<>> /\ c[1] = t[n + 1]
      /\ Len(c) = Len(walk[w].cred.under) + 1 /\ Len(walk[w].cred.under) \in Nat
  <2>1. walk[w].cred.under \in Seq(Principal)
    BY <1>2 DEF Session
  <2>. QED
    BY <1>2, <2>1, ChainOfFacts
<1>4. t[n] \in Principal
  BY <1>1, <1>2
<1> SUFFICES ASSUME walk[w].clean, m.firm
             PROVE  /\ IsChain(credentials, ChainOf(m))
                    /\ Limit <= 3 => Len(m.under) + n <= Limit
  OBVIOUS
<1>5. /\ IsChain(credentials, c)
      /\ Limit <= 3 => Len(walk[w].cred.under) + (n + 1) <= Limit
  BY <1>1 DEF FirmInv, FirmWalk, Hop
<1>6. credentials[t[n]].assumedBy = t[n + 1]
  BY <1>1 DEF IInv, WalksOK, WalkOK, CleanTrailIsCurrent
<1>7. ChainOf(m) = <<t[n]>> \o c
  BY <1>1 DEF ChainOf
<1> HIDE DEF m, c
<1>8. IsChain(credentials, <<t[n]>> \o c)
  BY <1>3, <1>4, <1>5, <1>6, ChainGrows
<1>9. n \in Nat
  BY <1>1
<1>10. Limit <= 3 => Len(m.under) + n <= Limit
  <2>1. Len(m.under) \in Nat /\ Len(m.under) = Len(walk[w].cred.under) + 1
    BY <1>1, <1>3
  <2>. QED
    BY <1>3, <1>5, <1>9, <2>1, WithinLimit
<1>. QED
  BY <1>7, <1>8, <1>10

LEMMA FirmAssume ==
  ASSUME IInv, FirmInv, NEW w \in Walker, Assume(w)
  PROVE  FirmInv'
<1> DEFINE t == walk[w].trail
           n == walk[w].next
           m == Minted(w)
<1>1. n \in 1..(Len(t) - 1) /\ Len(t) \in Nat /\ m \in Session
  BY MintedFacts DEF Assume
<1>2. walk[w] \in WalkState /\ Len(t) <= Limit /\ UNCHANGED <<cache, cacheConfig, tableVars>>
  BY DEF IInv, TypeOK, FirmInv, FirmWalk, Assume
<1>3. walk[w].clean /\ m.firm =>
        /\ IsChain(credentials, ChainOf(m))
        /\ Limit <= 3 => Len(m.under) + n <= Limit
  BY FirmMinted DEF Assume
<1>4. CASE n > 1 /\ Become(w, [walk[w] EXCEPT !.pc = "store", !.cred = m])
  <2> DEFINE r == [walk[w] EXCEPT !.pc = "store", !.cred = m]
  <2> HIDE DEF m
  <2>1. /\ r \in WalkState /\ r.pc = "store" /\ r.cred = m /\ r.trail = t /\ r.next = n
        /\ r.clean = walk[w].clean
    BY <1>1, <1>2 DEF WalkState
  <2>2. Become(w, r)
    BY <1>4
  <2> HIDE DEF r
  <2>. QED
    BY <1>2, <1>3, <2>1, <2>2, FirmBecomes
<1>5. CASE Become(w, Onward(w, m))
  <2> DEFINE r == Onward(w, m)
  <2>1. /\ r \in WalkState /\ r.trail = t /\ r.clean = walk[w].clean /\ r.cred = m
        /\ n = 1 => r.pc = "done"
        /\ n # 1 => r.pc = "assume" /\ r.next = n - 1 /\ (n - 1) + 1 = n
    BY <1>1, <1>2, OnwardFacts
  <2>2. Become(w, r)
    BY <1>5
  <2> HIDE DEF r, m
  <2>3. CASE n = 1
    BY <1>2, <1>3, <2>1, <2>2, <2>3, FirmBecomes
  <2>4. CASE n # 1
    BY <1>2, <1>3, <2>1, <2>2, <2>4, FirmBecomes
  <2>. QED
    BY <2>3, <2>4
<1>. QED
  BY <1>4, <1>5 DEF Assume, Caches

\* The entry put is the session in hand, and firm only if no write overlapped the walk.
LEMMA FirmStore ==
  ASSUME IInv, FirmInv, NEW w \in Walker, Store(w)
  PROVE  FirmInv'
<1> DEFINE t == walk[w].trail
           n == walk[w].next
           k == walk[w].cred
           e == [k EXCEPT !.clean = walk[w].clean, !.firm = k.firm /\ walk[w].clean]
           r == Onward(w, k)
<1>1. /\ walk[w] \in WalkState /\ walk[w].pc = "store" /\ Len(t) <= Limit /\ TypeOK
      /\ walk[w].clean \in BOOLEAN
  BY DEF IInv, TypeOK, FirmInv, FirmWalk, Store, WalkState
<1>2. n \in 2..(Len(t) - 1) /\ k \in Session /\ k.under # <<>> /\ n \in Nat /\ t[n] \in Principal
  BY <1>1 DEF IInv, WalksOK, WalkOK, CredIsTheHopBelow, WalkState
<1>3. walk[w].clean /\ k.firm =>
        /\ IsChain(credentials, ChainOf(k))
        /\ Limit <= 3 => Len(k.under) + n <= Limit
  BY <1>1 DEF FirmInv, FirmWalk, Hop
<1>4. /\ e.holder = k.holder /\ e.under = k.under
      /\ e.firm = (k.firm /\ walk[w].clean)
  BY <1>2 DEF Session
<1>5. ChainOf(e) = ChainOf(k)
  BY <1>4 DEF ChainOf
<1>6. walk[w].clean /\ k.firm /\ Limit <= 3 => Len(k.under) = 1
  <2>1. Len(k.under) \in Nat /\ Len(k.under) >= 1
    BY <1>2 DEF Session
  <2>2. \A u, m \in Nat : u >= 1 /\ m >= 2 /\ u + m <= Limit /\ Limit <= 3 => u = 1
    BY LimitIsNat
  <2>3. n >= 2
    BY <1>2
  <2>. QED
    BY <1>2, <1>3, <2>1, <2>2, <2>3
<1>7. /\ r \in WalkState /\ r.trail = t /\ r.clean = walk[w].clean /\ r.cred = k
      /\ r.pc = "assume" /\ r.next = n - 1 /\ (n - 1) + 1 = n
  BY <1>1, <1>2, OnwardFacts
<1>8. Become(w, r) /\ walk'[w] = r /\ credentials' = credentials /\ unpurged' = unpurged
      /\ cache' = [cache EXCEPT ![t[n]] = e]
  BY <1>1 DEF Store, Become, TypeOK, tableVars
<1>9. cache'[t[n]] = e /\ \A p \in Principal : p # t[n] => cache'[p] = cache[p]
  BY <1>1, <1>2, <1>8 DEF TypeOK
<1> HIDE DEF r, e
<1>10. ASSUME NEW p \in Principal PROVE FirmEntry(p)'
  <2>1. CASE p = t[n]
    BY <1>3, <1>4, <1>5, <1>6, <1>8, <1>9, <2>1 DEF FirmEntry
  <2>2. CASE p # t[n]
    BY <1>8, <1>9, <2>2 DEF FirmInv, FirmEntry
  <2>. QED
    BY <2>1, <2>2
<1>11. FirmWalk(w)'
  <2>1. Len(walk'[w].trail) <= Limit /\ walk'[w].pc = "assume"
    BY <1>1, <1>7, <1>8
  <2>2. Hop(w)' = n
    BY <1>7, <1>8 DEF Hop
  <2>3. walk'[w].clean /\ walk'[w].cred.firm =>
          /\ IsChain(credentials', ChainOf(walk'[w].cred))
          /\ Limit <= 3 => Len(walk'[w].cred.under) + n <= Limit
    BY <1>3, <1>7, <1>8
  <2>. QED
    BY <2>1, <2>2, <2>3 DEF FirmWalk
<1>. QED
  BY <1>1, <1>8, <1>10, <1>11, StaysFirm

LEMMA FirmWalkStep ==
  ASSUME IInv, FirmInv, NEW w \in Walker, WalkStep(w)
  PROVE  FirmInv'
<1>1. CASE LookUp(w)
  BY <1>1, FirmLookUp
<1>2. CASE ReadRow(w)
  BY <1>2, FirmReadRow
<1>3. CASE Scan(w)
  BY <1>3, FirmScan
<1>4. CASE Assume(w)
  BY <1>4, FirmAssume
<1>5. CASE Store(w)
  BY <1>5, FirmStore
<1>6. CASE Finish(w) \/ WalkFails(w)
  BY <1>6, FirmEnd DEF Finish, WalkFails, IInv, tableVars
<1>. QED
  BY <1>1, <1>2, <1>3, <1>4, <1>5, <1>6 DEF WalkStep

\* A write ends what is claimed of the walks it overlaps.
LEMMA FirmDisturbed ==
  ASSUME TypeOK, FirmInv, walk' = Disturbed, NEW w \in Walker
  PROVE  FirmWalk(w)'
<1>1. /\ walk'[w].pc = walk[w].pc /\ walk'[w].trail = walk[w].trail
      /\ walk'[w].clean => walk[w].pc = "idle"
  BY DisturbedFacts
<1>2. FirmWalk(w)
  BY DEF FirmInv
<1>. QED
  BY <1>1, <1>2 DEF FirmWalk

\* Of the entries a write leaves, the firm ones do not rest on the row written.
LEMMA FirmRowWritten ==
  ASSUME IInv, FirmInv, NEW p \in Principal, NEW row,
         credentials' = [credentials EXCEPT ![p] = row],
         unpurged' = unpurged \cup {p}, walk' = Disturbed, cache' = Undercut(p)
  PROVE  FirmInv'
<1>1. ASSUME NEW q \in Principal PROVE FirmEntry(q)'
  <2> SUFFICES ASSUME cache'[q] # NoSession, cache'[q].firm, q \notin unpurged'
               PROVE  /\ IsChain(credentials', ChainOf(cache'[q]))
                      /\ Limit <= 3 => Len(cache'[q].under) = 1
    BY DEF FirmEntry
  <2> DEFINE c == ChainOf(cache[q])
  <2>1. /\ cache[q] # NoSession /\ cache[q].firm /\ q \notin unpurged /\ q # p
        /\ cache'[q].holder = cache[q].holder /\ cache'[q].under = cache[q].under
        /\ \A i \in 1..Len(cache[q].under) : cache[q].under[i] # p
    BY UndercutFacts DEF IInv
  <2>2. IsChain(credentials, c) /\ (Limit <= 3 => Len(cache[q].under) = 1)
    BY <2>1 DEF FirmInv, FirmEntry
  <2>3. ChainOf(cache'[q]) = c
    BY <2>1 DEF ChainOf
  <2>4. /\ c \in Seq(Principal) /\ c # <<>> /\ Len(c) = Len(cache[q].under) + 1
        /\ c[1] = q /\ Len(cache[q].under) \in Nat
        /\ \A i \in 1..Len(cache[q].under) : c[i + 1] = cache[q].under[i]
    <3>1. cache[q] \in Session /\ cache[q].holder = q
      BY <2>1 DEF IInv, TypeOK, CachedSessionsAreShareable
    <3>2. Len(cache[q].under) \in Nat
      BY <3>1 DEF Session
    <3>. QED
      BY <3>1, <3>2, ChainOfFacts
  <2> HIDE DEF c
  <2>5. ASSUME NEW i \in 1..Len(c) PROVE c[i] \in Principal /\ c[i] # p
    <3>1. CASE i = 1
      BY <2>1, <2>4, <3>1
    <3>2. CASE i # 1
      <4>1. i - 1 \in 1..Len(cache[q].under) /\ (i - 1) + 1 = i
        BY <2>4, <3>2
      <4>2. c[(i - 1) + 1] = cache[q].under[i - 1] /\ cache[q].under[i - 1] # p
        BY <2>1, <2>4, <4>1
      <4>3. c[i] \in Principal
        BY <2>4
      <4>. QED
        BY <4>1, <4>2, <4>3
    <3>. QED
      BY <3>1, <3>2
  <2>6. \A i \in 1..Len(c) :
          /\ credentials'[c[i]].assumedBy = credentials[c[i]].assumedBy
          /\ credentials[c[i]].keys # "none" => credentials'[c[i]].keys # "none"
    <3>1. \A x \in Principal : x # p => credentials'[x] = credentials[x]
      BY DEF IInv, TypeOK
    <3>. QED
      BY <2>5, <3>1
  <2>7. IsChain(credentials', c)
    <3>1. c \in Seq(Principal) /\ c # <<>> /\ IsChain(credentials, c)
      BY <2>2, <2>4
    <3>. QED
      BY <2>6, <3>1, ChainStands
  <2>. QED
    BY <2>1, <2>2, <2>3, <2>7
<1>. QED
  BY <1>1, FirmDisturbed DEF FirmInv, IInv

LEMMA FirmAdminStep ==
  ASSUME IInv, FirmInv, NEW a \in Admins, AdminStep(a)
  PROVE  FirmInv'
<1>1. ASSUME NEW p \in Principal, NEW keys \in {"longterm", "temporary"},
             StoreCredential(a, p, keys)
      PROVE  FirmInv'
  <2>1. \A q \in Principal :
          /\ credentials'[q].assumedBy = credentials[q].assumedBy
          /\ credentials[q].keys # "none" => credentials'[q].keys # "none"
    BY <1>1 DEF StoreCredential, IInv, TypeOK, Row
  <2>2. ASSUME NEW q \in Principal PROVE FirmEntry(q)'
    <3> SUFFICES ASSUME cache[q] # NoSession, cache[q].firm, q \notin unpurged
                 PROVE  /\ IsChain(credentials', ChainOf(cache[q]))
                        /\ Limit <= 3 => Len(cache[q].under) = 1
      BY <1>1 DEF StoreCredential, FirmEntry
    <3> DEFINE c == ChainOf(cache[q])
    <3>1. IsChain(credentials, c) /\ (Limit <= 3 => Len(cache[q].under) = 1)
      BY DEF FirmInv, FirmEntry
    <3>2. c \in Seq(Principal) /\ c # <<>>
      BY ChainOfFacts DEF IInv, TypeOK
    <3> HIDE DEF c
    <3>3. \A i \in 1..Len(c) : c[i] \in Principal
      BY <3>2
    <3>4. IsChain(credentials', c)
      BY <2>1, <3>1, <3>2, <3>3, ChainStands
    <3>. QED
      BY <3>1, <3>4 DEF c
  <2>. QED
    BY <1>1, <2>2, FirmDisturbed DEF FirmInv, IInv, StoreCredential
<1>2. ASSUME NEW p \in Principal, NEW q \in Principal, StoreRelationship(a, p, q)
      PROVE  FirmInv'
  <2>1. credentials' = [credentials EXCEPT ![p] = [credentials[p] EXCEPT !.assumedBy = q]]
    BY <1>2 DEF StoreRelationship
  <2>. QED
    BY <1>2, <2>1, FirmRowWritten DEF StoreRelationship
<1>3. ASSUME NEW p \in Principal, RemoveCredential(a, p)
      PROVE  FirmInv'
  BY <1>3, FirmRowWritten DEF RemoveCredential
<1>4. CASE InvalidateCachedCredential(a)
  <2> DEFINE x == admin[a].p
  <2>1. \A q \in Principal : cache'[q] # NoSession => cache'[q] = cache[q] /\ q # x
    BY <1>4 DEF IInv, TypeOK, InvalidateCachedCredential
  <2>2. \A q \in Principal : FirmEntry(q)'
    BY <1>4, <2>1 DEF InvalidateCachedCredential, FirmInv, FirmEntry
  <2>. QED
    BY <1>4, <2>2, FirmDisturbed DEF FirmInv, IInv, InvalidateCachedCredential
<1>5. CASE Register(a) \/ AdminFails(a)
  <2>1. UNCHANGED <<credentials, cache, walk, unpurged>>
    BY <1>5 DEF Register, AdminFails
  <2>. QED
    BY <2>1 DEF FirmInv, FirmEntry, FirmWalk, Hop, Tip
<1>. QED
  BY <1>1, <1>2, <1>3, <1>4, <1>5 DEF AdminStep

LEMMA FirmNext ==
  ASSUME IInv, FirmInv, [Next]_vars
  PROVE  FirmInv'
<1>1. ASSUME NEW w \in Walker, WalkStep(w) PROVE FirmInv'
  BY <1>1, FirmWalkStep
<1>2. ASSUME NEW w \in Walker, NEW p \in Principal, Start(w, p) PROVE FirmInv'
  BY <1>2, FirmStart
<1>3. ASSUME NEW p \in Principal, Expire(p) PROVE FirmInv'
  <2>1. /\ \A q \in Principal : cache'[q] # NoSession => cache'[q] = cache[q]
        /\ UNCHANGED <<credentials, walk, unpurged>>
    BY <1>3 DEF Expire, IInv, TypeOK, tableVars
  <2>2. \A q \in Principal : FirmEntry(q)'
    BY <2>1 DEF FirmInv, FirmEntry
  <2>. QED
    BY <2>1, <2>2 DEF FirmInv, FirmWalk, Hop, Tip
<1>4. ASSUME NEW a \in Admins, AdminStep(a) PROVE FirmInv'
  BY <1>4, FirmAdminStep
<1>5. CASE UNCHANGED <<credentials, cache, walk, unpurged>>
  BY <1>5 DEF FirmInv, FirmEntry, FirmWalk, Hop, Tip
<1>6. ASSUME NEW w \in Refreshers, ReadBatch(w) PROVE FirmInv'
  BY <1>5, <1>6 DEF ReadBatch
<1>. QED
  BY <1>1, <1>2, <1>3, <1>4, <1>5, <1>6 DEF Next, vars

LEMMA FirmInvariant == Spec => []FirmInv
<1>1. Init => FirmInv
  BY LimitIsNat DEF Init, IdleWalk, FirmInv, FirmEntry, FirmWalk
<1>2. IInv /\ FirmInv /\ [Next]_vars => FirmInv'
  BY FirmNext
<1>. QED
  BY <1>1, <1>2, ChainInvariant, PTL DEF Spec

\* However many writes came before, and whatever the limit, a request that no write
\* overlaps, and whose session no write undercut, is served along a chain the table
\* holds; for a limit of at most 3 the walk of the table alone would have served it too.
THEOREM CacheChangesNoAnswer == Spec => []WarmAgreesWithCold
<1>1. IInv /\ FirmInv => WarmAgreesWithCold
  <2> SUFFICES ASSUME IInv, FirmInv, NEW w \in Requests, walk[w].pc = "done",
                      walk[w].clean, walk[w].cred.firm
               PROVE  /\ IsChain(credentials, ChainOf(walk[w].cred))
                      /\ Limit <= 3 => ColdServes(walk[w].trail[1])
    BY DEF WarmAgreesWithCold
  <2> DEFINE k == walk[w].cred
             c == ChainOf(k)
  <2>1. /\ w \in Walker /\ k \in Session /\ k.holder = walk[w].trail[1] /\ k.under # <<>>
    BY DEF IInv, TypeOK, WalkState, Walker, WalksOK, WalkOK, CredIsTheHopBelow
  <2>2. IsChain(credentials, c) /\ (Limit <= 3 => Len(k.under) + 1 <= Limit)
    BY <2>1 DEF FirmInv, FirmWalk, Hop
  <2>3. /\ c \in Seq(Principal) /\ c[1] = walk[w].trail[1] /\ Len(c) = Len(k.under) + 1
        /\ Len(k.under) \in Nat /\ Len(k.under) >= 1
    <3>1. Len(k.under) \in Nat /\ Len(k.under) >= 1
      BY <2>1 DEF Session
    <3>. QED
      BY <2>1, <3>1, ChainOfFacts
  <2> HIDE DEF c
  <2>4. ASSUME Limit <= 3 PROVE ColdServes(walk[w].trail[1])
    <3>1. Len(c) \in 2..Limit
      BY <2>2, <2>3, <2>4, LimitIsNat
    <3>2. c \in [1..Len(c) -> Principal]
      BY <2>3
    <3>. QED
      BY <2>2, <2>3, <3>1, <3>2 DEF ColdServes
  <2>. QED
    BY <2>2, <2>4 DEF c
<1>. QED
  BY <1>1, ChainInvariant, FirmInvariant, PTL

-----------------------------------------------------------------------------
(* Walks run down *)

AwaitsAreNat == \A w \in Walker : AwaitsLeft(w) \in Nat

LEMMA AwaitsType == IInv /\ FirmInv => AwaitsAreNat
<1> SUFFICES ASSUME IInv, FirmInv, NEW w \in Walker PROVE AwaitsLeft(w) \in Nat
  BY DEF AwaitsAreNat
<1> DEFINE h == Len(walk[w].trail)
           n == walk[w].next
<1>1. /\ walk[w].pc \in {"idle", "lookup", "read", "scan", "assume", "store", "done"}
      /\ h \in Nat /\ n \in Nat
  BY DEF IInv, TypeOK, WalkState
<1>2. h <= Limit
  BY DEF FirmInv, FirmWalk
<1>3. /\ walk[w].pc = "scan" => n <= h
      /\ walk[w].pc = "store" => n >= 2
  BY <1>1 DEF IInv, WalksOK, WalkOK, CredIsTheHopBelow
<1>4. AwaitsLeft(w) =
        CASE walk[w].pc = "idle"   -> 0
          [] walk[w].pc = "done"   -> 1
          [] walk[w].pc = "store"  -> 2 * n - 1
          [] walk[w].pc = "assume" -> 2 * n
          [] walk[w].pc = "scan"   -> 3 * h - n
          [] walk[w].pc = "read"   -> 3 * Limit + 2 * (Limit - h) + 1
          [] walk[w].pc = "lookup" -> 3 * Limit + 2 * (Limit - h) + 2
  BY DEF AwaitsLeft
<1> HIDE DEF h, n
<1>. QED
  BY <1>1, <1>2, <1>3, <1>4, LimitIsNat

\* What is left of a walk, case by case.
LEMMA AwaitsCases ==
  ASSUME NEW w \in Walker
  PROVE  LET h == Len(walk[w].trail)
             n == walk[w].next
         IN  /\ walk[w].pc = "idle"   => AwaitsLeft(w) = 0
             /\ walk[w].pc = "done"   => AwaitsLeft(w) = 1
             /\ walk[w].pc = "store"  => AwaitsLeft(w) = 2 * n - 1
             /\ walk[w].pc = "assume" => AwaitsLeft(w) = 2 * n
             /\ walk[w].pc = "scan"   => AwaitsLeft(w) = 3 * h - n
             /\ walk[w].pc = "read"   => AwaitsLeft(w) = 3 * Limit + 2 * (Limit - h) + 1
             /\ walk[w].pc = "lookup" => AwaitsLeft(w) = 3 * Limit + 2 * (Limit - h) + 2
BY DEF AwaitsLeft

LEMMA AwaitsCasesNext ==
  ASSUME NEW w \in Walker
  PROVE  LET h == Len(walk'[w].trail)
             n == walk'[w].next
         IN  /\ walk'[w].pc = "idle"   => AwaitsLeft(w)' = 0
             /\ walk'[w].pc = "done"   => AwaitsLeft(w)' = 1
             /\ walk'[w].pc = "store"  => AwaitsLeft(w)' = 2 * n - 1
             /\ walk'[w].pc = "assume" => AwaitsLeft(w)' = 2 * n
             /\ walk'[w].pc = "scan"   => AwaitsLeft(w)' = 3 * h - n
             /\ walk'[w].pc = "read"   => AwaitsLeft(w)' = 3 * Limit + 2 * (Limit - h) + 1
             /\ walk'[w].pc = "lookup" => AwaitsLeft(w)' = 3 * Limit + 2 * (Limit - h) + 2
BY DEF AwaitsLeft

\* A walk that ends has nothing left, and had something.
LEMMA EndRunsDown ==
  ASSUME IInv, FirmInv, NEW w \in Walker, walk[w].pc # "idle", Become(w, IdleWalk)
  PROVE  AwaitsLeft(w)' < AwaitsLeft(w)
<1> DEFINE h == Len(walk[w].trail)
           n == walk[w].next
<1>1. walk'[w].pc = "idle" /\ walk[w] \in WalkState /\ h \in Nat /\ n \in Nat /\ h <= Limit
  BY DEF Become, IInv, TypeOK, IdleWalk, WalkState, FirmInv, FirmWalk
<1>2. /\ walk[w].pc = "scan" => n >= 2 /\ n <= h
      /\ walk[w].pc = "store" => n >= 2
      /\ walk[w].pc = "assume" => n >= 1
  BY <1>1 DEF IInv, WalksOK, WalkOK, CredIsTheHopBelow
<1>3. AwaitsLeft(w)' = 0
  BY <1>1, AwaitsCasesNext
<1>4. /\ walk[w].pc \in {"idle", "lookup", "read", "scan", "assume", "store", "done"}
      /\ walk[w].pc = "done"   => AwaitsLeft(w) = 1
      /\ walk[w].pc = "store"  => AwaitsLeft(w) = 2 * n - 1
      /\ walk[w].pc = "assume" => AwaitsLeft(w) = 2 * n
      /\ walk[w].pc = "scan"   => AwaitsLeft(w) = 3 * h - n
      /\ walk[w].pc = "read"   => AwaitsLeft(w) = 3 * Limit + 2 * (Limit - h) + 1
      /\ walk[w].pc = "lookup" => AwaitsLeft(w) = 3 * Limit + 2 * (Limit - h) + 2
  BY <1>1, AwaitsCases DEF WalkState
<1> HIDE DEF h, n
<1>. QED
  BY <1>1, <1>2, <1>3, <1>4, LimitIsNat

\* What a step makes of the walk that takes it, and of the others.
LEMMA Became ==
  ASSUME TypeOK, NEW w \in Walker, NEW r, Become(w, r)
  PROVE  walk'[w] = r /\ \A v \in Walker : v # w => walk'[v] = walk[v]
BY DEF TypeOK, Become

LEMMA StepRunsDown ==
  ASSUME IInv, FirmInv, NEW w \in Walker, WalkStep(w)
  PROVE  /\ AwaitsLeft(w)' < AwaitsLeft(w)
         /\ \A v \in Walker : v # w => walk'[v] = walk[v]
<1> DEFINE h == Len(walk[w].trail)
           n == walk[w].next
           hn == Len(walk'[w].trail)
           nn == walk'[w].next
           was == walk[w].pc
           is == walk'[w].pc
           left == AwaitsLeft(w)
           then == AwaitsLeft(w)'
<1>1. /\ walk[w] \in WalkState /\ h \in Nat /\ n \in Nat /\ h <= Limit /\ TypeOK
      /\ walk[w].trail \in Seq(Principal)
  BY DEF IInv, TypeOK, WalkState, FirmInv, FirmWalk
<1>2. /\ was = "scan" => n >= 2 /\ n <= h
      /\ was = "assume" => n >= 1
      /\ was = "store" => n >= 2
  BY <1>1 DEF IInv, WalksOK, WalkOK, CredIsTheHopBelow
<1>4. \A v \in Walker : v # w => walk'[v] = walk[v]
  <2>1. PICK r : Become(w, r)
    BY DEF WalkStep, LookUp, ReadRow, Scan, Assume, Store, Finish, WalkFails
  <2>. QED
    BY <1>1, <2>1, Became
<1>5. /\ was = "store"  => left = 2 * n - 1
      /\ was = "assume" => left = 2 * n
      /\ was = "scan"   => left = 3 * h - n
      /\ was = "read"   => left = 3 * Limit + 2 * (Limit - h) + 1
      /\ was = "lookup" => left = 3 * Limit + 2 * (Limit - h) + 2
  BY AwaitsCases
<1>6. /\ is = "done"   => then = 1
      /\ is = "store"  => then = 2 * nn - 1
      /\ is = "assume" => then = 2 * nn
      /\ is = "scan"   => then = 3 * hn - nn
      /\ is = "read"   => then = 3 * Limit + 2 * (Limit - hn) + 1
      /\ is = "lookup" => then = 3 * Limit + 2 * (Limit - hn) + 2
  BY AwaitsCasesNext
<1>7. CASE Become(w, IdleWalk) /\ was # "idle"
  BY <1>4, <1>7, EndRunsDown
<1>8. CASE LookUp(w)
  <2>1. CASE Become(w, [walk[w] EXCEPT !.pc = "scan", !.next = 2, !.cred = Cached(Tip(w))])
    <3>0. walk'[w] = [walk[w] EXCEPT !.pc = "scan", !.next = 2, !.cred = Cached(Tip(w))]
      BY <1>1, <2>1, Became
    <3>1. was = "lookup" /\ hn = h /\ is = "scan" /\ nn = 2
      BY <1>1, <1>8, <3>0 DEF LookUp, WalkState
    <3> HIDE DEF h, n, hn, nn, was, is, left, then
    <3>2. then < left
      BY <1>1, <1>5, <1>6, <3>1, LimitIsNat
    <3>. QED
      BY <1>4, <3>2 DEF left, then
  <2>2. CASE Become(w, [walk[w] EXCEPT !.pc = "read"])
    <3>0. walk'[w] = [walk[w] EXCEPT !.pc = "read"]
      BY <1>1, <2>2, Became
    <3>1. was = "lookup" /\ hn = h /\ is = "read"
      BY <1>1, <1>8, <3>0 DEF LookUp, WalkState
    <3> HIDE DEF h, n, hn, nn, was, is, left, then
    <3>2. then < left
      BY <1>1, <1>5, <1>6, <3>1, LimitIsNat
    <3>. QED
      BY <1>4, <3>2 DEF left, then
  <2>. QED
    BY <1>8, <2>1, <2>2 DEF LookUp
<1>9. ASSUME was = "read", h < Limit, NEW q \in Principal, NEW c \in {"lookup", "read"},
             Become(w, [walk[w] EXCEPT !.pc = c, !.trail = Append(walk[w].trail, q)])
      PROVE  then < left
  <2>0. walk'[w] = [walk[w] EXCEPT !.pc = c, !.trail = Append(walk[w].trail, q)]
    BY <1>1, <1>9, Became
  <2>1. is \in {"lookup", "read"} /\ walk'[w].trail = Append(walk[w].trail, q)
    BY <1>1, <2>0 DEF WalkState
  <2>2. hn = h + 1
    BY <1>1, <2>1, AppendFacts
  <2> HIDE DEF h, n, hn, nn, was, is, left, then
  <2>. QED
    BY <1>1, <1>5, <1>6, <1>9, <2>1, <2>2, LimitIsNat
<1>10. ASSUME was = "read", h > 1, NEW c, NEW m, NEW k,
              \/ c = "scan" /\ m = 2
              \/ c = "assume" /\ m = h - 1,
              Become(w, [walk[w] EXCEPT !.pc = c, !.next = m, !.cred = k])
       PROVE  then < left
  <2>0. walk'[w] = [walk[w] EXCEPT !.pc = c, !.next = m, !.cred = k]
    BY <1>1, <1>10, Became
  <2>1. hn = h /\ is = c /\ nn = m
    BY <1>1, <2>0 DEF WalkState
  <2> HIDE DEF h, n, hn, nn, was, is, left, then
  <2>. QED
    BY <1>1, <1>5, <1>6, <1>10, <2>1, LimitIsNat
<1>11. CASE Scan(w)
  <2>1. was = "scan"
    BY <1>11 DEF Scan
  <2>2. ASSUME NEW k,
               Become(w, [walk[w] EXCEPT !.pc = "assume", !.next = n - 1, !.cred = k])
        PROVE  then < left
    <3>0. walk'[w] = [walk[w] EXCEPT !.pc = "assume", !.next = n - 1, !.cred = k]
      BY <1>1, <2>2, Became
    <3>1. is = "assume" /\ nn = n - 1
      BY <1>1, <3>0 DEF WalkState
    <3> HIDE DEF h, n, hn, nn, was, is, left, then
    <3>. QED
      BY <1>1, <1>2, <1>5, <1>6, <2>1, <3>1
  <2>3. CASE Become(w, [walk[w] EXCEPT !.next = n + 1])
    <3>0. walk'[w] = [walk[w] EXCEPT !.next = n + 1]
      BY <1>1, <2>3, Became
    <3>1. is = "scan" /\ nn = n + 1 /\ hn = h
      BY <1>1, <2>1, <3>0 DEF WalkState
    <3> HIDE DEF h, n, hn, nn, was, is, left, then
    <3>2. then < left
      BY <1>1, <1>2, <1>5, <1>6, <2>1, <3>1
    <3>. QED
      BY <1>4, <3>2 DEF left, then
  <2>. QED
    BY <1>4, <1>11, <2>2, <2>3 DEF Scan, Reuse
<1>12. ASSUME NEW m, Become(w, Onward(w, m)), was \in {"assume", "store"}
       PROVE  then < left
  <2>1. CASE n = 1
    <3>1. Become(w, [walk[w] EXCEPT !.pc = "done", !.cred = m])
      BY <1>12, <2>1 DEF Onward
    <3>0. walk'[w] = [walk[w] EXCEPT !.pc = "done", !.cred = m]
      BY <1>1, <3>1, Became
    <3>2. is = "done"
      BY <1>1, <3>0 DEF WalkState
    <3> HIDE DEF h, n, hn, nn, was, is, left, then
    <3>. QED
      BY <1>1, <1>2, <1>5, <1>6, <1>12, <2>1, <3>2
  <2>2. CASE n # 1
    <3>1. Become(w, [walk[w] EXCEPT !.pc = "assume", !.next = n - 1, !.cred = m])
      BY <1>12, <2>2 DEF Onward
    <3>0. walk'[w] = [walk[w] EXCEPT !.pc = "assume", !.next = n - 1, !.cred = m]
      BY <1>1, <3>1, Became
    <3>2. is = "assume" /\ nn = n - 1
      BY <1>1, <3>0 DEF WalkState
    <3> HIDE DEF h, n, hn, nn, was, is, left, then
    <3>. QED
      BY <1>1, <1>2, <1>5, <1>6, <1>12, <3>2
  <2>. QED
    BY <2>1, <2>2
<1>13. CASE Assume(w)
  <2>1. CASE Become(w, [walk[w] EXCEPT !.pc = "store", !.cred = Minted(w)])
    <3>0. walk'[w] = [walk[w] EXCEPT !.pc = "store", !.cred = Minted(w)]
      BY <1>1, <2>1, Became
    <3>1. was = "assume" /\ is = "store" /\ nn = n
      BY <1>1, <1>13, <3>0 DEF Assume, WalkState
    <3> HIDE DEF h, n, hn, nn, was, is, left, then
    <3>2. then < left
      BY <1>1, <1>5, <1>6, <3>1
    <3>. QED
      BY <1>4, <3>2 DEF left, then
  <2>. QED
    BY <1>4, <1>12, <1>13, <2>1 DEF Assume
<1>14. CASE ReadRow(w)
  <2> DEFINE row == credentials[Tip(w)]
  <2>1. was = "read" /\ row.assumedBy \in Principal \cup {NoPrincipal}
    <3>1. h >= 1 /\ was = "read"
      BY <1>14 DEF ReadRow, IInv, WalksOK, WalkOK, CredIsTheHopBelow
    <3>2. Tip(w) \in Principal
      BY <1>1, <3>1 DEF Tip
    <3>. QED
      BY <1>1, <3>1, <3>2 DEF TypeOK, Row
  <2>2. CASE /\ row.assumedBy # NoPrincipal /\ h < Limit
             /\ Become(w, [walk[w] EXCEPT
                  !.pc = IF ConsultsCache(w, h + 1) THEN "lookup" ELSE "read",
                  !.trail = Append(walk[w].trail, row.assumedBy)])
    <3>1. PICK c \in {"lookup", "read"} :
            Become(w, [walk[w] EXCEPT !.pc = c, !.trail = Append(walk[w].trail, row.assumedBy)])
      BY <2>2
    <3>2. row.assumedBy \in Principal /\ h < Limit
      BY <2>1, <2>2
    <3>. QED
      BY <1>4, <1>9, <2>1, <3>1, <3>2
  <2>3. CASE /\ h > 1
             /\ Become(w, [walk[w] EXCEPT
                  !.pc = IF w \in Requests THEN "scan" ELSE "assume",
                  !.next = IF w \in Requests THEN 2 ELSE h - 1,
                  !.cred = BaseSession(Tip(w))])
    <3>1. CASE w \in Requests
      <4>1. Become(w, [walk[w] EXCEPT !.pc = "scan", !.next = 2, !.cred = BaseSession(Tip(w))])
        BY <2>3, <3>1
      <4>. QED
        BY <1>4, <1>10, <2>1, <2>3, <4>1
    <3>2. CASE w \notin Requests
      <4>1. Become(w, [walk[w] EXCEPT !.pc = "assume", !.next = h - 1, !.cred = BaseSession(Tip(w))])
        BY <2>3, <3>2
      <4>. QED
        BY <1>4, <1>10, <2>1, <2>3, <4>1
    <3>. QED
      BY <3>1, <3>2
  <2>4. CASE Become(w, IdleWalk)
    BY <1>7, <2>1, <2>4
  <2>. QED
    BY <1>14, <2>2, <2>3, <2>4 DEF ReadRow
<1>15. CASE Store(w)
  BY <1>4, <1>12, <1>15 DEF Store
<1>. QED
  BY <1>7, <1>8, <1>11, <1>13, <1>14, <1>15 DEF WalkStep, Finish, WalkFails

\* Whatever the limit, the table and the writes, every step of a walk takes it nearer its
\* end and nobody's else sets it back: with the runtime settling its awaits, it ends.
THEOREM WalksEnd == Spec => WalksRunDown
<1>1. ASSUME IInv, FirmInv, AwaitsAreNat', [Next]_vars, NEW w \in Walker, walk[w].pc # "idle"
      PROVE  /\ AwaitsLeft(w)' \in Nat
             /\ \/ AwaitsLeft(w)' < AwaitsLeft(w)
                \/ walk'[w] = [walk[w] EXCEPT !.clean = walk'[w].clean]
  <2>1. AwaitsLeft(w)' \in Nat
    BY <1>1 DEF AwaitsAreNat
  <2>2. walk[w] \in WalkState
    BY <1>1 DEF IInv, TypeOK
  <2>3. ASSUME walk'[w] = walk[w]
        PROVE  walk'[w] = [walk[w] EXCEPT !.clean = walk'[w].clean]
    BY <2>2, <2>3 DEF WalkState
  <2>4. CASE \E v \in Walker : WalkStep(v)
    BY <1>1, <2>1, <2>3, <2>4, StepRunsDown
  <2>5. ASSUME NEW v \in Walker, NEW p \in Principal, Start(v, p)
        PROVE  walk'[w] = walk[w]
    BY <1>1, <2>5 DEF Start, Become, IInv, TypeOK
  <2>6. CASE UNCHANGED walk
    BY <2>1, <2>3, <2>6
  <2>7. CASE walk' = Disturbed
    <3>1. walk'[w] = [walk[w] EXCEPT !.clean = FALSE]
      BY <1>1, <2>7 DEF Disturbed
    <3>2. walk'[w].clean = FALSE
      BY <2>2, <3>1 DEF WalkState
    <3>. QED
      BY <2>1, <3>1, <3>2
  <2>8. ASSUME NEW a \in Admins, AdminStep(a)
        PROVE  walk' = Disturbed \/ UNCHANGED walk
    BY <2>8 DEF AdminStep, StoreCredential, StoreRelationship, RemoveCredential,
               InvalidateCachedCredential, Register, AdminFails
  <2>9. (\E p \in Principal : Expire(p)) \/ (\E v \in Refreshers : ReadBatch(v)) \/ UNCHANGED vars
          => UNCHANGED walk
    BY DEF Expire, ReadBatch, vars
  <2>. QED
    BY <1>1, <2>1, <2>3, <2>4, <2>5, <2>6, <2>7, <2>8, <2>9 DEF Next
<1>2. IInv /\ FirmInv /\ AwaitsAreNat' /\ [Next]_vars =>
        [\A w \in Walker :
           walk[w].pc # "idle" =>
             /\ AwaitsLeft(w)' \in Nat
             /\ \/ AwaitsLeft(w)' < AwaitsLeft(w)
                \/ walk'[w] = [walk[w] EXCEPT !.clean = walk'[w].clean]]_vars
  BY <1>1
<1>. QED
  BY <1>2, AwaitsType, ChainInvariant, FirmInvariant, PTL DEF Spec, WalksRunDown
=============================================================================
