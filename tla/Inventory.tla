------------------------------ MODULE Inventory ------------------------------
(***************************************************************************)
(* The resource inventory of one AWS account: what a collection sweep      *)
(* reads from the regions, writes to the table, and prunes from it.        *)
(*                                                                         *)
(* A sweep asks the collectors one after another, each for all its regions *)
(* at once, and writes what was found row by row.  A type is pruned only   *)
(* if every region of it answered: a denied region is not an empty one.    *)
(* The table keys a resource by its type and its id; a row carries the     *)
(* second its sweep began, and pruning removes the older rows of a type.   *)
(*                                                                         *)
(* Sweeps of an account may overlap: instances of the collection workflow  *)
(* do not exclude each other, and a step that timed out is retried while   *)
(* its first attempt may still be running.                                 *)
(***************************************************************************)
EXTENDS Naturals

CONSTANTS
  Sweep,        \* sweeps that may be under way at once
  Type,         \* resource types with a collector
  Global,       \* types of a global service, asked once
  Bare,         \* regional types whose id is unique in its region only
  Region,       \* configured regions
  GlobalRegion, \* the region a global service is recorded under
  Name,         \* names of resources
  NoRow,        \* an absent row
  MaxClock,     \* bound on the clock
  MaxChanges    \* bound on changes of the account

RegionsOf(t) == IF t \in Global THEN {GlobalRegion} ELSE Region

Resource ==
  {x \in [type : Type, region : Region \cup {GlobalRegion}, name : Name] : x.region \in RegionsOf(x.type)}

\* DynamoDB ids are prefixed with the region, Lambda ids are ARNs, EC2 ids and bucket
\* names are unique as they stand; RDS instances go by their bare name.
ResourceId(x) == IF x.type \in Bare THEN <<x.name>> ELSE <<x.region, x.name>>

Key(x) == <<x.type, ResourceId(x)>>

Keys == {Key(x) : x \in Resource}

Row == [region : Region \cup {GlobalRegion}, collectedAt : 0..MaxClock]

ASSUME InventoryAssumption ==
  /\ Global \subseteq Type /\ Bare \subseteq Type
  /\ NoRow \notin Row
  /\ MaxClock \in Nat /\ MaxChanges \in Nat

VARIABLES
  cloud,        \* the resources the account has
  inventory,    \* inventory[k]: the row of key k
  sweep,        \* sweep[s]: where sweep s is, and what it has read
  clock,        \* seconds
  changes       \* changes of the account so far

vars == <<cloud, inventory, sweep, clock, changes>>

\* quiet is a ghost: since the sweep began the account has not changed, and no other
\* sweep has written to the table.
IdleSweep ==
  [pc |-> "idle", collectedAt |-> 0, collectors |-> {}, pending |-> {}, read |-> {},
   items |-> {}, toWrite |-> {}, toPrune |-> {}, quiet |-> TRUE]

Init ==
  /\ cloud \in SUBSET Resource
  /\ inventory = [k \in Keys |-> NoRow]
  /\ sweep = [s \in Sweep |-> IdleSweep]
  /\ clock = 0
  /\ changes = 0

-----------------------------------------------------------------------------
(* A sweep *)

Become(s, state) == sweep' = [sweep EXCEPT ![s] = state]

Begin(s) ==
  /\ sweep[s].pc = "idle"
  /\ Become(s, [IdleSweep EXCEPT !.pc = "read", !.collectedAt = clock, !.collectors = Type])
  /\ UNCHANGED <<cloud, inventory, clock, changes>>

\* The next collector asks all its regions at once.
NextCollector(s) ==
  /\ sweep[s].pc = "read"
  /\ sweep[s].pending = {}
  /\ \E t \in sweep[s].collectors :
       Become(s, [sweep[s] EXCEPT !.collectors = sweep[s].collectors \ {t},
                                  !.pending = {t} \X RegionsOf(t)])
  /\ UNCHANGED <<cloud, inventory, clock, changes>>

Found(t, r) == {x \in cloud : x.type = t /\ x.region = r}

\* A region answers with all its pages, or throws, and then counts as not read.
Collect(s) ==
  /\ sweep[s].pc = "read"
  /\ \E ask \in sweep[s].pending, answers \in BOOLEAN :
       Become(s, IF answers
         THEN [sweep[s] EXCEPT !.pending = sweep[s].pending \ {ask},
                               !.read = sweep[s].read \cup {ask},
                               !.items = sweep[s].items \cup Found(ask[1], ask[2])]
         ELSE [sweep[s] EXCEPT !.pending = sweep[s].pending \ {ask}])
  /\ UNCHANGED <<cloud, inventory, clock, changes>>

\* Slip: one region that answered is enough.
AnyRegionRead(read) == {t \in Type : \E r \in RegionsOf(t) : <<t, r>> \in read}

\* The types whose every region was read.
CollectedTypes(read) == {t \in Type : {t} \X RegionsOf(t) \subseteq read}

EndReads(s) ==
  /\ sweep[s].pc = "read"
  /\ sweep[s].pending = {} /\ sweep[s].collectors = {}
  /\ Become(s, [sweep[s] EXCEPT !.pc = "write", !.toWrite = sweep[s].items,
                                !.toPrune = CollectedTypes(sweep[s].read)])
  /\ UNCHANGED <<cloud, inventory, clock, changes>>

\* Sweep s has become state by a statement that the others may notice.
BecomeAndDisturb(s, state) ==
  sweep' = [q \in Sweep |-> IF q = s THEN state ELSE [sweep[q] EXCEPT !.quiet = FALSE]]

\* Slip: a row already there is left as it is.
InsertOrIgnore(row, x, s) == IF row = NoRow THEN [region |-> x.region, collectedAt |-> sweep[s].collectedAt] ELSE row

\* INSERT OR REPLACE: the row is as the last writer has it.
InsertOrReplace(row, x, s) == [region |-> x.region, collectedAt |-> sweep[s].collectedAt]

UpsertResource(s) ==
  /\ sweep[s].pc = "write"
  /\ \E x \in sweep[s].toWrite :
       /\ inventory' = [inventory EXCEPT ![Key(x)] = InsertOrReplace(inventory[Key(x)], x, s)]
       /\ BecomeAndDisturb(s, [sweep[s] EXCEPT !.toWrite = sweep[s].toWrite \ {x}])
  /\ UNCHANGED <<cloud, clock, changes>>

\* Slip: the rows are emptied, not deleted.
EmptyStaleResources(s) ==
  /\ sweep[s].pc = "write"
  /\ sweep[s].toWrite = {}
  /\ \E t \in sweep[s].toPrune :
       /\ inventory' = [k \in Keys |->
            IF k[1] = t /\ inventory[k] # NoRow /\ inventory[k].collectedAt < sweep[s].collectedAt
              THEN [inventory[k] EXCEPT !.region = NoRow] ELSE inventory[k]]
       /\ BecomeAndDisturb(s, [sweep[s] EXCEPT !.toPrune = sweep[s].toPrune \ {t}])
  /\ UNCHANGED <<cloud, clock, changes>>

\* Rows of type t older than the sweep go.
DeleteStaleResources(s) ==
  /\ sweep[s].pc = "write"
  /\ sweep[s].toWrite = {}
  /\ \E t \in sweep[s].toPrune :
       /\ inventory' = [k \in Keys |->
            IF k[1] = t /\ inventory[k] # NoRow /\ inventory[k].collectedAt < sweep[s].collectedAt
              THEN NoRow ELSE inventory[k]]
       /\ BecomeAndDisturb(s, [sweep[s] EXCEPT !.toPrune = sweep[s].toPrune \ {t}])
  /\ UNCHANGED <<cloud, clock, changes>>

Return(s) ==
  /\ sweep[s].pc = "write"
  /\ sweep[s].toWrite = {} /\ sweep[s].toPrune = {}
  /\ Become(s, IdleSweep)
  /\ UNCHANGED <<cloud, inventory, clock, changes>>

\* A statement throws, or the invocation is ended from outside.
SweepFails(s) ==
  /\ sweep[s].pc # "idle"
  /\ Become(s, IdleSweep)
  /\ UNCHANGED <<cloud, inventory, clock, changes>>

-----------------------------------------------------------------------------
(* The account, and time *)

AccountChanges ==
  /\ changes < MaxChanges
  /\ changes' = changes + 1
  /\ \E x \in Resource : cloud' = IF x \in cloud THEN cloud \ {x} ELSE cloud \cup {x}
  /\ sweep' = [s \in Sweep |-> [sweep[s] EXCEPT !.quiet = sweep[s].pc = "idle"]]
  /\ UNCHANGED <<inventory, clock>>

Tick ==
  /\ clock < MaxClock
  /\ clock' = clock + 1
  /\ UNCHANGED <<cloud, inventory, sweep, changes>>

Next ==
  \/ \E s \in Sweep :
       \/ Begin(s) \/ NextCollector(s) \/ Collect(s) \/ EndReads(s)
       \/ UpsertResource(s) \/ DeleteStaleResources(s)
       \/ Return(s) \/ SweepFails(s)
  \/ AccountChanges
  \/ Tick

Spec == Init /\ [][Next]_vars

-----------------------------------------------------------------------------
(* Properties *)

SweepState ==
  [pc          : {"idle", "read", "write"},
   collectedAt : 0..MaxClock,
   collectors  : SUBSET Type,
   pending     : SUBSET (Type \X (Region \cup {GlobalRegion})),
   read        : SUBSET (Type \X (Region \cup {GlobalRegion})),
   items       : SUBSET Resource,
   toWrite     : SUBSET Resource,
   toPrune     : SUBSET Type,
   quiet       : BOOLEAN]

TypeOK ==
  /\ cloud \subseteq Resource
  /\ inventory \in [Keys -> Row \cup {NoRow}]
  /\ sweep \in [Sweep -> SweepState]
  /\ clock \in 0..MaxClock
  /\ changes \in 0..MaxChanges

\* When a sweep that nothing disturbed is over, the table has the types it read in
\* full exactly as the account has them: every resource under its region, and no row
\* of one that is gone, unless that was written in the second the sweep began.  (A bare
\* id stands for the resources of that name in every region.)
FullSweepIsExact ==
  \A s \in Sweep :
    /\ sweep[s].pc = "write" /\ sweep[s].toWrite = {} /\ sweep[s].toPrune = {}
    /\ sweep[s].quiet
    => \A x \in Resource :
         x.type \in CollectedTypes(sweep[s].read) \ Bare =>
           LET row == inventory[Key(x)] IN
           /\ x \in cloud => row # NoRow /\ row.region = x.region
           /\ row # NoRow /\ row.region = x.region /\ x \notin cloud
                => row.collectedAt = sweep[s].collectedAt

\* A row is removed only by a sweep that had an answer from every region of its type:
\* one denied region keeps the rows of all.
DeniedIsNotEmpty ==
  [][\A k \in Keys :
       inventory[k] # NoRow /\ inventory'[k] = NoRow =>
         \E s \in Sweep : DeleteStaleResources(s) /\ {k[1]} \X RegionsOf(k[1]) \subseteq sweep[s].read]_vars
=============================================================================
