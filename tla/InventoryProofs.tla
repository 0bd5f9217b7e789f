--------------------------- MODULE InventoryProofs ---------------------------
(***************************************************************************)
(* However many sweeps overlap, whatever regions deny and whenever the     *)
(* account changes: rows are removed only for types read in full, and a    *)
(* sweep that nothing disturbed leaves those types as the account has them. *)
(***************************************************************************)
EXTENDS Inventory, TLAPS

-----------------------------------------------------------------------------
(* Types *)

LEMMA IdleSweepType == IdleSweep \in SweepState
BY InventoryAssumption DEF IdleSweep, SweepState

LEMMA RegionsOfType == \A t \in Type : RegionsOf(t) \subseteq Region \cup {GlobalRegion}
BY DEF RegionsOf

LEMMA FoundType == ASSUME TypeOK, NEW t, NEW r PROVE Found(t, r) \subseteq Resource
BY DEF TypeOK, Found

LEMMA SweepType == ASSUME TypeOK, NEW s \in Sweep PROVE sweep[s] \in SweepState
BY DEF TypeOK

\* The assignments a sweep makes, on any sweep.
LEMMA AskType ==
  ASSUME NEW w \in SweepState, NEW c \in SUBSET Type, NEW p \in SUBSET (Type \X (Region \cup {GlobalRegion}))
  PROVE  [w EXCEPT !.collectors = c, !.pending = p] \in SweepState
BY DEF SweepState

LEMMA AnswerType ==
  ASSUME NEW w \in SweepState, NEW p \in SUBSET (Type \X (Region \cup {GlobalRegion})),
         NEW r \in SUBSET (Type \X (Region \cup {GlobalRegion})), NEW i \in SUBSET Resource
  PROVE  [w EXCEPT !.pending = p, !.read = r, !.items = i] \in SweepState
BY DEF SweepState

LEMMA DenyType ==
  ASSUME NEW w \in SweepState, NEW p \in SUBSET (Type \X (Region \cup {GlobalRegion}))
  PROVE  [w EXCEPT !.pending = p] \in SweepState
BY DEF SweepState

LEMMA WriteType ==
  ASSUME NEW w \in SweepState, NEW p \in SUBSET Type
  PROVE  [w EXCEPT !.pc = "write", !.toWrite = w.items, !.toPrune = p] \in SweepState
BY DEF SweepState

LEMMA QuietType ==
  ASSUME NEW w \in SweepState, NEW b \in BOOLEAN
  PROVE  [w EXCEPT !.quiet = b] \in SweepState
BY DEF SweepState

LEMMA AsksType ==
  ASSUME NEW w \in SweepState
  PROVE  /\ w.pending \subseteq Type \X (Region \cup {GlobalRegion})
         /\ w.read \subseteq Type \X (Region \cup {GlobalRegion})
         /\ w.items \subseteq Resource
         /\ w.collectors \subseteq Type
BY DEF SweepState

LEMMA BecomeType ==
  ASSUME TypeOK, NEW s \in Sweep, NEW state \in SweepState, Become(s, state)
  PROVE  sweep' \in [Sweep -> SweepState]
BY DEF TypeOK, Become

LEMMA DisturbType ==
  ASSUME TypeOK, NEW s \in Sweep, NEW state \in SweepState, BecomeAndDisturb(s, state)
  PROVE  sweep' \in [Sweep -> SweepState]
<1>1. \A q \in Sweep : [sweep[q] EXCEPT !.quiet = FALSE] \in SweepState
  BY DEF TypeOK, SweepState
<1>. QED
  BY <1>1 DEF BecomeAndDisturb

LEMMA RowType ==
  ASSUME TypeOK, NEW s \in Sweep, NEW x \in Resource, NEW row
  PROVE  InsertOrReplace(row, x, s) \in Row
BY DEF TypeOK, InsertOrReplace, Row, SweepState, Resource

LEMMA TypeInit == Init => TypeOK
BY IdleSweepType, InventoryAssumption DEF Init, TypeOK

\* The steps of a sweep that leave the tables alone.
QuietStep(s) == Begin(s) \/ NextCollector(s) \/ Collect(s) \/ EndReads(s) \/ Return(s) \/ SweepFails(s)

LEMMA QuietStepType ==
  ASSUME TypeOK, NEW s \in Sweep, QuietStep(s)
  PROVE  sweep' \in [Sweep -> SweepState]
<1>1. CASE Begin(s)
  <2>1. [IdleSweep EXCEPT !.pc = "read", !.collectedAt = clock, !.collectors = Type] \in SweepState
    BY IdleSweepType DEF IdleSweep, SweepState, TypeOK
  <2>. QED
    BY <1>1, <2>1, BecomeType DEF Begin
<1>2. CASE NextCollector(s)
  <2>1. PICK t \in sweep[s].collectors :
          Become(s, [sweep[s] EXCEPT !.collectors = sweep[s].collectors \ {t},
                                     !.pending = {t} \X RegionsOf(t)])
    BY <1>2 DEF NextCollector
  <2>2. t \in Type /\ sweep[s].collectors \ {t} \in SUBSET Type
    BY SweepType, AsksType
  <2>3. {t} \X RegionsOf(t) \in SUBSET (Type \X (Region \cup {GlobalRegion}))
    BY <2>2, RegionsOfType
  <2>4. [sweep[s] EXCEPT !.collectors = sweep[s].collectors \ {t},
                         !.pending = {t} \X RegionsOf(t)] \in SweepState
    BY <2>2, <2>3, SweepType, AskType
  <2>. QED
    BY <2>1, <2>4, BecomeType
<1>3. CASE Collect(s)
  <2>1. PICK ask \in sweep[s].pending, answers \in BOOLEAN :
          Become(s, IF answers
            THEN [sweep[s] EXCEPT !.pending = sweep[s].pending \ {ask},
                                  !.read = sweep[s].read \cup {ask},
                                  !.items = sweep[s].items \cup Found(ask[1], ask[2])]
            ELSE [sweep[s] EXCEPT !.pending = sweep[s].pending \ {ask}])
    BY <1>3 DEF Collect
  <2>2. /\ sweep[s].pending \ {ask} \in SUBSET (Type \X (Region \cup {GlobalRegion}))
        /\ sweep[s].read \cup {ask} \in SUBSET (Type \X (Region \cup {GlobalRegion}))
        /\ sweep[s].items \cup Found(ask[1], ask[2]) \in SUBSET Resource
    BY SweepType, AsksType, FoundType
  <2>3. CASE answers
    <3>1. Become(s, [sweep[s] EXCEPT !.pending = sweep[s].pending \ {ask},
                                     !.read = sweep[s].read \cup {ask},
                                     !.items = sweep[s].items \cup Found(ask[1], ask[2])])
      BY <2>1, <2>3
    <3>2. [sweep[s] EXCEPT !.pending = sweep[s].pending \ {ask},
                           !.read = sweep[s].read \cup {ask},
                           !.items = sweep[s].items \cup Found(ask[1], ask[2])] \in SweepState
      BY <2>2, SweepType, AnswerType
    <3>. QED
      BY <3>1, <3>2, BecomeType
  <2>4. CASE ~answers
    <3>1. Become(s, [sweep[s] EXCEPT !.pending = sweep[s].pending \ {ask}])
      BY <2>1, <2>4
    <3>2. [sweep[s] EXCEPT !.pending = sweep[s].pending \ {ask}] \in SweepState
      BY <2>2, SweepType, DenyType
    <3>. QED
      BY <3>1, <3>2, BecomeType
  <2>. QED
    BY <2>3, <2>4
<1>4. CASE EndReads(s)
  <2>1. CollectedTypes(sweep[s].read) \in SUBSET Type
    BY DEF CollectedTypes
  <2>2. [sweep[s] EXCEPT !.pc = "write", !.toWrite = sweep[s].items,
                         !.toPrune = CollectedTypes(sweep[s].read)] \in SweepState
    BY <2>1, SweepType, WriteType
  <2>. QED
    BY <1>4, <2>2, BecomeType DEF EndReads
<1>5. CASE Return(s) \/ SweepFails(s)
  BY <1>5, IdleSweepType, BecomeType DEF Return, SweepFails
<1>. QED
  BY <1>1, <1>2, <1>3, <1>4, <1>5 DEF QuietStep

LEMMA TypeNext == TypeOK /\ [Next]_vars => TypeOK'
<1> SUFFICES ASSUME TypeOK, [Next]_vars PROVE TypeOK'
  OBVIOUS
<1>1. ASSUME NEW s \in Sweep, QuietStep(s) PROVE TypeOK'
  <2>1. UNCHANGED <<cloud, inventory, clock, changes>>
    BY <1>1 DEF QuietStep, Begin, NextCollector, Collect, EndReads, Return, SweepFails
  <2>. QED
    BY <1>1, <2>1, QuietStepType DEF TypeOK
<1>2. ASSUME NEW s \in Sweep, UpsertResource(s) PROVE TypeOK'
  <2>1. PICK x \in sweep[s].toWrite :
          /\ inventory' = [inventory EXCEPT ![Key(x)] = InsertOrReplace(inventory[Key(x)], x, s)]
          /\ BecomeAndDisturb(s, [sweep[s] EXCEPT !.toWrite = sweep[s].toWrite \ {x}])
    BY <1>2 DEF UpsertResource
  <2>2. x \in Resource
    BY DEF TypeOK, SweepState
  <2>3. inventory' \in [Keys -> Row \cup {NoRow}]
    BY <2>1, <2>2, RowType DEF TypeOK
  <2>4. [sweep[s] EXCEPT !.toWrite = sweep[s].toWrite \ {x}] \in SweepState
    BY DEF TypeOK, SweepState
  <2>5. sweep' \in [Sweep -> SweepState]
    BY <2>1, <2>4, DisturbType
  <2>. QED
    BY <1>2, <2>3, <2>5 DEF UpsertResource, TypeOK
<1>3. ASSUME NEW s \in Sweep, DeleteStaleResources(s) PROVE TypeOK'
  <2>1. PICK t \in sweep[s].toPrune :
          /\ inventory' = [k \in Keys |->
               IF k[1] = t /\ inventory[k] # NoRow /\ inventory[k].collectedAt < sweep[s].collectedAt
                 THEN NoRow ELSE inventory[k]]
          /\ BecomeAndDisturb(s, [sweep[s] EXCEPT !.toPrune = sweep[s].toPrune \ {t}])
    BY <1>3 DEF DeleteStaleResources
  <2>2. inventory' \in [Keys -> Row \cup {NoRow}]
    BY <2>1 DEF TypeOK
  <2>3. [sweep[s] EXCEPT !.toPrune = sweep[s].toPrune \ {t}] \in SweepState
    BY DEF TypeOK, SweepState
  <2>4. sweep' \in [Sweep -> SweepState]
    BY <2>1, <2>3, DisturbType
  <2>. QED
    BY <1>3, <2>2, <2>4 DEF DeleteStaleResources, TypeOK
<1>4. CASE AccountChanges
  <2>1. \A s \in Sweep : [sweep[s] EXCEPT !.quiet = (sweep[s].pc = "idle")] \in SweepState
    BY SweepType, QuietType
  <2>2. sweep' \in [Sweep -> SweepState]
    BY <1>4, <2>1 DEF AccountChanges
  <2>3. changes' \in 0..MaxChanges
    BY <1>4, InventoryAssumption DEF AccountChanges, TypeOK
  <2>4. cloud' \subseteq Resource
    BY <1>4 DEF AccountChanges, TypeOK
  <2>. QED
    BY <1>4, <2>2, <2>3, <2>4 DEF AccountChanges, TypeOK
<1>5. CASE Tick
  BY <1>5, InventoryAssumption DEF Tick, TypeOK
<1>6. CASE UNCHANGED vars
  BY <1>6 DEF vars, TypeOK
<1>. QED
  BY <1>1, <1>2, <1>3, <1>4, <1>5, <1>6 DEF Next, QuietStep

\* What is read, written and pruned has the types the module says.
THEOREM TypeCorrect == Spec => []TypeOK
BY TypeInit, TypeNext, PTL DEF Spec

-----------------------------------------------------------------------------
(* What may be pruned *)

\* What a sweep is to prune was read in full, and nothing is to be pruned before the
\* reads are over.
PruneInv ==
  \A s \in Sweep :
    /\ sweep[s].toPrune \subseteq CollectedTypes(sweep[s].read)
    /\ sweep[s].pc = "read" => sweep[s].toPrune = {}

LEMMA PruneInit == Init => PruneInv
<1>1. IdleSweep.toPrune = {}
  BY DEF IdleSweep
<1>2. IdleSweep.pc = "idle"
  BY DEF IdleSweep
<1>. QED
  BY <1>1, <1>2 DEF Init, PruneInv

LEMMA BecomeKeeps ==
  ASSUME TypeOK, PruneInv, NEW s \in Sweep, NEW state \in SweepState, Become(s, state) \/ BecomeAndDisturb(s, state),
         state.toPrune \subseteq CollectedTypes(state.read), state.pc = "read" => state.toPrune = {}
  PROVE  PruneInv'
<1> SUFFICES ASSUME NEW q \in Sweep
             PROVE  /\ sweep'[q].toPrune \subseteq CollectedTypes(sweep'[q].read)
                    /\ sweep'[q].pc = "read" => sweep'[q].toPrune = {}
  BY DEF PruneInv
<1>1. CASE q = s
  BY <1>1 DEF Become, BecomeAndDisturb, TypeOK
<1>2. CASE q # s
  <2>1. /\ sweep'[q].toPrune = sweep[q].toPrune
        /\ sweep'[q].read = sweep[q].read
        /\ sweep'[q].pc = sweep[q].pc
    BY <1>2 DEF Become, BecomeAndDisturb, TypeOK, SweepState
  <2>. QED
    BY <2>1 DEF PruneInv
<1>. QED
  BY <1>1, <1>2

LEMMA PruneNext == TypeOK /\ PruneInv /\ [Next]_vars => PruneInv'
<1> SUFFICES ASSUME TypeOK, PruneInv, [Next]_vars PROVE PruneInv'
  OBVIOUS
<1>1. ASSUME NEW s \in Sweep, Begin(s) \/ Return(s) \/ SweepFails(s) PROVE PruneInv'
  <2>1. PICK state : Become(s, state) /\ state.toPrune = {} /\ state \in SweepState
    <3>1. [IdleSweep EXCEPT !.pc = "read", !.collectedAt = clock, !.collectors = Type] \in SweepState
      BY IdleSweepType DEF IdleSweep, SweepState, TypeOK
    <3>. QED
      BY <1>1, <3>1, IdleSweepType DEF Begin, Return, SweepFails, IdleSweep
  <2>. QED
    BY <2>1, BecomeKeeps
<1>2. ASSUME NEW s \in Sweep, NextCollector(s) \/ Collect(s) PROVE PruneInv'
  <2>1. sweep[s].toPrune = {}
    BY <1>2 DEF PruneInv, NextCollector, Collect
  <2>2. /\ sweep' \in [Sweep -> SweepState]
        /\ \A q \in Sweep \ {s} : sweep'[q] = sweep[q]
    BY <1>2, QuietStepType DEF QuietStep, NextCollector, Collect, Become, TypeOK
  <2>3. sweep'[s].toPrune = sweep[s].toPrune
    <3>1. CASE NextCollector(s)
      BY <3>1, SweepType DEF NextCollector, Become, SweepState, TypeOK
    <3>2. CASE Collect(s)
      BY <3>2, SweepType DEF Collect, Become, SweepState, TypeOK
    <3>. QED
      BY <1>2, <3>1, <3>2
  <2>. QED
    BY <2>1, <2>2, <2>3 DEF PruneInv
<1>3. ASSUME NEW s \in Sweep, EndReads(s) PROVE PruneInv'
  <2>. DEFINE state == [sweep[s] EXCEPT !.pc = "write", !.toWrite = sweep[s].items,
                                        !.toPrune = CollectedTypes(sweep[s].read)]
  <2>1. CollectedTypes(sweep[s].read) \in SUBSET Type
    BY DEF CollectedTypes
  <2>2. state \in SweepState
    BY <2>1, SweepType, WriteType
  <2>3. /\ state.toPrune = CollectedTypes(sweep[s].read)
        /\ state.read = sweep[s].read
        /\ state.pc = "write"
    BY SweepType DEF SweepState
  <2>4. Become(s, state)
    BY <1>3 DEF EndReads
  <2>. HIDE DEF state
  <2>. QED
    BY <2>2, <2>3, <2>4, BecomeKeeps
<1>4. ASSUME NEW s \in Sweep, UpsertResource(s) PROVE PruneInv'
  <2>1. PICK x \in sweep[s].toWrite :
          BecomeAndDisturb(s, [sweep[s] EXCEPT !.toWrite = sweep[s].toWrite \ {x}])
    BY <1>4 DEF UpsertResource
  <2>. DEFINE state == [sweep[s] EXCEPT !.toWrite = sweep[s].toWrite \ {x}]
  <2>2. state \in SweepState /\ state.toPrune = sweep[s].toPrune /\ state.read = sweep[s].read /\ state.pc = sweep[s].pc
    BY SweepType DEF SweepState
  <2>3. BecomeAndDisturb(s, state)
    BY <2>1
  <2>. HIDE DEF state
  <2>. QED
    BY <2>2, <2>3, BecomeKeeps DEF PruneInv
<1>5. ASSUME NEW s \in Sweep, DeleteStaleResources(s) PROVE PruneInv'
  <2>1. PICK t \in sweep[s].toPrune :
          BecomeAndDisturb(s, [sweep[s] EXCEPT !.toPrune = sweep[s].toPrune \ {t}])
    BY <1>5 DEF DeleteStaleResources
  <2>. DEFINE state == [sweep[s] EXCEPT !.toPrune = sweep[s].toPrune \ {t}]
  <2>2. state \in SweepState /\ state.toPrune \subseteq sweep[s].toPrune /\ state.read = sweep[s].read /\ state.pc = sweep[s].pc
    BY SweepType DEF SweepState
  <2>3. BecomeAndDisturb(s, state)
    BY <2>1
  <2>. HIDE DEF state
  <2>. QED
    BY <2>2, <2>3, BecomeKeeps DEF PruneInv
<1>6. CASE AccountChanges
  BY <1>6 DEF AccountChanges, PruneInv, TypeOK, SweepState
<1>7. CASE Tick \/ UNCHANGED vars
  BY <1>7 DEF Tick, vars, PruneInv
<1>. QED
  BY <1>1, <1>2, <1>3, <1>4, <1>5, <1>6, <1>7 DEF Next

\* A row goes only by the hand of a sweep that may prune its type.
LEMMA RowsAreKept ==
  ASSUME TypeOK, PruneInv, [Next]_vars, NEW k \in Keys, inventory[k] # NoRow, inventory'[k] = NoRow
  PROVE  \E s \in Sweep : DeleteStaleResources(s) /\ {k[1]} \X RegionsOf(k[1]) \subseteq sweep[s].read
<1>1. inventory' # inventory
  OBVIOUS
<1>2. PICK s \in Sweep : UpsertResource(s) \/ DeleteStaleResources(s)
  BY <1>1 DEF Next, vars, Begin, NextCollector, Collect, EndReads, Return, SweepFails, AccountChanges, Tick
<1>3. ~UpsertResource(s)
  <2> SUFFICES ASSUME UpsertResource(s) PROVE FALSE
    OBVIOUS
  <2>1. PICK x \in sweep[s].toWrite :
          inventory' = [inventory EXCEPT ![Key(x)] = InsertOrReplace(inventory[Key(x)], x, s)]
    BY DEF UpsertResource
  <2>2. x \in Resource
    BY SweepType DEF SweepState
  <2>3. InsertOrReplace(inventory[Key(x)], x, s) # NoRow
    BY <2>2, RowType, InventoryAssumption
  <2>. QED
    BY <2>1, <2>3 DEF TypeOK
<1>4. PICK t \in sweep[s].toPrune :
        inventory' = [j \in Keys |->
          IF j[1] = t /\ inventory[j] # NoRow /\ inventory[j].collectedAt < sweep[s].collectedAt
            THEN NoRow ELSE inventory[j]]
  BY <1>2, <1>3 DEF DeleteStaleResources
<1>5. k[1] = t
  BY <1>4
<1>. QED
  BY <1>2, <1>3, <1>5 DEF PruneInv, CollectedTypes

\* However the regions of the sweeps under way answer, a row is removed only by a sweep
\* that had an answer from every region of its type.
THEOREM NothingDeniedIsPruned == Spec => DeniedIsNotEmpty
<1>1. TypeOK /\ PruneInv /\ [Next]_vars
        => [\A k \in Keys :
              inventory[k] # NoRow /\ inventory'[k] = NoRow =>
                \E s \in Sweep : DeleteStaleResources(s) /\ {k[1]} \X RegionsOf(k[1]) \subseteq sweep[s].read]_vars
  BY RowsAreKept
<1>. QED
  BY <1>1, TypeInit, TypeNext, PruneInit, PruneNext, PTL DEF Spec, DeniedIsNotEmpty

-----------------------------------------------------------------------------
(* What a full sweep leaves *)

\* No sweep and no row is younger than the clock.
ClockInv ==
  /\ \A s \in Sweep : sweep[s].collectedAt <= clock
  /\ \A k \in Keys : inventory[k] # NoRow => inventory[k].collectedAt <= clock

\* What a sweep w has read is what the account has.
ReadsAreTrue(w) ==
  /\ w.items \subseteq cloud
  /\ \A x \in cloud : <<x.type, x.region>> \in w.read => x \in w.items

RowsAreOlder(w) == \A k \in Keys : inventory[k] # NoRow => inventory[k].collectedAt <= w.collectedAt

WrittenIsThere(w) ==
  \A x \in w.items \ w.toWrite : x.type \notin Bare =>
    inventory[Key(x)] = [region |-> x.region, collectedAt |-> w.collectedAt]

PrunedIsGone(w) ==
  \A k \in Keys :
    k[1] \in CollectedTypes(w.read) \ w.toPrune /\ inventory[k] # NoRow => inventory[k].collectedAt >= w.collectedAt

Exact(w) ==
  /\ ReadsAreTrue(w) /\ RowsAreOlder(w)
  /\ w.pc = "write" => WrittenIsThere(w) /\ PrunedIsGone(w)

ExactInv == \A s \in Sweep : sweep[s].pc # "idle" /\ sweep[s].quiet => Exact(sweep[s])

LEMMA ClockInit == Init => ClockInv
<1>1. IdleSweep.collectedAt = 0
  BY DEF IdleSweep
<1>. QED
  BY <1>1 DEF Init, ClockInv

\* Sweeps take no age but the clock's, and rows no age but a sweep's.
LEMMA ClockNext ==
  ASSUME TypeOK, ClockInv, [Next]_vars
  PROVE  ClockInv'
<1>0. clock \in Nat /\ \A s \in Sweep : sweep[s].collectedAt \in Nat
  BY InventoryAssumption, SweepType DEF TypeOK, SweepState
<1>1. ASSUME UNCHANGED <<inventory, clock>>,
             \A s \in Sweep : sweep'[s].collectedAt \in {sweep[s].collectedAt, clock, 0}
      PROVE  ClockInv'
  BY <1>0, <1>1 DEF ClockInv
<1>2. ASSUME NEW s \in Sweep, QuietStep(s) PROVE ClockInv'
  <2>1. \A q \in Sweep \ {s} : sweep'[q] = sweep[q]
    BY <1>2 DEF QuietStep, Begin, NextCollector, Collect, EndReads, Return, SweepFails, Become, TypeOK
  <2>2. sweep'[s].collectedAt \in {sweep[s].collectedAt, clock, 0}
    <3>1. CASE Begin(s)
      BY <3>1 DEF Begin, Become, TypeOK, IdleSweep
    <3>2. CASE NextCollector(s)
      BY <3>2, SweepType DEF NextCollector, Become, TypeOK, SweepState
    <3>3. CASE Collect(s)
      BY <3>3, SweepType DEF Collect, Become, TypeOK, SweepState
    <3>4. CASE EndReads(s)
      BY <3>4, SweepType DEF EndReads, Become, TypeOK, SweepState
    <3>5. CASE Return(s) \/ SweepFails(s)
      BY <3>5 DEF Return, SweepFails, Become, TypeOK, IdleSweep
    <3>. QED
      BY <1>2, <3>1, <3>2, <3>3, <3>4, <3>5 DEF QuietStep
  <2>3. UNCHANGED <<inventory, clock>>
    BY <1>2 DEF QuietStep, Begin, NextCollector, Collect, EndReads, Return, SweepFails
  <2>. QED
    BY <1>1, <2>1, <2>2, <2>3
<1>3. ASSUME NEW s \in Sweep, NEW state, state.collectedAt = sweep[s].collectedAt, BecomeAndDisturb(s, state)
      PROVE  \A q \in Sweep : sweep'[q].collectedAt = sweep[q].collectedAt
  <2> SUFFICES ASSUME NEW q \in Sweep PROVE sweep'[q].collectedAt = sweep[q].collectedAt
    OBVIOUS
  <2>1. CASE q = s
    BY <1>3, <2>1 DEF BecomeAndDisturb
  <2>2. CASE q # s
    BY <1>3, <2>2, SweepType DEF BecomeAndDisturb, SweepState
  <2>. QED
    BY <2>1, <2>2
<1>4. ASSUME NEW s \in Sweep, UpsertResource(s) PROVE ClockInv'
  <2>1. PICK x \in sweep[s].toWrite :
          /\ inventory' = [inventory EXCEPT ![Key(x)] = InsertOrReplace(inventory[Key(x)], x, s)]
          /\ BecomeAndDisturb(s, [sweep[s] EXCEPT !.toWrite = sweep[s].toWrite \ {x}])
    BY <1>4 DEF UpsertResource
  <2>2. [sweep[s] EXCEPT !.toWrite = sweep[s].toWrite \ {x}].collectedAt = sweep[s].collectedAt
    BY SweepType DEF SweepState
  <2>3. \A q \in Sweep : sweep'[q].collectedAt = sweep[q].collectedAt
    BY <1>3, <2>1, <2>2
  <2>4. \A k \in Keys : inventory'[k] \in {inventory[k], [region |-> x.region, collectedAt |-> sweep[s].collectedAt]}
    BY <2>1 DEF InsertOrReplace, TypeOK
  <2>. QED
    BY <1>0, <1>4, <2>3, <2>4 DEF ClockInv, UpsertResource
<1>5. ASSUME NEW s \in Sweep, DeleteStaleResources(s) PROVE ClockInv'
  <2>1. PICK t \in sweep[s].toPrune :
          /\ inventory' = [k \in Keys |->
               IF k[1] = t /\ inventory[k] # NoRow /\ inventory[k].collectedAt < sweep[s].collectedAt
                 THEN NoRow ELSE inventory[k]]
          /\ BecomeAndDisturb(s, [sweep[s] EXCEPT !.toPrune = sweep[s].toPrune \ {t}])
    BY <1>5 DEF DeleteStaleResources
  <2>2. [sweep[s] EXCEPT !.toPrune = sweep[s].toPrune \ {t}].collectedAt = sweep[s].collectedAt
    BY SweepType DEF SweepState
  <2>3. \A q \in Sweep : sweep'[q].collectedAt = sweep[q].collectedAt
    BY <1>3, <2>1, <2>2
  <2>. QED
    BY <1>0, <1>5, <2>1, <2>3 DEF ClockInv, DeleteStaleResources
<1>6. CASE AccountChanges
  <2>1. \A s \in Sweep : sweep'[s].collectedAt = sweep[s].collectedAt
    BY <1>6, SweepType DEF AccountChanges, SweepState
  <2>. QED
    BY <1>1, <1>6, <2>1 DEF AccountChanges
<1>7. CASE Tick
  <2>1. clock' = clock + 1 /\ UNCHANGED <<inventory, sweep>>
    BY <1>7 DEF Tick
  <2>2. \A k \in Keys : inventory[k] # NoRow => inventory[k].collectedAt \in Nat
    BY InventoryAssumption DEF TypeOK, Row
  <2>. QED
    BY <1>0, <2>1, <2>2 DEF ClockInv
<1>8. CASE UNCHANGED vars
  BY <1>8 DEF vars, ClockInv
<1>. QED
  BY <1>2, <1>4, <1>5, <1>6, <1>7, <1>8 DEF Next, QuietStep

\* An id that is not bare is of one resource of its type.
LEMMA KeyIsOwn ==
  ASSUME NEW x \in Resource, NEW y \in Resource, x.type \notin Bare, Key(x) = Key(y)
  PROVE  x = y
BY DEF Key, ResourceId, Resource

LEMMA ExactInit == Init => ExactInv
<1>1. IdleSweep.pc = "idle"
  BY DEF IdleSweep
<1>. QED
  BY <1>1 DEF Init, ExactInv

\* A sweep is as exact as it was while the account and the table stay, and neither do
\* its own records change.
LEMMA ExactKept ==
  ASSUME ExactInv, NEW q \in Sweep, sweep'[q] = sweep[q], UNCHANGED <<cloud, inventory>>,
         sweep'[q].pc # "idle", sweep'[q].quiet
  PROVE  Exact(sweep[q])'
BY DEF ExactInv, Exact, ReadsAreTrue, RowsAreOlder, WrittenIsThere, PrunedIsGone, CollectedTypes, RegionsOf

LEMMA ExactQuietStep ==
  ASSUME TypeOK, ClockInv, ExactInv, NEW s \in Sweep, QuietStep(s), NEW q \in Sweep,
         sweep'[q].pc # "idle", sweep'[q].quiet
  PROVE  Exact(sweep[q])'
<1>0. UNCHANGED <<cloud, inventory>>
  BY DEF QuietStep, Begin, NextCollector, Collect, EndReads, Return, SweepFails
<1>1. CASE q # s
  <2>1. sweep'[q] = sweep[q]
    BY <1>1 DEF QuietStep, Begin, NextCollector, Collect, EndReads, Return, SweepFails, Become, TypeOK
  <2>. QED
    BY <1>0, <2>1, ExactKept
<1>2. CASE q = s /\ Begin(s)
  <2>1. sweep'[q] = [IdleSweep EXCEPT !.pc = "read", !.collectedAt = clock, !.collectors = Type]
    BY <1>2 DEF Begin, Become, TypeOK
  <2>2. /\ sweep'[q].items = {} /\ sweep'[q].read = {} /\ sweep'[q].collectedAt = clock
        /\ sweep'[q].pc = "read"
    BY <2>1 DEF IdleSweep
  <2>. QED
    BY <1>0, <2>2 DEF Exact, ReadsAreTrue, RowsAreOlder, ClockInv
<1>3. CASE q = s /\ NextCollector(s)
  <2>1. PICK t \in sweep[s].collectors :
          sweep'[q] = [sweep[q] EXCEPT !.collectors = sweep[s].collectors \ {t},
                                       !.pending = {t} \X RegionsOf(t)]
    BY <1>3 DEF NextCollector, Become, TypeOK
  <2>2. /\ sweep'[q].items = sweep[q].items /\ sweep'[q].read = sweep[q].read
        /\ sweep'[q].collectedAt = sweep[q].collectedAt /\ sweep'[q].quiet = sweep[q].quiet
        /\ sweep'[q].pc = "read" /\ sweep[q].pc = "read"
    BY ZenonT(40), <1>3, <2>1, SweepType DEF SweepState, NextCollector
  <2>. QED
    BY <1>0, <2>2 DEF ExactInv, Exact, ReadsAreTrue, RowsAreOlder
<1>4. CASE q = s /\ Collect(s)
  <2>1. PICK ask \in sweep[q].pending, answers \in BOOLEAN :
          sweep'[q] = IF answers
            THEN [sweep[q] EXCEPT !.pending = sweep[q].pending \ {ask},
                                  !.read = sweep[q].read \cup {ask},
                                  !.items = sweep[q].items \cup Found(ask[1], ask[2])]
            ELSE [sweep[q] EXCEPT !.pending = sweep[q].pending \ {ask}]
    BY <1>4 DEF Collect, Become, TypeOK
  <2>2. /\ sweep'[q].collectedAt = sweep[q].collectedAt /\ sweep'[q].quiet = sweep[q].quiet
        /\ sweep'[q].pc = "read" /\ sweep[q].pc = "read"
    BY <1>4, <2>1, SweepType DEF SweepState, Collect
  <2>3. \/ sweep'[q].items = sweep[q].items /\ sweep'[q].read = sweep[q].read
        \/ /\ sweep'[q].items = sweep[q].items \cup Found(ask[1], ask[2])
           /\ sweep'[q].read = sweep[q].read \cup {ask}
    BY <2>1, SweepType DEF SweepState
  <2>4. ReadsAreTrue(sweep[q]) /\ RowsAreOlder(sweep[q])
    BY <2>2 DEF ExactInv, Exact
  <2>5. ReadsAreTrue(sweep[q])'
    BY <1>0, <2>3, <2>4 DEF ReadsAreTrue, Found
  <2>. QED
    BY <1>0, <2>2, <2>4, <2>5 DEF Exact, RowsAreOlder
<1>5. CASE q = s /\ EndReads(s)
  <2>1. sweep'[q] = [sweep[q] EXCEPT !.pc = "write", !.toWrite = sweep[q].items,
                                     !.toPrune = CollectedTypes(sweep[q].read)]
    BY <1>5 DEF EndReads, Become, TypeOK
  <2>2. /\ sweep'[q].items = sweep[q].items /\ sweep'[q].read = sweep[q].read
        /\ sweep'[q].collectedAt = sweep[q].collectedAt /\ sweep'[q].quiet = sweep[q].quiet
        /\ sweep'[q].toWrite = sweep[q].items
        /\ sweep'[q].toPrune = CollectedTypes(sweep[q].read)
        /\ sweep[q].pc = "read"
    BY ZenonT(40), <1>5, <2>1, SweepType DEF SweepState, EndReads
  <2>3. ReadsAreTrue(sweep[q]) /\ RowsAreOlder(sweep[q])
    BY <2>2 DEF ExactInv, Exact
  <2>4. CollectedTypes(sweep[q].read)' = CollectedTypes(sweep[q].read)
    BY <2>2 DEF CollectedTypes, RegionsOf
  <2>. QED
    BY <1>0, <2>2, <2>3, <2>4 DEF Exact, ReadsAreTrue, RowsAreOlder, WrittenIsThere, PrunedIsGone
<1>6. CASE q = s /\ (Return(s) \/ SweepFails(s))
  BY <1>6 DEF Return, SweepFails, Become, TypeOK, IdleSweep
<1>. QED
  BY <1>1, <1>2, <1>3, <1>4, <1>5, <1>6 DEF QuietStep

LEMMA ExactUpsert ==
  ASSUME TypeOK, ExactInv, NEW s \in Sweep, UpsertResource(s), NEW q \in Sweep,
         sweep'[q].pc # "idle", sweep'[q].quiet
  PROVE  Exact(sweep[q])'
<1>1. PICK x \in sweep[s].toWrite :
        /\ inventory' = [inventory EXCEPT ![Key(x)] = [region |-> x.region, collectedAt |-> sweep[s].collectedAt]]
        /\ BecomeAndDisturb(s, [sweep[s] EXCEPT !.toWrite = sweep[s].toWrite \ {x}])
  BY DEF UpsertResource, InsertOrReplace
<1>2. q = s
  BY <1>1, SweepType DEF BecomeAndDisturb, SweepState
<1>3. /\ sweep'[q].items = sweep[q].items /\ sweep'[q].read = sweep[q].read
      /\ sweep'[q].collectedAt = sweep[q].collectedAt /\ sweep'[q].quiet = sweep[q].quiet
      /\ sweep'[q].toPrune = sweep[q].toPrune /\ sweep'[q].toWrite = sweep[q].toWrite \ {x}
      /\ sweep[q].pc = "write" /\ sweep'[q].pc = "write" /\ UNCHANGED cloud
  BY <1>1, <1>2, SweepType DEF BecomeAndDisturb, SweepState, UpsertResource
<1>4. Exact(sweep[q]) /\ sweep[q].collectedAt \in Nat
  BY <1>3, SweepType DEF ExactInv, SweepState
<1>5. x \in Resource /\ sweep[q].items \subseteq Resource /\ Key(x) \in Keys
  BY <1>2, SweepType DEF SweepState, Keys
<1>6. \A k \in Keys : inventory'[k] = IF k = Key(x) THEN [region |-> x.region, collectedAt |-> sweep[q].collectedAt]
                                                  ELSE inventory[k]
  BY <1>1, <1>2 DEF TypeOK
<1>7. \A t : t \in CollectedTypes(sweep[q].read)' <=> t \in CollectedTypes(sweep[q].read)
  BY <1>3 DEF CollectedTypes, RegionsOf
<1>8. ReadsAreTrue(sweep[q])'
  BY <1>3, <1>4 DEF Exact, ReadsAreTrue
<1>9. RowsAreOlder(sweep[q])' /\ PrunedIsGone(sweep[q])'
  BY <1>3, <1>4, <1>6, <1>7 DEF Exact, RowsAreOlder, PrunedIsGone
<1>10. WrittenIsThere(sweep[q])'
  <2> SUFFICES ASSUME NEW y \in sweep'[q].items \ sweep'[q].toWrite, y.type \notin Bare
               PROVE  inventory'[Key(y)] = [region |-> y.region, collectedAt |-> sweep'[q].collectedAt]
    BY DEF WrittenIsThere, Key, ResourceId
  <2>1. y \in Resource /\ Key(y) \in Keys
    BY <1>3, <1>5 DEF Keys
  <2>2. CASE y = x
    BY <1>3, <1>6, <2>1, <2>2
  <2>3. CASE y # x
    <3>1. Key(y) # Key(x)
      BY <1>5, <2>1, <2>3, KeyIsOwn
    <3>2. inventory[Key(y)] = [region |-> y.region, collectedAt |-> sweep[q].collectedAt]
      BY <1>3, <1>4, <2>3 DEF Exact, WrittenIsThere
    <3>. QED
      BY <1>3, <1>6, <2>1, <3>1, <3>2
  <2>. QED
    BY <2>2, <2>3
<1>. QED
  BY <1>8, <1>9, <1>10 DEF Exact

LEMMA ExactPrune ==
  ASSUME TypeOK, ExactInv, NEW s \in Sweep, DeleteStaleResources(s), NEW q \in Sweep,
         sweep'[q].pc # "idle", sweep'[q].quiet
  PROVE  Exact(sweep[q])'
<1>1. PICK t \in sweep[s].toPrune :
        /\ inventory' = [k \in Keys |->
             IF k[1] = t /\ inventory[k] # NoRow /\ inventory[k].collectedAt < sweep[s].collectedAt
               THEN NoRow ELSE inventory[k]]
        /\ BecomeAndDisturb(s, [sweep[s] EXCEPT !.toPrune = sweep[s].toPrune \ {t}])
  BY DEF DeleteStaleResources
<1>2. q = s
  BY <1>1, SweepType DEF BecomeAndDisturb, SweepState
<1>3. /\ sweep'[q].items = sweep[q].items /\ sweep'[q].read = sweep[q].read
      /\ sweep'[q].collectedAt = sweep[q].collectedAt /\ sweep'[q].quiet = sweep[q].quiet
      /\ sweep'[q].toWrite = sweep[q].toWrite /\ sweep'[q].toPrune = sweep[q].toPrune \ {t}
      /\ sweep[q].pc = "write" /\ sweep'[q].pc = "write" /\ UNCHANGED cloud
  BY <1>1, <1>2, SweepType DEF BecomeAndDisturb, SweepState, DeleteStaleResources
<1>4. Exact(sweep[q]) /\ sweep[q].collectedAt \in Nat
  BY <1>3, SweepType DEF ExactInv, SweepState
<1>5. \A k \in Keys : inventory[k] # NoRow => inventory[k] \in Row /\ inventory[k].collectedAt \in Nat
  BY DEF TypeOK, Row
<1>6. \A k \in Keys : /\ inventory'[k] \in {inventory[k], NoRow}
                      /\ inventory[k].collectedAt = sweep[q].collectedAt => inventory'[k] = inventory[k]
                      /\ k[1] = t /\ inventory'[k] # NoRow => inventory[k].collectedAt >= sweep[q].collectedAt
  BY <1>1, <1>2, <1>4, <1>5
<1>7. \A u : u \in CollectedTypes(sweep[q].read)' <=> u \in CollectedTypes(sweep[q].read)
  BY <1>3 DEF CollectedTypes, RegionsOf
<1>8. ReadsAreTrue(sweep[q])'
  BY <1>3, <1>4 DEF Exact, ReadsAreTrue
<1>9. RowsAreOlder(sweep[q])' /\ PrunedIsGone(sweep[q])'
  BY <1>3, <1>4, <1>6, <1>7 DEF Exact, RowsAreOlder, PrunedIsGone
<1>10. WrittenIsThere(sweep[q])'
  <2> SUFFICES ASSUME NEW y \in sweep'[q].items \ sweep'[q].toWrite, y.type \notin Bare
               PROVE  inventory'[Key(y)] = [region |-> y.region, collectedAt |-> sweep'[q].collectedAt]
    BY DEF WrittenIsThere, Key, ResourceId
  <2>1. Key(y) \in Keys
    BY <1>2, <1>3, SweepType DEF Keys, SweepState
  <2>2. inventory[Key(y)] = [region |-> y.region, collectedAt |-> sweep[q].collectedAt]
    BY <1>3, <1>4 DEF Exact, WrittenIsThere
  <2>. QED
    BY <1>3, <1>6, <2>1, <2>2
<1>. QED
  BY <1>8, <1>9, <1>10 DEF Exact

LEMMA ExactNext ==
  ASSUME TypeOK, ClockInv, ExactInv, [Next]_vars
  PROVE  ExactInv'
<1> SUFFICES ASSUME NEW q \in Sweep, sweep'[q].pc # "idle", sweep'[q].quiet PROVE Exact(sweep[q])'
  BY DEF ExactInv
<1>1. ASSUME NEW s \in Sweep, QuietStep(s) PROVE Exact(sweep[q])'
  BY <1>1, ExactQuietStep
<1>2. ASSUME NEW s \in Sweep, UpsertResource(s) PROVE Exact(sweep[q])'
  BY <1>2, ExactUpsert
<1>3. ASSUME NEW s \in Sweep, DeleteStaleResources(s) PROVE Exact(sweep[q])'
  BY <1>3, ExactPrune
<1>4. CASE AccountChanges
  BY <1>4, SweepType DEF AccountChanges, SweepState
<1>5. CASE Tick \/ UNCHANGED vars
  BY <1>5, ExactKept DEF Tick, vars
<1>. QED
  BY <1>1, <1>2, <1>3, <1>4, <1>5 DEF Next, QuietStep

LEMMA ExactWhenOver ==
  ASSUME TypeOK, ExactInv
  PROVE  FullSweepIsExact
<1> SUFFICES ASSUME NEW s \in Sweep, sweep[s].pc = "write", sweep[s].toWrite = {},
                    sweep[s].toPrune = {}, sweep[s].quiet,
                    NEW x \in Resource, x.type \in CollectedTypes(sweep[s].read) \ Bare
             PROVE  LET row == inventory[Key(x)] IN
                    /\ x \in cloud => row # NoRow /\ row.region = x.region
                    /\ row # NoRow /\ row.region = x.region /\ x \notin cloud
                         => row.collectedAt = sweep[s].collectedAt
  BY DEF FullSweepIsExact
<1>1. Exact(sweep[s])
  BY DEF ExactInv
<1>2. x \in cloud => x \in sweep[s].items
  <2>1. x.region \in RegionsOf(x.type)
    BY DEF Resource
  <2>. QED
    BY <1>1, <2>1 DEF Exact, ReadsAreTrue, CollectedTypes
<1>3. Key(x) \in Keys /\ Key(x)[1] = x.type
  BY DEF Keys, Key
<1>4. ASSUME x \in cloud
      PROVE  inventory[Key(x)] # NoRow /\ inventory[Key(x)].region = x.region
  <2>1. inventory[Key(x)] = [region |-> x.region, collectedAt |-> sweep[s].collectedAt]
    BY <1>1, <1>2, <1>4 DEF Exact, WrittenIsThere
  <2>2. [region |-> x.region, collectedAt |-> sweep[s].collectedAt] \in Row
    BY SweepType DEF Row, Resource, SweepState
  <2>. QED
    BY <2>1, <2>2, InventoryAssumption
<1>5. ASSUME inventory[Key(x)] # NoRow
      PROVE  inventory[Key(x)].collectedAt = sweep[s].collectedAt
  <2>1. /\ inventory[Key(x)].collectedAt <= sweep[s].collectedAt
        /\ inventory[Key(x)].collectedAt >= sweep[s].collectedAt
    BY <1>1, <1>3, <1>5 DEF Exact, RowsAreOlder, PrunedIsGone
  <2>2. inventory[Key(x)].collectedAt \in Nat /\ sweep[s].collectedAt \in Nat
    BY <1>3, <1>5, SweepType, InventoryAssumption DEF TypeOK, Row, SweepState
  <2>. QED
    BY <2>1, <2>2
<1>. QED
  BY <1>4, <1>5

\* However many sweeps overlap and whenever the account changes: a sweep that neither
\* disturbed leaves the types it read in full, those with ids of their own, as they are.
THEOREM QuietSweepIsExact == Spec => []FullSweepIsExact
BY TypeInit, TypeNext, ClockInit, ClockNext, ExactInit, ExactNext, ExactWhenOver, PTL DEF Spec
=============================================================================
