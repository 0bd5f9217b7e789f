----------------------------- MODULE Collection ------------------------------
(***************************************************************************)
(* The turns of data collection: which principals a sweep of one           *)
(* collection type takes, and how the outcome of each moves its clocks.    *)
(*                                                                         *)
(* A configured principal has an attempt clock, which orders the           *)
(* principals and makes them due, and a success clock.  A sweep takes the  *)
(* first few that are due, tries them one after another, and stamps each.  *)
(* Sweeps may overlap.  When the daily write allowance of the database is  *)
(* spent every write fails until it is reset.                              *)
(*                                                                         *)
(* The attempt clocks are abstracted to the order they give; those of      *)
(* principals never tried are zero, which is before all others, and in no  *)
(* order among themselves.  What a sweep does for one principal is in      *)
(* CredentialChain and Inventory; the sweeps are begun by CronTasks, and   *)
(* what a specification is made of has names here that a module can use    *)
(* beside those of CronTasks.                                              *)
(***************************************************************************)
EXTENDS Naturals, FiniteSets, Sequences, SequencesExt

CONSTANTS
  Principal,   \* principals that may be configured
  Sweep,       \* sweeps that may be under way at once
  Batch,       \* MAX_ACCOUNTS_PER_COLLECTION
  MaxEdits,    \* bound on administrators' edits
  MaxSpent     \* bound on days whose allowance is spent

ASSUME CollectionAssumption ==
  /\ IsFiniteSet(Principal)
  /\ Batch \in Nat \ {0}
  /\ MaxEdits \in Nat /\ MaxSpent \in Nat

VARIABLES
  order,       \* the configured principals, oldest attempt first
  due,         \* how many of them, from the first, are due
  untried,     \* how many of them, from the first, were never tried
  collected,   \* principals whose success clock is set
  sweep,       \* sweep[s]: where sweep s is in its batch
  spent,       \* whether the write allowance is spent
  edits,       \* administrators' edits so far
  days,        \* days whose allowance was spent
  remade       \* ghost: principals whose row was made between two stamps of a sweep

turnsVars == <<order, due, untried, collected, sweep, spent, edits, days, remade>>

IdleSweep == [pc |-> "idle", batch |-> <<>>, data |-> FALSE]

TurnsInit ==
  /\ order \in SetToSeqs(Principal)
  /\ due = 0 /\ untried = 0
  /\ collected = {}
  /\ sweep = [s \in Sweep |-> IdleSweep]
  /\ spent = FALSE
  /\ edits = 0 /\ days = 0
  /\ remade = {}

Configured == ToSet(order)
Untried == {order[n] : n \in 1..untried}

\* Where p is in the order, and the order without it.
Turn(p) == CHOOSE n \in 1..Len(order) : order[n] = p
Without(p) == RemoveAt(order, Turn(p))

\* What remains of the first n of the order when p is taken from it.
LessOne(p, n) == IF Turn(p) <= n THEN n - 1 ELSE n

-----------------------------------------------------------------------------
(* The table *)

\* Slip: the latest attempt comes first.
StampedComesFirst(p) ==
  IF p \in Configured
    THEN /\ order' = <<p>> \o Without(p)
         /\ UNCHANGED <<due, untried>>
    ELSE UNCHANGED <<order, due, untried>>

\* A stamp makes p the last, and not due.  A principal no longer configured has no
\* row to stamp.
UpdateLastAttemptTime(p) ==
  IF p \in Configured
    THEN /\ order' = Append(Without(p), p)
         /\ due' = LessOne(p, due)
         /\ untried' = LessOne(p, untried)
    ELSE UNCHANGED <<order, due, untried>>

UpdateLastCollectedTime(p) ==
  collected' = IF p \in Configured THEN collected \cup {p} ELSE collected

\* Ghost: sweep s has stamped its attempt of p, and has the success yet to stamp.
Stamping(s, p) == sweep[s].pc = "success" /\ Head(sweep[s].batch) = p

\* A new row is due at once, before all that were ever tried.
Create(p) ==
  /\ edits < MaxEdits /\ ~spent
  /\ p \notin Configured
  /\ \E n \in 1..(untried + 1) : order' = InsertAt(order, n, p)
  /\ due' = due + 1
  /\ untried' = untried + 1
  /\ edits' = edits + 1
  /\ remade' = IF \E s \in Sweep : Stamping(s, p) THEN remade \cup {p} ELSE remade
  /\ UNCHANGED <<collected, sweep, spent, days>>

Delete(p) ==
  /\ edits < MaxEdits /\ ~spent
  /\ p \in Configured
  /\ order' = Without(p)
  /\ due' = LessOne(p, due)
  /\ untried' = LessOne(p, untried)
  /\ collected' = collected \ {p}
  /\ edits' = edits + 1
  /\ remade' = remade \ {p}
  /\ UNCHANGED <<sweep, spent, days>>

\* The interval of the principal tried the longest ago is over.
BecomeDue ==
  /\ due < Len(order)
  /\ due' = due + 1
  /\ UNCHANGED <<order, untried, collected, sweep, spent, edits, days, remade>>

Spend ==
  /\ ~spent /\ days < MaxSpent
  /\ spent' = TRUE /\ days' = days + 1
  /\ UNCHANGED <<order, due, untried, collected, sweep, edits, remade>>

Reset ==
  /\ spent
  /\ spent' = FALSE
  /\ UNCHANGED <<order, due, untried, collected, sweep, edits, days, remade>>

-----------------------------------------------------------------------------
(* A sweep *)

tableVars == <<order, due, untried, spent, edits, days, remade>>

Become(s, state) == sweep' = [sweep EXCEPT ![s] = state]

Current(s) == Head(sweep[s].batch)

Onward(s) ==
  IF Len(sweep[s].batch) = 1 THEN IdleSweep
  ELSE [pc |-> "collect", batch |-> Tail(sweep[s].batch), data |-> FALSE]

Begin(s) ==
  /\ sweep[s].pc = "idle"
  /\ due > 0
  /\ Become(s, [pc |-> "collect", batch |-> SubSeq(order, 1, IF due < Batch THEN due ELSE Batch),
                data |-> FALSE])
  /\ UNCHANGED <<tableVars, collected>>

\* The chain is resolved and the data read and written, or something throws.  Nothing
\* to write is well even when nothing can be written; otherwise a spent allowance is
\* an answer that ends the sweep.
Collect(s) ==
  /\ sweep[s].pc = "collect"
  /\ \/ \E data \in BOOLEAN :
          /\ data => ~spent
          /\ Become(s, [sweep[s] EXCEPT !.pc = "attempt", !.data = data])
     \/ Become(s, [sweep[s] EXCEPT !.pc = "failure"])
     \/ spent /\ Become(s, IdleSweep)
  /\ UNCHANGED <<tableVars, collected>>

\* The success clock is for a principal that had data.
AfterAttempt(s) == IF sweep[s].data THEN [sweep[s] EXCEPT !.pc = "success"] ELSE Onward(s)

AttemptStamped(s) ==
  /\ sweep[s].pc = "attempt"
  /\ ~spent
  /\ UpdateLastAttemptTime(Current(s))
  /\ Become(s, AfterAttempt(s))
  /\ UNCHANGED <<collected, spent, edits, days, remade>>

\* Slip: a stamp of an attempt that fails is logged, and the success stamped all the same.
StampFailsUnheeded(s) ==
  /\ sweep[s].pc \in {"attempt", "failure"}
  /\ Become(s, IF sweep[s].pc = "attempt" THEN AfterAttempt(s) ELSE Onward(s))
  /\ UNCHANGED <<tableVars, collected>>

\* A stamp that fails, for whatever reason, is counted and the sweep goes on to the
\* next principal.
StampFails(s) ==
  /\ sweep[s].pc \in {"attempt", "failure"}
  /\ Become(s, Onward(s))
  /\ UNCHANGED <<tableVars, collected>>

SuccessStamped(s) ==
  /\ sweep[s].pc = "success"
  /\ ~spent
  /\ UpdateLastCollectedTime(Current(s))
  /\ Become(s, Onward(s))
  /\ UNCHANGED tableVars

\* It is treated as the failure of the collection.
SuccessNotStamped(s) ==
  /\ sweep[s].pc = "success"
  /\ Become(s, IF spent THEN IdleSweep ELSE [sweep[s] EXCEPT !.pc = "failure"])
  /\ UNCHANGED <<tableVars, collected>>

\* Slip: a failed attempt is not stamped, so that it is retried at once.
FailureLeftDue(s) ==
  /\ sweep[s].pc = "failure"
  /\ ~spent
  /\ Become(s, Onward(s))
  /\ UNCHANGED <<tableVars, collected>>

\* A failed attempt is stamped like any other.
FailureStamped(s) ==
  /\ sweep[s].pc = "failure"
  /\ ~spent
  /\ UpdateLastAttemptTime(Current(s))
  /\ Become(s, Onward(s))
  /\ UNCHANGED <<collected, spent, edits, days, remade>>

\* The invocation ends before the sweep does; nothing is stamped for it.
Die(s) ==
  /\ sweep[s].pc # "idle"
  /\ Become(s, IdleSweep)
  /\ UNCHANGED <<tableVars, collected>>

-----------------------------------------------------------------------------

Stamped(s) == AttemptStamped(s) \/ FailureStamped(s)

SweepStep(s) ==
  \/ Collect(s) \/ Stamped(s) \/ StampFails(s)
  \/ SuccessStamped(s) \/ SuccessNotStamped(s)

TurnsNext ==
  \/ \E s \in Sweep : Begin(s) \/ SweepStep(s) \/ Die(s)
  \/ \E p \in Principal : Create(p) \/ Delete(p)
  \/ BecomeDue \/ Spend \/ Reset

TurnsSpec == TurnsInit /\ [][TurnsNext]_turnsVars

\* Ticks come and intervals end; a sweep that is not killed goes on.  Sweeps are not
\* always killed, and the database does not always fail, at the same point.
FairTurns ==
  /\ TurnsSpec
  /\ WF_turnsVars(BecomeDue) /\ WF_turnsVars(Reset)
  /\ \A s \in Sweep :
       /\ WF_turnsVars(Begin(s)) /\ WF_turnsVars(SweepStep(s))
       /\ SF_turnsVars(Collect(s)) /\ SF_turnsVars(Stamped(s))

-----------------------------------------------------------------------------
(* Properties *)

TurnsTypeOK ==
  /\ order \in Seq(Principal)
  /\ \A m, n \in 1..Len(order) : order[m] = order[n] => m = n
  /\ due \in 0..Len(order)
  /\ untried \in 0..due
  /\ collected \subseteq Configured
  /\ sweep \in [Sweep -> [pc    : {"idle", "collect", "attempt", "success", "failure"},
                          batch : Seq(Principal),
                          data  : BOOLEAN]]
  /\ \A s \in Sweep : sweep[s].pc = "idle" <=> sweep[s].batch = <<>>
  /\ spent \in BOOLEAN
  /\ edits \in 0..MaxEdits /\ days \in 0..MaxSpent
  /\ remade \subseteq Principal

\* No principal is starved: one that stays configured is tried again and again,
\* whatever fails for ever, for itself or for the others.
EveryoneIsTried ==
  \A p \in Principal :
    []<>(p \notin Configured \/ \E s \in Sweep : sweep[s].pc = "collect" /\ Current(s) = p)

\* Whether q comes before p.
Ahead(q, p) == \E m, n \in 1..Len(order) : m < n /\ order[m] = q /\ order[n] = p

\* A configured principal gets ahead of another only when that one is stamped: no failure,
\* no edit and no sweep that dies makes one that waits wait for others than those that were
\* before it, and for new ones.
NobodyIsOvertaken ==
  [][\A p, q \in Configured :
       Ahead(q, p)' => Ahead(q, p) \/ \E s \in Sweep : Stamped(s) /\ Current(s) = p]_turnsVars

\* A row whose success clock is set was tried: the success is stamped after the attempt,
\* and only if that stamp was written, whatever fails between the two, however sweeps
\* overlap and whatever is deleted and made again.  A principal that has data is so never
\* taken for one never tried, which comes first in every batch.  One exception: a row
\* made again between the two stamps of a sweep has the success of the row before it.
CollectedWasTried == collected \cap Untried \subseteq remade
=============================================================================
