------------------------------ MODULE CronTasks ------------------------------
(***************************************************************************)
(* The cron of AccessBridge: a Durable Object that every tick of the cron  *)
(* triggers, and the collection workflow it hands the long sweeps to.      *)
(*                                                                         *)
(* One run at a time holds the guard currentRun.  The guard is in memory   *)
(* and lapses at a maximum age, because a run whose await never settles    *)
(* cannot be cancelled.  A run goes through two phases of tasks; with the  *)
(* workflow bound, the two collections run as steps of an instance that    *)
(* outlives the run and retries each step once.                            *)
(*                                                                         *)
(* A trigger refused with already_running changes nothing, so it is no     *)
(* action here.  What a task does is in CredentialChain and Inventory.     *)
(***************************************************************************)
EXTENDS Naturals

CONSTANTS
  Run,             \* runs the object may have in its memory
  NoRun,           \* an empty guard
  MaxAge,          \* MAX_RUN_AGE_MS, in ticks of the clock
  Retries          \* retries of a workflow step

ASSUME CronAssumption ==
  /\ NoRun \notin Run
  /\ MaxAge \in Nat \ {0}
  /\ Retries \in Nat

Phase1 == {"credential-cache-refresh"}
Cleanups == {"audit-log-cleanup", "background-task-run-pruning"}
Collections == {"cost-data-collection", "resource-inventory-collection"}
Task == Phase1 \cup Cleanups \cup Collections

VARIABLES
  workflowBound,   \* whether COLLECTION_WORKFLOW is bound: a matter of the deployment, the same all along
  currentRun,   \* the run that holds the guard
  run,          \* run[r]: where run r is, its age, and how it was answered
  task,         \* task[r]: the outcome of each task of run r
  instance      \* instance[r]: the workflow instance that run r created

vars == <<workflowBound, currentRun, run, task, instance>>

\* With the workflow bound, the second phase leaves the collections to it.
Phase2 == IF workflowBound THEN Cleanups ELSE Cleanups \cup Collections

NotStarted == [t \in Task |-> "none"]
NoInstance == [step |-> "none", tries |-> 0]

Init ==
  /\ workflowBound \in BOOLEAN
  /\ currentRun = NoRun
  /\ run = [r \in Run |-> [pc |-> "idle", age |-> 0, answer |-> "none"]]
  /\ task = [r \in Run |-> NotStarted]
  /\ instance = [r \in Run |-> NoInstance]

Live(r) == run[r].pc # "idle"

\* Slip: the tasks of a phase replace those of the one before.
StartedAfresh(outcome, tasks) == [t \in tasks |-> "running"]

Started(outcome, tasks) == [t \in Task |-> IF t \in tasks THEN "running" ELSE outcome[t]]

-----------------------------------------------------------------------------
(* The Durable Object *)

\* Slip: a run keeps the guard however old it is.
GuardIsHeldForever == currentRun # NoRun

GuardIsHeld == currentRun # NoRun /\ run[currentRun].age < MaxAge

\* A tick finds the guard free or lapsed, and starts a run that takes it.  The run
\* that lapsed is abandoned, not cancelled.
Accept(r) ==
  /\ ~Live(r)
  /\ instance[r].step \notin Collections
  /\ ~GuardIsHeld
  /\ currentRun' = r
  /\ run' = [run EXCEPT ![r] = [pc |-> IF workflowBound THEN "create" ELSE "phase1",
                                age |-> 0, answer |-> "none"]]
  /\ task' = [task EXCEPT ![r] = IF workflowBound THEN NotStarted ELSE Started(NotStarted, Phase1)]
  /\ instance' = [instance EXCEPT ![r] = NoInstance]
  /\ UNCHANGED workflowBound

\* Slip: whichever run ends takes the guard with it.
ReleaseAnyway(r) == currentRun' = NoRun

\* A run that ends clears the guard only if it is its own.
Release(r) == currentRun' = IF currentRun = r THEN NoRun ELSE currentRun

Answer(r, answer) ==
  /\ run' = [run EXCEPT ![r].pc = "idle", ![r].answer = answer]
  /\ Release(r)

\* With the workflow bound, its instance is created before any task; if that fails,
\* so does the run.
CreateInstance(r) ==
  /\ run[r].pc = "create"
  /\ \/ /\ instance' = [instance EXCEPT ![r].step = "cost-data-collection"]
        /\ task' = [task EXCEPT ![r] = Started(task[r], Phase1 \cup {"cost-data-collection"})]
        /\ run' = [run EXCEPT ![r].pc = "phase1"]
        /\ UNCHANGED currentRun
     \/ /\ Answer(r, "failed")
        /\ UNCHANGED <<task, instance>>
  /\ UNCHANGED workflowBound

InlineTasks(r) == IF run[r].pc = "phase1" THEN Phase1 ELSE Phase2

Settled(r, tasks) == \A t \in tasks : task[r][t] \in {"ok", "failed"}

TaskEnds(r, t, outcome) ==
  /\ run[r].pc \in {"phase1", "phase2"}
  /\ t \in InlineTasks(r)
  /\ task[r][t] = "running"
  /\ task' = [task EXCEPT ![r][t] = outcome]
  /\ UNCHANGED <<workflowBound, currentRun, run, instance>>

\* Slip: a failing task of the first phase ends the run.
StartPhase2IfAllWell(r) ==
  /\ run[r].pc = "phase1"
  /\ Settled(r, Phase1)
  /\ IF \A t \in Phase1 : task[r][t] = "ok"
       THEN /\ run' = [run EXCEPT ![r].pc = "phase2"]
            /\ task' = [task EXCEPT ![r] = Started(task[r], Phase2)]
            /\ UNCHANGED currentRun
       ELSE Answer(r, "failed") /\ UNCHANGED task
  /\ UNCHANGED <<workflowBound, instance>>

\* A phase is over when all its tasks have settled, failed or not.
StartPhase2(r) ==
  /\ run[r].pc = "phase1"
  /\ Settled(r, Phase1)
  /\ run' = [run EXCEPT ![r].pc = "phase2"]
  /\ task' = [task EXCEPT ![r] = Started(task[r], Phase2)]
  /\ UNCHANGED <<workflowBound, currentRun, instance>>

\* The tasks whose failure makes the run fail.
Inline == Phase1 \cup Phase2

Complete(r) ==
  /\ run[r].pc = "phase2"
  /\ Settled(r, Phase2)
  /\ Answer(r, IF \A t \in Inline : task[r][t] = "ok" THEN "completed" ELSE "failed")
  /\ UNCHANGED <<workflowBound, task, instance>>

\* The object is evicted: the guard and every run in memory are gone.
Evict ==
  /\ currentRun' = NoRun
  /\ run' = [r \in Run |-> IF Live(r) THEN [pc |-> "idle", age |-> 0, answer |-> "lost"] ELSE run[r]]
  /\ UNCHANGED <<workflowBound, task, instance>>

\* Bound: a run that was abandoned and never settles gives its name to a later one.
Forget(r) ==
  /\ Live(r)
  /\ r # currentRun
  /\ run' = [run EXCEPT ![r].pc = "idle", ![r].answer = "lost"]
  /\ UNCHANGED <<workflowBound, currentRun, task, instance>>

\* Time passes.  Ages past MaxAge are alike.
Tick ==
  /\ \E r \in Run : Live(r) /\ run[r].age < MaxAge
  /\ run' = [r \in Run |-> IF Live(r) /\ run[r].age < MaxAge
                             THEN [run[r] EXCEPT !.age = run[r].age + 1] ELSE run[r]]
  /\ UNCHANGED <<workflowBound, currentRun, task, instance>>

-----------------------------------------------------------------------------
(* The collection workflow *)

StepSucceeds(r) ==
  LET step == instance[r].step IN
  /\ step \in Collections
  /\ IF step = "cost-data-collection"
       THEN /\ instance' = [instance EXCEPT ![r] = [step |-> "resource-inventory-collection", tries |-> 0]]
            /\ task' = [task EXCEPT ![r][step] = "ok",
                                    ![r]["resource-inventory-collection"] = "running"]
       ELSE /\ instance' = [instance EXCEPT ![r].step = "complete"]
            /\ task' = [task EXCEPT ![r][step] = "ok"]
  /\ UNCHANGED <<workflowBound, currentRun, run>>

\* A step that throws or times out is retried; then the instance is in error, and
\* the steps after it never run.
StepFails(r) ==
  LET step == instance[r].step IN
  /\ step \in Collections
  /\ IF instance[r].tries < Retries
       THEN instance' = [instance EXCEPT ![r].tries = instance[r].tries + 1] /\ UNCHANGED task
       ELSE /\ instance' = [instance EXCEPT ![r].step = "errored"]
            /\ task' = [task EXCEPT ![r][step] = "failed"]
  /\ UNCHANGED <<workflowBound, currentRun, run>>

WorkflowStep(r) == StepSucceeds(r) \/ StepFails(r)

-----------------------------------------------------------------------------

RunStep(r) ==
  \/ CreateInstance(r)
  \/ \E t \in Task, outcome \in {"ok", "failed"} : TaskEnds(r, t, outcome)
  \/ StartPhase2(r)
  \/ Complete(r)

Next ==
  \/ \E r \in Run : Accept(r) \/ RunStep(r) \/ Forget(r) \/ WorkflowStep(r)
  \/ Evict
  \/ Tick

Spec == Init /\ [][Next]_vars

\* Ticks come, time passes, and the engine bounds the steps of an instance by their
\* timeout.  Nothing makes a task settle: it may be wedged for ever, so the fairness
\* of Forget only says that names for further runs do not run out.
FairSpec ==
  /\ Spec
  /\ WF_vars(Tick)
  /\ WF_vars(\E r \in Run : Accept(r))
  /\ \A r \in Run : WF_vars(WorkflowStep(r)) /\ WF_vars(Forget(r))

-----------------------------------------------------------------------------
(* Properties *)

Outcome == {"none", "running", "ok", "failed"}

TypeOK ==
  /\ workflowBound \in BOOLEAN
  /\ currentRun \in Run \cup {NoRun}
  /\ run \in [Run -> [pc     : {"idle", "create", "phase1", "phase2"},
                      age    : 0..MaxAge,
                      answer : {"none", "completed", "failed", "lost"}]]
  /\ task \in [Run -> [Task -> Outcome]]
  /\ instance \in [Run -> [step  : Collections \cup {"none", "complete", "errored"},
                           tries : 0..Retries]]

\* Two runs overlap only when the older is wedged: whatever ends in whatever order, a
\* run younger than the maximum age holds the guard, so no third run joins it.
YoungRunHoldsTheGuard ==
  \A r \in Run : Live(r) /\ run[r].age < MaxAge => currentRun = r

\* A failing task keeps no other from running: when a run was answered and its instance
\* has ended, every task has been handled.  One exception: a cost collection that fails
\* for good as a step of the workflow ends the instance, and the inventory collection
\* after it.  (A run whose instance could not be created handles none.)
EveryTaskIsHandled ==
  \A r \in Run :
    /\ run[r].answer \in {"completed", "failed"}
    /\ instance[r].step \notin Collections
    /\ \E t \in Task : task[r][t] # "none"
    => \A t \in Task :
         \/ task[r][t] # "none"
         \/ /\ workflowBound
            /\ t = "resource-inventory-collection"
            /\ task[r]["cost-data-collection"] = "failed"

\* The pipeline never stops for good, even if no task ever settles again.
PipelineNeverStops == []<>(\E r \in Run : Live(r) /\ run[r].age = 0)
=============================================================================
