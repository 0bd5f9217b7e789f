--------------------------- MODULE BackgroundProofs --------------------------
(***************************************************************************)
(* The cron and the turns of data collection.                              *)
(*                                                                         *)
(* However many runs, whatever the maximum age, and whether or not the     *)
(* workflow is bound: two runs overlap only when the older is past the     *)
(* maximum age, and no task of a run that was answered is forgotten.       *)
(*                                                                         *)
(* However many principals and sweeps at once, whatever the batch: nobody  *)
(* that waits for a turn is overtaken, and no row has a success clock but  *)
(* one that was tried.                                                     *)
(***************************************************************************)
EXTENDS CronTasks, Collection, FiniteSetTheorems, SequenceTheorems, TLAPS

RunState == [pc     : {"idle", "create", "phase1", "phase2"},
             age    : 0..MaxAge,
             answer : {"none", "completed", "failed", "lost"}]

InstanceState == [step  : Collections \cup {"none", "complete", "errored"},
                  tries : 0..Retries]

-----------------------------------------------------------------------------
(* CronTasks: types *)

LEMMA StartedType ==
  ASSUME NEW o \in [Task -> Outcome], NEW tasks
  PROVE  Started(o, tasks) \in [Task -> Outcome]
BY DEF Started, Outcome

LEMMA NotStartedType == NotStarted \in [Task -> Outcome]
BY DEF NotStarted, Outcome

LEMMA PhaseTasks == Phase1 \subseteq Task /\ Phase2 \subseteq Task
BY DEF Phase1, Phase2, Task, Cleanups, Collections

LEMMA AnswerType ==
  ASSUME TypeOK, NEW r \in Run, NEW a \in {"completed", "failed"}, Answer(r, a)
  PROVE  /\ run' \in [Run -> RunState]
         /\ currentRun' \in Run \cup {NoRun}
BY ZenonT(40) DEF TypeOK, Answer, Release, RunState

LEMMA TypeInit == Init => TypeOK
BY CronAssumption, NotStartedType DEF Init, TypeOK, NoInstance

LEMMA TypeNext == TypeOK /\ [Next]_vars => TypeOK'
<1> SUFFICES ASSUME TypeOK, [Next]_vars PROVE TypeOK'
  OBVIOUS
<1> USE CronAssumption
<1>1. ASSUME NEW r \in Run, Accept(r) PROVE TypeOK'
  BY SMTT(30), <1>1, NotStartedType, StartedType DEF Accept, TypeOK, NoInstance
<1>2. ASSUME NEW r \in Run, CreateInstance(r) PROVE TypeOK'
  <2>0. UNCHANGED workflowBound
    BY <1>2 DEF CreateInstance
  <2>1. CASE Answer(r, "failed") /\ UNCHANGED <<task, instance>>
    BY <2>0, <2>1, AnswerType DEF TypeOK, RunState
  <2>2. CASE /\ instance' = [instance EXCEPT ![r].step = "cost-data-collection"]
             /\ task' = [task EXCEPT ![r] = Started(task[r], Phase1 \cup {"cost-data-collection"})]
             /\ run' = [run EXCEPT ![r].pc = "phase1"]
             /\ UNCHANGED currentRun
    <3>1. instance' \in [Run -> InstanceState]
      BY <2>2 DEF TypeOK, InstanceState, Collections
    <3>2. task' \in [Run -> [Task -> Outcome]]
      BY <2>2, StartedType DEF TypeOK
    <3>3. run' \in [Run -> RunState]
      BY ZenonT(40), <2>2 DEF TypeOK, RunState
    <3>. QED
      BY <2>0, <2>2, <3>1, <3>2, <3>3 DEF TypeOK, RunState, InstanceState
  <2>. QED
    BY <1>2, <2>1, <2>2 DEF CreateInstance
<1>3. ASSUME NEW r \in Run, NEW t \in Task, NEW o \in {"ok", "failed"}, TaskEnds(r, t, o)
      PROVE  TypeOK'
  <2>1. task' \in [Run -> [Task -> Outcome]]
    BY <1>3 DEF TaskEnds, TypeOK, Outcome
  <2>. QED
    BY <1>3, <2>1 DEF TaskEnds, TypeOK
<1>4. ASSUME NEW r \in Run, StartPhase2(r) PROVE TypeOK'
  BY ZenonT(40), <1>4, StartedType DEF StartPhase2, TypeOK
<1>5. ASSUME NEW r \in Run, Complete(r) PROVE TypeOK'
  <2>1. PICK a \in {"completed", "failed"} : Answer(r, a)
    BY <1>5 DEF Complete
  <2>. QED
    BY <1>5, <2>1, AnswerType DEF Complete, TypeOK, RunState
<1>6. CASE Evict
  <2>1. run' \in [Run -> RunState]
    BY <1>6 DEF Evict, TypeOK, RunState
  <2>. QED
    BY <1>6, <2>1 DEF Evict, TypeOK, RunState
<1>7. ASSUME NEW r \in Run, Forget(r) PROVE TypeOK'
  BY ZenonT(40), <1>7 DEF Forget, TypeOK
<1>8. CASE Tick
  <2>1. ASSUME NEW r \in Run PROVE run'[r] \in RunState
    <3>1. run[r] \in RunState
      BY DEF TypeOK, RunState
    <3>2. run[r].age < MaxAge => run[r].age + 1 \in 0..MaxAge
      BY <3>1 DEF RunState
    <3>. QED
      BY <1>8, <3>1, <3>2 DEF Tick, RunState
  <2>2. run' \in [Run -> RunState]
    BY <1>8, <2>1 DEF Tick
  <2>. QED
    BY <1>8, <2>2 DEF Tick, TypeOK, RunState
<1>9. ASSUME NEW r \in Run, StepSucceeds(r) PROVE TypeOK'
  <2>1. CASE instance[r].step = "cost-data-collection"
    <3>1. instance' = [instance EXCEPT ![r] = [step |-> "resource-inventory-collection", tries |-> 0]]
      BY <1>9, <2>1 DEF StepSucceeds
    <3>2. instance' \in [Run -> InstanceState]
      BY <3>1 DEF TypeOK, InstanceState, Collections
    <3>3. task' = [task EXCEPT ![r]["cost-data-collection"] = "ok",
                               ![r]["resource-inventory-collection"] = "running"]
      BY <1>9, <2>1 DEF StepSucceeds
    <3>4. task' \in [Run -> [Task -> Outcome]]
      BY <3>3 DEF TypeOK, Collections, Task, Outcome
    <3>. QED
      BY <1>9, <3>2, <3>4 DEF StepSucceeds, TypeOK, InstanceState
  <2>2. CASE instance[r].step # "cost-data-collection"
    <3>1. instance' = [instance EXCEPT ![r].step = "complete"]
      BY <1>9, <2>2 DEF StepSucceeds
    <3>2. instance' \in [Run -> InstanceState]
      BY <3>1 DEF TypeOK, InstanceState
    <3>3. task' = [task EXCEPT ![r][instance[r].step] = "ok"] /\ instance[r].step \in Task
      BY <1>9, <2>2 DEF StepSucceeds, Task
    <3>4. task' \in [Run -> [Task -> Outcome]]
      BY <3>3 DEF TypeOK, Outcome
    <3>. QED
      BY <1>9, <3>2, <3>4 DEF StepSucceeds, TypeOK, InstanceState
  <2>. QED
    BY <2>1, <2>2
<1>10. ASSUME NEW r \in Run, StepFails(r) PROVE TypeOK'
  <2>1. CASE instance[r].tries < Retries
    <3>1. instance' = [instance EXCEPT ![r].tries = instance[r].tries + 1] /\ UNCHANGED task
      BY <1>10, <2>1 DEF StepFails
    <3>2. instance[r].tries + 1 \in 0..Retries
      BY <2>1 DEF TypeOK
    <3>3. instance' \in [Run -> InstanceState]
      BY <3>1, <3>2 DEF TypeOK, InstanceState
    <3>. QED
      BY <1>10, <3>1, <3>3 DEF StepFails, TypeOK, InstanceState
  <2>2. CASE ~(instance[r].tries < Retries)
    <3>1. instance' = [instance EXCEPT ![r].step = "errored"]
      BY <1>10, <2>2 DEF StepFails
    <3>2. instance' \in [Run -> InstanceState]
      BY <3>1 DEF TypeOK, InstanceState
    <3>3. task' = [task EXCEPT ![r][instance[r].step] = "failed"] /\ instance[r].step \in Task
      BY <1>10, <2>2 DEF StepFails, Task
    <3>4. task' \in [Run -> [Task -> Outcome]]
      BY <3>3 DEF TypeOK, Outcome
    <3>. QED
      BY <1>10, <3>2, <3>4 DEF StepFails, TypeOK, InstanceState
  <2>. QED
    BY <2>1, <2>2
<1>11. CASE UNCHANGED vars
  BY <1>11 DEF vars, TypeOK
<1>. QED
  BY <1>1, <1>2, <1>3, <1>4, <1>5, <1>6, <1>7, <1>8, <1>9, <1>10, <1>11
  DEF Next, RunStep, WorkflowStep

\* The guard, the runs and the instances keep their types: no tick leaves a run in
\* two phases, no age passes the maximum.
THEOREM TypeCorrect == Spec => []TypeOK
BY TypeInit, TypeNext, PTL DEF Spec

-----------------------------------------------------------------------------
(* CronTasks: the guard *)

LEMMA GuardNext ==
  ASSUME TypeOK, YoungRunHoldsTheGuard, [Next]_vars
  PROVE  YoungRunHoldsTheGuard'
<1> USE CronAssumption
<1> SUFFICES ASSUME NEW s \in Run, Live(s)', run'[s].age < MaxAge
             PROVE  currentRun' = s
  BY DEF YoungRunHoldsTheGuard
<1>1. ASSUME NEW r \in Run, Accept(r) PROVE currentRun' = s
  <2>1. CASE s = r
    BY <1>1, <2>1 DEF Accept
  <2>2. CASE s # r
    <3>1. Live(s) /\ run[s].age < MaxAge
      BY <1>1, <2>2 DEF Accept, TypeOK, Live
    <3>2. currentRun = s /\ currentRun # NoRun
      BY <3>1 DEF YoungRunHoldsTheGuard
    <3>. QED
      BY <1>1, <3>1, <3>2 DEF Accept, GuardIsHeld
  <2>. QED
    BY <2>1, <2>2
<1>2. ASSUME NEW r \in Run, NEW a, Answer(r, a) PROVE currentRun' = s
  <2>1. s # r /\ run'[s] = run[s]
    BY <1>2 DEF Answer, TypeOK, Live
  <2>2. currentRun = s
    BY <2>1 DEF YoungRunHoldsTheGuard, Live
  <2>. QED
    BY <1>2, <2>1, <2>2 DEF Answer, Release
<1>3. ASSUME NEW r \in Run, NEW pc, run' = [run EXCEPT ![r].pc = pc], Live(r),
             currentRun' = currentRun
      PROVE  currentRun' = s
  <2>1. Live(s) /\ run'[s].age = run[s].age
    BY <1>3 DEF TypeOK, Live
  <2>. QED
    BY <1>3, <2>1 DEF YoungRunHoldsTheGuard
<1>4. CASE Evict
  BY <1>4 DEF Evict, TypeOK, Live
<1>5. ASSUME NEW r \in Run, Forget(r) PROVE currentRun' = s
  BY <1>5 DEF Forget, TypeOK, Live, YoungRunHoldsTheGuard
<1>6. CASE Tick
  <2>1. Live(s) /\ run[s].age < MaxAge
    BY <1>6 DEF Tick, TypeOK, Live
  <2>. QED
    BY <1>6, <2>1 DEF Tick, YoungRunHoldsTheGuard
<1>7. ASSUME UNCHANGED <<currentRun, run>> PROVE currentRun' = s
  BY <1>7 DEF YoungRunHoldsTheGuard, Live
<1>8. ASSUME NEW r \in Run, CreateInstance(r) PROVE currentRun' = s
  BY <1>2, <1>3, <1>8 DEF CreateInstance, Live
<1>9. ASSUME NEW r \in Run, RunStep(r) PROVE currentRun' = s
  <2>1. CASE \E t \in Task, o \in {"ok", "failed"} : TaskEnds(r, t, o)
    BY <1>7, <2>1 DEF TaskEnds
  <2>2. CASE StartPhase2(r)
    BY <1>3, <2>2 DEF StartPhase2, Live
  <2>3. CASE Complete(r)
    BY <1>2, <2>3 DEF Complete
  <2>. QED
    BY <1>8, <1>9, <2>1, <2>2, <2>3 DEF RunStep
<1>10. ASSUME NEW r \in Run, WorkflowStep(r) PROVE currentRun' = s
  BY <1>7, <1>10 DEF WorkflowStep, StepSucceeds, StepFails
<1>11. CASE UNCHANGED vars
  BY <1>7, <1>11 DEF vars
<1>. QED
  BY <1>1, <1>4, <1>5, <1>6, <1>9, <1>10, <1>11 DEF Next

\* A run younger than the maximum age is alone of its kind and holds the guard, even
\* when the runs it replaced end, or an eviction empties the guard.
THEOREM OnlyWedgedRunsOverlap == Spec => []YoungRunHoldsTheGuard
<1>1. Init => YoungRunHoldsTheGuard
  BY DEF Init, YoungRunHoldsTheGuard, Live
<1>. QED
  BY <1>1, TypeInit, TypeNext, GuardNext, PTL DEF Spec

-----------------------------------------------------------------------------
(* CronTasks: the tasks of a run *)

Begun(r, tasks) == \A t \in tasks : task[r][t] # "none"

WithInstance(r) == workflowBound => instance[r].step # "none"

\* An instance has begun the collections of the steps it reached.
InstanceTasks(r) ==
  /\ instance[r].step # "none" => workflowBound /\ task[r]["cost-data-collection"] # "none"
  /\ instance[r].step \in {"resource-inventory-collection", "complete"}
       => task[r]["resource-inventory-collection"] # "none"
  /\ instance[r].step = "errored"
       => \/ task[r]["resource-inventory-collection"] # "none"
          \/ task[r]["cost-data-collection"] = "failed"

\* A run has begun the tasks of the phases it reached.
RunTasks(r) ==
  /\ run[r].answer # "none" => run[r].pc = "idle"
  /\ run[r].pc = "create" => workflowBound /\ task[r] = NotStarted /\ instance[r].step = "none"
  /\ run[r].pc = "phase1" => Begun(r, Phase1) /\ WithInstance(r)
  /\ run[r].pc = "phase2" => Begun(r, Inline) /\ WithInstance(r)
  /\ run[r].answer \in {"completed", "failed"}
       => \/ task[r] = NotStarted /\ instance[r].step = "none"
          \/ Begun(r, Inline) /\ WithInstance(r)

TasksInv == \A r \in Run : RunTasks(r) /\ InstanceTasks(r)

LEMMA TaskNames ==
  /\ Task = Phase1 \cup Cleanups \cup Collections
  /\ "cost-data-collection" \in Collections /\ "resource-inventory-collection" \in Collections
  /\ Collections = {"cost-data-collection", "resource-inventory-collection"}
  /\ Inline \subseteq Task
  /\ workflowBound => Inline = Task \ Collections
  /\ ~workflowBound => Inline = Task
BY DEF Task, Phase1, Phase2, Cleanups, Collections, Inline

\* What is said of a run looks at nothing but its own records, and not at its age.
LEMMA RunTasksKept ==
  ASSUME NEW s \in Run, RunTasks(s), InstanceTasks(s),
         task'[s] = task[s], instance'[s] = instance[s], UNCHANGED workflowBound,
         run'[s].pc = run[s].pc, run'[s].answer = run[s].answer
  PROVE  RunTasks(s)' /\ InstanceTasks(s)'
<1>1. Inline' = Inline
  BY DEF Inline, Phase1, Phase2, Cleanups, Collections
<1>. QED
  BY <1>1 DEF RunTasks, InstanceTasks, Begun, WithInstance, NotStarted

\* A run that is lost is asked for nothing more.
LEMMA RunTasksLost ==
  ASSUME NEW s \in Run, InstanceTasks(s),
         task'[s] = task[s], instance'[s] = instance[s], UNCHANGED workflowBound,
         run'[s].pc = "idle", run'[s].answer = "lost"
  PROVE  RunTasks(s)' /\ InstanceTasks(s)'
BY DEF RunTasks, InstanceTasks

LEMMA TasksInit == Init => TasksInv
<1> SUFFICES ASSUME Init, NEW r \in Run PROVE RunTasks(r) /\ InstanceTasks(r)
  BY DEF TasksInv
<1>1. run[r] = [pc |-> "idle", age |-> 0, answer |-> "none"] /\ instance[r] = NoInstance
  BY DEF Init
<1>. QED
  BY <1>1 DEF RunTasks, InstanceTasks, NoInstance

\* An instance that takes a step: the outcome it records is of a collection.
LEMMA TasksStep ==
  ASSUME TypeOK, NEW r \in Run, RunTasks(r), InstanceTasks(r), WorkflowStep(r)
  PROVE  RunTasks(r)' /\ InstanceTasks(r)'
<1>1. instance[r].step \in Collections /\ workflowBound
  BY DEF WorkflowStep, StepSucceeds, StepFails, InstanceTasks, Collections
<1>2. UNCHANGED <<workflowBound, currentRun, run>> /\ Inline' = Inline
  BY DEF WorkflowStep, StepSucceeds, StepFails, Inline, Phase1, Phase2, Cleanups, Collections
<1>3. /\ instance'[r].step # "none"
      /\ \A t \in Task \ Collections : task'[r][t] = task[r][t]
      /\ \A t \in Task : task[r][t] # "none" => task'[r][t] # "none"
  <2>1. CASE StepSucceeds(r)
    BY <1>1, <2>1, TaskNames DEF StepSucceeds, TypeOK
  <2>2. CASE StepFails(r)
    BY <1>1, <2>2, TaskNames DEF StepFails, TypeOK
  <2>. QED
    BY <2>1, <2>2 DEF WorkflowStep
<1>4. InstanceTasks(r)'
  <2>1. CASE StepSucceeds(r)
    BY <1>1, <1>2, <2>1, TaskNames DEF StepSucceeds, TypeOK, InstanceTasks
  <2>2. CASE StepFails(r)
    BY <1>1, <1>2, <2>2, TaskNames DEF StepFails, TypeOK, InstanceTasks
  <2>. QED
    BY <2>1, <2>2 DEF WorkflowStep
<1>5. RunTasks(r)'
  <2>1. instance[r].step # "none" /\ run[r].pc # "create"
    BY <1>1 DEF RunTasks, Collections
  <2>2. \A tasks \in SUBSET Task : Begun(r, tasks) => Begun(r, tasks)'
    BY <1>3 DEF Begun
  <2>3. Inline \subseteq Task /\ Inline \cap Collections = {} /\ Phase1 \subseteq Task
    BY <1>1, TaskNames, PhaseTasks
  <2>. QED
    BY <1>2, <1>3, <2>1, <2>2, <2>3 DEF RunTasks, WithInstance
<1>. QED
  BY <1>4, <1>5

LEMMA TasksRunStep ==
  ASSUME TypeOK, NEW r \in Run, RunTasks(r), InstanceTasks(r), RunStep(r)
  PROVE  RunTasks(r)' /\ InstanceTasks(r)'
<1>0. UNCHANGED workflowBound /\ Inline' = Inline
  BY DEF RunStep, CreateInstance, TaskEnds, StartPhase2, Complete, Inline, Phase1, Phase2,
         Cleanups, Collections
<1>1. CASE CreateInstance(r)
  <2>1. CASE Answer(r, "failed") /\ UNCHANGED <<task, instance>>
    BY <1>0, <1>1, <2>1 DEF CreateInstance, Answer, TypeOK, RunTasks, InstanceTasks, NotStarted
  <2>2. CASE /\ instance' = [instance EXCEPT ![r].step = "cost-data-collection"]
             /\ task' = [task EXCEPT ![r] = Started(task[r], Phase1 \cup {"cost-data-collection"})]
             /\ run' = [run EXCEPT ![r].pc = "phase1"]
    <3>1. run'[r].pc = "phase1" /\ run'[r].answer = "none"
      BY <1>1, <2>2 DEF CreateInstance, TypeOK, RunTasks
    <3>2. instance'[r].step = "cost-data-collection" /\ workflowBound
      BY <1>1, <2>2 DEF CreateInstance, TypeOK, RunTasks
    <3>3. \A t \in Phase1 \cup {"cost-data-collection"} : task'[r][t] = "running"
      BY <2>2, TaskNames DEF TypeOK, Started
    <3>. QED
      BY <1>0, <3>1, <3>2, <3>3 DEF RunTasks, InstanceTasks, Begun, WithInstance
  <2>. QED
    BY <1>1, <2>1, <2>2 DEF CreateInstance
<1>2. CASE \E t \in Task, o \in {"ok", "failed"} : TaskEnds(r, t, o)
  <2>1. PICK t \in Task, o \in {"ok", "failed"} : TaskEnds(r, t, o)
    BY <1>2
  <2>2. /\ UNCHANGED <<run, instance>>
        /\ run[r].pc \in {"phase1", "phase2"} /\ run[r].answer = "none"
        /\ \A u \in Task : task'[r][u] = IF u = t THEN o ELSE task[r][u]
        /\ workflowBound => t \notin Collections
    BY <2>1, TaskNames DEF TaskEnds, TypeOK, RunTasks, InlineTasks, Inline, Task
  <2>3. \A tasks \in SUBSET Task : Begun(r, tasks) => Begun(r, tasks)'
    BY <2>2 DEF Begun
  <2>. QED
    BY <1>0, <2>2, <2>3, TaskNames, PhaseTasks DEF RunTasks, InstanceTasks, WithInstance
<1>3. CASE StartPhase2(r)
  <2>1. /\ run'[r].pc = "phase2" /\ run'[r].answer = "none" /\ UNCHANGED instance
        /\ Begun(r, Phase1) /\ WithInstance(r)
    BY <1>3 DEF StartPhase2, TypeOK, RunTasks
  <2>2. \A u \in Task : task'[r][u] = IF u \in Phase2 THEN "running" ELSE task[r][u]
    BY <1>3 DEF StartPhase2, TypeOK, Started
  <2>3. Begun(r, Inline)'
    BY <1>0, <2>1, <2>2, TaskNames DEF Begun, Inline
  <2>4. InstanceTasks(r)'
    BY <1>0, <2>1, <2>2, TaskNames DEF InstanceTasks, Inline
  <2>. QED
    BY <1>0, <2>1, <2>3, <2>4 DEF RunTasks, WithInstance
<1>4. CASE Complete(r)
  <2>1. /\ UNCHANGED <<task, instance>> /\ run'[r].pc = "idle" /\ run[r].pc = "phase2"
        /\ run'[r].answer = IF \A t \in Inline : task[r][t] = "ok" THEN "completed" ELSE "failed"
    BY <1>4 DEF Complete, Answer, TypeOK
  <2>. QED
    BY <1>0, <2>1 DEF RunTasks, InstanceTasks, Begun, WithInstance
<1>. QED
  BY <1>1, <1>2, <1>3, <1>4 DEF RunStep

LEMMA TasksNext ==
  ASSUME TypeOK, TasksInv, [Next]_vars
  PROVE  TasksInv'
<1> SUFFICES ASSUME NEW s \in Run PROVE RunTasks(s)' /\ InstanceTasks(s)'
  BY DEF TasksInv
<1>0. RunTasks(s) /\ InstanceTasks(s)
  BY DEF TasksInv
<1>1. ASSUME NEW r \in Run, Accept(r) PROVE RunTasks(s)' /\ InstanceTasks(s)'
  <2>1. CASE s = r
    <3>1. /\ instance'[s].step = "none" /\ UNCHANGED workflowBound
          /\ run'[s].pc = IF workflowBound THEN "create" ELSE "phase1"
          /\ run'[s].answer = "none"
          /\ task'[s] = IF workflowBound THEN NotStarted ELSE Started(NotStarted, Phase1)
      BY <1>1, <2>1 DEF Accept, TypeOK, NoInstance
    <3>2. ~workflowBound => Begun(s, Phase1)'
      BY <3>1, PhaseTasks DEF Begun, Started
    <3>. QED
      BY <3>1, <3>2 DEF RunTasks, InstanceTasks, WithInstance, NotStarted
  <2>2. CASE s # r
    BY <1>0, <1>1, <2>2, RunTasksKept DEF Accept, TypeOK
  <2>. QED
    BY <2>1, <2>2
<1>2. ASSUME NEW r \in Run, RunStep(r) PROVE RunTasks(s)' /\ InstanceTasks(s)'
  <2>1. CASE s = r
    BY <1>0, <1>2, <2>1, TasksRunStep
  <2>2. CASE s # r
    <3>1. UNCHANGED workflowBound /\ task'[s] = task[s] /\ instance'[s] = instance[s]
          /\ run'[s] = run[s]
      BY <1>2, <2>2 DEF RunStep, CreateInstance, TaskEnds, StartPhase2, Complete, Answer, TypeOK
    <3>. QED
      BY <1>0, <3>1, RunTasksKept
  <2>. QED
    BY <2>1, <2>2
<1>3. ASSUME NEW r \in Run, Forget(r) PROVE RunTasks(s)' /\ InstanceTasks(s)'
  <2>1. CASE s = r
    BY <1>0, <1>3, <2>1, RunTasksLost DEF Forget, TypeOK
  <2>2. CASE s # r
    BY <1>0, <1>3, <2>2, RunTasksKept DEF Forget, TypeOK
  <2>. QED
    BY <2>1, <2>2
<1>4. ASSUME NEW r \in Run, WorkflowStep(r) PROVE RunTasks(s)' /\ InstanceTasks(s)'
  <2>1. CASE s = r
    BY <1>0, <1>4, <2>1, TasksStep
  <2>2. CASE s # r
    <3>1. UNCHANGED <<workflowBound, run>> /\ task'[s] = task[s] /\ instance'[s] = instance[s]
      BY <1>4, <2>2 DEF WorkflowStep, StepSucceeds, StepFails, TypeOK
    <3>. QED
      BY <1>0, <3>1, RunTasksKept
  <2>. QED
    BY <2>1, <2>2
<1>5. CASE Evict
  <2>1. CASE Live(s)
    BY <1>0, <1>5, <2>1, RunTasksLost DEF Evict
  <2>2. CASE ~Live(s)
    BY <1>0, <1>5, <2>2, RunTasksKept DEF Evict
  <2>. QED
    BY <2>1, <2>2
<1>6. CASE Tick
  <2>1. run'[s].pc = run[s].pc /\ run'[s].answer = run[s].answer
    BY <1>6 DEF Tick, TypeOK
  <2>. QED
    BY <1>0, <1>6, <2>1, RunTasksKept DEF Tick
<1>7. CASE UNCHANGED vars
  BY <1>0, <1>7, RunTasksKept DEF vars
<1>. QED
  BY <1>1, <1>2, <1>3, <1>4, <1>5, <1>6, <1>7 DEF Next

LEMMA TasksAlways == Spec => [](TypeOK /\ TasksInv)
BY TypeInit, TypeNext, TasksInit, TasksNext, PTL DEF Spec

LEMMA TasksAreHandled ==
  ASSUME TypeOK, TasksInv
  PROVE  EveryTaskIsHandled
<1> SUFFICES ASSUME NEW r \in Run, run[r].answer \in {"completed", "failed"},
                    instance[r].step \notin Collections,
                    NEW u \in Task, task[r][u] # "none",
                    NEW t \in Task, task[r][t] = "none"
             PROVE  /\ workflowBound /\ t = "resource-inventory-collection"
                    /\ task[r]["cost-data-collection"] = "failed"
  BY DEF EveryTaskIsHandled
<1>1. RunTasks(r) /\ InstanceTasks(r)
  BY DEF TasksInv
<1>2. task[r] # NotStarted
  BY DEF NotStarted
<1>3. Begun(r, Inline) /\ WithInstance(r)
  BY <1>1, <1>2 DEF RunTasks
<1>4. workflowBound /\ t \in Collections
  BY <1>3, TaskNames DEF Begun
<1>5. instance[r].step \in {"complete", "errored"}
  BY <1>3, <1>4 DEF TypeOK, WithInstance
<1>. QED
  BY <1>1, <1>4, <1>5, TaskNames DEF InstanceTasks

\* Whatever fails, whatever is evicted, and however runs overlap: when a run was answered
\* and its instance has ended, only the inventory collection may not have been handled,
\* and then because the cost collection before it failed for good.
THEOREM NoTaskIsForgotten == Spec => []EveryTaskIsHandled
BY TasksAlways, TasksAreHandled, PTL

-----------------------------------------------------------------------------
(* Collection: sequences *)

Distinct(s) == \A m, n \in 1..Len(s) : s[m] = s[n] => m = n

\* What is left when an element is taken from a sequence.
LEMMA TakenOut ==
  ASSUME NEW S, NEW s \in Seq(S), NEW n \in 1..Len(s)
  PROVE  /\ RemoveAt(s, n) \in Seq(S)
         /\ Len(RemoveAt(s, n)) = Len(s) - 1
         /\ \A i \in 1..Len(s) - 1 : RemoveAt(s, n)[i] = s[IF i < n THEN i ELSE i + 1]
<1> DEFINE head == SubSeq(s, 1, n - 1)
           tail == SubSeq(s, n + 1, Len(s))
<1>1. Len(s) \in Nat /\ \A i \in 1..Len(s) : s[i] \in S
  BY LenProperties, ElementOfSeq
<1>2. head \in Seq(S) /\ Len(head) = n - 1 /\ \A i \in 1..n - 1 : head[i] = s[i]
  <2>1. \A i \in 1..n - 1 : s[i] \in S
    BY <1>1
  <2>2. /\ head \in Seq(S)
        /\ Len(head) = IF 1 <= n - 1 THEN n - 1 - 1 + 1 ELSE 0
        /\ \A i \in 1..(n - 1 - 1 + 1) : head[i] = s[1 + i - 1]
    BY <1>1, <2>1, SubSeqProperties, n - 1 \in Int
  <2> HIDE DEF head
  <2> QED BY <1>1, <2>2
<1>3. tail \in Seq(S) /\ Len(tail) = Len(s) - n /\ \A i \in 1..Len(s) - n : tail[i] = s[i + n]
  <2>1. \A i \in n + 1..Len(s) : s[i] \in S
    BY <1>1
  <2>2. /\ tail \in Seq(S)
        /\ Len(tail) = IF n + 1 <= Len(s) THEN Len(s) - (n + 1) + 1 ELSE 0
        /\ \A i \in 1..(Len(s) - (n + 1) + 1) : tail[i] = s[n + 1 + i - 1]
    BY <1>1, <2>1, SubSeqProperties, n + 1 \in Int, Len(s) \in Int
  <2> HIDE DEF tail
  <2> QED BY <1>1, <2>2
<1>4. RemoveAt(s, n) = head \o tail
  BY DEF RemoveAt
<1> HIDE DEF head, tail
<1>5. /\ head \o tail \in Seq(S)
      /\ Len(head \o tail) = Len(head) + Len(tail)
      /\ \A i \in 1..Len(head) + Len(tail) :
           (head \o tail)[i] = IF i <= Len(head) THEN head[i] ELSE tail[i - Len(head)]
  BY <1>2, <1>3, ConcatProperties
<1>6. ASSUME NEW i \in 1..Len(s) - 1
      PROVE  (head \o tail)[i] = s[IF i < n THEN i ELSE i + 1]
  <2>1. CASE i < n
    BY <1>1, <1>2, <1>3, <1>5, <2>1
  <2>2. CASE ~(i < n)
    <3>1. i - (n - 1) \in 1..Len(s) - n /\ i - (n - 1) + n = i + 1 /\ ~(i <= n - 1)
      BY <1>1, <2>2
    <3>2. (head \o tail)[i] = tail[i - (n - 1)]
      <4>1. i \in 1..Len(head) + Len(tail)
        BY <1>1, <1>2, <1>3
      <4> QED BY <1>2, <1>5, <3>1, <4>1
    <3> QED BY <1>3, <2>2, <3>1, <3>2
  <2> QED BY <2>1, <2>2
<1>7. Len(head) + Len(tail) = Len(s) - 1
  BY <1>1, <1>2, <1>3
<1> QED BY <1>4, <1>5, <1>6, <1>7

\* A sequence that an element was put into.
LEMMA PutIn ==
  ASSUME NEW S, NEW s \in Seq(S), NEW n \in 1..Len(s) + 1, NEW e \in S
  PROVE  /\ InsertAt(s, n, e) \in Seq(S)
         /\ Len(InsertAt(s, n, e)) = Len(s) + 1
         /\ \A i \in 1..Len(s) + 1 :
              InsertAt(s, n, e)[i] = IF i = n THEN e ELSE s[IF i < n THEN i ELSE i - 1]
<1> DEFINE head == SubSeq(s, 1, n - 1)
           tail == SubSeq(s, n, Len(s))
<1>1. Len(s) \in Nat /\ \A i \in 1..Len(s) : s[i] \in S
  BY LenProperties, ElementOfSeq
<1>2. head \in Seq(S) /\ Len(head) = n - 1 /\ \A i \in 1..n - 1 : head[i] = s[i]
  <2>1. \A i \in 1..n - 1 : s[i] \in S
    BY <1>1
  <2>2. /\ head \in Seq(S)
        /\ Len(head) = IF 1 <= n - 1 THEN n - 1 - 1 + 1 ELSE 0
        /\ \A i \in 1..(n - 1 - 1 + 1) : head[i] = s[1 + i - 1]
    BY <1>1, <2>1, SubSeqProperties, n - 1 \in Int
  <2> HIDE DEF head
  <2> QED BY <1>1, <2>2
<1>3. tail \in Seq(S) /\ Len(tail) = Len(s) - n + 1 /\ \A i \in 1..Len(s) - n + 1 : tail[i] = s[i + n - 1]
  <2>1. \A i \in n..Len(s) : s[i] \in S
    BY <1>1
  <2>2. /\ tail \in Seq(S)
        /\ Len(tail) = IF n <= Len(s) THEN Len(s) - n + 1 ELSE 0
        /\ \A i \in 1..(Len(s) - n + 1) : tail[i] = s[n + i - 1]
    BY <1>1, <2>1, SubSeqProperties, n \in Int, Len(s) \in Int
  <2> HIDE DEF tail
  <2> QED BY <1>1, <2>2
<1>4. InsertAt(s, n, e) = head \o <<e>> \o tail
  BY DEF InsertAt
<1>5. <<e>> \in Seq(S) /\ Len(<<e>>) = 1 /\ <<e>>[1] = e
  OBVIOUS
<1> HIDE DEF head, tail
<1> DEFINE front == head \o <<e>>
<1>6. front \in Seq(S) /\ Len(front) = n /\ \A i \in 1..n : front[i] = IF i = n THEN e ELSE s[i]
  <2>1. /\ front \in Seq(S)
        /\ Len(front) = Len(head) + Len(<<e>>)
        /\ \A i \in 1..Len(head) + Len(<<e>>) :
             front[i] = IF i <= Len(head) THEN head[i] ELSE <<e>>[i - Len(head)]
    BY <1>2, <1>5, ConcatProperties
  <2> HIDE DEF front
  <2>2. Len(head) + Len(<<e>>) = n
    BY <1>2, <1>5
  <2>3. ASSUME NEW i \in 1..n
        PROVE  front[i] = IF i = n THEN e ELSE s[i]
    <3>1. CASE i = n
      <4>1. i - Len(head) = 1 /\ ~(i <= Len(head))
        BY <1>2, <3>1
      <4> QED BY <1>5, <2>1, <2>2, <3>1, <4>1
    <3>2. CASE i # n
      <4>1. i \in 1..n - 1 /\ i <= Len(head)
        BY <1>2, <3>2
      <4> QED BY <1>2, <2>1, <2>2, <3>2, <4>1
    <3> QED BY <3>1, <3>2
  <2> QED BY <2>1, <2>2, <2>3
<1> HIDE DEF front
<1>7. /\ front \o tail \in Seq(S)
      /\ Len(front \o tail) = Len(front) + Len(tail)
      /\ \A i \in 1..Len(front) + Len(tail) :
           (front \o tail)[i] = IF i <= Len(front) THEN front[i] ELSE tail[i - Len(front)]
  BY <1>3, <1>6, ConcatProperties
<1>8. Len(front) + Len(tail) = Len(s) + 1
  BY <1>1, <1>3, <1>6
<1>9. ASSUME NEW i \in 1..Len(s) + 1
      PROVE  (front \o tail)[i] = IF i = n THEN e ELSE s[IF i < n THEN i ELSE i - 1]
  <2>1. CASE i <= n
    BY <1>6, <1>7, <1>8, <2>1
  <2>2. CASE ~(i <= n)
    <3>1. i - n \in 1..Len(s) - n + 1 /\ i - n + n - 1 = i - 1
      BY <1>1, <2>2
    <3> QED BY <1>3, <1>6, <1>7, <1>8, <2>2, <3>1
  <2> QED BY <2>1, <2>2
<1>10. InsertAt(s, n, e) = front \o tail
  BY <1>4 DEF front
<1> QED BY <1>7, <1>8, <1>9, <1>10

-----------------------------------------------------------------------------
(* Collection: the order *)

LEMMA TurnIsKnown ==
  ASSUME order \in Seq(Principal), NEW p \in Configured
  PROVE  Turn(p) \in 1..Len(order) /\ order[Turn(p)] = p
BY LenProperties DEF Configured, ToSet, Turn

\* Without p the others are configured still, in the same order.
LEMMA OthersStay ==
  ASSUME order \in Seq(Principal), Distinct(order), NEW p \in Configured
  PROVE  /\ Without(p) \in Seq(Principal) /\ Distinct(Without(p))
         /\ Len(Without(p)) = Len(order) - 1
         /\ ToSet(Without(p)) = Configured \ {p}
         /\ \A i \in 1..Len(order) - 1 : Without(p)[i] = order[IF i < Turn(p) THEN i ELSE i + 1]
<1> DEFINE n == Turn(p)
           rest == Without(p)
<1>1. n \in 1..Len(order) /\ order[n] = p /\ Len(order) \in Nat
  BY TurnIsKnown, LenProperties
<1>2. /\ rest \in Seq(Principal)
      /\ Len(rest) = Len(order) - 1
      /\ \A i \in 1..Len(order) - 1 : rest[i] = order[IF i < n THEN i ELSE i + 1]
  BY <1>1, TakenOut DEF Without
<1> HIDE DEF n, rest
<1>3. Distinct(rest)
  <2> SUFFICES ASSUME NEW i \in 1..Len(rest), NEW j \in 1..Len(rest), rest[i] = rest[j]
               PROVE  i = j
    BY DEF Distinct
  <2> DEFINE at(k) == IF k < n THEN k ELSE k + 1
  <2>1. at(i) \in 1..Len(order) /\ at(j) \in 1..Len(order)
    BY <1>1, <1>2
  <2>2. order[at(i)] = order[at(j)]
    BY <1>2
  <2>3. at(i) = at(j)
    <3> HIDE DEF at
    <3> QED BY <2>1, <2>2 DEF Distinct
  <2> QED BY <1>1, <1>2, <2>3
<1>4. DOMAIN order = 1..Len(order) /\ DOMAIN rest = 1..Len(rest)
  BY <1>2, LenProperties
<1>5. ASSUME NEW q \in ToSet(rest) PROVE q \in Configured \ {p}
  <2>1. PICK i \in 1..Len(order) - 1 : q = rest[i]
    BY <1>2, <1>4 DEF ToSet
  <2> DEFINE j == IF i < n THEN i ELSE i + 1
  <2>2. j \in 1..Len(order) /\ j # n
    BY <1>1
  <2>3. q = order[j]
    BY <1>2, <2>1
  <2> HIDE DEF j
  <2> QED BY <1>1, <1>4, <2>2, <2>3 DEF Configured, ToSet, Distinct
<1>6. ASSUME NEW q \in Configured \ {p} PROVE q \in ToSet(rest)
  <2>1. PICK j \in 1..Len(order) : q = order[j]
    BY <1>4 DEF Configured, ToSet
  <2>2. j # n
    BY <1>1, <2>1
  <2> DEFINE i == IF j < n THEN j ELSE j - 1
  <2>3. i \in 1..Len(order) - 1 /\ (IF i < n THEN i ELSE i + 1) = j
    BY <1>1, <2>2
  <2> HIDE DEF i
  <2>4. rest[i] = q
    BY <1>2, <2>1, <2>3
  <2> QED BY <1>2, <1>4, <2>3, <2>4 DEF ToSet
<1>7. ToSet(rest) = Configured \ {p}
  BY <1>5, <1>6
<1> QED BY <1>2, <1>3, <1>7 DEF n, rest

\* What is taken from the order is taken from the due, and from the untried among them.
LEMMA LessOneFits ==
  ASSUME order \in Seq(Principal), NEW p \in Configured,
         due \in 0..Len(order), untried \in 0..due
  PROVE  LessOne(p, due) \in 0..Len(order) - 1 /\ LessOne(p, untried) \in 0..LessOne(p, due)
<1>1. Turn(p) \in 1..Len(order) /\ Len(order) \in Nat
  BY TurnIsKnown, LenProperties
<1> QED BY <1>1 DEF LessOne

\* The order after p was taken from it and put at the end.
LEMMA LastOfAll ==
  ASSUME order \in Seq(Principal), Distinct(order), NEW p \in Configured
  PROVE  LET next == Append(Without(p), p) IN
         /\ next \in Seq(Principal) /\ Distinct(next)
         /\ Len(next) = Len(order)
         /\ ToSet(next) = Configured
<1> DEFINE rest == Without(p)
           next == Append(rest, p)
<1>1. /\ rest \in Seq(Principal) /\ Distinct(rest)
      /\ Len(rest) = Len(order) - 1
      /\ ToSet(rest) = Configured \ {p}
  BY OthersStay
<1>2. p \in Principal /\ Len(order) \in Nat
  BY TurnIsKnown, ElementOfSeq, LenProperties
<1> HIDE DEF rest
<1>3. /\ next \in Seq(Principal)
      /\ Len(next) = Len(rest) + 1
      /\ \A i \in 1..Len(rest) : next[i] = rest[i]
      /\ next[Len(rest) + 1] = p
  BY <1>1, <1>2, AppendProperties
<1> HIDE DEF next
<1>4. DOMAIN next = 1..Len(rest) + 1 /\ DOMAIN rest = 1..Len(rest) /\ Len(rest) \in Nat
  BY <1>1, <1>3, LenProperties
<1>5. \A i \in 1..Len(rest) : rest[i] # p
  BY <1>1, <1>4 DEF ToSet
<1>6. Distinct(next)
  <2> SUFFICES ASSUME NEW i \in 1..Len(rest) + 1, NEW j \in 1..Len(rest) + 1, next[i] = next[j]
               PROVE  i = j
    BY <1>3 DEF Distinct
  <2>1. CASE i \in 1..Len(rest) /\ j \in 1..Len(rest)
    BY <1>1, <1>3, <2>1 DEF Distinct
  <2>2. CASE i = Len(rest) + 1 \/ j = Len(rest) + 1
    BY <1>3, <1>4, <1>5, <2>2
  <2> QED BY <1>4, <2>1, <2>2
<1>7. ToSet(next) = Configured
  <2>1. \A q \in ToSet(next) : q \in ToSet(rest) \/ q = p
    BY <1>3, <1>4 DEF ToSet
  <2>2. \A q \in ToSet(rest) : q \in ToSet(next)
    <3> SUFFICES ASSUME NEW i \in 1..Len(rest) PROVE rest[i] \in ToSet(next)
      BY <1>4 DEF ToSet
    <3>1. next[i] = rest[i] /\ i \in 1..Len(rest) + 1
      BY <1>3, <1>4
    <3> QED BY <1>4, <3>1 DEF ToSet
  <2>3. p \in ToSet(next)
    <3>1. Len(rest) + 1 \in 1..Len(rest) + 1
      BY <1>4
    <3> QED BY <1>3, <1>4, <3>1 DEF ToSet
  <2>4. ToSet(next) = ToSet(rest) \cup {p}
    BY <2>1, <2>2, <2>3
  <2> QED BY <1>1, <2>4
<1> QED BY <1>1, <1>2, <1>3, <1>6, <1>7 DEF next, rest

\* The order after a new p was put among those never tried.
LEMMA NewAmongUntried ==
  ASSUME order \in Seq(Principal), Distinct(order),
         NEW p \in Principal, p \notin Configured, NEW n \in 1..Len(order) + 1
  PROVE  LET next == InsertAt(order, n, p) IN
         /\ next \in Seq(Principal) /\ Distinct(next)
         /\ Len(next) = Len(order) + 1
         /\ ToSet(next) = Configured \cup {p}
<1> DEFINE next == InsertAt(order, n, p)
           at(i) == IF i < n THEN i ELSE i - 1
<1>1. /\ next \in Seq(Principal)
      /\ Len(next) = Len(order) + 1
      /\ \A i \in 1..Len(order) + 1 : next[i] = IF i = n THEN p ELSE order[at(i)]
  BY PutIn
<1> HIDE DEF next
<1>2. DOMAIN next = 1..Len(order) + 1 /\ DOMAIN order = 1..Len(order) /\ Len(order) \in Nat
  BY <1>1, LenProperties
<1>3. \A i \in 1..Len(order) + 1 : i # n => at(i) \in 1..Len(order)
  BY <1>2
<1>4. \A i, j \in 1..Len(order) + 1 : i # n /\ j # n /\ at(i) = at(j) => i = j
  BY <1>2
<1>5. \A i \in 1..Len(order) : order[i] # p /\ order[i] \in Configured
  BY <1>2 DEF Configured, ToSet
<1>6. \A j \in 1..Len(order) : \E i \in 1..Len(order) + 1 : i # n /\ at(i) = j
  <2> TAKE j \in 1..Len(order)
  <2>1. CASE j < n
    BY <1>2, <2>1
  <2>2. CASE ~(j < n)
    <3>1. j + 1 \in 1..Len(order) + 1 /\ j + 1 # n /\ at(j + 1) = j
      BY <1>2, <2>2
    <3> QED BY <3>1
  <2> QED BY <2>1, <2>2
<1> HIDE DEF at
<1>7. Distinct(next)
  <2> SUFFICES ASSUME NEW i \in 1..Len(order) + 1, NEW j \in 1..Len(order) + 1, next[i] = next[j]
               PROVE  i = j
    BY <1>1 DEF Distinct
  <2>1. CASE i = n \/ j = n
    BY <1>1, <1>3, <1>5, <2>1
  <2>2. CASE i # n /\ j # n
    BY <1>1, <1>3, <1>4, <2>2 DEF Distinct
  <2> QED BY <2>1, <2>2
<1>8. ToSet(next) = Configured \cup {p}
  <2>1. \A q \in ToSet(next) : q \in Configured \cup {p}
    BY <1>1, <1>2, <1>3, <1>5 DEF ToSet
  <2>2. \A q \in Configured : q \in ToSet(next)
    <3> SUFFICES ASSUME NEW j \in 1..Len(order) PROVE order[j] \in ToSet(next)
      BY <1>2 DEF Configured, ToSet
    <3>1. PICK i \in 1..Len(order) + 1 : i # n /\ at(i) = j
      BY <1>6
    <3> QED BY <1>1, <1>2, <3>1 DEF ToSet
  <2>3. p \in ToSet(next)
    BY <1>1, <1>2 DEF ToSet
  <2> QED BY <2>1, <2>2, <2>3
<1> QED BY <1>1, <1>7, <1>8 DEF next

-----------------------------------------------------------------------------
(* Collection: types *)

SweepState ==
  [pc    : {"idle", "collect", "attempt", "success", "failure"},
   batch : Seq(Principal),
   data  : BOOLEAN]

SweepsOK ==
  /\ sweep \in [Sweep -> SweepState]
  /\ \A s \in Sweep : sweep[s].pc = "idle" <=> sweep[s].batch = <<>>

TableOK ==
  /\ order \in Seq(Principal)
  /\ Distinct(order)
  /\ due \in 0..Len(order)
  /\ untried \in 0..due
  /\ collected \subseteq Configured

LEMMA TurnsTypeParts ==
  TurnsTypeOK <=> /\ TableOK /\ SweepsOK
                  /\ spent \in BOOLEAN
                  /\ edits \in 0..MaxEdits /\ days \in 0..MaxSpent
                  /\ remade \subseteq Principal
BY DEF TurnsTypeOK, TableOK, SweepsOK, SweepState, Distinct

LEMMA SweepsSettle ==
  ASSUME SweepsOK, NEW s \in Sweep, NEW state \in SweepState,
         state.pc = "idle" <=> state.batch = <<>>, Become(s, state)
  PROVE  SweepsOK'
BY DEF SweepsOK, Become

LEMMA IdleIsAState == IdleSweep \in SweepState /\ IdleSweep.pc = "idle" /\ IdleSweep.batch = <<>>
BY DEF IdleSweep, SweepState

\* What comes of a sweep that goes on: it is over, or has the rest of its batch.
LEMMA OnwardIsAState ==
  ASSUME SweepsOK, NEW s \in Sweep, sweep[s].pc # "idle"
  PROVE  /\ Onward(s) \in SweepState
         /\ Onward(s).pc = "idle" <=> Onward(s).batch = <<>>
<1>1. sweep[s].batch \in Seq(Principal) /\ sweep[s].batch # <<>>
  BY DEF SweepsOK, SweepState
<1>2. CASE Len(sweep[s].batch) = 1
  BY <1>2, IdleIsAState DEF Onward
<1>3. CASE Len(sweep[s].batch) # 1
  <2> DEFINE rest == Tail(sweep[s].batch)
  <2>1. rest \in Seq(Principal) /\ rest # <<>>
    <3>1. rest \in Seq(Principal) /\ Len(rest) = Len(sweep[s].batch) - 1
      BY <1>1, HeadTailProperties
    <3>2. Len(sweep[s].batch) \in Nat \ {0} /\ Len(<<>>) = 0
      BY <1>1, EmptySeq
    <3>3. Len(rest) # 0
      BY <1>3, <3>1, <3>2
    <3> QED BY <3>1, <3>2, <3>3
  <2>2. Onward(s) = [pc |-> "collect", batch |-> rest, data |-> FALSE]
    BY <1>3 DEF Onward
  <2> HIDE DEF rest
  <2> QED BY <2>1, <2>2 DEF SweepState
<1> QED BY <1>2, <1>3

LEMMA CurrentIsAPrincipal ==
  ASSUME SweepsOK, NEW s \in Sweep, sweep[s].pc # "idle"
  PROVE  Current(s) \in Principal
BY HeadTailProperties DEF SweepsOK, SweepState, Current

\* A sweep that stays with the principal it is at.
LEMMA StaysAtOne ==
  ASSUME SweepsOK, NEW s \in Sweep, sweep[s].pc # "idle",
         NEW pc \in {"attempt", "success", "failure"}, NEW data \in BOOLEAN
  PROVE  LET state == [sweep[s] EXCEPT !.pc = pc, !.data = data] IN
         /\ state \in SweepState
         /\ state.pc = "idle" <=> state.batch = <<>>
         /\ state.pc = pc /\ state.batch = sweep[s].batch /\ state.data = data
BY DEF SweepsOK, SweepState

LEMMA StaysAtOneAsItIs ==
  ASSUME SweepsOK, NEW s \in Sweep, sweep[s].pc # "idle",
         NEW pc \in {"attempt", "success", "failure"}
  PROVE  LET state == [sweep[s] EXCEPT !.pc = pc] IN
         /\ state \in SweepState
         /\ state.pc = "idle" <=> state.batch = <<>>
         /\ state.pc = pc /\ state.batch = sweep[s].batch /\ state.data = sweep[s].data
BY DEF SweepsOK, SweepState

LEMMA TableSame ==
  ASSUME TableOK, UNCHANGED <<order, due, untried, collected>>
  PROVE  TableOK'
BY DEF TableOK, Distinct, Configured

LEMMA SweepsSame == SweepsOK /\ UNCHANGED sweep => SweepsOK'
BY DEF SweepsOK

LEMMA AttemptTable ==
  ASSUME TableOK, NEW p \in Principal, UpdateLastAttemptTime(p), UNCHANGED collected
  PROVE  TableOK' /\ Configured' = Configured
<1>1. CASE p \in Configured
  <2> DEFINE next == Append(Without(p), p)
  <2>1. next \in Seq(Principal) /\ Distinct(next) /\ Len(next) = Len(order) /\ ToSet(next) = Configured
    BY <1>1, LastOfAll DEF TableOK
  <2>2. LessOne(p, due) \in 0..Len(order) - 1 /\ LessOne(p, untried) \in 0..LessOne(p, due)
    BY <1>1, LessOneFits DEF TableOK
  <2>3. order' = next /\ due' = LessOne(p, due) /\ untried' = LessOne(p, untried)
    BY <1>1 DEF UpdateLastAttemptTime
  <2>4. Len(order) \in Nat
    BY LenProperties DEF TableOK
  <2> HIDE DEF next
  <2>5. Configured' = Configured
    BY <2>1, <2>3 DEF Configured
  <2>6. due' \in 0..Len(order') /\ untried' \in 0..due'
    BY <2>1, <2>2, <2>3, <2>4
  <2>7. Distinct(order')
    BY <2>1, <2>3
  <2> QED BY <2>1, <2>3, <2>5, <2>6, <2>7 DEF TableOK, Distinct
<1>2. CASE p \notin Configured
  BY <1>2, TableSame DEF UpdateLastAttemptTime, Configured
<1> QED BY <1>1, <1>2

LEMMA CreateTable ==
  ASSUME TableOK, NEW p \in Principal, Create(p)
  PROVE  TableOK'
<1>1. PICK n \in 1..(untried + 1) : order' = InsertAt(order, n, p)
  BY DEF Create
<1>2. Len(order) \in Nat /\ n \in 1..Len(order) + 1
  BY LenProperties DEF TableOK
<1> DEFINE next == InsertAt(order, n, p)
<1>3. /\ next \in Seq(Principal) /\ Distinct(next)
      /\ Len(next) = Len(order) + 1 /\ ToSet(next) = Configured \cup {p}
  BY <1>2, NewAmongUntried DEF TableOK, Create
<1>4. order' = next /\ due' = due + 1 /\ untried' = untried + 1 /\ UNCHANGED collected
  BY <1>1 DEF Create
<1> HIDE DEF next
<1>5. due' \in 0..Len(order') /\ untried' \in 0..due'
  BY <1>2, <1>3, <1>4 DEF TableOK
<1>6. collected' \subseteq Configured'
  BY <1>3, <1>4 DEF TableOK, Configured
<1>7. Distinct(order')
  BY <1>3, <1>4
<1> QED BY <1>3, <1>4, <1>5, <1>6, <1>7 DEF TableOK, Distinct

LEMMA DeleteTable ==
  ASSUME TableOK, NEW p \in Principal, Delete(p)
  PROVE  TableOK'
<1> DEFINE next == Without(p)
<1>1. p \in Configured
  BY DEF Delete
<1>2. /\ next \in Seq(Principal) /\ Distinct(next)
      /\ Len(next) = Len(order) - 1 /\ ToSet(next) = Configured \ {p}
  BY <1>1, OthersStay DEF TableOK
<1>3. LessOne(p, due) \in 0..Len(order) - 1 /\ LessOne(p, untried) \in 0..LessOne(p, due)
  BY <1>1, LessOneFits DEF TableOK
<1>4. order' = next /\ due' = LessOne(p, due) /\ untried' = LessOne(p, untried) /\ collected' = collected \ {p}
  BY DEF Delete
<1> HIDE DEF next
<1>5. due' \in 0..Len(order') /\ untried' \in 0..due'
  BY <1>2, <1>3, <1>4
<1>6. collected' \subseteq Configured'
  BY <1>2, <1>4 DEF TableOK, Configured
<1>7. Distinct(order')
  BY <1>2, <1>4
<1> QED BY <1>2, <1>4, <1>5, <1>6, <1>7 DEF TableOK, Distinct

LEMMA TurnsTypeInit == TurnsInit => TurnsTypeOK
<1> SUFFICES ASSUME TurnsInit PROVE TurnsTypeOK
  OBVIOUS
<1> DEFINE n == Cardinality(Principal)
<1>1. n \in Nat
  BY CollectionAssumption, FS_CardinalityType
<1>2. order \in [1..n -> Principal] /\ \A i, j \in 1..n : i # j => order[i] # order[j]
  BY DEF TurnsInit, SetToSeqs
<1> HIDE DEF n
<1>3. order \in Seq(Principal) /\ Len(order) = n
  BY <1>1, <1>2
<1>4. TableOK
  BY <1>1, <1>2, <1>3 DEF TurnsInit, TableOK, Distinct
<1>5. SweepsOK
  BY IdleIsAState DEF TurnsInit, SweepsOK
<1>6. spent \in BOOLEAN /\ remade \subseteq Principal
  BY DEF TurnsInit
<1>7. edits \in 0..MaxEdits /\ days \in 0..MaxSpent
  BY CollectionAssumption DEF TurnsInit
<1> QED BY <1>4, <1>5, <1>6, <1>7, TurnsTypeParts

LEMMA BeginType ==
  ASSUME TableOK, SweepsOK, NEW s \in Sweep, Begin(s)
  PROVE  SweepsOK' /\ sweep'[s].data = FALSE
<1> DEFINE n == IF due < Batch THEN due ELSE Batch
           batch == SubSeq(order, 1, n)
           state == [pc |-> "collect", batch |-> batch, data |-> FALSE]
<1>1. n \in 1..Len(order) /\ Len(order) \in Nat
  BY CollectionAssumption, LenProperties DEF Begin, TableOK
<1>2. Become(s, state)
  BY DEF Begin
<1> HIDE DEF n
<1>3. batch \in Seq(Principal) /\ Len(batch) = n
  <2>1. \A i \in 1..n : order[i] \in Principal
    BY <1>1, ElementOfSeq DEF TableOK
  <2>2. batch \in Seq(Principal) /\ Len(batch) = IF 1 <= n THEN n - 1 + 1 ELSE 0
    BY <1>1, <2>1, SubSeqProperties
  <2> HIDE DEF batch
  <2> QED BY <1>1, <2>2
<1>4. batch # <<>>
  BY <1>1, <1>3, EmptySeq
<1> HIDE DEF batch
<1>5. state \in SweepState /\ state.pc # "idle" /\ state.batch # <<>> /\ state.data = FALSE
  BY <1>3, <1>4 DEF SweepState
<1> HIDE DEF state
<1>6. SweepsOK'
  BY <1>2, <1>5, SweepsSettle
<1>7. sweep'[s] = state
  BY <1>2 DEF Become, SweepsOK
<1> QED BY <1>5, <1>6, <1>7

LEMMA TurnsTypeNext == TurnsTypeOK /\ [TurnsNext]_turnsVars => TurnsTypeOK'
<1> SUFFICES ASSUME TurnsTypeOK, [TurnsNext]_turnsVars PROVE TurnsTypeOK'
  OBVIOUS
<1> DEFINE RestOK == /\ spent \in BOOLEAN
                     /\ edits \in 0..MaxEdits /\ days \in 0..MaxSpent
                     /\ remade \subseteq Principal
<1>0. TableOK /\ SweepsOK /\ RestOK
  BY TurnsTypeParts
<1>q. TableOK' /\ SweepsOK' /\ RestOK' => TurnsTypeOK'
  BY DEF TurnsTypeOK, TableOK, SweepsOK, SweepState, Distinct
<1>1. ASSUME NEW s \in Sweep, Begin(s) PROVE TurnsTypeOK'
  BY <1>0, <1>1, <1>q, BeginType, TableSame DEF Begin, tableVars
<1>2. ASSUME NEW s \in Sweep, Collect(s) PROVE TurnsTypeOK'
  <2>0. sweep[s].pc # "idle" /\ UNCHANGED <<tableVars, collected>>
    BY <1>2 DEF Collect
  <2>1. TableOK'
    BY <1>0, <2>0, TableSame DEF tableVars
  <2>2. CASE \E data \in BOOLEAN : Become(s, [sweep[s] EXCEPT !.pc = "attempt", !.data = data])
    <3>1. SweepsOK'
      BY <1>0, <2>0, <2>2, StaysAtOne, SweepsSettle
    <3> QED BY <1>0, <1>q, <2>0, <2>1, <3>1 DEF tableVars
  <2>3. CASE Become(s, [sweep[s] EXCEPT !.pc = "failure"])
    <3>1. SweepsOK'
      BY <1>0, <2>0, <2>3, StaysAtOneAsItIs, SweepsSettle
    <3> QED BY <1>0, <1>q, <2>0, <2>1, <2>3, <3>1 DEF tableVars
  <2>4. CASE Become(s, IdleSweep)
    BY <1>0, <1>q, <2>0, <2>1, <2>4, IdleIsAState, SweepsSettle DEF tableVars
  <2> QED BY <1>2, <2>2, <2>3, <2>4 DEF Collect
<1>3. ASSUME NEW s \in Sweep, AttemptStamped(s) PROVE TurnsTypeOK'
  <2>1. TableOK'
    BY <1>0, <1>3, AttemptTable, CurrentIsAPrincipal DEF AttemptStamped
  <2>2. SweepsOK'
    <3>1. Become(s, IF sweep[s].data THEN [sweep[s] EXCEPT !.pc = "success"] ELSE Onward(s)) /\ sweep[s].pc # "idle"
      BY <1>3 DEF AttemptStamped, AfterAttempt
    <3> QED BY <1>0, <3>1, StaysAtOneAsItIs, OnwardIsAState, SweepsSettle
  <2> QED BY <1>0, <1>3, <1>q, <2>1, <2>2 DEF AttemptStamped
<1>4. ASSUME NEW s \in Sweep, FailureStamped(s) PROVE TurnsTypeOK'
  <2>1. TableOK'
    BY <1>0, <1>4, AttemptTable, CurrentIsAPrincipal DEF FailureStamped
  <2>2. SweepsOK'
    BY <1>0, <1>4, OnwardIsAState, SweepsSettle DEF FailureStamped
  <2> QED BY <1>0, <1>4, <1>q, <2>1, <2>2 DEF FailureStamped
<1>5. ASSUME NEW s \in Sweep, StampFails(s) PROVE TurnsTypeOK'
  <2>1. TableOK'
    BY <1>0, <1>5, TableSame DEF StampFails, tableVars
  <2>2. SweepsOK'
    BY <1>0, <1>5, OnwardIsAState, SweepsSettle DEF StampFails
  <2> QED BY <1>0, <1>5, <1>q, <2>1, <2>2 DEF StampFails, tableVars
<1>6. ASSUME NEW s \in Sweep, SuccessStamped(s) PROVE TurnsTypeOK'
  <2>1. TableOK'
    BY <1>0, <1>6 DEF SuccessStamped, tableVars, UpdateLastCollectedTime, TableOK, Distinct, Configured
  <2>2. SweepsOK'
    BY <1>0, <1>6, OnwardIsAState, SweepsSettle DEF SuccessStamped
  <2> QED BY <1>0, <1>6, <1>q, <2>1, <2>2 DEF SuccessStamped, tableVars
<1>7. ASSUME NEW s \in Sweep, SuccessNotStamped(s) PROVE TurnsTypeOK'
  <2>1. TableOK'
    BY <1>0, <1>7, TableSame DEF SuccessNotStamped, tableVars
  <2>2. SweepsOK'
    BY <1>0, <1>7, StaysAtOneAsItIs, IdleIsAState, SweepsSettle DEF SuccessNotStamped
  <2> QED BY <1>0, <1>7, <1>q, <2>1, <2>2 DEF SuccessNotStamped, tableVars
<1>8. ASSUME NEW s \in Sweep, Die(s) PROVE TurnsTypeOK'
  BY <1>0, <1>8, <1>q, TableSame, IdleIsAState, SweepsSettle DEF Die, tableVars
<1>9. ASSUME NEW p \in Principal, Create(p) PROVE TurnsTypeOK'
  <2>1. RestOK'
    BY <1>0, <1>9, CollectionAssumption DEF Create
  <2> QED BY <1>0, <1>9, <1>q, <2>1, CreateTable, SweepsSame DEF Create
<1>10. ASSUME NEW p \in Principal, Delete(p) PROVE TurnsTypeOK'
  <2>1. RestOK'
    BY <1>0, <1>10, CollectionAssumption DEF Delete
  <2> QED BY <1>0, <1>10, <1>q, <2>1, DeleteTable, SweepsSame DEF Delete
<1>11. CASE BecomeDue
  <2>1. TableOK'
    BY <1>0, <1>11, LenProperties DEF BecomeDue, TableOK, Distinct, Configured
  <2> QED BY <1>0, <1>11, <1>q, <2>1, SweepsSame DEF BecomeDue
<1>12. CASE Spend
  <2>1. RestOK'
    BY <1>0, <1>12, CollectionAssumption DEF Spend
  <2> QED BY <1>0, <1>12, <1>q, <2>1, TableSame, SweepsSame DEF Spend
<1>13. CASE Reset
  BY <1>0, <1>13, <1>q, TableSame, SweepsSame DEF Reset
<1>14. CASE UNCHANGED turnsVars
  BY <1>0, <1>14, <1>q, TableSame, SweepsSame DEF turnsVars
<1> QED BY <1>1, <1>2, <1>3, <1>4, <1>5, <1>6, <1>7, <1>8, <1>9, <1>10, <1>11, <1>12, <1>13, <1>14
        DEF TurnsNext, SweepStep, Stamped

\* The table keeps its order, what is due is a part of it, and what was never tried is
\* a part of that, however sweeps overlap with each other and with edits.
THEOREM TurnsTypeCorrect == TurnsSpec => []TurnsTypeOK
BY TurnsTypeInit, TurnsTypeNext, PTL DEF TurnsSpec

-----------------------------------------------------------------------------
(* Collection: success clocks *)

\* A sweep that has its success left to stamp has stamped the attempt: the row is not
\* among those never tried, unless it was made again since.
TriedBeforeSuccess ==
  \A s \in Sweep : \A p \in Principal :
    Stamping(s, p) => p \notin Untried \/ p \in remade

\* Of those never tried, a stamp takes the one it stamps.
LEMMA StampedIsTried ==
  ASSUME TableOK, NEW p \in Principal, UpdateLastAttemptTime(p)
  PROVE  Untried' \subseteq Untried \ {p}
<1>1. CASE p \in Configured
  <2> DEFINE rest == Without(p)
  <2>1. /\ rest \in Seq(Principal) /\ Len(rest) = Len(order) - 1 /\ Len(order) \in Nat
        /\ \A i \in 1..Len(order) - 1 : rest[i] = order[IF i < Turn(p) THEN i ELSE i + 1]
    BY <1>1, OthersStay, LenProperties DEF TableOK
  <2>2. order' = Append(rest, p) /\ untried' = LessOne(p, untried)
    BY <1>1 DEF UpdateLastAttemptTime
  <2>3. Turn(p) \in 1..Len(order) /\ order[Turn(p)] = p
    BY <1>1, TurnIsKnown DEF TableOK
  <2>4. untried \in 0..Len(order) /\ untried' \in 0..Len(rest)
    BY <2>1, <2>2, <2>3, <1>1, LessOneFits DEF TableOK
  <2>5. ASSUME NEW i \in 1..untried' PROVE order'[i] \in Untried \ {p}
    <3> DEFINE j == IF i < Turn(p) THEN i ELSE i + 1
    <3>1. j \in 1..untried /\ j # Turn(p)
      BY <2>1, <2>2, <2>3, <2>4 DEF LessOne
    <3>2. order'[i] = rest[i]
      BY <2>1, <2>2, <2>4, AppendProperties
    <3>3. rest[i] = order[j]
      BY <2>1, <2>4
    <3>4. order[j] # p
      <4> HIDE DEF j
      <4> QED BY <2>3, <2>4, <3>1 DEF TableOK, Distinct
    <3> HIDE DEF j
    <3> QED BY <3>1, <3>2, <3>3, <3>4 DEF Untried
  <2> QED BY <2>5 DEF Untried
<1>2. CASE p \notin Configured
  <2>1. UNCHANGED <<order, untried>> /\ Untried' = Untried
    BY <1>2 DEF UpdateLastAttemptTime, Untried
  <2>2. p \notin Untried
    <3>1. DOMAIN order = 1..Len(order) /\ Len(order) \in Nat /\ untried \in 0..Len(order)
      BY LenProperties DEF TableOK
    <3>2. Untried \subseteq Configured
      BY <3>1 DEF Untried, Configured, ToSet
    <3> QED BY <1>2, <3>2
  <2> QED BY <2>1, <2>2
<1> QED BY <1>1, <1>2

LEMMA DeletedIsNotUntried ==
  ASSUME TableOK, NEW p \in Principal, Delete(p)
  PROVE  Untried' \subseteq Untried \ {p}
<1>1. p \in Configured /\ order' = Without(p) /\ untried' = LessOne(p, untried)
  BY DEF Delete
<1>2. /\ Len(order) \in Nat
      /\ \A i \in 1..Len(order) - 1 : order'[i] = order[IF i < Turn(p) THEN i ELSE i + 1]
  BY <1>1, OthersStay, LenProperties DEF TableOK
<1>3. Turn(p) \in 1..Len(order) /\ order[Turn(p)] = p
  BY <1>1, TurnIsKnown DEF TableOK
<1>4. untried \in 0..Len(order) /\ untried' \in 0..Len(order) - 1
  BY <1>1, <1>2, LessOneFits DEF TableOK
<1>5. ASSUME NEW i \in 1..untried' PROVE order'[i] \in Untried \ {p}
  <2> DEFINE j == IF i < Turn(p) THEN i ELSE i + 1
  <2>1. j \in 1..untried /\ j # Turn(p)
    BY <1>1, <1>2, <1>3, <1>4 DEF LessOne
  <2>2. order'[i] = order[j]
    BY <1>2, <1>4
  <2> HIDE DEF j
  <2>3. order[j] # p
    BY <1>3, <1>4, <2>1 DEF TableOK, Distinct
  <2> QED BY <2>1, <2>2, <2>3 DEF Untried
<1> QED BY <1>5 DEF Untried

LEMMA OnlyTheNewIsUntried ==
  ASSUME TableOK, NEW p \in Principal, Create(p)
  PROVE  Untried' \subseteq Untried \cup {p}
<1>1. PICK n \in 1..(untried + 1) : order' = InsertAt(order, n, p)
  BY DEF Create
<1>2. Len(order) \in Nat /\ untried \in 0..Len(order) /\ untried' = untried + 1
  BY LenProperties DEF TableOK, Create
<1>3. n \in 1..Len(order) + 1
  BY <1>2
<1>4. \A i \in 1..Len(order) + 1 : order'[i] = IF i = n THEN p ELSE order[IF i < n THEN i ELSE i - 1]
  <2>1. order \in Seq(Principal)
    BY DEF TableOK
  <2>2. \A i \in 1..Len(order) + 1 :
          InsertAt(order, n, p)[i] = IF i = n THEN p ELSE order[IF i < n THEN i ELSE i - 1]
    BY <1>3, <2>1, PutIn
  <2> QED BY <1>1, <2>2
<1>5. ASSUME NEW i \in 1..untried' PROVE order'[i] \in Untried \cup {p}
  <2> DEFINE j == IF i < n THEN i ELSE i - 1
  <2>1. i = n \/ j \in 1..untried
    BY <1>2, <1>3
  <2>2. order'[i] = IF i = n THEN p ELSE order[j]
    BY <1>2, <1>4
  <2> HIDE DEF j
  <2> QED BY <2>1, <2>2 DEF Untried
<1> QED BY <1>5 DEF Untried

LEMMA SuccessInit == TurnsInit => TriedBeforeSuccess /\ CollectedWasTried
BY DEF TurnsInit, TriedBeforeSuccess, CollectedWasTried, Stamping, IdleSweep

\* A sweep that does not come to a success keeps the invariant, if nobody becomes untried.
LEMMA OneSweepChanges ==
  ASSUME SweepsOK, TriedBeforeSuccess, NEW s \in Sweep, NEW state,
         Become(s, state), Untried' \subseteq Untried, UNCHANGED remade,
         state.pc = "success" => Head(state.batch) \notin Untried'
  PROVE  TriedBeforeSuccess'
<1>1. \A t \in Sweep : sweep'[t] = IF t = s THEN state ELSE sweep[t]
  BY DEF SweepsOK, Become
<1> QED BY <1>1 DEF TriedBeforeSuccess, Stamping

LEMMA OnwardIsNoSuccess ==
  ASSUME NEW s \in Sweep
  PROVE  Onward(s).pc # "success" /\ IdleSweep.pc # "success"
BY DEF Onward, IdleSweep

LEMMA SuccessNext ==
  TurnsTypeOK /\ TriedBeforeSuccess /\ CollectedWasTried /\ [TurnsNext]_turnsVars
    => TriedBeforeSuccess' /\ CollectedWasTried'
<1> SUFFICES ASSUME TurnsTypeOK, TriedBeforeSuccess, CollectedWasTried, [TurnsNext]_turnsVars
             PROVE  TriedBeforeSuccess' /\ CollectedWasTried'
  OBVIOUS
<1>0. TableOK /\ SweepsOK
  BY TurnsTypeParts
<1>1. ASSUME NEW s \in Sweep, NEW state, Become(s, state), state.pc # "success",
             UNCHANGED <<order, untried, collected, remade>>
      PROVE  TriedBeforeSuccess' /\ CollectedWasTried'
  <2>1. Untried' = Untried
    BY <1>1 DEF Untried
  <2> QED BY <1>0, <1>1, <2>1, OneSweepChanges DEF CollectedWasTried
<1>2. ASSUME NEW s \in Sweep, Begin(s) \/ Collect(s) \/ StampFails(s) \/ SuccessNotStamped(s) \/ Die(s)
      PROVE  TriedBeforeSuccess' /\ CollectedWasTried'
  <2>1. UNCHANGED <<order, untried, collected, remade>>
    BY <1>2 DEF Begin, Collect, StampFails, SuccessNotStamped, Die, tableVars
  <2>2. sweep[s] \in SweepState
    BY <1>0 DEF SweepsOK
  <2>3. CASE Begin(s)
    <3> DEFINE batch == SubSeq(order, 1, IF due < Batch THEN due ELSE Batch)
    <3>1. Become(s, [pc |-> "collect", batch |-> batch, data |-> FALSE])
      BY <2>3 DEF Begin
    <3> QED BY <1>1, <2>1, <3>1
  <2>4. CASE Collect(s)
    <3>1. \A data \in BOOLEAN : [sweep[s] EXCEPT !.pc = "attempt", !.data = data].pc = "attempt"
      BY <2>2 DEF SweepState
    <3>2. [sweep[s] EXCEPT !.pc = "failure"].pc = "failure"
      BY <2>2 DEF SweepState
    <3> QED BY <1>1, <2>1, <2>4, <3>1, <3>2, OnwardIsNoSuccess DEF Collect
  <2>5. CASE StampFails(s)
    BY <1>1, <2>1, <2>5, OnwardIsNoSuccess DEF StampFails
  <2>6. CASE SuccessNotStamped(s)
    <3>1. [sweep[s] EXCEPT !.pc = "failure"].pc = "failure"
      BY <2>2 DEF SweepState
    <3> QED BY <1>1, <2>1, <2>6, <3>1, OnwardIsNoSuccess DEF SuccessNotStamped
  <2>7. CASE Die(s)
    BY <1>1, <2>1, <2>7, OnwardIsNoSuccess DEF Die
  <2> QED BY <1>2, <2>3, <2>4, <2>5, <2>6, <2>7
<1>3. ASSUME NEW s \in Sweep, Stamped(s) PROVE TriedBeforeSuccess' /\ CollectedWasTried'
  <2>1. UNCHANGED <<collected, remade>> /\ UpdateLastAttemptTime(Current(s)) /\ sweep[s].pc # "idle"
    BY <1>3 DEF Stamped, AttemptStamped, FailureStamped
  <2>2. Untried' \subseteq Untried \ {Current(s)}
    BY <1>0, <2>1, CurrentIsAPrincipal, StampedIsTried
  <2>3. CASE Become(s, Onward(s))
    BY <1>0, <2>1, <2>2, <2>3, OnwardIsNoSuccess, OneSweepChanges DEF CollectedWasTried
  <2>4. CASE Become(s, [sweep[s] EXCEPT !.pc = "success"])
    <3> DEFINE state == [sweep[s] EXCEPT !.pc = "success"]
    <3>1. state.batch = sweep[s].batch
      BY <1>0, <2>1, StaysAtOneAsItIs
    <3>2. Become(s, state) /\ Head(state.batch) \notin Untried'
      BY <2>2, <2>4, <3>1 DEF Current
    <3> HIDE DEF state
    <3> QED BY <1>0, <2>1, <2>2, <3>2, OneSweepChanges DEF CollectedWasTried
  <2> QED BY <1>3, <2>3, <2>4 DEF Stamped, AttemptStamped, FailureStamped, AfterAttempt
<1>4. ASSUME NEW s \in Sweep, SuccessStamped(s) PROVE TriedBeforeSuccess' /\ CollectedWasTried'
  <2>1. /\ UNCHANGED <<order, untried, remade>> /\ Become(s, Onward(s))
        /\ sweep[s].pc = "success" /\ collected' \subseteq collected \cup {Current(s)}
    BY <1>4 DEF SuccessStamped, tableVars, UpdateLastCollectedTime
  <2>2. Untried' = Untried
    BY <2>1 DEF Untried
  <2>3. TriedBeforeSuccess'
    BY <1>0, <2>1, <2>2, OnwardIsNoSuccess, OneSweepChanges
  <2>4. Current(s) \notin Untried \/ Current(s) \in remade
    <3>1. Current(s) \in Principal /\ Stamping(s, Current(s))
      BY <1>0, <2>1, CurrentIsAPrincipal DEF Stamping, Current
    <3> QED BY <3>1 DEF TriedBeforeSuccess
  <2> QED BY <2>1, <2>2, <2>3, <2>4 DEF CollectedWasTried
<1>5. ASSUME NEW p \in Principal, Create(p) PROVE TriedBeforeSuccess' /\ CollectedWasTried'
  <2>1. /\ UNCHANGED <<sweep, collected>> /\ p \notin collected
        /\ remade' = IF \E s \in Sweep : Stamping(s, p) THEN remade \cup {p} ELSE remade
    BY <1>0, <1>5 DEF Create, TableOK
  <2>2. Untried' \subseteq Untried \cup {p}
    BY <1>0, <1>5, OnlyTheNewIsUntried
  <2>3. \A s \in Sweep : \A q \in Principal : Stamping(s, q)' => Stamping(s, q)
    BY <2>1 DEF Stamping
  <2> QED BY <2>1, <2>2, <2>3 DEF TriedBeforeSuccess, CollectedWasTried
<1>6. ASSUME NEW p \in Principal, Delete(p) PROVE TriedBeforeSuccess' /\ CollectedWasTried'
  <2>1. UNCHANGED sweep /\ collected' = collected \ {p} /\ remade' = remade \ {p}
    BY <1>6 DEF Delete
  <2>2. Untried' \subseteq Untried \ {p}
    BY <1>0, <1>6, DeletedIsNotUntried
  <2>3. \A s \in Sweep : \A q \in Principal : Stamping(s, q)' => Stamping(s, q)
    BY <2>1 DEF Stamping
  <2> QED BY <2>1, <2>2, <2>3 DEF TriedBeforeSuccess, CollectedWasTried
<1>7. CASE BecomeDue \/ Spend \/ Reset \/ UNCHANGED turnsVars
  <2>1. UNCHANGED <<order, untried, collected, sweep, remade>>
    BY <1>7 DEF BecomeDue, Spend, Reset, turnsVars
  <2> QED BY <2>1 DEF TriedBeforeSuccess, CollectedWasTried, Stamping, Untried
<1> QED BY <1>2, <1>3, <1>4, <1>5, <1>6, <1>7 DEF TurnsNext, SweepStep

\* However sweeps overlap, whatever stamps fail and whatever is deleted and made again: a
\* row whose success clock is set was tried, unless it was made again between the two
\* stamps of a sweep (AbstractCollectionTask stamps the attempt first, and goes on to the
\* next principal if that fails).
THEOREM SuccessWasTried == TurnsSpec => []CollectedWasTried
<1>1. TurnsInit => TurnsTypeOK /\ TriedBeforeSuccess /\ CollectedWasTried
  BY TurnsTypeInit, SuccessInit
<1>2. TurnsTypeOK /\ TriedBeforeSuccess /\ CollectedWasTried /\ [TurnsNext]_turnsVars
        => (TurnsTypeOK /\ TriedBeforeSuccess /\ CollectedWasTried)'
  BY TurnsTypeNext, SuccessNext
<1> QED BY <1>1, <1>2, PTL DEF TurnsSpec

-----------------------------------------------------------------------------
(* Collection: the order of turns *)

LEMMA AheadInTheRest ==
  ASSUME order \in Seq(Principal), Distinct(order), NEW r \in Configured,
         NEW m \in 1..Len(order) - 1, NEW n \in 1..Len(order) - 1, m < n
  PROVE  Ahead(Without(r)[m], Without(r)[n])
<1> DEFINE at(i) == IF i < Turn(r) THEN i ELSE i + 1
<1>1. Turn(r) \in 1..Len(order) /\ Len(order) \in Nat
  BY TurnIsKnown, LenProperties
<1>2. Without(r)[m] = order[at(m)] /\ Without(r)[n] = order[at(n)]
  BY OthersStay
<1>3. at(m) \in 1..Len(order) /\ at(n) \in 1..Len(order) /\ at(m) < at(n)
  BY <1>1
<1> HIDE DEF at
<1> QED BY <1>2, <1>3 DEF Ahead

LEMMA StampOvertakesNobody ==
  ASSUME TableOK, NEW r \in Principal, UpdateLastAttemptTime(r),
         NEW p, NEW q, Ahead(q, p)'
  PROVE  Ahead(q, p) \/ p = r
<1>1. CASE r \in Configured
  <2> DEFINE rest == Without(r)
  <2>1. rest \in Seq(Principal) /\ Len(rest) = Len(order) - 1 /\ Len(order) \in Nat
    BY <1>1, OthersStay, LenProperties DEF TableOK
  <2>2. order' = Append(rest, r)
    BY <1>1 DEF UpdateLastAttemptTime
  <2>3. \A m, n \in 1..Len(rest) : m < n => Ahead(rest[m], rest[n])
    BY <1>1, <2>1, AheadInTheRest DEF TableOK
  <2> HIDE DEF rest
  <2>4. /\ Len(order') = Len(rest) + 1
        /\ \A i \in 1..Len(rest) : order'[i] = rest[i]
        /\ order'[Len(rest) + 1] = r
    BY <2>1, <2>2, AppendProperties
  <2>5. PICK m, n \in 1..Len(order') : m < n /\ order'[m] = q /\ order'[n] = p
    BY DEF Ahead
  <2>6. m \in 1..Len(rest)
    BY <2>1, <2>4, <2>5
  <2>7. CASE n \in 1..Len(rest)
    BY <2>3, <2>4, <2>5, <2>6, <2>7
  <2>8. CASE n = Len(rest) + 1
    BY <2>4, <2>5, <2>8
  <2> QED BY <2>1, <2>4, <2>7, <2>8
<1>2. CASE r \notin Configured
  BY <1>2 DEF UpdateLastAttemptTime, Ahead
<1> QED BY <1>1, <1>2

LEMMA DeleteOvertakesNobody ==
  ASSUME TableOK, NEW r \in Principal, Delete(r), NEW p, NEW q, Ahead(q, p)'
  PROVE  Ahead(q, p)
<1>1. r \in Configured /\ order' = Without(r)
  BY DEF Delete
<1>2. Len(order') = Len(order) - 1
  BY <1>1, OthersStay DEF TableOK
<1>3. PICK m, n \in 1..Len(order') : m < n /\ order'[m] = q /\ order'[n] = p
  BY DEF Ahead
<1> QED BY <1>1, <1>2, <1>3, AheadInTheRest DEF TableOK

LEMMA CreateOvertakesByTheNew ==
  ASSUME TableOK, NEW r \in Principal, Create(r), NEW p \in Configured, NEW q \in Configured, Ahead(q, p)'
  PROVE  Ahead(q, p)
<1>1. r \notin Configured
  BY DEF Create
<1>2. PICK k \in 1..(untried + 1) : order' = InsertAt(order, k, r)
  BY DEF Create
<1>3. Len(order) \in Nat /\ k \in 1..Len(order) + 1
  BY LenProperties DEF TableOK
<1> DEFINE at(i) == IF i < k THEN i ELSE i - 1
<1>4. /\ Len(order') = Len(order) + 1
      /\ \A i \in 1..Len(order) + 1 : order'[i] = IF i = k THEN r ELSE order[at(i)]
  <2>1. order \in Seq(Principal)
    BY DEF TableOK
  <2>2. /\ Len(InsertAt(order, k, r)) = Len(order) + 1
        /\ \A i \in 1..Len(order) + 1 : InsertAt(order, k, r)[i] = IF i = k THEN r ELSE order[at(i)]
    BY <1>3, <2>1, PutIn
  <2> QED BY <1>2, <2>2
<1>5. PICK m, n \in 1..Len(order') : m < n /\ order'[m] = q /\ order'[n] = p
  BY DEF Ahead
<1>6. m # k /\ n # k /\ m \in 1..Len(order) + 1 /\ n \in 1..Len(order) + 1
  BY <1>1, <1>4, <1>5
<1>7. at(m) \in 1..Len(order) /\ at(n) \in 1..Len(order) /\ at(m) < at(n)
  BY <1>3, <1>5, <1>6
<1>8. order[at(m)] = q /\ order[at(n)] = p
  BY <1>4, <1>5, <1>6
<1> HIDE DEF at
<1> QED BY <1>7, <1>8 DEF Ahead

LEMMA OvertakingStep ==
  ASSUME TurnsTypeOK, [TurnsNext]_turnsVars, NEW p \in Configured, NEW q \in Configured, Ahead(q, p)'
  PROVE  Ahead(q, p) \/ \E s \in Sweep : Stamped(s) /\ Current(s) = p
<1>0. TableOK /\ SweepsOK
  BY TurnsTypeParts
<1>1. ASSUME NEW s \in Sweep, Stamped(s) PROVE Ahead(q, p) \/ Current(s) = p
  <2>1. UpdateLastAttemptTime(Current(s)) /\ Current(s) \in Principal
    BY <1>0, <1>1, CurrentIsAPrincipal DEF Stamped, AttemptStamped, FailureStamped
  <2> QED BY <1>0, <2>1, StampOvertakesNobody
<1>2. CASE \E r \in Principal : Create(r)
  BY <1>0, <1>2, CreateOvertakesByTheNew
<1>3. CASE \E r \in Principal : Delete(r)
  BY <1>0, <1>3, DeleteOvertakesNobody
<1>4. CASE UNCHANGED order
  BY <1>4 DEF Ahead
<1>5. ASSUME \/ \E s \in Sweep : \/ Begin(s) \/ Collect(s) \/ StampFails(s) \/ SuccessStamped(s)
                                 \/ SuccessNotStamped(s) \/ Die(s)
             \/ BecomeDue \/ Spend \/ Reset
             \/ UNCHANGED turnsVars
      PROVE  UNCHANGED order
  BY <1>5 DEF Begin, Collect, StampFails, SuccessStamped, SuccessNotStamped, Die, BecomeDue, Spend, Reset, turnsVars, tableVars
<1> QED BY <1>1, <1>2, <1>3, <1>4, <1>5 DEF TurnsNext, SweepStep

\* Turns are kept (getPrincipalArnsNeedingCollection orders by the last attempt): what
\* EveryoneIsTried owes to fairness is only that sweeps go on.
THEOREM TurnsAreKept == TurnsSpec => NobodyIsOvertaken
<1>1. TurnsTypeOK /\ [TurnsNext]_turnsVars =>
        [\A p, q \in Configured :
           Ahead(q, p)' => Ahead(q, p) \/ \E s \in Sweep : Stamped(s) /\ Current(s) = p]_turnsVars
  BY OvertakingStep
<1> QED BY <1>1, TurnsTypeCorrect, PTL DEF TurnsSpec, NobodyIsOvertaken
=============================================================================
