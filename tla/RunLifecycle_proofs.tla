------------------------ MODULE RunLifecycle_proofs ------------------------
(* Machine-checked proofs about RunLifecycle, for any settings, task graphs and
   bounds. *)
EXTENDS RunLifecycle, SequenceTheorems, FiniteSetTheorems, TLAPS

(* The invariant. *)

AttemptStatuses == TaskStatuses \ {"PENDING", "READY"}
Steps ==
    StepNames \union {"requirements", "diagnose", "implement", "retest", "rereview",
                      "implementation", "documentation", "validation", "final", "git", "memory"}
Roles ==
    {"REQUIREMENTS", "REPAIR", "DEVELOPER", "TESTER", "REVIEWER", "CHANGE_GUARDIAN",
     "DOCUMENTATION", "GITOPS", "MEMORY_CURATOR"}
AnyTask == [version : Nat, step : Steps, role : Roles]
PlanSet == [goal : Nat, tasks : SUBSET AnyTask, after : SUBSET (AnyTask \X AnyTask)]
ReviewSet ==
    [overall : {"PASS", "FAIL"}, goal : Nat, version : Nat, by : AnyTask \X Nat]
SubjectSet == [version : Nat, goal : Nat, review : Nat, push : BOOLEAN]
Evidence ==
    {"implementation", "documentation", "validation", "final", "commit", "push", "memory"}

\* Where a suspended run is, and where it will be again.
Place == IF state \in Suspended THEN resume ELSE state

Types ==
    /\ setting \in Settings
    /\ state \in States
    /\ resume \in (States \ (Terminal \union Suspended)) \union {"none"}
    /\ resume = "none" <=> state \notin Suspended
    /\ goal \in 0..MaxGoal
    /\ accepted \in BOOLEAN
    /\ plans \in Seq(PlanSet)
    /\ Version <= MaxVersion
    /\ DOMAIN status \subseteq AnyTask
    /\ status \in [DOMAIN status -> TaskStatuses]
    /\ attempts \in [DOMAIN status -> Seq(AttemptStatuses)]
    /\ iteration \in 0..MaxRepair
    /\ reviews \in Seq(ReviewSet)
    /\ workspace \in BOOLEAN
    /\ finalizing \in SubjectSet
    /\ bound \in SubjectSet
    /\ effect \in {"none", "validation", "commit", "push"}
    /\ certs \subseteq Evidence

\* What tasks and plans look like: a task belongs to the version that brought it, the
\* requirements task precedes them all, and an edge of an old plan that still matters is
\* in the current one.
PlanShape(v) ==
    /\ plans[v].goal \in 1..goal
    /\ plans[v].tasks \subseteq DOMAIN status
    /\ plans[v].after \subseteq plans[v].tasks \X plans[v].tasks
    /\ \A t \in plans[v].tasks : t.version <= v
    /\ \A e \in plans[v].after :
          /\ e[1].version > 0
          /\ e[1] \in Plan.tasks => e \in Plan.after

TaskShape(t) ==
    /\ t.version <= Version
    /\ t.version = 0 => t = Requirements
    /\ t.version > 0 =>
          IsDelivery(t) \/ t.role \in {"REPAIR", "DEVELOPER", "TESTER", "REVIEWER"}

Shapes ==
    /\ \A v \in 1..Version : PlanShape(v)
    /\ \A t \in DOMAIN status : TaskShape(t)
    /\ workspace => Version > 0
    /\ Version > 0 /\ Requirements \in Plan.tasks => Requirements \in Succeeded

\* TaskMirrorsAttempt and the second part of ActiveWorkInCurrentPlan, of one task.
Mirrors(t) ==
    IF attempts[t] = <<>> THEN status[t] \in {"PENDING", "READY", "CANCELLED"}
    ELSE \/ status[t] = Latest(t)
         \/ Latest(t) = "FAILED" /\ status[t] \in {"READY", "CANCELLED"}
OldAttemptsEnded(t) == \A i \in 1..(Len(attempts[t]) - 1) : attempts[t][i] \notin Active

\* SingleWriter, of any two tasks.
OneWriter ==
    \A t, u \in DOMAIN status :
        /\ t.role \in WriteRoles /\ HasActive(t)
        /\ u.role \in WriteRoles /\ HasActive(u)
        => t = u

WorkInv ==
    /\ \A t \in DOMAIN status : Mirrors(t) /\ OldAttemptsEnded(t)
    /\ ActiveWorkInCurrentPlan
    /\ StoppedIsQuiet
    /\ DependenciesRespected
    /\ OneWriter

\* Reviews are of plans there are, by reviewers who worked.
ReviewInv ==
    \A i \in 1..Len(reviews) :
        /\ reviews[i].goal \in 1..goal
        /\ reviews[i].version \in 1..Version
        /\ reviews[i].by[1] \in DOMAIN status
        /\ reviews[i].by[1].version > 0
        /\ attempts[reviews[i].by[1]] # <<>>

\* The places of a run by how far it has come.
Early == {"RECEIVED", "CONTEXT_SYNC", "ANALYZING", "GOAL_DEFINED", "PLANNED"}
Reviewed == {"REVIEWING"} \union DeliveryStates

\* Where a plan may have tasks nobody approved yet, or no longer needs to.
Unapproved == Early \union {"REPAIR_PLANNING"} \union Terminal
PlanApproved(t) == t.version > 0 /\ ~IsDelivery(t) => Approved("PLAN", t.version)

\* Up to the start of execution no approval is needed, and a plan has tasks of its own
\* version only; a repair plan is approved when it is executed, and every other one was.
ApprovalInv ==
    /\ OnlyApprovedWork
    /\ Version > 0 /\ Place \in Early => \A t \in Plan.tasks : t.version \in {0, Version}
    /\ Place = "REPAIR_PLANNING" =>
          /\ Version > 0 /\ reviews # <<>>
          /\ \A t \in Plan.tasks :
                PlanApproved(t) \/ (t.version = Version /\ LastReview.version < Version)
    /\ Place \notin Unapproved =>
          Version > 0 /\ \A t \in Plan.tasks : PlanApproved(t)

\* The waves behind a run are done.
WaveInv ==
    /\ Place \in {"INTEGRATING", "TESTING"} => \A t \in Plan.tasks :
          t.role \in {"REPAIR", "DEVELOPER"} => IsDelivery(t) \/ t \in Succeeded
    /\ Place \in Reviewed => \A t \in Plan.tasks :
          t.role \in {"REPAIR", "DEVELOPER", "TESTER"} => IsDelivery(t) \/ t \in Succeeded

\* A delivery plan is one, is of the bound delivery and the goal the run keeps.
DeliveryPlanned == \E t \in DOMAIN status : IsDelivery(t)
DeliveryPlanInv ==
    /\ finalizing # NoSubject => bound = NoSubject
    /\ finalizing # NoSubject => Version > 0
    /\ bound # NoSubject => Version > 0
    /\ \A t \in DOMAIN status : IsDelivery(t) =>
          /\ bound # NoSubject
          /\ Approved("DELIVERY", bound)
          /\ PlanServesGoal
          /\ Place \notin Early
          /\ t \in Chain(t.version, DeliverySteps)
          /\ Chain(t.version, DeliverySteps) \subseteq Plan.tasks
          /\ ChainAfter(t.version, DeliverySteps) \subseteq Plan.after
          /\ \A u \in DOMAIN status : IsDelivery(u) => u.version = t.version

\* Newer work than the review's plan, in terms of the plan the review is of or the
\* subject that was authorised.
ReviewCovers(v) == \A t \in Plan.tasks : IsDelivery(t) \/ t.version <= v
CoverInv ==
    /\ \A v, w \in 1..Version : v <= w => plans[v].goal <= plans[w].goal
    /\ /\ Version > 0
       /\ ReviewPasses
       /\ LastReview.goal = Plan.goal
       /\ plans[LastReview.version].goal = LastReview.goal
       => ReviewCovers(LastReview.version)
    /\ \A s \in {finalizing, bound} :
          s # NoSubject /\ ReviewPasses /\ LastReview.version = s.version =>
              ReviewCovers(s.version)

\* Delivery steps work, and leave their evidence, only where the coordinator has taken
\* the run; there the review stands.
Closing == DeliveryStates \union {"CANCELLED", "FAILED"}
DeliveryInv ==
    /\ certs # {} \/ effect # "none" => Place \in Closing
    /\ \A t \in DOMAIN status : IsDelivery(t) /\ attempts[t] # <<>> => Place \in Closing
    /\ certs # {} \/ effect # "none" \/ Place \in DeliveryStates =>
          /\ DeliveryPlanned
          /\ ReviewPasses
          /\ ReviewServesGoal
          /\ "DELIVERY" \in Gates => bound.version = LastReview.version
    /\ certs # {} \/ effect # "none" => \A t \in Plan.tasks :
          t.role \in {"REPAIR", "DEVELOPER", "TESTER"} => IsDelivery(t) \/ t \in Succeeded
    /\ "final" \in certs =>
          effect # "validation" /\ \A t \in DOMAIN status :
              IsDelivery(t) /\ t.step = "validation" => t \in Succeeded
    /\ CompletedIsDelivered

IInv ==
    /\ Types /\ Shapes /\ WorkInv /\ ReviewInv
    /\ ApprovalInv /\ WaveInv /\ DeliveryPlanInv /\ CoverInv /\ DeliveryInv

-----------------------------------------------------------------------------
(* What a step does to a task. *)

\* Nobody works on the task; it may become ready or be cancelled before it starts.
Kept(t) ==
    /\ attempts'[t] = attempts[t]
    /\ \/ status'[t] = status[t]
       \/ status[t] = "PENDING" /\ status'[t] = "READY"
       \/ status[t] \in {"PENDING", "READY"} /\ status'[t] = "CANCELLED"

\* The active attempt is reported on, or cancelled with its run or its plan.
Reported(t) ==
    /\ HasActive(t)
    /\ \E s \in TaskStatuses :
          /\ <<Latest(t), s>> \in AttemptMoves
          /\ state \in ExecutionStates \/ s = "CANCELLED"
          /\ attempts'[t] = [attempts[t] EXCEPT ![Len(attempts[t])] = s]
          /\ status'[t] = s

\* The active attempt is given up and the task can start again.
Retired(t) ==
    /\ HasActive(t)
    /\ attempts'[t] = [attempts[t] EXCEPT ![Len(attempts[t])] = "FAILED"]
    /\ status'[t] = "READY"

TaskMove(t) == Kept(t) \/ Start(t) \/ Reported(t) \/ Retired(t)

\* A sequence whose last element is replaced.
LEMMA LastReplaced ==
    ASSUME NEW S, NEW q \in Seq(S), q # <<>>, NEW s \in S
    PROVE  LET r == [q EXCEPT ![Len(q)] = s] IN
              /\ r \in Seq(S) /\ Len(r) = Len(q) /\ r # <<>> /\ r[Len(r)] = s
              /\ \A i \in 1..(Len(q) - 1) : r[i] = q[i]
<1> DEFINE r == [q EXCEPT ![Len(q)] = s]
<1>1. Len(q) \in Nat /\ Len(q) # 0 /\ DOMAIN q = 1..Len(q)
  BY EmptySeq, LenProperties
<1>2. Len(q) \in 1..Len(q)
  BY <1>1
<1>3. r \in Seq(S) /\ Len(r) = Len(q)
  BY <1>2, ExceptSeq
<1>4. \A j \in 1..Len(q) : r[j] = IF j = Len(q) THEN s ELSE q[j]
  BY <1>2, ExceptSeq
<1>5. r[Len(q)] = s /\ \A i \in 1..(Len(q) - 1) : r[i] = q[i]
  <2> HIDE DEF r
  <2>1. r[Len(q)] = s
    BY <1>2, <1>4
  <2>2. ASSUME NEW i \in 1..(Len(q) - 1) PROVE r[i] = q[i]
    <3>1. \A n \in Nat : \A j \in 1..(n - 1) : j \in 1..n /\ j # n
      OBVIOUS
    <3>2. i \in 1..Len(q) /\ i # Len(q)
      BY <1>1, <3>1
    <3> QED
      BY <3>2, <1>4
  <2> QED
    BY <2>1, <2>2
<1> QED
  BY <1>1, <1>3, <1>5, EmptySeq

\* A sequence with one more element.
LEMMA LastAdded ==
    ASSUME NEW S, NEW q \in Seq(S), NEW s \in S
    PROVE  /\ Append(q, s) \in Seq(S) /\ Len(Append(q, s)) = Len(q) + 1
           /\ Append(q, s) # <<>> /\ Append(q, s)[Len(q) + 1] = s
           /\ \A i \in 1..Len(q) : Append(q, s)[i] = q[i]
BY AppendProperties, LenProperties, EmptySeq

\* What the records of a task say, one by one.
TaskTypes(t) ==
    /\ t \in DOMAIN status
    /\ status[t] \in TaskStatuses
    /\ attempts[t] \in Seq(AttemptStatuses)

\* The types of one task, its status and its attempts.
LEMMA TaskTyped ==
    ASSUME Types, NEW t \in DOMAIN status
    PROVE  TaskTypes(t) /\ t \in AnyTask
BY DEF Types, TaskTypes

\* The newest attempt of a task that has one.
LEMMA LatestTyped ==
    ASSUME NEW t, TaskTypes(t), attempts[t] # <<>>
    PROVE  Latest(t) \in AttemptStatuses
<1>1. Len(attempts[t]) \in 1..Len(attempts[t]) /\ DOMAIN attempts[t] = 1..Len(attempts[t])
  BY EmptySeq, LenProperties DEF TaskTypes
<1> QED
  BY <1>1, ElementOfSeq DEF TaskTypes, Latest

\* What the move of a task keeps, and what it cannot do.
TaskKept(t) ==
    /\ status'[t] \in TaskStatuses
    /\ attempts'[t] \in Seq(AttemptStatuses)
    /\ Len(attempts[t]) <= Len(attempts'[t])
    /\ attempts[t] # <<>> => attempts'[t] # <<>>
    /\ attempts'[t] # <<>> => attempts[t] # <<>> \/ Start(t)
    /\ Mirrors(t)'
    /\ OldAttemptsEnded(t)'
    /\ HasActive(t)' => HasActive(t) \/ Start(t)
    /\ status[t] = "SUCCEEDED" => status'[t] = "SUCCEEDED"
    /\ HasActive(t)' /\ Latest(t)' = "RUNNING" =>
          \/ Latest(t) = "RUNNING" /\ attempts[t] # <<>>
          \/ state \in ExecutionStates

\* A started task has one more attempt and had none active.
LEMMA StartKeeps ==
    ASSUME NEW t, TaskTypes(t), DOMAIN attempts = DOMAIN status,
           Mirrors(t), OldAttemptsEnded(t), Start(t)
    PROVE  TaskKept(t) /\ ~HasActive(t) /\ attempts'[t] # attempts[t]
<1>1. attempts'[t] = Append(attempts[t], "RUNNING") /\ status'[t] = "RUNNING"
  BY DEF Start, TaskTypes
<1>2. status[t] \in {"PENDING", "READY"} /\ state \in ExecutionStates
  BY DEF Start, Startable
<1>3. attempts[t] = <<>> \/ Latest(t) = "FAILED"
  BY <1>2, LatestTyped DEF Mirrors, AttemptStatuses
<1>4. /\ attempts'[t] \in Seq(AttemptStatuses)
      /\ Len(attempts'[t]) = Len(attempts[t]) + 1
      /\ attempts'[t] # <<>>
      /\ attempts'[t][Len(attempts[t]) + 1] = "RUNNING"
      /\ \A i \in 1..Len(attempts[t]) : attempts'[t][i] = attempts[t][i]
  <2> "RUNNING" \in AttemptStatuses
    BY DEF AttemptStatuses, TaskStatuses, Active
  <2> QED
    BY <1>1, LastAdded DEF TaskTypes
<1>5. Len(attempts[t]) \in Nat
  BY LenProperties DEF TaskTypes
<1>6. OldAttemptsEnded(t)'
  <2> SUFFICES ASSUME NEW i \in 1..Len(attempts[t]) PROVE attempts[t][i] \notin Active
    BY <1>4, <1>5 DEF OldAttemptsEnded
  <2>1. CASE i = Len(attempts[t])
    BY <2>1, <1>3, <1>5, EmptySeq, LenProperties DEF Latest, Active, TaskTypes
  <2>2. CASE i # Len(attempts[t])
    BY <2>2, <1>5 DEF OldAttemptsEnded
  <2> QED
    BY <2>1, <2>2
<1>7. Mirrors(t)'
  BY <1>1, <1>4 DEF Mirrors, Latest
<1>8. ~HasActive(t)
  BY <1>3 DEF HasActive, Active
<1>9. attempts'[t] # attempts[t] /\ Len(attempts[t]) <= Len(attempts'[t])
  BY <1>4, <1>5
<1>10. status'[t] \in TaskStatuses
  BY <1>1 DEF TaskStatuses, Active
<1> QED
  BY <1>1, <1>2, <1>4, <1>6, <1>7, <1>8, <1>9, <1>10 DEF TaskKept

\* A task whose newest attempt is reported or ended keeps the others.
LEMMA ReplacingKeeps ==
    ASSUME NEW t, TaskTypes(t), Mirrors(t), OldAttemptsEnded(t), Reported(t) \/ Retired(t)
    PROVE  TaskKept(t)
<1>1. PICK s \in AttemptStatuses :
          /\ attempts'[t] = [attempts[t] EXCEPT ![Len(attempts[t])] = s]
          /\ status'[t] = s \/ (s = "FAILED" /\ status'[t] = "READY")
          /\ s = "RUNNING" => state \in ExecutionStates
  BY DEF Reported, Retired, AttemptMoves, AttemptStatuses, TaskStatuses, Active
<1>2. attempts[t] # <<>> /\ Latest(t) \in Active
  BY DEF Reported, Retired, HasActive
<1>3. /\ attempts'[t] \in Seq(AttemptStatuses)
      /\ Len(attempts'[t]) = Len(attempts[t])
      /\ attempts'[t] # <<>>
      /\ attempts'[t][Len(attempts'[t])] = s
      /\ \A i \in 1..(Len(attempts[t]) - 1) : attempts'[t][i] = attempts[t][i]
  BY <1>1, <1>2, LastReplaced DEF TaskTypes
<1>4. Len(attempts[t]) \in Nat
  BY LenProperties DEF TaskTypes
<1>5. Mirrors(t)'
  BY <1>1, <1>3 DEF Mirrors, Latest
<1>6. OldAttemptsEnded(t)'
  BY <1>3, <1>4 DEF OldAttemptsEnded
<1>7. status[t] # "SUCCEEDED"
  BY <1>2 DEF Mirrors, Active
<1>8. status'[t] \in TaskStatuses
  BY <1>1 DEF AttemptStatuses, TaskStatuses, Active
<1>9. HasActive(t)
  BY <1>2 DEF HasActive
<1>10. Latest(t)' = "RUNNING" => state \in ExecutionStates
  BY <1>1, <1>3 DEF Latest
<1> QED
  BY <1>2, <1>3, <1>4, <1>5, <1>6, <1>7, <1>8, <1>9, <1>10 DEF TaskKept

\* A task nobody works on keeps its attempts.
LEMMA KeptKeeps ==
    ASSUME NEW t, TaskTypes(t), Mirrors(t), OldAttemptsEnded(t), Kept(t)
    PROVE  TaskKept(t)
<1>1. attempts'[t] = attempts[t]
  BY DEF Kept
<1>2. status'[t] \in TaskStatuses
  BY DEF Kept, TaskTypes, TaskStatuses
<1>3. Mirrors(t)'
  BY <1>1, LatestTyped DEF Kept, Mirrors, Latest, AttemptStatuses
<1>4. OldAttemptsEnded(t)'
  BY <1>1 DEF OldAttemptsEnded
<1>5. status[t] = "SUCCEEDED" => status'[t] = "SUCCEEDED"
  BY DEF Kept
<1>6. HasActive(t)' => HasActive(t) /\ Latest(t)' = Latest(t) /\ attempts[t] # <<>>
  BY <1>1 DEF HasActive, Latest
<1>7. Len(attempts[t]) \in Nat
  BY LenProperties DEF TaskTypes
<1> QED
  BY <1>1, <1>2, <1>3, <1>4, <1>5, <1>6, <1>7 DEF TaskKept, TaskTypes

\* Whatever a step does to a task, its newest attempt says what it says.
LEMMA MoveKeeps ==
    ASSUME NEW t, TaskTypes(t), DOMAIN attempts = DOMAIN status,
           Mirrors(t), OldAttemptsEnded(t), TaskMove(t)
    PROVE  TaskKept(t)
BY KeptKeeps, ReplacingKeeps, StartKeeps DEF TaskMove

-----------------------------------------------------------------------------
(* Settings, templates, chains. *)

\* What SettingsAssumption says of the setting of this run.
LEMMA SettingTyped ==
    ASSUME Types
    PROVE  /\ MaxGoal \in Nat \ {0} /\ MaxVersion \in Nat /\ MaxReview \in Nat
           /\ MaxAttempts \in Nat /\ MaxRepair \in Nat
           /\ Pushes \subseteq BOOLEAN
           /\ Reports \subseteq AttemptStatuses
           /\ \A template \in Templates : IsTemplate(template)
BY SettingsAssumption
DEF Types, MaxGoal, MaxVersion, MaxReview, MaxAttempts, MaxRepair, Pushes, Reports, Templates,
    AttemptStatuses, TaskStatuses, Active

\* A task of a template, of a version.
LEMMA PlannedTasks ==
    ASSUME NEW v \in Nat, NEW template, IsTemplate(template)
    PROVE  /\ \A t \in Planned(v, template) :
                 /\ t \in AnyTask
                 /\ t.version = v
                 /\ t.role \in {"DEVELOPER", "TESTER", "REVIEWER"}
                 /\ ~IsDelivery(t)
           /\ \A e \in PlannedAfter(v, template) :
                 /\ e \in Planned(v, template) \X Planned(v, template)
                 /\ e[1].version = v
<1>1. ASSUME NEW s \in template.tasks
      PROVE  /\ Task(v, s) \in AnyTask
             /\ Task(v, s).version = v
             /\ Task(v, s).role \in {"DEVELOPER", "TESTER", "REVIEWER"}
             /\ ~IsDelivery(Task(v, s))
  <2>1. /\ s.step \in StepNames
        /\ \A i \in 1..6 : DeliverySteps[i].step # s.step
        /\ s.role \in {"DEVELOPER", "TESTER", "REVIEWER"}
    BY StepNamesAssumption DEF IsTemplate
  <2>2. s.role \in Roles /\ s.step \in Steps
    BY <2>1 DEF Roles, Steps
  <2> QED
    BY <2>1, <2>2 DEF Task, AnyTask, IsDelivery
<1>2. ASSUME NEW e \in template.after
      PROVE  /\ <<Task(v, e[1]), Task(v, e[2])>> \in
                     Planned(v, template) \X Planned(v, template)
             /\ Task(v, e[1]).version = v
  <2>1. e[1] \in template.tasks /\ e[2] \in template.tasks
    BY DEF IsTemplate
  <2> QED
    BY <2>1, <1>1 DEF Planned
<1> QED
  BY <1>1, <1>2 DEF Planned, PlannedAfter

\* The steps of delivery and of repair, one by one.
LEMMA DeliveryStepsAre ==
    /\ Len(DeliverySteps) = 6
    /\ DeliverySteps[1] = [step |-> "implementation", role |-> "CHANGE_GUARDIAN",
                           at |-> {"CHANGE_GUARD"}]
    /\ DeliverySteps[2] = [step |-> "documentation", role |-> "DOCUMENTATION",
                           at |-> {"DOCUMENTING"}]
    /\ DeliverySteps[3] = [step |-> "validation", role |-> "TESTER",
                           at |-> {"DELIVERY_VALIDATION"}]
    /\ DeliverySteps[4] = [step |-> "final", role |-> "CHANGE_GUARDIAN",
                           at |-> {"DELIVERY_VALIDATION"}]
    /\ DeliverySteps[5] = [step |-> "git", role |-> "GITOPS", at |-> {"COMMITTING", "PUSHING"}]
    /\ DeliverySteps[6] = [step |-> "memory", role |-> "MEMORY_CURATOR",
                           at |-> {"MEMORY_FINALIZATION"}]
    /\ \A i \in 1..6 : i = 1 \/ i = 2 \/ i = 3 \/ i = 4 \/ i = 5 \/ i = 6
BY DEF DeliverySteps

\* The steps of a repair, one by one.
LEMMA RepairStepsAre ==
    /\ Len(RepairSteps) = 4
    /\ RepairSteps[1] = [step |-> "diagnose", role |-> "REPAIR"]
    /\ RepairSteps[2] = [step |-> "implement", role |-> "DEVELOPER"]
    /\ RepairSteps[3] = [step |-> "retest", role |-> "TESTER"]
    /\ RepairSteps[4] = [step |-> "rereview", role |-> "REVIEWER"]
    /\ \A i \in 1..4 : i = 1 \/ i = 2 \/ i = 3 \/ i = 4
BY DEF RepairSteps

\* A task is of a delivery plan when its step has one of these names.
LEMMA DeliveryNames ==
    ASSUME NEW t
    PROVE  IsDelivery(t) <=> t.step \in {"implementation", "documentation", "validation",
                                         "final", "git", "memory"}
<1>1. IsDelivery(t) <=> \/ DeliverySteps[1].step = t.step \/ DeliverySteps[2].step = t.step
                        \/ DeliverySteps[3].step = t.step \/ DeliverySteps[4].step = t.step
                        \/ DeliverySteps[5].step = t.step \/ DeliverySteps[6].step = t.step
  BY DeliveryStepsAre DEF IsDelivery
<1> QED
  BY <1>1, DeliveryStepsAre

\* The tasks that a chain of steps adds to a plan.
LEMMA ChainTasks ==
    ASSUME NEW v \in Nat, NEW steps \in {DeliverySteps, RepairSteps}
    PROVE  /\ Task(v, steps[1]) \in Chain(v, steps)
           /\ \A t \in Chain(v, steps) : t \in AnyTask /\ t.version = v
           /\ \A e \in ChainAfter(v, steps) :
                 e \in Chain(v, steps) \X Chain(v, steps) /\ e[1].version = v
<1>1. /\ Len(steps) \in Nat /\ Len(steps) >= 1
      /\ \A i \in 1..Len(steps) : steps[i].step \in Steps /\ steps[i].role \in Roles
  <2>1. CASE steps = DeliverySteps
    <3>1. \A i \in 1..6 : DeliverySteps[i].step \in Steps /\ DeliverySteps[i].role \in Roles
      BY DeliveryStepsAre DEF Steps, Roles
    <3> QED
      BY <2>1, <3>1, DeliveryStepsAre
  <2>2. CASE steps = RepairSteps
    <3>1. \A i \in 1..4 : RepairSteps[i].step \in Steps /\ RepairSteps[i].role \in Roles
      BY RepairStepsAre DEF Steps, Roles
    <3> QED
      BY <2>2, <3>1, RepairStepsAre
  <2> QED
    BY <2>1, <2>2
<1>2. \A i \in 1..Len(steps) : Task(v, steps[i]) \in AnyTask /\ Task(v, steps[i]).version = v
  BY <1>1 DEF Task, AnyTask
<1>3. \A t \in Chain(v, steps) : t \in AnyTask /\ t.version = v
  BY <1>2 DEF Chain
<1>4. ASSUME NEW i \in 1..(Len(steps) - 1)
      PROVE  Task(v, steps[i + 1]) \in Chain(v, steps) /\ Task(v, steps[i]) \in Chain(v, steps)
  <2>1. i \in 1..Len(steps) /\ i + 1 \in 1..Len(steps)
    BY <1>1
  <2> QED
    BY <2>1 DEF Chain
<1>5. Task(v, steps[1]) \in Chain(v, steps)
  BY <1>1 DEF Chain
<1>6. \A e \in ChainAfter(v, steps) : e \in Chain(v, steps) \X Chain(v, steps)
  BY <1>4 DEF ChainAfter
<1> QED
  BY <1>3, <1>5, <1>6

\* Those of a delivery plan are delivery steps.
LEMMA DeliveryChain ==
    ASSUME NEW v \in Nat
    PROVE  /\ \A t \in Chain(v, DeliverySteps) : IsDelivery(t)
           /\ Task(v, DeliverySteps[3]).step = "validation"
           /\ Task(v, DeliverySteps[5]).step = "git"
           /\ \A i \in 1..6 : Task(v, DeliverySteps[i]) \in Chain(v, DeliverySteps)
           /\ \A t \in Chain(v, DeliverySteps) :
                 \E i \in 1..6 : t = Task(v, DeliverySteps[i])
           /\ <<Task(v, DeliverySteps[4]), Task(v, DeliverySteps[3])>>
                 \in ChainAfter(v, DeliverySteps)
<1>1. \A t \in Chain(v, DeliverySteps) : \E i \in 1..6 : t = Task(v, DeliverySteps[i])
  BY DeliveryStepsAre DEF Chain
<1>2. \A i \in 1..6 : IsDelivery(Task(v, DeliverySteps[i]))
  BY DEF IsDelivery, Task
<1>3. \A i \in 1..6 : Task(v, DeliverySteps[i]) \in Chain(v, DeliverySteps)
  BY DeliveryStepsAre DEF Chain
<1>4. <<Task(v, DeliverySteps[3 + 1]), Task(v, DeliverySteps[3])>>
         \in ChainAfter(v, DeliverySteps)
  <2>1. 3 \in 1..(Len(DeliverySteps) - 1)
    BY DeliveryStepsAre
  <2> QED
    BY <2>1 DEF ChainAfter
<1> QED
  BY <1>1, <1>2, <1>3, <1>4, DeliveryStepsAre DEF Task

\* Those of a repair plan are not.
LEMMA RepairChain ==
    ASSUME NEW v \in Nat, NEW t \in Chain(v, RepairSteps)
    PROVE  /\ ~IsDelivery(t)
           /\ t.role \in {"REPAIR", "DEVELOPER", "TESTER", "REVIEWER"}
<1>1. PICK i \in 1..4 : t = Task(v, RepairSteps[i])
  BY RepairStepsAre DEF Chain
<1>2. /\ t.step \in {"diagnose", "implement", "retest", "rereview"}
      /\ t.role \in {"REPAIR", "DEVELOPER", "TESTER", "REVIEWER"}
  BY <1>1, RepairStepsAre DEF Task
<1> QED
  BY <1>2, DeliveryNames

-----------------------------------------------------------------------------
(* What the actions do to tasks and plans. *)

\* The tasks of a run only grow, and a new one has not been worked on.
NewTasksFresh ==
    /\ status' = [t \in DOMAIN status' |-> status'[t]]
    /\ attempts' = [t \in DOMAIN status' |-> attempts'[t]]
    /\ DOMAIN status \subseteq DOMAIN status'
    /\ \A t \in DOMAIN status' \ DOMAIN status :
          attempts'[t] = <<>> /\ status'[t] \in {"PENDING", "READY"}

WorkStep == NewTasksFresh /\ \A t \in DOMAIN status : TaskMove(t)

\* refresh_ready makes pending tasks ready, and changes nothing else.
LEMMA RefreshedIs ==
    ASSUME NEW st, NEW plan
    PROVE  /\ DOMAIN Refreshed(st, plan) = DOMAIN st
           /\ \A t \in DOMAIN st :
                 \/ Refreshed(st, plan)[t] = st[t]
                 \/ st[t] = "PENDING" /\ Refreshed(st, plan)[t] = "READY"
           /\ Refreshed(st, plan) = [t \in DOMAIN st |-> Refreshed(st, plan)[t]]
BY DEF Refreshed

\* A saved plan is the newest one, and the older ones stay.
LEMMA PlanAppended ==
    ASSUME Types, NEW plan \in PlanSet, plans' = Append(plans, plan)
    PROVE  /\ Version \in Nat /\ Version' = Version + 1 /\ Plan' = plan
           /\ \A v \in 1..Version : plans'[v] = plans[v]
           /\ plans' \in Seq(PlanSet)
           /\ plans' # plans
<1>1. plans \in Seq(PlanSet) /\ Len(plans) \in Nat
  BY LenProperties DEF Types
<1>2. /\ plans' \in Seq(PlanSet)
      /\ Len(plans') = Len(plans) + 1
      /\ plans'[Len(plans) + 1] = plan
      /\ \A i \in 1..Len(plans) : plans'[i] = plans[i]
  BY <1>1, AppendProperties
<1>3. plans' # plans
  BY <1>1, <1>2
<1> QED
  BY <1>1, <1>2, <1>3 DEF Version, Plan

\* A refresh leaves a status or makes it ready.
Promoted(old, new) == new = old \/ (old = "PENDING" /\ new = "READY")

\* Saving a plan adds its new tasks and may make tasks ready.
LEMMA SaveMoves ==
    ASSUME Types, NEW plan \in PlanSet, NEW st, NEW at,
           DOMAIN st = DOMAIN status, DOMAIN at = DOMAIN status, SavePlan(plan, st, at)
    PROVE  /\ Version < MaxVersion /\ plans' = Append(plans, plan)
           /\ NewTasksFresh
           /\ DOMAIN status' = DOMAIN status \union plan.tasks
           /\ \A t \in DOMAIN status :
                 attempts'[t] = at[t] /\ Promoted(st[t], status'[t])
<1> DEFINE added == AddTasks(st, plan.tasks, "PENDING")
<1>1. /\ DOMAIN added = DOMAIN status \union plan.tasks
      /\ \A t \in DOMAIN status : added[t] = st[t]
      /\ \A t \in plan.tasks \ DOMAIN status : added[t] = "PENDING"
  BY DEF AddTasks
<1>2. status' = Refreshed(added, plan)
  BY DEF SavePlan
<1>3. /\ DOMAIN attempts' = DOMAIN status \union plan.tasks
      /\ \A t \in DOMAIN status : attempts'[t] = at[t]
      /\ \A t \in plan.tasks \ DOMAIN status : attempts'[t] = <<>>
      /\ attempts' = [t \in DOMAIN status \union plan.tasks |-> attempts'[t]]
  BY DEF SavePlan, AddTasks
<1> HIDE DEF added
<1>4. /\ DOMAIN status' = DOMAIN status \union plan.tasks
      /\ status' = [t \in DOMAIN status \union plan.tasks |-> status'[t]]
      /\ \A t \in DOMAIN status \union plan.tasks :
            \/ status'[t] = added[t]
            \/ added[t] = "PENDING" /\ status'[t] = "READY"
  BY <1>1, <1>2, RefreshedIs
<1>5. NewTasksFresh
  BY <1>1, <1>3, <1>4 DEF NewTasksFresh
<1> QED
  BY <1>1, <1>3, <1>4, <1>5 DEF SavePlan, Promoted

\* When a run or a plan ends, its tasks keep still or are cancelled.
LEMMA CancelledMoves ==
    ASSUME Types, NEW unstarted, NEW t \in DOMAIN status, Mirrors(t)
    PROVE  LET st == CancelledStatus(unstarted)
               at == CancelledAttempts
           IN  /\ DOMAIN st = DOMAIN status /\ DOMAIN at = DOMAIN status
               /\ \/ /\ HasActive(t)
                     /\ st[t] = "CANCELLED"
                     /\ at[t] = [attempts[t] EXCEPT ![Len(attempts[t])] = "CANCELLED"]
                  \/ /\ ~HasActive(t)
                     /\ at[t] = attempts[t]
                     /\ \/ st[t] = status[t]
                        \/ status[t] \in {"PENDING", "READY"} /\ st[t] = "CANCELLED"
<1>1. DOMAIN attempts = DOMAIN status
  BY DEF Types
<1> QED
  BY <1>1 DEF CancelledStatus, CancelledAttempts

\* An attempt that is cancelled with its task has ended.
LEMMA CancelledReport ==
    ASSUME NEW t, TaskTypes(t), HasActive(t), status'[t] = "CANCELLED",
           attempts'[t] = [attempts[t] EXCEPT ![Len(attempts[t])] = "CANCELLED"]
    PROVE  Reported(t) /\ ~HasActive(t)'
<1>1. Latest(t) \in Active /\ attempts[t] # <<>>
  BY DEF HasActive
<1>2. <<Latest(t), "CANCELLED">> \in AttemptMoves /\ "CANCELLED" \in TaskStatuses
  BY <1>1 DEF AttemptMoves, Active, TaskStatuses
<1>3. Reported(t)
  BY <1>2 DEF Reported
<1>4. attempts'[t][Len(attempts'[t])] = "CANCELLED"
  <2>1. "CANCELLED" \in AttemptStatuses
    BY DEF AttemptStatuses, TaskStatuses
  <2> QED
    BY <2>1, <1>1, LastReplaced DEF TaskTypes
<1> QED
  BY <1>3, <1>4 DEF HasActive, Latest, Active

\* A step that saves a plan, of either kind.
NewPlan(plan) ==
    /\ plan \in PlanSet /\ plan.goal = goal /\ goal > 0
    /\ Version < MaxVersion
    /\ plans' = Append(plans, plan)
    /\ DOMAIN status' = DOMAIN status \union plan.tasks
    /\ UNCHANGED <<setting, state, goal, accepted, reviews, approved, delivery>>

\* A task of a plan from a template.
Proposed(t, v) ==
    t.version = v /\ ~IsDelivery(t) /\ t.role \in {"DEVELOPER", "TESTER", "REVIEWER"}

\* A plan from a template, beside work done before it at most, when nobody works.
FreshPlan(plan) ==
    /\ NewPlan(plan)
    /\ \A t \in plan.tasks :
          Proposed(t, Version + 1) \/ (t = Requirements /\ t \in Succeeded)
    /\ \A e \in plan.after : e \in plan.tasks \X plan.tasks /\ e[1].version = Version + 1
    /\ \A t \in DOMAIN status' : ~HasActive(t)'
    /\ resume' \in {resume, "PLANNED"} /\ (state \notin Suspended => resume' = resume)
    /\ Place' \in Early
    /\ \/ Version = 0
       \/ Place \in Early /\ reviews = <<>>
       \/ bound = NoSubject /\ finalizing = NoSubject /\ Plan.goal # goal

\* A plan that keeps the one before and adds the chain of a repair or of delivery.
ExtendedPlan(plan) ==
    /\ NewPlan(plan)
    /\ PlanServesGoal
    /\ resume' = resume
    /\ \E steps \in {DeliverySteps, RepairSteps} :
          /\ plan.tasks = Plan.tasks \union Chain(Version + 1, steps)
          /\ plan.after \subseteq plan.tasks \X plan.tasks
          /\ Plan.after \union ChainAfter(Version + 1, steps) \subseteq plan.after
          /\ \A e \in plan.after \ Plan.after : e[1].version = Version + 1
          /\ \/ steps = RepairSteps /\ state = "REPAIR_PLANNING" /\ FailedReview
             \/ /\ steps = DeliverySteps /\ state = "REVIEWING" /\ DeliveryBound
                /\ \A t \in Plan.tasks : ~IsDelivery(t)

\* An attempt ended with its task.
LEMMA EndedWork ==
    ASSUME NEW t, TaskTypes(t), Mirrors(t), status[t] \notin Active
    PROVE  ~HasActive(t)
BY DEF Mirrors, HasActive, Active

\* The current plan, when there is one.
LEMMA PlanTyped ==
    ASSUME Types, Version > 0
    PROVE  Version \in Nat /\ Plan \in PlanSet /\ Version \in 1..Version
<1>1. plans \in Seq(PlanSet) /\ Len(plans) \in Nat
  BY LenProperties DEF Types
<1>2. Len(plans) \in 1..Len(plans)
  BY <1>1 DEF Version
<1> QED
  BY <1>1, <1>2, ElementOfSeq DEF Version, Plan

\* There are as many versions as plans.
LEMMA VersionTyped ==
    ASSUME Types
    PROVE  Version \in Nat /\ goal \in Nat /\ MaxVersion \in Nat
BY LenProperties, SettingTyped DEF Types, Version

\* Tasks from a template, and the requirements task before them.
LEMMA PreparedPlan ==
    ASSUME Types, goal > 0, NEW v \in Nat, NEW template, IsTemplate(template),
           NEW prepared \in SUBSET {Requirements},
           NEW tasks, tasks = Planned(v, template),
           NEW after, after = PlannedAfter(v, template),
           NEW plan, plan = [goal |-> goal, tasks |-> tasks \union prepared,
                             after |-> after \union (Roots(tasks, after) \X prepared)]
    PROVE  /\ plan \in PlanSet
           /\ plan.goal = goal
           /\ \A t \in plan.tasks : Proposed(t, v) \/ t \in prepared
           /\ \A e \in plan.after : e \in plan.tasks \X plan.tasks /\ e[1].version = v
<1>1. /\ \A t \in tasks : /\ t \in AnyTask
                          /\ t.version = v
                          /\ t.role \in {"DEVELOPER", "TESTER", "REVIEWER"}
                          /\ ~IsDelivery(t)
      /\ \A e \in after : e \in tasks \X tasks /\ e[1].version = v
  BY PlannedTasks
<1>2. Requirements \in AnyTask
  BY DEF Requirements, AnyTask, Steps, Roles
<1>3. \A e \in Roots(tasks, after) \X prepared :
         e \in (tasks \union prepared) \X (tasks \union prepared) /\ e[1].version = v
  BY <1>1 DEF Roots
<1>4. \A e \in plan.after : e \in plan.tasks \X plan.tasks /\ e[1].version = v
  BY <1>1, <1>3
<1>5. plan.tasks \subseteq AnyTask
  BY <1>1, <1>2
<1>6. plan \in PlanSet
  <2>1. plan.after \subseteq AnyTask \X AnyTask
    BY <1>4, <1>5
  <2> QED
    BY <1>5, <2>1, VersionTyped DEF PlanSet
<1> QED
  BY <1>1, <1>4, <1>6 DEF Proposed

\* Before the first plan there is the requirements task at most.
LEMMA InstallPlanMoves ==
    ASSUME IInv, setting' = setting, NEW template \in Templates, InstallPlan(template)
    PROVE  WorkStep /\ \E plan : FreshPlan(plan)
<1> DEFINE prepared == DOMAIN status \intersect {Requirements}
           tasks == Planned(1, template)
           after == PlannedAfter(1, template)
           plan == [goal |-> goal, tasks |-> tasks \union prepared,
                    after |-> after \union (Roots(tasks, after) \X prepared)]
<1>1. /\ Types /\ state = "GOAL_DEFINED" /\ Version = 0 /\ goal > 0 /\ prepared \subseteq Succeeded
      /\ SavePlan(plan, status, attempts)
      /\ UNCHANGED <<state, resume, goal, accepted, reviews, approved, delivery>>
  BY DEF InstallPlan, IInv, lifecycle
<1>2. IsTemplate(template)
  BY <1>1, SettingTyped
<1>3. /\ plan \in PlanSet
      /\ plan.goal = goal
      /\ \A t \in plan.tasks : Proposed(t, 1) \/ t \in prepared
      /\ \A e \in plan.after : e \in plan.tasks \X plan.tasks /\ e[1].version = 1
  <2>1. prepared \in SUBSET {Requirements} /\ 1 \in Nat
    OBVIOUS
  <2>2. tasks = Planned(1, template) /\ after = PlannedAfter(1, template)
    OBVIOUS
  <2>3. plan = [goal |-> goal, tasks |-> tasks \union prepared,
                after |-> after \union (Roots(tasks, after) \X prepared)]
    OBVIOUS
  <2> HIDE DEF plan, tasks, after, prepared
  <2> QED
    BY <1>1, <1>2, <2>1, <2>2, <2>3, PreparedPlan
<1> HIDE DEF plan, tasks, after
<1>4. plan.goal = goal
  BY <1>3
<1>5. DOMAIN attempts = DOMAIN status
  BY <1>1 DEF Types
<1>6. /\ Version < MaxVersion /\ plans' = Append(plans, plan)
      /\ NewTasksFresh
      /\ DOMAIN status' = DOMAIN status \union plan.tasks
      /\ \A t \in DOMAIN status :
            /\ attempts'[t] = attempts[t]
            /\ Promoted(status[t], status'[t])
  <2>1. SavePlan(plan, status, attempts) /\ plan \in PlanSet /\ Types
    BY <1>1, <1>3
  <2> QED
    BY <2>1, <1>5, SaveMoves
<1>7. WorkStep
  BY <1>6 DEF WorkStep, TaskMove, Kept, Promoted
<1>8. NewPlan(plan)
  BY <1>1, <1>3, <1>4, <1>6 DEF NewPlan
<1>9. ASSUME NEW t \in DOMAIN status' PROVE ~HasActive(t)'
  <2>1. CASE t \in DOMAIN status
    <3>1. TaskTypes(t) /\ t \in AnyTask /\ Mirrors(t) /\ TaskShape(t)
      BY <2>1, <1>1, TaskTyped DEF IInv, WorkInv, Shapes
    <3>2. t = Requirements
      BY <3>1, <1>1 DEF TaskShape, AnyTask
    <3>3. status[t] \notin Active
      BY <3>2, <2>1, <1>1 DEF Succeeded, Active
    <3> QED
      BY <3>1, <3>3, <2>1, <1>6, EndedWork DEF HasActive, Latest
  <2>2. CASE t \notin DOMAIN status
    BY <2>2, <1>6 DEF NewTasksFresh, HasActive
  <2> QED
    BY <2>1, <2>2
<1>10. Place' \in Early
  BY <1>1 DEF Place, Suspended, Early
<1>11. Version + 1 = 1
  BY <1>1
<1> QED
  BY <1>1, <1>3, <1>7, <1>8, <1>9, <1>10, <1>11 DEF FreshPlan

\* While the plan can still be edited nobody has worked on it.
LEMMA ReplacePreviewMoves ==
    ASSUME IInv, setting' = setting, NEW template \in Templates, ReplacePreview(template)
    PROVE  WorkStep /\ \E plan : FreshPlan(plan)
<1> DEFINE prepared == Plan.tasks \intersect {Requirements}
           tasks == Planned(Version + 1, template)
           after == PlannedAfter(Version + 1, template)
           plan == [goal |-> goal, tasks |-> tasks \union prepared,
                    after |-> after \union (Roots(tasks, after) \X prepared)]
           st == [t \in DOMAIN status |->
                     IF t \in Plan.tasks \ prepared THEN "CANCELLED" ELSE status[t]]
<1>1. /\ Types /\ PlanServesGoal
      /\ state = "PLANNED" \/ (state = "PAUSED" /\ resume = "PLANNED")
      /\ \A t \in DOMAIN attempts : t.version > 0 => attempts[t] = <<>>
      /\ \A t \in Plan.tasks \ prepared : status[t] \in {"PENDING", "READY"}
      /\ SavePlan(plan, st, attempts)
      /\ UNCHANGED <<state, resume, goal, accepted, reviews, approved, delivery>>
  BY DEF ReplacePreview, IInv, lifecycle
<1>2. IsTemplate(template) /\ Version > 0 /\ Version \in Nat
  BY <1>1, SettingTyped, VersionTyped DEF PlanServesGoal
<1>0. Version \in 1..Version
  BY <1>2
<1>3. goal > 0 /\ prepared \subseteq Succeeded
  <2>1. Plan.goal \in 1..goal
    BY <1>0, <1>1, <1>2 DEF IInv, Shapes, PlanShape, Plan
  <2>2. prepared \subseteq Succeeded
    BY <1>2 DEF IInv, Shapes
  <2> QED
    BY <2>1, <2>2, <1>1, VersionTyped
<1>4. /\ plan \in PlanSet
      /\ plan.goal = goal
      /\ \A t \in plan.tasks : Proposed(t, Version + 1) \/ t \in prepared
      /\ \A e \in plan.after : e \in plan.tasks \X plan.tasks /\ e[1].version = Version + 1
  <2>1. prepared \in SUBSET {Requirements} /\ Version + 1 \in Nat
    BY <1>2
  <2>2. tasks = Planned(Version + 1, template) /\ after = PlannedAfter(Version + 1, template)
    OBVIOUS
  <2>3. plan = [goal |-> goal, tasks |-> tasks \union prepared,
                after |-> after \union (Roots(tasks, after) \X prepared)]
    OBVIOUS
  <2> HIDE DEF plan, tasks, after, prepared
  <2> QED
    BY <1>1, <1>2, <1>3, <2>1, <2>2, <2>3, PreparedPlan
<1> HIDE DEF plan, tasks, after
<1>5. plan.goal = goal
  BY <1>4
<1>6. DOMAIN attempts = DOMAIN status /\ DOMAIN st = DOMAIN status
  BY <1>1 DEF Types
<1>7. /\ Version < MaxVersion /\ plans' = Append(plans, plan)
      /\ NewTasksFresh
      /\ DOMAIN status' = DOMAIN status \union plan.tasks
      /\ \A t \in DOMAIN status :
            /\ attempts'[t] = attempts[t]
            /\ Promoted(st[t], status'[t])
  <2>1. SavePlan(plan, st, attempts) /\ plan \in PlanSet /\ Types
    BY <1>1, <1>4
  <2> HIDE DEF st
  <2> QED
    BY <2>1, <1>6, SaveMoves
<1>8. \A t \in DOMAIN status :
         st[t] = status[t] \/ (status[t] \in {"PENDING", "READY"} /\ st[t] = "CANCELLED")
  BY <1>1
<1>9. WorkStep
  BY <1>7, <1>8 DEF WorkStep, TaskMove, Kept, Promoted
<1>10. NewPlan(plan)
  BY <1>1, <1>3, <1>4, <1>5, <1>7 DEF NewPlan
<1>11. ASSUME NEW t \in DOMAIN status' PROVE ~HasActive(t)'
  <2>1. CASE t \in DOMAIN status
    <3>1. TaskTypes(t) /\ t \in AnyTask /\ Mirrors(t) /\ TaskShape(t)
      BY <2>1, <1>1, TaskTyped DEF IInv, WorkInv, Shapes
    <3>2. CASE t.version > 0
      BY <3>2, <2>1, <1>1, <1>6, <1>7 DEF HasActive
    <3>3. CASE t.version = 0
      <4>1. t = Requirements
        BY <3>1, <3>3 DEF TaskShape
      <4>2. HasActive(t) => t \in Plan.tasks
        BY <2>1, <1>2, <1>6 DEF IInv, WorkInv, ActiveWorkInCurrentPlan
      <4>3. t \in Plan.tasks => status[t] \notin Active
        BY <4>1, <1>3 DEF Succeeded, Active
      <4> QED
        BY <4>2, <4>3, <3>1, <2>1, <1>7, EndedWork DEF HasActive, Latest
    <3> QED
      BY <3>1, <3>2, <3>3 DEF AnyTask
  <2>2. CASE t \notin DOMAIN status
    BY <2>2, <1>7 DEF NewTasksFresh, HasActive
  <2> QED
    BY <2>1, <2>2
<1>12. Place \in Early /\ Place' \in Early
  BY <1>1 DEF Place, Suspended, Early
<1>13. reviews = <<>>
  <2>1. reviews \in Seq(ReviewSet)
    BY <1>1 DEF Types
  <2>2. Len(reviews) \in Nat
    BY <2>1, LenProperties
  <2>3. SUFFICES ASSUME Len(reviews) > 0 PROVE FALSE
    BY <2>1, <2>2, EmptySeq
  <2>4. 1 \in 1..Len(reviews)
    BY <2>2, <2>3
  <2> QED
    BY <2>4, <1>1, <1>6 DEF IInv, ReviewInv
<1> QED
  BY <1>1, <1>3, <1>4, <1>9, <1>10, <1>11, <1>12, <1>13 DEF FreshPlan

\* A plan for a revised goal cancels what is open of the old one.
LEMMA ReplanMoves ==
    ASSUME IInv, setting' = setting, NEW template \in Templates, Replan(template)
    PROVE  WorkStep /\ \E plan : FreshPlan(plan)
<1> DEFINE plan == [goal |-> goal, tasks |-> Planned(Version + 1, template),
                    after |-> PlannedAfter(Version + 1, template)]
           st == CancelledStatus(Plan.tasks)
           at == CancelledAttempts
<1>1. /\ Types /\ state \in {"PAUSED", "HUMAN_REVIEW_REQUIRED"}
      /\ Version > 0 /\ Plan.goal # goal /\ bound = NoSubject /\ finalizing = NoSubject
      /\ SavePlan(plan, st, at)
      /\ resume' = "PLANNED"
      /\ UNCHANGED <<state, goal, accepted, reviews, approved, delivery>>
  BY DEF Replan, ReplanGuard, LeaseFree, IInv
<1>2. IsTemplate(template) /\ Version \in Nat
  BY <1>1, SettingTyped, VersionTyped
<1>0. Version \in 1..Version
  BY <1>1, <1>2
<1>3. goal > 0
  BY <1>0, <1>2, VersionTyped, <1>1 DEF IInv, Shapes, PlanShape
<1>4. /\ plan \in PlanSet
      /\ \A t \in plan.tasks :
            /\ t.version = Version + 1 /\ ~IsDelivery(t)
            /\ t.role \in {"DEVELOPER", "TESTER", "REVIEWER"}
      /\ \A e \in plan.after : e \in plan.tasks \X plan.tasks /\ e[1].version = Version + 1
  <2>1. /\ \A t \in plan.tasks : /\ t \in AnyTask
                                 /\ t.version = Version + 1
                                 /\ t.role \in {"DEVELOPER", "TESTER", "REVIEWER"}
                                 /\ ~IsDelivery(t)
        /\ \A e \in plan.after : e \in plan.tasks \X plan.tasks /\ e[1].version = Version + 1
    BY <1>2, PlannedTasks
  <2>2. plan.after \subseteq AnyTask \X AnyTask /\ plan.tasks \subseteq AnyTask /\ goal \in Nat
    BY <2>1, <1>1, VersionTyped
  <2>3. plan \in PlanSet
    BY <2>2 DEF PlanSet
  <2> QED
    BY <2>1, <2>3
<1>5. plan.goal = goal
  OBVIOUS
<1> HIDE DEF plan
<1>6. \A t \in DOMAIN status : TaskTypes(t) /\ Mirrors(t)
  BY <1>1, TaskTyped DEF IInv, WorkInv
<1>7. /\ DOMAIN st = DOMAIN status /\ DOMAIN at = DOMAIN status
      /\ \A t \in DOMAIN status :
            \/ /\ HasActive(t)
               /\ st[t] = "CANCELLED"
               /\ at[t] = [attempts[t] EXCEPT ![Len(attempts[t])] = "CANCELLED"]
            \/ /\ ~HasActive(t)
               /\ at[t] = attempts[t]
               /\ \/ st[t] = status[t]
                  \/ status[t] \in {"PENDING", "READY"} /\ st[t] = "CANCELLED"
  <2>1. DOMAIN st = DOMAIN status /\ DOMAIN at = DOMAIN status
    BY <1>1 DEF CancelledStatus, CancelledAttempts, Types
  <2> QED
    BY <2>1, <1>1, <1>6, CancelledMoves
<1> HIDE DEF st, at
<1>8. /\ Version < MaxVersion /\ plans' = Append(plans, plan)
      /\ NewTasksFresh
      /\ DOMAIN status' = DOMAIN status \union plan.tasks
      /\ \A t \in DOMAIN status :
            /\ attempts'[t] = at[t]
            /\ Promoted(st[t], status'[t])
  BY <1>1, <1>4, <1>7, SaveMoves
<1>9. ASSUME NEW t \in DOMAIN status PROVE TaskMove(t) /\ ~HasActive(t)'
  <2>1. CASE HasActive(t)
    <3>1. /\ status'[t] = "CANCELLED"
          /\ attempts'[t] = [attempts[t] EXCEPT ![Len(attempts[t])] = "CANCELLED"]
      BY <2>1, <1>7, <1>8 DEF Promoted
    <3> QED
      BY <3>1, <2>1, <1>6, CancelledReport DEF TaskMove
  <2>2. CASE ~HasActive(t)
    BY <2>2, <1>7, <1>8 DEF TaskMove, Kept, Promoted, HasActive, Latest
  <2> QED
    BY <2>1, <2>2
<1>10. WorkStep
  BY <1>8, <1>9 DEF WorkStep
<1>11. NewPlan(plan)
  BY <1>1, <1>3, <1>4, <1>5, <1>8 DEF NewPlan
<1>12. \A t \in DOMAIN status' : ~HasActive(t)'
  BY <1>8, <1>9 DEF NewTasksFresh, HasActive
<1>13. Place' \in Early
  BY <1>1 DEF Place, Suspended, Early
<1> QED
  BY <1>1, <1>3, <1>4, <1>10, <1>11, <1>12, <1>13 DEF FreshPlan, Suspended, Proposed

\* A revision changes no task there is.
LEMMA ExtendMoves ==
    ASSUME IInv, setting' = setting, NEW steps \in {DeliverySteps, RepairSteps},
           NEW first \in SUBSET Plan.tasks, Extend(steps, first),
           UNCHANGED <<lifecycle, goal, accepted, reviews, approved, delivery>>
    PROVE  /\ WorkStep
           /\ \E plan :
                 /\ NewPlan(plan)
                 /\ resume' = resume
                 /\ plan.tasks = Plan.tasks \union Chain(Version + 1, steps)
                 /\ plan.after \subseteq plan.tasks \X plan.tasks
                 /\ Plan.after \union ChainAfter(Version + 1, steps) \subseteq plan.after
                 /\ \A e \in plan.after \ Plan.after : e[1].version = Version + 1
<1> DEFINE v == Version + 1
           chain == Chain(v, steps)
           chainAfter == ChainAfter(v, steps)
           head == Task(v, steps[1])
           plan == [goal |-> goal, tasks |-> Plan.tasks \union chain,
                    after |-> Plan.after \union chainAfter \union ({head} \X first)]
<1>1. Types /\ Version > 0 /\ SavePlan(plan, status, attempts)
  BY DEF Extend, IInv, PlanServesGoal
<1>2. Version \in Nat /\ v \in Nat /\ Version \in 1..Version /\ Plan \in PlanSet /\ goal \in Nat
  BY <1>1, PlanTyped, VersionTyped
<1>3. /\ head \in chain
      /\ \A t \in chain : t \in AnyTask /\ t.version = v
      /\ \A e \in chainAfter : e \in chain \X chain /\ e[1].version = v
  BY <1>2, ChainTasks
<1>4. Plan.after \subseteq Plan.tasks \X Plan.tasks /\ Plan.tasks \subseteq AnyTask
      /\ Plan.goal \in 1..goal
  BY <1>2 DEF IInv, Shapes, PlanShape, Plan, PlanSet
<1>5. /\ plan.goal = goal
      /\ plan.tasks = Plan.tasks \union chain
      /\ plan.after = Plan.after \union chainAfter \union ({head} \X first)
  OBVIOUS
<1>6. plan = [goal |-> goal, tasks |-> plan.tasks, after |-> plan.after]
  OBVIOUS
<1> HIDE DEF plan, chain, chainAfter, head
<1>7. \A e \in {head} \X first : e \in plan.tasks \X plan.tasks /\ e[1].version = v
  BY <1>3, <1>5
<1>8. plan.after \subseteq plan.tasks \X plan.tasks
  BY <1>3, <1>4, <1>5, <1>7
<1>9. plan.tasks \subseteq AnyTask
  BY <1>3, <1>4, <1>5
<1>10. plan \in PlanSet
  <2>1. plan.after \subseteq AnyTask \X AnyTask
    BY <1>8, <1>9
  <2> QED
    BY <1>2, <1>6, <1>9, <2>1 DEF PlanSet
<1>11. DOMAIN attempts = DOMAIN status
  BY <1>1 DEF Types
<1>12. /\ Version < MaxVersion /\ plans' = Append(plans, plan)
       /\ NewTasksFresh
       /\ DOMAIN status' = DOMAIN status \union plan.tasks
       /\ \A t \in DOMAIN status :
             attempts'[t] = attempts[t] /\ Promoted(status[t], status'[t])
  BY <1>1, <1>10, <1>11, SaveMoves
<1>13. WorkStep
  BY <1>12 DEF WorkStep, TaskMove, Kept, Promoted
<1>14. state' = state /\ resume' = resume
  BY DEF lifecycle
<1>15. goal > 0
  BY <1>2, <1>4
<1>16. NewPlan(plan)
  BY <1>5, <1>10, <1>12, <1>14, <1>15 DEF NewPlan
<1>17. \A e \in plan.after \ Plan.after : e[1].version = v
  BY <1>3, <1>5, <1>7
<1>18. Plan.after \union chainAfter \subseteq plan.after
  BY <1>5
<1> QED
  BY <1>5, <1>8, <1>13, <1>14, <1>16, <1>17, <1>18 DEF chain, chainAfter

\* A repair extends the plan of a failed review.
LEMMA InstallRepairMoves ==
    ASSUME IInv, setting' = setting, InstallRepair
    PROVE  WorkStep /\ \E plan : ExtendedPlan(plan)
<1>1. /\ Extend(RepairSteps, {}) /\ state = "REPAIR_PLANNING" /\ FailedReview
      /\ UNCHANGED <<lifecycle, goal, accepted, reviews, approved, delivery>>
      /\ PlanServesGoal
  BY DEF InstallRepair, Extend
<1>2. /\ WorkStep
      /\ \E plan :
            /\ NewPlan(plan)
            /\ resume' = resume
            /\ plan.tasks = Plan.tasks \union Chain(Version + 1, RepairSteps)
            /\ plan.after \subseteq plan.tasks \X plan.tasks
            /\ Plan.after \union ChainAfter(Version + 1, RepairSteps) \subseteq plan.after
            /\ \A e \in plan.after \ Plan.after : e[1].version = Version + 1
  <2>1. {} \in SUBSET Plan.tasks /\ RepairSteps \in {DeliverySteps, RepairSteps}
    OBVIOUS
  <2> QED
    BY <1>1, <2>1, ExtendMoves
<1> QED
  BY <1>1, <1>2 DEF ExtendedPlan

\* A delivery plan extends the plan that was bound.
LEMMA InstallDeliveryMoves ==
    ASSUME IInv, setting' = setting, InstallDelivery
    PROVE  WorkStep /\ \E plan : ExtendedPlan(plan)
<1>1. /\ Extend(DeliverySteps, Plan.tasks \intersect Succeeded) /\ state = "REVIEWING"
      /\ DeliveryBound
      /\ \A t \in Plan.tasks : ~IsDelivery(t)
      /\ UNCHANGED <<lifecycle, goal, accepted, reviews, approved, delivery>>
      /\ PlanServesGoal
  BY DEF InstallDelivery, Extend
<1>2. /\ WorkStep
      /\ \E plan :
            /\ NewPlan(plan)
            /\ resume' = resume
            /\ plan.tasks = Plan.tasks \union Chain(Version + 1, DeliverySteps)
            /\ plan.after \subseteq plan.tasks \X plan.tasks
            /\ Plan.after \union ChainAfter(Version + 1, DeliverySteps) \subseteq plan.after
            /\ \A e \in plan.after \ Plan.after : e[1].version = Version + 1
  <2>1. /\ (Plan.tasks \intersect Succeeded) \in SUBSET Plan.tasks
        /\ DeliverySteps \in {DeliverySteps, RepairSteps}
    OBVIOUS
  <2> QED
    BY <1>1, <2>1, ExtendMoves
<1> QED
  BY <1>1, <1>2 DEF ExtendedPlan

\* A step that saves no plan adds the requirements task at most.
WorkOnly ==
    /\ WorkStep
    /\ plans' = plans
    /\ DOMAIN status' = DOMAIN status \/ (Version = 0 /\ DOMAIN status' = DOMAIN status \union {Requirements})

\* A step that leaves the work alone moves no task.
LEMMA NothingMoves ==
    ASSUME Types, status' = status, attempts' = attempts, plans' = plans
    PROVE  WorkOnly
BY DEF Types, WorkOnly, WorkStep, NewTasksFresh, TaskMove, Kept

\* A run that ends cancels its open tasks; a run that goes on moves none.
LEMMA AdvanceMoves ==
    ASSUME IInv, NEW target, Advance(target)
    PROVE  /\ WorkOnly
           /\ target \in Terminal => \A t \in DOMAIN status' : ~HasActive(t)'
           /\ target \notin Terminal => status' = status /\ attempts' = attempts
<1>1. Types /\ plans' = plans
  BY DEF IInv, Advance, planning
<1>2. CASE target \notin Terminal
  BY <1>1, <1>2, NothingMoves DEF Advance, work
<1>3. CASE target \in Terminal
  <2> DEFINE unstarted == IF Version > 0 THEN Plan.tasks ELSE {}
  <2>1. status' = CancelledStatus(unstarted) /\ attempts' = CancelledAttempts
    BY <1>3 DEF Advance
  <2> HIDE DEF unstarted
  <2>2. \A t \in DOMAIN status : TaskTypes(t) /\ Mirrors(t)
    BY <1>1, TaskTyped DEF IInv, WorkInv
  <2>3. DOMAIN status' = DOMAIN status /\ DOMAIN attempts' = DOMAIN status
    BY <1>1, <2>1 DEF CancelledStatus, CancelledAttempts, Types
  <2>4. ASSUME NEW t \in DOMAIN status PROVE TaskMove(t) /\ ~HasActive(t)'
    <3>1. \/ /\ HasActive(t)
             /\ status'[t] = "CANCELLED"
             /\ attempts'[t] = [attempts[t] EXCEPT ![Len(attempts[t])] = "CANCELLED"]
          \/ /\ ~HasActive(t)
             /\ attempts'[t] = attempts[t]
             /\ \/ status'[t] = status[t]
                \/ status[t] \in {"PENDING", "READY"} /\ status'[t] = "CANCELLED"
      BY <1>1, <2>1, <2>2, CancelledMoves
    <3>2. CASE HasActive(t)
      BY <2>2, <3>1, <3>2, CancelledReport DEF TaskMove
    <3>3. CASE ~HasActive(t)
      BY <3>1, <3>3 DEF TaskMove, Kept, HasActive, Latest
    <3> QED
      BY <3>2, <3>3
  <2>5. NewTasksFresh
    BY <2>1, <2>3 DEF NewTasksFresh, CancelledStatus, CancelledAttempts
  <2> QED
    BY <1>1, <1>3, <2>3, <2>4, <2>5 DEF WorkOnly, WorkStep
<1> QED
  BY <1>2, <1>3

\* The requirements task is new and has no attempts.
LEMMA AddRequirementsMoves ==
    ASSUME IInv, AddRequirements
    PROVE  WorkOnly
<1>1. Types /\ plans' = plans /\ Version = 0
  BY DEF IInv, AddRequirements, planning
<1>2. /\ status' = [t \in DOMAIN status \union {Requirements} |->
                       IF t \in DOMAIN status THEN status[t] ELSE "READY"]
      /\ attempts' = [t \in DOMAIN status \union {Requirements} |->
                         IF t \in DOMAIN status THEN attempts[t] ELSE <<>>]
  BY <1>1 DEF AddRequirements, AddTasks, Types
<1> QED
  BY <1>1, <1>2 DEF WorkOnly, WorkStep, NewTasksFresh, TaskMove, Kept

\* A start moves the one task.
LEMMA StartMoves ==
    ASSUME IInv, NEW u \in DOMAIN status, Start(u)
    PROVE  WorkOnly
<1>1. Types /\ plans' = plans
  BY DEF IInv, Start, planning
<1>2. /\ status' = [status EXCEPT ![u] = "RUNNING"]
      /\ attempts' = [attempts EXCEPT ![u] = Append(@, "RUNNING")]
      /\ DOMAIN attempts = DOMAIN status
  BY <1>1 DEF Start, Types
<1> QED
  BY <1>1, <1>2 DEF WorkOnly, WorkStep, NewTasksFresh, TaskMove, Kept

\* A recovery moves the one task.
LEMMA RecoverMoves ==
    ASSUME IInv, NEW u \in DOMAIN status, Recover(u)
    PROVE  WorkOnly
<1>1. Types /\ plans' = plans
  BY DEF IInv, Recover, planning
<1>2. /\ status' = [status EXCEPT ![u] = "READY"]
      /\ attempts' = [attempts EXCEPT ![u][Len(attempts[u])] = "FAILED"]
      /\ DOMAIN attempts = DOMAIN status
      /\ HasActive(u)
  BY <1>1 DEF Recover, Retirable, Types
<1>3. Retired(u)
  BY <1>2 DEF Retired
<1> QED
  BY <1>1, <1>2, <1>3 DEF WorkOnly, WorkStep, NewTasksFresh, TaskMove, Kept

\* A report moves the one task and may make its dependents ready.
LEMMA TransitionMoves ==
    ASSUME IInv, NEW u \in DOMAIN status, NEW s \in Reports, Transition(u, s)
    PROVE  WorkOnly
<1> DEFINE reported == [status EXCEPT ![u] = s]
<1>1. Types /\ plans' = plans /\ s \in TaskStatuses /\ s # "PENDING"
  BY SettingTyped DEF IInv, Transition, planning, AttemptStatuses
<1>2. /\ status' = reported \/ status' = Refreshed(reported, Plan)
      /\ attempts' = [attempts EXCEPT ![u][Len(attempts[u])] = s]
      /\ DOMAIN attempts = DOMAIN status
      /\ attempts[u] # <<>> /\ <<Latest(u), s>> \in AttemptMoves
      /\ state \in ExecutionStates \/ s = "CANCELLED"
  BY <1>1 DEF Transition, Types
<1>3. HasActive(u)
  BY <1>2 DEF HasActive, AttemptMoves, Active
<1>4. DOMAIN reported = DOMAIN status
  OBVIOUS
<1>5. /\ DOMAIN status' = DOMAIN status
      /\ status' = [t \in DOMAIN status' |-> status'[t]]
      /\ \A t \in DOMAIN status :
            \/ status'[t] = reported[t]
            \/ reported[t] = "PENDING" /\ status'[t] = "READY"
  <2>1. CASE status' = reported
    BY <2>1
  <2>2. CASE status' = Refreshed(reported, Plan)
    <3> HIDE DEF reported
    <3> QED
      BY <2>2, <1>4, RefreshedIs
  <2> QED
    BY <1>2, <2>1, <2>2
<1>6. Reported(u)
  <2>1. status'[u] = s
    BY <1>1, <1>5
  <2> QED
    BY <1>1, <1>2, <1>3, <2>1 DEF Reported
<1>7. ASSUME NEW t \in DOMAIN status, t # u PROVE Kept(t)
  <2>1. reported[t] = status[t] /\ attempts'[t] = attempts[t]
    BY <1>2, <1>7
  <2> QED
    BY <2>1, <1>5 DEF Kept
<1>8. NewTasksFresh
  BY <1>2, <1>5 DEF NewTasksFresh
<1> QED
  BY <1>1, <1>5, <1>6, <1>7, <1>8 DEF WorkOnly, WorkStep, TaskMove

-----------------------------------------------------------------------------
(* What a step changes, and which action changed it. *)

\* Every step is one of these.
LEMMA NextCases ==
    ASSUME [Next]_vars
    PROVE  /\ setting' = setting
           /\ \/ \E target \in States : Advance(target)
              \/ \E stage \in Gates : Decide(stage)
              \/ DefineGoal
              \/ ReviseGoal
              \/ Validate
              \/ \E template \in Templates : InstallPlan(template)
              \/ \E template \in Templates : ReplacePreview(template)
              \/ \E template \in Templates : Replan(template)
              \/ InstallRepair
              \/ InstallDelivery
              \/ AddRequirements
              \/ \E t \in DOMAIN status : Start(t)
              \/ \E t \in DOMAIN status : Recover(t)
              \/ \E t \in DOMAIN status, s \in Reports : Transition(t, s)
              \/ \E t \in DOMAIN status, overall \in {"PASS", "FAIL"} : RecordReview(t, overall)
              \/ CreateWorkspace
              \/ FinalizeBind
              \/ EffectEnd
              \/ ControllerStops
              \/ \E push \in Pushes : FinalizeBegin(push)
              \/ \E c \in {"implementation", "documentation", "final", "memory"} : Certify(c)
              \/ \E c \in {"validation", "commit", "push"} : EffectBegin(c)
              \/ UNCHANGED vars
BY DEF Next, Goals, Planning, Work, Delivery, vars

\* Only these actions change it, of each part of the state.
LEMMA NextChanges ==
    ASSUME [Next]_vars
    PROVE  /\ UNCHANGED lifecycle \/ (\E target \in States : Advance(target))
              \/ \E template \in Templates : Replan(template)
           /\ goal' = goal \/ DefineGoal \/ ReviseGoal
           /\ UNCHANGED <<status, attempts, plans>> \/ (\E target \in States : Advance(target))
              \/ Planning \/ AddRequirements
              \/ \E t \in DOMAIN status :
                    Start(t) \/ Recover(t) \/ \E s \in Reports : Transition(t, s)
           /\ iteration' = iteration \/ InstallRepair
           /\ reviews' = reviews
              \/ \E t \in DOMAIN status, overall \in {"PASS", "FAIL"} : RecordReview(t, overall)
           /\ approved \subseteq approved'
           /\ workspace' = workspace \/ CreateWorkspace
           /\ finalizing' \in {finalizing, NoSubject} \/ \E push \in Pushes : FinalizeBegin(push)
           /\ bound' = bound \/ FinalizeBind
           /\ effect' \in {effect, "none"}
              \/ \E c \in {"validation", "commit", "push"} : EffectBegin(c)
           /\ certs' = certs \/ EffectEnd
              \/ \E c \in {"implementation", "documentation", "final", "memory"} : Certify(c)
<1>1. CASE \E target \in States : Advance(target)
  BY <1>1 DEF Advance, lifecycle, planning, work, delivery
<1>2. CASE \E stage \in Gates : Decide(stage)
  BY <1>2 DEF Decide, lifecycle, planning, work, delivery
<1>3. CASE DefineGoal
  BY <1>3 DEF DefineGoal, lifecycle, planning, work, delivery
<1>4. CASE ReviseGoal
  BY <1>4 DEF ReviseGoal, lifecycle, planning, work, delivery
<1>5. CASE Validate
  BY <1>5 DEF Validate, lifecycle, planning, work, delivery
<1>6. CASE \E template \in Templates : InstallPlan(template)
  BY <1>6 DEF InstallPlan, SavePlan, Planning, lifecycle, planning, work, delivery
<1>7. CASE \E template \in Templates : ReplacePreview(template)
  BY <1>7 DEF ReplacePreview, SavePlan, Planning, lifecycle, planning, work, delivery
<1>8. CASE \E template \in Templates : Replan(template)
  BY <1>8 DEF Replan, SavePlan, Planning, lifecycle, planning, work, delivery
<1>9. CASE InstallRepair
  BY <1>9 DEF InstallRepair, Planning, lifecycle, planning, work, delivery
<1>10. CASE InstallDelivery
  BY <1>10 DEF InstallDelivery, Planning, lifecycle, planning, work, delivery
<1>11. CASE AddRequirements
  BY <1>11 DEF AddRequirements, lifecycle, planning, work, delivery
<1>12. CASE \E t \in DOMAIN status : Start(t)
  BY <1>12 DEF Start, lifecycle, planning, work, delivery
<1>13. CASE \E t \in DOMAIN status : Recover(t)
  BY <1>13 DEF Recover, lifecycle, planning, work, delivery
<1>14. CASE \E t \in DOMAIN status, s \in Reports : Transition(t, s)
  BY <1>14 DEF Transition, lifecycle, planning, work, delivery
<1>15. CASE \E t \in DOMAIN status, overall \in {"PASS", "FAIL"} : RecordReview(t, overall)
  BY <1>15 DEF RecordReview, lifecycle, planning, work, delivery
<1>16. CASE CreateWorkspace
  BY <1>16 DEF CreateWorkspace, lifecycle, planning, work, delivery
<1>17. CASE FinalizeBind
  BY <1>17 DEF FinalizeBind, lifecycle, planning, work, delivery
<1>18. CASE EffectEnd
  BY <1>18 DEF EffectEnd, lifecycle, planning, work, delivery
<1>19. CASE ControllerStops
  BY <1>19 DEF ControllerStops, lifecycle, planning, work, delivery
<1>20. CASE \E push \in Pushes : FinalizeBegin(push)
  BY <1>20 DEF FinalizeBegin, lifecycle, planning, work, delivery
<1>21. CASE \E c \in {"implementation", "documentation", "final", "memory"} : Certify(c)
  BY <1>21 DEF Certify, lifecycle, planning, work, delivery
<1>22. CASE \E c \in {"validation", "commit", "push"} : EffectBegin(c)
  BY <1>22 DEF EffectBegin, lifecycle, planning, work, delivery
<1>23. CASE UNCHANGED vars
  BY <1>23 DEF vars, lifecycle, planning, work, delivery
<1> QED
  BY NextCases, <1>1, <1>2, <1>3, <1>4, <1>5, <1>6, <1>7, <1>8, <1>9, <1>10, <1>11, <1>12, <1>13, <1>14, <1>15, <1>16, <1>17, <1>18, <1>19, <1>20, <1>21, <1>22, <1>23

\* What a step does to the work and the plans of a run.
LEMMA NextMoves ==
    ASSUME IInv, [Next]_vars
    PROVE  /\ setting' = setting
           /\ WorkStep
           /\ \/ WorkOnly
              \/ \E plan : FreshPlan(plan)
              \/ \E plan : ExtendedPlan(plan)
<1>1. setting' = setting
  BY NextCases
<1>2. CASE UNCHANGED <<status, attempts, plans>>
  BY <1>1, <1>2, NothingMoves DEF IInv, WorkOnly
<1>3. CASE \E target \in States : Advance(target)
  BY <1>1, <1>3, AdvanceMoves DEF WorkOnly
<1>4. CASE Planning
  BY <1>1, <1>4, InstallPlanMoves, ReplacePreviewMoves, ReplanMoves, InstallRepairMoves,
     InstallDeliveryMoves DEF Planning
<1>5. CASE AddRequirements
  BY <1>1, <1>5, AddRequirementsMoves DEF WorkOnly
<1>6. CASE \E t \in DOMAIN status :
              Start(t) \/ Recover(t) \/ \E s \in Reports : Transition(t, s)
  BY <1>1, <1>6, StartMoves, RecoverMoves, TransitionMoves DEF WorkOnly
<1> QED
  BY <1>2, <1>3, <1>4, <1>5, <1>6, NextChanges

\* No task is started by a step that saves a plan, and no step starts two.
LEMMA OneStart ==
    ASSUME Types, NEW t \in DOMAIN status, Start(t)
    PROVE  /\ plans' = plans /\ UNCHANGED lifecycle
           /\ \A u \in DOMAIN status : Start(u) => u = t
<1>1. DOMAIN attempts = DOMAIN status
  BY DEF Types
<1>2. attempts' = [attempts EXCEPT ![t] = Append(@, "RUNNING")]
  BY DEF Start
<1>3. ASSUME NEW u \in DOMAIN status, Start(u), u # t PROVE FALSE
  <2>1. attempts'[u] = attempts[u]
    BY <1>1, <1>2, <1>3
  <2>2. attempts'[u] = Append(attempts[u], "RUNNING")
    BY <1>1, <1>3 DEF Start
  <2>3. attempts[u] \in Seq(AttemptStatuses) /\ "RUNNING" \in AttemptStatuses
    BY TaskTyped DEF TaskTypes, AttemptStatuses, TaskStatuses, Active
  <2>4. Len(attempts'[u]) = Len(attempts[u]) + 1 /\ Len(attempts[u]) \in Nat
    BY <2>2, <2>3, LastAdded, LenProperties
  <2> QED
    BY <2>1, <2>4
<1> QED
  BY <1>3 DEF Start, planning

\* What every step keeps of every task.
LEMMA TasksKept ==
    ASSUME IInv, [Next]_vars
    PROVE  /\ NewTasksFresh
           /\ \A t \in DOMAIN status : TaskKept(t)
           /\ DOMAIN status' \subseteq AnyTask
<1>1. WorkStep
  BY NextMoves
<1>2. Types /\ DOMAIN attempts = DOMAIN status
  BY DEF IInv, Types
<1>3. \A t \in DOMAIN status : TaskKept(t)
  <2> SUFFICES ASSUME NEW t \in DOMAIN status PROVE TaskKept(t)
    OBVIOUS
  <2>1. TaskTypes(t) /\ Mirrors(t) /\ OldAttemptsEnded(t)
    BY <1>2, TaskTyped DEF IInv, WorkInv
  <2> QED
    BY <1>1, <1>2, <2>1, MoveKeeps DEF WorkStep
<1>4. DOMAIN status' \subseteq AnyTask
  <2>1. Requirements \in AnyTask
    BY DEF Requirements, AnyTask, Steps, Roles
  <2>2. DOMAIN status \subseteq AnyTask
    BY <1>2 DEF Types
  <2>3. CASE WorkOnly
    BY <2>1, <2>2, <2>3 DEF WorkOnly
  <2>4. CASE \E plan : NewPlan(plan)
    BY <2>2, <2>4 DEF NewPlan, PlanSet
  <2> QED
    BY <2>3, <2>4, NextMoves DEF FreshPlan, ExtendedPlan
<1> QED
  BY <1>1, <1>3, <1>4 DEF WorkStep

-----------------------------------------------------------------------------
(* Where a run goes. *)

\* The states of a run, in order.
LEMMA SequenceIs ==
    /\ Sequence[1] = "RECEIVED" /\ Sequence[2] = "CONTEXT_SYNC"
    /\ Sequence[3] = "ANALYZING" /\ Sequence[4] = "GOAL_DEFINED"
    /\ Sequence[5] = "PLANNED" /\ Sequence[6] = "EXECUTING"
    /\ Sequence[7] = "INTEGRATING" /\ Sequence[8] = "TESTING"
    /\ Sequence[9] = "REVIEWING" /\ Sequence[10] = "CHANGE_GUARD"
    /\ Sequence[11] = "DOCUMENTING" /\ Sequence[12] = "DELIVERY_VALIDATION"
    /\ Sequence[13] = "COMMITTING" /\ Sequence[14] = "PUSHING"
    /\ Sequence[15] = "MEMORY_FINALIZATION" /\ Sequence[16] = "COMPLETED"
BY DEF Sequence

\* All states, and which of them are terminal or suspended.
LEMMA StatesAre ==
    /\ States = {"RECEIVED", "CONTEXT_SYNC", "ANALYZING", "GOAL_DEFINED", "PLANNED",
                  "EXECUTING", "INTEGRATING", "TESTING", "REVIEWING", "CHANGE_GUARD",
                  "DOCUMENTING", "DELIVERY_VALIDATION", "COMMITTING", "PUSHING",
                  "MEMORY_FINALIZATION", "COMPLETED", "REPAIR_PLANNING", "FAILED",
                  "CANCELLED", "PAUSED", "BLOCKED",
                  "HUMAN_REVIEW_REQUIRED"}
    /\ DeliveryStates = {"CHANGE_GUARD", "DOCUMENTING", "DELIVERY_VALIDATION",
                          "COMMITTING", "PUSHING", "MEMORY_FINALIZATION", "COMPLETED"}
<1>1. {Sequence[i] : i \in 1..16} =
         {"RECEIVED", "CONTEXT_SYNC", "ANALYZING", "GOAL_DEFINED", "PLANNED",
          "EXECUTING", "INTEGRATING", "TESTING", "REVIEWING", "CHANGE_GUARD",
          "DOCUMENTING", "DELIVERY_VALIDATION", "COMMITTING", "PUSHING",
          "MEMORY_FINALIZATION", "COMPLETED"}
  <2>1. \A i \in 1..16 : i = 1 \/ i = 2 \/ i = 3 \/ i = 4 \/ i = 5 \/ i = 6 \/ i = 7 \/
                        i = 8 \/ i = 9 \/ i = 10 \/ i = 11 \/ i = 12 \/ i = 13 \/
                        i = 14 \/ i = 15 \/ i = 16
    OBVIOUS
  <2> QED
    BY <2>1, SequenceIs
<1>2. {Sequence[i] : i \in 10..16} =
         {"CHANGE_GUARD", "DOCUMENTING", "DELIVERY_VALIDATION", "COMMITTING",
          "PUSHING", "MEMORY_FINALIZATION", "COMPLETED"}
  <2>1. \A i \in 10..16 : i = 10 \/ i = 11 \/ i = 12 \/ i = 13 \/ i = 14 \/ i = 15 \/
                         i = 16
    OBVIOUS
  <2> QED
    BY <2>1, SequenceIs
<1> QED
  BY <1>1, <1>2 DEF States, DeliveryStates, Terminal, Suspended

\* The moves of a run that is not suspended.
LEMMA TransitionsAre ==
    ASSUME NEW a, NEW b, <<a, b>> \in Transitions
    PROVE  /\ a = "REVIEWING" => b \in {"CHANGE_GUARD", "REPAIR_PLANNING"}
           /\ a = "CHANGE_GUARD" => b \in {"DOCUMENTING", "REPAIR_PLANNING"}
           /\ a = "REPAIR_PLANNING" => b = "EXECUTING"
           /\ a = "COMMITTING" => b \in {"PUSHING", "MEMORY_FINALIZATION"}
           /\ a = "RECEIVED" => b = "CONTEXT_SYNC"
           /\ a = "CONTEXT_SYNC" => b = "ANALYZING"
           /\ a = "ANALYZING" => b = "GOAL_DEFINED"
           /\ a = "GOAL_DEFINED" => b = "PLANNED"
           /\ a = "PLANNED" => b = "EXECUTING"
           /\ a = "EXECUTING" => b = "INTEGRATING"
           /\ a = "INTEGRATING" => b = "TESTING"
           /\ a = "TESTING" => b = "REVIEWING"
           /\ a = "DOCUMENTING" => b = "DELIVERY_VALIDATION"
           /\ a = "DELIVERY_VALIDATION" => b = "COMMITTING"
           /\ a = "PUSHING" => b = "MEMORY_FINALIZATION"
           /\ a = "MEMORY_FINALIZATION" => b = "COMPLETED"
           /\ a \in {"RECEIVED", "CONTEXT_SYNC", "ANALYZING", "GOAL_DEFINED", "PLANNED",
                    "EXECUTING", "INTEGRATING", "TESTING", "REVIEWING", "CHANGE_GUARD",
                    "DOCUMENTING", "DELIVERY_VALIDATION", "COMMITTING", "PUSHING",
                    "MEMORY_FINALIZATION", "REPAIR_PLANNING"}
<1>1. \/ \E i \in 1..15 : a = Sequence[i] /\ b = Sequence[i + 1]
      \/ a = "REVIEWING" /\ b = "REPAIR_PLANNING"
      \/ a = "CHANGE_GUARD" /\ b = "REPAIR_PLANNING"
      \/ a = "REPAIR_PLANNING" /\ b = "EXECUTING"
      \/ a = "COMMITTING" /\ b = "MEMORY_FINALIZATION"
  BY DEF Transitions
<1>2. ASSUME NEW i \in 1..15, a = Sequence[i], b = Sequence[i + 1]
      PROVE  \/ a = "RECEIVED" /\ b = "CONTEXT_SYNC"
             \/ a = "CONTEXT_SYNC" /\ b = "ANALYZING"
             \/ a = "ANALYZING" /\ b = "GOAL_DEFINED"
             \/ a = "GOAL_DEFINED" /\ b = "PLANNED"
             \/ a = "PLANNED" /\ b = "EXECUTING"
             \/ a = "EXECUTING" /\ b = "INTEGRATING"
             \/ a = "INTEGRATING" /\ b = "TESTING"
             \/ a = "TESTING" /\ b = "REVIEWING"
             \/ a = "REVIEWING" /\ b = "CHANGE_GUARD"
             \/ a = "CHANGE_GUARD" /\ b = "DOCUMENTING"
             \/ a = "DOCUMENTING" /\ b = "DELIVERY_VALIDATION"
             \/ a = "DELIVERY_VALIDATION" /\ b = "COMMITTING"
             \/ a = "COMMITTING" /\ b = "PUSHING"
             \/ a = "PUSHING" /\ b = "MEMORY_FINALIZATION"
             \/ a = "MEMORY_FINALIZATION" /\ b = "COMPLETED"
  <2>1. \A j \in 1..15 : j = 1 \/ j = 2 \/ j = 3 \/ j = 4 \/ j = 5 \/ j = 6 \/ j = 7 \/
                        j = 8 \/ j = 9 \/ j = 10 \/ j = 11 \/ j = 12 \/ j = 13 \/
                        j = 14 \/ j = 15
    OBVIOUS
  <2> QED
    BY <1>2, <2>1, SequenceIs
<1> QED
  BY <1>1, <1>2

\* What an advance does to the place of a run, and what let it.
Moved(from, to) ==
    /\ state = from /\ state' = to /\ from # to
    /\ <<from, to>> \in Transitions
    /\ Guard(to) /\ WaveDone(to)

\* An advance suspends or resumes the run where it is, ends it, or moves it on.
LEMMA AdvancePlaces ==
    ASSUME Types, NEW target \in States, Advance(target)
    PROVE  /\ state' = target
           /\ state' \in States
           /\ resume' \in (States \ (Terminal \union Suspended)) \union {"none"}
           /\ resume' = "none" <=> state' \notin Suspended
           /\ state \notin Terminal
           /\ \/ Place' = Place /\ state' \notin Terminal
              \/ Place' \in {"CANCELLED", "FAILED"} /\ state' = Place'
              \/ Moved(Place, Place')
<1>1. /\ state \in States
      /\ resume \in (States \ (Terminal \union Suspended)) \union {"none"}
      /\ resume = "none" <=> state \notin Suspended
  BY DEF Types
<1>2. /\ state' = target /\ resume' = ResumeAfter(target)
      /\ state \notin Terminal
      /\ \/ target \in Suspended \union {"CANCELLED", "FAILED"} /\ target # state
         \/ /\ target \notin Suspended \union {"CANCELLED", "FAILED"}
            /\ IF state \in Suspended THEN target = resume
               ELSE <<state, target>> \in Transitions
      /\ Guard(target) /\ (state \in Suspended \/ WaveDone(target))
  BY DEF Advance, ValidTransition
<1>3. /\ target \notin Suspended => resume' = "none"
      /\ target \in Suspended /\ state \in Suspended => resume' = resume
      /\ target \in Suspended /\ state \notin Suspended => resume' = state
  <2>1. CASE target \notin Suspended
    BY <1>2, <2>1 DEF ResumeAfter
  <2>2. CASE target \in Suspended /\ state \in Suspended
    BY <1>2, <2>2 DEF ResumeAfter
  <2>3. CASE target \in Suspended /\ state \notin Suspended
    BY <1>2, <2>3 DEF ResumeAfter
  <2> QED
    BY <2>1, <2>2, <2>3
<1>4. "none" \notin States
  BY StatesAre
<1>5. /\ resume' \in (States \ (Terminal \union Suspended)) \union {"none"}
      /\ resume' = "none" <=> state' \notin Suspended
  BY <1>1, <1>2, <1>3, <1>4
<1>6. Suspended \intersect Terminal = {} /\ {"CANCELLED", "FAILED"} \subseteq Terminal
  BY DEF Suspended, Terminal
<1>7. CASE target \in Suspended
  BY <1>1, <1>2, <1>3, <1>6, <1>7, <1>5 DEF Place
<1>8. CASE target \in {"CANCELLED", "FAILED"}
  BY <1>1, <1>2, <1>3, <1>5, <1>6, <1>8 DEF Place
<1>9. CASE target \notin Suspended \union {"CANCELLED", "FAILED"} /\ state \in Suspended
  BY <1>1, <1>2, <1>3, <1>4, <1>5, <1>6, <1>9 DEF Place
<1>10. CASE target \notin Suspended \union {"CANCELLED", "FAILED"} /\ state \notin Suspended
  <2>1. Place = state /\ Place' = target
    BY <1>2, <1>10 DEF Place
  <2>2. <<state, target>> \in Transitions
    BY <1>2, <1>10
  <2>3. state # target
    BY <2>2, TransitionsAre
  <2> QED
    BY <1>1, <1>2, <1>5, <1>10, <2>1, <2>2, <2>3 DEF Moved
<1> QED
  BY <1>7, <1>8, <1>9, <1>10

\* So does every other step: only an advance and a replanning move a run.
LEMMA PlaceMoves ==
    ASSUME IInv, [Next]_vars
    PROVE  /\ state' \in States
           /\ resume' \in (States \ (Terminal \union Suspended)) \union {"none"}
           /\ resume' = "none" <=> state' \notin Suspended
           /\ \/ UNCHANGED lifecycle /\ Place' = Place
              \/ state' = state /\ \E plan : FreshPlan(plan)
              \/ /\ UNCHANGED <<plans, goal, accepted, reviews, approved, delivery, iteration>>
                 /\ state \notin Terminal
                 /\ \E target \in States : Advance(target)
                 /\ \/ Place' = Place /\ state' \notin Terminal
                    \/ Place' \in {"CANCELLED", "FAILED"} /\ state' = Place'
                    \/ Moved(Place, Place')
<1>1. Types /\ setting' = setting
  BY NextCases DEF IInv
<1>2. CASE UNCHANGED lifecycle
  BY <1>1, <1>2 DEF lifecycle, Types, Place
<1>3. CASE \E target \in States : Advance(target)
  <2>1. PICK target \in States : Advance(target)
    BY <1>3
  <2>2. UNCHANGED <<plans, goal, accepted, reviews, approved, delivery, iteration>>
    BY <2>1 DEF Advance, planning
  <2> QED
    BY <1>1, <2>1, <2>2, AdvancePlaces
<1>4. CASE \E template \in Templates : Replan(template)
  <2>1. PICK template \in Templates : Replan(template)
    BY <1>4
  <2>2. /\ state' = state /\ resume' = "PLANNED"
        /\ state \in {"PAUSED", "HUMAN_REVIEW_REQUIRED"}
    BY <2>1 DEF Replan, ReplanGuard
  <2>3. "PLANNED" \in States \ (Terminal \union Suspended) /\ state \in States
    BY <1>1, StatesAre DEF Terminal, Suspended, Types
  <2>4. \E plan : FreshPlan(plan)
    BY <1>1, <2>1, ReplanMoves
  <2> QED
    BY <2>2, <2>3, <2>4 DEF Suspended
<1> QED
  BY <1>2, <1>3, <1>4, NextChanges

\* Every step keeps the types.
LEMMA TypesKept ==
    ASSUME IInv, [Next]_vars
    PROVE  Types'
<1>0. Types
  BY DEF IInv
<1>1. /\ setting' = setting /\ setting' \in Settings
      /\ MaxGoal' = MaxGoal /\ MaxVersion' = MaxVersion /\ MaxRepair' = MaxRepair
      /\ MaxGoal \in Nat \ {0} /\ MaxVersion \in Nat /\ MaxRepair \in Nat /\ Pushes \subseteq BOOLEAN
  <2>1. setting' = setting
    BY NextCases
  <2>2. MaxGoal' = MaxGoal /\ MaxVersion' = MaxVersion /\ MaxRepair' = MaxRepair
    BY <2>1 DEF MaxGoal, MaxVersion, MaxRepair
  <2> QED
    BY <1>0, <2>1, <2>2, SettingTyped DEF Types
<1>2. /\ state' \in States
      /\ resume' \in (States \ (Terminal \union Suspended)) \union {"none"}
      /\ resume' = "none" <=> state' \notin Suspended
  BY PlaceMoves
<1>3. goal' \in 0..MaxGoal'
  <2>1. goal' = goal \/ goal' = 1 \/ (goal < MaxGoal /\ goal' = goal + 1)
    BY NextChanges DEF DefineGoal, ReviseGoal
  <2>2. goal \in 0..MaxGoal
    BY <1>0 DEF Types
  <2> QED
    BY <1>1, <2>1, <2>2
<1>4. accepted' \in BOOLEAN
  <2>1. accepted' = accepted \/ accepted' = FALSE \/ accepted' \in BOOLEAN
    BY NextCases DEF Advance, Decide, DefineGoal, ReviseGoal, Validate, InstallPlan, ReplacePreview,
       Replan, InstallRepair, InstallDelivery, AddRequirements, Start, Recover, Transition,
       RecordReview, AcceptedAfter, CreateWorkspace, FinalizeBind, EffectEnd, ControllerStops,
       FinalizeBegin, Certify, EffectBegin, vars
  <2> QED
    BY <2>1, <1>0 DEF Types
<1>5. plans' \in Seq(PlanSet) /\ Version' <= MaxVersion'
  <2>1. CASE plans' = plans
    BY <2>1, <1>0, <1>1 DEF Types, Version
  <2>2. CASE \E plan : NewPlan(plan)
    <3>1. PICK plan : NewPlan(plan)
      BY <2>2
    <3> QED
      BY <3>1, <1>0, <1>1, PlanAppended DEF NewPlan
  <2> QED
    BY <2>1, <2>2, NextMoves DEF WorkOnly, FreshPlan, ExtendedPlan
<1>6. /\ DOMAIN status' \subseteq AnyTask
      /\ status' \in [DOMAIN status' -> TaskStatuses]
      /\ attempts' \in [DOMAIN status' -> Seq(AttemptStatuses)]
  <2>1. /\ NewTasksFresh /\ \A t \in DOMAIN status : TaskKept(t)
        /\ DOMAIN status' \subseteq AnyTask
    BY TasksKept
  <2>2. \A t \in DOMAIN status' :
           status'[t] \in TaskStatuses /\ attempts'[t] \in Seq(AttemptStatuses)
    <3>1. <<>> \in Seq(AttemptStatuses) /\ {"PENDING", "READY"} \subseteq TaskStatuses
      BY EmptySeq DEF TaskStatuses
    <3> QED
      BY <2>1, <3>1 DEF NewTasksFresh, TaskKept
  <2> QED
    BY <2>1, <2>2 DEF NewTasksFresh
<1>7. iteration' \in 0..MaxRepair'
  BY <1>0, <1>1, NextChanges DEF Types, InstallRepair
<1>8. reviews' \in Seq(ReviewSet)
  <2>1. CASE reviews' = reviews
    BY <2>1, <1>0 DEF Types
  <2>2. CASE \E t \in DOMAIN status, overall \in {"PASS", "FAIL"} : RecordReview(t, overall)
    <3>1. PICK t \in DOMAIN status, overall \in {"PASS", "FAIL"} : RecordReview(t, overall)
      BY <2>2
    <3> DEFINE review == [overall |-> overall, goal |-> goal, version |-> Version,
                          by |-> <<t, Len(attempts[t])>>]
    <3>2. Len(attempts[t]) \in Nat /\ t \in AnyTask
      BY <1>0, TaskTyped, LenProperties DEF TaskTypes
    <3>3. review \in ReviewSet
      BY <1>0, <3>2, VersionTyped DEF ReviewSet
    <3>4. reviews' = Append(reviews, review)
      BY <3>1 DEF RecordReview
    <3> QED
      BY <1>0, <3>3, <3>4, AppendProperties DEF Types
  <2> QED
    BY <2>1, <2>2, NextChanges
<1>9. /\ workspace' \in BOOLEAN /\ finalizing' \in SubjectSet /\ bound' \in SubjectSet
      /\ effect' \in {"none", "validation", "commit", "push"} /\ certs' \subseteq Evidence
  <2>1. workspace' \in BOOLEAN
    BY <1>0, NextChanges DEF Types, CreateWorkspace
  <2>2. NoSubject \in SubjectSet
    BY DEF NoSubject, SubjectSet
  <2>3. finalizing' \in SubjectSet
    <3>1. \A push \in Pushes : Subject(push) \in SubjectSet
      <4>1. Len(reviews) \in Nat
        BY <1>0, LenProperties DEF Types
      <4> QED
        BY <1>0, <1>1, <4>1, VersionTyped DEF Subject, SubjectSet
    <3> QED
      BY <1>0, <2>2, <3>1, NextChanges DEF Types, FinalizeBegin
  <2>4. bound' \in SubjectSet
    BY <1>0, NextChanges DEF Types, FinalizeBind
  <2>5. effect' \in {"none", "validation", "commit", "push"}
    BY <1>0, NextChanges DEF Types, EffectBegin
  <2>6. certs' \subseteq Evidence
    <3>1. certs \subseteq Evidence /\ effect \in {"none", "validation", "commit", "push"}
      BY <1>0 DEF Types
    <3>2. CASE EffectEnd
      BY <3>1, <3>2 DEF EffectEnd, Evidence
    <3>3. CASE \E c \in {"implementation", "documentation", "final", "memory"} : Certify(c)
      BY <3>1, <3>3 DEF Certify, Evidence
    <3> QED
      BY <3>1, <3>2, <3>3, NextChanges
  <2> QED
    BY <2>1, <2>3, <2>4, <2>5, <2>6
<1> QED
  BY <1>1, <1>2, <1>3, <1>4, <1>5, <1>6, <1>7, <1>8, <1>9 DEF Types

-----------------------------------------------------------------------------
(* The parts of the invariant, one by one, are kept by every step. *)

\* Goal versions go forward.
LEMMA GoalGrows ==
    ASSUME Types, [Next]_vars
    PROVE  goal \in Nat /\ goal' \in Nat /\ goal <= goal'
<1>1. goal \in Nat /\ (goal' = goal \/ (goal = 0 /\ goal' = 1) \/ goal' = goal + 1)
  BY VersionTyped, NextChanges DEF DefineGoal, ReviseGoal
<1> QED
  BY <1>1

\* A step keeps the plans, replaces the plan, or extends it.
LEMMA PlanMoves ==
    ASSUME IInv, [Next]_vars
    PROVE  /\ Version \in Nat /\ Version' \in Nat
           /\ \/ plans' = plans /\ Version' = Version /\ Plan' = Plan
              \/ \E plan :
                    /\ Version' = Version + 1 /\ Plan' = plan
                    /\ \A v \in 1..Version : plans'[v] = plans[v]
                    /\ plans'[Version + 1] = plan
                    /\ NewPlan(plan)
                    /\ FreshPlan(plan) \/ ExtendedPlan(plan)
<1>1. Types /\ Version \in Nat
  BY VersionTyped DEF IInv
<1>2. CASE plans' = plans
  BY <1>1, <1>2 DEF Version, Plan
<1>3. CASE \E plan : FreshPlan(plan) \/ ExtendedPlan(plan)
  <2>1. PICK plan : FreshPlan(plan) \/ ExtendedPlan(plan)
    BY <1>3
  <2>2. NewPlan(plan)
    BY <2>1 DEF FreshPlan, ExtendedPlan
  <2>3. /\ Version' = Version + 1 /\ Plan' = plan
        /\ \A v \in 1..Version : plans'[v] = plans[v]
    BY <1>1, <2>2, PlanAppended DEF NewPlan
  <2>4. plans'[Version + 1] = plan
    BY <2>3 DEF Plan
  <2> QED
    BY <1>1, <2>1, <2>2, <2>3, <2>4
<1> QED
  BY <1>2, <1>3, NextMoves DEF WorkOnly

\* New tasks are of the newest version, old ones stay what they are.
LEMMA TasksShaped ==
    ASSUME IInv, [Next]_vars, NEW t \in DOMAIN status'
    PROVE  TaskShape(t)'
<1>1. Types /\ Version \in Nat /\ Version' \in Nat /\ t \in AnyTask /\ Version <= Version'
  BY PlanMoves, TasksKept DEF IInv
<1>2. CASE t \in DOMAIN status
  <2>1. TaskShape(t)
    BY <1>2 DEF IInv, Shapes
  <2> QED
    BY <1>1, <2>1 DEF TaskShape, AnyTask
<1>3. CASE t = Requirements
  BY <1>1, <1>3 DEF TaskShape, Requirements
<1>4. CASE t \notin DOMAIN status /\ WorkOnly
  BY <1>3, <1>4 DEF WorkOnly
<1>5. ASSUME NEW plan, FreshPlan(plan), t \notin DOMAIN status PROVE TaskShape(t)'
  <2>1. t \in plan.tasks /\ Version' = Version + 1
    BY <1>1, <1>5, PlanAppended DEF FreshPlan, NewPlan
  <2>2. CASE Proposed(t, Version + 1)
    BY <1>1, <2>1, <2>2 DEF Proposed, TaskShape
  <2> QED
    BY <1>3, <1>5, <2>1, <2>2 DEF FreshPlan
<1>6. ASSUME NEW plan, ExtendedPlan(plan), t \notin DOMAIN status PROVE TaskShape(t)'
  <2>1. t \in plan.tasks /\ Version' = Version + 1
    BY <1>1, <1>6, PlanAppended DEF ExtendedPlan, NewPlan
  <2>2. PICK steps \in {DeliverySteps, RepairSteps} :
           plan.tasks = Plan.tasks \union Chain(Version + 1, steps)
    BY <1>6 DEF ExtendedPlan
  <2>3. Version \in 1..Version
    BY <1>1, <1>6 DEF ExtendedPlan, PlanServesGoal
  <2>4. t \in Chain(Version + 1, steps)
    BY <1>6, <2>1, <2>2, <2>3 DEF IInv, Shapes, PlanShape, Plan
  <2>5. t.version = Version + 1
    BY <1>1, <2>4, ChainTasks
  <2>6. IsDelivery(t) \/ t.role \in {"REPAIR", "DEVELOPER", "TESTER", "REVIEWER"}
    <3>0. Version + 1 \in Nat
      BY <1>1
    <3>1. CASE steps = DeliverySteps
      BY <3>0, <3>1, <2>4, DeliveryChain
    <3>2. CASE steps = RepairSteps
      BY <3>0, <3>2, <2>4, RepairChain
    <3> QED
      BY <3>1, <3>2
  <2> QED
    BY <1>1, <2>1, <2>5, <2>6 DEF TaskShape
<1> QED
  BY <1>2, <1>4, <1>5, <1>6, NextMoves

\* A new plan is of tasks there are, and holds what matters of the older ones.
LEMMA PlansShaped ==
    ASSUME IInv, [Next]_vars, NEW v \in 1..Version'
    PROVE  PlanShape(v)'
<1>1. Types /\ Version \in Nat /\ Version' \in Nat
  BY PlanMoves DEF IInv
<1>2. goal \in Nat /\ goal' \in Nat /\ goal <= goal' /\ DOMAIN status \subseteq DOMAIN status'
  BY <1>1, GoalGrows, TasksKept DEF NewTasksFresh
<1>3. \A w \in 1..Version : PlanShape(w)
  BY DEF IInv, Shapes
<1>4. ASSUME NEW w \in 1..Version, plans'[w] = plans[w]
      PROVE  /\ plans'[w].goal \in 1..goal'
             /\ plans'[w].tasks \subseteq DOMAIN status'
             /\ plans'[w].after \subseteq plans'[w].tasks \X plans'[w].tasks
             /\ \A t \in plans'[w].tasks : t.version <= w
             /\ \A e \in plans'[w].after : e[1].version > 0
  <2>1. PlanShape(w)
    BY <1>3
  <2>2. plans[w].goal \in 1..goal'
    BY <1>2, <2>1 DEF PlanShape
  <2> QED
    BY <1>2, <1>4, <2>1, <2>2 DEF PlanShape
<1>5. CASE plans' = plans /\ Version' = Version /\ Plan' = Plan
  BY <1>3, <1>4, <1>5 DEF PlanShape
<1>6. ASSUME NEW plan, Version' = Version + 1, Plan' = plan,
             \A w \in 1..Version : plans'[w] = plans[w], plans'[Version + 1] = plan,
             NewPlan(plan), FreshPlan(plan) \/ ExtendedPlan(plan)
      PROVE  PlanShape(v)'
  <2>0. plan \in PlanSet /\ plan.goal = goal /\ goal > 0
    BY <1>6 DEF NewPlan
  <2>1. plan.goal \in 1..goal' /\ plan.tasks \subseteq DOMAIN status'
    BY <1>2, <1>6, <2>0 DEF NewPlan
  <2>2. CASE FreshPlan(plan)
    <3>1. \A t \in plan.tasks :
             t \in AnyTask /\ (t.version = Version + 1 \/ (t = Requirements /\ t.version = 0))
      BY <2>0, <2>2 DEF FreshPlan, Proposed, Requirements, PlanSet
    <3>2. plan.after \subseteq plan.tasks \X plan.tasks
          /\ \A e \in plan.after : e[1].version = Version + 1
      BY <2>2 DEF FreshPlan
    <3>3. CASE v = Version + 1
      BY <1>1, <1>6, <2>1, <3>1, <3>2, <3>3 DEF PlanShape
    <3>4. CASE v \in 1..Version
      <4>1. ASSUME NEW e \in plans[v].after PROVE e[1] \notin plan.tasks
        <5>1. e[1].version > 0 /\ e[1].version <= v /\ e[1] \in plans[v].tasks
          BY <1>3, <3>4 DEF PlanShape
        <5>2. e[1].version # Version + 1 /\ e[1].version # 0
          <6>1. e[1] \in AnyTask
            BY <1>1, <1>3, <3>4, <5>1 DEF PlanShape, Types
          <6>2. e[1].version \in Nat
            BY <6>1 DEF AnyTask
          <6> QED
            BY <1>1, <3>4, <5>1, <6>2
        <5> QED
          BY <3>1, <5>2
      <4> QED
        BY <1>4, <1>6, <3>4, <4>1 DEF PlanShape
    <3> QED
      BY <1>1, <1>6, <3>3, <3>4
  <2>3. CASE ExtendedPlan(plan)
    <3>1. PICK steps \in {DeliverySteps, RepairSteps} :
             /\ plan.tasks = Plan.tasks \union Chain(Version + 1, steps)
             /\ plan.after \subseteq plan.tasks \X plan.tasks
             /\ Plan.after \subseteq plan.after
             /\ \A e \in plan.after \ Plan.after : e[1].version = Version + 1
      BY <2>3 DEF ExtendedPlan
    <3>2. \A t \in Chain(Version + 1, steps) : t \in AnyTask /\ t.version = Version + 1
      BY <1>1, ChainTasks
    <3>3. Version \in 1..Version /\ PlanShape(Version)
      BY <1>1, <1>3, <2>3 DEF ExtendedPlan, PlanServesGoal
    <3>4. /\ \A t \in Plan.tasks : t \in AnyTask /\ t.version <= Version
          /\ \A e \in Plan.after : e[1].version > 0
      BY <1>1, <3>3 DEF PlanShape, Plan, Types
    <3>5. CASE v = Version + 1
      <4>1. \A t \in plan.tasks : t.version <= Version + 1
        BY <1>1, <3>1, <3>2, <3>4 DEF AnyTask
      <4>2. \A e \in plan.after : e[1].version > 0
        BY <1>1, <3>1, <3>4
      <4> QED
        BY <1>6, <2>1, <3>1, <3>5, <4>1, <4>2 DEF PlanShape
    <3>6. CASE v \in 1..Version
      <4>1. ASSUME NEW e \in plans[v].after, e[1] \in plan.tasks PROVE e \in plan.after
        <5>1. e[1].version <= v /\ e[1] \in plans[v].tasks /\ (e[1] \in Plan.tasks => e \in Plan.after)
          BY <1>3, <3>6 DEF PlanShape
        <5>2. e[1] \in AnyTask
          BY <1>1, <1>3, <3>6, <5>1 DEF PlanShape, Types
        <5>3. e[1].version # Version + 1
          BY <1>1, <3>6, <5>1, <5>2 DEF AnyTask
        <5> QED
          BY <3>1, <3>2, <4>1, <5>1, <5>3
      <4> QED
        BY <1>4, <1>6, <3>6, <4>1 DEF PlanShape
    <3> QED
      BY <1>1, <1>6, <3>5, <3>6
  <2> QED
    BY <1>6, <2>2, <2>3
<1> QED
  BY <1>5, <1>6, PlanMoves

\* Every step keeps the shapes of tasks and plans.
LEMMA ShapesKept ==
    ASSUME IInv, [Next]_vars
    PROVE  Shapes'
<1>1. Types /\ Version \in Nat /\ Version' \in Nat /\ Version <= Version'
  BY PlanMoves DEF IInv
<1>2. workspace' => Version' > 0
  <2>1. workspace => Version > 0
    BY DEF IInv, Shapes
  <2>2. CreateWorkspace => Version > 0
    BY DEF CreateWorkspace
  <2>3. workspace' = workspace \/ CreateWorkspace
    BY NextChanges
  <2>4. Version > 0 => Version' > 0
    BY <1>1
  <2>5. CASE workspace' = workspace
    BY <2>1, <2>4, <2>5, Zenon
  <2> QED
    BY <2>2, <2>3, <2>4, <2>5, Zenon
<1>3. Version' > 0 /\ Requirements \in Plan'.tasks => Requirements \in Succeeded'
  <2>1. \A t \in Succeeded : t \in Succeeded'
    BY TasksKept DEF Succeeded, TaskKept, NewTasksFresh
  <2>2. Version > 0 /\ Requirements \in Plan.tasks => Requirements \in Succeeded
    BY DEF IInv, Shapes
  <2>3. Requirements.version = 0
    BY DEF Requirements
  <2>4. ASSUME NEW plan, FreshPlan(plan), Requirements \in plan.tasks
        PROVE  Requirements \in Succeeded
    BY <1>1, <2>3, <2>4 DEF FreshPlan, Proposed
  <2>5. ASSUME NEW plan, ExtendedPlan(plan), Requirements \in plan.tasks
        PROVE  Requirements \in Succeeded
    <3>1. PICK steps \in {DeliverySteps, RepairSteps} :
             plan.tasks = Plan.tasks \union Chain(Version + 1, steps)
      BY <2>5 DEF ExtendedPlan
    <3>2. Requirements \notin Chain(Version + 1, steps)
      BY <1>1, <2>3, ChainTasks
    <3> QED
      BY <2>2, <2>5, <3>1, <3>2 DEF ExtendedPlan, PlanServesGoal
  <2> QED
    BY <2>1, <2>2, <2>4, <2>5, PlanMoves
<1> QED
  BY <1>2, <1>3, TasksShaped, PlansShaped DEF Shapes

\* Every step changes a task and its newest attempt together.
LEMMA MirrorsKept ==
    ASSUME IInv, [Next]_vars, NEW t \in DOMAIN status'
    PROVE  Mirrors(t)' /\ OldAttemptsEnded(t)'
<1>1. CASE t \in DOMAIN status
  BY <1>1, TasksKept DEF TaskKept
<1>2. CASE t \notin DOMAIN status
  <2>1. attempts'[t] = <<>> /\ status'[t] \in {"PENDING", "READY"}
    BY <1>2, TasksKept DEF NewTasksFresh
  <2>2. Mirrors(t)'
    BY <2>1 DEF Mirrors
  <2>3. \A i \in 1..(Len(<<>>) - 1) : FALSE
    OBVIOUS
  <2> QED
    BY <2>1, <2>2, <2>3 DEF OldAttemptsEnded
<1> QED
  BY <1>1, <1>2

\* A task that is active was, or starts now; one that starts is in the plan.
LEMMA ActiveWere ==
    ASSUME IInv, [Next]_vars, NEW t \in DOMAIN status', HasActive(t)'
    PROVE  t \in DOMAIN status /\ (HasActive(t) \/ Start(t))
<1>1. t \in DOMAIN status
  BY TasksKept DEF NewTasksFresh, HasActive
<1> QED
  BY <1>1, TasksKept DEF TaskKept

\* A started task is of the current plan, or the requirements task before there is one.
LEMMA StartedAre ==
    ASSUME IInv, NEW t \in DOMAIN status, Start(t)
    PROVE  /\ state \in ExecutionStates \intersect StartStates(t) /\ Place = state
           /\ \/ state = "ANALYZING" /\ t = Requirements /\ Version = 0
              \/ /\ state # "ANALYZING" /\ PlanServesGoal /\ Version > 0 /\ t \in Plan.tasks
                 /\ Prerequisites(Plan, t) \subseteq Succeeded
<1>1. state \in ExecutionStates \intersect StartStates(t) /\ Startable(t)
  BY DEF Start
<1>2. Place = state
  BY <1>1 DEF ExecutionStates, Place, Suspended
<1>3. CASE state = "ANALYZING"
  <2>1. t = Requirements /\ goal = 0
    BY <1>1, <1>3 DEF Startable
  <2>2. Version = 0
    <3>1. Types /\ Version \in Nat
      BY VersionTyped DEF IInv
    <3>2. SUFFICES ASSUME Version > 0 PROVE FALSE
      BY <3>1
    <3>3. Version \in 1..Version
      BY <3>1, <3>2
    <3> QED
      BY <2>1, <3>3 DEF IInv, Shapes, PlanShape
  <2> QED
    BY <1>1, <1>2, <1>3, <2>1, <2>2
<1>4. CASE state # "ANALYZING"
  BY <1>1, <1>2, <1>4 DEF Startable, PlanServesGoal
<1> QED
  BY <1>3, <1>4

\* No plan is replaced while an attempt of it goes on.
LEMMA ActiveWorkKept ==
    ASSUME IInv, [Next]_vars
    PROVE  ActiveWorkInCurrentPlan'
<1>1. Types' /\ Types /\ DOMAIN attempts' = DOMAIN status' /\ DOMAIN attempts = DOMAIN status
  BY TypesKept DEF IInv, Types
<1>2. SUFFICES ASSUME NEW t \in DOMAIN status', HasActive(t)'
               PROVE  IF Version' > 0 THEN t \in Plan'.tasks ELSE t = Requirements
  BY <1>1, MirrorsKept DEF ActiveWorkInCurrentPlan, OldAttemptsEnded
<1>3. t \in DOMAIN status /\ (HasActive(t) \/ Start(t))
  BY <1>2, ActiveWere
<1>4. HasActive(t) => IF Version > 0 THEN t \in Plan.tasks ELSE t = Requirements
  BY <1>1, <1>3 DEF IInv, WorkInv, ActiveWorkInCurrentPlan
<1>5. CASE plans' = plans /\ Version' = Version /\ Plan' = Plan
  BY <1>3, <1>4, <1>5, StartedAre
<1>6. ASSUME NEW plan, FreshPlan(plan)
      PROVE  FALSE
  BY <1>2, <1>6 DEF FreshPlan
<1>7. ASSUME NEW plan, ExtendedPlan(plan), Version' = Version + 1, Plan' = plan
      PROVE  Version' > 0 /\ t \in Plan'.tasks
  <2>1. ~Start(t)
    BY <1>1, <1>3, <1>7, OneStart, PlanAppended DEF ExtendedPlan, NewPlan
  <2>2. Version > 0 /\ Version \in Nat /\ t \in Plan.tasks
    BY <1>1, <1>3, <1>4, <1>7, <2>1, VersionTyped DEF ExtendedPlan, PlanServesGoal
  <2> QED
    BY <1>7, <2>2 DEF ExtendedPlan
<1> QED
  BY <1>5, <1>6, <1>7, PlanMoves

\* A run is suspended only when nobody runs, and nobody starts until it is resumed.
LEMMA QuietKept ==
    ASSUME IInv, [Next]_vars
    PROVE  StoppedIsQuiet'
<1>1. Types' /\ Types /\ DOMAIN attempts' = DOMAIN status' /\ DOMAIN attempts = DOMAIN status
  BY TypesKept DEF IInv, Types
<1>2. SUFFICES ASSUME NEW t \in DOMAIN status', HasActive(t)'
               PROVE  /\ state' \notin Terminal
                      /\ state' \in Suspended => Latest(t)' # "RUNNING"
  BY <1>1 DEF StoppedIsQuiet
<1>3. t \in DOMAIN status /\ (HasActive(t) \/ Start(t))
  BY <1>2, ActiveWere
<1>4. HasActive(t) => state \notin Terminal /\ (state \in Suspended => Latest(t) # "RUNNING")
  BY <1>1, <1>3 DEF IInv, WorkInv, StoppedIsQuiet
<1>5. ExecutionStates \intersect (Terminal \union Suspended) = {}
  BY DEF ExecutionStates, Terminal, Suspended
<1>6. Latest(t)' = "RUNNING" =>
         (Latest(t) = "RUNNING" /\ attempts[t] # <<>>) \/ state \in ExecutionStates
  BY <1>2, <1>3, TasksKept DEF TaskKept
<1>7. CASE state' = state
  <2>1. CASE HasActive(t)
    BY <1>4, <1>5, <1>6, <1>7, <2>1
  <2>2. CASE Start(t)
    BY <1>5, <1>7, <2>2, StartedAre, <1>3
  <2> QED
    BY <1>3, <2>1, <2>2
<1>8. CASE \E target \in States : Advance(target)
  <2>1. PICK target \in States : Advance(target)
    BY <1>8
  <2>2. state' = target /\ target \notin Terminal /\ attempts' = attempts /\ status' = status
    BY <1>1, <1>2, <2>1, AdvanceMoves, AdvancePlaces
  <2>3. target \in Suspended => Running = {}
    BY <2>1 DEF Advance, Guard, Quiet
  <2> QED
    BY <1>1, <1>2, <1>3, <2>2, <2>3 DEF Running, Latest, HasActive
<1> QED
  BY <1>7, <1>8, PlaceMoves DEF lifecycle

\* A task starts after its prerequisites in every plan, older ones included.
LEMMA DependenciesKept ==
    ASSUME IInv, [Next]_vars
    PROVE  DependenciesRespected'
<1>1. Types /\ DOMAIN attempts = DOMAIN status /\ Version \in Nat
  BY PlanMoves DEF IInv, Types
<1>2. ASSUME NEW v \in 1..Version, NEW e \in plans[v].after, attempts'[e[1]] # <<>>
      PROVE  status'[e[2]] = "SUCCEEDED"
  <2>1. PlanShape(v)
    BY DEF IInv, Shapes
  <2>2. /\ e[1] \in DOMAIN status /\ e[2] \in DOMAIN status /\ e[1].version > 0
        /\ e[1] \in Plan.tasks => e \in Plan.after
    BY <2>1 DEF PlanShape
  <2>3. attempts[e[1]] # <<>> => status[e[2]] = "SUCCEEDED"
    BY DEF IInv, WorkInv, DependenciesRespected
  <2>4. Start(e[1]) => status[e[2]] = "SUCCEEDED"
    <3>1. SUFFICES ASSUME Start(e[1]) PROVE status[e[2]] = "SUCCEEDED"
      OBVIOUS
    <3>2. e[1] # Requirements
      BY <2>2 DEF Requirements
    <3>3. e[1] \in Plan.tasks /\ Prerequisites(Plan, e[1]) \subseteq Succeeded
      BY <2>2, <3>1, <3>2, StartedAre
    <3>4. e[2] \in Prerequisites(Plan, e[1])
      BY <2>2, <3>3 DEF Prerequisites
    <3> QED
      BY <3>3, <3>4 DEF Succeeded
  <2>5. status[e[2]] = "SUCCEEDED"
    BY <1>2, <2>2, <2>3, <2>4, TasksKept DEF TaskKept
  <2> QED
    BY <2>2, <2>5, TasksKept DEF TaskKept
<1>3. CASE plans' = plans /\ Version' = Version
  BY <1>2, <1>3 DEF DependenciesRespected
<1>4. ASSUME NEW plan, Version' = Version + 1, Plan' = plan,
             \A w \in 1..Version : plans'[w] = plans[w], plans'[Version + 1] = plan,
             NewPlan(plan), FreshPlan(plan) \/ ExtendedPlan(plan),
             NEW e \in plan.after, attempts'[e[1]] # <<>>
      PROVE  status'[e[2]] = "SUCCEEDED"
  <2>1. CASE e[1].version = Version + 1
    <3>1. e[1] \in DOMAIN status'
      BY <1>4 DEF FreshPlan, ExtendedPlan, NewPlan
    <3>2. e[1] \notin DOMAIN status
      <4>1. SUFFICES ASSUME e[1] \in DOMAIN status PROVE FALSE
        OBVIOUS
      <4>2. TaskShape(e[1])
        BY <4>1 DEF IInv, Shapes
      <4> QED
        BY <1>1, <2>1, <4>2 DEF TaskShape
    <3> QED
      BY <1>4, <3>1, <3>2, TasksKept DEF NewTasksFresh
  <2>2. CASE e[1].version # Version + 1
    <3>1. ExtendedPlan(plan) /\ e \in Plan.after
      BY <1>4, <2>2 DEF FreshPlan, ExtendedPlan
    <3>2. Version \in 1..Version
      BY <1>1, <3>1 DEF ExtendedPlan, PlanServesGoal
    <3> QED
      BY <1>2, <1>4, <3>1, <3>2 DEF Plan
  <2> QED
    BY <2>1, <2>2
<1>5. ASSUME NEW v \in 1..Version', NEW e \in plans'[v].after, attempts'[e[1]] # <<>>
      PROVE  status'[e[2]] = "SUCCEEDED"
  <2>1. CASE plans' = plans /\ Version' = Version
    BY <1>2, <1>5, <2>1
  <2>2. ASSUME NEW plan, Version' = Version + 1, Plan' = plan,
               \A w \in 1..Version : plans'[w] = plans[w], plans'[Version + 1] = plan,
               NewPlan(plan), FreshPlan(plan) \/ ExtendedPlan(plan)
        PROVE  status'[e[2]] = "SUCCEEDED"
    <3>1. v \in 1..Version \/ v = Version + 1
      BY <1>1, <2>2
    <3>2. CASE v \in 1..Version
      BY <1>2, <1>5, <2>2, <3>2
    <3>3. CASE v = Version + 1
      BY <1>4, <1>5, <2>2, <3>3
    <3> QED
      BY <3>1, <3>2, <3>3
  <2> QED
    BY <2>1, <2>2, PlanMoves
<1> QED
  BY <1>5 DEF DependenciesRespected

\* A writer starts only when no other is active in the plan, and there is none outside of it.
LEMMA OneWriterKept ==
    ASSUME IInv, [Next]_vars
    PROVE  OneWriter'
<1>1. Types /\ DOMAIN attempts = DOMAIN status /\ OneWriter
  BY DEF IInv, Types, WorkInv
<1>2. ASSUME NEW t \in DOMAIN status, NEW u \in DOMAIN status, Start(t),
             t.role \in WriteRoles, u.role \in WriteRoles, HasActive(u)
      PROVE  FALSE
  <2>1. Version > 0
    BY <1>2, StartedAre DEF Requirements, WriteRoles
  <2>2. \A w \in Plan.tasks : w.role \in WriteRoles => status[w] \notin Active
    BY <1>2, <2>1 DEF Start, WriterFree
  <2>3. u \in Plan.tasks
    BY <1>1, <1>2, <2>1 DEF IInv, WorkInv, ActiveWorkInCurrentPlan
  <2>4. status[u] \in Active
    BY <1>2 DEF IInv, WorkInv, Mirrors, HasActive, Active
  <2> QED
    BY <1>2, <2>2, <2>3, <2>4
<1>3. SUFFICES ASSUME NEW t \in DOMAIN status', NEW u \in DOMAIN status',
                      t.role \in WriteRoles, HasActive(t)', u.role \in WriteRoles, HasActive(u)'
               PROVE  t = u
  BY DEF OneWriter
<1>4. /\ t \in DOMAIN status /\ (HasActive(t) \/ Start(t))
      /\ u \in DOMAIN status /\ (HasActive(u) \/ Start(u))
  BY <1>3, ActiveWere
<1>5. CASE HasActive(t) /\ HasActive(u)
  BY <1>1, <1>3, <1>4, <1>5 DEF OneWriter
<1>6. CASE Start(t) /\ Start(u)
  BY <1>1, <1>4, <1>6, OneStart
<1> QED
  BY <1>2, <1>3, <1>4, <1>5, <1>6

\* Every step keeps what is said of the work.
LEMMA WorkKept ==
    ASSUME IInv, [Next]_vars
    PROVE  WorkInv'
<1>1. \A t \in DOMAIN status' : Mirrors(t)' /\ OldAttemptsEnded(t)'
  BY MirrorsKept
<1>2. OneWriter'
  BY OneWriterKept
<1> QED
  BY <1>1, <1>2, ActiveWorkKept, QuietKept, DependenciesKept DEF WorkInv

\* A step adds a review at most, and then changes neither work nor plans.
LEMMA ReviewMoves ==
    ASSUME IInv, [Next]_vars
    PROVE  \/ reviews' = reviews
           \/ /\ Len(reviews) \in Nat /\ Len(reviews') = Len(reviews) + 1 /\ reviews' # <<>>
              /\ \A i \in 1..Len(reviews) : reviews'[i] = reviews[i]
              /\ LastReview' = reviews'[Len(reviews) + 1]
              /\ LastReview'.goal = goal /\ LastReview'.version = Version
              /\ LastReview'.by[1] \in DOMAIN status
              /\ LastReview'.by[1].version > 0
              /\ attempts[LastReview'.by[1]] # <<>>
              /\ goal > 0 /\ Version > 0
              /\ state = "REVIEWING"
              /\ UNCHANGED <<lifecycle, goal, planning, work, approved, delivery>>
<1>1. Types /\ reviews \in Seq(ReviewSet) /\ Len(reviews) \in Nat /\ Version \in Nat
  BY VersionTyped, LenProperties DEF IInv, Types
<1>2. CASE \E t \in DOMAIN status, overall \in {"PASS", "FAIL"} : RecordReview(t, overall)
  <2>1. PICK t \in DOMAIN status, overall \in {"PASS", "FAIL"} : RecordReview(t, overall)
    BY <1>2
  <2> DEFINE review == [overall |-> overall, goal |-> goal, version |-> Version,
                        by |-> <<t, Len(attempts[t])>>]
  <2>2. /\ reviews' = Append(reviews, review)
        /\ state = "REVIEWING" /\ t \in Running /\ t.role = "REVIEWER" /\ goal > 0
        /\ UNCHANGED <<lifecycle, goal, planning, work, approved, delivery>>
    BY <2>1 DEF RecordReview
  <2>3. t \in AnyTask /\ Len(attempts[t]) \in Nat
    BY <1>1, TaskTyped, LenProperties DEF TaskTypes
  <2>4. review \in ReviewSet
    BY <1>1, <2>3, VersionTyped DEF ReviewSet
  <2>5. /\ Len(reviews') = Len(reviews) + 1 /\ reviews' # <<>>
        /\ \A i \in 1..Len(reviews) : reviews'[i] = reviews[i]
        /\ reviews'[Len(reviews) + 1] = review
    BY <1>1, <2>2, <2>4, AppendProperties
  <2>6. t.version > 0 /\ Version > 0
    <3>1. TaskShape(t)
      BY DEF IInv, Shapes
    <3>2. t.version # 0
      BY <2>2, <3>1 DEF TaskShape, Requirements
    <3> QED
      BY <1>1, <2>3, <3>1, <3>2 DEF TaskShape, AnyTask
  <2>7. attempts[t] # <<>>
    BY <2>2 DEF Running
  <2>8. LastReview' = review
    BY <2>5 DEF LastReview
  <2> QED
    BY <1>1, <2>2, <2>5, <2>6, <2>7, <2>8
<1> QED
  BY <1>2, NextChanges

\* Every step keeps what is said of the reviews.
LEMMA ReviewsKept ==
    ASSUME IInv, [Next]_vars
    PROVE  ReviewInv'
<1>1. /\ Types /\ goal \in Nat /\ goal' \in Nat /\ goal <= goal'
      /\ Version \in Nat /\ Version' \in Nat /\ Version <= Version'
  BY GoalGrows, PlanMoves DEF IInv
<1>2. \A t \in DOMAIN status : attempts[t] # <<>> => t \in DOMAIN status' /\ attempts'[t] # <<>>
  BY TasksKept DEF NewTasksFresh, TaskKept
<1>3. ASSUME NEW i \in 1..Len(reviews)
      PROVE  /\ reviews[i].goal \in 1..goal'
             /\ reviews[i].version \in 1..Version'
             /\ reviews[i].by[1] \in DOMAIN status'
             /\ reviews[i].by[1].version > 0
             /\ attempts'[reviews[i].by[1]] # <<>>
  <2>1. /\ reviews[i].goal \in 1..goal
        /\ reviews[i].version \in 1..Version
        /\ reviews[i].by[1] \in DOMAIN status
        /\ reviews[i].by[1].version > 0
        /\ attempts[reviews[i].by[1]] # <<>>
    BY DEF IInv, ReviewInv
  <2> QED
    BY <1>1, <1>2, <2>1
<1>4. CASE reviews' = reviews
  BY <1>3, <1>4 DEF ReviewInv
<1>5. CASE reviews' # reviews
  <2>1. /\ Len(reviews) \in Nat /\ Len(reviews') = Len(reviews) + 1
        /\ \A i \in 1..Len(reviews) : reviews'[i] = reviews[i]
        /\ LastReview' = reviews'[Len(reviews) + 1]
        /\ LastReview'.goal = goal /\ LastReview'.version = Version
        /\ LastReview'.by[1] \in DOMAIN status
        /\ LastReview'.by[1].version > 0
        /\ attempts[LastReview'.by[1]] # <<>>
        /\ goal > 0 /\ Version > 0
    BY <1>5, ReviewMoves
  <2>2. /\ LastReview'.goal \in 1..goal'
        /\ LastReview'.version \in 1..Version'
        /\ LastReview'.by[1] \in DOMAIN status'
        /\ attempts'[LastReview'.by[1]] # <<>>
    BY <1>1, <1>2, <2>1
  <2>3. ASSUME NEW i \in 1..Len(reviews')
        PROVE  i \in 1..Len(reviews) \/ i = Len(reviews) + 1
    BY <2>1
  <2>4. ASSUME NEW i \in 1..Len(reviews')
        PROVE  /\ reviews'[i].goal \in 1..goal'
               /\ reviews'[i].version \in 1..Version'
               /\ reviews'[i].by[1] \in DOMAIN status'
               /\ reviews'[i].by[1].version > 0
               /\ attempts'[reviews'[i].by[1]] # <<>>
    <3>1. CASE i \in 1..Len(reviews)
      BY <1>3, <2>1, <3>1
    <3>2. CASE i = Len(reviews) + 1
      BY <2>1, <2>2, <3>2
    <3> QED
      BY <2>3, <3>1, <3>2
  <2> QED
    BY <2>4 DEF ReviewInv
<1> QED
  BY <1>4, <1>5

\* What is approved, and what is bound, stays so; a bound delivery fixes the goal.
LEMMA ApprovedStays ==
    ASSUME [Next]_vars, NEW stage, NEW subject, Approved(stage, subject)
    PROVE  Approved(stage, subject)'
<1>1. setting' = setting /\ approved \subseteq approved'
  BY NextCases, NextChanges
<1> QED
  BY <1>1 DEF Approved, Granted, Gates

\* A bound delivery stays bound, and the goal it is for stays.
LEMMA BoundStays ==
    ASSUME IInv, [Next]_vars, bound # NoSubject
    PROVE  bound' = bound /\ goal' = goal /\ Version > 0 /\ goal > 0
<1>1. /\ Types /\ Version \in Nat /\ goal \in Nat /\ Version > 0
      /\ finalizing # NoSubject => bound = NoSubject
  BY VersionTyped DEF IInv, DeliveryPlanInv
<1>2. bound' = bound
  BY <1>1, NextChanges DEF FinalizeBind
<1>3. goal > 0
  <2>1. Version \in 1..Version
    BY <1>1
  <2> QED
    BY <1>1, <2>1 DEF IInv, Shapes, PlanShape
<1>4. goal' = goal
  <2>1. goal' = goal \/ DefineGoal \/ ReviseGoal
    BY NextChanges
  <2>2. ~DefineGoal
    BY <1>1, <1>3 DEF DefineGoal
  <2>3. ~ReviseGoal
    BY DEF ReviseGoal, GoalOpen
  <2> QED
    BY <2>1, <2>2, <2>3
<1> QED
  BY <1>1, <1>2, <1>3, <1>4

\* The places where work is done and where it is reviewed, among all places.
LEMMA PlacesAre ==
    /\ Place \in ExecutionStates => Place = "ANALYZING" \/ Place \notin Unapproved
    /\ Reviewed \intersect (Early \union {"REPAIR_PLANNING"}) = {}
    /\ "REPAIR_PLANNING" \notin Early
<1>1. ExecutionStates \intersect Unapproved = {"ANALYZING"}
  BY DEF ExecutionStates, Unapproved, Early, Terminal
<1>2. Reviewed \intersect (Early \union {"REPAIR_PLANNING"}) = {}
  BY StatesAre DEF Reviewed, Early
<1>3. "REPAIR_PLANNING" \notin Early
  BY DEF Early
<1> QED
  BY <1>1, <1>2, <1>3

\* Nothing unapproved is started.
LEMMA WorkApproved ==
    ASSUME IInv, [Next]_vars
    PROVE  OnlyApprovedWork'
<1>1. Types /\ Types' /\ DOMAIN attempts' = DOMAIN status' /\ DOMAIN attempts = DOMAIN status
  BY TypesKept DEF IInv, Types
<1>2. SUFFICES ASSUME NEW t \in DOMAIN status', attempts'[t] # <<>>, t.version > 0
               PROVE  IF IsDelivery(t)
                      THEN bound' # NoSubject /\ Approved("DELIVERY", bound)'
                      ELSE Approved("PLAN", t.version)'
  BY <1>1 DEF OnlyApprovedWork, IsDelivery, NoSubject
<1>3. t \in DOMAIN status /\ (attempts[t] # <<>> \/ Start(t))
  BY <1>2, TasksKept DEF NewTasksFresh, TaskKept
<1>4. IF IsDelivery(t) THEN bound # NoSubject /\ Approved("DELIVERY", bound)
      ELSE Approved("PLAN", t.version)
  <2>1. CASE attempts[t] # <<>>
    BY <1>1, <1>2, <1>3, <2>1 DEF IInv, ApprovalInv, OnlyApprovedWork
  <2>2. CASE Start(t) /\ IsDelivery(t)
    BY <1>3, <2>2 DEF IInv, DeliveryPlanInv
  <2>3. CASE Start(t) /\ ~IsDelivery(t)
    <3>1. t # Requirements
      BY <1>2 DEF Requirements
    <3>2. state # "ANALYZING" /\ Place = state /\ Place \in ExecutionStates /\ t \in Plan.tasks
      BY <1>3, <2>3, <3>1, StartedAre
    <3>3. Place \notin Unapproved
      BY <3>2, PlacesAre
    <3>4. PlanApproved(t)
      BY <3>2, <3>3 DEF IInv, ApprovalInv
    <3> QED
      BY <1>2, <2>3, <3>4 DEF PlanApproved
  <2> QED
    BY <1>3, <2>1, <2>2, <2>3
<1>5. CASE IsDelivery(t)
  BY <1>4, <1>5, BoundStays, ApprovedStays
<1>6. CASE ~IsDelivery(t)
  BY <1>4, <1>6, ApprovedStays
<1> QED
  BY <1>5, <1>6

\* Where a run came from.
LEMMA IntoPlaces ==
    ASSUME NEW a, NEW b, <<a, b>> \in Transitions
    PROVE  /\ b \in Early => a \in Early
           /\ b = "REPAIR_PLANNING" => a \in {"REVIEWING", "CHANGE_GUARD"}
           /\ b \notin Unapproved =>
                 a \notin Unapproved \/ (a \in {"PLANNED", "REPAIR_PLANNING"} /\ b = "EXECUTING")
           /\ b \in Reviewed => b = "REVIEWING" \/ a \in Reviewed
           /\ b \in DeliveryStates => b = "CHANGE_GUARD" \/ a \in DeliveryStates
           /\ b = "CHANGE_GUARD" => a = "REVIEWING"
           /\ a \in DeliveryStates => b \in DeliveryStates \union {"REPAIR_PLANNING"}
           /\ a \in DeliveryStates /\ b = "REPAIR_PLANNING" => a = "CHANGE_GUARD"
           /\ a \notin {"CANCELLED", "FAILED"}
           /\ a \notin Terminal /\ b \notin {"CANCELLED", "FAILED"}
<1>1. \/ a = "RECEIVED" /\ b = "CONTEXT_SYNC"
      \/ a = "CONTEXT_SYNC" /\ b = "ANALYZING"
      \/ a = "ANALYZING" /\ b = "GOAL_DEFINED"
      \/ a = "GOAL_DEFINED" /\ b = "PLANNED"
      \/ a = "PLANNED" /\ b = "EXECUTING"
      \/ a = "EXECUTING" /\ b = "INTEGRATING"
      \/ a = "INTEGRATING" /\ b = "TESTING"
      \/ a = "TESTING" /\ b = "REVIEWING"
      \/ a = "REVIEWING" /\ b = "CHANGE_GUARD"
      \/ a = "REVIEWING" /\ b = "REPAIR_PLANNING"
      \/ a = "CHANGE_GUARD" /\ b = "DOCUMENTING"
      \/ a = "CHANGE_GUARD" /\ b = "REPAIR_PLANNING"
      \/ a = "DOCUMENTING" /\ b = "DELIVERY_VALIDATION"
      \/ a = "DELIVERY_VALIDATION" /\ b = "COMMITTING"
      \/ a = "COMMITTING" /\ b = "PUSHING"
      \/ a = "COMMITTING" /\ b = "MEMORY_FINALIZATION"
      \/ a = "PUSHING" /\ b = "MEMORY_FINALIZATION"
      \/ a = "MEMORY_FINALIZATION" /\ b = "COMPLETED"
      \/ a = "REPAIR_PLANNING" /\ b = "EXECUTING"
  BY TransitionsAre
<1>2. /\ \A x : x \in Reviewed <=>
            x \in {"REVIEWING", "CHANGE_GUARD", "DOCUMENTING", "DELIVERY_VALIDATION",
                   "COMMITTING", "PUSHING", "MEMORY_FINALIZATION", "COMPLETED"}
      /\ \A x : x \in DeliveryStates <=>
            x \in {"CHANGE_GUARD", "DOCUMENTING", "DELIVERY_VALIDATION",
                   "COMMITTING", "PUSHING", "MEMORY_FINALIZATION", "COMPLETED"}
      /\ \A x : x \in Unapproved <=>
            x \in {"RECEIVED", "CONTEXT_SYNC", "ANALYZING", "GOAL_DEFINED", "PLANNED",
                   "REPAIR_PLANNING", "COMPLETED", "FAILED", "CANCELLED"}
      /\ \A x : x \in Early <=>
            x \in {"RECEIVED", "CONTEXT_SYNC", "ANALYZING", "GOAL_DEFINED", "PLANNED"}
      /\ Terminal = {"COMPLETED", "FAILED", "CANCELLED"}
  BY StatesAre DEF Reviewed, Unapproved, Early, Terminal
<1> QED
  BY <1>1, <1>2

\* A step moves the run under its plan, replaces the plan early, or extends it where it is.
LEMMA StepKinds ==
    ASSUME IInv, [Next]_vars
    PROVE  /\ Version \in Nat
           /\ \/ /\ plans' = plans /\ Version' = Version /\ Plan' = Plan
                 /\ \/ Place' = Place
                    \/ Place' \in {"CANCELLED", "FAILED"} /\ reviews' = reviews
                    \/ Moved(Place, Place') /\ reviews' = reviews
              \/ \E plan :
                    /\ FreshPlan(plan) /\ NewPlan(plan)
                    /\ Version' = Version + 1 /\ Plan' = plan
                    /\ \A v \in 1..Version : plans'[v] = plans[v]
                    /\ reviews' = reviews /\ Place' \in Early
              \/ \E plan :
                    /\ ExtendedPlan(plan) /\ NewPlan(plan)
                    /\ Version' = Version + 1 /\ Plan' = plan
                    /\ \A v \in 1..Version : plans'[v] = plans[v]
                    /\ reviews' = reviews
                    /\ Place' = Place /\ Place = state
<1>1. CASE plans' = plans /\ Version' = Version /\ Plan' = Plan
  <2>1. \A plan : ~FreshPlan(plan)
    <3>1. \A plan : NewPlan(plan) => Version' = Version + 1
      BY PlanAppended DEF NewPlan, IInv
    <3> QED
      BY <1>1, <3>1, PlanMoves DEF FreshPlan
  <2> QED
    BY <1>1, <2>1, PlanMoves, PlaceMoves
<1>2. ASSUME NEW plan, Version' = Version + 1, Plan' = plan,
             \A v \in 1..Version : plans'[v] = plans[v], FreshPlan(plan)
      PROVE  reviews' = reviews /\ Place' \in Early /\ NewPlan(plan)
  BY <1>2 DEF FreshPlan, NewPlan
<1>3. ASSUME NEW plan, Version' = Version + 1, Plan' = plan,
             \A v \in 1..Version : plans'[v] = plans[v], ExtendedPlan(plan)
      PROVE  reviews' = reviews /\ Place' = Place /\ Place = state /\ NewPlan(plan)
  <2>1. /\ state' = state /\ resume' = resume /\ reviews' = reviews /\ NewPlan(plan)
        /\ state \in {"REVIEWING", "REPAIR_PLANNING"}
    BY <1>3 DEF ExtendedPlan, NewPlan
  <2>2. state \notin Suspended
    BY <2>1 DEF Suspended
  <2> QED
    BY <2>1, <2>2 DEF Place
<1> QED
  BY <1>1, <1>2, <1>3, PlanMoves

\* What an extension adds.
LEMMA ExtendedTasks ==
    ASSUME IInv, NEW plan, ExtendedPlan(plan), NEW t \in plan.tasks
    PROVE  \/ t \in Plan.tasks
           \/ /\ t.version = Version + 1 /\ state = "REPAIR_PLANNING" /\ FailedReview
              /\ t \in Chain(Version + 1, RepairSteps) /\ ~IsDelivery(t)
           \/ /\ t.version = Version + 1 /\ state = "REVIEWING" /\ DeliveryBound
              /\ t \in Chain(Version + 1, DeliverySteps) /\ IsDelivery(t)
              /\ \A u \in Plan.tasks : ~IsDelivery(u)
<1>1. Version \in Nat /\ Version + 1 \in Nat
  BY VersionTyped DEF IInv
<1>2. PICK steps \in {DeliverySteps, RepairSteps} :
         /\ plan.tasks = Plan.tasks \union Chain(Version + 1, steps)
         /\ \/ steps = RepairSteps /\ state = "REPAIR_PLANNING" /\ FailedReview
            \/ /\ steps = DeliverySteps /\ state = "REVIEWING" /\ DeliveryBound
               /\ \A u \in Plan.tasks : ~IsDelivery(u)
  BY DEF ExtendedPlan
<1>3. t \in Plan.tasks \/ (t \in Chain(Version + 1, steps) /\ t.version = Version + 1)
  BY <1>1, <1>2, ChainTasks
<1>4. CASE steps = RepairSteps /\ state = "REPAIR_PLANNING" /\ FailedReview
  BY <1>1, <1>3, <1>4, RepairChain
<1>5. CASE /\ steps = DeliverySteps /\ state = "REVIEWING" /\ DeliveryBound
           /\ \A u \in Plan.tasks : ~IsDelivery(u)
  BY <1>1, <1>3, <1>5, DeliveryChain
<1> QED
  BY <1>2, <1>4, <1>5

\* An approved task stays approved.
LEMMA PlanApprovedStays ==
    ASSUME [Next]_vars, NEW t, PlanApproved(t)
    PROVE  PlanApproved(t)'
BY ApprovedStays DEF PlanApproved, IsDelivery

\* Before execution a plan has tasks of its own version only.
LEMMA EarlyPlansKept ==
    ASSUME IInv, [Next]_vars, Version' > 0, Place' \in Early, NEW t \in Plan'.tasks
    PROVE  t.version \in {0, Version'}
<1>1. CASE /\ plans' = plans /\ Version' = Version /\ Plan' = Plan
           /\ Place' = Place \/ Place' \in {"CANCELLED", "FAILED"} \/ Moved(Place, Place')
  <2>1. Place \in Early
    BY <1>1, IntoPlaces DEF Early, Moved
  <2> QED
    BY <1>1, <2>1 DEF IInv, ApprovalInv
<1>2. ASSUME NEW plan, FreshPlan(plan), Version' = Version + 1, Plan' = plan
      PROVE  t.version \in {0, Version'}
  BY <1>2 DEF FreshPlan, Proposed, Requirements
<1>3. ASSUME NEW plan, ExtendedPlan(plan), Place' = Place, Place = state
      PROVE  FALSE
  BY <1>3 DEF ExtendedPlan, Early
<1> QED
  BY <1>1, <1>2, <1>3, StepKinds

\* A repair plan holds approved tasks and its own.
LEMMA RepairPlansKept ==
    ASSUME IInv, [Next]_vars, Place' = "REPAIR_PLANNING"
    PROVE  /\ Version' > 0 /\ reviews' # <<>>
           /\ \A t \in Plan'.tasks :
                PlanApproved(t)' \/ (t.version = Version' /\ LastReview'.version < Version')
<1>1. Version \in Nat
  BY StepKinds
<1>2. CASE /\ plans' = plans /\ Version' = Version /\ Plan' = Plan /\ Place' = Place
  <2>1. reviews' = reviews
    <3>1. state # "REVIEWING"
      BY <1>2 DEF Place, Suspended
    <3> QED
      BY <3>1, ReviewMoves
  <2>2. LastReview' = LastReview
    BY <2>1 DEF LastReview
  <2>3. /\ Version > 0 /\ reviews # <<>>
        /\ \A t \in Plan.tasks :
              PlanApproved(t) \/ (t.version = Version /\ LastReview.version < Version)
    BY <1>2 DEF IInv, ApprovalInv
  <2> QED
    BY <1>2, <2>1, <2>2, <2>3, PlanApprovedStays
<1>3. CASE /\ plans' = plans /\ Version' = Version /\ Plan' = Plan
           /\ Moved(Place, Place') /\ reviews' = reviews
  <2>1. Place \in {"REVIEWING", "CHANGE_GUARD"} /\ FailedReview
    BY <1>3, IntoPlaces DEF Moved, Guard
  <2>2. Place \notin Unapproved
    BY <2>1 DEF Unapproved, Early, Terminal
  <2>3. Version > 0 /\ \A t \in Plan.tasks : PlanApproved(t)
    BY <2>2 DEF IInv, ApprovalInv
  <2> QED
    BY <1>3, <2>1, <2>3, PlanApprovedStays DEF FailedReview
<1>4. ASSUME NEW plan, ExtendedPlan(plan), Version' = Version + 1, Plan' = plan,
             Place' = Place, Place = state, reviews' = reviews
      PROVE  /\ Version' > 0 /\ reviews' # <<>>
             /\ \A t \in plan.tasks :
                  PlanApproved(t)' \/ (t.version = Version' /\ LastReview'.version < Version')
  <2>1. FailedReview
    BY <1>4 DEF ExtendedPlan
  <2>2. reviews # <<>> /\ LastReview.version = Version /\ LastReview' = LastReview
    BY <1>4, <2>1 DEF FailedReview, LastReview
  <2>3. ASSUME NEW t \in Plan.tasks PROVE PlanApproved(t)'
    <3>1. PlanApproved(t) \/ LastReview.version < Version
      BY <1>4 DEF IInv, ApprovalInv
    <3> QED
      BY <1>1, <2>2, <3>1, PlanApprovedStays
  <2>4. ASSUME NEW t \in plan.tasks
        PROVE  PlanApproved(t)' \/ (t.version = Version' /\ LastReview'.version < Version')
    <3>1. t \in Plan.tasks \/ t.version = Version + 1
      BY <1>4, ExtendedTasks
    <3> QED
      BY <1>1, <1>4, <2>2, <2>3, <3>1
  <2> QED
    BY <1>1, <1>4, <2>2, <2>4
<1>5. Place' \notin Early \union {"CANCELLED", "FAILED"}
  BY DEF Early
<1> QED
  BY <1>2, <1>3, <1>4, <1>5, StepKinds

\* From execution on, every task of the plan is of an approved version.
LEMMA ApprovedPlansKept ==
    ASSUME IInv, [Next]_vars, Place' \notin Unapproved
    PROVE  Version' > 0 /\ \A t \in Plan'.tasks : PlanApproved(t)'
<1>1. Version \in Nat
  BY StepKinds
<1>2. CASE Version > 0 /\ \A t \in Plan.tasks : PlanApproved(t)
  <2>1. CASE plans' = plans /\ Version' = Version /\ Plan' = Plan
    BY <1>2, <2>1, PlanApprovedStays
  <2>2. ASSUME NEW plan, ExtendedPlan(plan), Version' = Version + 1, Plan' = plan,
               Place' = Place, Place = state
        PROVE  Version' > 0 /\ \A t \in plan.tasks : PlanApproved(t)'
    <3>1. state # "REPAIR_PLANNING"
      BY <2>2 DEF Unapproved
    <3>2. \A t \in plan.tasks : t \in Plan.tasks \/ IsDelivery(t)
      BY <2>2, <3>1, ExtendedTasks
    <3>3. \A t : IsDelivery(t) => PlanApproved(t)
      BY DEF PlanApproved
    <3> QED
      BY <1>1, <1>2, <2>2, <3>2, <3>3, PlanApprovedStays
  <2>3. Place' \notin Early
    BY DEF Unapproved
  <2> QED
    BY <2>1, <2>2, <2>3, StepKinds
<1>3. CASE /\ plans' = plans /\ Version' = Version /\ Plan' = Plan /\ Moved(Place, Place')
           /\ Place \in {"PLANNED", "REPAIR_PLANNING"} /\ Place' = "EXECUTING"
  <2>1. Guard("EXECUTING")
    BY <1>3 DEF Moved
  <2>2. Version > 0 /\ Approved("PLAN", Version)
    BY <2>1 DEF Guard, PlanServesGoal
  <2>3. ASSUME NEW t \in Plan.tasks PROVE PlanApproved(t)
    <3>1. CASE t.version \in {0, Version}
      BY <2>2, <3>1 DEF PlanApproved
    <3>2. CASE Place = "PLANNED"
      <4>1. t.version \in {0, Version}
        BY <2>2, <3>2 DEF IInv, ApprovalInv, Early
      <4> QED
        BY <3>1, <4>1
    <3>3. CASE Place = "REPAIR_PLANNING"
      BY <3>1, <3>3 DEF IInv, ApprovalInv
    <3> QED
      BY <1>3, <3>2, <3>3
  <2> QED
    BY <1>3, <2>2, <2>3, PlanApprovedStays
<1>4. CASE Place \notin Unapproved
  BY <1>2, <1>4 DEF IInv, ApprovalInv
<1>5. CASE Place \in Unapproved
  <2>1. ASSUME NEW plan, ExtendedPlan(plan), Place' = Place, Place = state PROVE FALSE
    BY <1>5, <2>1
  <2>2. Place' \notin Early \union {"CANCELLED", "FAILED"} /\ Place' # Place
    BY <1>5 DEF Unapproved, Terminal
  <2>3. Moved(Place, Place') /\ plans' = plans /\ Version' = Version /\ Plan' = Plan
    BY <2>1, <2>2, StepKinds
  <2>4. Place \in {"PLANNED", "REPAIR_PLANNING"} /\ Place' = "EXECUTING"
    BY <1>5, <2>3, IntoPlaces DEF Moved
  <2> QED
    BY <1>3, <2>3, <2>4
<1> QED
  BY <1>4, <1>5

\* Every step keeps what is said of approvals.
LEMMA ApprovalKept ==
    ASSUME IInv, [Next]_vars
    PROVE  ApprovalInv'
<1>1. Version' > 0 /\ Place' \in Early => \A t \in Plan'.tasks : t.version \in {0, Version'}
  BY EarlyPlansKept
<1>2. Place' = "REPAIR_PLANNING" =>
         /\ Version' > 0 /\ reviews' # <<>>
         /\ \A t \in Plan'.tasks :
              PlanApproved(t)' \/ (t.version = Version' /\ LastReview'.version < Version')
  BY RepairPlansKept
<1>3. Place' \notin Unapproved => Version' > 0 /\ \A t \in Plan'.tasks : PlanApproved(t)'
  BY ApprovedPlansKept
<1> QED
  BY <1>1, <1>2, <1>3, WorkApproved DEF ApprovalInv, Early, Unapproved, Terminal

\* Work that succeeded stays done.
LEMMA SucceededStays ==
    ASSUME IInv, [Next]_vars, NEW t \in Succeeded
    PROVE  t \in Succeeded'
BY TasksKept DEF Succeeded, NewTasksFresh, TaskKept

WavesDone(roles) == \A t \in Plan.tasks : t.role \in roles => IsDelivery(t) \/ t \in Succeeded

\* Waves that are done stay done while the plan stays.
LEMMA WavesDoneStay ==
    ASSUME IInv, [Next]_vars, NEW roles, WavesDone(roles), Plan' = Plan
    PROVE  WavesDone(roles)'
BY SucceededStays DEF WavesDone, IsDelivery

\* A run passes a wave when it is done, and plans are extended behind none.
LEMMA WaveKept ==
    ASSUME IInv, [Next]_vars
    PROVE  WaveInv'
<1>1. ASSUME Place' \in {"INTEGRATING", "TESTING"} PROVE WavesDone({"REPAIR", "DEVELOPER"})'
  <2>1. Place' \notin Early \union {"CANCELLED", "FAILED", "REVIEWING", "REPAIR_PLANNING"}
    BY <1>1 DEF Early
  <2>2. CASE plans' = plans /\ Version' = Version /\ Plan' = Plan /\ Place' = Place
    <3>1. WavesDone({"REPAIR", "DEVELOPER"})
      BY <1>1, <2>2 DEF IInv, WaveInv, WavesDone
    <3> QED
      BY <2>2, <3>1, WavesDoneStay
  <2>3. CASE plans' = plans /\ Version' = Version /\ Plan' = Plan /\ Moved(Place, Place')
    <3>1. WaveDone(Place')
      BY <2>3 DEF Moved
    <3>2. Waves(Place') = {"REPAIR", "DEVELOPER"}
      BY <1>1 DEF Waves
    <3>3. WavesDone({"REPAIR", "DEVELOPER"})
      BY <1>1, <3>1, <3>2 DEF WaveDone, WavesDone
    <3> QED
      BY <2>3, <3>3, WavesDoneStay
  <2>4. ASSUME NEW plan, ExtendedPlan(plan), Place' = Place, Place = state PROVE FALSE
    BY <2>1, <2>4 DEF ExtendedPlan
  <2> QED
    BY <2>1, <2>2, <2>3, <2>4, StepKinds
<1>2. ASSUME Place' \in Reviewed PROVE WavesDone({"REPAIR", "DEVELOPER", "TESTER"})'
  <2>1. Place' \notin Early \union {"CANCELLED", "FAILED", "REPAIR_PLANNING"}
    BY <1>2, PlacesAre, StatesAre DEF Reviewed
  <2>2. CASE Place \in Reviewed
    <3>1. WavesDone({"REPAIR", "DEVELOPER", "TESTER"})
      BY <2>2 DEF IInv, WaveInv, WavesDone
    <3>2. ASSUME NEW plan, ExtendedPlan(plan), Place' = Place, Place = state, Plan' = plan
          PROVE  WavesDone({"REPAIR", "DEVELOPER", "TESTER"})'
      <4>1. state # "REPAIR_PLANNING"
        BY <2>1, <3>2
      <4>2. \A t \in plan.tasks : t \in Plan.tasks \/ IsDelivery(t)
        BY <3>2, <4>1, ExtendedTasks
      <4> QED
        BY <3>1, <3>2, <4>2, SucceededStays DEF WavesDone, IsDelivery
    <3> QED
      BY <2>1, <3>1, <3>2, WavesDoneStay, StepKinds
  <2>3. CASE plans' = plans /\ Version' = Version /\ Plan' = Plan /\ Moved(Place, Place')
             /\ Place' = "REVIEWING"
    <3>1. WaveDone(Place')
      BY <2>3 DEF Moved
    <3>2. Waves(Place') = {"REPAIR", "DEVELOPER", "TESTER"}
      BY <2>3 DEF Waves
    <3>3. WavesDone({"REPAIR", "DEVELOPER", "TESTER"})
      BY <2>3, <3>1, <3>2 DEF WaveDone, WavesDone
    <3> QED
      BY <2>3, <3>3, WavesDoneStay
  <2>4. CASE Place \notin Reviewed
    <3>1. Place' # Place
      BY <1>2, <2>4
    <3>2. plans' = plans /\ Version' = Version /\ Plan' = Plan /\ Moved(Place, Place')
      BY <2>1, <3>1, StepKinds
    <3>3. Place' = "REVIEWING"
      BY <1>2, <2>4, <3>2, IntoPlaces DEF Moved
    <3> QED
      BY <2>3, <3>2, <3>3
  <2> QED
    BY <2>2, <2>4
<1> QED
  BY <1>1, <1>2 DEF WaveInv, WavesDone, Reviewed, DeliveryStates, Sequence

\* A delivery step is new only when a delivery plan is installed, and it is the first.
LEMMA NewDelivery ==
    ASSUME IInv, [Next]_vars, NEW t \in DOMAIN status' \ DOMAIN status, IsDelivery(t)
    PROVE  /\ t.version = Version + 1
           /\ state = "REVIEWING" /\ Place' = state
           /\ DeliveryBound
           /\ t \in Chain(Version + 1, DeliverySteps)
           /\ Chain(Version + 1, DeliverySteps) \subseteq Plan'.tasks
           /\ ChainAfter(Version + 1, DeliverySteps) \subseteq Plan'.after
           /\ Plan'.goal = goal /\ Version' = Version + 1
           /\ Plan.tasks \subseteq Plan'.tasks
           /\ \A u \in DOMAIN status : ~IsDelivery(u)
<1>1. Version \in Nat /\ Types
  BY VersionTyped DEF IInv
<1>2. t # Requirements
  BY DeliveryNames DEF Requirements
<1>3. ~WorkOnly
  BY <1>2 DEF WorkOnly
<1>4. ASSUME NEW plan, FreshPlan(plan) PROVE FALSE
  <2>1. t \in plan.tasks
    BY <1>4 DEF FreshPlan, NewPlan
  <2> QED
    BY <1>2, <1>4, <2>1 DEF FreshPlan, Proposed
<1>5. PICK plan : ExtendedPlan(plan)
  BY <1>3, <1>4, NextMoves
<1>6. NewPlan(plan) /\ Plan' = plan /\ Version' = Version + 1 /\ t \in plan.tasks
  BY <1>1, <1>5, PlanAppended DEF ExtendedPlan, NewPlan
<1>7. t \notin Plan.tasks /\ Version \in 1..Version
  BY <1>1, <1>5, PlanTyped DEF ExtendedPlan, PlanServesGoal, IInv, Shapes, PlanShape, Plan
<1>8. /\ t.version = Version + 1 /\ state = "REVIEWING" /\ DeliveryBound
      /\ t \in Chain(Version + 1, DeliverySteps)
      /\ \A u \in Plan.tasks : ~IsDelivery(u)
  BY <1>5, <1>6, <1>7, ExtendedTasks
<1>9. ASSUME NEW u \in DOMAIN status, IsDelivery(u) PROVE FALSE
  <2>1. Chain(u.version, DeliverySteps) \subseteq Plan.tasks /\ u \in Chain(u.version, DeliverySteps)
    BY <1>9 DEF IInv, DeliveryPlanInv
  <2> QED
    BY <1>8, <1>9, <2>1
<1>10. PICK steps \in {DeliverySteps, RepairSteps} :
          /\ plan.tasks = Plan.tasks \union Chain(Version + 1, steps)
          /\ Plan.after \union ChainAfter(Version + 1, steps) \subseteq plan.after
          /\ \/ steps = RepairSteps /\ state = "REPAIR_PLANNING" /\ FailedReview
             \/ steps = DeliverySteps /\ state = "REVIEWING"
  BY <1>5 DEF ExtendedPlan
<1>11. steps = DeliverySteps
  BY <1>8, <1>10
<1>12. Place' = state
  BY <1>5, <1>8 DEF ExtendedPlan, NewPlan, Place, Suspended
<1> QED
  BY <1>6, <1>8, <1>9, <1>10, <1>11, <1>12 DEF NewPlan

DeliveryTask(t) ==
    /\ bound # NoSubject
    /\ Approved("DELIVERY", bound)
    /\ PlanServesGoal
    /\ Place \notin Early
    /\ t \in Chain(t.version, DeliverySteps)
    /\ Chain(t.version, DeliverySteps) \subseteq Plan.tasks
    /\ ChainAfter(t.version, DeliverySteps) \subseteq Plan.after
    /\ \A u \in DOMAIN status : IsDelivery(u) => u.version = t.version

\* A delivery plan is not replaced, but a repair may extend it.
LEMMA OldDeliveryKept ==
    ASSUME IInv, [Next]_vars, NEW t \in DOMAIN status, IsDelivery(t)
    PROVE  DeliveryTask(t)'
<1>1. Version \in Nat /\ Types
  BY VersionTyped DEF IInv
<1>2. DeliveryTask(t)
  BY DEF IInv, DeliveryPlanInv, DeliveryTask
<1>3. bound' = bound /\ bound' # NoSubject /\ goal' = goal /\ Version > 0
  BY <1>2, BoundStays DEF DeliveryTask
<1>4. Approved("DELIVERY", bound)'
  BY <1>2, <1>3, ApprovedStays DEF DeliveryTask
<1>5. \A u \in DOMAIN status' : IsDelivery(u) => u.version = t.version
  BY <1>2, NewDelivery DEF DeliveryTask
<1>6. CASE plans' = plans /\ Version' = Version /\ Plan' = Plan
           /\ (Place' = Place \/ Place' \in {"CANCELLED", "FAILED"} \/ Moved(Place, Place'))
  <2>1. Place' \notin Early
    BY <1>2, <1>6, IntoPlaces DEF DeliveryTask, Moved, Early
  <2>2. PlanServesGoal'
    BY <1>2, <1>3, <1>6 DEF DeliveryTask, PlanServesGoal
  <2> QED
    BY <1>2, <1>3, <1>4, <1>5, <1>6, <2>1, <2>2
    DEF DeliveryTask, IsDelivery, NoSubject, Early, Chain, ChainAfter, Task
<1>7. ASSUME NEW plan, FreshPlan(plan) PROVE FALSE
  <2>1. Version = 0 \/ Place \in Early \/ bound = NoSubject
    BY <1>7 DEF FreshPlan
  <2> QED
    BY <1>1, <1>2, <1>3, <2>1 DEF DeliveryTask
<1>8. ASSUME NEW plan, ExtendedPlan(plan), NewPlan(plan), Version' = Version + 1, Plan' = plan,
             Place' = Place, Place = state
      PROVE  DeliveryTask(t)'
  <2>1. Place' \notin Early
    BY <1>2, <1>8 DEF DeliveryTask
  <2>2. PlanServesGoal'
    BY <1>1, <1>3, <1>8 DEF NewPlan, PlanServesGoal
  <2>3. Plan.tasks \subseteq Plan'.tasks /\ Plan.after \subseteq Plan'.after
    BY <1>8 DEF ExtendedPlan
  <2>4. /\ Chain(t.version, DeliverySteps) \subseteq Plan'.tasks
        /\ ChainAfter(t.version, DeliverySteps) \subseteq Plan'.after
    BY <1>2, <2>3 DEF DeliveryTask
  <2> QED
    BY <1>2, <1>3, <1>4, <1>5, <2>1, <2>2, <2>4
    DEF DeliveryTask, IsDelivery, NoSubject, Early, Chain, ChainAfter, Task
<1> QED
  BY <1>6, <1>7, <1>8, StepKinds

\* A new delivery task satisfies the invariant of delivery plans.
LEMMA NewDeliveryKept ==
    ASSUME IInv, [Next]_vars, NEW t \in DOMAIN status' \ DOMAIN status, IsDelivery(t)
    PROVE  DeliveryTask(t)'
<1>1. Version \in Nat
  BY VersionTyped DEF IInv
<1>2. /\ t.version = Version + 1 /\ state = "REVIEWING" /\ Place' = state /\ DeliveryBound
      /\ t \in Chain(Version + 1, DeliverySteps)
      /\ Chain(Version + 1, DeliverySteps) \subseteq Plan'.tasks
      /\ ChainAfter(Version + 1, DeliverySteps) \subseteq Plan'.after
      /\ Plan'.goal = goal /\ Version' = Version + 1
      /\ \A u \in DOMAIN status : ~IsDelivery(u)
  BY NewDelivery
<1>3. bound # NoSubject /\ Approved("DELIVERY", bound)
  BY <1>2 DEF DeliveryBound, Approved
<1>4. bound' = bound /\ goal' = goal
  BY <1>3, BoundStays
<1>5. Approved("DELIVERY", bound)'
  BY <1>3, <1>4, ApprovedStays
<1>6. PlanServesGoal' /\ Place' \notin Early
  BY <1>1, <1>2, <1>4 DEF PlanServesGoal, Early
<1>7. \A u \in DOMAIN status' : IsDelivery(u) => u.version = t.version
  BY <1>2, NewDelivery
<1> QED
  BY <1>2, <1>3, <1>4, <1>5, <1>6, <1>7
  DEF DeliveryTask, IsDelivery, NoSubject, Early, Chain, ChainAfter, Task

\* Every step keeps what is said of delivery plans.
LEMMA DeliveryPlanKept ==
    ASSUME IInv, [Next]_vars
    PROVE  DeliveryPlanInv'
<1>1. /\ Version \in Nat /\ Version' \in Nat /\ Version <= Version'
      /\ finalizing # NoSubject => bound = NoSubject
      /\ finalizing # NoSubject => Version > 0
      /\ bound # NoSubject => Version > 0
  BY PlanMoves DEF IInv, DeliveryPlanInv
<1>2. finalizing' \in {finalizing, NoSubject} \/ \E push \in Pushes : FinalizeBegin(push)
  BY NextChanges
<1>3. bound' = bound \/ FinalizeBind
  BY NextChanges
<1>4. finalizing' # NoSubject => bound' = NoSubject /\ Version' > 0
  <2>1. CASE \E push \in Pushes : FinalizeBegin(push)
    BY <1>1, <2>1 DEF FinalizeBegin
  <2>2. CASE finalizing' \in {finalizing, NoSubject}
    BY <1>1, <1>3, <2>2 DEF FinalizeBind
  <2> QED
    BY <1>2, <2>1, <2>2
<1>5. bound' # NoSubject => Version' > 0
  BY <1>1, <1>3 DEF FinalizeBind
<1>6. \A t \in DOMAIN status' : IsDelivery(t) => DeliveryTask(t)'
  BY OldDeliveryKept, NewDeliveryKept
<1> QED
  BY <1>4, <1>5, <1>6
  DEF DeliveryPlanInv, DeliveryTask, IsDelivery, NoSubject, Early, Chain, ChainAfter, Task

\* The last review.
LEMMA LastReviewTyped ==
    ASSUME IInv, reviews # <<>>
    PROVE  /\ LastReview.goal \in 1..goal /\ LastReview.version \in 1..Version
           /\ Version > 0 /\ LastReview.goal \in Nat /\ LastReview.version \in Nat
<1>1. Types /\ Len(reviews) \in Nat /\ Version \in Nat /\ goal \in Nat
  BY LenProperties, VersionTyped DEF IInv, Types
<1>2. Len(reviews) \in 1..Len(reviews)
  BY <1>1, EmptySeq, LenProperties DEF Types
<1>3. LastReview.goal \in 1..goal /\ LastReview.version \in 1..Version
  BY <1>2 DEF IInv, ReviewInv, LastReview
<1> QED
  BY <1>1, <1>3

\* While no review is recorded the last one stays.
LEMMA ReviewStays ==
    ASSUME reviews' = reviews
    PROVE  LastReview' = LastReview /\ ReviewPasses' = ReviewPasses
BY DEF LastReview, ReviewPasses

\* No plan has tasks newer than itself.
LEMMA PlanCovered ==
    ASSUME IInv, Version > 0
    PROVE  ReviewCovers(Version)
<1>1. Version \in 1..Version
  BY PlanTyped DEF IInv
<1> QED
  BY <1>1 DEF IInv, Shapes, PlanShape, ReviewCovers, Plan

\* Later plans are for later goals.
LEMMA GoalsKept ==
    ASSUME IInv, [Next]_vars, NEW v \in 1..Version', NEW w \in 1..Version', v <= w
    PROVE  plans'[v].goal <= plans'[w].goal
<1>1. /\ Version \in Nat /\ goal \in Nat
      /\ \A i \in 1..Version : plans[i].goal \in 1..goal
      /\ \A i, j \in 1..Version : i <= j => plans[i].goal <= plans[j].goal
  BY VersionTyped DEF IInv, Shapes, PlanShape, CoverInv
<1>2. CASE plans' = plans /\ Version' = Version
  BY <1>1, <1>2
<1>3. ASSUME NEW plan, Version' = Version + 1, NewPlan(plan), plans'[Version + 1] = plan,
             \A i \in 1..Version : plans'[i] = plans[i]
      PROVE  plans'[v].goal <= plans'[w].goal
  <2>1. plan.goal = goal
    BY <1>3 DEF NewPlan
  <2>2. w \in 1..Version => v \in 1..Version
    BY <1>1, <1>3
  <2>3. CASE w \in 1..Version
    BY <1>1, <1>3, <2>2, <2>3
  <2>4. CASE w = Version + 1 /\ v \in 1..Version
    <3>1. plans[v].goal \in 1..goal
      BY <1>1, <2>4
    <3> QED
      BY <1>1, <1>3, <2>1, <2>4, <3>1
  <2>5. CASE w = Version + 1 /\ v = Version + 1
    BY <1>1, <1>3, <2>1, <2>5
  <2> QED
    BY <1>1, <1>3, <2>3, <2>4, <2>5
<1> QED
  BY <1>2, <1>3, PlanMoves

\* What a passing review of its own plan covers is not added to.
LEMMA ReviewCoversKept ==
    ASSUME IInv, [Next]_vars, Version' > 0, ReviewPasses', LastReview'.goal = Plan'.goal,
           plans'[LastReview'.version].goal = LastReview'.goal
    PROVE  \A t \in Plan'.tasks : IsDelivery(t) \/ t.version <= LastReview'.version
<1>1. Version \in Nat /\ goal \in Nat /\ Types
  BY VersionTyped DEF IInv
<1>2. CASE reviews' # reviews
  <2>1. LastReview'.version = Version /\ Version > 0 /\ Plan' = Plan
    BY <1>2, ReviewMoves DEF planning, Plan, Version
  <2> QED
    BY <2>1, PlanCovered DEF ReviewCovers
<1>3. CASE reviews' = reviews
  <2>1. ReviewPasses /\ LastReview' = LastReview /\ reviews # <<>>
    BY <1>3, ReviewStays DEF ReviewPasses
  <2>2. /\ LastReview.goal \in 1..goal /\ LastReview.version \in 1..Version
        /\ LastReview.goal \in Nat /\ LastReview.version \in Nat /\ Version > 0
    BY <2>1, LastReviewTyped
  <2>3. ASSUME LastReview.goal = Plan.goal, plans[LastReview.version].goal = LastReview.goal
        PROVE  ReviewCovers(LastReview.version)
    BY <2>1, <2>2, <2>3 DEF IInv, CoverInv
  <2>4. CASE plans' = plans /\ Version' = Version /\ Plan' = Plan
    <3>1. ReviewCovers(LastReview.version)
      BY <2>1, <2>3, <2>4
    <3> QED
      BY <2>1, <2>4, <3>1 DEF ReviewCovers
  <2>5. ASSUME NEW plan, FreshPlan(plan), NewPlan(plan), Plan' = plan,
               \A i \in 1..Version : plans'[i] = plans[i]
        PROVE  FALSE
    <3>1. Plan.goal # goal
      BY <2>1, <2>2, <2>5 DEF FreshPlan
    <3>2. plans[LastReview.version].goal = goal
      BY <2>1, <2>2, <2>5 DEF NewPlan
    <3>3. Version \in 1..Version /\ LastReview.version <= Version
      BY <1>1, <2>2
    <3>4. plans[LastReview.version].goal <= plans[Version].goal /\ plans[Version].goal \in 1..goal
      BY <2>2, <3>3 DEF IInv, CoverInv, Shapes, PlanShape
    <3>5. plans[Version].goal = goal
      BY <1>1, <3>2, <3>4
    <3> QED
      BY <3>1, <3>5 DEF Plan
  <2>6. ASSUME NEW plan, ExtendedPlan(plan), NewPlan(plan), Plan' = plan,
               \A i \in 1..Version : plans'[i] = plans[i]
        PROVE  \A t \in Plan'.tasks : IsDelivery(t) \/ t.version <= LastReview'.version
    <3>1. Plan.goal = goal /\ plan.goal = goal
      BY <2>6 DEF ExtendedPlan, NewPlan, PlanServesGoal
    <3>2. ReviewCovers(LastReview.version)
      BY <2>1, <2>2, <2>3, <2>6, <3>1
    <3>3. ~FailedReview
      BY <2>1 DEF ReviewPasses, FailedReview
    <3>4. \A t \in plan.tasks : t \in Plan.tasks \/ IsDelivery(t)
      BY <2>6, <3>3, ExtendedTasks
    <3> QED
      BY <2>1, <2>6, <3>2, <3>4 DEF ReviewCovers
  <2> QED
    BY <2>4, <2>5, <2>6, StepKinds
<1> QED
  BY <1>2, <1>3

\* Nor is what the review of an authorised plan covers.
LEMMA SubjectCoversKept ==
    ASSUME IInv, [Next]_vars, NEW s \in {finalizing', bound'}, s # NoSubject,
           ReviewPasses', LastReview'.version = s.version
    PROVE  \A t \in Plan'.tasks : IsDelivery(t) \/ t.version <= s.version
<1>1. Version \in Nat
  BY VersionTyped DEF IInv
<1>2. CASE s.version = Version /\ Version > 0 /\ Plan' = Plan
  BY <1>2, PlanCovered DEF ReviewCovers
<1>3. CASE reviews' # reviews
  <2>1. LastReview'.version = Version /\ Version > 0 /\ Plan' = Plan
    BY <1>3, ReviewMoves DEF planning, Plan, Version
  <2> QED
    BY <1>2, <2>1
<1>4. CASE \E push \in Pushes : FinalizeBegin(push) /\ s = finalizing'
  <2>1. PICK push \in Pushes : FinalizeBegin(push) /\ s = finalizing'
    BY <1>4
  <2>2. s = Subject(push) /\ Version > 0 /\ Plan' = Plan
    BY <2>1 DEF FinalizeBegin, planning, Plan, Version
  <2>3. s.version = Version
    BY <2>2 DEF Subject
  <2> QED
    BY <1>2, <2>2, <2>3
<1>5. CASE reviews' = reviews /\ s \in {finalizing, bound}
  <2>1. ReviewPasses /\ LastReview.version = s.version /\ Version > 0 /\ reviews # <<>>
    BY <1>5, ReviewStays DEF ReviewPasses, IInv, DeliveryPlanInv
  <2>2. ReviewCovers(s.version)
    BY <1>5, <2>1 DEF IInv, CoverInv
  <2>3. CASE Plan' = Plan
    BY <2>2, <2>3 DEF ReviewCovers
  <2>4. ASSUME NEW plan, FreshPlan(plan) PROVE FALSE
    BY <1>1, <1>5, <2>1, <2>4 DEF FreshPlan
  <2>5. ASSUME NEW plan, ExtendedPlan(plan), Plan' = plan
        PROVE  \A t \in Plan'.tasks : IsDelivery(t) \/ t.version <= s.version
    <3>1. ~FailedReview
      BY <2>1 DEF ReviewPasses, FailedReview
    <3>2. \A t \in plan.tasks : t \in Plan.tasks \/ IsDelivery(t)
      BY <2>5, <3>1, ExtendedTasks
    <3> QED
      BY <2>2, <2>5, <3>2 DEF ReviewCovers
  <2> QED
    BY <2>3, <2>4, <2>5, StepKinds
<1>6. s \in {finalizing, bound} \/ \E push \in Pushes : FinalizeBegin(push) /\ s = finalizing'
  <2>1. finalizing' \in {finalizing, NoSubject} \/ \E push \in Pushes : FinalizeBegin(push)
    BY NextChanges
  <2>2. bound' = bound \/ FinalizeBind
    BY NextChanges
  <2>3. CASE s = bound'
    BY <2>2, <2>3 DEF FinalizeBind
  <2>4. CASE s = finalizing' /\ finalizing' \in {finalizing, NoSubject}
    BY <2>4
  <2>5. CASE s = finalizing' /\ \E push \in Pushes : FinalizeBegin(push)
    BY <2>5
  <2> QED
    BY <2>1, <2>3, <2>4, <2>5
<1> QED
  BY <1>3, <1>4, <1>5, <1>6

\* Every step keeps what is said of the work a review covers.
LEMMA CoverKept ==
    ASSUME IInv, [Next]_vars
    PROVE  CoverInv'
<1>1. \A v, w \in 1..Version' : v <= w => plans'[v].goal <= plans'[w].goal
  BY GoalsKept
<1>2. /\ Version' > 0
      /\ ReviewPasses'
      /\ LastReview'.goal = Plan'.goal
      /\ plans'[LastReview'.version].goal = LastReview'.goal
      => \A t \in Plan'.tasks : IsDelivery(t) \/ t.version <= LastReview'.version
  BY ReviewCoversKept
<1>3. \A s \in {finalizing', bound'} :
         s # NoSubject /\ ReviewPasses' /\ LastReview'.version = s.version =>
             \A t \in Plan'.tasks : IsDelivery(t) \/ t.version <= s.version
  BY SubjectCoversKept
<1> QED
  BY <1>1, <1>2, <1>3 DEF CoverInv, ReviewCovers, IsDelivery, NoSubject

Touched == certs # {} \/ effect # "none"

\* What a delivery is, once there is a plan for it, in place of DeliveryPlanInv.
LEMMA PlannedDelivery ==
    ASSUME IInv, NEW t \in DOMAIN status, IsDelivery(t)
    PROVE  /\ DeliveryTask(t)
           /\ \A plan : ~FreshPlan(plan)
           /\ Version \in Nat /\ Version > 0 /\ Version \in 1..Version
<1>1. DeliveryTask(t)
  BY DEF IInv, DeliveryPlanInv, DeliveryTask
<1>2. Version \in Nat /\ Version > 0 /\ Version \in 1..Version
  BY <1>1, VersionTyped DEF DeliveryTask, PlanServesGoal, IInv
<1>3. bound # NoSubject /\ Place \notin Early
  BY <1>1 DEF DeliveryTask
<1> QED
  BY <1>1, <1>2, <1>3 DEF FreshPlan

\* The places of a delivery and of its ends, among all places.
LEMMA ClosingPlaces ==
    /\ Closing \intersect {"REVIEWING", "REPAIR_PLANNING"} = {}
    /\ DeliveryStates \subseteq Closing /\ DeliveryStates \subseteq Reviewed
    /\ DeliveryStates \intersect {"CANCELLED", "FAILED"} = {}
    /\ DeliveryStates \intersect Early = {}
    /\ Closing \ Terminal \subseteq DeliveryStates
BY StatesAre DEF Closing, Reviewed, Terminal, Early

\* A delivery step that runs does so where the coordinator has taken the run.
LEMMA RunningDelivery ==
    ASSUME IInv, NEW step, DeliveryRunning(step)
    PROVE  /\ \E t \in DOMAIN status :
                 /\ IsDelivery(t) /\ t.step = step /\ attempts[t] # <<>>
                 /\ status[t] = "RUNNING"
           /\ Place = state /\ Place \in DeliveryStates
<1>1. PICK t \in Running : IsDelivery(t) /\ t.step = step
  BY DEF DeliveryRunning
<1>2. t \in DOMAIN status /\ attempts[t] # <<>> /\ Latest(t) = "RUNNING" /\ HasActive(t)
  BY <1>1 DEF Running, HasActive, Active, IInv, Types
<1>3. state \notin Terminal \union Suspended
  BY <1>2 DEF IInv, WorkInv, StoppedIsQuiet, Types
<1>4. Place = state
  BY <1>3 DEF Place
<1>5. Place \in Closing
  BY <1>1, <1>2 DEF IInv, DeliveryInv
<1>6. status[t] = "RUNNING"
  BY <1>2 DEF IInv, WorkInv, Mirrors
<1> QED
  BY <1>1, <1>2, <1>3, <1>4, <1>5, <1>6, ClosingPlaces

\* Evidence appears, and effects begin, in such a step only.
LEMMA EvidenceMoves ==
    ASSUME IInv, [Next]_vars
    PROVE  \/ certs' \subseteq certs /\ effect' \in {effect, "none"}
           \/ EffectEnd
           \/ /\ Place = state /\ Place \in DeliveryStates
              /\ UNCHANGED <<lifecycle, goal, planning, work, reviews, approved, bound>>
<1>1. \/ effect' \in {effect, "none"}
      \/ \E c \in {"validation", "commit", "push"} : EffectBegin(c)
  BY NextChanges
<1>2. \/ certs' = certs \/ EffectEnd
      \/ \E c \in {"implementation", "documentation", "final", "memory"} : Certify(c)
  BY NextChanges
<1>3. ASSUME NEW c \in {"validation", "commit", "push"}, EffectBegin(c)
      PROVE  /\ Place = state /\ Place \in DeliveryStates
             /\ UNCHANGED <<lifecycle, goal, planning, work, reviews, approved, bound>>
  <2>1. DeliveryRunning("validation") \/ DeliveryRunning("git")
    BY <1>3 DEF EffectBegin
  <2>2. UNCHANGED <<lifecycle, goal, planning, work, reviews, approved, bound>>
    BY <1>3 DEF EffectBegin
  <2> QED
    BY <2>1, <2>2, RunningDelivery
<1>4. ASSUME NEW c, Certify(c)
      PROVE  /\ Place = state /\ Place \in DeliveryStates
             /\ UNCHANGED <<lifecycle, goal, planning, work, reviews, approved, bound>>
  <2>1. DeliveryRunning(c)
    BY <1>4 DEF Certify
  <2>2. UNCHANGED <<lifecycle, goal, planning, work, reviews, approved, bound>>
    BY <1>4 DEF Certify
  <2> QED
    BY <2>1, <2>2, RunningDelivery
<1> QED
  BY <1>1, <1>2, <1>3, <1>4

\* What has evidence had it, or gets it where the run is delivered.
LEMMA TouchedWas ==
    ASSUME IInv, [Next]_vars, Touched'
    PROVE  \/ Touched
           \/ /\ Place = state /\ Place \in DeliveryStates /\ Place' = Place
              /\ UNCHANGED <<lifecycle, goal, planning, work, reviews, approved, bound>>
<1>1. CASE certs' \subseteq certs /\ effect' \in {effect, "none"}
  BY <1>1 DEF Touched
<1>2. CASE EffectEnd
  BY <1>2 DEF Touched, EffectEnd
<1>3. CASE /\ Place = state /\ Place \in DeliveryStates
           /\ UNCHANGED <<lifecycle, goal, planning, work, reviews, approved, bound>>
  <2>1. Place' = Place
    BY <1>3 DEF Place, lifecycle
  <2> QED
    BY <1>3, <2>1
<1> QED
  BY <1>1, <1>2, <1>3, EvidenceMoves

\* A delivery under way has its plan, and the review it rests on.
Standing ==
    /\ DeliveryPlanned
    /\ ReviewPasses
    /\ ReviewServesGoal
    /\ "DELIVERY" \in Gates => bound.version = LastReview.version

\* Where there is evidence, the review stands and the work is done.
LEMMA DeliveryStands ==
    ASSUME IInv, Touched \/ Place \in DeliveryStates
    PROVE  Standing /\ Place \in Closing /\ WavesDone({"REPAIR", "DEVELOPER", "TESTER"})
<1>1. Standing /\ Place \in Closing
  BY ClosingPlaces DEF IInv, DeliveryInv, Touched, Standing
<1>2. CASE Place \in DeliveryStates
  BY <1>1, <1>2, ClosingPlaces DEF IInv, WaveInv, WavesDone
<1>3. CASE Touched
  BY <1>1, <1>3 DEF IInv, DeliveryInv, Touched, WavesDone
<1> QED
  BY <1>1, <1>2, <1>3

\* From there a run goes on or ends, and its plan is left alone.
LEMMA ClosingStays ==
    ASSUME IInv, [Next]_vars, DeliveryPlanned, Place \in Closing
    PROVE  Place' \in Closing /\ Plan' = Plan /\ plans' = plans /\ reviews' = reviews
<1>1. \A plan : ~FreshPlan(plan)
  BY PlannedDelivery DEF DeliveryPlanned
<1>2. ASSUME NEW plan, ExtendedPlan(plan), Place = state PROVE FALSE
  BY <1>2, ClosingPlaces DEF ExtendedPlan
<1>3. plans' = plans /\ Plan' = Plan
  BY <1>1, <1>2, StepKinds
<1>4. reviews' = reviews
  <2>1. state = "REVIEWING" => Place = "REVIEWING"
    BY DEF Place, Suspended
  <2> QED
    BY <2>1, ReviewMoves, ClosingPlaces
<1>5. CASE Moved(Place, Place')
  <2>1. Place \in DeliveryStates /\ Place' \in DeliveryStates \union {"REPAIR_PLANNING"}
    BY <1>5, IntoPlaces DEF Moved, Closing
  <2>2. ReviewPasses
    BY <2>1, DeliveryStands DEF Standing
  <2>3. Place' = "REPAIR_PLANNING" => FailedReview
    BY <1>5 DEF Moved, Guard
  <2>4. ~FailedReview
    BY <2>2 DEF FailedReview, ReviewPasses
  <2> QED
    BY <1>3, <1>4, <2>1, <2>3, <2>4, ClosingPlaces
<1>6. Place' = Place \/ Place' \in {"CANCELLED", "FAILED"} \/ Moved(Place, Place')
  BY <1>1, <1>2, StepKinds
<1> QED
  BY <1>3, <1>4, <1>5, <1>6 DEF Closing, DeliveryStates, Sequence

\* A review that stands does so until another is recorded.
LEMMA StandingStays ==
    ASSUME IInv, [Next]_vars, Standing, Place \in Closing
    PROVE  Standing'
<1>1. reviews' = reviews
  BY ClosingStays DEF Standing
<1>2. PICK t \in DOMAIN status : IsDelivery(t)
  BY DEF Standing, DeliveryPlanned
<1>3. bound' = bound /\ goal' = goal /\ setting' = setting
  BY <1>2, PlannedDelivery, BoundStays, NextCases DEF DeliveryTask
<1>4. t \in DOMAIN status'
  BY TasksKept DEF NewTasksFresh
<1>5. DeliveryPlanned'
  BY <1>2, <1>4 DEF DeliveryPlanned, IsDelivery
<1> QED
  BY <1>1, <1>3, <1>5, ReviewStays
  DEF Standing, ReviewServesGoal, Gates

\* Evidence and effects leave the run where it can only go on or end.
LEMMA TouchedKept ==
    ASSUME IInv, [Next]_vars, Touched'
    PROVE  Place' \in Closing /\ WavesDone({"REPAIR", "DEVELOPER", "TESTER"})'
<1>1. Touched \/ Place \in DeliveryStates
  BY TouchedWas
<1>2. Standing /\ Place \in Closing /\ WavesDone({"REPAIR", "DEVELOPER", "TESTER"})
  BY <1>1, DeliveryStands
<1>3. Place' \in Closing /\ Plan' = Plan
  BY <1>2, ClosingStays DEF Standing
<1> QED
  BY <1>2, <1>3, WavesDoneStay

\* So do delivery tasks.
LEMMA DeliveryWorkKept ==
    ASSUME IInv, [Next]_vars, NEW t \in DOMAIN status', IsDelivery(t), attempts'[t] # <<>>
    PROVE  Place' \in Closing
<1>1. t \in DOMAIN status /\ (attempts[t] # <<>> \/ Start(t))
  BY TasksKept DEF NewTasksFresh, TaskKept
<1>2. CASE attempts[t] # <<>>
  <2>1. Place \in Closing /\ DeliveryPlanned
    BY <1>1, <1>2 DEF IInv, DeliveryInv, DeliveryPlanned
  <2> QED
    BY <2>1, ClosingStays
<1>3. CASE Start(t)
  <2>1. state \in StartStates(t) /\ Place = state
    BY <1>1, <1>3, StartedAre
  <2>2. PICK i \in 1..6 : state \in DeliverySteps[i].at
    BY <2>1 DEF StartStates
  <2>3. state \in {"CHANGE_GUARD", "DOCUMENTING", "DELIVERY_VALIDATION", "COMMITTING", "PUSHING",
                   "MEMORY_FINALIZATION"}
    BY <2>2, DeliveryStepsAre
  <2>4. UNCHANGED lifecycle
    BY <1>3 DEF Start
  <2>5. Place' = Place
    BY <2>4 DEF lifecycle, Place
  <2> QED
    BY <2>1, <2>3, <2>5, StatesAre, ClosingPlaces
<1> QED
  BY <1>1, <1>2, <1>3

\* The review stands wherever a run is delivered.
LEMMA StandingKept ==
    ASSUME IInv, [Next]_vars, Touched' \/ Place' \in DeliveryStates
    PROVE  Standing'
<1>1. CASE Touched \/ Place \in DeliveryStates
  BY <1>1, DeliveryStands, StandingStays
<1>2. CASE ~Touched /\ Place \notin DeliveryStates
  <2>1. Place' \in DeliveryStates
    BY <1>2, TouchedWas
  <2>2. ASSUME NEW plan, FreshPlan(plan), Place' \in Early PROVE FALSE
    BY <2>1, <2>2, ClosingPlaces
  <2>3. Place' # Place /\ Place' \notin {"CANCELLED", "FAILED"}
    BY <1>2, <2>1, ClosingPlaces
  <2>4. /\ plans' = plans /\ Version' = Version /\ Plan' = Plan
        /\ Moved(Place, Place') /\ reviews' = reviews
    BY <2>2, <2>3, StepKinds
  <2>5. Place' = "CHANGE_GUARD"
    BY <1>2, <2>1, <2>4, IntoPlaces DEF Moved
  <2>6. Guard("CHANGE_GUARD") /\ WaveDone("CHANGE_GUARD")
    BY <2>4, <2>5 DEF Moved
  <2>7. "CHANGE_GUARD" \in DeliveryStates
    BY StatesAre
  <2>8. ReviewPasses /\ ReviewServesGoal /\ DeliveryBound
    BY <2>6, <2>7 DEF Guard, DeliveryGuard
  <2>9. Version \in 1..Version
    BY <2>8, BoundStays, PlanTyped DEF DeliveryBound, IInv
  <2>10. DeliveryPlanned
    BY <2>6, <2>9 DEF WaveDone, DeliveryPlanned, IInv, Shapes, PlanShape, Plan
  <2>11. Standing
    BY <2>8, <2>10 DEF Standing, DeliveryBound
  <2>12. bound' = bound /\ goal' = goal /\ setting' = setting
    BY <2>8, BoundStays, NextCases DEF DeliveryBound
  <2>13. DeliveryPlanned'
    BY <2>10, TasksKept DEF DeliveryPlanned, NewTasksFresh, IsDelivery
  <2> QED
    BY <2>4, <2>11, <2>12, <2>13, ReviewStays DEF Standing, ReviewServesGoal, Gates
<1> QED
  BY <1>1, <1>2

\* The final inspection certifies a workspace that was validated, and is not invalidated.
FinalHolds ==
    effect # "validation" /\ \A t \in DOMAIN status :
        IsDelivery(t) /\ t.step = "validation" => t \in Succeeded

\* The step of a delivery task names it.
LEMMA StepNamed ==
    ASSUME NEW v \in Nat, NEW t \in Chain(v, DeliverySteps)
    PROVE  /\ t.step = "validation" => t = Task(v, DeliverySteps[3])
           /\ t.step = "final" => t = Task(v, DeliverySteps[4])
<1>1. PICK i \in 1..6 : t = Task(v, DeliverySteps[i])
  BY DeliveryChain
<1>2. t.step = DeliverySteps[i].step
  BY <1>1 DEF Task
<1>3. /\ DeliverySteps[1].step = "implementation" /\ DeliverySteps[2].step = "documentation"
      /\ DeliverySteps[3].step = "validation" /\ DeliverySteps[4].step = "final"
      /\ DeliverySteps[5].step = "git" /\ DeliverySteps[6].step = "memory"
  BY DeliveryStepsAre
<1>4. i = 1 \/ i = 2 \/ i = 3 \/ i = 4 \/ i = 5 \/ i = 6
  OBVIOUS
<1>5. (t.step = "validation" => i = 3) /\ (t.step = "final" => i = 4)
  BY <1>2, <1>3, <1>4
<1> QED
  BY <1>1, <1>5

\* While the final inspection runs under the lease, the validation is over.
LEMMA FinalCertified ==
    ASSUME IInv, DeliveryRunning("final"), LeaseFree
    PROVE  FinalHolds
<1>1. PICK t \in DOMAIN status : IsDelivery(t) /\ t.step = "final" /\ attempts[t] # <<>>
  BY RunningDelivery
<1>2. DeliveryTask(t) /\ Version \in 1..Version /\ t.version \in Nat
  BY <1>1, PlannedDelivery, TaskTyped DEF IInv, AnyTask
<1>3. t = Task(t.version, DeliverySteps[4])
  BY <1>1, <1>2, StepNamed DEF DeliveryTask
<1>4. <<t, Task(t.version, DeliverySteps[3])>> \in Plan.after
  <2>1. <<Task(t.version, DeliverySteps[4]), Task(t.version, DeliverySteps[3])>>
           \in ChainAfter(t.version, DeliverySteps)
    BY <1>2, DeliveryChain
  <2> QED
    BY <1>2, <1>3, <2>1 DEF DeliveryTask
<1>5. status[Task(t.version, DeliverySteps[3])] = "SUCCEEDED"
  BY <1>1, <1>2, <1>4 DEF IInv, WorkInv, DependenciesRespected, Plan
<1>6. ASSUME NEW u \in DOMAIN status, IsDelivery(u), u.step = "validation"
      PROVE  u \in Succeeded
  <2>1. u.version = t.version /\ u \in Chain(t.version, DeliverySteps)
    BY <1>2, <1>6, PlannedDelivery DEF DeliveryTask
  <2>2. u = Task(t.version, DeliverySteps[3])
    BY <1>2, <1>6, <2>1, StepNamed
  <2> QED
    BY <1>5, <2>2 DEF Succeeded
<1> QED
  BY <1>6 DEF FinalHolds, LeaseFree

\* It stays over: a delivery plan has one validation.
LEMMA FinalStays ==
    ASSUME IInv, [Next]_vars, DeliveryPlanned, FinalHolds, effect' \in {effect, "none"}
    PROVE  FinalHolds'
<1>1. ASSUME NEW t \in DOMAIN status', IsDelivery(t), t.step = "validation"
      PROVE  t \in Succeeded'
  <2>1. t \in DOMAIN status
    BY <1>1, NewDelivery DEF DeliveryPlanned
  <2> QED
    BY <1>1, <2>1, SucceededStays DEF FinalHolds
<1> QED
  BY <1>1 DEF FinalHolds, IsDelivery

\* A final certificate is given, and kept, only then.
LEMMA FinalKept ==
    ASSUME IInv, [Next]_vars, "final" \in certs'
    PROVE  FinalHolds'
<1>1. CASE "final" \in certs
  <2>1. FinalHolds /\ DeliveryPlanned
    BY <1>1, DeliveryStands DEF IInv, DeliveryInv, FinalHolds, Touched, Standing
  <2>2. ~EffectBegin("validation")
    <3>1. SUFFICES ASSUME EffectBegin("validation") PROVE FALSE
      OBVIOUS
    <3>2. DeliveryRunning("validation")
      BY <3>1 DEF EffectBegin
    <3>3. PICK t \in DOMAIN status :
             IsDelivery(t) /\ t.step = "validation" /\ status[t] = "RUNNING"
      BY <3>2, RunningDelivery
    <3> QED
      BY <2>1, <3>3 DEF FinalHolds, Succeeded
  <2>3. effect' \in {effect, "none"} \/ EffectBegin("commit") \/ EffectBegin("push")
    BY <2>2, NextChanges
  <2>4. CASE EffectBegin("commit") \/ EffectBegin("push")
    <3>1. effect' # "validation" /\ UNCHANGED work
      BY <2>4 DEF EffectBegin
    <3> QED
      BY <2>1, <3>1 DEF FinalHolds, work, Succeeded, IsDelivery
  <2> QED
    BY <2>1, <2>3, <2>4, FinalStays
<1>2. CASE "final" \notin certs
  <2>1. \/ certs' = certs
        \/ EffectEnd
        \/ \E c \in {"implementation", "documentation", "final", "memory"} : Certify(c)
    BY NextChanges
  <2>2. ~EffectEnd
    BY <1>2 DEF EffectEnd, IInv, Types
  <2>3. Certify("final")
    <3>1. PICK c \in {"implementation", "documentation", "final", "memory"} : Certify(c)
      BY <1>2, <2>1, <2>2
    <3>2. certs' = certs \union {c} \/ certs' = certs \ {c}
      BY <3>1 DEF Certify
    <3>3. c = "final"
      BY <1>2, <3>2
    <3> QED
      BY <3>1, <3>3
  <2>4. LeaseFree /\ DeliveryRunning("final") /\ effect' = effect /\ UNCHANGED work
    BY <2>3 DEF Certify
  <2>5. FinalHolds
    BY <2>4, FinalCertified
  <2> QED
    BY <2>4, <2>5 DEF FinalHolds, work, Succeeded, IsDelivery
<1> QED
  BY <1>1, <1>2

\* A run is completed when it is delivered, and then nothing takes that back.
LEMMA CompletedKept ==
    ASSUME IInv, [Next]_vars
    PROVE  CompletedIsDelivered'
<1>1. SUFFICES ASSUME state' = "COMPLETED" PROVE CompletedIsDelivered'
  BY DEF CompletedIsDelivered
<1>2. Place' = "COMPLETED" /\ "COMPLETED" \in DeliveryStates /\ "COMPLETED" \notin Early
  BY <1>1, StatesAre DEF Place, Suspended, Early
<1>3. ASSUME DeliveryPlanned, Place \in DeliveryStates, PlanServesGoal,
             Plan.tasks \subseteq Succeeded, \E t \in Plan.tasks : t.step = "git",
             {"implementation", "documentation", "validation", "final", "commit", "memory"}
                 \subseteq certs',
             bound.push => "push" \in certs', ReviewPasses, ReviewServesGoal
      PROVE  CompletedIsDelivered'
  <2>1. PICK t \in DOMAIN status : IsDelivery(t)
    BY <1>3 DEF DeliveryPlanned
  <2>2. bound' = bound /\ goal' = goal
    BY <2>1, PlannedDelivery, BoundStays DEF DeliveryTask
  <2>3. plans' = plans /\ Plan' = Plan /\ reviews' = reviews
    BY <1>3, ClosingPlaces, ClosingStays
  <2>4. Plan'.tasks \subseteq Succeeded'
    BY <1>3, <2>3, SucceededStays
  <2>5. PlanServesGoal' /\ ReviewPasses' /\ ReviewServesGoal'
    BY <1>3, <2>2, <2>3, ReviewStays DEF PlanServesGoal, Version, Plan, ReviewServesGoal
  <2> QED
    BY <1>3, <2>2, <2>3, <2>4, <2>5 DEF CompletedIsDelivered
<1>4. CASE state = "COMPLETED"
  <2>1. /\ PlanServesGoal /\ Plan.tasks \subseteq Succeeded
        /\ \E t \in Plan.tasks : t.step = "git"
        /\ {"implementation", "documentation", "validation", "final", "commit", "memory"}
              \subseteq certs
        /\ bound.push => "push" \in certs
        /\ ReviewPasses /\ ReviewServesGoal
    BY <1>4 DEF IInv, DeliveryInv, CompletedIsDelivered
  <2>2. Place \in DeliveryStates
    BY <1>2, <1>4 DEF Place, Suspended
  <2>3. DeliveryPlanned
    BY <2>2, DeliveryStands DEF Standing
  <2>4. certs \subseteq certs'
    <3>1. effect # "validation"
      BY <2>1 DEF IInv, DeliveryInv
    <3>2. EffectEnd => certs \subseteq certs'
      BY <3>1 DEF EffectEnd
    <3>3. ASSUME NEW c, Certify(c) PROVE FALSE
      <4>1. DeliveryRunning(c)
        BY <3>3 DEF Certify
      <4>2. PICK t \in Running : TRUE
        BY <4>1 DEF DeliveryRunning
      <4>3. HasActive(t)
        BY <4>2 DEF Running, HasActive, Active
      <4> QED
        BY <1>4, <4>2, <4>3 DEF IInv, WorkInv, StoppedIsQuiet, Running, Terminal
    <3> QED
      BY <3>2, <3>3, NextChanges
  <2> QED
    BY <1>3, <2>1, <2>2, <2>3, <2>4
<1>5. CASE state # "COMPLETED"
  <2>1. state' # state
    BY <1>1, <1>5
  <2>2. /\ UNCHANGED <<plans, goal, accepted, reviews, approved, delivery, iteration>>
        /\ Moved(Place, "COMPLETED")
    BY <1>1, <1>2, <2>1, PlaceMoves DEF lifecycle, Terminal
  <2>3. Place \in DeliveryStates /\ DeliveryGuard("COMPLETED")
    BY <1>2, <2>2, IntoPlaces DEF Moved, Guard
  <2>4. /\ ReviewPasses /\ ReviewServesGoal /\ Needed("COMPLETED") \subseteq certs
        /\ Plan.tasks \subseteq Succeeded
    BY <1>2, <2>3 DEF DeliveryGuard
  <2>5. Needed("COMPLETED") =
           {"implementation", "documentation", "validation", "final", "commit"}
               \union PushNeeded \union {"memory"}
    BY DEF Needed
  <2>6. DeliveryPlanned
    BY <2>3, DeliveryStands DEF Standing
  <2>7. PICK t \in DOMAIN status : IsDelivery(t)
    BY <2>6 DEF DeliveryPlanned
  <2>8. DeliveryTask(t) /\ t.version \in Nat
    BY <2>7, PlannedDelivery, TaskTyped DEF IInv, AnyTask
  <2>9. PlanServesGoal /\ \E u \in Plan.tasks : u.step = "git"
    <3>1. 5 \in 1..6
      OBVIOUS
    <3>2. /\ Task(t.version, DeliverySteps[5]) \in Chain(t.version, DeliverySteps)
          /\ Task(t.version, DeliverySteps[5]).step = "git"
      BY <2>8, <3>1, DeliveryChain
    <3> QED
      BY <2>8, <3>2 DEF DeliveryTask
  <2>10. certs' = certs
    BY <2>2 DEF delivery
  <2>11. bound.push => "push" \in certs
    BY <2>4, <2>5 DEF PushNeeded
  <2> QED
    BY <1>3, <2>3, <2>4, <2>5, <2>6, <2>9, <2>10, <2>11
<1> QED
  BY <1>4, <1>5

\* Every step keeps what is said of delivery.
LEMMA DeliveryKept ==
    ASSUME IInv, [Next]_vars
    PROVE  DeliveryInv'
<1>1. Touched' => Place' \in Closing /\ WavesDone({"REPAIR", "DEVELOPER", "TESTER"})'
  BY TouchedKept
<1>2. \A t \in DOMAIN status' : IsDelivery(t) /\ attempts'[t] # <<>> => Place' \in Closing
  BY DeliveryWorkKept
<1>3. Touched' \/ Place' \in DeliveryStates => Standing'
  BY StandingKept
<1>4. "final" \in certs' => FinalHolds'
  BY FinalKept
<1> QED
  BY <1>1, <1>2, <1>3, <1>4, CompletedKept
  DEF DeliveryInv, Touched, Standing, FinalHolds, WavesDone, IsDelivery, Closing, DeliveryStates,
      Sequence

-----------------------------------------------------------------------------
(* The invariant holds in every state. *)

\* The invariant holds of a new run.
LEMMA InitHolds ==
    ASSUME Init
    PROVE  IInv
<1>1. /\ setting \in Settings /\ state = "RECEIVED" /\ resume = "none" /\ goal \in {0, 1}
      /\ accepted = FALSE /\ plans = <<>> /\ status = <<>> /\ attempts = <<>> /\ iteration = 0
      /\ reviews = <<>> /\ approved = {} /\ workspace = FALSE
      /\ finalizing = NoSubject /\ bound = NoSubject /\ effect = "none" /\ certs = {}
  BY DEF Init
<1>2. Version = 0 /\ DOMAIN status = {} /\ DOMAIN attempts = {} /\ Len(reviews) = 0
  BY <1>1 DEF Version
<1>3. /\ Place = "RECEIVED" /\ "RECEIVED" \notin DeliveryStates \union Reviewed
      /\ "RECEIVED" \in Early /\ "RECEIVED" \in States /\ "RECEIVED" \notin Suspended
      /\ "RECEIVED" \notin Terminal /\ "none" # "RECEIVED"
  BY <1>1, StatesAre DEF Place, Suspended, Early, Reviewed, Terminal
<1>4. MaxGoal \in Nat \ {0} /\ MaxVersion \in Nat /\ MaxRepair \in Nat
  BY <1>1, SettingsAssumption DEF MaxGoal, MaxVersion, MaxRepair
<1>5. Types
  <2>1. NoSubject \in SubjectSet
    BY DEF NoSubject, SubjectSet
  <2>2. goal \in 0..MaxGoal /\ iteration \in 0..MaxRepair /\ Version <= MaxVersion
    BY <1>1, <1>2, <1>4
  <2>3. plans \in Seq(PlanSet) /\ reviews \in Seq(ReviewSet)
    BY <1>1
  <2>4. /\ status \in [DOMAIN status -> TaskStatuses]
        /\ attempts \in [DOMAIN status -> Seq(AttemptStatuses)]
    <3>1. status = [t \in {} |-> status[t]] /\ attempts = [t \in {} |-> attempts[t]]
      BY <1>1, <1>2
    <3> QED
      BY <1>2, <3>1
  <2>5. accepted \in BOOLEAN /\ workspace \in BOOLEAN
    BY <1>1
  <2> QED
    BY <1>1, <1>2, <1>3, <2>1, <2>2, <2>3, <2>4, <2>5 DEF Types
<1>6. Shapes
  BY <1>1, <1>2 DEF Shapes
<1>7. WorkInv
  BY <1>2 DEF WorkInv, ActiveWorkInCurrentPlan, StoppedIsQuiet, DependenciesRespected, OneWriter
<1>8. ReviewInv
  BY <1>2 DEF ReviewInv
<1>9. ApprovalInv
  BY <1>2, <1>3 DEF ApprovalInv, OnlyApprovedWork, Unapproved
<1>10. WaveInv
  BY <1>3 DEF WaveInv
<1>11. DeliveryPlanInv
  BY <1>1, <1>2 DEF DeliveryPlanInv
<1>12. CoverInv
  BY <1>1, <1>2 DEF CoverInv
<1>13. DeliveryInv
  BY <1>1, <1>2, <1>3 DEF DeliveryInv, CompletedIsDelivered
<1> QED
  BY <1>5, <1>6, <1>7, <1>8, <1>9, <1>10, <1>11, <1>12, <1>13 DEF IInv

\* Every step keeps the invariant.
LEMMA StepHolds ==
    ASSUME IInv, [Next]_vars
    PROVE  IInv'
BY TypesKept, ShapesKept, WorkKept, ReviewsKept, ApprovalKept, WaveKept, DeliveryPlanKept,
   CoverKept, DeliveryKept
DEF IInv

\* The invariant holds of every run.
LEMMA InvHolds == Spec => []IInv
<1>1. Init => IInv
  BY InitHolds
<1>2. IInv /\ [Next]_vars => IInv'
  BY StepHolds
<1> QED
  BY <1>1, <1>2, PTL DEF Spec

-----------------------------------------------------------------------------
(* What follows. *)

\* Types are those of the model.
LEMMA TypeFollows ==
    ASSUME IInv
    PROVE  TypeOK
<1>1. Types /\ Shapes /\ Version \in Nat /\ MaxVersion \in Nat
  BY VersionTyped DEF IInv
<1>2. ASSUME NEW t \in DOMAIN status
      PROVE  t \in TaskSet /\ status[t] \in TaskStatuses
             /\ attempts[t] \in Seq(TaskStatuses \ {"PENDING", "READY"})
  <2>1. /\ t \in AnyTask /\ status[t] \in TaskStatuses
        /\ attempts[t] \in Seq(TaskStatuses \ {"PENDING", "READY"})
    BY <1>1, TaskTyped DEF TaskTypes, AttemptStatuses
  <2>2. t.version \in 0..MaxVersion
    BY <1>1, <2>1 DEF Shapes, TaskShape, AnyTask, Types
  <2>3. {RepairSteps[i].step : i \in 1..4} = {"diagnose", "implement", "retest", "rereview"}
    BY RepairStepsAre
  <2>4. {DeliverySteps[i].step : i \in 1..6} =
           {"implementation", "documentation", "validation", "final", "git", "memory"}
    <3>1. /\ DeliverySteps[1].step = "implementation" /\ DeliverySteps[2].step = "documentation"
          /\ DeliverySteps[3].step = "validation" /\ DeliverySteps[4].step = "final"
          /\ DeliverySteps[5].step = "git" /\ DeliverySteps[6].step = "memory"
          /\ \A i \in 1..6 : i = 1 \/ i = 2 \/ i = 3 \/ i = 4 \/ i = 5 \/ i = 6
      BY DeliveryStepsAre
    <3> QED
      BY <3>1
  <2>5. /\ t.step \in StepNames \union {"requirements"}
                         \union {RepairSteps[i].step : i \in 1..4}
                         \union {DeliverySteps[i].step : i \in 1..6}
        /\ t.role \in Roles
    <3>1. t.step \in Steps /\ t.role \in Roles
      BY <2>1 DEF AnyTask
    <3> QED
      BY <2>3, <2>4, <3>1 DEF Steps
  <2>6. t = [version |-> t.version, step |-> t.step, role |-> t.role]
    BY <2>1 DEF AnyTask
  <2>7. t \in TaskSet
    BY <2>2, <2>5, <2>6 DEF TaskSet, Roles
  <2> QED
    BY <2>1, <2>7
<1>3. \A v \in 1..Version :
         /\ plans[v].goal \in 1..goal
         /\ plans[v].tasks \subseteq DOMAIN status
         /\ plans[v].after \subseteq plans[v].tasks \X plans[v].tasks
  BY <1>1 DEF Shapes, PlanShape
<1>4. \A i \in 1..Len(reviews) : reviews[i].goal \in 1..goal /\ reviews[i].version \in 1..Version
  BY DEF IInv, ReviewInv
<1> QED
  BY <1>1, <1>2, <1>3, <1>4 DEF TypeOK, Types, Evidence

\* Any two active writers are one, so there is one at most.
LEMMA WriterFollows ==
    ASSUME IInv
    PROVE  SingleWriter
<1> DEFINE W == {t \in DOMAIN attempts : t.role \in WriteRoles /\ HasActive(t)}
<1>1. \A t, u \in W : t = u
  BY DEF IInv, Types, WorkInv, OneWriter
<1>2. CASE W = {}
  <2>1. Cardinality(W) = 0
    BY <1>2, FS_EmptySet
  <2> QED
    BY <2>1 DEF SingleWriter
<1>3. CASE W # {}
  <2>1. PICK t : W = {t}
    BY <1>1, <1>3
  <2>2. Cardinality(W) = 1
    BY <2>1, FS_Singleton
  <2> QED
    BY <2>2 DEF SingleWriter
<1> QED
  BY <1>2, <1>3

\* A run is under delivery only where the review stands.
LEMMA UnderDeliveryStands ==
    ASSUME IInv, UnderDelivery
    PROVE  /\ Standing /\ Version > 0 /\ PlanServesGoal /\ bound # NoSubject
           /\ Place \in Closing /\ WavesDone({"REPAIR", "DEVELOPER", "TESTER"})
           /\ "DELIVERY" \in Gates => bound.version = LastReview.version
<1>1. state \in DeliveryStates => Place = state
  BY StatesAre DEF Place, Suspended
<1>2. Standing /\ Place \in Closing /\ WavesDone({"REPAIR", "DEVELOPER", "TESTER"})
  BY <1>1, DeliveryStands DEF UnderDelivery, Touched
<1>3. PICK t \in DOMAIN status : IsDelivery(t)
  BY <1>2 DEF Standing, DeliveryPlanned
<1> QED
  BY <1>2, <1>3, PlannedDelivery DEF DeliveryTask, Standing

\* What the invariant says of a run under delivery is that its delivery is earned.
LEMMA DeliveryFollows ==
    ASSUME IInv
    PROVE  DeliveryIsEarned
<1>1. DeliveryServesGoal
  BY UnderDeliveryStands DEF DeliveryServesGoal, Standing
<1>2. ASSUME UnderDelivery, NEW t \in Plan.tasks
      PROVE  /\ IsDelivery(t) \/ t.role = "REVIEWER" \/ t \in Succeeded
             /\ ReviewOfItsPlan => IsDelivery(t) \/ t.version <= LastReview.version
  <2>1. /\ Standing /\ Version > 0 /\ PlanServesGoal /\ bound # NoSubject
        /\ WavesDone({"REPAIR", "DEVELOPER", "TESTER"})
        /\ "DELIVERY" \in Gates => bound.version = LastReview.version
    BY <1>2, UnderDeliveryStands
  <2>2. Version \in 1..Version /\ reviews # <<>>
    BY <2>1, PlanTyped DEF IInv, Standing, ReviewPasses
  <2>3. TaskShape(t)
    BY <2>2 DEF IInv, Shapes, PlanShape, Plan
  <2>4. t.version = 0 => t \in Succeeded
    BY <2>1, <2>3 DEF TaskShape, IInv, Shapes
  <2>5. t.version > 0 \/ t.version = 0
    BY <2>2, TaskTyped DEF IInv, Shapes, PlanShape, Plan, AnyTask
  <2>6. IsDelivery(t) \/ t.role = "REVIEWER" \/ t \in Succeeded
    BY <2>1, <2>3, <2>4, <2>5 DEF TaskShape, WavesDone
  <2>7. CASE "DELIVERY" \in Gates
    <3>1. ReviewCovers(LastReview.version)
      BY <2>1, <2>7 DEF IInv, CoverInv, Standing
    <3> QED
      BY <2>6, <3>1 DEF ReviewCovers
  <2>8. CASE \A i \in 1..Len(reviews) : plans[reviews[i].version].goal = reviews[i].goal
    <3>1. Len(reviews) \in 1..Len(reviews)
      <4>1. Len(reviews) \in Nat /\ reviews \in Seq(ReviewSet)
        BY LenProperties DEF IInv, Types
      <4> QED
        BY <2>2, <4>1, EmptySeq, LenProperties
    <3>2. plans[LastReview.version].goal = LastReview.goal
      BY <2>8, <3>1 DEF LastReview
    <3>3. LastReview.goal = Plan.goal
      BY <2>1 DEF Standing, ReviewServesGoal, PlanServesGoal
    <3>4. ReviewCovers(LastReview.version)
      BY <2>1, <3>2, <3>3 DEF IInv, CoverInv, Standing
    <3> QED
      BY <2>6, <3>4 DEF ReviewCovers
  <2> QED
    BY <2>6, <2>7, <2>8 DEF ReviewOfItsPlan
<1>3. ASSUME UnderDelivery, NEW t \in DOMAIN attempts, HasActive(t)
      PROVE  IsDelivery(t) \/ t.role = "REVIEWER"
  <2>1. Version > 0 /\ WavesDone({"REPAIR", "DEVELOPER", "TESTER"})
    BY <1>3, UnderDeliveryStands
  <2>2. t \in Plan.tasks /\ t \in DOMAIN status
    BY <1>3, <2>1 DEF IInv, Types, WorkInv, ActiveWorkInCurrentPlan
  <2>3. IsDelivery(t) \/ t.role = "REVIEWER" \/ t \in Succeeded
    BY <1>2, <1>3, <2>2
  <2>4. status[t] \in Active
    BY <1>3, <2>2 DEF IInv, WorkInv, Mirrors, HasActive, Active
  <2> QED
    BY <2>3, <2>4 DEF Succeeded, Active
<1>4. DeliveredWorkIsReviewed
  BY <1>2, <1>3 DEF DeliveredWorkIsReviewed
<1> QED
  BY <1>1, <1>4 DEF DeliveryIsEarned, IInv, DeliveryInv

\* No step rewrites history.
LEMMA HistoryFollows ==
    ASSUME IInv, [Next]_vars
    PROVE  /\ \A t \in DOMAIN status : status[t] = "SUCCEEDED" => status'[t] = "SUCCEEDED"
           /\ \A t \in DOMAIN attempts : Len(attempts[t]) <= Len(attempts'[t])
           /\ \A v \in 1..Version : plans'[v] = plans[v]
<1>1. DOMAIN attempts = DOMAIN status /\ \A t \in DOMAIN status : TaskKept(t)
  BY TasksKept DEF IInv, Types
<1>2. \A v \in 1..Version : plans'[v] = plans[v]
  BY PlanMoves
<1> QED
  BY <1>1, <1>2 DEF TaskKept

\* No step touches a finished run.
LEMMA TerminalFollows ==
    ASSUME IInv, [Next]_vars, state \in Terminal
    PROVE  UNCHANGED <<lifecycle, goal, planning, work, reviews>>
<1>1. state \in {"COMPLETED", "FAILED", "CANCELLED"} /\ Place = state
  BY DEF Terminal, Place, Suspended
<1>2. ~\E target \in States : Advance(target)
  BY DEF Advance, ValidTransition
<1>3. UNCHANGED lifecycle
  <2>1. ASSUME NEW template, Replan(template) PROVE FALSE
    BY <1>1, <2>1 DEF Replan, ReplanGuard
  <2> QED
    BY <1>2, <2>1, NextChanges
<1>4. goal' = goal
  <2>1. ~DefineGoal /\ ~ReviseGoal
    BY <1>1 DEF DefineGoal, ReviseGoal
  <2> QED
    BY <2>1, NextChanges
<1>5. ~Planning
  <2>1. ASSUME NEW template
        PROVE  ~InstallPlan(template) /\ ~ReplacePreview(template) /\ ~Replan(template)
    BY <1>1 DEF InstallPlan, ReplacePreview, Replan, ReplanGuard
  <2>2. ~InstallRepair /\ ~InstallDelivery
    BY <1>1 DEF InstallRepair, InstallDelivery
  <2> QED
    BY <2>1, <2>2 DEF Planning
<1>6. UNCHANGED <<status, attempts, plans>>
  <2>1. ~AddRequirements
    BY <1>1 DEF AddRequirements
  <2>2. ASSUME NEW t \in DOMAIN status
        PROVE  ~Start(t) /\ ~Recover(t) /\ \A s : ~Transition(t, s)
    <3>1. ~Start(t) /\ ~Recover(t)
      BY <1>1 DEF Start, ExecutionStates, Recover, Terminal
    <3>2. ASSUME NEW s, Transition(t, s) PROVE FALSE
      <4>1. attempts[t] # <<>> /\ <<Latest(t), s>> \in AttemptMoves
        BY <3>2 DEF Transition
      <4>2. HasActive(t)
        BY <4>1 DEF AttemptMoves, HasActive, Active
      <4> QED
        BY <4>2 DEF IInv, Types, WorkInv, StoppedIsQuiet
    <3> QED
      BY <3>1, <3>2
  <2> QED
    BY <1>2, <1>5, <2>1, <2>2, NextChanges
<1>7. iteration' = iteration
  BY <1>5, NextChanges DEF Planning
<1>8. reviews' = reviews
  BY <1>1, ReviewMoves
<1> QED
  BY <1>3, <1>4, <1>6, <1>7, <1>8 DEF planning, work

-----------------------------------------------------------------------------
(* The theorems. *)

\* The records of a run fit each other, active work is of the current plan, a task says what
\* its newest attempt says, and a suspended or finished run has no running worker: what the
\* run and task services take for granted of the run they load.
THEOREM RunIsConsistent == Spec => []RunInv
<1>1. IInv => RunInv
  BY TypeFollows DEF IInv, Types, WorkInv, Mirrors, RunInv, TaskMirrorsAttempt
<1> QED
  BY <1>1, InvHolds, PTL

\* TaskRuntime.start and the coordinator only ever start tasks of plan versions whose PLAN
\* gate was passed, or delivery steps of an approved delivery.
THEOREM ApprovedWork == Spec => []OnlyApprovedWork
<1>1. IInv => OnlyApprovedWork
  BY DEF IInv, ApprovalInv
<1> QED
  BY <1>1, InvHolds, PTL

\* The single-writer rule and the dependency check of TaskRuntime.start hold of every state
\* of every plan, not only where they are checked.
THEOREM OrderedWork == Spec => []WorkIsOrdered
<1>1. IInv => WorkIsOrdered
  BY WriterFollows DEF IInv, WorkInv, WorkIsOrdered
<1> QED
  BY <1>1, InvHolds, PTL

\* guard_delivery, the delivery binding and the waves of the executor together: what is
\* delivered is the finished, reviewed work of the current goal, and a completed run has the
\* evidence of every delivery step.
THEOREM EarnedDelivery == Spec => []DeliveryIsEarned
<1>1. IInv => DeliveryIsEarned
  BY DeliveryFollows
<1> QED
  BY <1>1, InvHolds, PTL

\* No service rewrites the past: succeeded tasks, attempts and plan versions stay, and a
\* finished run is frozen whatever is reported or decided late.
THEOREM FixedPast == Spec => PastIsFixed
<1>1. IInv /\ [Next]_vars =>
         [/\ \A t \in DOMAIN status : status[t] = "SUCCEEDED" => status'[t] = "SUCCEEDED"
          /\ \A t \in DOMAIN attempts : Len(attempts[t]) <= Len(attempts'[t])
          /\ \A v \in 1..Version : plans'[v] = plans[v]]_vars
  BY HistoryFollows
<1>2. IInv /\ [Next]_vars =>
         [(state \in Terminal =>
             UNCHANGED <<lifecycle, goal, planning, work, reviews>>)]_vars
  BY TerminalFollows
<1> QED
  BY <1>1, <1>2, InvHolds, PTL DEF Spec, PastIsFixed, HistoryIsKept, TerminalIsFinal

=============================================================================
