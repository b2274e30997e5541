---------------------------- MODULE RunLifecycle ----------------------------
(***************************************************************************)
(* The life of one run: its state machine and guards, the versioned goal,  *)
(* the chain of task plans, task attempts, reviews, operator approvals,    *)
(* and delivery.  Each action is one unit of work of the service that      *)
(* performs it; the store makes it atomic (see CapsuleStore).  The actors  *)
(* are the controller that drives the run, its workers, and an operator    *)
(* who pauses, revises, approves and recovers at any moment.               *)
(*                                                                         *)
(* A retry with a used idempotency key changes nothing and is a stuttering *)
(* step.  The opt-in TASK gate, telemetry actors, external-worker findings *)
(* and provider receipts are not modelled.                                 *)
(***************************************************************************)
EXTENDS Integers, Sequences, FiniteSets

CONSTANTS
    StepNames,      \* what planners call the tasks they propose
    Settings        \* the settings, callers and bounds a run may have, as records

VARIABLE
    setting         \* those of this run, fixed when it is created

Templates == setting.templates      \* task graphs the planners propose: [tasks, after]
Gates == setting.gates              \* approval stages the run's control policy requires
Pushes == setting.pushes            \* delivery policies asked for: whether to push
Interrupts == setting.interrupts    \* states callers force a run into
Reports == setting.reports          \* the statuses workers report for an attempt
MaxRepair == setting.repairs        \* max_repair_iterations
MaxAttempts == setting.attempts     \* max_task_attempts
MaxGoal == setting.goals            \* bounds: goal versions, plan versions, reviews
MaxVersion == setting.versions
MaxReview == setting.reviews

DeliverySteps ==
    <<[step |-> "implementation", role |-> "CHANGE_GUARDIAN", at |-> {"CHANGE_GUARD"}],
      [step |-> "documentation", role |-> "DOCUMENTATION", at |-> {"DOCUMENTING"}],
      [step |-> "validation", role |-> "TESTER", at |-> {"DELIVERY_VALIDATION"}],
      [step |-> "final", role |-> "CHANGE_GUARDIAN", at |-> {"DELIVERY_VALIDATION"}],
      [step |-> "git", role |-> "GITOPS", at |-> {"COMMITTING", "PUSHING"}],
      [step |-> "memory", role |-> "MEMORY_CURATOR", at |-> {"MEMORY_FINALIZATION"}]>>

ASSUME StepNamesAssumption == \A i \in 1..6 : DeliverySteps[i].step \notin StepNames

\* Planners propose work for developers, testers and reviewers only.
IsTemplate(template) ==
    /\ template.tasks \subseteq [step : StepNames, role : {"DEVELOPER", "TESTER", "REVIEWER"}]
    /\ template.after \subseteq template.tasks \X template.tasks

ASSUME SettingsAssumption == \A s \in Settings :
    /\ \A template \in s.templates : IsTemplate(template)
    /\ s.goals \in Nat \ {0}
    /\ {s.repairs, s.attempts, s.versions, s.reviews} \subseteq Nat
    /\ s.reports \subseteq {"RUNNING", "WAITING", "BLOCKED", "SUCCEEDED", "FAILED", "CANCELLED"}
    /\ s.gates \subseteq {"GOAL", "PLAN", "REPAIR", "DELIVERY"}
    /\ s.pushes \subseteq BOOLEAN
    /\ s.interrupts \subseteq
          {"PAUSED", "BLOCKED", "HUMAN_REVIEW_REQUIRED", "CANCELLED", "FAILED"}

VARIABLES
    state, resume,      \* run.state, run.resume_state
    goal, accepted,     \* current goal version; its required criteria all pass
    plans,              \* every plan version: [goal, tasks, after]
    status, attempts,   \* of each task created: its status, its attempts' statuses
    iteration,          \* run.repair_iteration
    reviews,            \* the review records, in order
    approved,           \* subjects an operator approved
    workspace,          \* the run has a workspace
    finalizing, bound,  \* delivery subject being authorised, and the one bound
    effect,             \* the delivery effect begun and not yet recorded
    certs               \* delivery evidence in force

lifecycle == <<state, resume>>
planning == <<plans, iteration>>
work == <<status, attempts>>
delivery == <<workspace, finalizing, bound, effect, certs>>
vars == <<setting, lifecycle, goal, accepted, planning, work, reviews, approved, delivery>>

-----------------------------------------------------------------------------
(* The state machine. *)

Sequence == <<"RECEIVED", "CONTEXT_SYNC", "ANALYZING", "GOAL_DEFINED", "PLANNED",
              "EXECUTING", "INTEGRATING", "TESTING", "REVIEWING", "CHANGE_GUARD",
              "DOCUMENTING", "DELIVERY_VALIDATION", "COMMITTING", "PUSHING",
              "MEMORY_FINALIZATION", "COMPLETED">>
Terminal == {"COMPLETED", "FAILED", "CANCELLED"}
Suspended == {"PAUSED", "BLOCKED", "HUMAN_REVIEW_REQUIRED"}
States ==
    {Sequence[i] : i \in 1..16} \union {"REPAIR_PLANNING"} \union Terminal \union Suspended

Transitions ==
    {<<Sequence[i], Sequence[i + 1]>> : i \in 1..15} \union
    {<<"REVIEWING", "REPAIR_PLANNING">>, <<"CHANGE_GUARD", "REPAIR_PLANNING">>,
     <<"REPAIR_PLANNING", "EXECUTING">>, <<"COMMITTING", "MEMORY_FINALIZATION">>}

ValidTransition(target) ==
    /\ state \notin Terminal
    /\ \/ target \in Suspended \union {"CANCELLED", "FAILED"} /\ target # state
       \/ target \notin Suspended \union {"CANCELLED", "FAILED"} /\
          IF state \in Suspended THEN target = resume ELSE <<state, target>> \in Transitions

\* States in which workers start and report (_EXECUTION_STATES).
ExecutionStates == {"ANALYZING", "EXECUTING", "TESTING", "REVIEWING", "CHANGE_GUARD",
                    "DOCUMENTING", "DELIVERY_VALIDATION", "COMMITTING", "PUSHING",
                    "MEMORY_FINALIZATION"}

-----------------------------------------------------------------------------
(* Tasks, plans, attempts. *)

Active == {"RUNNING", "WAITING", "BLOCKED"}
TaskStatuses == Active \union {"PENDING", "READY", "SUCCEEDED", "FAILED", "CANCELLED"}
WriteRoles == {"DEVELOPER", "TESTER", "DOCUMENTATION"}

Requirements == [version |-> 0, step |-> "requirements", role |-> "REQUIREMENTS"]

RepairSteps == <<[step |-> "diagnose", role |-> "REPAIR"],
                 [step |-> "implement", role |-> "DEVELOPER"],
                 [step |-> "retest", role |-> "TESTER"],
                 [step |-> "rereview", role |-> "REVIEWER"]>>

Task(v, s) == [version |-> v, step |-> s.step, role |-> s.role]
IsDelivery(t) == \E i \in 1..6 : DeliverySteps[i].step = t.step

Version == Len(plans)
Plan == plans[Version]
Prerequisites(plan, t) == {edge[2] : edge \in {e \in plan.after : e[1] = t}}
Roots(tasks, after) == {t \in tasks : \A e \in after : e[1] # t}

Succeeded == {t \in DOMAIN status : status[t] = "SUCCEEDED"}
Latest(t) == attempts[t][Len(attempts[t])]
HasActive(t) == attempts[t] # <<>> /\ Latest(t) \in Active
Running == {t \in DOMAIN attempts : attempts[t] # <<>> /\ Latest(t) = "RUNNING"}

\* refresh_ready: a pending task of the plan whose prerequisites all succeeded.
Refreshed(st, plan) ==
    [t \in DOMAIN st |->
        IF /\ t \in plan.tasks
           /\ st[t] = "PENDING"
           /\ \A p \in Prerequisites(plan, t) : st[p] = "SUCCEEDED"
        THEN "READY" ELSE st[t]]

AddTasks(f, tasks, value) ==
    [t \in DOMAIN f \union tasks |-> IF t \in DOMAIN f THEN f[t] ELSE value]

\* A plan is saved with its new tasks, over old statuses and attempts, and the tasks
\* that are ready at once become so.
SavePlan(plan, st, at) ==
    /\ Version < MaxVersion
    /\ plans' = Append(plans, plan)
    /\ status' = Refreshed(AddTasks(st, plan.tasks, "PENDING"), plan)
    /\ attempts' = AddTasks(at, plan.tasks, <<>>)

\* Variant: attempts stay as they are.
AttemptsLeft == attempts

\* Statuses and attempts once the active attempts, and the unstarted tasks of a set,
\* are cancelled.
CancelledStatus(unstarted) ==
    [t \in DOMAIN status |->
        IF HasActive(t) \/ (t \in unstarted /\ status[t] \in {"PENDING", "READY"})
        THEN "CANCELLED" ELSE status[t]]
CancelledAttempts ==
    [t \in DOMAIN attempts |->
        IF HasActive(t) THEN [attempts[t] EXCEPT ![Len(attempts[t])] = "CANCELLED"]
        ELSE attempts[t]]

Planned(v, template) == {Task(v, s) : s \in template.tasks}
PlannedAfter(v, template) == {<<Task(v, e[1]), Task(v, e[2])>> : e \in template.after}
Chain(v, steps) == {Task(v, steps[i]) : i \in 1..Len(steps)}
ChainAfter(v, steps) ==
    {<<Task(v, steps[i + 1]), Task(v, steps[i])>> : i \in 1..(Len(steps) - 1)}
-----------------------------------------------------------------------------
(* Approvals, reviews and delivery evidence. *)

\* The decisions kept beside the requests.
Granted(stage, subject) == <<stage, subject>> \in approved

\* require_approval: an immutable decision on exactly this subject.
Approved(stage, subject) == stage \in Gates => Granted(stage, subject)

PlanServesGoal == Version > 0 /\ Plan.goal = goal

LastReview == reviews[Len(reviews)]
ReviewPasses == reviews # <<>> /\ LastReview.overall = "PASS"

FailedReview ==
    /\ reviews # <<>>
    /\ LastReview.overall = "FAIL"
    /\ LastReview.version = Version
    /\ LastReview.goal = goal

ReviewServesGoal == LastReview.goal = goal

\* What a delivery authorisation is about: plan version, goal, review, policy.
Subject(push) ==
    [version |-> Version, goal |-> goal, review |-> Len(reviews), push |-> push]
NoSubject == [version |-> 0, goal |-> 0, review |-> 0, push |-> FALSE]

\* require_delivery_binding
DeliveryBound ==
    /\ bound # NoSubject
    /\ "DELIVERY" \in Gates =>
          /\ Granted("DELIVERY", bound)
          /\ reviews # <<>>
          /\ bound.version = LastReview.version

DeliveryStates == {Sequence[i] : i \in 10..16}

\* No controller is between two units of work of a delivery (try_run_lock succeeds).
LeaseFree == finalizing = NoSubject /\ effect = "none"

PushNeeded == IF bound.push THEN {"push"} ELSE {}

\* The delivery evidence guard_delivery asks for before each state.
Needed(target) ==
    CASE target = "CHANGE_GUARD" -> {}
      [] target = "DOCUMENTING" -> {"implementation"}
      [] target = "DELIVERY_VALIDATION" -> {"implementation", "documentation"}
      [] target = "COMMITTING" -> {"implementation", "documentation", "validation", "final"}
      [] target = "PUSHING" ->
            {"implementation", "documentation", "validation", "final", "commit"}
      [] OTHER ->
            {"implementation", "documentation", "validation", "final", "commit"}
                \union PushNeeded
                \union (IF target = "COMPLETED" THEN {"memory"} ELSE {})

\* guard_delivery
DeliveryGuard(target) ==
    target \in DeliveryStates =>
        /\ ReviewPasses
        /\ ReviewServesGoal
        /\ Needed(target) \subseteq certs
        /\ target = "PUSHING" => bound.push
        /\ target = "COMPLETED" => Version > 0 /\ Plan.tasks \subseteq Succeeded

Quiet(target) == target \in Suspended => Running = {}

\* The executor works in waves, by role, and leaves a wave when its tasks have succeeded;
\* the coordinator installs the delivery plan before it leaves REVIEWING.
Waves(target) ==
    CASE target \in {"INTEGRATING", "TESTING"} -> {"REPAIR", "DEVELOPER"}
      [] target = "REVIEWING" -> {"REPAIR", "DEVELOPER", "TESTER"}
      [] OTHER -> {}
WaveDone(target) ==
    /\ target \in {"INTEGRATING", "TESTING", "REVIEWING"} =>
          \A t \in Plan.tasks : t.role \in Waves(target) => IsDelivery(t) \/ t \in Succeeded
    /\ target = "CHANGE_GUARD" => \E t \in Plan.tasks : IsDelivery(t)

\* Orchestrator._guard
Guard(target) ==
    /\ DeliveryGuard(target)
    /\ target = "CHANGE_GUARD" => DeliveryBound /\ accepted
    /\ target = "REPAIR_PLANNING" => FailedReview /\ Approved("REPAIR", Len(reviews))
    /\ target = "EXECUTING" /\ state = "REPAIR_PLANNING" =>
          reviews # <<>> /\ Version = LastReview.version + 1
    /\ Quiet(target)
    /\ target = "GOAL_DEFINED" => goal > 0
    /\ target \in {"PLANNED", "EXECUTING"} => PlanServesGoal
    /\ target = "EXECUTING" => Approved("PLAN", Version)
-----------------------------------------------------------------------------
Init ==
    /\ setting \in Settings
    /\ state = "RECEIVED"
    /\ resume = "none"
    /\ goal \in {0, 1}
    /\ accepted = FALSE
    /\ plans = <<>>
    /\ status = <<>>
    /\ attempts = <<>>
    /\ iteration = 0
    /\ reviews = <<>>
    /\ approved = {}
    /\ workspace = FALSE
    /\ finalizing = NoSubject
    /\ bound = NoSubject
    /\ effect = "none"
    /\ certs = {}

\* What a suspended run will return to.
ResumeAfter(target) ==
    IF target \in Suspended THEN (IF state \in Suspended THEN resume ELSE state) ELSE "none"

\* Orchestrator.advance, and resume, which advances to the suspended state.
Advance(target) ==
    /\ target \in Suspended \union {"CANCELLED", "FAILED"} => target \in Interrupts
    /\ ValidTransition(target)
    /\ Guard(target)
    /\ state \in Suspended \/ WaveDone(target)
    /\ state' = target
    /\ resume' = ResumeAfter(target)
    /\ IF target \in Terminal
       THEN /\ status' = CancelledStatus(IF Version > 0 THEN Plan.tasks ELSE {})
            /\ attempts' = CancelledAttempts
       ELSE UNCHANGED work
    /\ UNCHANGED <<goal, accepted, planning, reviews, approved, delivery>>

-----------------------------------------------------------------------------
(* Goals and their acceptance. *)

DefineGoal ==
    /\ state = "ANALYZING"
    /\ goal = 0
    /\ Requirements \in Running
    /\ goal' = 1
    /\ accepted' = FALSE
    /\ UNCHANGED <<lifecycle, planning, work, reviews, approved, delivery>>

\* Variant: only the state of the run is looked at, not that its delivery is bound.
GoalOpenUnfinished == state \notin Terminal

\* No delivery is bound to this goal.
GoalOpen == bound = NoSubject

\* Takes no controller lease, so it may fall between any two steps of a controller.
ReviseGoal ==
    /\ goal > 0
    /\ goal < MaxGoal
    /\ state \in {"RECEIVED", "ANALYZING", "GOAL_DEFINED", "PAUSED", "HUMAN_REVIEW_REQUIRED"}
    /\ GoalOpen
    /\ goal' = goal + 1
    /\ accepted' = FALSE
    /\ UNCHANGED <<lifecycle, planning, work, reviews, approved, delivery>>

\* A criterion is marked TESTING, then passes or fails; not passing after the end.
Validate ==
    /\ goal > 0
    /\ accepted' \in IF state \in {"CANCELLED", "FAILED"} THEN {FALSE} ELSE BOOLEAN
    /\ UNCHANGED <<lifecycle, goal, planning, work, reviews, approved, delivery>>

-----------------------------------------------------------------------------
(* Plans. *)

InstallPlan(template) ==
    LET prepared == DOMAIN status \intersect {Requirements}
        tasks == Planned(1, template)
        after == PlannedAfter(1, template)
    IN
    /\ state = "GOAL_DEFINED"
    /\ Version = 0
    /\ goal > 0
    /\ prepared \subseteq Succeeded
    /\ Approved("GOAL", goal)
    /\ SavePlan([goal |-> goal, tasks |-> tasks \union prepared,
                 after |-> after \union (Roots(tasks, after) \X prepared)],
                status, attempts)
    /\ UNCHANGED <<lifecycle, goal, accepted, iteration, reviews, approved, delivery>>

\* An operator edits the plan before anything of it ran.
ReplacePreview(template) ==
    LET prepared == Plan.tasks \intersect {Requirements}
        tasks == Planned(Version + 1, template)
        after == PlannedAfter(Version + 1, template)
    IN
    /\ LeaseFree
    /\ state = "PLANNED" \/ (state = "PAUSED" /\ resume = "PLANNED")
    /\ PlanServesGoal
    /\ ~workspace
    /\ \A t \in DOMAIN attempts : t.version > 0 => attempts[t] = <<>>
    /\ \A t \in Plan.tasks \ prepared : status[t] \in {"PENDING", "READY"}
    /\ SavePlan([goal |-> goal, tasks |-> tasks \union prepared,
                 after |-> after \union (Roots(tasks, after) \X prepared)],
                [t \in DOMAIN status |->
                    IF t \in Plan.tasks \ prepared THEN "CANCELLED" ELSE status[t]],
                attempts)
    /\ UNCHANGED <<lifecycle, goal, accepted, iteration, reviews, approved, delivery>>

ReplanGuard ==
    /\ LeaseFree
    /\ state \in {"PAUSED", "HUMAN_REVIEW_REQUIRED"}
    /\ Version > 0
    /\ Plan.goal # goal
    /\ bound = NoSubject
    /\ Approved("GOAL", goal)
    /\ Running = {}

\* Variant: the resume state is left alone.
ReplanKeepsResume(template) ==
    /\ ReplanGuard
    /\ SavePlan([goal |-> goal, tasks |-> Planned(Version + 1, template),
                 after |-> PlannedAfter(Version + 1, template)],
                CancelledStatus(Plan.tasks), CancelledAttempts)
    /\ UNCHANGED <<lifecycle, goal, accepted, iteration, reviews, approved, delivery>>

\* Variant: attempts waiting on the old plan are forgotten.
ReplanForgetsAttempts(template) ==
    /\ ReplanGuard
    /\ SavePlan([goal |-> goal, tasks |-> Planned(Version + 1, template),
                 after |-> PlannedAfter(Version + 1, template)],
                [t \in DOMAIN status |->
                    IF t \in Plan.tasks /\ status[t] \in {"PENDING", "READY"} THEN "CANCELLED"
                    ELSE status[t]], attempts)
    /\ resume' = "PLANNED"
    /\ UNCHANGED <<state, goal, accepted, iteration, reviews, approved, delivery>>

\* A fresh plan for a revised goal.
Replan(template) ==
    /\ ReplanGuard
    /\ SavePlan([goal |-> goal, tasks |-> Planned(Version + 1, template),
                 after |-> PlannedAfter(Version + 1, template)],
                CancelledStatus(Plan.tasks), CancelledAttempts)
    /\ resume' = "PLANNED"
    /\ UNCHANGED <<state, goal, accepted, iteration, reviews, approved, delivery>>

\* A revision keeps every task of the plan, none of them active, and adds a chain.
Extend(steps, first) ==
    LET v == Version + 1 IN
    /\ PlanServesGoal
    /\ \A t \in Plan.tasks : status[t] \notin Active
    /\ SavePlan([goal |-> goal, tasks |-> Plan.tasks \union Chain(v, steps),
                 after |-> Plan.after \union ChainAfter(v, steps)
                              \union ({Task(v, steps[1])} \X first)],
                status, attempts)

InstallRepair ==
    /\ state = "REPAIR_PLANNING"
    /\ iteration < MaxRepair
    /\ FailedReview
    /\ Approved("REPAIR", Len(reviews))
    /\ Extend(RepairSteps, {})
    /\ iteration' = iteration + 1
    /\ UNCHANGED <<lifecycle, goal, accepted, reviews, approved, delivery>>

InstallDelivery ==
    /\ state = "REVIEWING"
    /\ DeliveryGuard("CHANGE_GUARD")
    /\ DeliveryBound
    /\ \A t \in Plan.tasks : ~IsDelivery(t)
    /\ Extend(DeliverySteps, Plan.tasks \intersect Succeeded)
    /\ UNCHANGED <<lifecycle, goal, accepted, iteration, reviews, approved, delivery>>

-----------------------------------------------------------------------------
(* Task attempts. *)

AddRequirements ==
    /\ state = "ANALYZING"
    /\ Version = 0
    /\ Requirements \notin DOMAIN status
    /\ status' = AddTasks(status, {Requirements}, "READY")
    /\ attempts' = AddTasks(attempts, {Requirements}, <<>>)
    /\ UNCHANGED <<lifecycle, goal, accepted, planning, reviews, approved, delivery>>

\* Where a controller starts the task: the coordinator in the state of the step, the others
\* in the states they work in.
StartStates(t) ==
    IF IsDelivery(t)
    THEN UNION {DeliverySteps[i].at : i \in {j \in 1..6 : DeliverySteps[j].step = t.step}}
    ELSE {"ANALYZING", "EXECUTING", "TESTING", "REVIEWING"}

\* The requirements task while analysing, else a ready task of a plan for the goal.
Startable(t) ==
    IF state = "ANALYZING"
    THEN t = Requirements /\ status[t] \in {"READY", "PENDING"} /\ goal = 0
    ELSE /\ PlanServesGoal
         /\ t \in Plan.tasks
         /\ status[t] \in {"PENDING", "READY"}
         /\ Prerequisites(Plan, t) \subseteq Succeeded

\* Variant: a writer that waits is not counted.
WriterRunsOnly(t) ==
    t.role \in WriteRoles /\ Version > 0 =>
        ~\E u \in Plan.tasks : u.role \in WriteRoles /\ status[u] = "RUNNING"

WriterFree(t) ==
    t.role \in WriteRoles /\ Version > 0 =>
        ~\E u \in Plan.tasks : u.role \in WriteRoles /\ status[u] \in Active

Start(t) ==
    /\ state \in ExecutionStates \intersect StartStates(t)
    /\ Startable(t)
    /\ WriterFree(t)
    /\ status' = [status EXCEPT ![t] = "RUNNING"]
    /\ attempts' = [attempts EXCEPT ![t] = Append(@, "RUNNING")]
    /\ UNCHANGED <<lifecycle, goal, accepted, planning, reviews, approved, delivery>>

AttemptMoves ==
    {<<"RUNNING", s>> : s \in {"WAITING", "BLOCKED", "SUCCEEDED", "FAILED", "CANCELLED"}}
    \union {<<"WAITING", s>> : s \in {"RUNNING", "BLOCKED", "FAILED", "CANCELLED"}}
    \union {<<"BLOCKED", s>> : s \in {"RUNNING", "FAILED", "CANCELLED"}}

\* Any worker's report, however late; a success makes its dependents ready.
Transition(t, s) ==
    /\ state \in ExecutionStates \/ s = "CANCELLED"
    /\ attempts[t] # <<>>
    /\ <<Latest(t), s>> \in AttemptMoves
    /\ attempts' = [attempts EXCEPT ![t][Len(attempts[t])] = s]
    /\ LET reported == [status EXCEPT ![t] = s] IN
       status' = IF s = "SUCCEEDED" /\ Version > 0 THEN Refreshed(reported, Plan)
                 ELSE reported
    /\ UNCHANGED <<lifecycle, goal, accepted, planning, reviews, approved, delivery>>

\* The newest attempt is interrupted or blocked.
Retirable(t) == HasActive(t)

\* The operator retires an uncertain attempt and lets the task be started again.
Recover(t) ==
    /\ LeaseFree
    /\ state \notin Terminal \union {"HUMAN_REVIEW_REQUIRED"}
    /\ IF Version > 0 THEN PlanServesGoal ELSE t = Requirements
    /\ Retirable(t)
    /\ Len(attempts[t]) < MaxAttempts
    /\ attempts' = [attempts EXCEPT ![t][Len(attempts[t])] = "FAILED"]
    /\ status' = [status EXCEPT ![t] = "READY"]
    /\ UNCHANGED <<lifecycle, goal, accepted, planning, reviews, approved, delivery>>
-----------------------------------------------------------------------------
(* Reviews and approvals. *)

\* Each criterion the review passes or fails is recorded with it.
AcceptedAfter(overall) == IF overall = "PASS" THEN {TRUE} ELSE BOOLEAN

\* A reviewer reports once per attempt; a pass settles every required criterion.
RecordReview(t, overall) ==
    /\ Len(reviews) < MaxReview
    /\ state = "REVIEWING"
    /\ t \in Running
    /\ t.role = "REVIEWER"
    /\ workspace
    /\ goal > 0
    /\ \A i \in 1..Len(reviews) : reviews[i].by # <<t, Len(attempts[t])>>
    /\ reviews' = Append(reviews, [overall |-> overall, goal |-> goal, version |-> Version,
                                  by |-> <<t, Len(attempts[t])>>])
    /\ accepted' \in AcceptedAfter(overall)
    /\ UNCHANGED <<lifecycle, goal, planning, work, approved, delivery>>

\* The subjects a controller asks about now: decisions on older versions are refused.
Subjects(stage) ==
    CASE stage = "GOAL" -> IF goal > 0 THEN {goal} ELSE {}
      [] stage = "PLAN" -> IF Version > 0 THEN {Version} ELSE {}
      [] stage = "REPAIR" -> IF FailedReview THEN {Len(reviews)} ELSE {}
      [] OTHER -> IF finalizing = NoSubject /\ bound = NoSubject /\ ReviewPasses
                     /\ state \in {"REVIEWING"} \union DeliveryStates
                  THEN {Subject(push) : push \in Pushes} ELSE {}

\* There is one request for each subject of a gate.
Pending(stage) ==
    {subject \in Subjects(stage) : stage \in Gates /\ ~ Granted(stage, subject)}

\* A rejected subject stays unapproved, like one nobody decided.
Decide(stage) ==
    /\ \E subject \in Pending(stage) : approved' = approved \union {<<stage, subject>>}
    /\ UNCHANGED <<lifecycle, goal, accepted, planning, work, reviews, delivery>>

-----------------------------------------------------------------------------
(* Delivery. *)

\* ExecutionWorkspaces.ensure, once the plan is approved; the state of the run was checked
\* in an earlier unit of work and is not checked again.
CreateWorkspace ==
    /\ ~workspace
    /\ Version > 0
    /\ Approved("PLAN", Version)
    /\ workspace' = TRUE
    /\ UNCHANGED <<lifecycle, goal, accepted, planning, work, reviews, approved,
                   finalizing, bound, effect, certs>>

\* finalize checks state, review and approval, in units of work of their own.
FinalizeBegin(push) ==
    /\ LeaseFree
    /\ bound = NoSubject
    /\ state \in {"REVIEWING"} \union DeliveryStates
    /\ Version > 0
    /\ ReviewPasses
    /\ Approved("DELIVERY", Subject(push))
    /\ finalizing' = Subject(push)
    /\ UNCHANGED <<lifecycle, goal, accepted, planning, work, reviews, approved,
                   workspace, bound, effect, certs>>

\* It records the delivery policy in another one, with no further check.
FinalizeBind ==
    /\ finalizing # NoSubject
    /\ bound' = finalizing
    /\ finalizing' = NoSubject
    /\ UNCHANGED <<lifecycle, goal, accepted, planning, work, reviews, approved,
                   workspace, effect, certs>>

DeliveryRunning(step) == \E t \in Running : IsDelivery(t) /\ t.step = step

\* Inspections, documentation and curation are recorded in the unit of work that checks;
\* an inspection that does not pass takes an earlier one back.
Certify(c) ==
    /\ LeaseFree
    /\ workspace
    /\ DeliveryRunning(c)
    /\ c \in {"documentation", "final"} => "implementation" \in certs
    /\ c = "documentation" => ReviewPasses
    /\ c = "memory" => state = "MEMORY_FINALIZATION" /\ DeliveryGuard(state)
    /\ \/ certs' = certs \union {c}
       \/ c \in {"implementation", "final"} /\ certs' = certs \ {c}
    /\ UNCHANGED <<lifecycle, goal, accepted, planning, work, reviews, approved,
                   workspace, finalizing, bound, effect>>

\* Validation, commit and push check the run in one unit of work, act on the workspace
\* or the repository, and record what they did in another.
EffectBegin(c) ==
    /\ LeaseFree
    /\ workspace
    /\ CASE c = "validation" -> DeliveryRunning("validation")
          [] c = "commit" ->
                DeliveryRunning("git") /\ state = "COMMITTING" /\ DeliveryGuard(state)
          [] OTHER ->
                DeliveryRunning("git") /\ state = "PUSHING" /\ DeliveryGuard(state)
    /\ effect' = c
    /\ UNCHANGED <<lifecycle, goal, accepted, planning, work, reviews, approved,
                   workspace, finalizing, bound, certs>>

\* The record of a commit or a push does not look at the run again; a validation passes
\* only with the criteria and the review still passing.
EffectEnd ==
    /\ effect # "none"
    /\ \/ /\ effect = "validation" => accepted /\ ReviewPasses
          /\ certs' = certs \union {effect}
       \/ /\ effect = "validation"
          /\ certs' = certs \ {effect}
    /\ effect' = "none"
    /\ UNCHANGED <<lifecycle, goal, accepted, planning, work, reviews, approved,
                   workspace, finalizing, bound>>

\* The controller crashes, fails, or is cancelled between two units of work; its lease
\* is free again.
ControllerStops ==
    /\ ~LeaseFree
    /\ finalizing' = NoSubject
    /\ effect' = "none"
    /\ UNCHANGED <<lifecycle, goal, accepted, planning, work, reviews, approved,
                   workspace, bound, certs>>

-----------------------------------------------------------------------------
Goals == DefineGoal \/ ReviseGoal \/ Validate
Planning ==
    \/ \E template \in Templates :
          InstallPlan(template) \/ ReplacePreview(template) \/ Replan(template)
    \/ InstallRepair \/ InstallDelivery
Work ==
    \/ AddRequirements
    \/ \E t \in DOMAIN status :
          \/ Start(t) \/ Recover(t)
          \/ \E s \in Reports : Transition(t, s)
          \/ \E overall \in {"PASS", "FAIL"} : RecordReview(t, overall)
Delivery ==
    \/ CreateWorkspace \/ FinalizeBind \/ EffectEnd \/ ControllerStops
    \/ \E push \in Pushes : FinalizeBegin(push)
    \/ \E c \in {"implementation", "documentation", "final", "memory"} : Certify(c)
    \/ \E c \in {"validation", "commit", "push"} : EffectBegin(c)

Next ==
    /\ \/ \E target \in States : Advance(target)
       \/ \E stage \in Gates : Decide(stage)
       \/ Goals \/ Planning \/ Work \/ Delivery
    /\ UNCHANGED setting

Spec == Init /\ [][Next]_vars
-----------------------------------------------------------------------------
(* Properties. *)

TaskSet ==
    [version : 0..MaxVersion,
     step : StepNames \union {"requirements"}
               \union {RepairSteps[i].step : i \in 1..4}
               \union {DeliverySteps[i].step : i \in 1..6},
     role : {"REQUIREMENTS", "REPAIR", "DEVELOPER", "TESTER", "REVIEWER", "CHANGE_GUARDIAN",
             "DOCUMENTATION", "GITOPS", "MEMORY_CURATOR"}]

TypeOK ==
    /\ state \in States
    /\ resume \in (States \ (Terminal \union Suspended)) \union {"none"}
    /\ resume = "none" <=> state \notin Suspended
    /\ goal \in 0..MaxGoal
    /\ accepted \in BOOLEAN
    /\ Version <= MaxVersion
    /\ \A v \in 1..Version :
          /\ plans[v].goal \in 1..goal
          /\ plans[v].tasks \subseteq DOMAIN status
          /\ plans[v].after \subseteq plans[v].tasks \X plans[v].tasks
    /\ DOMAIN attempts = DOMAIN status
    /\ \A t \in DOMAIN status :
          /\ t \in TaskSet
          /\ status[t] \in TaskStatuses
          /\ attempts[t] \in Seq(TaskStatuses \ {"PENDING", "READY"})
    /\ iteration \in 0..MaxRepair
    /\ \A i \in 1..Len(reviews) :
          reviews[i].goal \in 1..goal /\ reviews[i].version \in 1..Version
    /\ workspace \in BOOLEAN
    /\ effect \in {"none", "validation", "commit", "push"}
    /\ certs \subseteq {"implementation", "documentation", "validation", "final", "commit",
                        "push", "memory"}

\* No worker is left on a superseded plan: whatever replanning, repair or recovery did,
\* an active attempt is of a task of the current plan (or of the requirements task
\* before there is one), and is that task's newest.
ActiveWorkInCurrentPlan ==
    \A t \in DOMAIN attempts :
        /\ HasActive(t) => IF Version > 0 THEN t \in Plan.tasks ELSE t = Requirements
        /\ \A i \in 1..(Len(attempts[t]) - 1) : attempts[t][i] \notin Active

\* At most one writing worker holds the workspace, across plan revisions, pauses,
\* recoveries and late resumptions of a waiting attempt.
SingleWriter ==
    Cardinality({t \in DOMAIN attempts : t.role \in WriteRoles /\ HasActive(t)}) <= 1

\* A task says what its newest attempt says: a recovered attempt leaves a startable (or
\* since cancelled) task, and nothing shows as running with no attempt behind it.
TaskMirrorsAttempt ==
    \A t \in DOMAIN status :
        IF attempts[t] = <<>> THEN status[t] \in {"PENDING", "READY", "CANCELLED"}
        ELSE \/ status[t] = Latest(t)
             \/ Latest(t) = "FAILED" /\ status[t] \in {"READY", "CANCELLED"}

\* Work starts only on finished prerequisites, and they stay finished: in every plan
\* version a task with an attempt has all its prerequisites succeeded.
DependenciesRespected ==
    \A v \in 1..Version : \A edge \in plans[v].after :
        attempts[edge[1]] # <<>> => status[edge[2]] = "SUCCEEDED"

\* A stopped run is quiet: no worker runs while the operator revises and replans, and a
\* finished run leaves no attempt active.
StoppedIsQuiet ==
    \A t \in DOMAIN attempts : HasActive(t) =>
        state \notin Terminal /\ (state \in Suspended => Latest(t) # "RUNNING")

\* Only approved work runs: each task ever attempted is of a plan version whose PLAN
\* subject was approved, or a delivery step of an approved delivery subject.
OnlyApprovedWork ==
    \A t \in DOMAIN attempts : attempts[t] # <<>> /\ t.version > 0 =>
        IF IsDelivery(t)
        THEN bound # NoSubject /\ Approved("DELIVERY", bound)
        ELSE Approved("PLAN", t.version)

\* A reviewer that waits over a goal revision reviews the new goal under the old plan;
\* record does not look at the plan.  The DELIVERY gate compares the plan version of the
\* review, and nothing does without that gate, so the last part of the next property is about
\* runs that have the gate or no such review (no controller lets a reviewer wait).
ReviewOfItsPlan ==
    \/ "DELIVERY" \in Gates
    \/ \A i \in 1..Len(reviews) : plans[reviews[i].version].goal = reviews[i].goal

UnderDelivery == certs # {} \/ state \in DeliveryStates

\* A run is delivered only for the goal it has now: once it is being delivered, plan and
\* passing review are for one goal, which can no longer change, and the delivery is bound.
DeliveryServesGoal ==
    UnderDelivery =>
        /\ PlanServesGoal
        /\ ReviewPasses
        /\ ReviewServesGoal
        /\ bound # NoSubject

\* What is delivered is finished and reviewed: all work of the plan but reviews and delivery
\* itself has succeeded, none of any plan is in progress, and none is newer than the last,
\* passing review.
DeliveredWorkIsReviewed ==
    UnderDelivery =>
        /\ \A t \in Plan.tasks : IsDelivery(t) \/ t.role = "REVIEWER" \/ t \in Succeeded
        /\ \A t \in DOMAIN attempts :
              HasActive(t) => IsDelivery(t) \/ t.role = "REVIEWER"
        /\ ReviewOfItsPlan =>
              \A t \in Plan.tasks : IsDelivery(t) \/ t.version <= LastReview.version

\* A completed run did everything: all tasks succeeded, every step of delivery left its
\* evidence, and the reviewed goal is the current one.
CompletedIsDelivered ==
    state = "COMPLETED" =>
        /\ PlanServesGoal
        /\ Plan.tasks \subseteq Succeeded
        /\ \E t \in Plan.tasks : t.step = "git"
        /\ {"implementation", "documentation", "validation", "final", "commit", "memory"}
              \subseteq certs
        /\ bound.push => "push" \in certs
        /\ ReviewPasses /\ ReviewServesGoal

\* A finished run is frozen: no late report, recovery, review, replanning or second
\* cancellation touches its state, goal, plans, tasks or reviews.
TerminalIsFinal ==
    [][(state \in Terminal =>
           UNCHANGED <<lifecycle, goal, planning, work, reviews>>)]_vars

\* Succeeded work is never redone or lost, and a plan version once saved never changes.
HistoryIsKept ==
    [][/\ \A t \in DOMAIN status : status[t] = "SUCCEEDED" => status'[t] = "SUCCEEDED"
       /\ \A t \in DOMAIN attempts : Len(attempts[t]) <= Len(attempts'[t])
       /\ \A v \in 1..Version : plans'[v] = plans[v]]_vars

\* What the services take for granted of a run: the records fit each other, active work is of
\* the current plan, and a suspended or finished run has none.
RunInv == TypeOK /\ ActiveWorkInCurrentPlan /\ TaskMirrorsAttempt /\ StoppedIsQuiet

\* Work is done in order: by one writer at a time, and after what it depends on, however
\* plans are replaced and extended and workers wait, are recovered or report late.
WorkIsOrdered == SingleWriter /\ DependenciesRespected

\* A delivery is earned: it delivers reviewed work, for the goal the run has, and a run is
\* completed by all of its steps, whatever is revised, repaired or interrupted meanwhile.
DeliveryIsEarned == DeliveredWorkIsReviewed /\ DeliveryServesGoal /\ CompletedIsDelivered

\* What has happened stays: attempts that ended, reviews and plans of the past are not
\* rewritten, and nothing of a finished run moves, though late reports and decisions arrive.
PastIsFixed == HistoryIsKept /\ TerminalIsFinal
=============================================================================
