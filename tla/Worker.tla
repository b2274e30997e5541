------------------------------- MODULE Worker -------------------------------
(***************************************************************************)
(* One task given to a model provider: the turns of its worker, the        *)
(* receipts that keep a turn or a tool call from being done twice, and the *)
(* container a command runs in, which outlives the process that started    *)
(* it.  The process may die at any step and be started again, the run may  *)
(* be cancelled, and the owner may retire the attempt and begin another.   *)
(* The task may also be handed to an assistant, which reports its result.  *)
(***************************************************************************)
EXTENDS Integers, Sequences, FiniteSets

CONSTANTS
    Answers,        \* tool calls a provider may ask for in one turn
    MaxTurns,       \* policy.max_provider_turns
    MaxCalls,       \* policy.max_tool_calls of one attempt
    MaxAttempts,    \* project.settings.max_task_attempts
    MaxContext,     \* bound: versions of the durable memory in the context pack
    Results,        \* what an assistant may report
    Longest,        \* bound: tool calls of one turn
    MaxCrashes,     \* bound: deaths of a process
    MaxRefusals,    \* bound: operations the container daemon fails to perform
    None

ASSUME WorkerAssumption ==
    /\ Answers \subseteq Seq({"write", "command"}) /\ <<>> \notin Answers
    /\ \A answer \in Answers : Len(answer) <= Longest
    /\ {MaxTurns, MaxCalls, MaxAttempts, MaxContext, Longest} \subseteq Nat \ {0}
    /\ {MaxCrashes, MaxRefusals} \subseteq Nat

\* Receipts: what a provider was asked and gave, what became of a tool call.
Requests == [context : 1..MaxContext, observations : Seq(BOOLEAN)]
Invocations ==
    [status : {"RUNNING", "SUCCEEDED", "FAILED", "CANCELLED", "INTERRUPTED"},
     request : Requests, result : Answers \union {<<>>, None}]
ToolCalls == [status : {"RUNNING", "SUCCEEDED", "FAILED", "INTERRUPTED"}]

\* None is neither a receipt nor anything that one tells of.
ASSUME MarkAssumption ==
    None \notin Invocations /\ None \notin ToolCalls /\ None \notin Results
    /\ None \notin Answers \union {<<>>}

VARIABLES
    run, task,      \* the run, and the task with its current attempt
    invocation,     \* receipts of the turns
    tool,           \* receipts of the tool calls
    receipts,       \* .orqalis/runtime/sandboxes: commands that may have a container
    container,      \* what the daemon has of each command
    context,        \* version of the durable memory
    asked, effects, \* history: how often a turn was asked, a call carried out
    assigned,       \* attempts with an external:assigned event
    reported,       \* receipts of the results assistants reported
    w,              \* the process
    x,              \* the service that hands work to assistants
    crashes, refusals

capsule == <<run, task, invocation, tool>>
daemon == <<receipts, container, refusals>>
history == <<asked, effects>>
external == <<assigned, reported, x>>
vars == <<capsule, daemon, context, history, external, w, crashes>>

Turn == 0..MaxTurns - 1
TurnKey == (1..MaxAttempts) \X Turn
CallKey == TurnKey \X (1..Longest)

Idle == [at |-> "idle", turn |-> 0, call |-> 1, seen |-> <<>>, context |-> 0,
         result |-> None, passed |-> FALSE, cancelled |-> FALSE]

Init ==
    /\ run = "EXECUTING"
    /\ task = [status |-> "READY", attempt |-> 0]
    /\ invocation = [k \in TurnKey |-> None]
    /\ tool = [k \in CallKey |-> None]
    /\ receipts = {}
    /\ container = [k \in CallKey |-> "none"]
    /\ context = 1
    /\ asked = [k \in TurnKey |-> 0]
    /\ effects = [k \in CallKey |-> 0]
    /\ assigned = {}
    /\ reported = [a \in 1..MaxAttempts |-> None]
    /\ w = Idle
    /\ x = [at |-> "idle", attempt |-> 0]
    /\ crashes = 0
    /\ refusals = 0

At(place) == w.at = place
Goto(place) == w' = [w EXCEPT !.at = place]
Fail == w' = [Idle EXCEPT !.at = "failed"]
Quit == w' = Idle
HandOver(place, a) == x' = [at |-> place, attempt |-> a]
Leave == HandOver("idle", 0)
Working == task.status = "RUNNING"
Unowned == At("idle") /\ x.at = "idle"   \* nobody has the lease of the run
Active == run = "EXECUTING" /\ Working
ThisTurn == <<task.attempt, w.turn>>
ThisCall == <<ThisTurn, w.call>>
Calls == invocation[ThisTurn].result

OnlyWorker == UNCHANGED <<capsule, daemon, context, history, external, crashes>>
OnlyCapsule == UNCHANGED <<daemon, context, history, external, crashes>>
OnlyDaemon == UNCHANGED <<capsule, context, history, external, crashes>>

-----------------------------------------------------------------------------
(* Beginning and ending an attempt: the executor. *)

\* execute: takes the lease of the run, and first deals with containers left behind.
Execute ==
    /\ Unowned
    /\ run = "EXECUTING"
    /\ w' = [Idle EXCEPT !.at = "reconcile"]
    /\ OnlyWorker

Refused == refusals < MaxRefusals /\ refusals' = refusals + 1
Remove(k) == container' = [container EXCEPT ![k] = "none"]

\* Variant: commands of an earlier process are left alone.
ReconcileNothing ==
    /\ At("reconcile")
    /\ w' = [w EXCEPT !.at = "begin", !.context = context]
    /\ OnlyWorker

\* reconcile_sandboxes: each container is removed, then its receipt.
Reconcile ==
    /\ At("reconcile")
    /\ OnlyDaemon
    /\ \/ /\ receipts = {}
          /\ w' = [w EXCEPT !.at = "begin", !.context = context]
          /\ UNCHANGED daemon
       \/ \E k \in receipts :
            \/ container[k] # "none" /\ Remove(k) /\ UNCHANGED <<receipts, refusals, w>>
            \/ /\ container[k] = "none"
               /\ receipts' = receipts \ {k}
               /\ UNCHANGED <<container, refusals, w>>
       \/ receipts # {} /\ Refused /\ Quit /\ UNCHANGED <<receipts, container>>

\* Takes up the running attempt or starts the next.
Begin ==
    /\ At("begin")
    /\ UNCHANGED <<run, invocation, tool>>
    /\ OnlyCapsule
    /\ IF Active THEN UNCHANGED task /\ Goto("invoke")
       ELSE IF task.status = "READY" /\ run = "EXECUTING"
       THEN task' = [status |-> "RUNNING", attempt |-> task.attempt + 1] /\ Goto("invoke")
       ELSE UNCHANGED task /\ Quit

\* The provider has given its output, which says whether the work is complete.
Finish(complete) ==
    /\ At("finish")
    /\ UNCHANGED <<run, invocation, tool>>
    /\ OnlyCapsule
    /\ IF complete /\ Working
       THEN task' = [task EXCEPT !.status = "SUCCEEDED"] /\ Quit
       ELSE UNCHANGED task /\ Fail

Failed ==
    /\ At("failed")
    /\ UNCHANGED <<run, invocation, tool>>
    /\ OnlyCapsule
    /\ IF run = "CANCELLED" THEN UNCHANGED task /\ Quit
       ELSE task' = [task EXCEPT !.status = "BLOCKED"] /\ Goto("block")

BlockRun ==
    /\ At("block")
    /\ run' = IF run = "EXECUTING" THEN "BLOCKED" ELSE run
    /\ Quit
    /\ UNCHANGED <<task, invocation, tool>>
    /\ OnlyCapsule

-----------------------------------------------------------------------------
(* A turn: the provider. *)

Request == [context |-> w.context, observations |-> w.seen]
Record(k, i) == invocation' = [invocation EXCEPT ![k] = i]

\* An invocation that is on record: a result is returned, a failure repeated, one without
\* an outcome refused, and closed when its deadline has passed.
Known(i) ==
    IF i.request # Request THEN UNCHANGED invocation /\ Fail
    ELSE IF i.status = "SUCCEEDED" THEN UNCHANGED invocation /\ Goto("result")
    ELSE /\ Fail
         /\ \/ UNCHANGED invocation
            \/ /\ i.status = "RUNNING"
               /\ Record(ThisTurn, [i EXCEPT !.status = "INTERRUPTED"])

\* AgentExecutionService.invoke up to its first commit.
Invoke ==
    /\ At("invoke")
    /\ UNCHANGED <<run, task, tool>>
    /\ OnlyCapsule
    /\ IF w.turn \notin Turn THEN UNCHANGED invocation /\ Fail
       ELSE IF invocation[ThisTurn] # None THEN Known(invocation[ThisTurn])
       ELSE IF ~ Active THEN UNCHANGED invocation /\ Fail
       ELSE /\ Record(ThisTurn, [status |-> "RUNNING", request |-> Request,
                                 result |-> None])
            /\ Goto("ask")

\* The call itself; when it ends without a result it has failed, timed out or been
\* cancelled.
Ask ==
    /\ At("ask")
    /\ asked' = [asked EXCEPT ![ThisTurn] = @ + 1]
    /\ Goto("wait")
    /\ UNCHANGED <<capsule, daemon, context, effects, external, crashes>>

Respond(answer) ==
    /\ At("wait")
    /\ w' = [w EXCEPT !.at = "answer", !.result = answer]
    /\ OnlyWorker

\* Variant: nothing limits the time a provider takes.
NeverGiveUp == FALSE /\ Respond(None)

GiveUp == Respond(None)

\* Variant: a late answer counts although the run was cancelled.
AnswerAnyway ==
    /\ At("answer")
    /\ UNCHANGED <<run, task, tool>>
    /\ OnlyCapsule
    /\ Record(ThisTurn, [invocation[ThisTurn] EXCEPT !.result = w.result,
                 !.status = IF w.result = None THEN "FAILED" ELSE "SUCCEEDED"])
    /\ w' = [w EXCEPT !.at = IF w.result = None THEN "failed" ELSE "result",
               !.result = None]

\* The result is kept if the run still wants it.
Answer ==
    /\ At("answer")
    /\ UNCHANGED <<run, task, tool>>
    /\ OnlyCapsule
    /\ LET i == invocation[ThisTurn] IN
       IF i.status # "RUNNING" THEN UNCHANGED invocation /\ Fail
       ELSE IF Active /\ w.result # None
       THEN /\ Record(ThisTurn, [i EXCEPT !.status = "SUCCEEDED", !.result = w.result])
            /\ IF w.cancelled THEN Fail
               ELSE w' = [w EXCEPT !.at = "result", !.result = None]
       ELSE /\ Record(ThisTurn, [i EXCEPT !.status =
                        IF Active THEN "FAILED" ELSE "CANCELLED"])
            /\ Fail

\* An output ends the work; otherwise the calls are carried out in order.
Result ==
    /\ At("result")
    /\ OnlyWorker
    /\ IF Calls = <<>> THEN w' = [Idle EXCEPT !.at = "finish", !.cancelled = w.cancelled]
       ELSE w' = [w EXCEPT !.at = "tool", !.call = 1]

-----------------------------------------------------------------------------
(* A tool call. *)

\* After a call comes the next, or the next turn, unless the task was cancelled.
After(passed) ==
    w' = IF w.cancelled THEN [Idle EXCEPT !.at = "failed"]
         ELSE IF w.call < Len(Calls)
         THEN [w EXCEPT !.at = "tool", !.call = @ + 1, !.seen = Append(@, passed)]
         ELSE [w EXCEPT !.at = "invoke", !.turn = @ + 1, !.call = 1,
                 !.seen = Append(@, passed)]

Observed(t) == t.status \in {"SUCCEEDED", "FAILED"}
Save(k, status) == tool' = [tool EXCEPT ![k] = [status |-> status]]
CallsMade == {k \in CallKey : k[1][1] = task.attempt /\ tool[k] # None}
Budget == Cardinality(CallsMade) < MaxCalls

\* Variant: a call whose outcome is not known is made once more.
CarriedOutAgain(t) ==
    /\ UNCHANGED tool
    /\ IF Observed(t) THEN After(t.status = "SUCCEEDED") ELSE Goto("dispatch")

\* A call that is on record: its observation is returned, an uncertain outcome refused.
CarriedOut(t) ==
    UNCHANGED tool /\ IF Observed(t) THEN After(t.status = "SUCCEEDED") ELSE Fail

\* ToolService.execute up to its first commit.
BeginTool ==
    /\ At("tool")
    /\ UNCHANGED <<run, task, invocation>>
    /\ OnlyCapsule
    /\ IF tool[ThisCall] # None THEN CarriedOut(tool[ThisCall])
       ELSE IF Active /\ Budget THEN Save(ThisCall, "RUNNING") /\ Goto("dispatch")
       ELSE UNCHANGED tool /\ Fail

Dispatch ==
    /\ At("dispatch")
    /\ effects' = [effects EXCEPT ![ThisCall] = @ + 1]
    /\ w' = [w EXCEPT !.passed = TRUE,
               !.at = IF Calls[w.call] = "command" THEN "prepare" ELSE "observe"]
    /\ UNCHANGED <<capsule, daemon, context, asked, external, crashes>>

\* The observation is recorded whatever became of the run.
Observe ==
    /\ At("observe")
    /\ Save(ThisCall, IF w.passed THEN "SUCCEEDED" ELSE "FAILED")
    /\ After(w.passed)
    /\ UNCHANGED <<run, task, invocation>>
    /\ OnlyCapsule

-----------------------------------------------------------------------------
(* A command in its container. *)

Set(k, state) == container' = [container EXCEPT ![k] = state]
Broken(place) == w' = [w EXCEPT !.at = place, !.passed = FALSE]

\* DockerSandbox.prepare: no command while another may be left; the receipt comes first.
Prepare ==
    /\ At("prepare")
    /\ OnlyDaemon
    /\ UNCHANGED container
    /\ \/ receipts = {} /\ receipts' = {ThisCall} /\ Goto("create") /\ UNCHANGED refusals
       \/ receipts # {} /\ Broken("observe") /\ UNCHANGED <<receipts, refusals>>
       \/ Refused /\ Broken("observe") /\ UNCHANGED receipts

\* docker create; a failure may leave the container behind.
Create ==
    /\ At("create")
    /\ OnlyDaemon
    /\ UNCHANGED receipts
    /\ \/ Set(ThisCall, "stopped") /\ Goto("start") /\ UNCHANGED refusals
       \/ Refused /\ Broken("cleanup") /\ container' \in
            {container, [container EXCEPT ![ThisCall] = "stopped"]}

Start ==
    /\ At("start")
    /\ OnlyDaemon
    /\ Set(ThisCall, "running")
    /\ Goto("attached")
    /\ UNCHANGED <<receipts, refusals>>

\* The command ends, or the process stops waiting: cancelled, out of time, too much
\* output.  Then only the client is killed, and the container may still run.
Detach ==
    /\ At("attached")
    /\ OnlyWorker
    /\ IF container[ThisCall] = "running" THEN Broken("cleanup") ELSE Goto("cleanup")

Cleanup ==
    /\ At("cleanup")
    /\ OnlyDaemon
    /\ UNCHANGED receipts
    /\ \/ Remove(ThisCall) /\ Goto("unlink") /\ UNCHANGED refusals
       \/ Refused /\ Broken("observe") /\ UNCHANGED container

Unlink ==
    /\ At("unlink")
    /\ OnlyDaemon
    /\ receipts' = receipts \ {ThisCall}
    /\ Goto("observe")
    /\ UNCHANGED <<container, refusals>>

-----------------------------------------------------------------------------
(* The same task in the hands of an assistant: ExternalWorkService. *)

OnlyExternal == UNCHANGED <<run, invocation, tool, daemon, context, history, w, crashes>>

\* A running attempt is given again to the assistant, never taken from a provider.
Mine == Working /\ task.attempt \in assigned

\* next_work: the attempt that is under way, or one to be started.
NextWork ==
    /\ Unowned
    /\ run = "EXECUTING"
    /\ \/ Mine /\ HandOver("assign", task.attempt)
       \/ task.status = "READY" /\ HandOver("start", task.attempt + 1)
    /\ UNCHANGED <<task, assigned, reported>>
    /\ OnlyExternal

\* start_task in a transaction of its own: a cancelled run refuses it.
StartExternal ==
    /\ x.at = "start"
    /\ IF run = "EXECUTING" /\ task.status = "READY"
       THEN task' = [status |-> "RUNNING", attempt |-> x.attempt] /\ HandOver("assign", x.attempt)
       ELSE UNCHANGED task /\ Leave
    /\ UNCHANGED <<assigned, reported>>
    /\ OnlyExternal

Assign ==
    /\ x.at = "assign"
    /\ assigned' = assigned \union {x.attempt}
    /\ Leave
    /\ UNCHANGED <<task, reported>>
    /\ OnlyExternal

\* A result is taken for the active attempt; a repeated one has to be the same.
Wanted(a, result) ==
    \/ reported[a] = result
    \/ reported[a] = None /\ Active /\ task.attempt = a

\* report up to its first commit: the receipt, with the artifacts of the result.
Report(a, result) ==
    /\ Unowned
    /\ a \in assigned
    /\ Wanted(a, result)
    /\ reported' = [reported EXCEPT ![a] = result]
    /\ HandOver("settle", a)
    /\ UNCHANGED <<task, assigned>>
    /\ OnlyExternal

\* transition_task, which refuses an attempt that has been retired.
Settle ==
    /\ x.at = "settle"
    /\ task' = IF Active /\ task.attempt = x.attempt
               THEN [task EXCEPT !.status = "SUCCEEDED"] ELSE task
    /\ Leave
    /\ UNCHANGED <<assigned, reported>>
    /\ OnlyExternal

-----------------------------------------------------------------------------
(* Cancellation, recovery, and what happens outside. *)

Cancel ==
    /\ run \in {"EXECUTING", "BLOCKED"}
    /\ run' = "CANCELLED"
    /\ task' = IF task.status = "SUCCEEDED" THEN task
               ELSE [task EXCEPT !.status = "CANCELLED"]
    /\ UNCHANGED <<invocation, tool, w>>
    /\ OnlyCapsule

\* watch_cancellation sees it: a waiting provider is interrupted, a tool call finishes.
Notice ==
    /\ ~ At("idle")
    /\ run = "CANCELLED"
    /\ ~ w.cancelled
    /\ w' = [w EXCEPT !.cancelled = TRUE]
    /\ OnlyWorker

Resume ==
    /\ run = "BLOCKED"
    /\ run' = "EXECUTING"
    /\ UNCHANGED <<task, invocation, tool, w>>
    /\ OnlyCapsule

Interrupted(records, keys) ==
    [k \in DOMAIN records |->
        IF k \in keys /\ records[k] # None
        THEN [records[k] EXCEPT !.status = IF @ = "RUNNING" THEN "INTERRUPTED" ELSE @]
        ELSE records[k]]

Retired == task' = [task EXCEPT !.status = "READY"]
MayRecover ==
    /\ Unowned
    /\ run \in {"EXECUTING", "BLOCKED"}
    /\ task.status \in {"RUNNING", "BLOCKED"}
    /\ task.attempt < MaxAttempts

\* RecoveryService.retry, after reconcile_sandboxes has removed what was left.
Recover ==
    /\ MayRecover
    /\ receipts' = {}
    /\ container' = [k \in CallKey |-> IF k \in receipts THEN "none" ELSE container[k]]
    /\ Retired
    /\ invocation' = Interrupted(invocation, {k \in TurnKey : k[1] = task.attempt})
    /\ tool' = Interrupted(tool, {k \in CallKey : k[1][1] = task.attempt})
    /\ UNCHANGED <<run, context, history, external, w, crashes, refusals>>

\* The daemon refuses in the middle: nothing is recovered.
RecoverRefused ==
    /\ MayRecover
    /\ receipts # {}
    /\ Refused
    /\ \E k \in receipts :
         \/ UNCHANGED container
         \/ Remove(k)
    /\ UNCHANGED <<capsule, receipts, context, history, external, w, crashes>>

\* The command ends by itself.
Exit(k) ==
    /\ container[k] = "running"
    /\ Set(k, "stopped")
    /\ UNCHANGED <<capsule, receipts, refusals, context, history, external, w, crashes>>

\* The context pack is built once in an execution: it is enough that it may differ in the
\* next.
Learn ==
    /\ Unowned
    /\ context < MaxContext
    /\ context' = context + 1
    /\ UNCHANGED <<capsule, daemon, history, external, w, crashes>>

Crash ==
    /\ ~ Unowned
    /\ crashes < MaxCrashes
    /\ crashes' = crashes + 1
    /\ Quit
    /\ Leave
    /\ UNCHANGED <<capsule, daemon, context, history, assigned, reported>>

\* Every step of the process; what the provider answers is not one of them.
Work ==
    \/ Reconcile \/ Begin \/ Failed \/ BlockRun \/ Invoke \/ Ask \/ GiveUp \/ Answer
    \/ Result \/ BeginTool \/ Dispatch \/ Observe
    \/ Prepare \/ Create \/ Start \/ Detach \/ Cleanup \/ Unlink
    \/ \E complete \in BOOLEAN : Finish(complete)
Assistant ==
    \/ NextWork \/ StartExternal \/ Assign \/ Settle
    \/ \E a \in 1..MaxAttempts, result \in Results : Report(a, result)
Outside ==
    \/ \E answer \in Answers \union {<<>>} : Respond(answer)
    \/ \E k \in CallKey : Exit(k)
    \/ Learn \/ Crash
Next ==
    \/ Execute \/ Work \/ Notice \/ Assistant
    \/ Cancel \/ Resume \/ Recover \/ RecoverRefused
    \/ Outside

\* A process that runs makes progress: a provider has a time limit, a command too.
Spec == Init /\ [][Next]_vars /\ WF_vars(Work)

-----------------------------------------------------------------------------
(* Properties. *)

\* Types of the receipts, the containers and the process.
TypeOK ==
    /\ run \in {"EXECUTING", "BLOCKED", "CANCELLED"}
    /\ task.attempt \in 0..MaxAttempts
    /\ \A k \in TurnKey : invocation[k] # None =>
         /\ invocation[k] \in Invocations
         /\ (invocation[k].result # None) = (invocation[k].status = "SUCCEEDED")
    /\ receipts \subseteq CallKey
    /\ container \in [CallKey -> {"none", "stopped", "running"}]
    /\ w.turn \in 0..MaxTurns
    /\ assigned \subseteq 1..MaxAttempts
    /\ reported \in [1..MaxAttempts -> Results \union {None}]
    /\ Cardinality(CallsMade) <= MaxCalls

\* What a provider was asked and what a tool did is never done a second time, whatever
\* died in between: an outcome that is not on record is not replayed.
EffectsHappenOnce ==
    /\ \A k \in TurnKey : asked[k] <= 1
    /\ \A k \in CallKey : effects[k] <= 1

\* A provider is asked about a later turn only when every call of the earlier ones has an
\* observation, and it is told exactly those, in order, also after a restart.
TurnsFollowObservations ==
    \A a \in 1..MaxAttempts : \A t \in Turn :
        invocation[<<a, t>>] # None =>
            LET told == invocation[<<a, t>>].request.observations
                before == {u \in Turn : u < t}
                calls == {k \in CallKey : k[1] \in {<<a, u>> : u \in before}
                                          /\ tool[k] # None}
            IN /\ \A u \in before : invocation[<<a, u>>] # None
                                    /\ invocation[<<a, u>>].status = "SUCCEEDED"
               /\ \A k \in calls : Observed(tool[k])
               /\ Len(told) = Cardinality(calls)
               /\ \A k \in calls :
                    LET earlier == {j \in calls : j[1][2] < k[1][2]
                                        \/ (j[1][2] = k[1][2] /\ j[2] <= k[2])}
                    IN told[Cardinality(earlier)] = (tool[k].status = "SUCCEEDED")

\* A command exists only in a container that a receipt tells of, and one that runs while
\* the process does something else is one whose call has been observed to fail: a process
\* never works beside a command of which nothing is known.
CommandsAreOwned ==
    \A k \in CallKey : container[k] # "none" =>
        /\ k \in receipts
        /\ container[k] = "running" /\ w.at \in {"ask", "wait", "tool", "dispatch"} =>
             tool[k] = [status |-> "FAILED"]

\* A retired attempt has nothing under way: no call to a provider, no tool, no command.
RetiredAttemptsAreQuiet ==
    \A a \in 1..MaxAttempts :
        a < task.attempt \/ (a = task.attempt /\ task.status = "READY") =>
            /\ \A t \in Turn : invocation[<<a, t>>] # None =>
                 invocation[<<a, t>>].status # "RUNNING"
            /\ \A k \in CallKey : k[1][1] = a =>
                 /\ container[k] = "none"
                 /\ tool[k] # None => tool[k].status # "RUNNING"

\* A cancelled run takes no result and begins no turn and no call.
CancelledWorkIsDiscarded ==
    [][run = "CANCELLED" =>
         /\ run' = "CANCELLED" /\ task' = task
         /\ \A k \in TurnKey : invocation'[k] # invocation[k] =>
              invocation[k] # None /\ invocation'[k].status # "SUCCEEDED"
         /\ \A k \in CallKey : tool[k] = None => tool'[k] = None]_capsule

\* Whatever the provider and the commands do, a process that works on the task lets go
\* of the run in the end.
WorkEnds == ~ At("idle") ~> At("idle")

\* An attempt is handed to an assistant only if no provider has been asked about it.
HandoutsAreExclusive ==
    [][\A a \in assigned' \ assigned : \A t \in Turn : invocation[<<a, t>>] = None]_assigned

\* A task is done because its last attempt was: its assistant reported a result while it was
\* active, or its provider gave an output.  A report that comes late, or a second time after
\* the attempt was retired, ends nothing.
DoneByItsLastAttempt ==
    task.status = "SUCCEEDED" =>
        \/ reported[task.attempt] # None
        \/ \E t \in Turn : invocation[<<task.attempt, t>>] # None
                            /\ invocation[<<task.attempt, t>>].result = <<>>

\* A result once reported stays the one on record, and none is added to a retired attempt.
ReportsAreFinal ==
    [][\A a \in 1..MaxAttempts : reported'[a] # reported[a] =>
         reported[a] = None /\ a = task.attempt /\ task.status = "RUNNING"]_reported

\* No work without an owner: a command that may still run is known, a retired attempt has
\* nothing under way, and what is done was done by the last attempt of its task.
WorkerInv == TypeOK /\ CommandsAreOwned /\ RetiredAttemptsAreQuiet /\ DoneByItsLastAttempt

\* Receipts tell the truth of what the outside world was asked: nothing is done a second time,
\* and a provider hears exactly what came of its earlier turns, whatever died in between.
ReceiptsAreTrue == EffectsHappenOnce /\ TurnsFollowObservations

\* A result is taken from whom the work was given to and only while it is wanted: not after
\* cancellation, not a second one, and never from provider and assistant at once.
ResultsAreWanted == CancelledWorkIsDiscarded /\ HandoutsAreExclusive /\ ReportsAreFinal
=============================================================================
