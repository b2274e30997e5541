---------------------------- MODULE Worker_proofs ----------------------------
(* Machine-checked proofs about Worker: nothing is asked or done twice, a provider is told
   what came of its calls, no command is without an owner, no unwanted result is taken. *)
EXTENDS Worker, FiniteSetTheorems, TLAPS

(* The invariant. *)

Asking == {"ask", "wait", "answer"}
Between == {"invoke", "result"} \union Asking
Sandbox == {"create", "start", "attached", "cleanup", "unlink"}
Called == {"dispatch", "prepare", "observe"} \union Sandbox
Calling == {"tool"} \union Called
Begun == Between \union Calling
Places == {"idle", "reconcile", "begin", "finish", "failed", "block"} \union Begun
Within(places) == w.at \in places

Workers ==
    [at : Places, turn : 0..MaxTurns, call : 1..Longest, seen : Seq(BOOLEAN),
     context : 0..MaxContext, result : Answers \union {<<>>, None},
     passed : BOOLEAN, cancelled : BOOLEAN]

Types ==
    /\ run \in {"EXECUTING", "BLOCKED", "CANCELLED"}
    /\ task \in [status : {"READY", "RUNNING", "SUCCEEDED", "BLOCKED", "CANCELLED"},
                 attempt : 0..MaxAttempts]
    /\ invocation \in [TurnKey -> Invocations \union {None}]
    /\ \A k \in TurnKey : invocation[k] # None =>
           (invocation[k].result # None <=> invocation[k].status = "SUCCEEDED")
    /\ tool \in [CallKey -> ToolCalls \union {None}]
    /\ receipts \subseteq CallKey
    /\ container \in [CallKey -> {"none", "stopped", "running"}]
    /\ context \in 1..MaxContext
    /\ asked \in [TurnKey -> Nat] /\ effects \in [CallKey -> Nat]
    /\ assigned \subseteq 1..MaxAttempts
    /\ reported \in [1..MaxAttempts -> Results \union {None}]
    /\ x \in [at : {"idle", "start", "assign", "settle"}, attempt : 0..MaxAttempts]
    /\ w \in Workers

\* One of the process and the service for assistants works; a task that is to be started may
\* be, one that runs has an attempt, and that of a cancelled run is at an end.
Ownership ==
    /\ At("idle") \/ x.at = "idle"
    /\ task.status = "READY" => task.attempt < MaxAttempts
    /\ task.status \in {"RUNNING", "SUCCEEDED"} => task.attempt > 0
    /\ run = "CANCELLED" => task.status \in {"SUCCEEDED", "CANCELLED"}

\* What the service for assistants is about to do is about an attempt no provider has.
Handouts ==
    /\ x.at # "idle" => x.attempt > 0
    /\ x.at = "start" =>
           x.attempt = task.attempt + 1 /\ task.status \in {"READY", "CANCELLED"}
    /\ x.at = "assign" =>
           x.attempt \in assigned \/ \A t \in Turn : invocation[<<x.attempt, t>>] = None
    /\ x.at = "settle" => reported[x.attempt] # None

\* Nothing without a receipt was asked or done, no later attempt has one, and a tool call has
\* a receipt only if a result asks for it.
Receipts ==
    /\ \A k \in TurnKey : asked[k] <= 1 /\ (invocation[k] = None => asked[k] = 0)
    /\ \A k \in CallKey : effects[k] <= 1 /\ (tool[k] = None => effects[k] = 0)
    /\ \A k \in TurnKey : k[1] > task.attempt => invocation[k] = None
    /\ \A k \in CallKey : tool[k] # None =>
           /\ invocation[k[1]] # None /\ invocation[k[1]].status = "SUCCEEDED"
           /\ k[2] <= Len(invocation[k[1]].result)

\* Only the attempt that is under way has anything under way.
Current(a) == a = task.attempt /\ task.status # "READY"
Quiet ==
    /\ \A k \in TurnKey : invocation[k] # None /\ invocation[k].status = "RUNNING" => Current(k[1])
    /\ \A k \in CallKey : tool[k] = [status |-> "RUNNING"] \/ container[k] # "none" =>
           Current(k[1][1])

\* The process is where its receipts say.
Position ==
    /\ Within({"reconcile", "begin"}) => w.turn = 0 /\ w.call = 1 /\ w.seen = <<>>
    /\ Within({"begin"} \union Begun) => w.context > 0
    /\ Within({"finish"} \union Begun) => task.attempt > 0 /\ task.status # "READY"
    /\ Within(Between) => w.call = 1
    /\ Within(Begun \ {"invoke"}) =>
           w.turn \in Turn /\ invocation[ThisTurn] # None
           /\ invocation[ThisTurn].status = IF Within(Asking) THEN "RUNNING" ELSE "SUCCEEDED"
    /\ At("ask") => asked[ThisTurn] = 0
    /\ Within(Calling) =>
           /\ w.call <= Len(Calls)
           /\ \A c \in 1..w.call - 1 : tool[<<ThisTurn, c>>] # None
    /\ Within(Called) => tool[ThisCall] = [status |-> "RUNNING"]
    /\ At("dispatch") => effects[ThisCall] = 0
    /\ At("finish") => \E t \in Turn : invocation[<<task.attempt, t>>] # None
                                       /\ invocation[<<task.attempt, t>>].result = <<>>

\* Containers have receipts; beside the command of this call there are only failed ones.
Commands ==
    /\ \A k \in CallKey : container[k] # "none" => k \in receipts
    /\ At("begin") => receipts = {}
    /\ Within(Between \union {"tool", "dispatch", "prepare"}) =>
           \A k \in receipts : tool[k] = [status |-> "FAILED"]
    /\ At("observe") =>
           \A k \in receipts : tool[k] = [status |-> "FAILED"] \/ (k = ThisCall /\ ~ w.passed)
    /\ Within(Sandbox) => receipts = {ThisCall}
    /\ At("unlink") => container[ThisCall] = "none"

\* Calls of an attempt before call c of turn n, and what is told of calls.
Before(k, a, n, c) == k[1][1] = a /\ (k[1][2] < n \/ (k[1][2] = n /\ k[2] < c))
CallsBefore(a, n, c) == {k \in CallKey : Before(k, a, n, c) /\ tool[k] # None}
Upto(calls, k) == {j \in calls : j[1][2] < k[1][2] \/ (j[1][2] = k[1][2] /\ j[2] <= k[2])}
Tells(told, calls, t) ==
    /\ Len(told) = Cardinality(calls)
    /\ \A k \in calls : /\ Observed(t[k])
                        /\ told[Cardinality(Upto(calls, k))] = (t[k].status = "SUCCEEDED")

\* A turn follows when each earlier one has its result and each of its calls a receipt.
Complete(a, n) ==
    \A u \in Turn : u < n =>
        /\ invocation[<<a, u>>] # None /\ invocation[<<a, u>>].status = "SUCCEEDED"
        /\ \A c \in 1..Len(invocation[<<a, u>>].result) : tool[<<<<a, u>>, c>>] # None

Follows(a, n, c, told) == Complete(a, n) /\ Tells(told, CallsBefore(a, n, c), tool)

TurnFollows(k) ==
    invocation[k] # None => Follows(k[1], k[2], 1, invocation[k].request.observations)

WorkerFollows == Within(Begun) => Follows(task.attempt, w.turn, w.call, w.seen)

Turns == WorkerFollows /\ \A k \in TurnKey : TurnFollows(k)

InBudget == Cardinality(CallsMade) <= MaxCalls

IInv ==
    /\ Types /\ Ownership /\ Handouts /\ Receipts /\ Quiet /\ Position /\ Commands
    /\ Turns /\ InBudget /\ DoneByItsLastAttempt

-----------------------------------------------------------------------------
(* What the types say. *)

\* The bounds are positive; keys are pairs.
LEMMA KeysAre ==
  /\ MaxTurns \in Nat \ {0} /\ MaxCalls \in Nat \ {0} /\ MaxAttempts \in Nat \ {0}
  /\ MaxContext \in Nat \ {0} /\ Longest \in Nat \ {0}
  /\ \A k \in TurnKey : k = <<k[1], k[2]>> /\ k[1] \in 1..MaxAttempts /\ k[2] \in Turn
  /\ \A k \in CallKey : k = <<k[1], k[2]>> /\ k[1] \in TurnKey /\ k[2] \in 1..Longest
  /\ \A a \in 1..MaxAttempts, t \in Turn : <<a, t>> \in TurnKey
  /\ \A k \in TurnKey, c \in 1..Longest : <<k, c>> \in CallKey
BY WorkerAssumption DEF TurnKey, CallKey, Turn

\* Where a process has begun an attempt its keys are keys.
LEMMA ThisIsAKey ==
  ASSUME Types, task.attempt > 0, w.turn \in Turn
  PROVE  ThisTurn \in TurnKey /\ ThisCall \in CallKey
<1>1. task.attempt \in 1..MaxAttempts /\ w.call \in 1..Longest
  BY KeysAre DEF Types, Workers
<1> QED
  BY <1>1, KeysAre DEF ThisTurn, ThisCall

\* A receipt says what it is about, and is not None.
LEMMA InvocationIs ==
  ASSUME Types, NEW k \in TurnKey, invocation[k] # None
  PROVE  /\ invocation[k] \in Invocations
         /\ invocation[k].request \in Requests
         /\ invocation[k].status \in
                {"RUNNING", "SUCCEEDED", "FAILED", "CANCELLED", "INTERRUPTED"}
         /\ invocation[k].result \in Answers \union {<<>>, None}
         /\ invocation[k].result # None <=> invocation[k].status = "SUCCEEDED"
         /\ invocation[k].status = "SUCCEEDED" => invocation[k].result \in Answers \union {<<>>}
BY DEF Types, Invocations

\* A receipt of a tool call says what became of it, and nothing else.
LEMMA ToolCallIs ==
  ASSUME Types, NEW k \in CallKey, tool[k] # None
  PROVE  /\ tool[k] \in ToolCalls /\ tool[k] = [status |-> tool[k].status]
         /\ tool[k].status \in {"RUNNING", "SUCCEEDED", "FAILED", "INTERRUPTED"}
BY DEF Types, ToolCalls

\* What a result asks for: commands and files, at most Longest of them.
LEMMA ResultsAre ==
  ASSUME NEW answer \in Answers \union {<<>>}
  PROVE  /\ answer \in Seq({"write", "command"}) /\ Len(answer) \in 0..Longest
         /\ answer # None /\ (answer # <<>> => Len(answer) > 0)
<1>1. answer # None
  BY MarkAssumption
<1>2. CASE answer = <<>>
  BY <1>1, <1>2, KeysAre
<1>3. CASE answer \in Answers
  <2>1. answer \in Seq({"write", "command"}) /\ Len(answer) <= Longest
    BY <1>3, WorkerAssumption
  <2>2. Len(answer) \in Nat /\ (answer # <<>> => Len(answer) > 0)
    BY <2>1
  <2> QED
    BY <1>1, <2>1, <2>2, KeysAre
<1> QED
  BY <1>2, <1>3

\* What the outcome of a call may be.
LEMMA SavedIs ==
  ASSUME NEW status \in {"RUNNING", "SUCCEEDED", "FAILED", "INTERRUPTED"}
  PROVE  [status |-> status] \in ToolCalls /\ [status |-> status] # None
BY MarkAssumption DEF ToolCalls

-----------------------------------------------------------------------------
(* What turns are told. *)

\* There are finitely many calls, so they can be counted.
LEMMA CallsAreFinite ==
  IsFiniteSet(CallKey) /\ \A S \in SUBSET CallKey : IsFiniteSet(S) /\ Cardinality(S) \in Nat
<1>1. IsFiniteSet(1..MaxAttempts) /\ IsFiniteSet(0..MaxTurns - 1) /\ IsFiniteSet(1..Longest)
  <2>1. MaxTurns - 1 \in Int /\ MaxAttempts \in Int /\ Longest \in Int
    BY KeysAre
  <2> QED
    BY <2>1, FS_Interval
<1>2. IsFiniteSet(TurnKey)
  BY <1>1, FS_Product DEF TurnKey, Turn
<1>3. IsFiniteSet(CallKey)
  BY <1>1, <1>2, FS_Product DEF CallKey
<1>4. ASSUME NEW S \in SUBSET CallKey
      PROVE  IsFiniteSet(S) /\ Cardinality(S) \in Nat
  BY <1>3, FS_Subset, FS_CardinalityType
<1> QED
  BY <1>3, <1>4

\* Before a first call nothing is told.
LEMMA NothingToTell ==
  ASSUME NEW t
  PROVE  Tells(<<>>, {}, t)
BY FS_EmptySet DEF Tells

\* What is told does not change while the calls it is about do not.
LEMMA ToldAgain ==
  ASSUME NEW told, NEW calls, NEW s, NEW t, Tells(told, calls, s), \A k \in calls : s[k] = t[k]
  PROVE  Tells(told, calls, t)
BY DEF Tells

\* A call that comes after all others is told of last.
LEMMA OneMoreIsTold ==
  ASSUME NEW told \in Seq(BOOLEAN), NEW calls \in SUBSET CallKey, NEW t, NEW last \in CallKey,
         Tells(told, calls, t), Observed(t[last]),
         \A k \in calls : k[1][2] < last[1][2] \/ (k[1][2] = last[1][2] /\ k[2] < last[2])
  PROVE  Tells(Append(told, t[last].status = "SUCCEEDED"), calls \union {last}, t)
<1> DEFINE passed == t[last].status = "SUCCEEDED"
           longer == Append(told, passed)
           more == calls \union {last}
<1>1. last[1][2] \in Int /\ last[2] \in Int
      /\ \A k \in calls : k[1][2] \in Int /\ k[2] \in Int
  BY KeysAre DEF Turn
<1>2. last \notin calls
  BY <1>1
<1>3. IsFiniteSet(calls) /\ Cardinality(calls) \in Nat
  BY CallsAreFinite
<1>4. Cardinality(more) = Cardinality(calls) + 1
  BY <1>2, <1>3, FS_AddElement
<1>5. Len(told) = Cardinality(calls) /\ passed \in BOOLEAN
  BY DEF Tells
<1>6. /\ Len(longer) = Len(told) + 1
      /\ longer[Len(told) + 1] = passed
      /\ \A i \in 1..Len(told) : longer[i] = told[i]
  BY <1>5
<1>7. ASSUME NEW k \in calls
      PROVE  Observed(t[k]) /\ longer[Cardinality(Upto(more, k))] = (t[k].status = "SUCCEEDED")
  <2>1. Upto(more, k) = Upto(calls, k)
    BY <1>1 DEF Upto
  <2>2. k \in Upto(calls, k) /\ Upto(calls, k) \in SUBSET calls
    BY <1>1 DEF Upto
  <2>3. Cardinality(Upto(calls, k)) <= Cardinality(calls) /\ IsFiniteSet(Upto(calls, k))
    BY <1>3, <2>2, FS_Subset
  <2>4. Cardinality(Upto(calls, k)) \in Nat /\ Cardinality(Upto(calls, k)) # 0
    BY <2>2, <2>3, FS_CardinalityType, FS_EmptySet
  <2>5. Cardinality(Upto(calls, k)) \in 1..Len(told)
    BY <1>3, <1>5, <2>3, <2>4
  <2> QED
    BY <1>6, <2>1, <2>5 DEF Tells
<1>8. Upto(more, last) = more
  BY <1>1 DEF Upto
<1>9. longer[Cardinality(Upto(more, last))] = passed
  BY <1>4, <1>5, <1>6, <1>8
<1> QED
  BY <1>3, <1>4, <1>5, <1>6, <1>7, <1>9 DEF Tells

-----------------------------------------------------------------------------
(* Steps that leave the receipts of the run as they are. *)

\* What a turn follows is decided by its receipts.
LEMMA TurnStays ==
  ASSUME UNCHANGED <<invocation, tool>>, NEW k, TurnFollows(k)
  PROVE  TurnFollows(k)'
BY DEF TurnFollows, Follows, Complete, Tells, CallsBefore

\* What is decided by the task and its receipts alone.
LEMMA ReceiptsStay ==
  ASSUME IInv, UNCHANGED <<task, invocation, tool, history, reported>>
  PROVE  /\ Receipts' /\ InBudget' /\ DoneByItsLastAttempt'
         /\ \A k \in TurnKey : TurnFollows(k)'
<1>1. Receipts'
  BY DEF IInv, Receipts, history
<1>2. InBudget'
  BY DEF IInv, InBudget, CallsMade
<1>3. DoneByItsLastAttempt'
  BY DEF IInv, DoneByItsLastAttempt
<1>4. \A k \in TurnKey : TurnFollows(k)'
  BY DEF IInv, Turns, TurnFollows, Follows, Complete, Tells, CallsBefore
<1> QED
  BY <1>1, <1>2, <1>3, <1>4

\* Then it is enough to look at the process and at its containers.
LEMMA OnlyTheProcess ==
  ASSUME IInv, UNCHANGED <<capsule, history, external>>,
         \A k \in CallKey :
             container'[k] # "none" => container[k] # "none" \/ Current(k[1][1]),
         Types', w'.at = "idle" \/ x.at = "idle", Position', Commands', WorkerFollows'
  PROVE  IInv'
<1> USE DEF capsule, external
<1>1. Receipts' /\ InBudget' /\ DoneByItsLastAttempt' /\ \A k \in TurnKey : TurnFollows(k)'
  BY ReceiptsStay
<1>2. Ownership' /\ Handouts'
  BY DEF IInv, Ownership, Handouts, At
<1>3. Quiet'
  BY DEF IInv, Quiet, Current
<1> QED
  BY <1>1, <1>2, <1>3 DEF IInv, Turns

\* A process that has ended or failed is nowhere.
LEMMA AtRest ==
  ASSUME w'.at \in {"idle", "failed", "block"},
         \A k \in CallKey : container'[k] # "none" => k \in receipts'
  PROVE  Position' /\ Commands' /\ WorkerFollows'
BY DEF Position, Commands, WorkerFollows, Within, At, Between, Asking, Begun, Calling, Called,
       Sandbox

\* The same process, somewhere else.
LEMMA WorkersAre ==
  ASSUME Types
  PROVE  /\ Idle \in Workers
         /\ w = [at |-> w.at, turn |-> w.turn, call |-> w.call, seen |-> w.seen,
                 context |-> w.context, result |-> w.result, passed |-> w.passed,
                 cancelled |-> w.cancelled]
         /\ w.at \in Places /\ w.turn \in 0..MaxTurns /\ w.call \in 1..Longest
         /\ w.seen \in Seq(BOOLEAN) /\ w.context \in 0..MaxContext
         /\ w.result \in Answers \union {<<>>, None} /\ w.passed \in BOOLEAN
         /\ w.cancelled \in BOOLEAN
<1>1. 0 \in 0..MaxTurns /\ 1 \in 1..Longest /\ 0 \in 0..MaxContext /\ "idle" \in Places
      /\ <<>> \in Seq(BOOLEAN)
  BY KeysAre DEF Places
<1> QED
  BY <1>1 DEF Types, Idle, Workers

\* Fail and Quit, when the receipts stay as they are.
LEMMA GivingUpKeeps ==
  ASSUME IInv, Fail \/ Quit, UNCHANGED <<capsule, receipts, context, history, external>>,
         container' \in [CallKey -> {"none", "stopped", "running"}],
         \A k \in CallKey : container'[k] # "none" => container[k] # "none",
         At("idle") => Quit
  PROVE  IInv'
<1> USE DEF capsule, history, external
<1>1. w' \in {Idle, [Idle EXCEPT !.at = "failed"]} /\ w'.at \in {"idle", "failed"}
  <2>1. w' = Idle \/ w' = [Idle EXCEPT !.at = "failed"]
    BY DEF Fail, Quit
  <2>2. Idle.at = "idle" /\ [Idle EXCEPT !.at = "failed"].at = "failed"
    BY DEF Idle
  <2> QED
    BY <2>1, <2>2
<1>2. w' \in Workers
  BY <1>1, WorkersAre DEF IInv, Places, Idle, Workers
<1>3. Types'
  BY <1>2 DEF IInv, Types
<1>4. w'.at = "idle" \/ x.at = "idle"
  BY DEF IInv, Ownership, At, Quit, Idle
<1>5. Position' /\ Commands' /\ WorkerFollows'
  <2>1. \A k \in CallKey : container'[k] # "none" => k \in receipts'
    BY DEF IInv, Commands
  <2> QED
    BY <1>1, <2>1, AtRest
<1> QED
  BY <1>3, <1>4, <1>5, OnlyTheProcess

-----------------------------------------------------------------------------
(* Steps of the process and of the containers that write no receipt of the run. *)

\* A process that goes somewhere else with the same turn and call.
Moved(v) ==
    /\ v \in Workers
    /\ v.turn = w.turn /\ v.call = w.call /\ v.seen = w.seen /\ v.context = w.context

\* What moves the process and nothing else.
LEMMA GotoMoves ==
  ASSUME Types, NEW place \in Places, Goto(place)
  PROVE  Moved(w') /\ w'.at = place /\ w'.passed = w.passed /\ w'.cancelled = w.cancelled
BY WorkersAre DEF Goto, Moved, Workers

\* The same for a process whose step has failed.
LEMMA BrokenMoves ==
  ASSUME Types, NEW place \in Places, Broken(place)
  PROVE  Moved(w') /\ w'.at = place /\ ~ w'.passed
BY WorkersAre DEF Broken, Moved, Workers

\* The same turn and call are of the same receipts.
LEMMA SameReceipts ==
  ASSUME Moved(w'), UNCHANGED <<task, invocation>>
  PROVE  ThisTurn' = ThisTurn /\ ThisCall' = ThisCall /\ Calls' = Calls
BY DEF Moved, ThisTurn, ThisCall, Calls

\* From asking to the answer, and through a call that has its receipt.
LEMMA FurtherOn ==
  ASSUME IInv, Moved(w'), UNCHANGED <<task, invocation, tool>>,
         \/ Within(Asking) /\ w'.at \in {"wait", "answer"}
         \/ Within(Called) /\ w'.at \in Called \ {"dispatch"}
  PROVE  Position' /\ WorkerFollows'
<1>1. ThisTurn' = ThisTurn /\ ThisCall' = ThisCall /\ Calls' = Calls
  BY SameReceipts
<1>2. /\ w'.turn = w.turn /\ w'.call = w.call /\ w'.seen = w.seen /\ w'.context = w.context
      /\ task' = task /\ invocation' = invocation /\ tool' = tool
  BY DEF Moved
<1>3. Within(Begun) /\ Within(Begun)'
  BY DEF Within, Begun, Between, Calling, Called, Asking, Sandbox
<1>4. Position'
  BY <1>1, <1>2 DEF IInv, Position, Within, At, Begun, Between, Calling, Called, Asking, Sandbox
<1>5. Follows(task.attempt, w.turn, w.call, w.seen)
  BY <1>3 DEF IInv, Turns, WorkerFollows
<1>6. WorkerFollows'
  BY <1>2, <1>5 DEF WorkerFollows, Follows, Complete, Tells, CallsBefore
<1> QED
  BY <1>4, <1>6

\* The parts of the invariant that a step of the containers disturbs.
LEMMA SandboxStep ==
  ASSUME IInv, UNCHANGED <<capsule, context, history, external>>, Within(Called),
         Moved(w'), w'.at \in Called \ {"dispatch"},
         receipts' \subseteq CallKey,
         container' \in [CallKey -> {"none", "stopped", "running"}],
         \A k \in CallKey :
             container'[k] # "none" => container[k] # "none" \/ k = ThisCall,
         Commands'
  PROVE  IInv'
<1>1. Position' /\ WorkerFollows'
  BY FurtherOn DEF capsule
<1>2. Types'
  BY DEF IInv, Types, Moved, capsule, history, external
<1>3. x.at = "idle"
  BY DEF IInv, Ownership, Within, At, Called, Sandbox
<1>4. Current(ThisCall[1][1])
  BY DEF IInv, Position, Current, ThisCall, ThisTurn, Within, Begun, Calling
<1> QED
  BY <1>1, <1>2, <1>3, <1>4, OnlyTheProcess

\* A call under way has a key.
LEMMA CalledIs ==
  ASSUME IInv, Within(Called)
  PROVE  /\ ThisTurn \in TurnKey /\ ThisCall \in CallKey
         /\ tool[ThisCall] = [status |-> "RUNNING"]
         /\ w.turn \in Turn /\ task.attempt > 0
<1>1. w.turn \in Turn /\ task.attempt > 0 /\ tool[ThisCall] = [status |-> "RUNNING"]
  BY DEF IInv, Position, Within, Begun, Calling, Called, Sandbox
<1> QED
  BY <1>1, ThisIsAKey DEF IInv

-----------------------------------------------------------------------------
(* A command in its container. *)

\* A command is prepared: its receipt comes before its container.
LEMMA PrepareKeeps ==
  ASSUME IInv, Prepare
  PROVE  IInv'
<1> USE DEF Prepare, OnlyDaemon, capsule, external, history
<1>1. Within(Called)
  BY DEF At, Within, Called
<1>2. ThisCall \in CallKey /\ tool[ThisCall] = [status |-> "RUNNING"]
  BY <1>1, CalledIs
<1>3. \A k \in receipts : tool[k] = [status |-> "FAILED"]
  BY DEF IInv, Commands, Within, At
<1>4. Types /\ "create" \in Places /\ "observe" \in Places
  BY DEF IInv, Places, Begun, Calling, Called, Sandbox
<1>5. CASE receipts = {} /\ receipts' = {ThisCall} /\ Goto("create") /\ UNCHANGED refusals
  <2>1. Moved(w') /\ w'.at = "create"
    BY <1>4, <1>5, GotoMoves
  <2>2. ThisCall' = ThisCall
    BY <2>1, SameReceipts
  <2>3. Commands'
    BY <1>5, <2>1, <2>2 DEF IInv, Commands, Within, At, Sandbox, Between, Asking
  <2> QED
    BY <1>1, <1>2, <1>4, <1>5, <2>1, <2>3, SandboxStep DEF Called, Sandbox, Types
<1>6. CASE Broken("observe") /\ UNCHANGED receipts
  <2>1. Moved(w') /\ w'.at = "observe" /\ ~ w'.passed
    BY <1>4, <1>6, BrokenMoves
  <2>2. Commands'
    BY <1>3, <1>6, <2>1 DEF IInv, Commands, Within, At, Sandbox, Between, Asking
  <2> QED
    BY <1>1, <1>2, <1>4, <1>6, <2>1, <2>2, SandboxStep DEF Called, Sandbox, Types
<1> QED
  BY <1>5, <1>6 DEF Refused

\* The container of a command is created, or its creation fails.
LEMMA CreateKeeps ==
  ASSUME IInv, Create
  PROVE  IInv'
<1> USE DEF Create, OnlyDaemon, capsule, external, history
<1>1. Within(Called) /\ Within(Sandbox)
  BY DEF At, Within, Called, Sandbox
<1>2. ThisCall \in CallKey /\ receipts = {ThisCall}
  BY <1>1, CalledIs DEF IInv, Commands
<1>3. Types /\ "start" \in Places /\ "cleanup" \in Places
  BY DEF IInv, Places, Begun, Calling, Called, Sandbox
<1>4. Moved(w') /\ w'.at \in {"start", "cleanup"}
  BY <1>3, GotoMoves, BrokenMoves
<1>5. container' \in {container, [container EXCEPT ![ThisCall] = "stopped"]}
  BY DEF Set
<1>6. /\ container' \in [CallKey -> {"none", "stopped", "running"}]
      /\ \A k \in CallKey : container'[k] # "none" => container[k] # "none" \/ k = ThisCall
  BY <1>3, <1>5 DEF Types
<1>7. ThisCall' = ThisCall
  BY <1>4, SameReceipts
<1>8. Commands'
  BY <1>2, <1>4, <1>6, <1>7 DEF IInv, Commands, Within, At, Sandbox, Between, Asking
<1> QED
  BY <1>1, <1>2, <1>4, <1>6, <1>8, SandboxStep DEF Called, Sandbox

\* The container of a command is started, or is not.
LEMMA StartKeeps ==
  ASSUME IInv, Start
  PROVE  IInv'
<1> USE DEF Start, OnlyDaemon, capsule, external, history
<1>1. Within(Called) /\ Within(Sandbox)
  BY DEF At, Within, Called, Sandbox
<1>2. ThisCall \in CallKey /\ receipts = {ThisCall}
  BY <1>1, CalledIs DEF IInv, Commands
<1>3. Types /\ "attached" \in Places
  BY DEF IInv, Places, Begun, Calling, Called, Sandbox
<1>4. Moved(w') /\ w'.at = "attached"
  BY <1>3, GotoMoves
<1>5. /\ container' \in [CallKey -> {"none", "stopped", "running"}]
      /\ \A k \in CallKey : container'[k] # "none" => container[k] # "none" \/ k = ThisCall
  BY <1>3 DEF Types, Set
<1>6. ThisCall' = ThisCall
  BY <1>4, SameReceipts
<1>7. Commands'
  BY <1>2, <1>4, <1>5, <1>6 DEF IInv, Commands, Within, At, Sandbox, Between, Asking
<1> QED
  BY <1>1, <1>2, <1>4, <1>5, <1>7, SandboxStep DEF Called, Sandbox

\* The process is done with a command, which may still run.
LEMMA DetachKeeps ==
  ASSUME IInv, Detach
  PROVE  IInv'
<1> USE DEF Detach, OnlyWorker, capsule, daemon, external, history
<1>1. Within(Called) /\ Within(Sandbox)
  BY DEF At, Within, Called, Sandbox
<1>2. Types /\ "cleanup" \in Places
  BY DEF IInv, Places, Begun, Calling, Called, Sandbox
<1>3. Moved(w') /\ w'.at = "cleanup"
  BY <1>2, GotoMoves, BrokenMoves
<1>4. ThisCall' = ThisCall
  BY <1>3, SameReceipts
<1>5. Commands'
  BY <1>1, <1>3, <1>4 DEF IInv, Commands, Within, At, Sandbox, Between, Asking
<1> QED
  BY <1>1, <1>2, <1>3, <1>5, SandboxStep DEF Called, Sandbox, Types

\* The container of a command is removed, or it is not known whether it was.
LEMMA CleanupKeeps ==
  ASSUME IInv, Cleanup
  PROVE  IInv'
<1> USE DEF Cleanup, OnlyDaemon, capsule, external, history
<1>1. Within(Called) /\ Within(Sandbox)
  BY DEF At, Within, Called, Sandbox
<1>2. ThisCall \in CallKey /\ receipts = {ThisCall}
  BY <1>1, CalledIs DEF IInv, Commands
<1>3. Types /\ "unlink" \in Places /\ "observe" \in Places
  BY DEF IInv, Places, Begun, Calling, Called, Sandbox
<1>4. CASE Remove(ThisCall) /\ Goto("unlink")
  <2>1. Moved(w') /\ w'.at = "unlink"
    BY <1>3, <1>4, GotoMoves
  <2>2. ThisCall' = ThisCall
    BY <2>1, SameReceipts
  <2>3. /\ container' \in [CallKey -> {"none", "stopped", "running"}]
        /\ container'[ThisCall] = "none"
        /\ \A k \in CallKey : container'[k] # "none" => container[k] # "none"
    BY <1>2, <1>3, <1>4 DEF Types, Remove
  <2>4. Commands'
    BY <1>2, <2>1, <2>2, <2>3 DEF IInv, Commands, Within, At, Sandbox, Between, Asking
  <2> QED
    BY <1>1, <1>2, <2>1, <2>3, <2>4, SandboxStep DEF Called, Sandbox
<1>5. CASE Broken("observe") /\ UNCHANGED container
  <2>1. Moved(w') /\ w'.at = "observe" /\ ~ w'.passed
    BY <1>3, <1>5, BrokenMoves
  <2>2. ThisCall' = ThisCall
    BY <2>1, SameReceipts
  <2>3. Commands'
    BY <1>2, <1>5, <2>1, <2>2 DEF IInv, Commands, Within, At, Sandbox, Between, Asking
  <2> QED
    BY <1>1, <1>2, <1>3, <1>5, <2>1, <2>3, SandboxStep DEF Called, Sandbox, Types
<1> QED
  BY <1>4, <1>5

\* The receipt of a command goes after its container.
LEMMA UnlinkKeeps ==
  ASSUME IInv, Unlink
  PROVE  IInv'
<1> USE DEF Unlink, OnlyDaemon, capsule, external, history
<1>1. Within(Called) /\ Within(Sandbox)
  BY DEF At, Within, Called, Sandbox
<1>2. receipts = {ThisCall} /\ container[ThisCall] = "none" /\ receipts' = {}
  BY <1>1 DEF IInv, Commands
<1>3. Types /\ "observe" \in Places
  BY DEF IInv, Places, Begun, Calling, Called, Sandbox
<1>4. Moved(w') /\ w'.at = "observe"
  BY <1>3, GotoMoves
<1>5. Commands'
  BY <1>2, <1>4 DEF IInv, Commands, Within, At, Sandbox, Between, Asking
<1> QED
  BY <1>1, <1>2, <1>3, <1>4, <1>5, SandboxStep DEF Called, Sandbox, Types

-----------------------------------------------------------------------------
(* The process before and between its calls. *)

\* A process takes the run up where its receipts say it was.
LEMMA ExecuteKeeps ==
  ASSUME IInv, Execute
  PROVE  IInv'
<1> USE DEF Execute, OnlyWorker, capsule, daemon, external, history
<1>1. w' = [Idle EXCEPT !.at = "reconcile"] /\ w'.at = "reconcile"
      /\ w'.turn = 0 /\ w'.call = 1 /\ w'.seen = <<>>
  BY DEF Idle
<1>2. "reconcile" \in Places /\ Types
  BY DEF IInv, Places
<1>3. w' \in Workers
  BY <1>1, <1>2, WorkersAre DEF Workers
<1>4. Types'
  BY <1>2, <1>3 DEF Types
<1>5. x.at = "idle"
  BY DEF Unowned
<1>6. Position' /\ Commands' /\ WorkerFollows'
  BY <1>1 DEF IInv, Position, Commands, WorkerFollows, Within, At, Begun, Between, Asking,
              Calling, Called, Sandbox
<1> QED
  BY <1>4, <1>5, <1>6, OnlyTheProcess

\* What an earlier process left in the sandbox is removed first.
LEMMA ReconcileKeeps ==
  ASSUME IInv, Reconcile
  PROVE  IInv'
<1> USE DEF Reconcile, OnlyDaemon, capsule, daemon, external, history
<1>1. At("reconcile") /\ Types /\ x.at = "idle" /\ "begin" \in Places
  BY DEF IInv, At, Ownership, Places
<1>2. w.turn = 0 /\ w.call = 1 /\ w.seen = <<>>
  BY <1>1 DEF IInv, Position, Within, At
<1>3. \A k \in CallKey : container[k] # "none" => k \in receipts
  BY DEF IInv, Commands
<1>4. CASE receipts = {} /\ w' = [w EXCEPT !.at = "begin", !.context = context] /\ UNCHANGED daemon
  <2>1. /\ w'.at = "begin" /\ w'.turn = 0 /\ w'.call = 1 /\ w'.seen = <<>>
        /\ w'.context = context
    BY <1>1, <1>2, <1>4, WorkersAre
  <2>2. context \in 1..MaxContext /\ context \in 0..MaxContext
    BY <1>1, KeysAre DEF Types
  <2>3. w' \in Workers
    BY <1>1, <1>4, <2>2 DEF Types, Workers
  <2>4. Types'
    BY <1>1, <1>4, <2>3 DEF Types
  <2>5. Position' /\ Commands' /\ WorkerFollows'
    BY <1>3, <1>4, <2>1, <2>2 DEF Position, Commands, WorkerFollows, Within, At, Begun, Between,
          Asking, Calling, Called, Sandbox
  <2> QED
    BY <1>1, <1>4, <2>4, <2>5, OnlyTheProcess
<1>5. ASSUME NEW k \in receipts, w' = w, container' \in {container, [container EXCEPT ![k] = "none"]},
             receipts' \in {receipts, receipts \ {k}},
             receipts' # receipts => container[k] = "none"
      PROVE  IInv'
  <2>1. /\ container' \in [CallKey -> {"none", "stopped", "running"}]
        /\ \A j \in CallKey : container'[j] # "none" => container[j] # "none"
        /\ \A j \in CallKey : container'[j] # "none" => j \in receipts'
    BY <1>1, <1>3, <1>5 DEF Types
  <2>2. Types'
    BY <1>1, <1>5, <2>1 DEF Types
  <2>3. Position' /\ Commands' /\ WorkerFollows'
    BY <1>1, <1>2, <1>5, <2>1 DEF Position, Commands, WorkerFollows, Within, At, Begun, Between,
          Asking, Calling, Called, Sandbox
  <2> QED
    BY <1>1, <2>1, <2>2, <2>3, OnlyTheProcess
<1>6. CASE receipts # {} /\ Refused /\ Quit /\ UNCHANGED <<receipts, container>>
  BY <1>1, <1>6, GivingUpKeeps DEF Types, At
<1> QED
  BY <1>4, <1>5, <1>6 DEF Remove

\* A provider is asked about a turn that has just got its receipt.
LEMMA AskKeeps ==
  ASSUME IInv, Ask
  PROVE  IInv'
<1> USE DEF Ask, capsule, external
<1>1. Types /\ At("ask") /\ Within(Asking) /\ "wait" \in Places /\ x.at = "idle"
  BY DEF IInv, Ownership, At, Within, Asking, Places, Begun, Between
<1>2. Moved(w') /\ w'.at = "wait"
  BY <1>1, GotoMoves
<1>3. Position' /\ WorkerFollows'
  BY <1>1, <1>2, FurtherOn
<1>4. ThisTurn \in TurnKey /\ invocation[ThisTurn] # None /\ asked[ThisTurn] = 0
  <2>1. w.turn \in Turn /\ task.attempt > 0
        /\ invocation[ThisTurn] # None /\ asked[ThisTurn] = 0
    BY <1>1 DEF IInv, Position, Within, At, Begun, Between, Asking
  <2> QED
    BY <1>1, <2>1, ThisIsAKey
<1>5. asked' \in [TurnKey -> Nat]
      /\ \A k \in TurnKey : asked'[k] = IF k = ThisTurn THEN 1 ELSE asked[k]
  BY <1>1, <1>4 DEF Types
<1>6. Types'
  BY <1>1, <1>2, <1>5 DEF Types, Moved, daemon
<1>7. Ownership' /\ Handouts' /\ Quiet'
  BY <1>1, <1>2 DEF IInv, Ownership, Handouts, Quiet, Current, At, daemon
<1>8. Receipts'
  BY <1>4, <1>5 DEF IInv, Receipts
<1>9. Commands'
  BY <1>1, <1>2 DEF IInv, Commands, Within, At, Between, Asking, Sandbox, daemon
<1>10. InBudget' /\ DoneByItsLastAttempt'
  BY DEF IInv, InBudget, CallsMade, DoneByItsLastAttempt
<1>11. Turns'
  BY <1>3 DEF IInv, Turns, TurnFollows, Follows, Complete, Tells, CallsBefore
<1> QED
  BY <1>3, <1>6, <1>7, <1>8, <1>9, <1>10, <1>11 DEF IInv

\* A provider answers, or fails.
LEMMA RespondKeeps ==
  ASSUME IInv, NEW answer \in Answers \union {<<>>, None}, Respond(answer)
  PROVE  IInv'
<1> USE DEF Respond, OnlyWorker, capsule, daemon, external, history
<1>1. Types /\ At("wait") /\ Within(Asking) /\ "answer" \in Places /\ x.at = "idle"
  BY DEF IInv, Ownership, At, Within, Asking, Places, Begun, Between
<1>2. Moved(w') /\ w'.at = "answer"
  BY <1>1, WorkersAre DEF Moved, Workers
<1>3. Position' /\ WorkerFollows'
  BY <1>1, <1>2, FurtherOn
<1>4. Types'
  BY <1>1, <1>2 DEF Types, Moved
<1>5. Commands'
  BY <1>1, <1>2 DEF IInv, Commands, Within, At, Between, Asking, Sandbox
<1> QED
  BY <1>1, <1>3, <1>4, <1>5, OnlyTheProcess

\* The result of a turn is read: it asks for calls, or ends the attempt.
LEMMA ResultKeeps ==
  ASSUME IInv, Result
  PROVE  IInv'
<1> USE DEF Result, OnlyWorker, capsule, daemon, external, history
<1>1. Types /\ At("result") /\ Within(Begun) /\ Within(Between) /\ ~ Within(Asking) /\ x.at = "idle"
      /\ "tool" \in Places /\ "finish" \in Places
  BY DEF IInv, Ownership, At, Within, Asking, Places, Begun, Between, Calling
<1>2. /\ w.turn \in Turn /\ w.call = 1 /\ w.context > 0 /\ task.attempt > 0
      /\ task.status # "READY"
      /\ invocation[ThisTurn] # None /\ invocation[ThisTurn].status = "SUCCEEDED"
  BY <1>1 DEF IInv, Position, Within, At
<1>3. ThisTurn \in TurnKey
  BY <1>1, <1>2, ThisIsAKey
<1>4. Calls \in Answers \union {<<>>}
  BY <1>1, <1>2, <1>3, InvocationIs DEF Calls
<1>5. CASE Calls = <<>>
  <2>1. w' = [Idle EXCEPT !.at = "finish", !.cancelled = w.cancelled] /\ w'.at = "finish"
    BY <1>5 DEF Idle
  <2>2. w' \in Workers
    BY <1>1, <2>1, WorkersAre DEF Workers
  <2>3. Types'
    BY <1>1, <2>2 DEF Types
  <2>4. \E t \in Turn : invocation[<<task.attempt, t>>] # None
                        /\ invocation[<<task.attempt, t>>].result = <<>>
    BY <1>2, <1>5 DEF Calls, ThisTurn
  <2>5. Position'
    BY <1>2, <2>1, <2>4 DEF Position, Within, At, Begun, Between, Asking, Calling, Called, Sandbox
  <2>6. Commands' /\ WorkerFollows'
    BY <2>1 DEF IInv, Commands, WorkerFollows, Within, At, Begun, Between, Asking, Calling,
                Called, Sandbox
  <2> QED
    BY <1>1, <2>3, <2>5, <2>6, OnlyTheProcess
<1>6. CASE Calls # <<>>
  <2>1. w' = [w EXCEPT !.at = "tool", !.call = 1]
    BY <1>6
  <2>2. Moved(w') /\ w'.at = "tool" /\ w'.call = 1
    BY <1>1, <1>2, <2>1, WorkersAre DEF Moved, Workers
  <2>3. Types'
    BY <1>1, <2>2 DEF Types, Moved
  <2>4. ThisTurn' = ThisTurn /\ ThisCall' = ThisCall /\ Calls' = Calls
    BY <2>2, SameReceipts
  <2>5. 1 <= Len(Calls)
    BY <1>4, <1>6, ResultsAre
  <2>6. Position'
    BY <1>2, <2>2, <2>4, <2>5
       DEF Position, Moved, Within, At, Begun, Between, Asking, Calling, Called, Sandbox
  <2>7. Follows(task.attempt, w.turn, w.call, w.seen)
    BY <1>1 DEF IInv, Turns, WorkerFollows
  <2>8. WorkerFollows'
    BY <2>2, <2>7 DEF WorkerFollows, Moved, Follows, Complete, Tells, CallsBefore
  <2>9. Commands'
    BY <1>1, <2>2 DEF IInv, Commands, Within, At, Between, Asking, Sandbox
  <2> QED
    BY <1>1, <2>3, <2>6, <2>8, <2>9, OnlyTheProcess
<1> QED
  BY <1>5, <1>6

\* A call is carried out once: it has just got its receipt.
LEMMA DispatchKeeps ==
  ASSUME IInv, Dispatch
  PROVE  IInv'
<1> USE DEF Dispatch, capsule, external
<1>1. Types /\ At("dispatch") /\ Within(Called) /\ x.at = "idle"
      /\ "prepare" \in Places /\ "observe" \in Places
  BY DEF IInv, Ownership, At, Within, Called, Places, Begun, Calling
<1>2. Moved(w') /\ w'.at \in {"prepare", "observe"}
  BY <1>1, WorkersAre DEF Moved, Workers
<1>3. Position' /\ WorkerFollows'
  BY <1>1, <1>2, FurtherOn DEF Called
<1>4. ThisCall \in CallKey /\ tool[ThisCall] = [status |-> "RUNNING"] /\ tool[ThisCall] # None
      /\ effects[ThisCall] = 0
  BY <1>1, CalledIs, SavedIs DEF IInv, Position, At
<1>5. effects' \in [CallKey -> Nat]
      /\ \A k \in CallKey : effects'[k] = IF k = ThisCall THEN 1 ELSE effects[k]
  BY <1>1, <1>4 DEF Types
<1>6. Types'
  BY <1>1, <1>2, <1>5 DEF Types, Moved, daemon
<1>7. Ownership' /\ Handouts' /\ Quiet'
  BY <1>1, <1>2 DEF IInv, Ownership, Handouts, Quiet, Current, At, daemon
<1>8. Receipts'
  BY <1>4, <1>5 DEF IInv, Receipts
<1>9. Commands'
  BY <1>1, <1>2 DEF IInv, Commands, Within, At, Between, Asking, Sandbox, daemon
<1>10. InBudget' /\ DoneByItsLastAttempt'
  BY DEF IInv, InBudget, CallsMade, DoneByItsLastAttempt
<1>11. Turns'
  BY <1>3 DEF IInv, Turns, TurnFollows, Follows, Complete, Tells, CallsBefore
<1> QED
  BY <1>3, <1>6, <1>7, <1>8, <1>9, <1>10, <1>11 DEF IInv

\* A process learns that its run was cancelled.
LEMMA NoticeKeeps ==
  ASSUME IInv, Notice
  PROVE  IInv'
<1> USE DEF Notice, OnlyWorker, capsule, daemon, external, history
<1>1. Types /\ x.at = "idle"
  BY DEF IInv, Ownership
<1>2. Moved(w') /\ w'.at = w.at /\ w'.passed = w.passed
  BY <1>1, WorkersAre DEF Moved, Workers
<1>3. ThisTurn' = ThisTurn /\ ThisCall' = ThisCall /\ Calls' = Calls
  BY <1>2, SameReceipts
<1>4. Types'
  BY <1>1, <1>2 DEF Types, Moved
<1>5. Position'
  BY <1>2, <1>3 DEF IInv, Position, Moved, Within, At
<1>6. Commands'
  BY <1>2, <1>3 DEF IInv, Commands, Within, At
<1>7. WorkerFollows'
  BY <1>2 DEF IInv, Turns, WorkerFollows, Moved, Within, Follows, Complete, Tells, CallsBefore
<1> QED
  BY <1>1, <1>4, <1>5, <1>6, <1>7, OnlyTheProcess

-----------------------------------------------------------------------------
(* What happens beside the process. *)

\* The process stays where it is while containers stop or go.
LEMMA ContainersKeep ==
  ASSUME IInv, UNCHANGED <<capsule, history, external, receipts, w>>,
         context' \in 1..MaxContext,
         container' \in [CallKey -> {"none", "stopped", "running"}],
         \A k \in CallKey : container'[k] # "none" => container[k] # "none"
  PROVE  IInv'
<1> USE DEF capsule, external, history
<1>1. Types'
  BY DEF IInv, Types
<1>2. w'.at = "idle" \/ x.at = "idle"
  BY DEF IInv, Ownership, At
<1>3. ThisTurn' = ThisTurn /\ ThisCall' = ThisCall /\ Calls' = Calls
  BY DEF ThisTurn, ThisCall, Calls
<1>4. Position'
  BY <1>3 DEF IInv, Position, Within, At
<1>5. WorkerFollows'
  BY DEF IInv, Turns, WorkerFollows, Within, Follows, Complete, Tells, CallsBefore
<1>6. ThisCall \in CallKey \/ ~ At("unlink")
  BY CalledIs DEF At, Within, Called, Sandbox
<1>7. Commands'
  BY <1>3, <1>6 DEF IInv, Types, Commands, Within, At
<1> QED
  BY <1>1, <1>2, <1>4, <1>5, <1>7, OnlyTheProcess

\* A recovery that is refused changes nothing.
LEMMA RecoverRefusedKeeps ==
  ASSUME IInv, RecoverRefused
  PROVE  IInv'
<1>1. PICK k \in receipts : UNCHANGED container \/ Remove(k)
  BY DEF RecoverRefused
<1>2. /\ context \in 1..MaxContext /\ container \in [CallKey -> {"none", "stopped", "running"}]
      /\ UNCHANGED <<capsule, history, external, receipts, w, context>>
  BY DEF IInv, Types, RecoverRefused
<1>3. /\ container' \in [CallKey -> {"none", "stopped", "running"}]
      /\ \A j \in CallKey : container'[j] # "none" => container[j] # "none"
  BY <1>1, <1>2 DEF Remove
<1> QED
  BY <1>2, <1>3, ContainersKeep

\* A command ends by itself.
LEMMA ExitKeeps ==
  ASSUME IInv, NEW k \in CallKey, Exit(k)
  PROVE  IInv'
<1>1. /\ context \in 1..MaxContext /\ container \in [CallKey -> {"none", "stopped", "running"}]
      /\ UNCHANGED <<capsule, history, external, receipts, w, context>>
  BY DEF IInv, Types, Exit
<1>2. /\ container' \in [CallKey -> {"none", "stopped", "running"}]
      /\ \A j \in CallKey : container'[j] # "none" => container[j] # "none"
  BY <1>1 DEF Exit, Set
<1> QED
  BY <1>1, <1>2, ContainersKeep

\* The context of a run changes.
LEMMA LearnKeeps ==
  ASSUME IInv, Learn
  PROVE  IInv'
<1>1. /\ context \in 1..MaxContext /\ container \in [CallKey -> {"none", "stopped", "running"}]
      /\ UNCHANGED <<capsule, history, external, receipts, w, container>>
  BY DEF IInv, Types, Learn, daemon
<1>2. context' \in 1..MaxContext
  BY <1>1, KeysAre DEF Learn
<1> QED
  BY <1>1, <1>2, ContainersKeep

\* A process dies: its receipts and commands stay.
LEMMA CrashKeeps ==
  ASSUME IInv, Crash
  PROVE  IInv'
<1> USE DEF Crash, capsule, daemon, history
<1>1. w' = Idle /\ x' = [at |-> "idle", attempt |-> 0] /\ w'.at = "idle" /\ x'.at = "idle"
  BY DEF Quit, Leave, HandOver, Idle
<1>2. Types'
  <2>1. Idle \in Workers /\ 0 \in 0..MaxAttempts
    BY WorkersAre, KeysAre DEF IInv
  <2> QED
    BY <1>1, <2>1 DEF IInv, Types
<1>3. Ownership' /\ Handouts' /\ Quiet'
  BY <1>1 DEF IInv, Ownership, Handouts, Quiet, Current, At
<1>4. Position' /\ Commands' /\ WorkerFollows'
  <2>1. \A k \in CallKey : container'[k] # "none" => k \in receipts'
    BY DEF IInv, Commands
  <2> QED
    BY <1>1, <2>1, AtRest
<1>5. Receipts' /\ InBudget' /\ DoneByItsLastAttempt' /\ \A k \in TurnKey : TurnFollows(k)'
  BY ReceiptsStay
<1> QED
  BY <1>2, <1>3, <1>4, <1>5 DEF IInv, Turns

\* Steps of the service for assistants that leave the task alone: the process is idle.
LEMMA ServiceKeeps ==
  ASSUME IInv, UNCHANGED <<run, task, invocation, tool, daemon, context, history, w>>,
         w.at = "idle",
         assigned' \subseteq 1..MaxAttempts,
         reported' \in [1..MaxAttempts -> Results \union {None}],
         x' \in [at : {"idle", "start", "assign", "settle"}, attempt : 0..MaxAttempts],
         Handouts', DoneByItsLastAttempt'
  PROVE  IInv'
<1> USE DEF daemon, history
<1>1. Types'
  BY DEF IInv, Types
<1>2. Ownership' /\ Quiet' /\ Receipts'
  BY DEF IInv, Ownership, Quiet, Current, Receipts, At
<1>3. Position' /\ Commands' /\ WorkerFollows'
  <2>1. \A k \in CallKey : container'[k] # "none" => k \in receipts'
    BY DEF IInv, Commands
  <2> QED
    BY <2>1, AtRest
<1>4. InBudget'
  BY DEF IInv, InBudget, CallsMade
<1>5. \A k \in TurnKey : TurnFollows(k)'
  <2> SUFFICES ASSUME NEW k \in TurnKey PROVE TurnFollows(k)'
    OBVIOUS
  <2>1. TurnFollows(k) /\ UNCHANGED <<invocation, tool>>
    BY DEF IInv, Turns
  <2> QED
    BY <2>1, TurnStays
<1> QED
  BY <1>1, <1>2, <1>3, <1>4, <1>5 DEF IInv, Turns

\* An assistant asks for work.
LEMMA NextWorkKeeps ==
  ASSUME IInv, NextWork
  PROVE  IInv'
<1> USE DEF NextWork, OnlyExternal, daemon, history, Mine, HandOver
<1>1. Types /\ w.at = "idle" /\ task.attempt \in 0..MaxAttempts /\ MaxAttempts \in Nat
  BY KeysAre DEF IInv, Types, Unowned, At
<1>2. CASE Mine /\ HandOver("assign", task.attempt)
  <2>1. task.attempt > 0 /\ x' = [at |-> "assign", attempt |-> task.attempt]
    BY <1>2 DEF IInv, Ownership, Working
  <2>2. Handouts'
    BY <1>2, <2>1 DEF Handouts
  <2> QED
    BY <1>1, <2>1, <2>2, ServiceKeeps DEF IInv, Types, DoneByItsLastAttempt
<1>3. CASE task.status = "READY" /\ HandOver("start", task.attempt + 1)
  <2>1. /\ x' = [at |-> "start", attempt |-> task.attempt + 1]
        /\ task.attempt + 1 \in 0..MaxAttempts /\ task.attempt + 1 > 0
    BY <1>1, <1>3 DEF IInv, Ownership
  <2>2. Handouts'
    BY <1>3, <2>1 DEF Handouts
  <2> QED
    BY <1>1, <2>1, <2>2, ServiceKeeps DEF IInv, Types, DoneByItsLastAttempt
<1> QED
  BY <1>2, <1>3

\* An attempt is handed out to an assistant.
LEMMA AssignKeeps ==
  ASSUME IInv, Assign
  PROVE  IInv'
<1> USE DEF Assign, OnlyExternal, daemon, history, Leave, HandOver
<1>1. Types /\ w.at = "idle" /\ x.attempt \in 1..MaxAttempts /\ 0 \in 0..MaxAttempts
  BY KeysAre DEF IInv, Types, Ownership, Handouts, At
<1>2. Handouts'
  BY DEF Handouts
<1> QED
  BY <1>1, <1>2, ServiceKeeps DEF IInv, Types, DoneByItsLastAttempt

\* An assistant reports its result.
LEMMA ReportKeeps ==
  ASSUME IInv, NEW a \in 1..MaxAttempts, NEW result \in Results, Report(a, result)
  PROVE  IInv'
<1> USE DEF Report, OnlyExternal, daemon, history, HandOver
<1>1. Types /\ w.at = "idle" /\ a \in 0..MaxAttempts /\ a > 0
  BY KeysAre DEF IInv, Unowned, At
<1>2. /\ reported' \in [1..MaxAttempts -> Results \union {None}]
      /\ reported'[a] # None /\ \A b \in 1..MaxAttempts : b # a => reported'[b] = reported[b]
      /\ x' = [at |-> "settle", attempt |-> a]
  BY <1>1, MarkAssumption DEF Types
<1>3. Handouts'
  BY <1>1, <1>2 DEF Handouts
<1>4. DoneByItsLastAttempt'
  <2>1. task.status = "SUCCEEDED" => task.attempt \in 1..MaxAttempts
    BY <1>1, KeysAre DEF IInv, Types, Ownership
  <2> QED
    BY <1>2, <2>1 DEF IInv, DoneByItsLastAttempt
<1> QED
  BY <1>1, <1>2, <1>3, <1>4, ServiceKeeps DEF IInv, Types

-----------------------------------------------------------------------------
(* Steps of the task. *)

\* A task that keeps its attempt and does not become ready keeps what its receipts say.
LEMMA TaskMoves ==
  ASSUME IInv, UNCHANGED <<invocation, tool, container, history>>,
         task'.attempt = task.attempt,
         task'.status = "READY" => task.status = "READY"
  PROVE  /\ Receipts' /\ Quiet' /\ InBudget' /\ \A k \in TurnKey : TurnFollows(k)'
<1> USE DEF history
<1>1. Receipts'
  BY DEF IInv, Receipts
<1>2. Quiet'
  BY DEF IInv, Quiet, Current
<1>3. InBudget'
  BY DEF IInv, InBudget, CallsMade
<1>4. \A k \in TurnKey : TurnFollows(k)'
  BY TurnStays DEF IInv, Turns
<1> QED
  BY <1>1, <1>2, <1>3, <1>4

\* A new attempt has nothing yet.
LEMMA AttemptBegins ==
  ASSUME IInv, UNCHANGED <<invocation, tool, container, history>>,
         task.status = "READY", task' = [status |-> "RUNNING", attempt |-> task.attempt + 1]
  PROVE  /\ Receipts' /\ Quiet' /\ InBudget' /\ DoneByItsLastAttempt'
         /\ \A k \in TurnKey : TurnFollows(k)'
         /\ \A t \in Turn : invocation[<<task.attempt + 1, t>>] = None
         /\ task.attempt + 1 \in 1..MaxAttempts
<1> USE DEF history
<1>1. task.attempt + 1 \in 1..MaxAttempts /\ task.attempt \in Nat
  BY KeysAre DEF IInv, Types, Ownership
<1>2. task'.attempt = task.attempt + 1 /\ task'.status = "RUNNING"
  OBVIOUS
<1>3. Receipts'
  BY <1>1, <1>2, KeysAre DEF IInv, Receipts
<1>4. Quiet'
  BY DEF IInv, Quiet, Current
<1>5. InBudget'
  <2>1. \A k \in CallKey : k[1][1] = task.attempt + 1 => tool[k] = None
    BY <1>1, KeysAre DEF IInv, Receipts
  <2>2. CallsMade' = {}
    BY <1>2, <2>1 DEF CallsMade
  <2> QED
    BY <2>2, FS_EmptySet, KeysAre DEF InBudget
<1>6. DoneByItsLastAttempt'
  BY <1>2 DEF DoneByItsLastAttempt
<1>7. \A k \in TurnKey : TurnFollows(k)'
  BY TurnStays DEF IInv, Turns
<1>8. \A t \in Turn : invocation[<<task.attempt + 1, t>>] = None
  BY <1>1, KeysAre DEF IInv, Receipts
<1> QED
  BY <1>1, <1>3, <1>4, <1>5, <1>6, <1>7, <1>8

\* The first turn follows nothing.
LEMMA FirstTurnFollows ==
  ASSUME NEW a
  PROVE  Follows(a, 0, 1, <<>>)'
<1>1. CallsBefore(a, 0, 1)' = {}
  BY KeysAre DEF CallsBefore, Before, Turn
<1>2. Tells(<<>>, {}, tool')
  BY NothingToTell
<1>3. Complete(a, 0)'
  BY KeysAre DEF Complete, Turn
<1> QED
  BY <1>1, <1>2, <1>3 DEF Follows

\* An attempt is begun, or one under way is taken over.
LEMMA BeginKeeps ==
  ASSUME IInv, Begin
  PROVE  IInv'
<1> USE DEF Begin, OnlyCapsule, daemon, history, external
<1>1. Types /\ At("begin") /\ x.at = "idle" /\ "invoke" \in Places
  BY DEF IInv, Ownership, At, Places, Begun, Between
<1>2. w.turn = 0 /\ w.call = 1 /\ w.seen = <<>> /\ w.context > 0 /\ receipts = {}
  BY <1>1 DEF IInv, Position, Commands, Within, At
<1>3. ASSUME Goto("invoke"), task' = task \/ task.status = "READY",
             task' = task \/ task' = [status |-> "RUNNING", attempt |-> task.attempt + 1],
             Types', Ownership', task'.attempt > 0, task'.status # "READY",
             Receipts', Quiet', InBudget', DoneByItsLastAttempt',
             \A k \in TurnKey : TurnFollows(k)'
      PROVE  IInv'
  <2>1. Moved(w') /\ w'.at = "invoke"
    BY <1>1, <1>3, GotoMoves
  <2>2. Handouts'
    BY <1>1 DEF Handouts
  <2>3. Position'
    BY <1>2, <1>3, <2>1 DEF Position, Moved, Within, At, Begun, Between, Asking, Calling,
                            Called, Sandbox
  <2>4. Commands'
    BY <1>2, <2>1 DEF IInv, Commands, Within, At, Begun, Between, Asking, Calling, Called, Sandbox
  <2>5. WorkerFollows'
    <3>1. PICK a : a = task'.attempt
      OBVIOUS
    <3>2. Follows(a, 0, 1, <<>>)'
      BY FirstTurnFollows
    <3>3. w'.turn = 0 /\ w'.call = 1 /\ w'.seen = <<>>
      BY <1>2, <2>1 DEF Moved
    <3> QED
      BY <3>1, <3>2, <3>3 DEF WorkerFollows
  <2> QED
    BY <1>3, <2>2, <2>3, <2>4, <2>5 DEF IInv, Turns
<1>4. CASE Active /\ UNCHANGED task /\ Goto("invoke")
  <2>1. w' \in Workers
    BY <1>1, <1>4, GotoMoves DEF Moved
  <2>2. Types'
    BY <1>1, <1>4, <2>1 DEF Types
  <2>3. Ownership' /\ task'.attempt > 0 /\ task'.status # "READY"
    BY <1>1, <1>4 DEF IInv, Ownership, Active, Working, At
  <2>4. Receipts' /\ InBudget' /\ DoneByItsLastAttempt' /\ \A k \in TurnKey : TurnFollows(k)'
    BY <1>4, ReceiptsStay
  <2>5. Quiet'
    BY <1>4 DEF IInv, Quiet, Current
  <2> QED
    BY <1>3, <1>4, <2>2, <2>3, <2>4, <2>5
<1>5. CASE /\ task.status = "READY" /\ run = "EXECUTING" /\ Goto("invoke")
           /\ task' = [status |-> "RUNNING", attempt |-> task.attempt + 1]
  <2>1. w' \in Workers
    BY <1>1, <1>5, GotoMoves DEF Moved
  <2>2. /\ Receipts' /\ Quiet' /\ InBudget' /\ DoneByItsLastAttempt'
        /\ \A k \in TurnKey : TurnFollows(k)'
        /\ task.attempt + 1 \in 1..MaxAttempts
    BY <1>5, AttemptBegins
  <2>3. task.attempt + 1 > 0 /\ task.attempt + 1 \in 0..MaxAttempts
        /\ task'.attempt = task.attempt + 1 /\ task'.status = "RUNNING"
    BY <1>5, <2>2, KeysAre
  <2>4. Types'
    BY <1>1, <1>5, <2>1, <2>3 DEF Types
  <2>5. Ownership'
    BY <1>1, <1>5, <2>3 DEF Ownership, At
  <2> QED
    BY <1>3, <1>5, <2>2, <2>3, <2>4, <2>5
<1>6. CASE UNCHANGED task /\ Quit
  BY <1>1, <1>6, GivingUpKeeps DEF capsule, Types, At
<1> QED
  BY <1>4, <1>5, <1>6

\* An attempt is started for an assistant.
LEMMA StartExternalKeeps ==
  ASSUME IInv, StartExternal
  PROVE  IInv'
<1> USE DEF StartExternal, OnlyExternal, daemon, history, HandOver, Leave
<1>1. Types /\ w.at = "idle" /\ x.attempt = task.attempt + 1 /\ x.attempt > 0 /\ 0 \in 0..MaxAttempts
  BY KeysAre DEF IInv, Ownership, Handouts, At
<1>2. CASE run = "EXECUTING" /\ task.status = "READY"
  <2>1. /\ task' = [status |-> "RUNNING", attempt |-> task.attempt + 1]
        /\ x' = [at |-> "assign", attempt |-> task.attempt + 1]
    BY <1>1, <1>2
  <2>2. /\ Receipts' /\ Quiet' /\ InBudget' /\ DoneByItsLastAttempt'
        /\ \A k \in TurnKey : TurnFollows(k)'
        /\ \A t \in Turn : invocation[<<task.attempt + 1, t>>] = None
        /\ task.attempt + 1 \in 1..MaxAttempts
    BY <1>2, <2>1, AttemptBegins
  <2>3. task.attempt + 1 > 0 /\ task.attempt + 1 \in 0..MaxAttempts
        /\ task'.attempt = task.attempt + 1 /\ task'.status = "RUNNING"
        /\ x'.at = "assign" /\ x'.attempt = task.attempt + 1
    BY <2>1, <2>2, KeysAre
  <2>4. Types'
    BY <1>1, <2>1, <2>3 DEF Types
  <2>5. Ownership' /\ Handouts'
    BY <1>1, <1>2, <2>2, <2>3 DEF Ownership, Handouts, At
  <2>6. Position' /\ Commands' /\ WorkerFollows'
    <3>1. \A k \in CallKey : container'[k] # "none" => k \in receipts'
      BY DEF IInv, Commands
    <3> QED
      BY <1>1, <3>1, AtRest
  <2> QED
    BY <2>2, <2>4, <2>5, <2>6 DEF IInv, Turns
<1>3. CASE UNCHANGED task /\ x' = [at |-> "idle", attempt |-> 0]
  <2>1. Handouts'
    BY <1>3 DEF Handouts
  <2> QED
    BY <1>1, <1>3, <2>1, ServiceKeeps DEF IInv, Types, DoneByItsLastAttempt
<1> QED
  BY <1>2, <1>3

\* The last result of an attempt ends its task.
LEMMA FinishKeeps ==
  ASSUME IInv, NEW complete \in BOOLEAN, Finish(complete)
  PROVE  IInv'
<1> USE DEF Finish, OnlyCapsule, daemon, history, external
<1>1. Types /\ At("finish") /\ x.at = "idle" /\ task.attempt > 0
  BY DEF IInv, Ownership, Position, At, Within
<1>2. CASE Working /\ task' = [task EXCEPT !.status = "SUCCEEDED"] /\ Quit
  <2>1. task'.attempt = task.attempt /\ task'.status = "SUCCEEDED" /\ w' = Idle /\ w'.at = "idle"
    BY <1>1, <1>2 DEF Types, Quit, Idle
  <2>2. /\ Receipts' /\ Quiet' /\ InBudget' /\ \A k \in TurnKey : TurnFollows(k)'
    BY <2>1, TaskMoves
  <2>3. Types'
    BY <1>1, <1>2, <2>1, WorkersAre DEF Types
  <2>4. Ownership' /\ Handouts'
    BY <1>1, <1>2, <2>1 DEF IInv, Ownership, Handouts, Working, At
  <2>5. DoneByItsLastAttempt'
    BY <1>1, <2>1 DEF IInv, Position, DoneByItsLastAttempt
  <2>6. Position' /\ Commands' /\ WorkerFollows'
    <3>1. \A k \in CallKey : container'[k] # "none" => k \in receipts'
      BY DEF IInv, Commands
    <3> QED
      BY <2>1, <3>1, AtRest
  <2> QED
    BY <2>2, <2>3, <2>4, <2>5, <2>6 DEF IInv, Turns
<1>3. CASE UNCHANGED task /\ Fail
  BY <1>1, <1>3, GivingUpKeeps DEF capsule, Types, At
<1> QED
  BY <1>2, <1>3

\* A failed attempt stops its task.
LEMMA FailedKeeps ==
  ASSUME IInv, Failed
  PROVE  IInv'
<1> USE DEF Failed, OnlyCapsule, daemon, history, external
<1>1. Types /\ At("failed") /\ x.at = "idle" /\ "block" \in Places
  BY DEF IInv, Ownership, At, Places
<1>2. CASE UNCHANGED task /\ Quit
  BY <1>1, <1>2, GivingUpKeeps DEF capsule, Types, At
<1>3. CASE run # "CANCELLED" /\ task' = [task EXCEPT !.status = "BLOCKED"] /\ Goto("block")
  <2>1. task'.attempt = task.attempt /\ task'.status = "BLOCKED"
    BY <1>1, <1>3 DEF Types
  <2>2. w' \in Workers /\ w'.at = "block"
    BY <1>1, <1>3, GotoMoves DEF Moved
  <2>3. /\ Receipts' /\ Quiet' /\ InBudget' /\ \A k \in TurnKey : TurnFollows(k)'
    BY <2>1, TaskMoves
  <2>4. Types'
    BY <1>1, <1>3, <2>2 DEF Types
  <2>5. Ownership' /\ Handouts' /\ DoneByItsLastAttempt'
    BY <1>1, <1>3, <2>1 DEF IInv, Ownership, Handouts, DoneByItsLastAttempt, At
  <2>6. Position' /\ Commands' /\ WorkerFollows'
    <3>1. \A k \in CallKey : container'[k] # "none" => k \in receipts'
      BY DEF IInv, Commands
    <3> QED
      BY <2>2, <3>1, AtRest
  <2> QED
    BY <2>3, <2>4, <2>5, <2>6 DEF IInv, Turns
<1> QED
  BY <1>2, <1>3

\* A stopped task stops its run.
LEMMA BlockRunKeeps ==
  ASSUME IInv, BlockRun
  PROVE  IInv'
<1> USE DEF BlockRun, OnlyCapsule, daemon, history, external
<1>1. Types /\ At("block") /\ x.at = "idle" /\ w' = Idle /\ w'.at = "idle"
  BY DEF IInv, Ownership, At, Quit, Idle
<1>2. run' \in {run, "BLOCKED"}
  OBVIOUS
<1>3. Types'
  BY <1>1, <1>2, WorkersAre DEF Types
<1>4. /\ Receipts' /\ Quiet' /\ InBudget' /\ \A k \in TurnKey : TurnFollows(k)'
  BY TaskMoves
<1>5. Ownership' /\ Handouts' /\ DoneByItsLastAttempt'
  BY <1>1 DEF IInv, Ownership, Handouts, DoneByItsLastAttempt, At
<1>6. Position' /\ Commands' /\ WorkerFollows'
  <2>1. \A k \in CallKey : container'[k] # "none" => k \in receipts'
    BY DEF IInv, Commands
  <2> QED
    BY <1>1, <2>1, AtRest
<1> QED
  BY <1>3, <1>4, <1>5, <1>6 DEF IInv, Turns

\* The result an assistant reported ends its attempt.
LEMMA SettleKeeps ==
  ASSUME IInv, Settle
  PROVE  IInv'
<1> USE DEF Settle, OnlyExternal, daemon, history, HandOver, Leave
<1>1. Types /\ w.at = "idle" /\ reported[x.attempt] # None /\ x.attempt > 0 /\ 0 \in 0..MaxAttempts
      /\ x' = [at |-> "idle", attempt |-> 0] /\ x'.at = "idle"
  BY KeysAre DEF IInv, Ownership, Handouts, At
<1>2. CASE UNCHANGED task
  <2>1. Handouts'
    BY <1>1 DEF Handouts
  <2>2. DoneByItsLastAttempt'
    BY <1>2 DEF IInv, DoneByItsLastAttempt
  <2>3. /\ assigned' \subseteq 1..MaxAttempts
        /\ reported' \in [1..MaxAttempts -> Results \union {None}]
        /\ x' \in [at : {"idle", "start", "assign", "settle"}, attempt : 0..MaxAttempts]
    BY <1>1 DEF Types
  <2> QED
    BY <1>1, <1>2, <2>1, <2>2, <2>3, ServiceKeeps
<1>3. CASE Active /\ task.attempt = x.attempt /\ task' = [task EXCEPT !.status = "SUCCEEDED"]
  <2>1. task'.attempt = task.attempt /\ task'.status = "SUCCEEDED"
    BY <1>1, <1>3 DEF Types
  <2>2. /\ Receipts' /\ Quiet' /\ InBudget' /\ \A k \in TurnKey : TurnFollows(k)'
    BY <2>1, TaskMoves
  <2>3. Types'
    <3>1. /\ task' \in [status : {"READY", "RUNNING", "SUCCEEDED", "BLOCKED", "CANCELLED"},
                        attempt : 0..MaxAttempts]
          /\ x' \in [at : {"idle", "start", "assign", "settle"}, attempt : 0..MaxAttempts]
      BY <1>1, <1>3 DEF Types
    <3> QED
      BY <1>1, <3>1 DEF Types
  <2>4. Ownership' /\ Handouts' /\ DoneByItsLastAttempt'
    BY <1>1, <1>3, <2>1 DEF IInv, Ownership, Handouts, DoneByItsLastAttempt, Active, At
  <2>5. Position' /\ Commands' /\ WorkerFollows'
    <3>1. \A k \in CallKey : container'[k] # "none" => k \in receipts'
      BY DEF IInv, Commands
    <3> QED
      BY <1>1, <3>1, AtRest
  <2> QED
    BY <2>2, <2>3, <2>4, <2>5 DEF IInv, Turns
<1> QED
  BY <1>2, <1>3

\* The process goes on where it is when the run or its task is stopped or resumed.
LEMMA ProcessStays ==
  ASSUME IInv, UNCHANGED <<invocation, tool, daemon, history, w>>,
         task'.attempt = task.attempt,
         task'.status = "READY" => task.status = "READY"
  PROVE  Position' /\ Commands' /\ WorkerFollows'
<1> USE DEF daemon, history
<1>1. ThisTurn' = ThisTurn /\ ThisCall' = ThisCall /\ Calls' = Calls
  BY DEF ThisTurn, ThisCall, Calls
<1>2. Position'
  BY <1>1 DEF IInv, Position, Within, At
<1>3. Commands'
  BY <1>1 DEF IInv, Commands, Within, At
<1>4. WorkerFollows'
  BY DEF IInv, Turns, WorkerFollows, Within, Follows, Complete, Tells, CallsBefore
<1> QED
  BY <1>2, <1>3, <1>4

\* The run is cancelled.
LEMMA CancelKeeps ==
  ASSUME IInv, Cancel
  PROVE  IInv'
<1> USE DEF Cancel, OnlyCapsule, daemon, history, external
<1>1. Types
  BY DEF IInv
<1>2. task'.attempt = task.attempt
      /\ ((task' = task /\ task.status = "SUCCEEDED") \/ task'.status = "CANCELLED")
      /\ task' \in [status : {"READY", "RUNNING", "SUCCEEDED", "BLOCKED", "CANCELLED"},
                    attempt : 0..MaxAttempts]
  BY <1>1 DEF Types
<1>3. /\ Receipts' /\ Quiet' /\ InBudget' /\ \A k \in TurnKey : TurnFollows(k)'
  BY <1>2, TaskMoves
<1>4. Types'
  BY <1>1, <1>2 DEF Types
<1>5. Ownership' /\ Handouts' /\ DoneByItsLastAttempt'
  BY <1>2 DEF IInv, Ownership, Handouts, DoneByItsLastAttempt, At
<1>6. Position' /\ Commands' /\ WorkerFollows'
  BY <1>2, ProcessStays
<1> QED
  BY <1>3, <1>4, <1>5, <1>6 DEF IInv, Turns

\* A blocked run is resumed.
LEMMA ResumeKeeps ==
  ASSUME IInv, Resume
  PROVE  IInv'
<1> USE DEF Resume, OnlyCapsule, daemon, history, external
<1>1. Types'
  BY DEF IInv, Types
<1>2. /\ Receipts' /\ Quiet' /\ InBudget' /\ \A k \in TurnKey : TurnFollows(k)'
  BY TaskMoves
<1>3. Ownership' /\ Handouts' /\ DoneByItsLastAttempt'
  BY DEF IInv, Ownership, Handouts, DoneByItsLastAttempt, At
<1>4. Position' /\ Commands' /\ WorkerFollows'
  BY ProcessStays
<1> QED
  BY <1>1, <1>2, <1>3, <1>4 DEF IInv, Turns

-----------------------------------------------------------------------------
(* A turn and its receipt. *)

\* What follows goes on to follow while the calls before it do not change.
LEMMA FollowsOn ==
  ASSUME NEW a, NEW n, NEW c, NEW told, Follows(a, n, c, told), Complete(a, n)',
         \A k \in CallKey : Before(k, a, n, c) => tool'[k] = tool[k]
  PROVE  Follows(a, n, c, told)'
<1>1. CallsBefore(a, n, c)' = CallsBefore(a, n, c)
  BY DEF CallsBefore
<1>2. Tells(told, CallsBefore(a, n, c), tool)
      /\ \A k \in CallsBefore(a, n, c) : tool[k] = tool'[k]
  BY DEF Follows, CallsBefore
<1>3. Tells(told, CallsBefore(a, n, c), tool')
  BY <1>2, ToldAgain
<1> QED
  BY <1>1, <1>3 DEF Follows

\* A turn without a result gets a receipt, or its outcome: no other turn follows it yet.
LEMMA TurnRecorded ==
  ASSUME IInv, NEW k \in TurnKey, NEW i \in Invocations, Record(k, i),
         UNCHANGED <<task, tool, container, history, reported>>,
         invocation[k] = None \/ invocation[k].status = "RUNNING",
         Current(k[1]),
         i.result # None <=> i.status = "SUCCEEDED",
         invocation[k] # None => i.request = invocation[k].request,
         invocation[k] = None => Follows(k[1], k[2], 1, i.request.observations)
  PROVE  /\ Receipts' /\ Quiet' /\ InBudget' /\ DoneByItsLastAttempt'
         /\ \A j \in TurnKey : TurnFollows(j)'
         /\ invocation' \in [TurnKey -> Invocations \union {None}] /\ invocation'[k] = i
         /\ \A j \in TurnKey : invocation'[j] # None =>
                (invocation'[j].result # None <=> invocation'[j].status = "SUCCEEDED")
         /\ \A n, c, told : \A a \in 1..MaxAttempts :
                Follows(a, n, c, told) => Follows(a, n, c, told)'
<1> USE DEF history, Record
<1>1. Types
  BY DEF IInv
<1>2. i # None
  BY MarkAssumption
<1>3. /\ invocation' \in [TurnKey -> Invocations \union {None}] /\ invocation'[k] = i
      /\ \A j \in TurnKey : j # k => invocation'[j] = invocation[j]
  BY <1>1 DEF Types
<1>4. \A j \in TurnKey : invocation'[j] # None =>
          (invocation'[j].result # None <=> invocation'[j].status = "SUCCEEDED")
  BY <1>1, <1>3 DEF Types
<1>5. ASSUME NEW a \in 1..MaxAttempts, NEW n, NEW c, NEW told, Follows(a, n, c, told)
      PROVE  Follows(a, n, c, told)'
  <2>1. Complete(a, n)'
    BY <1>3, <1>5, KeysAre DEF Follows, Complete
  <2> QED
    BY <1>5, <2>1, FollowsOn
<1>6. ASSUME NEW j \in TurnKey
      PROVE  TurnFollows(j)'
  <2>1. j[1] \in 1..MaxAttempts
    BY KeysAre
  <2>2. CASE invocation[j] = None /\ j # k
    BY <1>3, <2>2 DEF TurnFollows
  <2>3. CASE invocation[j] # None \/ j = k
    <3>1. invocation'[j] # None /\ (invocation[j] # None =>
              invocation'[j].request = invocation[j].request)
      BY <1>2, <1>3, <2>3
    <3>2. PICK told : told = invocation'[j].request.observations
      OBVIOUS
    <3>3. Follows(j[1], j[2], 1, told)
      BY <1>3, <2>3, <3>1, <3>2 DEF IInv, Turns, TurnFollows
    <3>4. Follows(j[1], j[2], 1, told)'
      BY <1>5, <2>1, <3>3
    <3> QED
      BY <3>2, <3>4 DEF TurnFollows
  <2> QED
    BY <2>2, <2>3
<1>7. Receipts'
  <2>1. \A j \in TurnKey : asked'[j] <= 1 /\ (invocation'[j] = None => asked'[j] = 0)
    BY <1>2, <1>3 DEF IInv, Receipts
  <2>2. \A j \in TurnKey : j[1] > task'.attempt => invocation'[j] = None
    BY <1>1, <1>3, KeysAre DEF IInv, Receipts, Current, Types
  <2>3. \A j \in CallKey : tool'[j] # None =>
            /\ invocation'[j[1]] # None /\ invocation'[j[1]].status = "SUCCEEDED"
            /\ j[2] <= Len(invocation'[j[1]].result)
    <3> SUFFICES ASSUME NEW j \in CallKey, tool[j] # None
                 PROVE  j[1] # k /\ j[1] \in TurnKey
      BY <1>3 DEF IInv, Receipts
    <3> QED
      BY KeysAre DEF IInv, Receipts
  <2> QED
    BY <2>1, <2>2, <2>3 DEF IInv, Receipts
<1>8. Quiet'
  BY <1>3 DEF IInv, Quiet, Current
<1>9. InBudget'
  BY DEF IInv, InBudget, CallsMade
<1>10. DoneByItsLastAttempt'
  <2>1. CASE task.status # "SUCCEEDED"
    BY <2>1 DEF DoneByItsLastAttempt
  <2>2. CASE task.status = "SUCCEEDED" /\ reported[task.attempt] # None
    BY <2>2 DEF DoneByItsLastAttempt
  <2>3. CASE \E t \in Turn : invocation[<<task.attempt, t>>] # None
                             /\ invocation[<<task.attempt, t>>].result = <<>>
    <3>1. PICK t \in Turn : invocation[<<task.attempt, t>>] # None
                            /\ invocation[<<task.attempt, t>>].result = <<>>
      BY <2>3
    <3>2. task.attempt \in 1..MaxAttempts
      BY KeysAre DEF Current
    <3>3. <<task.attempt, t>> \in TurnKey
      BY <3>2, KeysAre
    <3>4. invocation[<<task.attempt, t>>].status = "SUCCEEDED"
      BY <1>1, <3>1, <3>3, MarkAssumption DEF Types
    <3>5. invocation'[<<task.attempt, t>>] = invocation[<<task.attempt, t>>]
      BY <1>3, <3>1, <3>3, <3>4
    <3> QED
      BY <3>1, <3>5 DEF DoneByItsLastAttempt
  <2> QED
    BY <2>1, <2>2, <2>3 DEF IInv, DoneByItsLastAttempt
<1> QED
  BY <1>3, <1>4, <1>5, <1>6, <1>7, <1>8, <1>9, <1>10

\* The process when a turn has got its receipt or outcome.
LEMMA TurnStep ==
  ASSUME IInv, UNCHANGED <<run, task, tool>>, OnlyCapsule, ~ At("idle"),
         Receipts', Quiet', InBudget', DoneByItsLastAttempt', \A j \in TurnKey : TurnFollows(j)',
         invocation' \in [TurnKey -> Invocations \union {None}],
         \A j \in TurnKey : invocation'[j] # None =>
                (invocation'[j].result # None <=> invocation'[j].status = "SUCCEEDED"),
         w' \in Workers, Position', Commands', WorkerFollows'
  PROVE  IInv'
<1> USE DEF OnlyCapsule, daemon, history, external
<1>1. x.at = "idle"
  BY DEF IInv, Ownership
<1>2. Types'
  BY DEF IInv, Types
<1>3. Ownership' /\ Handouts'
  BY <1>1 DEF IInv, Ownership, Handouts, At
<1> QED
  BY <1>2, <1>3 DEF IInv, Turns

\* A turn is begun, replayed, or refused: a new receipt is told of all calls before.
LEMMA InvokeKeeps ==
  ASSUME IInv, Invoke
  PROVE  IInv'
<1> USE DEF Invoke
<1>1. Types /\ At("invoke") /\ Within(Between) /\ Within(Begun) /\ x.at = "idle" /\ ~ At("idle")
      /\ "result" \in Places /\ "ask" \in Places
  BY DEF IInv, Ownership, At, Within, Places, Begun, Between, Asking
<1>2. w.call = 1 /\ w.context > 0 /\ task.attempt > 0 /\ task.status # "READY"
  BY <1>1 DEF IInv, Position, Within, At
<1>3. UNCHANGED <<run, task, tool>> /\ OnlyCapsule
  OBVIOUS
<1>4. \A k \in CallKey : container'[k] # "none" => k \in receipts'
  BY <1>3 DEF IInv, Commands, OnlyCapsule, daemon
<1>5. CASE UNCHANGED invocation /\ Fail
  BY <1>1, <1>3, <1>5, GivingUpKeeps DEF capsule, daemon, OnlyCapsule, Types, At
<1>6. ASSUME w.turn \in Turn
      PROVE  ThisTurn \in TurnKey /\ ThisTurn[1] = task.attempt /\ ThisTurn[2] = w.turn
  BY <1>1, <1>2, <1>6, ThisIsAKey DEF ThisTurn
<1>7. CASE /\ w.turn \in Turn /\ invocation[ThisTurn] # None
           /\ invocation[ThisTurn].status = "SUCCEEDED"
           /\ UNCHANGED invocation /\ Goto("result")
  <2>1. Moved(w') /\ w'.at = "result"
    BY <1>1, <1>7, GotoMoves
  <2>2. ThisTurn' = ThisTurn
    BY <1>3, <1>7, <2>1, SameReceipts
  <2>3. Position'
    BY <1>2, <1>3, <1>7, <2>1, <2>2
       DEF Position, Moved, Within, At, Begun, Between, Asking, Calling, Called, Sandbox
  <2>4. WorkerFollows'
    <3>1. PICK a, n, c, told : a = task.attempt /\ n = w.turn /\ c = w.call /\ told = w.seen
      OBVIOUS
    <3>2. Follows(a, n, c, told)
      BY <1>1, <3>1 DEF IInv, Turns, WorkerFollows
    <3>3. Complete(a, n)'
      BY <1>3, <1>7, <3>2 DEF Follows, Complete
    <3>4. Follows(a, n, c, told)'
      BY <1>3, <3>2, <3>3, FollowsOn
    <3> QED
      BY <1>3, <2>1, <3>1, <3>4 DEF WorkerFollows, Moved
  <2>5. Commands'
    BY <1>1, <1>3, <2>1 DEF IInv, OnlyCapsule, daemon, Commands, Within, At, Between, Asking,
                            Sandbox
  <2>6. Types'
    BY <1>1, <1>3, <1>7, <2>1 DEF Types, Moved, OnlyCapsule, daemon, history, external
  <2> QED
    BY <1>1, <1>3, <1>7, <2>3, <2>4, <2>5, <2>6, OnlyTheProcess
       DEF capsule, OnlyCapsule, daemon
<1>8. CASE /\ w.turn \in Turn /\ invocation[ThisTurn] # None
           /\ invocation[ThisTurn].status = "RUNNING" /\ Fail
           /\ Record(ThisTurn, [invocation[ThisTurn] EXCEPT !.status = "INTERRUPTED"])
  <2>1. PICK k, i : k = ThisTurn /\ i = [invocation[ThisTurn] EXCEPT !.status = "INTERRUPTED"]
    OBVIOUS
  <2>2. k \in TurnKey /\ k[1] = task.attempt /\ Record(k, i) /\ invocation[k].status = "RUNNING"
        /\ invocation[k] # None
    BY <1>6, <1>8, <2>1
  <2>3. invocation[k] \in Invocations /\ ~ (invocation[k].result # None)
    BY <1>1, <2>2, InvocationIs
  <2>4. i \in Invocations /\ i.request = invocation[k].request /\ i.status = "INTERRUPTED"
        /\ i.result = None
    BY <2>1, <2>3 DEF Invocations
  <2>5. Current(k[1])
    BY <1>2, <2>2 DEF Current
  <2>6. /\ Receipts' /\ Quiet' /\ InBudget' /\ DoneByItsLastAttempt'
        /\ \A j \in TurnKey : TurnFollows(j)'
        /\ invocation' \in [TurnKey -> Invocations \union {None}]
        /\ \A j \in TurnKey : invocation'[j] # None =>
                (invocation'[j].result # None <=> invocation'[j].status = "SUCCEEDED")
    BY <1>3, <2>2, <2>4, <2>5, TurnRecorded DEF OnlyCapsule, daemon, external
  <2>7. w' \in Workers /\ w'.at = "failed"
    BY <1>1, <1>8, WorkersAre DEF Fail, Idle, Workers, Places
  <2>8. Position' /\ Commands' /\ WorkerFollows'
    BY <1>4, <2>7, AtRest
  <2> QED
    BY <1>1, <1>3, <2>6, <2>7, <2>8, TurnStep
<1>9. CASE /\ w.turn \in Turn /\ invocation[ThisTurn] = None /\ Active /\ Goto("ask")
           /\ Record(ThisTurn, [status |-> "RUNNING", request |-> Request, result |-> None])
  <2>1. PICK k, i, told : /\ k = ThisTurn
                          /\ i = [status |-> "RUNNING", request |-> Request, result |-> None]
                          /\ told = w.seen
    OBVIOUS
  <2>2. k \in TurnKey /\ k[1] = task.attempt /\ k[2] = w.turn /\ Record(k, i)
        /\ invocation[k] = None
    BY <1>6, <1>9, <2>1
  <2>3. Request \in Requests /\ Request.observations = told
    <3>1. w.context \in 1..MaxContext /\ w.seen \in Seq(BOOLEAN)
      BY <1>1, <1>2, WorkersAre, KeysAre
    <3> QED
      BY <2>1, <3>1 DEF Request, Requests
  <2>4. i \in Invocations /\ i.request.observations = told /\ i.status = "RUNNING" /\ i.result = None
        /\ i # None
    BY <2>1, <2>3, MarkAssumption DEF Invocations
  <2>5. Current(k[1])
    BY <1>2, <2>2 DEF Current
  <2>6. Follows(k[1], k[2], 1, told)
    BY <1>1, <1>2, <2>1, <2>2 DEF IInv, Turns, WorkerFollows
  <2>7. /\ Receipts' /\ Quiet' /\ InBudget' /\ DoneByItsLastAttempt'
        /\ \A j \in TurnKey : TurnFollows(j)'
        /\ invocation' \in [TurnKey -> Invocations \union {None}] /\ invocation'[k] = i
        /\ \A j \in TurnKey : invocation'[j] # None =>
                (invocation'[j].result # None <=> invocation'[j].status = "SUCCEEDED")
        /\ \A n, c, d : \A a \in 1..MaxAttempts : Follows(a, n, c, d) => Follows(a, n, c, d)'
    BY <1>3, <2>2, <2>4, <2>5, <2>6, TurnRecorded DEF OnlyCapsule, daemon, external
  <2>8. Moved(w') /\ w'.at = "ask"
    BY <1>1, <1>9, GotoMoves
  <2>9. ThisTurn' = ThisTurn /\ asked[k] = 0 /\ asked' = asked
    BY <1>3, <2>2, <2>8 DEF IInv, Receipts, ThisTurn, Moved, OnlyCapsule, history
  <2>10. Position'
    BY <1>2, <1>3, <1>9, <2>1, <2>4, <2>7, <2>8, <2>9
       DEF Position, Moved, Within, At, Begun, Between, Asking, Calling, Called, Sandbox
  <2>11. Commands'
    BY <1>1, <1>3, <2>8 DEF IInv, OnlyCapsule, daemon, Commands, Within, At, Between, Asking,
                            Sandbox
  <2>12. WorkerFollows'
    <3>1. Follows(k[1], k[2], 1, told)' /\ k[1] \in 1..MaxAttempts
      BY <2>2, <2>6, <2>7, KeysAre
    <3>2. k[1] = task'.attempt /\ k[2] = w'.turn /\ w'.call = 1 /\ told = w'.seen
      BY <1>2, <1>3, <2>1, <2>2, <2>8 DEF Moved
    <3> QED
      BY <3>1, <3>2 DEF WorkerFollows
  <2> QED
    BY <1>1, <1>3, <2>7, <2>8, <2>10, <2>11, <2>12, TurnStep DEF Moved
<1> QED
  BY <1>5, <1>7, <1>8, <1>9 DEF Known

\* The answer of a provider is recorded, unless it is no longer wanted.
LEMMA AnswerKeeps ==
  ASSUME IInv, Answer
  PROVE  IInv'
<1> USE DEF Answer
<1>1. Types /\ At("answer") /\ Within(Asking) /\ Within(Begun) /\ Within(Begun \ {"invoke"})
      /\ Within(Between) /\ ~ At("idle") /\ "result" \in Places
  BY DEF IInv, At, Within, Places, Begun, Between, Asking
<1>2. /\ w.turn \in Turn /\ w.call = 1 /\ w.context > 0 /\ task.attempt > 0
      /\ task.status # "READY"
      /\ invocation[ThisTurn] # None /\ invocation[ThisTurn].status = "RUNNING"
  BY <1>1 DEF IInv, Position, Within
<1>3. ThisTurn \in TurnKey /\ ThisTurn[1] = task.attempt
  BY <1>1, <1>2, ThisIsAKey DEF ThisTurn
<1>4. UNCHANGED <<run, task, tool>> /\ OnlyCapsule
  OBVIOUS
<1>5. \A k \in CallKey : container'[k] # "none" => k \in receipts'
  BY <1>4 DEF IInv, Commands, OnlyCapsule, daemon
<1>6. invocation[ThisTurn] \in Invocations /\ invocation[ThisTurn].result = None
  BY <1>1, <1>2, <1>3, InvocationIs
<1>7. w.result \in Answers \union {<<>>, None}
  BY <1>1, WorkersAre
<1>8. ASSUME NEW i \in Invocations, Record(ThisTurn, i), i.request = invocation[ThisTurn].request,
             i.result # None <=> i.status = "SUCCEEDED"
      PROVE  /\ Receipts' /\ Quiet' /\ InBudget' /\ DoneByItsLastAttempt'
             /\ \A j \in TurnKey : TurnFollows(j)'
             /\ invocation' \in [TurnKey -> Invocations \union {None}]
             /\ invocation'[ThisTurn] = i
             /\ \A j \in TurnKey : invocation'[j] # None =>
                    (invocation'[j].result # None <=> invocation'[j].status = "SUCCEEDED")
             /\ \A n, c, d : \A a \in 1..MaxAttempts : Follows(a, n, c, d) => Follows(a, n, c, d)'
  <2>1. PICK k : k = ThisTurn
    OBVIOUS
  <2>2. k \in TurnKey /\ Current(k[1])
    BY <1>2, <1>3, <2>1 DEF Current
  <2>3. Record(k, i) /\ invocation[k] # None /\ invocation[k].status = "RUNNING"
        /\ i.request = invocation[k].request
    BY <1>2, <1>8, <2>1
  <2> QED
    BY <1>4, <1>8, <2>1, <2>2, <2>3, TurnRecorded DEF OnlyCapsule, daemon, external
<1>9. ASSUME NEW i \in Invocations, Record(ThisTurn, i), i.request = invocation[ThisTurn].request,
             i.result # None <=> i.status = "SUCCEEDED", Fail
      PROVE  IInv'
  <2>1. w' \in Workers /\ w'.at = "failed"
    BY <1>1, <1>9, WorkersAre DEF Fail, Idle, Workers, Places
  <2>2. Position' /\ Commands' /\ WorkerFollows'
    BY <1>5, <2>1, AtRest
  <2> QED
    BY <1>1, <1>4, <1>8, <1>9, <2>1, <2>2, TurnStep
<1>10. CASE /\ Active /\ w.result # None
            /\ Record(ThisTurn, [invocation[ThisTurn] EXCEPT !.status = "SUCCEEDED",
                                                             !.result = w.result])
            /\ IF w.cancelled THEN Fail ELSE w' = [w EXCEPT !.at = "result", !.result = None]
  <2>1. PICK i : i = [invocation[ThisTurn] EXCEPT !.status = "SUCCEEDED", !.result = w.result]
    OBVIOUS
  <2>2. i \in Invocations /\ i.request = invocation[ThisTurn].request
        /\ i.status = "SUCCEEDED" /\ i.result # None /\ i # None
    BY <1>6, <1>7, <1>10, <2>1, MarkAssumption DEF Invocations
  <2>3. Record(ThisTurn, i)
    BY <1>10, <2>1
  <2>4. CASE w.cancelled
    BY <1>9, <1>10, <2>2, <2>3, <2>4
  <2>5. CASE ~ w.cancelled
    <3>1. Moved(w') /\ w'.at = "result"
      BY <1>1, <1>10, <2>5, WorkersAre DEF Moved, Workers
    <3>2. ThisTurn' = ThisTurn /\ invocation'[ThisTurn] = i
      BY <1>4, <1>8, <2>2, <2>3, <3>1 DEF ThisTurn, Moved
    <3>3. Position'
      BY <1>2, <1>4, <2>2, <3>1, <3>2
         DEF Position, Moved, Within, At, Begun, Between, Asking, Calling, Called, Sandbox
    <3>4. Commands'
      BY <1>1, <1>4, <3>1 DEF IInv, OnlyCapsule, daemon, Commands, Within, At, Between, Asking,
                              Sandbox
    <3>5. WorkerFollows'
      <4>1. PICK a, n, c, d : a = task.attempt /\ n = w.turn /\ c = w.call /\ d = w.seen
        OBVIOUS
      <4>2. Follows(a, n, c, d) /\ a \in 1..MaxAttempts
        BY <1>1, <1>2, <4>1, KeysAre DEF IInv, Turns, WorkerFollows, Types
      <4>3. Follows(a, n, c, d)'
        BY <1>8, <2>2, <2>3, <4>2
      <4>4. a = task'.attempt /\ n = w'.turn /\ c = w'.call /\ d = w'.seen
        BY <1>4, <3>1, <4>1 DEF Moved
      <4> QED
        BY <4>3, <4>4 DEF WorkerFollows
    <3> QED
      BY <1>1, <1>4, <1>8, <2>2, <2>3, <3>1, <3>3, <3>4, <3>5, TurnStep DEF Moved
  <2> QED
    BY <2>4, <2>5
<1>11. CASE /\ \E status \in {"FAILED", "CANCELLED"} :
                   Record(ThisTurn, [invocation[ThisTurn] EXCEPT !.status = status])
            /\ Fail
  <2>1. PICK status \in {"FAILED", "CANCELLED"} :
            Record(ThisTurn, [invocation[ThisTurn] EXCEPT !.status = status])
    BY <1>11
  <2>2. PICK i : i = [invocation[ThisTurn] EXCEPT !.status = status]
    OBVIOUS
  <2>3. i \in Invocations /\ i.request = invocation[ThisTurn].request
        /\ i.status = status /\ i.result = None
    BY <1>6, <2>2 DEF Invocations
  <2> QED
    BY <1>9, <1>11, <2>1, <2>2, <2>3
<1> QED
  BY <1>2, <1>10, <1>11

-----------------------------------------------------------------------------
(* A call and its receipt. *)

\* A call without an outcome gets a receipt, or its outcome: no turn follows it yet.
LEMMA CallRecorded ==
  ASSUME IInv, NEW k \in CallKey, NEW status \in {"RUNNING", "SUCCEEDED", "FAILED"},
         Save(k, status), UNCHANGED <<task, invocation, container, history, reported>>,
         tool[k] = None \/ tool[k] = [status |-> "RUNNING"],
         Current(k[1][1]),
         invocation[k[1]] # None, invocation[k[1]].status = "SUCCEEDED",
         k[2] <= Len(invocation[k[1]].result)
  PROVE  /\ Receipts' /\ Quiet' /\ DoneByItsLastAttempt'
         /\ \A j \in TurnKey : TurnFollows(j)'
         /\ tool' \in [CallKey -> ToolCalls \union {None}]
         /\ tool'[k] = [status |-> status] /\ tool'[k] # None
         /\ \A j \in CallKey : j # k => tool'[j] = tool[j]
<1> USE DEF history, Save
<1>1. /\ tool' \in [CallKey -> ToolCalls \union {None}]
      /\ tool'[k] = [status |-> status] /\ tool'[k] # None
      /\ \A j \in CallKey : j # k => tool'[j] = tool[j]
  BY SavedIs DEF IInv, Types
<1>2. Receipts'
  BY <1>1 DEF IInv, Receipts
<1>3. Quiet'
  BY <1>1 DEF IInv, Quiet, Current
<1>4. DoneByItsLastAttempt'
  BY DEF IInv, DoneByItsLastAttempt
<1>5. ASSUME NEW j \in TurnKey
      PROVE  TurnFollows(j)'
  <2>1. CASE invocation[j] = None
    BY <2>1 DEF TurnFollows
  <2>2. CASE invocation[j] # None
    <3>1. PICK told : told = invocation[j].request.observations
      OBVIOUS
    <3>2. Follows(j[1], j[2], 1, told)
      BY <2>2, <3>1 DEF IInv, Turns, TurnFollows
    <3>3. j[1] \in 1..MaxAttempts /\ j[2] \in Turn
      BY KeysAre
    <3>4. ~ Before(k, j[1], j[2], 1)
      <4> SUFFICES ASSUME Before(k, j[1], j[2], 1) PROVE FALSE
        OBVIOUS
      <4>1. k[1] = <<j[1], k[1][2]>> /\ k[1][2] \in Turn /\ k[1][2] < j[2]
            /\ k[2] \in 1..Longest /\ k = <<k[1], k[2]>>
        BY KeysAre DEF Before
      <4>2. tool[k] # None
        <5>1. invocation[<<j[1], k[1][2]>>] # None
              /\ \A c \in 1..Len(invocation[<<j[1], k[1][2]>>].result) :
                     tool[<<<<j[1], k[1][2]>>, c>>] # None
          BY <3>2, <4>1 DEF Follows, Complete
        <5>2. Len(invocation[k[1]].result) \in Nat
          BY KeysAre, InvocationIs, ResultsAre DEF IInv
        <5>3. k[2] \in 1..Len(invocation[k[1]].result)
          BY <4>1, <5>2, KeysAre
        <5> QED
          BY <4>1, <5>1, <5>3
      <4>3. k \in CallsBefore(j[1], j[2], 1)
        BY <4>2 DEF CallsBefore
      <4>4. Observed(tool[k])
        BY <3>2, <4>3 DEF Follows, Tells
      <4> QED
        BY <4>2, <4>4 DEF Observed
    <3>5. \A i \in CallKey : Before(i, j[1], j[2], 1) => tool'[i] = tool[i]
      BY <1>1, <3>4
    <3>6. Complete(j[1], j[2])'
      <4> SUFFICES ASSUME NEW u \in Turn, u < j[2],
                          NEW c \in 1..Len(invocation[<<j[1], u>>].result)
                   PROVE  /\ invocation[<<j[1], u>>] # None
                          /\ invocation[<<j[1], u>>].status = "SUCCEEDED"
                          /\ tool'[<<<<j[1], u>>, c>>] # None
        BY <3>2 DEF Follows, Complete
      <4>1. /\ invocation[<<j[1], u>>] # None /\ invocation[<<j[1], u>>].status = "SUCCEEDED"
            /\ tool[<<<<j[1], u>>, c>>] # None
        BY <3>2 DEF Follows, Complete
      <4>2. <<j[1], u>> \in TurnKey
        BY <3>3, KeysAre
      <4>3. Len(invocation[<<j[1], u>>].result) \in 0..Longest
        BY <4>1, <4>2, InvocationIs, ResultsAre DEF IInv
      <4>4. <<<<j[1], u>>, c>> \in CallKey
        BY <4>2, <4>3, KeysAre
      <4> QED
        BY <1>1, <4>1, <4>4
    <3>7. Follows(j[1], j[2], 1, told)'
      BY <3>2, <3>5, <3>6, FollowsOn
    <3> QED
      BY <2>2, <3>1, <3>7 DEF TurnFollows
  <2> QED
    BY <2>1, <2>2
<1> QED
  BY <1>1, <1>2, <1>3, <1>4, <1>5

\* Of a call there is a result that asks for it.
LEMMA CallingIs ==
  ASSUME IInv, Within(Calling)
  PROVE  /\ ThisTurn \in TurnKey /\ ThisCall \in CallKey
         /\ ThisTurn = <<task.attempt, w.turn>> /\ ThisCall = <<ThisTurn, w.call>>
         /\ w.turn \in Turn /\ task.attempt \in 1..MaxAttempts /\ w.context > 0
         /\ task.status # "READY" /\ Current(ThisCall[1][1])
         /\ invocation[ThisTurn] # None /\ invocation[ThisTurn].status = "SUCCEEDED"
         /\ w.call \in 1..Len(Calls) /\ Len(Calls) \in 1..Longest
         /\ \A c \in 1..w.call - 1 : tool[<<ThisTurn, c>>] # None
<1>1. Within(Begun) /\ Within({"begin"} \union Begun) /\ Within({"finish"} \union Begun)
      /\ Within(Begun \ {"invoke"}) /\ ~ Within(Asking)
  BY DEF Within, Begun, Between, Calling, Called, Sandbox, Asking
<1>2. /\ w.turn \in Turn /\ task.attempt > 0 /\ w.context > 0 /\ task.status # "READY"
      /\ invocation[ThisTurn] # None /\ invocation[ThisTurn].status = "SUCCEEDED"
      /\ w.call <= Len(Calls)
      /\ \A c \in 1..w.call - 1 : tool[<<ThisTurn, c>>] # None
  BY <1>1 DEF IInv, Position
<1>3. ThisTurn \in TurnKey /\ ThisCall \in CallKey
  BY <1>2, ThisIsAKey DEF IInv
<1>4. Len(Calls) \in 0..Longest
  BY <1>2, <1>3, InvocationIs, ResultsAre DEF IInv, Calls
<1>5. w.call \in 1..Longest /\ task.attempt \in 1..MaxAttempts
  BY <1>2, KeysAre, WorkersAre DEF IInv, Types
<1> QED
  BY <1>2, <1>3, <1>4, <1>5, KeysAre DEF ThisTurn, ThisCall, Current

\* One more call with an outcome: the next call follows, and after the last the next turn.
LEMMA OneCallOn ==
  ASSUME IInv, NEW a \in 1..MaxAttempts, NEW n \in Turn, NEW c \in 1..Longest,
         NEW seen \in Seq(BOOLEAN), NEW passed \in BOOLEAN, NEW k \in CallKey,
         k = <<<<a, n>>, c>>,
         Follows(a, n, c, seen), UNCHANGED invocation,
         invocation[<<a, n>>] # None, invocation[<<a, n>>].status = "SUCCEEDED",
         c <= Len(invocation[<<a, n>>].result),
         \A d \in 1..c - 1 : tool[<<<<a, n>>, d>>] # None,
         tool'[k] # None, Observed(tool'[k]), passed = (tool'[k].status = "SUCCEEDED"),
         \A j \in CallKey : j # k => tool'[j] = tool[j]
  PROVE  /\ Follows(a, n, c + 1, Append(seen, passed))'
         /\ c = Len(invocation[<<a, n>>].result) => Follows(a, n + 1, 1, Append(seen, passed))'
<1> DEFINE old == CallsBefore(a, n, c)
           new == old \union {k}
<1>1. Types /\ a \in Int /\ n \in Int /\ c \in Int
  BY KeysAre DEF IInv, Turn
<1>2. \A j \in CallKey : /\ j = <<<<j[1][1], j[1][2]>>, j[2]>>
                         /\ j[1] \in TurnKey /\ j[1][2] \in Int /\ j[2] \in Int /\ j[2] > 0
  BY KeysAre DEF Turn
<1>3. <<a, n>> \in TurnKey
  BY KeysAre
<1>4. Complete(a, n) /\ Tells(seen, old, tool)
  BY DEF Follows
<1>5. k \notin old /\ old \in SUBSET CallKey
  BY <1>1 DEF CallsBefore, Before
<1>6. Tells(Append(seen, passed), new, tool')
  <2>1. Tells(seen, old, tool')
    <3>1. \A j \in old : tool[j] = tool'[j]
      BY <1>5
    <3> QED
      BY <1>4, <3>1, ToldAgain
  <2>2. \A j \in old : j[1][2] < k[1][2] \/ (j[1][2] = k[1][2] /\ j[2] < k[2])
    BY DEF CallsBefore, Before
  <2> HIDE DEF old
  <2> QED
    BY <1>5, <2>1, <2>2, OneMoreIsTold
<1>7. ASSUME NEW u \in Turn, u < n
      PROVE  /\ invocation[<<a, u>>] # None /\ invocation[<<a, u>>].status = "SUCCEEDED"
             /\ \A d \in 1..Len(invocation[<<a, u>>].result) : tool'[<<<<a, u>>, d>>] # None
  <2>1. /\ invocation[<<a, u>>] # None /\ invocation[<<a, u>>].status = "SUCCEEDED"
        /\ \A d \in 1..Len(invocation[<<a, u>>].result) : tool[<<<<a, u>>, d>>] # None
    BY <1>4, <1>7 DEF Complete
  <2>2. <<a, u>> \in TurnKey
    BY KeysAre
  <2>3. Len(invocation[<<a, u>>].result) \in 0..Longest
    BY <1>1, <2>1, <2>2, InvocationIs, ResultsAre
  <2>4. \A d \in 1..Len(invocation[<<a, u>>].result) : <<<<a, u>>, d>> \in CallKey
    BY <2>2, <2>3, KeysAre
  <2> QED
    BY <2>1, <2>4
<1>8. Complete(a, n)'
  BY <1>7 DEF Complete
<1>9. \A j \in CallKey : j \in new <=>
          /\ j[1][1] = a /\ (j[1][2] < n \/ (j[1][2] = n /\ j[2] <= c))
          /\ tool'[j] # None
  <2> SUFFICES ASSUME NEW j \in CallKey
               PROVE  j \in new <=>
                        /\ j[1][1] = a /\ (j[1][2] < n \/ (j[1][2] = n /\ j[2] <= c))
                        /\ tool'[j] # None
    OBVIOUS
  <2>1. CASE j = k
    BY <1>1, <2>1
  <2>2. CASE j # k
    <3>1. j[1][1] = a /\ j[1][2] = n => j[2] # c
      BY <1>2, <2>2
    <3>2. (j[1][2] = n /\ j[2] <= c) <=> (j[1][2] = n /\ (j[2] < c \/ j[2] = c))
      BY <1>1, <1>2
    <3>3. tool'[j] = tool[j] /\ (j \in new <=> j \in old)
      BY <2>2
    <3> QED
      BY <3>1, <3>2, <3>3 DEF CallsBefore, Before
  <2> QED
    BY <2>1, <2>2
<1>10. Follows(a, n, c + 1, Append(seen, passed))'
  <2>1. \A j \in CallKey : j[2] < c + 1 <=> j[2] <= c
    BY <1>1, <1>2
  <2>2. CallsBefore(a, n, c + 1)' = new
    BY <1>5, <1>9, <2>1 DEF CallsBefore, Before
  <2> HIDE DEF new
  <2> QED
    BY <1>6, <1>8, <2>2 DEF Follows
<1>11. ASSUME c = Len(invocation[<<a, n>>].result)
       PROVE  Follows(a, n + 1, 1, Append(seen, passed))'
  <2>1. \A d \in 1..c : tool'[<<<<a, n>>, d>>] # None
    <3> SUFFICES ASSUME NEW d \in 1..c PROVE tool'[<<<<a, n>>, d>>] # None
      OBVIOUS
    <3>1. <<<<a, n>>, d>> \in CallKey /\ (d \in 1..c - 1 \/ d = c)
      BY <1>1, <1>3, KeysAre
    <3> QED
      BY <3>1
  <2>2. Complete(a, n + 1)'
    <3> SUFFICES ASSUME NEW u \in Turn, u < n + 1
                 PROVE  /\ invocation[<<a, u>>] # None /\ invocation[<<a, u>>].status = "SUCCEEDED"
                        /\ \A d \in 1..Len(invocation[<<a, u>>].result) :
                               tool'[<<<<a, u>>, d>>] # None
      BY DEF Complete
    <3>1. u < n \/ u = n
      BY <1>1 DEF Turn
    <3> QED
      BY <1>7, <1>11, <2>1, <3>1
  <2>3. \A j \in CallKey : tool'[j] # None /\ j[1][1] = a /\ j[1][2] = n => j[2] <= c
    <3> SUFFICES ASSUME NEW j \in CallKey, tool'[j] # None, j[1][1] = a, j[1][2] = n
                 PROVE  j[2] <= c
      OBVIOUS
    <3>1. CASE j = k
      BY <1>1, <3>1
    <3>2. CASE j # k
      <4>1. tool[j] # None /\ j[1] = <<a, n>>
        BY <1>2, <3>2
      <4> QED
        BY <1>11, <4>1 DEF IInv, Receipts
    <3> QED
      BY <3>1, <3>2
  <2>4. \A j \in CallKey : j[1][2] < n + 1 \/ (j[1][2] = n + 1 /\ j[2] < 1)
                            <=> j[1][2] < n \/ j[1][2] = n
    BY <1>1, <1>2
  <2>5. CallsBefore(a, n + 1, 1)' = new
    <3>1. \A j \in CallKey : j \in new <=>
              /\ j[1][1] = a /\ (j[1][2] < n + 1 \/ (j[1][2] = n + 1 /\ j[2] < 1))
              /\ tool'[j] # None
      BY <1>9, <2>3, <2>4
    <3> QED
      BY <1>5, <3>1 DEF CallsBefore, Before
  <2> HIDE DEF new
  <2> QED
    BY <1>6, <2>2, <2>5 DEF Follows
<1> QED
  BY <1>10, <1>11

\* After a call with an outcome the process goes to the next call or turn, and knows one more
\* observation.
LEMMA AfterGoesOn ==
  ASSUME IInv, Within(Calling), NEW passed \in BOOLEAN, After(passed),
         UNCHANGED <<task, invocation>>,
         tool'[ThisCall] # None, Observed(tool'[ThisCall]),
         passed = (tool'[ThisCall].status = "SUCCEEDED"),
         \A k \in CallKey : k # ThisCall => tool'[k] = tool[k],
         \A k \in receipts' : tool'[k] = [status |-> "FAILED"],
         \A k \in CallKey : container'[k] # "none" => k \in receipts'
  PROVE  w' \in Workers /\ Position' /\ Commands' /\ WorkerFollows'
<1>1. Types /\ Within(Begun) /\ "tool" \in Places /\ "invoke" \in Places /\ "failed" \in Places
  BY DEF IInv, Within, Begun, Places, Between, Calling
<1>2. PICK a, n, c, seen, k : /\ a = task.attempt /\ n = w.turn /\ c = w.call /\ seen = w.seen
                              /\ k = ThisCall
  OBVIOUS
<1>3. /\ a \in 1..MaxAttempts /\ n \in Turn /\ c \in 1..Longest /\ c \in 1..Len(Calls)
      /\ Len(Calls) \in 1..Longest /\ k \in CallKey /\ k = <<<<a, n>>, c>>
      /\ ThisTurn = <<a, n>> /\ w.context > 0 /\ task.status # "READY"
      /\ invocation[<<a, n>>] # None /\ invocation[<<a, n>>].status = "SUCCEEDED"
      /\ \A d \in 1..c - 1 : tool[<<<<a, n>>, d>>] # None
  BY <1>1, <1>2, CallingIs, WorkersAre
<1>4. seen \in Seq(BOOLEAN) /\ Follows(a, n, c, seen)
  BY <1>1, <1>2, WorkersAre DEF IInv, Turns, WorkerFollows
<1>5. Calls = invocation[<<a, n>>].result /\ c <= Len(invocation[<<a, n>>].result)
  BY <1>3 DEF Calls
<1>6. /\ Follows(a, n, c + 1, Append(seen, passed))'
      /\ c = Len(Calls) => Follows(a, n + 1, 1, Append(seen, passed))'
  <2>1. /\ tool'[k] # None /\ Observed(tool'[k]) /\ passed = (tool'[k].status = "SUCCEEDED")
        /\ \A j \in CallKey : j # k => tool'[j] = tool[j]
    BY <1>2
  <2> QED
    BY <1>3, <1>4, <1>5, <2>1, OneCallOn
<1>7. Append(seen, passed) \in Seq(BOOLEAN)
  BY <1>4
<1>8. CASE w.cancelled
  <2>1. w' = [Idle EXCEPT !.at = "failed"] /\ w'.at = "failed"
    BY <1>8 DEF After, Idle
  <2>2. w' \in Workers
    BY <1>1, <2>1, WorkersAre DEF Idle, Workers
  <2>3. Position' /\ Commands' /\ WorkerFollows'
    BY <2>1, AtRest
  <2> QED
    BY <2>2, <2>3
<1>9. CASE ~ w.cancelled /\ w.call < Len(Calls)
  <2>1. w' = [w EXCEPT !.at = "tool", !.call = @ + 1, !.seen = Append(@, passed)]
    BY <1>9 DEF After
  <2>2. /\ w'.at = "tool" /\ w'.call = c + 1 /\ w'.seen = Append(seen, passed) /\ w'.turn = n
        /\ w'.context = w.context /\ w' \in Workers
    <3>1. c + 1 \in 1..Longest
      BY <1>2, <1>3, <1>9, KeysAre
    <3> QED
      BY <1>1, <1>2, <1>7, <2>1, <3>1, WorkersAre DEF Workers
  <2>3. ThisTurn' = <<a, n>> /\ Calls' = Calls
    BY <1>2, <1>3, <2>2 DEF ThisTurn, Calls
  <2>4. \A d \in 1..c : tool'[<<<<a, n>>, d>>] # None
    <3> SUFFICES ASSUME NEW d \in 1..c PROVE tool'[<<<<a, n>>, d>>] # None
      OBVIOUS
    <3>1. <<<<a, n>>, d>> \in CallKey /\ (d \in 1..c - 1 \/ d = c)
      BY <1>3, KeysAre
    <3> QED
      BY <1>2, <1>3, <3>1
  <2>5. w'.call <= Len(Calls) /\ w'.call - 1 = c
    BY <1>2, <1>3, <1>9, <2>2
  <2>6. Position'
    BY <1>2, <1>3, <2>2, <2>3, <2>4, <2>5, KeysAre
       DEF Position, Within, At, Begun, Between, Asking, Calling, Called, Sandbox
  <2>7. Commands'
    BY <2>2 DEF Commands, Within, At, Begun, Between, Asking, Calling, Called, Sandbox
  <2>8. WorkerFollows'
    BY <1>2, <1>6, <2>2 DEF WorkerFollows
  <2> QED
    BY <2>2, <2>6, <2>7, <2>8
<1>10. CASE ~ w.cancelled /\ ~ (w.call < Len(Calls))
  <2>1. w' = [w EXCEPT !.at = "invoke", !.turn = @ + 1, !.call = 1, !.seen = Append(@, passed)]
    BY <1>10 DEF After
  <2>2. /\ w'.at = "invoke" /\ w'.call = 1 /\ w'.seen = Append(seen, passed) /\ w'.turn = n + 1
        /\ w'.context = w.context /\ w' \in Workers
    <3>1. n + 1 \in 0..MaxTurns /\ 1 \in 1..Longest
      BY <1>3, KeysAre DEF Turn
    <3> QED
      BY <1>1, <1>2, <1>7, <2>1, <3>1, WorkersAre DEF Workers
  <2>3. c = Len(Calls)
    BY <1>2, <1>3, <1>10
  <2>4. Position'
    BY <1>2, <1>3, <2>2, KeysAre
       DEF Position, Within, At, Begun, Between, Asking, Calling, Called, Sandbox
  <2>5. Commands'
    BY <2>2 DEF Commands, Within, At, Begun, Between, Asking, Calling, Called, Sandbox
  <2>6. WorkerFollows'
    BY <1>2, <1>6, <2>2, <2>3 DEF WorkerFollows
  <2> QED
    BY <2>2, <2>4, <2>5, <2>6
<1> QED
  BY <1>8, <1>9, <1>10

\* The process when a call has got its receipt or outcome, or is found to have one.
LEMMA CallStep ==
  ASSUME IInv, UNCHANGED <<run, task, invocation>>, OnlyCapsule, ~ At("idle"),
         Receipts', Quiet', InBudget', DoneByItsLastAttempt', \A j \in TurnKey : TurnFollows(j)',
         tool' \in [CallKey -> ToolCalls \union {None}],
         w' \in Workers, Position', Commands', WorkerFollows'
  PROVE  IInv'
<1> USE DEF OnlyCapsule, daemon, history, external
<1>1. x.at = "idle"
  BY DEF IInv, Ownership
<1>2. Types'
  BY DEF IInv, Types
<1>3. Ownership' /\ Handouts'
  BY <1>1 DEF IInv, Ownership, Handouts, At
<1> QED
  BY <1>2, <1>3 DEF IInv, Turns

\* A tool call is begun, replayed, or refused: its receipt comes before its effect.
LEMMA BeginToolKeeps ==
  ASSUME IInv, BeginTool
  PROVE  IInv'
<1> USE DEF BeginTool
<1>1. Types /\ At("tool") /\ Within(Calling) /\ Within(Begun) /\ ~ At("idle")
      /\ "dispatch" \in Places
  BY DEF IInv, At, Within, Places, Begun, Calling, Called
<1>2. UNCHANGED <<run, task, invocation>> /\ OnlyCapsule
  OBVIOUS
<1>3. \A k \in CallKey : container'[k] # "none" => k \in receipts'
  BY <1>2 DEF IInv, Commands, OnlyCapsule, daemon
<1>4. \A k \in receipts' : k \in CallKey /\ tool[k] = [status |-> "FAILED"]
  BY <1>1, <1>2 DEF IInv, Types, Commands, Within, At, OnlyCapsule, daemon
<1>5. /\ ThisTurn \in TurnKey /\ ThisCall \in CallKey
      /\ ThisTurn = <<task.attempt, w.turn>> /\ ThisCall = <<ThisTurn, w.call>>
      /\ w.turn \in Turn /\ task.attempt \in 1..MaxAttempts /\ w.context > 0
      /\ task.status # "READY" /\ Current(ThisCall[1][1])
      /\ invocation[ThisTurn] # None /\ invocation[ThisTurn].status = "SUCCEEDED"
      /\ w.call \in 1..Len(Calls) /\ Len(Calls) \in 1..Longest
      /\ \A c \in 1..w.call - 1 : tool[<<ThisTurn, c>>] # None
  BY <1>1, CallingIs
<1>6. CASE UNCHANGED tool /\ Fail
  BY <1>1, <1>2, <1>6, GivingUpKeeps DEF capsule, daemon, OnlyCapsule, Types, At
<1>7. CASE /\ tool[ThisCall] # None /\ UNCHANGED tool /\ Observed(tool[ThisCall])
           /\ After(tool[ThisCall].status = "SUCCEEDED")
  <2>1. PICK passed \in BOOLEAN : passed = (tool[ThisCall].status = "SUCCEEDED")
    OBVIOUS
  <2>2. w' \in Workers /\ Position' /\ Commands' /\ WorkerFollows'
    <3>1. After(passed)
      BY <1>7, <2>1 DEF After
    <3>2. tool' = tool
      BY <1>7
    <3>3. \A k \in receipts' : tool'[k] = [status |-> "FAILED"]
      BY <1>4, <3>2
    <3>4. passed = (tool'[ThisCall].status = "SUCCEEDED")
      BY <2>1, <3>2
    <3>5. tool'[ThisCall] # None /\ Observed(tool'[ThisCall])
      BY <1>7, <3>2
    <3>6. \A k \in CallKey : k # ThisCall => tool'[k] = tool[k]
      BY <3>2
    <3>7. UNCHANGED <<task, invocation>>
      BY <1>2
    <3> QED
      BY <1>1, <1>3, <3>1, <3>3, <3>4, <3>5, <3>6, <3>7, AfterGoesOn
  <2>3. x.at = "idle"
    BY <1>1 DEF IInv, Ownership
  <2>4. Types'
    BY <1>1, <1>2, <1>7, <2>2 DEF Types, OnlyCapsule, daemon, history, external
  <2> QED
    BY <1>2, <1>7, <2>2, <2>3, <2>4, OnlyTheProcess DEF capsule, OnlyCapsule, daemon
<1>8. CASE /\ tool[ThisCall] = None /\ Active /\ Budget
           /\ Save(ThisCall, "RUNNING") /\ Goto("dispatch")
  <2>1. PICK k : k = ThisCall
    OBVIOUS
  <2>2. k \in CallKey /\ Save(k, "RUNNING") /\ tool[k] = None /\ Current(k[1][1])
        /\ k[1] = ThisTurn /\ k[1][1] = task.attempt
        /\ k[2] <= Len(invocation[k[1]].result)
    BY <1>5, <1>8, <2>1 DEF Calls
  <2>3. /\ Receipts' /\ Quiet' /\ DoneByItsLastAttempt'
        /\ \A j \in TurnKey : TurnFollows(j)'
        /\ tool' \in [CallKey -> ToolCalls \union {None}]
        /\ tool'[k] = [status |-> "RUNNING"] /\ tool'[k] # None
        /\ \A j \in CallKey : j # k => tool'[j] = tool[j]
    BY <1>2, <1>5, <2>2, CallRecorded DEF OnlyCapsule, daemon, external
  <2>4. Moved(w') /\ w'.at = "dispatch"
    BY <1>1, <1>8, GotoMoves
  <2>5. ThisTurn' = ThisTurn /\ ThisCall' = ThisCall /\ Calls' = Calls
    BY <1>2, <2>4, SameReceipts
  <2>6. effects[k] = 0 /\ effects' = effects
    BY <1>2, <2>2 DEF IInv, Receipts, OnlyCapsule, history
  <2>7. \A c \in 1..w.call - 1 : tool'[<<ThisTurn, c>>] # None
    <3> SUFFICES ASSUME NEW c \in 1..w.call - 1 PROVE tool'[<<ThisTurn, c>>] # None
      OBVIOUS
    <3>1. <<ThisTurn, c>> \in CallKey
      BY <1>5, KeysAre
    <3> QED
      BY <1>5, <2>3, <3>1
  <2>8. Position'
    BY <1>2, <1>5, <2>1, <2>3, <2>4, <2>5, <2>6, <2>7, KeysAre
       DEF Position, Moved, Within, At, Begun, Between, Asking, Calling, Called, Sandbox
  <2>9. Commands'
    <3>1. \A j \in receipts' : tool'[j] = [status |-> "FAILED"]
      BY <1>4, <2>2, <2>3, SavedIs
    <3> QED
      BY <1>3, <2>4, <3>1 DEF Commands, Within, At, Between, Asking, Sandbox
  <2>10. WorkerFollows'
    <3>1. PICK a, n, c, d : a = task.attempt /\ n = w.turn /\ c = w.call /\ d = w.seen
      OBVIOUS
    <3>2. Follows(a, n, c, d) /\ n \in Int /\ c \in Int
      BY <1>1, <1>5, <3>1, KeysAre DEF IInv, Turns, WorkerFollows, Turn
    <3>3. Complete(a, n)'
      <4> SUFFICES ASSUME NEW u \in Turn, u < n,
                          NEW e \in 1..Len(invocation[<<a, u>>].result)
                   PROVE  /\ invocation[<<a, u>>] # None
                          /\ invocation[<<a, u>>].status = "SUCCEEDED"
                          /\ tool'[<<<<a, u>>, e>>] # None
        BY <1>2, <3>2 DEF Follows, Complete
      <4>1. /\ invocation[<<a, u>>] # None /\ invocation[<<a, u>>].status = "SUCCEEDED"
            /\ tool[<<<<a, u>>, e>>] # None
        BY <3>2 DEF Follows, Complete
      <4>2. <<a, u>> \in TurnKey
        BY <1>5, <3>1, KeysAre
      <4>3. Len(invocation[<<a, u>>].result) \in 0..Longest
        BY <1>1, <4>1, <4>2, InvocationIs, ResultsAre
      <4>4. <<<<a, u>>, e>> \in CallKey
        BY <4>2, <4>3, KeysAre
      <4> QED
        BY <2>3, <4>1, <4>4
    <3>4. \A j \in CallKey : Before(j, a, n, c) => tool'[j] = tool[j]
      <4>1. ~ Before(k, a, n, c)
        BY <1>5, <2>1, <3>1, <3>2 DEF Before
      <4> QED
        BY <2>3, <4>1
    <3>5. Follows(a, n, c, d)'
      BY <3>2, <3>3, <3>4, FollowsOn
    <3> QED
      BY <1>2, <2>4, <3>1, <3>5 DEF WorkerFollows, Moved
  <2>11. InBudget'
    <3>1. CallsMade' = CallsMade \union {k}
      BY <1>2, <2>2, <2>3 DEF CallsMade
    <3>2. CallsMade \in SUBSET CallKey /\ k \notin CallsMade
      BY <2>2 DEF CallsMade
    <3>3. IsFiniteSet(CallsMade) /\ Cardinality(CallsMade) \in Nat
      BY <3>2, CallsAreFinite
    <3>4. Cardinality(CallsMade \union {k}) = Cardinality(CallsMade) + 1
      BY <3>2, <3>3, FS_AddElement
    <3>5. Cardinality(CallsMade) < MaxCalls
      BY <1>8 DEF Budget
    <3>6. Cardinality(CallsMade') <= MaxCalls
      BY <3>1, <3>3, <3>4, <3>5, KeysAre
    <3> QED
      BY <3>6 DEF InBudget
  <2> QED
    BY <1>1, <1>2, <2>3, <2>4, <2>8, <2>9, <2>10, <2>11, CallStep DEF Moved
<1> QED
  BY <1>6, <1>7, <1>8 DEF CarriedOut

\* What came of a tool call is recorded, and the next turn will be told.
LEMMA ObserveKeeps ==
  ASSUME IInv, Observe
  PROVE  IInv'
<1> USE DEF Observe
<1>1. Types /\ At("observe") /\ Within(Called) /\ Within(Calling) /\ Within(Begun) /\ ~ At("idle")
  BY DEF IInv, At, Within, Begun, Calling, Called
<1>2. UNCHANGED <<run, task, invocation>> /\ OnlyCapsule
  OBVIOUS
<1>3. PICK k, passed, status : /\ k = ThisCall /\ passed = w.passed
                               /\ status = IF w.passed THEN "SUCCEEDED" ELSE "FAILED"
  OBVIOUS
<1>4. /\ k \in CallKey /\ tool[k] = [status |-> "RUNNING"] /\ Current(k[1][1])
      /\ invocation[k[1]] # None /\ invocation[k[1]].status = "SUCCEEDED"
      /\ k[2] <= Len(invocation[k[1]].result)
  BY <1>1, <1>3, CalledIs, CallingIs DEF Calls
<1>5. Save(k, status) /\ After(passed) /\ passed \in BOOLEAN
      /\ status = (IF passed THEN "SUCCEEDED" ELSE "FAILED") /\ status \in {"SUCCEEDED", "FAILED"}
  BY <1>1, <1>3, WorkersAre
<1>6. /\ Receipts' /\ Quiet' /\ DoneByItsLastAttempt'
      /\ \A j \in TurnKey : TurnFollows(j)'
      /\ tool' \in [CallKey -> ToolCalls \union {None}]
      /\ tool'[k] = [status |-> status] /\ tool'[k] # None
      /\ \A j \in CallKey : j # k => tool'[j] = tool[j]
  BY <1>2, <1>4, <1>5, CallRecorded DEF OnlyCapsule, daemon, external
<1>7. \A j \in CallKey : container'[j] # "none" => j \in receipts'
  BY <1>2 DEF IInv, Commands, OnlyCapsule, daemon
<1>8. \A j \in receipts' : tool'[j] = [status |-> "FAILED"]
  <2> SUFFICES ASSUME NEW j \in receipts PROVE tool'[j] = [status |-> "FAILED"]
    BY <1>2 DEF OnlyCapsule, daemon
  <2>1. j \in CallKey /\ (tool[j] = [status |-> "FAILED"] \/ (j = k /\ ~ passed))
    BY <1>1, <1>3 DEF IInv, Types, Commands
  <2>2. CASE j = k
    <3>1. ~ passed
      <4>1. [status |-> "FAILED"] # [status |-> "RUNNING"]
        <5>1. [status |-> "FAILED"].status = "FAILED" /\ [status |-> "RUNNING"].status = "RUNNING"
          OBVIOUS
        <5> QED
          BY <5>1
      <4> QED
        BY <1>4, <2>1, <2>2, <4>1
    <3> QED
      BY <1>5, <1>6, <2>2, <3>1
  <2>3. CASE j # k
    BY <1>6, <2>1, <2>3
  <2> QED
    BY <2>2, <2>3
<1>9. Observed(tool'[k]) /\ passed = (tool'[k].status = "SUCCEEDED")
  BY <1>5, <1>6 DEF Observed
<1>10. w' \in Workers /\ Position' /\ Commands' /\ WorkerFollows'
  <2>1. /\ tool'[ThisCall] # None /\ Observed(tool'[ThisCall])
        /\ passed = (tool'[ThisCall].status = "SUCCEEDED")
        /\ \A j \in CallKey : j # ThisCall => tool'[j] = tool[j]
        /\ UNCHANGED <<task, invocation>>
    BY <1>2, <1>3, <1>6, <1>9
  <2> QED
    BY <1>1, <1>5, <1>7, <1>8, <2>1, AfterGoesOn
<1>11. InBudget'
  <2>1. tool[k] # None
    BY <1>4, SavedIs
  <2>2. CallsMade' = CallsMade
    BY <1>2, <1>6, <2>1 DEF CallsMade
  <2> QED
    BY <2>2 DEF IInv, InBudget
<1> QED
  BY <1>1, <1>2, <1>6, <1>10, <1>11, CallStep

-----------------------------------------------------------------------------
(* Recovery, and the theorems. *)

\* Only receipts without an outcome are changed when an attempt is retired.
LEMMA InterruptedTurns ==
  ASSUME Types, NEW keys, invocation' = Interrupted(invocation, keys)
  PROVE  /\ invocation' \in [TurnKey -> Invocations \union {None}]
         /\ \A k \in TurnKey :
                IF k \in keys /\ invocation[k] # None /\ invocation[k].status = "RUNNING"
                THEN /\ invocation'[k] # None /\ invocation'[k].status = "INTERRUPTED"
                     /\ invocation'[k].result = None
                     /\ invocation'[k].request = invocation[k].request
                ELSE invocation'[k] = invocation[k]
<1>1. DOMAIN invocation = TurnKey
  BY DEF Types
<1>2. invocation' = [k \in TurnKey |-> IF k \in keys /\ invocation[k] # None
                       THEN [invocation[k] EXCEPT !.status = IF @ = "RUNNING" THEN "INTERRUPTED" ELSE @]
                       ELSE invocation[k]]
  BY <1>1 DEF Interrupted
<1>3. ASSUME NEW k \in TurnKey
      PROVE  /\ invocation'[k] \in Invocations \union {None}
             /\ IF k \in keys /\ invocation[k] # None /\ invocation[k].status = "RUNNING"
                THEN /\ invocation'[k] # None /\ invocation'[k].status = "INTERRUPTED"
                     /\ invocation'[k].result = None
                     /\ invocation'[k].request = invocation[k].request
                ELSE invocation'[k] = invocation[k]
  <2>1. CASE ~ (k \in keys /\ invocation[k] # None)
    BY <1>2, <2>1 DEF Types
  <2>2. CASE k \in keys /\ invocation[k] # None
    <3>1. /\ invocation[k] \in Invocations
          /\ invocation'[k] = [invocation[k] EXCEPT !.status =
                                  IF @ = "RUNNING" THEN "INTERRUPTED" ELSE @]
      BY <1>2, <2>2, InvocationIs
    <3>2. CASE invocation[k].status = "RUNNING"
      <4>1. invocation[k].result = None
        BY <2>2, <3>2, InvocationIs
      <4>2. invocation'[k] = [invocation[k] EXCEPT !.status = "INTERRUPTED"]
        BY <3>1, <3>2
      <4>3. invocation'[k] \in Invocations /\ invocation'[k].status = "INTERRUPTED"
            /\ invocation'[k].result = None /\ invocation'[k].request = invocation[k].request
        BY <3>1, <4>1, <4>2 DEF Invocations
      <4> QED
        BY <3>2, <2>2, <4>3, MarkAssumption
    <3>3. CASE invocation[k].status # "RUNNING"
      <4>1. invocation'[k] = invocation[k]
        BY <3>1, <3>3 DEF Invocations
      <4> QED
        BY <3>1, <3>3, <4>1
    <3> QED
      BY <3>2, <3>3
  <2> QED
    BY <2>1, <2>2
<1>4. invocation' \in [TurnKey -> Invocations \union {None}]
  BY <1>2, <1>3
<1> QED
  BY <1>3, <1>4

\* Recovery retires what was under way and leaves the rest of the receipts.
LEMMA InterruptedCalls ==
  ASSUME Types, NEW keys, tool' = Interrupted(tool, keys)
  PROVE  /\ tool' \in [CallKey -> ToolCalls \union {None}]
         /\ \A k \in CallKey :
                IF k \in keys /\ tool[k] = [status |-> "RUNNING"]
                THEN tool'[k] = [status |-> "INTERRUPTED"]
                ELSE tool'[k] = tool[k]
<1>1. DOMAIN tool = CallKey
  BY DEF Types
<1>2. tool' = [k \in CallKey |-> IF k \in keys /\ tool[k] # None
                 THEN [tool[k] EXCEPT !.status = IF @ = "RUNNING" THEN "INTERRUPTED" ELSE @]
                 ELSE tool[k]]
  BY <1>1 DEF Interrupted
<1>3. ASSUME NEW k \in CallKey
      PROVE  /\ tool'[k] \in ToolCalls \union {None}
             /\ IF k \in keys /\ tool[k] = [status |-> "RUNNING"]
                THEN tool'[k] = [status |-> "INTERRUPTED"]
                ELSE tool'[k] = tool[k]
  <2>1. CASE tool[k] = None
    BY <1>2, <2>1, SavedIs
  <2>2. CASE tool[k] # None
    <3>1. PICK s \in {"RUNNING", "SUCCEEDED", "FAILED", "INTERRUPTED"} : tool[k] = [status |-> s]
      BY <2>2, ToolCallIs
    <3>2. tool'[k] = IF k \in keys
                     THEN [status |-> IF s = "RUNNING" THEN "INTERRUPTED" ELSE s]
                     ELSE [status |-> s]
      BY <1>2, <2>2, <3>1
    <3>3. [status |-> s] = [status |-> "RUNNING"] <=> s = "RUNNING"
      <4>1. [status |-> s].status = s /\ [status |-> "RUNNING"].status = "RUNNING"
        OBVIOUS
      <4> QED
        BY <4>1
    <3>4. tool'[k] \in ToolCalls
      BY <3>2, SavedIs
    <3> QED
      BY <3>1, <3>2, <3>3, <3>4
  <2> QED
    BY <2>1, <2>2
<1> QED
  BY <1>2, <1>3

\* An operator takes the task from the attempt under way.
LEMMA RecoverKeeps ==
  ASSUME IInv, Recover
  PROVE  IInv'
<1> USE DEF Recover, Retired, history, external
<1>1. Types /\ w.at = "idle" /\ x.at = "idle" /\ task.attempt < MaxAttempts
      /\ run \in {"EXECUTING", "BLOCKED"} /\ task.status # "READY"
  BY DEF IInv, MayRecover, Unowned, At
<1>2. task' \in [status : {"READY", "RUNNING", "SUCCEEDED", "BLOCKED", "CANCELLED"},
                 attempt : 0..MaxAttempts]
      /\ task'.attempt = task.attempt /\ task'.status = "READY"
  BY <1>1 DEF Types
<1>3. \A k \in CallKey : container'[k] = "none"
  BY DEF IInv, Types, Commands
<1>4. container' \in [CallKey -> {"none", "stopped", "running"}] /\ receipts' \subseteq CallKey
  BY <1>1 DEF Types
<1>5. /\ invocation' \in [TurnKey -> Invocations \union {None}]
      /\ \A k \in TurnKey :
             IF k[1] = task.attempt /\ invocation[k] # None /\ invocation[k].status = "RUNNING"
             THEN /\ invocation'[k] # None /\ invocation'[k].status = "INTERRUPTED"
                  /\ invocation'[k].result = None
                  /\ invocation'[k].request = invocation[k].request
             ELSE invocation'[k] = invocation[k]
  <2>1. PICK keys : keys = {k \in TurnKey : k[1] = task.attempt}
    OBVIOUS
  <2>2. invocation' = Interrupted(invocation, keys)
    BY <2>1
  <2> QED
    BY <1>1, <2>1, <2>2, InterruptedTurns
<1>6. /\ tool' \in [CallKey -> ToolCalls \union {None}]
      /\ \A k \in CallKey :
             IF k[1][1] = task.attempt /\ tool[k] = [status |-> "RUNNING"]
             THEN tool'[k] = [status |-> "INTERRUPTED"] ELSE tool'[k] = tool[k]
  <2>1. PICK keys : keys = {k \in CallKey : k[1][1] = task.attempt}
    OBVIOUS
  <2>2. tool' = Interrupted(tool, keys)
    BY <2>1
  <2> QED
    BY <1>1, <2>1, <2>2, InterruptedCalls
<1>7. \A k \in CallKey : tool'[k] # None <=> tool[k] # None
  BY <1>6, SavedIs
<1>8. \A k \in TurnKey :
          /\ invocation'[k] # None <=> invocation[k] # None
          /\ invocation[k] # None /\ invocation[k].status = "SUCCEEDED"
                 => invocation'[k] = invocation[k]
          /\ invocation[k] # None => invocation'[k].request = invocation[k].request
  BY <1>5
<1>9. Types'
  <2>1. \A k \in TurnKey : invocation'[k] # None =>
            (invocation'[k].result # None <=> invocation'[k].status = "SUCCEEDED")
    BY <1>1, <1>5 DEF Types
  <2> QED
    BY <1>1, <1>2, <1>4, <1>5, <1>6, <2>1 DEF Types
<1>10. Ownership' /\ Handouts'
  BY <1>1, <1>2 DEF Ownership, Handouts, At
<1>11. Receipts'
  <2>1. \A k \in TurnKey : asked'[k] <= 1 /\ (invocation'[k] = None => asked'[k] = 0)
    BY <1>8 DEF IInv, Receipts
  <2>2. \A k \in CallKey : effects'[k] <= 1 /\ (tool'[k] = None => effects'[k] = 0)
    BY <1>7 DEF IInv, Receipts
  <2>3. \A k \in TurnKey : k[1] > task'.attempt => invocation'[k] = None
    BY <1>2, <1>8 DEF IInv, Receipts
  <2>4. \A k \in CallKey : tool'[k] # None =>
            /\ invocation'[k[1]] # None /\ invocation'[k[1]].status = "SUCCEEDED"
            /\ k[2] <= Len(invocation'[k[1]].result)
    BY <1>7, <1>8, KeysAre DEF IInv, Receipts
  <2> QED
    BY <2>1, <2>2, <2>3, <2>4 DEF Receipts
<1>12. Quiet'
  <2>1. \A k \in TurnKey : ~ (invocation'[k] # None /\ invocation'[k].status = "RUNNING")
    BY <1>5 DEF IInv, Quiet, Current
  <2>2. \A k \in CallKey : tool'[k] # [status |-> "RUNNING"]
    <3>1. [status |-> "INTERRUPTED"] # [status |-> "RUNNING"]
      <4>1. [status |-> "INTERRUPTED"].status = "INTERRUPTED"
            /\ [status |-> "RUNNING"].status = "RUNNING"
        OBVIOUS
      <4> QED
        BY <4>1
    <3> QED
      BY <1>6, <3>1 DEF IInv, Quiet, Current
  <2> QED
    BY <1>3, <2>1, <2>2 DEF Quiet
<1>13. Position' /\ Commands' /\ WorkerFollows'
  <2>1. w'.at = "idle" /\ \A k \in CallKey : container'[k] # "none" => k \in receipts'
    BY <1>1, <1>3
  <2> QED
    BY <2>1, AtRest
<1>14. ASSUME NEW j \in TurnKey
       PROVE  TurnFollows(j)'
  <2>1. CASE invocation[j] = None
    BY <1>8, <2>1 DEF TurnFollows
  <2>2. CASE invocation[j] # None
    <3>1. PICK told : told = invocation[j].request.observations
      OBVIOUS
    <3>2. Follows(j[1], j[2], 1, told)
      BY <2>2, <3>1 DEF IInv, Turns, TurnFollows
    <3>3. j[1] \in 1..MaxAttempts /\ j[2] \in Turn
      BY KeysAre
    <3>4. Complete(j[1], j[2])'
      <4> SUFFICES ASSUME NEW u \in Turn, u < j[2]
                   PROVE  /\ invocation'[<<j[1], u>>] # None
                          /\ invocation'[<<j[1], u>>].status = "SUCCEEDED"
                          /\ \A c \in 1..Len(invocation'[<<j[1], u>>].result) :
                                 tool'[<<<<j[1], u>>, c>>] # None
        BY DEF Complete
      <4>1. /\ invocation[<<j[1], u>>] # None /\ invocation[<<j[1], u>>].status = "SUCCEEDED"
            /\ \A c \in 1..Len(invocation[<<j[1], u>>].result) :
                   tool[<<<<j[1], u>>, c>>] # None
        BY <3>2 DEF Follows, Complete
      <4>2. <<j[1], u>> \in TurnKey
        BY <3>3, KeysAre
      <4>3. Len(invocation[<<j[1], u>>].result) \in 0..Longest
        BY <1>1, <4>1, <4>2, InvocationIs, ResultsAre
      <4>4. \A c \in 1..Len(invocation[<<j[1], u>>].result) : <<<<j[1], u>>, c>> \in CallKey
        BY <4>2, <4>3, KeysAre
      <4>5. invocation'[<<j[1], u>>] = invocation[<<j[1], u>>]
        BY <1>8, <4>1, <4>2
      <4> QED
        BY <1>7, <4>1, <4>4, <4>5
    <3>5. \A k \in CallKey : Before(k, j[1], j[2], 1) => tool'[k] = tool[k]
      <4> SUFFICES ASSUME NEW k \in CallKey, Before(k, j[1], j[2], 1),
                          tool[k] = [status |-> "RUNNING"]
                   PROVE  FALSE
        BY <1>6
      <4>1. tool[k] # None
        BY SavedIs
      <4>2. k \in CallsBefore(j[1], j[2], 1)
        BY <4>1 DEF CallsBefore
      <4>3. Observed(tool[k])
        BY <3>2, <4>2 DEF Follows, Tells
      <4> QED
        BY <4>3 DEF Observed
    <3>6. Follows(j[1], j[2], 1, told)'
      BY <3>2, <3>4, <3>5, FollowsOn
    <3>7. told = invocation'[j].request.observations
      BY <1>8, <2>2, <3>1
    <3> QED
      BY <3>6, <3>7 DEF TurnFollows
  <2> QED
    BY <2>1, <2>2
<1>15. InBudget'
  <2>1. CallsMade' = CallsMade
    BY <1>2, <1>7 DEF CallsMade
  <2> QED
    BY <2>1 DEF IInv, InBudget
<1>16. DoneByItsLastAttempt'
  BY <1>2 DEF DoneByItsLastAttempt
<1> QED
  BY <1>9, <1>10, <1>11, <1>12, <1>13, <1>14, <1>15, <1>16 DEF IInv, Turns

\* A task that is ready, and nothing asked or done.
LEMMA Initially ==
  Init => IInv
<1> SUFFICES ASSUME Init PROVE IInv
  OBVIOUS
<1> USE DEF Init
<1>1. 0 \in 0..MaxTurns /\ 1 \in 1..Longest /\ 0 \in 0..MaxContext /\ 1 \in 1..MaxContext
      /\ 0 \in 0..MaxAttempts /\ 0 < MaxAttempts /\ MaxCalls \in Nat
  BY KeysAre
<1>2. w.at = "idle" /\ x.at = "idle" /\ task.status = "READY" /\ task.attempt = 0
  BY DEF Idle
<1>3. \A k \in CallKey : tool[k] = None /\ container[k] = "none" /\ effects[k] = 0
  OBVIOUS
<1>4. \A k \in TurnKey : invocation[k] = None /\ asked[k] = 0
  OBVIOUS
<1>5. Types
  <2>1. w \in Workers
    BY <1>1 DEF Idle, Workers, Places
  <2> QED
    BY <1>1, <2>1 DEF Types
<1>6. Ownership /\ Handouts
  BY <1>1, <1>2 DEF Ownership, Handouts, At
<1>7. Receipts
  BY <1>3, <1>4 DEF Receipts
<1>8. Quiet
  <2>1. \A k \in CallKey : tool[k] # [status |-> "RUNNING"]
    BY <1>3, SavedIs
  <2> QED
    BY <1>3, <1>4, <2>1 DEF Quiet
<1>9. Position /\ Commands
  BY <1>2, <1>3 DEF Position, Commands, Within, At, Between, Asking, Begun, Calling, Called,
                    Sandbox
<1>10. Turns
  BY <1>2, <1>4 DEF Turns, TurnFollows, WorkerFollows, Within, Between, Asking, Begun, Calling,
                    Called, Sandbox
<1>11. InBudget
  <2>1. CallsMade = {}
    BY <1>3 DEF CallsMade
  <2> QED
    BY <1>1, <2>1, FS_EmptySet DEF InBudget
<1>12. DoneByItsLastAttempt
  BY <1>2 DEF DoneByItsLastAttempt
<1> QED
  BY <1>5, <1>6, <1>7, <1>8, <1>9, <1>10, <1>11, <1>12 DEF IInv

\* Nothing happens.
LEMMA StutteringKeeps ==
  ASSUME IInv, UNCHANGED vars
  PROVE  IInv'
<1> USE DEF vars, capsule, daemon, history, external
<1>1. context \in 1..MaxContext /\ container \in [CallKey -> {"none", "stopped", "running"}]
  BY DEF IInv, Types
<1> QED
  BY <1>1, ContainersKeep

\* Every step keeps the invariant.
LEMMA StepKeeps ==
  ASSUME IInv, [Next]_vars
  PROVE  IInv'
<1>1. CASE Execute
  BY <1>1, ExecuteKeeps
<1>2. CASE Work
  <2>1. CASE Reconcile \/ Begin \/ Failed \/ BlockRun \/ \E complete \in BOOLEAN : Finish(complete)
    BY <2>1, ReconcileKeeps, BeginKeeps, FailedKeeps, BlockRunKeeps, FinishKeeps
  <2>2. CASE Invoke \/ Ask \/ GiveUp \/ Answer \/ Result
    BY <2>2, InvokeKeeps, AskKeeps, RespondKeeps, AnswerKeeps, ResultKeeps DEF GiveUp
  <2>3. CASE BeginTool \/ Dispatch \/ Observe
    BY <2>3, BeginToolKeeps, DispatchKeeps, ObserveKeeps
  <2>4. CASE Prepare \/ Create \/ Start \/ Detach \/ Cleanup \/ Unlink
    BY <2>4, PrepareKeeps, CreateKeeps, StartKeeps, DetachKeeps, CleanupKeeps, UnlinkKeeps
  <2> QED
    BY <1>2, <2>1, <2>2, <2>3, <2>4 DEF Work
<1>3. CASE Notice
  BY <1>3, NoticeKeeps
<1>4. CASE Assistant
  BY <1>4, NextWorkKeeps, StartExternalKeeps, AssignKeeps, SettleKeeps, ReportKeeps DEF Assistant
<1>5. CASE Cancel \/ Resume \/ Recover \/ RecoverRefused
  BY <1>5, CancelKeeps, ResumeKeeps, RecoverKeeps, RecoverRefusedKeeps
<1>6. CASE Outside
  <2>1. CASE \E answer \in Answers \union {<<>>} : Respond(answer)
    BY <2>1, RespondKeeps
  <2>2. CASE \E k \in CallKey : Exit(k)
    BY <2>2, ExitKeeps
  <2> QED
    BY <1>6, <2>1, <2>2, LearnKeeps, CrashKeeps DEF Outside
<1>7. CASE UNCHANGED vars
  BY <1>7, StutteringKeeps
<1> QED
  BY <1>1, <1>2, <1>3, <1>4, <1>5, <1>6, <1>7 DEF Next

\* The invariant is one, for every number of turns, calls, attempts and crashes.
THEOREM WorkerInvariant == Spec => []IInv
<1>1. IInv /\ [Next]_vars => IInv'
  BY StepKeeps
<1> QED
  BY Initially, <1>1, PTL DEF Spec

\* No work without an owner: a command that may still run is known, a retired attempt has
\* nothing under way, and what is done was done by the last attempt of its task.
THEOREM WorkHasAnOwner == Spec => []WorkerInv
<1>1. IInv => WorkerInv
  <2> SUFFICES ASSUME IInv PROVE WorkerInv
    OBVIOUS
  <2>1. TypeOK
    BY WorkersAre DEF IInv, Types, InBudget, TypeOK
  <2>2. CommandsAreOwned
    <3> SUFFICES ASSUME NEW k \in CallKey, container[k] # "none"
                 PROVE  /\ k \in receipts
                        /\ w.at \in {"ask", "wait", "tool", "dispatch"} =>
                               tool[k] = [status |-> "FAILED"]
      BY DEF CommandsAreOwned
    <3>1. k \in receipts
      BY DEF IInv, Commands
    <3> QED
      BY <3>1 DEF IInv, Commands, Within, Between, Asking
  <2>3. RetiredAttemptsAreQuiet
    <3> SUFFICES ASSUME NEW a \in 1..MaxAttempts,
                        a < task.attempt \/ (a = task.attempt /\ task.status = "READY")
                 PROVE  /\ \A t \in Turn : invocation[<<a, t>>] # None =>
                               invocation[<<a, t>>].status # "RUNNING"
                        /\ \A k \in CallKey : k[1][1] = a =>
                               /\ container[k] = "none"
                               /\ tool[k] # None => tool[k].status # "RUNNING"
      BY DEF RetiredAttemptsAreQuiet
    <3>1. ~ Current(a)
      BY KeysAre DEF Current, IInv, Types
    <3>2. \A t \in Turn : <<a, t>> \in TurnKey /\ <<a, t>>[1] = a
      BY KeysAre
    <3>3. \A t \in Turn : invocation[<<a, t>>] # None => invocation[<<a, t>>].status # "RUNNING"
      BY <3>1, <3>2 DEF IInv, Quiet
    <3>4. ASSUME NEW k \in CallKey, k[1][1] = a
          PROVE  container[k] = "none" /\ (tool[k] # None => tool[k].status # "RUNNING")
      BY <3>1, <3>4, ToolCallIs DEF IInv, Quiet
    <3> QED
      BY <3>3, <3>4
  <2> QED
    BY <2>1, <2>2, <2>3 DEF IInv, WorkerInv
<1> QED
  BY WorkerInvariant, <1>1, PTL

\* Receipts tell the truth of what the outside world was asked: nothing is done a second time,
\* and a provider hears exactly what came of its earlier turns, whatever died in between.
THEOREM ReceiptsTellTheTruth == Spec => []ReceiptsAreTrue
<1>1. IInv => ReceiptsAreTrue
  <2> SUFFICES ASSUME IInv PROVE ReceiptsAreTrue
    OBVIOUS
  <2>1. EffectsHappenOnce
    BY DEF IInv, Receipts, EffectsHappenOnce
  <2>2. TurnsFollowObservations
    <3> SUFFICES ASSUME NEW a \in 1..MaxAttempts, NEW t \in Turn, invocation[<<a, t>>] # None
                 PROVE  LET told == invocation[<<a, t>>].request.observations
                            before == {u \in Turn : u < t}
                            calls == {k \in CallKey : k[1] \in {<<a, u>> : u \in before}
                                                      /\ tool[k] # None}
                        IN /\ \A u \in before : invocation[<<a, u>>] # None
                                                /\ invocation[<<a, u>>].status = "SUCCEEDED"
                           /\ \A k \in calls : Observed(tool[k])
                           /\ Len(told) = Cardinality(calls)
                           /\ \A k \in calls :
                                LET earlier == {j \in calls : j[1][2] < k[1][2]
                                                    \/ (j[1][2] = k[1][2] /\ j[2] <= k[2])}
                                IN told[Cardinality(earlier)] = (tool[k].status = "SUCCEEDED")
      BY DEF TurnsFollowObservations
    <3> DEFINE told == invocation[<<a, t>>].request.observations
               before == {u \in Turn : u < t}
               calls == {k \in CallKey : k[1] \in {<<a, u>> : u \in before} /\ tool[k] # None}
    <3>1. <<a, t>> \in TurnKey /\ <<a, t>>[1] = a /\ <<a, t>>[2] = t
      BY KeysAre
    <3>2. Complete(a, t) /\ Tells(told, CallsBefore(a, t, 1), tool)
      BY <3>1 DEF IInv, Turns, TurnFollows, Follows
    <3>3. calls = CallsBefore(a, t, 1)
      <4> SUFFICES ASSUME NEW k \in CallKey
                   PROVE  k[1] \in {<<a, u>> : u \in before} <=> Before(k, a, t, 1)
        BY DEF CallsBefore
      <4>1. k[1] = <<k[1][1], k[1][2]>> /\ k[1][2] \in Turn /\ k[2] \in Int /\ k[2] > 0
        BY KeysAre
      <4> QED
        BY <4>1 DEF Before, Turn
    <3>4. \A u \in before : invocation[<<a, u>>] # None
                            /\ invocation[<<a, u>>].status = "SUCCEEDED"
      BY <3>2 DEF Complete
    <3>5. /\ Len(told) = Cardinality(calls)
          /\ \A k \in calls : Observed(tool[k])
          /\ \A k \in calls : told[Cardinality(Upto(calls, k))] = (tool[k].status = "SUCCEEDED")
      BY <3>2, <3>3 DEF Tells
    <3> HIDE DEF told, before, calls
    <3> QED
      BY <3>4, <3>5 DEF Upto, told, before, calls
  <2> QED
    BY <2>1, <2>2 DEF ReceiptsAreTrue
<1> QED
  BY WorkerInvariant, <1>1, PTL

\* What becomes of the receipts of a cancelled run in a step.
Discarded ==
    run = "CANCELLED" =>
        /\ run' = "CANCELLED" /\ task' = task
        /\ \A k \in TurnKey : invocation'[k] # invocation[k] =>
             invocation[k] # None /\ invocation'[k].status # "SUCCEEDED"
        /\ \A k \in CallKey : tool[k] = None => tool'[k] = None

\* After cancellation nothing is taken or begun in the capsule.
LEMMA StepDiscards ==
  ASSUME IInv, [Next]_vars
  PROVE  Discarded \/ UNCHANGED capsule
<1> SUFFICES ASSUME run = "CANCELLED", ~ UNCHANGED capsule PROVE Discarded
  BY DEF Discarded
<1>1. Types /\ ~ Active /\ ~ Working
  BY DEF IInv, Ownership, Active, Working
<1>2. CASE Begin \/ Failed \/ BlockRun \/ \E complete \in BOOLEAN : Finish(complete)
  BY <1>1, <1>2 DEF Discarded, Begin, Failed, BlockRun, Finish
<1>3. CASE Invoke
  <2>1. PICK k : k = ThisTurn
    OBVIOUS
  <2>2. CASE UNCHANGED invocation
    BY <1>3, <2>2 DEF Invoke, Discarded
  <2>3. CASE /\ w.turn \in Turn /\ invocation[ThisTurn] # None
             /\ Record(ThisTurn, [invocation[ThisTurn] EXCEPT !.status = "INTERRUPTED"])
    <3>1. k \in TurnKey
      <4>1. w.turn \in Turn /\ task.attempt > 0
        BY <1>3, <2>3 DEF Invoke, IInv, Position, Within, At, Begun, Between
      <4> QED
        BY <1>1, <2>1, <4>1, ThisIsAKey
    <3>2. invocation[k] \in Invocations /\ invocation[k] # None
      BY <1>1, <2>1, <2>3, <3>1, InvocationIs
    <3>3. /\ invocation'[k].status = "INTERRUPTED"
          /\ \A j \in TurnKey : j # k => invocation'[j] = invocation[j]
      BY <1>1, <2>1, <2>3, <3>1, <3>2 DEF Record, Types, Invocations
    <3> QED
      BY <1>3, <3>2, <3>3 DEF Invoke, Discarded
  <2> QED
    BY <1>1, <1>3, <2>2, <2>3 DEF Invoke, Known
<1>4. CASE Answer
  <2>1. PICK k : k = ThisTurn
    OBVIOUS
  <2>2. /\ w.turn \in Turn /\ task.attempt > 0
        /\ invocation[ThisTurn] # None /\ invocation[ThisTurn].status = "RUNNING"
    BY <1>4 DEF Answer, IInv, Position, Within, At, Begun, Between, Asking
  <2>3. k \in TurnKey
    BY <1>1, <2>1, <2>2, ThisIsAKey
  <2>4. invocation[k] \in Invocations /\ invocation[k] # None
    BY <1>1, <2>1, <2>2, <2>3, InvocationIs
  <2>5. Record(ThisTurn, [invocation[ThisTurn] EXCEPT !.status = "CANCELLED"])
    BY <1>1, <1>4, <2>2 DEF Answer
  <2>6. /\ invocation'[k].status = "CANCELLED"
        /\ \A j \in TurnKey : j # k => invocation'[j] = invocation[j]
    BY <1>1, <2>1, <2>3, <2>4, <2>5 DEF Record, Types, Invocations
  <2> QED
    BY <1>4, <2>4, <2>6 DEF Answer, Discarded
<1>5. CASE BeginTool
  BY <1>1, <1>5 DEF BeginTool, CarriedOut, Discarded, capsule
<1>6. CASE Observe
  <2>1. Within(Called)
    BY <1>6 DEF Observe, At, Within, Called
  <2>2. ThisCall \in CallKey /\ tool[ThisCall] # None
    BY <2>1, CalledIs, SavedIs
  <2>3. \A k \in CallKey : k # ThisCall => tool'[k] = tool[k]
    BY <1>1, <1>6, <2>2 DEF Observe, Save, Types
  <2> QED
    BY <1>6, <2>2, <2>3 DEF Observe, Discarded
<1>7. CASE Assistant
  BY <1>1, <1>7 DEF Assistant, NextWork, StartExternal, Assign, Settle, Report, OnlyExternal,
                    Discarded, capsule
<1>8. CASE Cancel \/ Resume \/ Recover \/ RecoverRefused
  BY <1>8 DEF Cancel, Resume, Recover, RecoverRefused, MayRecover
<1>9. CASE \/ Execute \/ Notice \/ Outside \/ Reconcile \/ Ask \/ GiveUp \/ Result \/ Dispatch
           \/ Prepare \/ Create \/ Start \/ Detach \/ Cleanup \/ Unlink \/ UNCHANGED vars
  BY <1>9 DEF Execute, Notice, Outside, Reconcile, Ask, GiveUp, Respond, Result, Dispatch,
              Prepare, Create, Start, Detach, Cleanup, Unlink, Exit, Learn, Crash, vars,
              OnlyWorker, OnlyDaemon
<1> QED
  BY <1>2, <1>3, <1>4, <1>5, <1>6, <1>7, <1>8, <1>9 DEF Next, Work

\* Only Assign hands an attempt out, and no provider has had it.
LEMMA StepHandsOut ==
  ASSUME IInv, [Next]_vars
  PROVE  \A a \in assigned' \ assigned : \A t \in Turn : invocation[<<a, t>>] = None
<1>1. CASE Assign
  BY <1>1 DEF Assign, IInv, Handouts
<1>2. CASE UNCHANGED assigned
  BY <1>2
<1>3. Assign \/ UNCHANGED assigned
  BY DEF Next, Work, Assistant, Outside, vars, external, OnlyWorker, OnlyDaemon, OnlyCapsule,
         OnlyExternal, Execute, Reconcile, Begin, Finish, Failed, BlockRun, Invoke, Ask, GiveUp,
         Respond, Answer, Result, BeginTool, Dispatch, Observe, Prepare, Create, Start, Detach,
         Cleanup, Unlink, NextWork, StartExternal, Settle, Report, Cancel, Notice, Resume,
         Recover, RecoverRefused, Exit, Learn, Crash
<1> QED
  BY <1>1, <1>2, <1>3

\* Only Report takes a result, once, for the attempt that is under way.
LEMMA StepReports ==
  ASSUME IInv, [Next]_vars
  PROVE  \A a \in 1..MaxAttempts : reported'[a] # reported[a] =>
             reported[a] = None /\ a = task.attempt /\ task.status = "RUNNING"
<1>1. ASSUME NEW a \in 1..MaxAttempts, NEW result \in Results, Report(a, result)
      PROVE  \A b \in 1..MaxAttempts : reported'[b] # reported[b] =>
                 reported[b] = None /\ b = task.attempt /\ task.status = "RUNNING"
  BY <1>1 DEF Report, Wanted, Active, Working, IInv, Types
<1>2. CASE UNCHANGED reported
  BY <1>2
<1>3. (\E a \in 1..MaxAttempts, result \in Results : Report(a, result)) \/ UNCHANGED reported
  BY DEF Next, Work, Assistant, Outside, vars, external, OnlyWorker, OnlyDaemon, OnlyCapsule,
         OnlyExternal, Execute, Reconcile, Begin, Finish, Failed, BlockRun, Invoke, Ask, GiveUp,
         Respond, Answer, Result, BeginTool, Dispatch, Observe, Prepare, Create, Start, Detach,
         Cleanup, Unlink, NextWork, StartExternal, Assign, Settle, Cancel, Notice, Resume,
         Recover, RecoverRefused, Exit, Learn, Crash
<1> QED
  BY <1>1, <1>2, <1>3

\* A result is taken from whom the work was given to and only while it is wanted: not after
\* cancellation, not a second one, and never from provider and assistant at once.
THEOREM UnwantedResultsAreRefused == Spec => ResultsAreWanted
<1>1. IInv /\ [Next]_vars =>
          [run = "CANCELLED" =>
             /\ run' = "CANCELLED" /\ task' = task
             /\ \A k \in TurnKey : invocation'[k] # invocation[k] =>
                  invocation[k] # None /\ invocation'[k].status # "SUCCEEDED"
             /\ \A k \in CallKey : tool[k] = None => tool'[k] = None]_capsule
  BY StepDiscards DEF Discarded
<1>2. IInv /\ [Next]_vars =>
          [\A a \in assigned' \ assigned : \A t \in Turn : invocation[<<a, t>>] = None]_assigned
  BY StepHandsOut
<1>3. IInv /\ [Next]_vars =>
          [\A a \in 1..MaxAttempts : reported'[a] # reported[a] =>
             reported[a] = None /\ a = task.attempt /\ task.status = "RUNNING"]_reported
  BY StepReports
<1>4. Spec => [][Next]_vars
  BY PTL DEF Spec
<1>5. Spec => CancelledWorkIsDiscarded
  BY WorkerInvariant, <1>1, <1>4, PTL DEF CancelledWorkIsDiscarded
<1>6. Spec => HandoutsAreExclusive
  BY WorkerInvariant, <1>2, <1>4, PTL DEF HandoutsAreExclusive
<1>7. Spec => ReportsAreFinal
  BY WorkerInvariant, <1>3, <1>4, PTL DEF ReportsAreFinal
<1> QED
  BY <1>5, <1>6, <1>7 DEF ResultsAreWanted

=============================================================================
