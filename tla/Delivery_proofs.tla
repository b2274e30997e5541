--------------------------- MODULE Delivery_proofs ---------------------------
(* Machine-checked proofs about Delivery, for any contents, any number of edits
   and crashes, and any number of attempts. *)
EXTENDS Delivery, SequenceTheorems, TLAPS

(* The invariant. *)

Statuses == {"PENDING", "READY", "RUNNING", "SUCCEEDED", "BLOCKED", "CANCELLED"}
Tasks == [status : Statuses, attempt : 0..MaxAttempts]
Validations == Seq([attempt : 1..MaxAttempts, before : Tree, tree : Tree, passed : BOOLEAN])
Recs == [implementation : Reports, final : Reports, artifact : {None, "plain", "documented"},
         validations : Validations, delivery : Deliveries \union {None}, promoted : BOOLEAN]
Proofs == [criterion : {"PASS", "FAIL", "TESTING", "PENDING"},
           started : SUBSET Keys, evidence : SUBSET Keys]

\* Where finalize works on a step, for each step.
PlacesOf ==
    [implementation |-> {"implementation", "digest"},
     documentation |-> {"documentation", "artifact"},
     validation |-> {"validation", "criterion", "evaluate", "conclude", "check"},
     final |-> {"final", "digest"},
     git |-> {"git", "stage", "store", "verify", "intent", "status", "compare", "create",
              "attach", "attached", "pushing", "push", "send", "sent"},
     memory |-> {"memory", "proposed"}]
Places ==
    {"idle", "next", "finish", "advance", "start", "done", "failed", "block",
     "implementation", "final", "digest", "documentation", "artifact",
     "validation", "criterion", "evaluate", "conclude", "check", "git", "stage", "store", "verify",
     "intent", "status", "compare", "create", "attach", "attached", "pushing", "push",
     "send", "sent", "memory", "proposed"}
Between == {"idle", "next", "finish", "advance", "start", "block"}
Outcome == {"done", "failed"}
Reading == {"digest", "artifact", "criterion", "evaluate", "conclude", "check", "verify",
            "intent", "compare"}
\* ... and where the commit is intended already.
Intended == {"status", "compare", "create", "attach", "attached", "push", "send", "sent"}

Workers == [at : Places, step : Step, seen : Tree \union {None}, after : Tree \union {None}]

\* Types, of the attempts too: one that may start is left, one that worked has a number.
Types ==
    /\ given \in [push : BOOLEAN, docs : BOOLEAN, code : Code]
    /\ run \in [state : ToSet(States) \union Suspended \union {"CANCELLED"},
                resume : ToSet(States) \union {None}]
    /\ (run.resume = None) = (run.state \notin Suspended)
    /\ task \in [Step -> Tasks]
    /\ \A s \in Step :
           /\ task[s].status = "PENDING" => task[s].attempt = 0
           /\ task[s].status = "READY" => task[s].attempt < MaxAttempts
           /\ task[s].status \in {"RUNNING", "SUCCEEDED", "BLOCKED"} => task[s].attempt > 0
    /\ rec \in Recs /\ proof \in Proofs /\ proof.evidence \subseteq proof.started
    /\ tree \in Tree /\ head \in Tree \union {Base, Foreign, Above}
    /\ remote \in Tree \union {None}
    /\ w \in Workers
    /\ swapped \in BOOLEAN

\* Where a run stands is where it was suspended; it has been in the states before.
Place == IF run.state \in Suspended THEN run.resume ELSE run.state
Been(target) == run.state # "CANCELLED" /\ Reached(Place, target)

\* The steps are taken one after the other; a cancelled run has none left, and one that
\* stands still has none running.
After(s, t) ==
    task[s].status # "SUCCEEDED" =>
        task[t].status \in {"PENDING", "CANCELLED"} /\ task[t].attempt = 0
Ordered ==
    /\ After("implementation", "documentation") /\ After("documentation", "validation")
    /\ After("validation", "final") /\ After("final", "git") /\ After("git", "memory")
    /\ run.state = "CANCELLED" => \A s \in Step : task[s].status \in {"SUCCEEDED", "CANCELLED"}
    /\ run.state \notin ToSet(States) => NoneRunning

\* What finalize works on is running, unless the run was cancelled meanwhile, and the
\* run is in its state or past it.
Steady ==
    /\ w.at \notin Between \union Outcome => w.at \in PlacesOf[w.step]
    /\ w.at \notin Between =>
           /\ Working \/ (run.state = "CANCELLED" /\ task[w.step].status = "CANCELLED")
           /\ task[w.step].attempt > 0
    /\ w.at \in {"advance", "start"} =>
           task[w.step].status \in {"READY", "RUNNING"} \/ run.state = "CANCELLED"
    /\ w.at = "start" => Been(StateOf[w.step]) \/ run.state = "CANCELLED"
    /\ w.at \in Reading => w.seen \in Tree
    /\ w.at = "check" => w.after \in Tree
    /\ w.at = "evaluate" => Key \in proof.started

\* What a state of the run, or the attempt of a step, needs on record stays there.
ImplementationCertified ==
    /\ rec.implementation # <<>>
    /\ Last(rec.implementation).passed /\ Last(rec.implementation).tree = Reviewed
FinalCertified ==
    /\ rec.validations # <<>> /\ Last(rec.validations).passed
    /\ rec.final # <<>> /\ Last(rec.final).passed
    /\ Last(rec.final).tree = Last(rec.validations).tree
Earned ==
    /\ Been("DOCUMENTING") => task["implementation"].status = "SUCCEEDED"
    /\ Been("COMMITTING") => task["final"].status = "SUCCEEDED"
    /\ Been("DOCUMENTING") \/ task["documentation"].attempt > 0 => ImplementationCertified
    /\ Been("DELIVERY_VALIDATION") \/ task["validation"].attempt > 0 => rec.artifact # None
    /\ Been("COMMITTING") \/ task["git"].attempt > 0 => FinalCertified
    /\ Been("PUSHING") => rec.delivery # None
    /\ rec.final # <<>> => task["final"].attempt > 0
    /\ rec.delivery # None => task["git"].attempt > 0
    /\ run.state = "COMPLETED" =>
           /\ rec.promoted /\ rec.delivery # None
           /\ rec.delivery.attached /\ (given.push => rec.delivery.pushed)

\* What the reports and validations that passed say of the code and the document.
ImplementationReport(r) ==
    r.passed => /\ r.code \notin Flagged
                /\ ~ swapped /\ r.tree = Reviewed => r.code = given.code
FinalReport(r) ==
    r.passed => /\ r.code \notin Flagged
                /\ r.code = Last(rec.implementation).code
                /\ ~ swapped /\ rec.validations # <<>> =>
                      (r.tree = Last(rec.validations).tree => r.tree.code = r.code)
Inspected ==
    /\ \A i \in 1..Len(rec.implementation) : ImplementationReport(rec.implementation[i])
    /\ \A i \in 1..Len(rec.final) : FinalReport(rec.final[i])
    /\ ~ swapped => \A i \in 1..Len(rec.validations) :
           rec.validations[i].passed /\ given.docs => rec.validations[i].tree.doc = "documented"
    /\ given.docs /\ rec.artifact # None => rec.artifact = "documented"

\* The commit is the one that was intended, and that is the certified one.
Committed ==
    /\ rec.delivery # None =>
           /\ rec.delivery.certified = Certificate.tree
           /\ rec.delivery.created /\ ~ swapped => rec.delivery.tree = Certificate.tree
           /\ rec.delivery.attached => head \in {rec.delivery.tree, Above}
           /\ rec.delivery.pushed => remote = rec.delivery.tree
    /\ head \in Tree => rec.delivery # None /\ rec.delivery.created /\ head = rec.delivery.tree
    /\ remote \in Tree => rec.delivery # None /\ rec.delivery.created /\ remote = rec.delivery.tree

\* What finalize has found and not yet recorded.
Position ==
    /\ At("digest") /\ w.step = "implementation" /\ ~ swapped /\ tree = Reviewed
           => w.seen = tree
    /\ At("digest") /\ w.step = "final" /\ ~ swapped /\ rec.validations # <<>>
           => (tree = Last(rec.validations).tree => w.seen = tree)
    /\ At("artifact") /\ given.docs => w.seen.doc = "documented"
    /\ At("check") /\ ~ swapped /\ tree.doc = rec.artifact => w.after.doc = rec.artifact
    /\ w.at \in {"stage", "store", "verify"} /\ rec.delivery = None => run.state = "COMMITTING"
    /\ At("verify") /\ rec.delivery # None /\ ~ swapped /\ tree = Certificate.tree
           => w.seen = tree
    /\ At("intent") => run.state = "COMMITTING" /\ rec.delivery = None
    /\ w.at \in Intended => rec.delivery # None
    /\ At("compare") /\ ~ swapped => w.seen = Certificate.tree
    /\ At("create") /\ ~ swapped => rec.delivery.tree = Certificate.tree
    /\ w.at \in {"attach", "attached"} => rec.delivery.created
    /\ At("attached") => head \in {rec.delivery.tree, Above}
    /\ At("sent") => remote = rec.delivery.tree

IInv == Types /\ Ordered /\ Steady /\ Earned /\ Inspected /\ Committed /\ Position

-----------------------------------------------------------------------------
(* The steps and the states, one by one. *)

\* Steps and states are finite sets.
LEMMA StepsAndStates ==
  /\ Step = {"implementation", "documentation", "validation", "final", "git", "memory"}
  /\ DOMAIN Steps = 1..6
  /\ ToSet(States) = {"REVIEWING", "CHANGE_GUARD", "DOCUMENTING", "DELIVERY_VALIDATION",
                      "COMMITTING", "PUSHING", "MEMORY_FINALIZATION", "COMPLETED"}
  /\ DOMAIN States = 1..8
BY DEF Step, Steps, States, ToSet

\* The rank of a state is its position.
LEMMA Ranks ==
  /\ Rank["REVIEWING"] = 1 /\ Rank["CHANGE_GUARD"] = 2 /\ Rank["DOCUMENTING"] = 3
  /\ Rank["DELIVERY_VALIDATION"] = 4 /\ Rank["COMMITTING"] = 5 /\ Rank["PUSHING"] = 6
  /\ Rank["MEMORY_FINALIZATION"] = 7 /\ Rank["COMPLETED"] = 8
<1>1. ASSUME NEW i \in 1..8 PROVE Rank[States[i]] = i
  <2>1. States[i] \in ToSet(States)
    BY StepsAndStates DEF ToSet
  <2>2. \A n \in DOMAIN States : States[n] = States[i] => n = i
    BY StepsAndStates DEF States
  <2>3. Rank[States[i]] = CHOOSE n \in DOMAIN States : States[n] = States[i]
    BY <2>1 DEF Rank
  <2> QED
    BY <2>2, <2>3, StepsAndStates
<1>2. /\ States[1] = "REVIEWING" /\ States[2] = "CHANGE_GUARD" /\ States[3] = "DOCUMENTING"
      /\ States[4] = "DELIVERY_VALIDATION" /\ States[5] = "COMMITTING" /\ States[6] = "PUSHING"
      /\ States[7] = "MEMORY_FINALIZATION" /\ States[8] = "COMPLETED"
  BY DEF States
<1> QED
  BY <1>1, <1>2

\* A report is in the record of reports; the last of some is one of them.
LEMMA LastIsOne ==
  ASSUME NEW S, NEW s \in Seq(S), s # <<>>
  PROVE  Len(s) \in 1..Len(s) /\ Last(s) = s[Len(s)] /\ Last(s) \in S
BY EmptySeq, LenProperties, ElementOfSeq DEF Last

-----------------------------------------------------------------------------
(* What a step leaves alone. *)

\* The order of the steps depends on the run and the tasks.
LEMMA SameOrder == ASSUME Ordered, UNCHANGED <<run, task>> PROVE Ordered'
BY DEF Ordered, After, NoneRunning

\* What is earned, on the record too.
LEMMA SameEarned == ASSUME Earned, UNCHANGED <<given, run, task, rec>> PROVE Earned'
BY DEF Earned, Been, Place, Reached, ImplementationCertified, FinalCertified, Reviewed

\* What was inspected, on the reports only.
LEMMA SameInspected ==
  ASSUME Inspected, UNCHANGED <<given, swapped>>, rec'.implementation = rec.implementation,
         rec'.final = rec.final, rec'.validations = rec.validations, rec'.artifact = rec.artifact
  PROVE  Inspected'
BY DEF Inspected, ImplementationReport, FinalReport, Reviewed

\* What is committed, on the delivery, the branch and the remote.
LEMMA SameCommitted ==
  ASSUME Committed, UNCHANGED <<head, remote, swapped>>, rec'.delivery = rec.delivery,
         rec.delivery # None => Certificate' = Certificate
  PROVE  Committed'
BY DEF Committed

\* A worker between two steps has found nothing.
LEMMA BetweenSteps ==
  ASSUME w'.at \in Between \ {"advance", "start"}
  PROVE  Steady' /\ Position'
BY DEF Between, Outcome, Reading, Intended, Steady, Position, At

\* Nor has one whose step has just ended.
LEMMA StepEnds ==
  ASSUME Steady, w.at \notin Between, w'.at \in Outcome, w'.step = w.step,
         UNCHANGED <<run, task>>
  PROVE  Steady' /\ Position'
BY DEF Between, Outcome, Reading, Intended, Steady, Position, At, Working

\* A place that is gone to.
LEMMA Going ==
  ASSUME Types, NEW place \in Places, Goto(place)
  PROVE  /\ w' \in Workers /\ w'.at = place /\ w'.step = w.step /\ w'.seen = w.seen
         /\ w'.after = w.after
BY DEF Types, Workers, Goto

\* Starting over, after a death too.
LEMMA Quitting ==
  ASSUME Quit
  PROVE  w' \in Workers /\ w'.at = "idle" /\ Steady' /\ Position'
<1>1. w' \in Workers /\ w'.at = "idle"
  BY StepsAndStates DEF Quit, Idle, Workers, Places
<1> QED
  BY <1>1, BetweenSteps DEF Between

\* Only the worker moves.
LEMMA OnlyWorkerInv ==
  ASSUME IInv, OnlyWorker, w' \in Workers, Steady', Position'
  PROVE  IInv'
<1>1. UNCHANGED <<given, run, task, rec, proof, tree, head, remote, edits, crashes, swapped>>
  BY DEF OnlyWorker, capsule, world
<1>2. Types'
  BY <1>1 DEF IInv, Types
<1>3. Ordered' /\ Earned' /\ Inspected' /\ Committed'
  BY <1>1, SameOrder, SameEarned, SameInspected, SameCommitted DEF IInv, Certificate
<1> QED
  BY <1>2, <1>3 DEF IInv

-----------------------------------------------------------------------------
(* Steps that only move the worker. *)

\* finalize begins.
LEMMA InvokeInv == ASSUME IInv, Invoke PROVE IInv'
<1>1. w' \in Workers /\ w'.at = "next"
  BY StepsAndStates DEF Invoke, Idle, Workers, Places
<1> QED
  BY <1>1, BetweenSteps, OnlyWorkerInv DEF Invoke, Between

\* The step that is next is ready or running.
LEMMA NextStepInv == ASSUME IInv, NextStep PROVE IInv'
<1>1. CASE Goto("finish")
  BY <1>1, Going, BetweenSteps, OnlyWorkerInv DEF NextStep, Between, Places, IInv
<1>2. CASE Quit
  BY <1>2, Quitting, OnlyWorkerInv DEF NextStep
<1>3. ASSUME NEW s \in Step, task[s].status \in {"READY", "RUNNING"},
             w' = [w EXCEPT !.step = s,
                     !.at = IF run.state = StateOf[s] \/ (s = "git" /\ run.state = "PUSHING")
                            THEN "start" ELSE "advance"]
      PROVE  IInv'
  <2>1. w' \in Workers /\ w'.at \in {"advance", "start"} /\ w'.step = s
    BY <1>3 DEF IInv, Types, Workers, Places
  <2>2. UNCHANGED <<run, task, proof>>
    BY DEF NextStep, OnlyWorker, capsule
  <2>3. w'.at = "start" => Been(StateOf[s])
    BY <1>3, Ranks, StepsAndStates DEF IInv, Types, Workers, Been, Place, Reached, StateOf, Suspended
  <2>4. Steady'
    BY <2>1, <2>2, <2>3, <1>3
       DEF Steady, Between, Outcome, Reading, Been, Place, Reached
  <2>5. Position'
    BY <2>1 DEF Position, At, Intended
  <2> QED
    BY <2>1, <2>4, <2>5, OnlyWorkerInv DEF NextStep
<1>4. ASSUME NEW left, left = {n \in DOMAIN Steps : task[Steps[n]].status # "SUCCEEDED"},
             left # {}, ~ Quit
      PROVE  IInv'
  <2> DEFINE n == CHOOSE n \in left : \A m \in left : n <= m
             s == Steps[n]
  <2>1. \E k \in left : \A m \in left : k <= m
    <3>1. left \subseteq 1..6
      BY <1>4, StepsAndStates
    <3> QED
      BY <3>1, <1>4
  <2>2. n \in DOMAIN Steps
    BY <2>1, <1>4
  <2>3. s \in Step
    BY <2>2 DEF Step, ToSet
  <2>4. /\ task[s].status \in {"READY", "RUNNING"}
        /\ w' = [w EXCEPT !.step = s,
                   !.at = IF run.state = StateOf[s] \/ (s = "git" /\ run.state = "PUSHING")
                          THEN "start" ELSE "advance"]
    BY <1>4 DEF NextStep
  <2> HIDE DEF n, s
  <2> QED
    BY <2>3, <2>4, <1>3
<1> QED
  BY <1>1, <1>2, <1>4 DEF NextStep

\* A worker that goes on within its step, or ends it, has what Position asks of the place.
LEMMA WithinStep ==
  ASSUME IInv, OnlyWorker, NEW place \in Places \ Between, w.at \notin Between,
         w' \in Workers, w'.at = place, w'.step = w.step,
         place \in Outcome \union PlacesOf[w.step], place \in Reading => w'.seen \in Tree,
         place # "evaluate", place = "check" => w'.after \in Tree, Position'
  PROVE  IInv'
<1>1. UNCHANGED <<run, task, proof>>
  BY DEF OnlyWorker, capsule
<1>2. Steady'
  BY <1>1 DEF IInv, Steady, Between, Outcome, Working
<1> QED
  BY <1>2, OnlyWorkerInv

\* The step of the worker is that of its place.
LEMMA StepOfPlace ==
  ASSUME IInv
  PROVE  /\ w.step \in Step /\ w.at \in Places
         /\ w.at \in {"implementation", "final"} => w.step = w.at
         /\ w.at = "digest" => w.step \in {"implementation", "final"}
         /\ w.at \in {"documentation", "artifact"} => w.step = "documentation"
         /\ w.at \in {"validation", "criterion", "evaluate", "conclude", "check"}
                => w.step = "validation"
         /\ w.at \in {"git", "stage", "store", "verify", "intent", "status", "compare",
                      "create", "attach", "attached", "pushing", "push", "send", "sent"}
                => w.step = "git"
         /\ w.at \in {"memory", "proposed"} => w.step = "memory"
<1>1. w.step \in Step /\ w.at \in Places
  BY DEF IInv, Types, Workers
<1>2. w.at \notin Between \union Outcome => w.at \in PlacesOf[w.step]
  BY DEF IInv, Steady
<1> QED
  BY <1>1, <1>2, StepsAndStates DEF PlacesOf, Between, Outcome

\* Failing, or being done, ends the step.
LEMMA EndInv ==
  ASSUME IInv, OnlyWorker, w.at \notin Between, Goto("failed") \/ Goto("done")
  PROVE  IInv'
<1>1. w' \in Workers /\ w'.at \in Outcome /\ w'.step = w.step
  BY Going DEF IInv, Outcome, Places
<1>2. UNCHANGED <<run, task>>
  BY DEF OnlyWorker, capsule
<1> QED
  BY <1>1, <1>2, StepEnds, OnlyWorkerInv DEF IInv

\* The files are inspected as they are now.
LEMMA InspectInv == ASSUME IInv, Inspect PROVE IInv'
<1>1. w.at \notin Between /\ OnlyWorker /\ w.step \in {"implementation", "final"}
  BY StepOfPlace DEF Inspect, Between
<1>2. CASE Goto("failed")
  BY <1>1, <1>2, EndInv
<1>3. CASE w' = [w EXCEPT !.at = "digest", !.seen = tree]
  <2>1. w' \in Workers /\ w'.at = "digest" /\ w'.step = w.step /\ w'.seen = tree /\ tree \in Tree
    BY <1>3 DEF IInv, Types, Workers, Places
  <2>2. tree' = tree
    BY <1>1 DEF OnlyWorker, world
  <2>3. Position'
    BY <2>1, <2>2 DEF Position, At, Intended
  <2> QED
    BY <1>1, <2>1, <2>3, WithinStep DEF Places, Between, Outcome, PlacesOf
<1> QED
  BY <1>2, <1>3 DEF Inspect

\* The workspace is read for the validation.
LEMMA BeginValidationInv == ASSUME IInv, BeginValidation PROVE IInv'
<1>1. w.at \notin Between /\ OnlyWorker /\ w.step = "validation"
  BY StepOfPlace DEF BeginValidation, Between, At
<1>2. CASE Goto("failed") \/ Goto("done")
  BY <1>1, <1>2, EndInv
<1>3. CASE w' = [w EXCEPT !.at = "criterion", !.seen = tree]
  <2>1. w' \in Workers /\ w'.at = "criterion" /\ w'.step = w.step /\ w'.seen \in Tree
    BY <1>3 DEF IInv, Types, Workers, Places
  <2>2. Position'
    BY <2>1 DEF Position, At, Intended
  <2> QED
    BY <1>1, <2>1, <2>2, WithinStep DEF Places, Between, Outcome, PlacesOf
<1> QED
  BY <1>2, <1>3 DEF BeginValidation

\* A step of the git work that only moves the worker.
LEMMA WithinGit ==
  ASSUME IInv, OnlyWorker, NEW place \in PlacesOf["git"] \union Outcome, w.step = "git",
         w.at \in PlacesOf["git"], Goto(place), place \in Reading => w.seen \in Tree,
         w'.at = place /\ w'.seen = w.seen => Position'
  PROVE  IInv'
<1>1. place \in Places
  BY DEF Places, PlacesOf, Outcome
<1>2. w' \in Workers /\ w'.at = place /\ w'.step = w.step /\ w'.seen = w.seen
  BY <1>1, Going DEF IInv
<1>3. place \notin Between /\ w.at \notin Between /\ place \notin {"evaluate", "check"}
  BY DEF PlacesOf, Between, Outcome
<1> QED
  BY <1>1, <1>2, <1>3, WithinStep

\* The git work begins at what the record says.
LEMMA BeginGitInv == ASSUME IInv, BeginGit PROVE IInv'
<1>1. w.at = "git" /\ OnlyWorker /\ w.step = "git"
  BY StepOfPlace DEF BeginGit, At
<1>2. UNCHANGED <<run, rec>>
  BY <1>1 DEF OnlyWorker, capsule
<1>3. CASE Goto("failed") \/ Goto("done")
  BY <1>1, <1>3, EndInv DEF Between
<1>4. CASE Goto("stage") /\ run.state = "COMMITTING"
  BY <1>1, <1>2, <1>4, WithinGit DEF PlacesOf, Reading, Position, At, Intended
<1>5. CASE Goto("status") /\ rec.delivery # None
  BY <1>1, <1>2, <1>5, WithinGit DEF PlacesOf, Reading, Position, At, Intended
<1>6. CASE Goto("pushing")
  BY <1>1, <1>2, <1>6, WithinGit DEF PlacesOf, Reading, Position, At, Intended
<1> QED
  BY <1>3, <1>4, <1>5, <1>6 DEF BeginGit

\* The tree is compared with its certificate.
LEMMA StageInv == ASSUME IInv, Stage PROVE IInv'
<1>1. w.at = "stage" /\ OnlyWorker /\ w.step = "git"
  BY StepOfPlace DEF Stage, At
<1>2. UNCHANGED <<run, rec>>
  BY <1>1 DEF OnlyWorker, capsule
<1>3. CASE Goto("failed")
  BY <1>1, <1>3, EndInv DEF Between
<1>4. CASE Goto("store")
  <2>1. rec.delivery = None => run.state = "COMMITTING"
    BY <1>1 DEF IInv, Position
  <2> QED
    BY <1>1, <1>2, <1>4, <2>1, WithinGit DEF PlacesOf, Reading, Position, At, Intended
<1> QED
  BY <1>3, <1>4 DEF Stage

\* What is stored is what is there.
LEMMA StoreBlobsInv == ASSUME IInv, StoreBlobs PROVE IInv'
<1>1. w.at = "store" /\ OnlyWorker /\ w.step = "git"
  BY StepOfPlace DEF StoreBlobs, At
<1>2. w' \in Workers /\ w'.at = "verify" /\ w'.step = w.step /\ w'.seen = tree /\ tree \in Tree
  BY DEF StoreBlobs, IInv, Types, Workers, Places
<1>3. UNCHANGED <<run, rec, tree>>
  BY <1>1 DEF OnlyWorker, capsule, world
<1>4. rec.delivery = None => run.state = "COMMITTING"
  BY <1>1 DEF IInv, Position
<1>5. Position'
  BY <1>2, <1>3, <1>4 DEF Position, At, Intended
<1> QED
  BY <1>1, <1>2, <1>5, WithinStep DEF Places, Between, Outcome, PlacesOf

\* The intent, or the comparison with it, is made of what has the certified digest.
LEMMA VerifyInv == ASSUME IInv, Verify PROVE IInv'
<1>1. w.at = "verify" /\ OnlyWorker /\ w.step = "git" /\ w.seen \in Tree
  BY StepOfPlace DEF Verify, At, IInv, Steady, Reading
<1>2. UNCHANGED <<run, rec, tree, swapped>>
  BY <1>1 DEF OnlyWorker, capsule, world
<1>3. CASE Goto("failed")
  BY <1>1, <1>3, EndInv DEF Between
<1>4. CASE Goto("intent") /\ rec.delivery = None
  <2>1. run.state = "COMMITTING"
    BY <1>1, <1>4 DEF IInv, Position
  <2> QED
    BY <1>1, <1>2, <1>4, <2>1, WithinGit DEF PlacesOf, Reading, Position, At, Intended
<1>5. CASE Goto("compare") /\ rec.delivery # None /\ Certificate.tree = Digest
  <2>1. rec.delivery.certified = Certificate.tree
    BY <1>5 DEF IInv, Committed
  <2>2. rec.delivery \in Deliveries
    BY <1>5 DEF IInv, Types, Recs
  <2>3. Certificate.tree \in Tree
    BY <2>1, <2>2 DEF Deliveries
  <2>4. Certificate.tree = tree
    BY <1>5, <2>3, MarkAssumption DEF Digest, Unverified
  <2>5. ~ swapped => w.seen = Certificate.tree
    BY <1>1, <1>5, <2>4 DEF IInv, Position, At
  <2>6. Certificate' = Certificate
    BY <1>2 DEF Certificate
  <2> QED
    BY <1>1, <1>2, <1>5, <2>5, <2>6, WithinGit DEF PlacesOf, Reading, Position, At, Intended
<1> QED
  BY <1>3, <1>4, <1>5 DEF Verify

\* The branch is at its base, or at the commit of the run.
LEMMA CheckStatusInv == ASSUME IInv, CheckStatus PROVE IInv'
<1>1. w.at = "status" /\ OnlyWorker /\ w.step = "git"
  BY StepOfPlace DEF CheckStatus, At
<1>2. UNCHANGED <<run, rec, swapped>>
  BY <1>1 DEF OnlyWorker, capsule, world
<1>3. rec.delivery # None
  BY <1>1 DEF IInv, Position, Intended
<1>4. CASE Goto("failed")
  BY <1>1, <1>4, EndInv DEF Between
<1>5. CASE Goto("stage")
  BY <1>1, <1>2, <1>3, <1>5, WithinGit DEF PlacesOf, Reading, Position, At, Intended
<1>6. CASE Goto("create") /\ rec.delivery.created
  <2>1. ~ swapped => rec.delivery.tree = Certificate.tree
    BY <1>3, <1>6 DEF IInv, Committed
  <2>2. Certificate' = Certificate
    BY <1>2 DEF Certificate
  <2> QED
    BY <1>1, <1>2, <1>3, <1>6, <2>1, <2>2, WithinGit
       DEF PlacesOf, Reading, Position, At, Intended
<1> QED
  BY <1>4, <1>5, <1>6 DEF CheckStatus

\* What is staged again is what was intended.
LEMMA CompareInv == ASSUME IInv, Compare PROVE IInv'
<1>1. w.at = "compare" /\ OnlyWorker /\ w.step = "git"
  BY StepOfPlace DEF Compare, At
<1>2. UNCHANGED <<run, rec, swapped>>
  BY <1>1 DEF OnlyWorker, capsule, world
<1>3. CASE Goto("failed")
  BY <1>1, <1>3, EndInv DEF Between
<1>4. CASE Goto("create") /\ w.seen = rec.delivery.tree
  <2>1. rec.delivery # None /\ (~ swapped => w.seen = Certificate.tree)
    BY <1>1 DEF IInv, Position, Intended, At
  <2>2. Certificate' = Certificate
    BY <1>2 DEF Certificate
  <2> QED
    BY <1>1, <1>2, <1>4, <2>1, <2>2, WithinGit DEF PlacesOf, Reading, Position, At, Intended
<1> QED
  BY <1>3, <1>4 DEF Compare

\* The run is looked at again before the push.
LEMMA PushInv == ASSUME IInv, Push PROVE IInv'
<1>1. w.at = "push" /\ OnlyWorker /\ w.step = "git"
  BY StepOfPlace DEF Push, At
<1>2. UNCHANGED <<run, rec>> /\ rec.delivery # None
  BY <1>1 DEF OnlyWorker, capsule, IInv, Position, Intended
<1>3. CASE Goto("failed") \/ Goto("done")
  BY <1>1, <1>3, EndInv DEF Between
<1>4. CASE Goto("send")
  BY <1>1, <1>2, <1>4, WithinGit DEF PlacesOf, Reading, Position, At, Intended
<1> QED
  BY <1>3, <1>4 DEF Push

\* The outcome is proposed.
LEMMA ProposeMemoryInv == ASSUME IInv, ProposeMemory PROVE IInv'
<1>1. w.at = "memory" /\ OnlyWorker /\ w.step = "memory"
  BY StepOfPlace DEF ProposeMemory, At
<1>2. CASE Goto("failed") \/ Goto("done")
  BY <1>1, <1>2, EndInv DEF Between
<1>3. CASE Goto("proposed")
  <2>1. w' \in Workers /\ w'.at = "proposed" /\ w'.step = w.step
    BY <1>3, Going DEF IInv, Places
  <2>2. Position'
    BY <2>1 DEF Position, At, Intended
  <2> QED
    BY <1>1, <2>1, <2>2, WithinStep DEF Places, Between, Outcome, PlacesOf, Reading
<1> QED
  BY <1>2, <1>3 DEF ProposeMemory

-----------------------------------------------------------------------------
(* Steps that move the run. *)

\* Where a suspended run stands does not change.
LEMMA Suspending ==
  ASSUME Types, NEW state \in Suspended, Suspend(state), run.state \notin Terminal
  PROVE  /\ run' \in [state : ToSet(States) \union Suspended \union {"CANCELLED"},
                      resume : ToSet(States) \union {None}]
         /\ (run'.resume = None) = (run'.state \notin Suspended)
         /\ run'.state = state /\ Place' = Place
BY StepsAndStates, MarkAssumption DEF Types, Suspend, Suspended, Place, Terminal

\* Only the run and the worker move: the run stays where it stands, or goes on to a state
\* that has been earned.
LEMMA RunMoves ==
  ASSUME IInv, UNCHANGED <<given, task, rec, proof, world>>,
         run' \in [state : ToSet(States) \union Suspended \union {"CANCELLED"},
                   resume : ToSet(States) \union {None}],
         (run'.resume = None) = (run'.state \notin Suspended),
         w' \in Workers, Ordered', Earned', Steady', Position'
  PROVE  IInv'
<1>1. UNCHANGED <<tree, head, remote, edits, crashes, swapped>>
  BY DEF world
<1>2. Types'
  BY <1>1 DEF IInv, Types
<1>3. Inspected' /\ Committed'
  BY <1>1, SameInspected, SameCommitted DEF IInv, Certificate
<1> QED
  BY <1>2, <1>3 DEF IInv

\* A state that is entered has its guard satisfied.
LEMMA Entering ==
  ASSUME IInv, NEW target \in ToSet(States), MayAdvance(target), Enter(target),
         UNCHANGED <<given, task, rec>>,
         Reached(target, "DOCUMENTING") => task["implementation"].status = "SUCCEEDED",
         Reached(target, "COMMITTING") => task["final"].status = "SUCCEEDED"
  PROVE  /\ run' \in [state : ToSet(States) \union Suspended \union {"CANCELLED"},
                      resume : ToSet(States) \union {None}]
         /\ (run'.resume = None) = (run'.state \notin Suspended)
         /\ run'.state = target /\ Ordered' /\ Earned'
         /\ \A s \in ToSet(States) : Been(s)' = Reached(target, s)
         /\ run.state \in ToSet(States)
<1>1. /\ run.state \in ToSet(States) /\ run.state \notin Suspended /\ run.resume = None
      /\ target \notin Suspended /\ target # "CANCELLED"
  BY StepsAndStates DEF MayAdvance, IInv, Types, Suspended
<1>2. /\ run' \in [state : ToSet(States) \union Suspended \union {"CANCELLED"},
                   resume : ToSet(States) \union {None}]
      /\ run'.state = target /\ run'.resume = None
  BY <1>1 DEF Enter, IInv, Types
<1>3. Ordered'
  BY <1>1, <1>2 DEF IInv, Ordered, After
<1>4. Place' = target
  BY <1>1, <1>2 DEF Place
<1>5. \A s : Been(s)' = Reached(target, s)
  BY <1>1, <1>2, <1>4 DEF Been, Reached
<1>6. Reached(target, "DOCUMENTING") => ImplementationCertified
  BY DEF MayAdvance, Guard, ImplementationCertified
<1>7. Reached(target, "DELIVERY_VALIDATION") => rec.artifact # None
  BY DEF MayAdvance, Guard
<1>8. Reached(target, "COMMITTING") => FinalCertified
  BY DEF MayAdvance, Guard, FinalCertified
<1>9. /\ Reached(target, "PUSHING") => rec.delivery # None
      /\ target = "COMPLETED" =>
         /\ rec.promoted /\ rec.delivery # None
         /\ rec.delivery.attached /\ (given.push => rec.delivery.pushed)
  BY Ranks DEF MayAdvance, Guard, Reached
<1>10. (ImplementationCertified' = ImplementationCertified) /\ (FinalCertified' = FinalCertified)
  BY DEF ImplementationCertified, FinalCertified, Reviewed
<1>11. Earned'
  <2>1. /\ task["documentation"].attempt > 0 => ImplementationCertified
        /\ task["validation"].attempt > 0 => rec.artifact # None
        /\ task["git"].attempt > 0 => FinalCertified
        /\ rec.final # <<>> => task["final"].attempt > 0
        /\ rec.delivery # None => task["git"].attempt > 0
    BY DEF IInv, Earned
  <2> QED
    BY <2>1, <1>2, <1>5, <1>6, <1>7, <1>8, <1>9, <1>10 DEF Earned
<1> QED
  BY <1>1, <1>2, <1>3, <1>5, <1>11

\* A step that may start has the steps before it behind.
LEMMA BehindIt ==
  ASSUME Types, Ordered, NEW s \in Step,
         task[s].attempt > 0 \/ task[s].status \in {"READY", "RUNNING"}
  PROVE  /\ s # "implementation" => task["implementation"].status = "SUCCEEDED"
         /\ s \in {"validation", "final", "git", "memory"} =>
                task["documentation"].status = "SUCCEEDED"
         /\ s \in {"final", "git", "memory"} => task["validation"].status = "SUCCEEDED"
         /\ s \in {"git", "memory"} => task["final"].status = "SUCCEEDED"
<1>1. \A u \in Step : task[u].status = "SUCCEEDED" => task[u].attempt > 0
  BY DEF Types
<1>2. task[s].attempt \in Nat /\ (s # "implementation" => s \in
         {"documentation", "validation", "final", "git", "memory"})
  BY StepsAndStates, DeliveryAssumption DEF Types, Tasks
<1>3. \A u, v \in Step : /\ After(u, v)
                         /\ task[v].attempt > 0 \/ task[v].status \in {"READY", "RUNNING"}
                         => task[u].status = "SUCCEEDED" /\ task[u].attempt > 0
  BY <1>1 DEF After
<1>4. s = "memory" => task["git"].status = "SUCCEEDED" /\ task["git"].attempt > 0
  BY <1>3, StepsAndStates DEF Ordered
<1>5. s \in {"git", "memory"} => task["final"].status = "SUCCEEDED" /\ task["final"].attempt > 0
  BY <1>3, <1>4, StepsAndStates DEF Ordered
<1>6. s \in {"final", "git", "memory"} =>
         task["validation"].status = "SUCCEEDED" /\ task["validation"].attempt > 0
  BY <1>3, <1>5, StepsAndStates DEF Ordered
<1>7. s \in {"validation", "final", "git", "memory"} =>
         task["documentation"].status = "SUCCEEDED" /\ task["documentation"].attempt > 0
  BY <1>3, <1>6, StepsAndStates DEF Ordered
<1>8. s # "implementation" => task["implementation"].status = "SUCCEEDED"
  BY <1>2, <1>3, <1>7, StepsAndStates DEF Ordered
<1> QED
  BY <1>4, <1>5, <1>6, <1>7, <1>8

\* The run is brought to the state of the step.
LEMMA AdvanceRunInv == ASSUME IInv, AdvanceRun PROVE IInv'
<1>1. /\ w.at = "advance" /\ w.step \in Step /\ UNCHANGED <<given, task, rec, proof, world>>
      /\ task[w.step].status \in {"READY", "RUNNING"} \/ run.state = "CANCELLED"
  BY DEF AdvanceRun, At, IInv, Steady, Types, Workers
<1>2. CASE UNCHANGED run /\ Quit
  <2>1. OnlyWorker
    BY <1>1, <1>2 DEF OnlyWorker, capsule, world
  <2> QED
    BY <1>2, <2>1, Quitting, OnlyWorkerInv
<1>3. CASE UNCHANGED run /\ Goto("start") /\ Replayed(StateOf[w.step])
  <2>1. OnlyWorker
    BY <1>1, <1>3 DEF OnlyWorker, capsule, world
  <2>2. w' \in Workers /\ w'.at = "start" /\ w'.step = w.step
    BY <1>3, Going DEF IInv, Places
  <2>3. Been(StateOf[w.step])
    BY <1>3 DEF Replayed, Been, Place
  <2>4. Steady'
    BY <1>1, <1>3, <2>2, <2>3 DEF Steady, Between, Outcome, Reading, Been, Place, Reached
  <2>5. Position'
    BY <2>2 DEF Position, At, Intended
  <2> QED
    BY <2>1, <2>2, <2>4, <2>5, OnlyWorkerInv
<1>4. CASE MayAdvance(StateOf[w.step]) /\ Enter(StateOf[w.step]) /\ Goto("start")
  <2> DEFINE target == StateOf[w.step]
  <2>1. target \in ToSet(States) /\ Reached(target, target)
    BY <1>1, StepsAndStates, Ranks DEF StateOf, Reached
  <2>2. run.state # "CANCELLED"
    BY <1>4, StepsAndStates DEF MayAdvance
  <2>3. /\ Reached(target, "DOCUMENTING") => w.step # "implementation"
        /\ Reached(target, "COMMITTING") => w.step \in {"git", "memory"}
    BY <1>1, StepsAndStates, Ranks DEF StateOf, Reached
  <2>4. /\ Reached(target, "DOCUMENTING") => task["implementation"].status = "SUCCEEDED"
        /\ Reached(target, "COMMITTING") => task["final"].status = "SUCCEEDED"
    BY <1>1, <2>2, <2>3, BehindIt DEF IInv
  <2>5. w' \in Workers /\ w'.at = "start" /\ w'.step = w.step
    BY <1>4, Going DEF IInv, Places
  <2> HIDE DEF target
  <2>6. /\ run' \in [state : ToSet(States) \union Suspended \union {"CANCELLED"},
                      resume : ToSet(States) \union {None}]
        /\ (run'.resume = None) = (run'.state \notin Suspended)
        /\ run'.state = target /\ Ordered' /\ Earned'
        /\ \A s \in ToSet(States) : Been(s)' = Reached(target, s)
    <3>1. MayAdvance(target) /\ Enter(target)
      BY <1>4 DEF target
    <3> QED
      BY <1>1, <2>1, <2>4, <3>1, Entering
  <2>9. Been(StateOf[w.step])'
    BY <2>1, <2>5, <2>6 DEF target, Been, Place, Reached
  <2>7. Steady'
    BY <1>1, <2>2, <2>5, <2>9 DEF Steady, Between, Outcome, Reading, Been, Place, Reached
  <2>8. Position'
    BY <2>5 DEF Position, At, Intended
  <2> QED
    BY <1>1, <2>5, <2>6, <2>7, <2>8, RunMoves
<1> QED
  BY <1>2, <1>3, <1>4 DEF AdvanceRun

\* A suspension.
LEMMA SuspendInv ==
  ASSUME IInv, NEW state \in Suspended, Suspend(state), run.state \notin Terminal, NoneRunning,
         UNCHANGED <<given, task, rec, proof, world>>, w' \in Workers, Steady', Position'
  PROVE  IInv'
<1>1. /\ run' \in [state : ToSet(States) \union Suspended \union {"CANCELLED"},
                   resume : ToSet(States) \union {None}]
      /\ (run'.resume = None) = (run'.state \notin Suspended)
      /\ run'.state = state /\ Place' = Place
  BY Suspending DEF IInv
<1>2. run.state # "CANCELLED" /\ run'.state \notin {"CANCELLED", "COMPLETED"}
  BY <1>1 DEF Terminal, Suspended
<1>3. Ordered'
  BY <1>2 DEF IInv, Ordered, After, NoneRunning
<1>4. \A s : Been(s)' = Been(s)
  BY <1>1, <1>2 DEF Been, Reached
<1>5. Earned'
  BY <1>2, <1>4 DEF IInv, Earned, ImplementationCertified, FinalCertified, Reviewed
<1> QED
  BY <1>1, <1>3, <1>5, RunMoves

\* The run is blocked, if it still goes on and nothing runs in it.
LEMMA BlockRunInv == ASSUME IInv, BlockRun PROVE IInv'
<1>1. Quit /\ UNCHANGED <<given, task, rec, proof, world>>
  BY DEF BlockRun
<1>2. w' \in Workers /\ Steady' /\ Position'
  BY <1>1, Quitting
<1>3. CASE UNCHANGED run
  BY <1>1, <1>2, <1>3, OnlyWorkerInv DEF OnlyWorker, capsule
<1>4. CASE Suspend("BLOCKED") /\ run.state \notin Terminal /\ NoneRunning
  BY <1>1, <1>2, <1>4, SuspendInv DEF Suspended
<1> QED
  BY <1>3, <1>4 DEF BlockRun

\* The run is completed.
LEMMA FinishInv == ASSUME IInv, Finish PROVE IInv'
<1>1. Quit /\ UNCHANGED <<given, task, rec, proof, world>>
  BY DEF Finish
<1>2. w' \in Workers /\ Steady' /\ Position'
  BY <1>1, Quitting
<1>3. CASE UNCHANGED run
  BY <1>1, <1>2, <1>3, OnlyWorkerInv DEF OnlyWorker, capsule
<1>4. CASE MayAdvance("COMPLETED") /\ Enter("COMPLETED")
  <2>1. \A s \in Step : task[s].status = "SUCCEEDED"
    BY <1>4 DEF MayAdvance, Guard
  <2>2. "COMPLETED" \in ToSet(States) /\ {"implementation", "final"} \subseteq Step
    BY StepsAndStates
  <2>3. /\ run' \in [state : ToSet(States) \union Suspended \union {"CANCELLED"},
                      resume : ToSet(States) \union {None}]
        /\ (run'.resume = None) = (run'.state \notin Suspended)
        /\ Ordered' /\ Earned'
    BY <1>1, <1>4, <2>1, <2>2, Entering
  <2> QED
    BY <1>1, <1>2, <2>3, RunMoves
<1> QED
  BY <1>3, <1>4 DEF Finish

\* The run goes on to the push.
LEMMA BeginPushInv == ASSUME IInv, BeginPush PROVE IInv'
<1>1. /\ w.at = "pushing" /\ w.step = "git" /\ UNCHANGED <<given, task, rec, proof, world>>
      /\ task["git"].attempt > 0 /\ (Working \/ run.state = "CANCELLED")
  BY StepOfPlace DEF BeginPush, At, IInv, Steady, Between
<1>2. CASE UNCHANGED run /\ Goto("failed")
  BY <1>1, <1>2, EndInv DEF OnlyWorker, capsule, Between
<1>3. CASE UNCHANGED run /\ Goto("push") /\ rec.delivery # None
  <2>1. OnlyWorker
    BY <1>1, <1>3 DEF OnlyWorker, capsule
  <2> QED
    BY <1>1, <1>3, <2>1, WithinGit DEF PlacesOf, Reading, Position, At, Intended
<1>4. CASE MayAdvance("PUSHING") /\ Enter("PUSHING") /\ Goto("push")
  <2>1. "PUSHING" \in ToSet(States) /\ "git" \in Step
    BY StepsAndStates
  <2>2. /\ task["implementation"].status = "SUCCEEDED"
        /\ task["final"].status = "SUCCEEDED"
    BY <1>1, <2>1, BehindIt DEF IInv
  <2>3. rec.delivery # None /\ run.state # "CANCELLED"
    BY <1>4, Ranks, StepsAndStates DEF MayAdvance, Guard, Reached
  <2>4. /\ run' \in [state : ToSet(States) \union Suspended \union {"CANCELLED"},
                      resume : ToSet(States) \union {None}]
        /\ (run'.resume = None) = (run'.state \notin Suspended)
        /\ run'.state = "PUSHING" /\ Ordered' /\ Earned'
    BY <1>1, <1>4, <2>1, <2>2, Entering
  <2>5. w' \in Workers /\ w'.at = "push" /\ w'.step = "git"
    BY <1>1, <1>4, Going DEF IInv, Places
  <2>6. Steady'
    BY <1>1, <2>3, <2>5 DEF Steady, Between, Outcome, Reading, PlacesOf, Working
  <2>7. Position'
    BY <1>1, <2>3, <2>5 DEF Position, At, Intended
  <2> QED
    BY <1>1, <2>4, <2>5, <2>6, <2>7, RunMoves
<1>5. run.state = "PUSHING" \/ Replayed("PUSHING") => rec.delivery # None
  <2>1. run.state = "PUSHING" \/ Replayed("PUSHING") => Been("PUSHING")
    BY Ranks DEF Replayed, Been, Place, Reached, Suspended
  <2> QED
    BY <2>1 DEF IInv, Earned
<1> QED
  BY <1>2, <1>3, <1>4, <1>5 DEF BeginPush

\* A pause, or the end of one, finds finalize between two steps.
LEMMA NothingRuns ==
  ASSUME IInv, NoneRunning, run.state # "CANCELLED"
  PROVE  w.at \in Between
BY DEF IInv, Types, Workers, Steady, NoneRunning, Working

\* The operator pauses the run.
LEMMA PauseInv == ASSUME IInv, Pause PROVE IInv'
<1>1. /\ Suspend("PAUSED") /\ NoneRunning /\ run.state \notin Terminal
      /\ UNCHANGED <<given, task, rec, proof, world, w>>
  BY DEF Pause, OnlyRun
<1>2. w.at \in Between
  BY <1>1, NothingRuns DEF Terminal
<1>3. run'.state = "PAUSED" /\ Place' = Place
  BY <1>1, Suspending DEF IInv, Suspended
<1>4. Position'
  BY <1>1, <1>2 DEF Position, At, Between, Intended
<1>5. Steady'
  BY <1>1, <1>2, <1>3 DEF IInv, Steady, Between, Outcome, Reading, Been, Reached, Terminal
<1> QED
  BY <1>1, <1>4, <1>5, SuspendInv DEF Suspended, IInv, Types

\* The operator resumes the run.
LEMMA ResumeInv == ASSUME IInv, Resume PROVE IInv'
<1>1. /\ run.state \in Suspended /\ Guard(run.resume) /\ run' = [state |-> run.resume, resume |-> None]
      /\ UNCHANGED <<given, task, rec, proof, world, w>>
  BY DEF Resume, OnlyRun
<1>2. run.resume \in ToSet(States) /\ run.state # "CANCELLED" /\ run.state \notin ToSet(States)
  BY <1>1, StepsAndStates, MarkAssumption DEF IInv, Types, Suspended
<1>3. w.at \in Between
  BY <1>2, NothingRuns DEF IInv, Ordered
<1>4. /\ run' \in [state : ToSet(States) \union Suspended \union {"CANCELLED"},
                   resume : ToSet(States) \union {None}]
      /\ run'.state \in ToSet(States) /\ run'.state \notin Suspended /\ run'.state # "CANCELLED"
      /\ run'.resume = None /\ Place' = Place
  BY <1>1, <1>2, StepsAndStates DEF Place, Suspended
<1>5. \A s : Been(s)' = Been(s)
  BY <1>2, <1>4 DEF Been, Reached
<1>6. Ordered'
  BY <1>1, <1>4 DEF IInv, Ordered, After
<1>7. run.resume = "COMPLETED" =>
         /\ rec.promoted /\ rec.delivery # None
         /\ rec.delivery.attached /\ (given.push => rec.delivery.pushed)
  BY <1>1, Ranks DEF Guard, Reached
<1>8. Earned'
  BY <1>1, <1>4, <1>5, <1>7 DEF IInv, Earned, ImplementationCertified, FinalCertified, Reviewed
<1>9. Position'
  BY <1>1, <1>3 DEF Position, At, Between, Intended
<1>10. Steady'
  BY <1>1, <1>2, <1>3, <1>4 DEF IInv, Steady, Between, Outcome, Reading, Been, Reached
<1> QED
  BY <1>1, <1>4, <1>6, <1>8, <1>9, <1>10, RunMoves DEF IInv, Types

-----------------------------------------------------------------------------
(* Steps that move the tasks. *)

\* Only the tasks and the worker move.
LEMMA TasksMove ==
  ASSUME IInv, UNCHANGED <<given, run, rec, proof, world>>, task' \in [Step -> Tasks],
         \A s \in Step :
             /\ task'[s].status = "PENDING" => task'[s].attempt = 0
             /\ task'[s].status = "READY" => task'[s].attempt < MaxAttempts
             /\ task'[s].status \in {"RUNNING", "SUCCEEDED", "BLOCKED"} => task'[s].attempt > 0,
         w' \in Workers, Ordered', Earned', Steady', Position'
  PROVE  IInv'
<1>1. UNCHANGED <<tree, head, remote, edits, crashes, swapped>>
  BY DEF world
<1>2. Types'
  BY <1>1 DEF IInv, Types
<1>3. Inspected' /\ Committed'
  BY <1>1, SameInspected, SameCommitted DEF IInv, Certificate
<1> QED
  BY <1>2, <1>3 DEF IInv

\* A task that is ready, running or blocked becomes another of these.
LEMMA TaskGoesOn ==
  ASSUME IInv, UNCHANGED <<given, run, rec, proof, world>>, NEW s \in Step, NEW t \in Tasks,
         task[s].status \in {"READY", "RUNNING", "BLOCKED"},
         t.status \in {"READY", "RUNNING", "BLOCKED"},
         task' = [task EXCEPT ![s] = t],
         t.status = "READY" => t.attempt < MaxAttempts,
         t.status # "READY" => t.attempt > 0,
         t.status = "RUNNING" => run.state \in ToSet(States),
         task[s].attempt > 0 => t.attempt > 0,
         t.attempt > 0 => task[s].attempt > 0 \/ Been(StateOf[s]),
         w' \in Workers, Steady', Position'
  PROVE  IInv'
<1>1. /\ task \in [Step -> Tasks] /\ task' \in [Step -> Tasks] /\ task'[s] = t
      /\ \A u \in Step \ {s} : task'[u] = task[u]
  BY DEF IInv, Types
<1>2. \A u \in Step : task'[u].status = "SUCCEEDED" <=> task[u].status = "SUCCEEDED"
  BY <1>1
<1>3. \A u, v \in Step : After(u, v) => After(u, v)'
  BY <1>1, <1>2 DEF After
<1>4. run.state # "CANCELLED"
  BY DEF IInv, Ordered
<1>5. NoneRunning => t.status = "RUNNING" \/ NoneRunning'
  BY <1>1 DEF NoneRunning
<1>6. Ordered'
  BY <1>3, <1>4, <1>5, StepsAndStates DEF IInv, Ordered
<1>7. \A x : Been(x)' = Been(x)
  BY DEF Been, Place, Reached
<1>8. /\ (ImplementationCertified' = ImplementationCertified)
      /\ (FinalCertified' = FinalCertified)
  BY DEF ImplementationCertified, FinalCertified, Reviewed
<1>9. /\ task'["documentation"].attempt > 0 =>
             task["documentation"].attempt > 0 \/ Been("DOCUMENTING")
      /\ task'["validation"].attempt > 0 =>
             task["validation"].attempt > 0 \/ Been("DELIVERY_VALIDATION")
      /\ task'["git"].attempt > 0 => task["git"].attempt > 0 \/ Been("COMMITTING")
      /\ task["final"].attempt > 0 => task'["final"].attempt > 0
      /\ task["git"].attempt > 0 => task'["git"].attempt > 0
  BY <1>1, StepsAndStates DEF StateOf
<1>10. Earned'
  BY <1>2, <1>7, <1>8, <1>9, StepsAndStates DEF IInv, Earned
<1>11. \A u \in Step :
             /\ task'[u].status = "PENDING" => task'[u].attempt = 0
             /\ task'[u].status = "READY" => task'[u].attempt < MaxAttempts
             /\ task'[u].status \in {"RUNNING", "SUCCEEDED", "BLOCKED"} => task'[u].attempt > 0
  BY <1>1 DEF IInv, Types
<1> QED
  BY <1>1, <1>6, <1>10, <1>11, TasksMove

\* An attempt is taken up or started.
LEMMA StartInv == ASSUME IInv, Start PROVE IInv'
<1>1. /\ w.at = "start" /\ w.step \in Step /\ UNCHANGED <<given, run, rec, proof, world>>
      /\ task[w.step].status \in {"READY", "RUNNING"} \/ run.state = "CANCELLED"
      /\ Been(StateOf[w.step]) \/ run.state = "CANCELLED"
  BY DEF Start, At, IInv, Steady, Types, Workers
<1>2. CASE UNCHANGED task /\ Quit
  BY <1>1, <1>2, Quitting, OnlyWorkerInv DEF OnlyWorker, capsule
<1>3. ASSUME Goto(w.step)
      PROVE  /\ w' \in Workers /\ w'.at = w.step /\ w'.step = w.step /\ Position'
             /\ task'[w.step].status = "RUNNING" /\ task'[w.step].attempt > 0 => Steady'
  <2>1. w' \in Workers /\ w'.at = w.step /\ w'.step = w.step
    BY <1>1, <1>3, Going, StepsAndStates DEF IInv, Places
  <2>2. Position'
    BY <1>1, <2>1, StepsAndStates DEF Position, At, Intended
  <2>3. w.step \in PlacesOf[w.step] /\ w.step \notin Reading \union {"advance", "start", "evaluate", "check"}
    BY <1>1, StepsAndStates DEF PlacesOf, Reading
  <2>4. task'[w.step].status = "RUNNING" /\ task'[w.step].attempt > 0 => Steady'
    BY <2>1, <2>3 DEF Steady, Working
  <2> QED
    BY <2>1, <2>2, <2>4
<1>4. CASE Working /\ UNCHANGED task /\ Goto(w.step)
  <2>1. task'[w.step].status = "RUNNING" /\ task'[w.step].attempt > 0
    BY <1>1, <1>4 DEF Working, IInv, Types
  <2> QED
    BY <1>1, <1>3, <1>4, <2>1, OnlyWorkerInv DEF OnlyWorker, capsule
<1>5. CASE /\ task[w.step].status = "READY" /\ run.state \in ToSet(States) /\ Goto(w.step)
           /\ task' = [task EXCEPT ![w.step] = [status |-> "RUNNING", attempt |-> @.attempt + 1]]
  <2> DEFINE t == [status |-> "RUNNING", attempt |-> task[w.step].attempt + 1]
  <2>1. task[w.step] \in Tasks /\ task[w.step].attempt < MaxAttempts
    BY <1>1, <1>5 DEF IInv, Types
  <2>2. t \in Tasks /\ t.attempt > 0 /\ t.status = "RUNNING"
    BY <2>1, DeliveryAssumption DEF Tasks, Statuses
  <2>3. task' = [task EXCEPT ![w.step] = t] /\ task'[w.step] = t
    BY <1>1, <1>5 DEF IInv, Types
  <2>4. Been(StateOf[w.step])
    BY <1>1, <1>5, StepsAndStates
  <2> HIDE DEF t
  <2> QED
    BY <1>1, <1>3, <1>5, <2>2, <2>3, <2>4, TaskGoesOn
<1> QED
  BY <1>2, <1>4, <1>5 DEF Start

\* The step fails.
LEMMA FailedInv == ASSUME IInv, Failed PROVE IInv'
<1>1. /\ w.at = "failed" /\ w.step \in Step /\ UNCHANGED <<given, run, rec, proof, world>>
      /\ Working \/ run.state = "CANCELLED"
  BY DEF Failed, At, IInv, Steady, Types, Workers, Between
<1>2. CASE UNCHANGED task /\ Quit
  BY <1>1, <1>2, Quitting, OnlyWorkerInv DEF OnlyWorker, capsule
<1>3. CASE /\ run.state \notin Terminal /\ Goto("block")
           /\ task' = [task EXCEPT ![w.step].status = "BLOCKED"]
  <2> DEFINE t == [task[w.step] EXCEPT !.status = "BLOCKED"]
  <2>1. task[w.step] \in Tasks /\ task[w.step].status = "RUNNING" /\ task[w.step].attempt > 0
    BY <1>1, <1>3 DEF IInv, Types, Working, Terminal
  <2>2. t \in Tasks /\ t.status = "BLOCKED" /\ t.attempt = task[w.step].attempt
    BY <2>1 DEF Tasks, Statuses
  <2>3. task' = [task EXCEPT ![w.step] = t]
    BY <1>1, <1>3 DEF IInv, Types
  <2>4. w' \in Workers /\ Steady' /\ Position'
    BY <1>3, Going, BetweenSteps DEF IInv, Places, Between
  <2> HIDE DEF t
  <2> QED
    BY <1>1, <2>1, <2>2, <2>3, <2>4, TaskGoesOn
<1> QED
  BY <1>2, <1>3 DEF Failed

\* The owner retries a step.
LEMMA RecoverInv == ASSUME IInv, NEW s \in Step, Recover(s) PROVE IInv'
<1>1. /\ w.at = "idle" /\ task[s].status \in {"RUNNING", "BLOCKED"}
      /\ task[s].attempt < MaxAttempts /\ task' = [task EXCEPT ![s].status = "READY"]
      /\ UNCHANGED <<given, run, rec, proof, world, w>>
  BY DEF Recover, At
<1> DEFINE t == [task[s] EXCEPT !.status = "READY"]
<1>2. task[s] \in Tasks /\ task[s].attempt > 0
  BY <1>1 DEF IInv, Types
<1>3. t \in Tasks /\ t.status = "READY" /\ t.attempt = task[s].attempt
  BY <1>2 DEF Tasks, Statuses
<1>4. task' = [task EXCEPT ![s] = t]
  BY <1>1 DEF IInv, Types
<1>5. w' \in Workers /\ w'.at = "idle"
  BY <1>1 DEF IInv, Types
<1>6. Steady' /\ Position'
  BY <1>5, BetweenSteps DEF Between
<1> HIDE DEF t
<1> QED
  BY <1>1, <1>2, <1>3, <1>4, <1>5, <1>6, TaskGoesOn

\* The step after another.
LEMMA NextOfStep ==
  ASSUME NEW u \in Step, NEW s \in Step
  PROVE  (\E n \in DOMAIN Steps : Steps[n] = u /\ n + 1 \in DOMAIN Steps /\ Steps[n + 1] = s)
         <=> \/ u = "implementation" /\ s = "documentation"
             \/ u = "documentation" /\ s = "validation"
             \/ u = "validation" /\ s = "final"
             \/ u = "final" /\ s = "git"
             \/ u = "git" /\ s = "memory"
<1>1. /\ Steps[1] = "implementation" /\ Steps[2] = "documentation" /\ Steps[3] = "validation"
      /\ Steps[4] = "final" /\ Steps[5] = "git" /\ Steps[6] = "memory"
  BY DEF Steps
<1>2. \A n \in 1..6 : n = 1 \/ n = 2 \/ n = 3 \/ n = 4 \/ n = 5 \/ n = 6
  OBVIOUS
<1>3. \A n \in DOMAIN Steps : Steps[n] = u /\ n + 1 \in DOMAIN Steps /\ Steps[n + 1] = s =>
             \/ u = "implementation" /\ s = "documentation"
             \/ u = "documentation" /\ s = "validation"
             \/ u = "validation" /\ s = "final"
             \/ u = "final" /\ s = "git"
             \/ u = "git" /\ s = "memory"
  BY <1>1, <1>2, StepsAndStates
<1>4. /\ 1 \in DOMAIN Steps /\ 2 \in DOMAIN Steps /\ 3 \in DOMAIN Steps
      /\ 4 \in DOMAIN Steps /\ 5 \in DOMAIN Steps /\ 6 \in DOMAIN Steps
      /\ 1 + 1 = 2 /\ 2 + 1 = 3 /\ 3 + 1 = 4 /\ 4 + 1 = 5 /\ 5 + 1 = 6
  BY StepsAndStates
<1> QED
  BY <1>1, <1>3, <1>4

\* The attempt succeeds, and the next step may start.
LEMMA DoneInv == ASSUME IInv, Done PROVE IInv'
<1>1. /\ w.at = "done" /\ w.step \in Step /\ UNCHANGED <<given, run, rec, proof, world>>
  BY DEF Done, At, IInv, Types, Workers
<1>2. CASE UNCHANGED task /\ Goto("failed")
  BY <1>1, <1>2, EndInv DEF OnlyWorker, capsule, Between
<1>3. CASE Working /\ Goto("next")
  <2> DEFINE isNext(s) == \E n \in DOMAIN Steps :
                Steps[n] = w.step /\ n + 1 \in DOMAIN Steps /\ Steps[n + 1] = s
  <2>1. task' = [s \in Step |->
                 IF s = w.step THEN [task[s] EXCEPT !.status = "SUCCEEDED"]
                 ELSE IF task[s].status = "PENDING" /\ isNext(s)
                 THEN [task[s] EXCEPT !.status = "READY"]
                 ELSE task[s]]
    BY <1>3 DEF Done
  <2>2. \A s \in Step : isNext(s) <=> \/ w.step = "implementation" /\ s = "documentation"
                                      \/ w.step = "documentation" /\ s = "validation"
                                      \/ w.step = "validation" /\ s = "final"
                                      \/ w.step = "final" /\ s = "git"
                                      \/ w.step = "git" /\ s = "memory"
    BY <1>1, NextOfStep
  <2> HIDE DEF isNext
  <2>3. /\ task \in [Step -> Tasks] /\ task[w.step].status = "RUNNING" /\ task[w.step].attempt > 0
        /\ \A s \in Step : task[s].status = "PENDING" => task[s].attempt = 0
    BY <1>1, <1>3 DEF IInv, Types, Working
  <2>4. /\ task' \in [Step -> Tasks]
        /\ task'[w.step].status = "SUCCEEDED"
        /\ \A s \in Step :
               /\ task'[s].attempt = task[s].attempt
               /\ s # w.step =>
                     \/ task'[s] = task[s]
                     \/ task[s].status = "PENDING" /\ task'[s].status = "READY" /\ isNext(s)
    BY <1>1, <2>1, <2>3 DEF Tasks, Statuses
  <2>5. \A s \in Step : task[s].status = "SUCCEEDED" => task'[s].status = "SUCCEEDED"
    BY <2>3, <2>4
  <2>6. \A s \in Step :
             /\ task'[s].status = "PENDING" => task'[s].attempt = 0
             /\ task'[s].status = "READY" => task'[s].attempt < MaxAttempts
             /\ task'[s].status \in {"RUNNING", "SUCCEEDED", "BLOCKED"} => task'[s].attempt > 0
    BY <2>3, <2>4, DeliveryAssumption DEF IInv, Types
  <2>7. \A u, s \in Step : (u # w.step => ~ isNext(s)) /\ After(u, s) => After(u, s)'
    BY <2>3, <2>4, <2>5 DEF After
  <2>9. /\ After("implementation", "documentation")' /\ After("documentation", "validation")'
        /\ After("validation", "final")' /\ After("final", "git")' /\ After("git", "memory")'
    <3>1. /\ "implementation" # w.step => ~ isNext("documentation")
          /\ "documentation" # w.step => ~ isNext("validation")
          /\ "validation" # w.step => ~ isNext("final")
          /\ "final" # w.step => ~ isNext("git")
          /\ "git" # w.step => ~ isNext("memory")
      BY <2>2, StepsAndStates
    <3> QED
      BY <2>7, <3>1, StepsAndStates DEF IInv, Ordered
  <2>10. run.state \in ToSet(States) /\ run.state # "CANCELLED"
    BY <1>1, <2>3, StepsAndStates DEF IInv, Ordered, NoneRunning
  <2>11. Ordered'
    BY <1>1, <2>9, <2>10 DEF Ordered
  <2>12. \A x : Been(x)' = Been(x)
    BY <1>1 DEF Been, Place, Reached
  <2>13. Earned'
    BY <1>1, <2>4, <2>5, <2>12, StepsAndStates
       DEF IInv, Earned, ImplementationCertified, FinalCertified, Reviewed
  <2>14. w' \in Workers /\ Steady' /\ Position'
    BY <1>3, Going, BetweenSteps DEF IInv, Places, Between
  <2> QED
    BY <1>1, <2>4, <2>6, <2>11, <2>13, <2>14, TasksMove
<1> QED
  BY <1>2, <1>3 DEF Done

\* The run is cancelled, and its tasks with it.
LEMMA CancelInv == ASSUME IInv, Cancel PROVE IInv'
<1>1. /\ Unlocked /\ run.state \notin Terminal /\ run' = [state |-> "CANCELLED", resume |-> None]
      /\ task' = [s \in Step |-> IF task[s].status = "SUCCEEDED" THEN task[s]
                                 ELSE [task[s] EXCEPT !.status = "CANCELLED"]]
      /\ UNCHANGED <<given, rec, proof, tree, head, remote, edits, crashes, swapped, w>>
  BY DEF Cancel, world
<1>2. /\ task \in [Step -> Tasks] /\ task' \in [Step -> Tasks]
      /\ \A s \in Step :
             /\ task'[s].attempt = task[s].attempt
             /\ task'[s].status = IF task[s].status = "SUCCEEDED" THEN "SUCCEEDED" ELSE "CANCELLED"
  BY <1>1 DEF IInv, Types, Tasks, Statuses
<1>3. Types'
  BY <1>1, <1>2 DEF IInv, Types, Suspended
<1>4. \A u, v \in Step : After(u, v) => After(u, v)'
  BY <1>2 DEF After
<1>5. Ordered'
  BY <1>1, <1>2, <1>4, StepsAndStates DEF IInv, Ordered, NoneRunning
<1>6. \A x : ~ Been(x)'
  BY <1>1 DEF Been
<1>7. Earned'
  BY <1>1, <1>2, <1>6, StepsAndStates
     DEF IInv, Earned, ImplementationCertified, FinalCertified, Reviewed
<1>8. Steady'
  <2>1. w.step \in Step /\ (Key' = Key) /\ run'.state = "CANCELLED"
    BY <1>1, <1>2 DEF IInv, Types, Workers, Key, Attempt
  <2> QED
    BY <1>1, <1>2, <2>1 DEF IInv, Steady, Between, Outcome, Working, Terminal
<1>9. Position'
  BY <1>1 DEF IInv, Position, Unlocked, At, Certificate, Reviewed
<1>10. Inspected' /\ Committed'
  BY <1>1, SameInspected, SameCommitted DEF IInv, Certificate
<1> QED
  BY <1>3, <1>5, <1>7, <1>8, <1>9, <1>10 DEF IInv

-----------------------------------------------------------------------------
(* Steps that add to the record. *)

\* Only the evidence and the worker move.
LEMMA ProofMoves ==
  ASSUME IInv, UNCHANGED <<given, run, task, rec, world>>, proof' \in Proofs,
         proof'.evidence \subseteq proof'.started, w' \in Workers, Steady', Position'
  PROVE  IInv'
<1>1. UNCHANGED <<tree, head, remote, edits, crashes, swapped>>
  BY DEF world
<1>2. Types'
  BY <1>1 DEF IInv, Types
<1>3. Ordered' /\ Earned' /\ Inspected' /\ Committed'
  BY <1>1, SameOrder, SameEarned, SameInspected, SameCommitted DEF IInv, Certificate
<1> QED
  BY <1>2, <1>3 DEF IInv

\* The attempt that finalize works on.
LEMMA AttemptOfStep ==
  ASSUME IInv, w.at \notin Between
  PROVE  Attempt \in 1..MaxAttempts /\ task[w.step].status \in {"RUNNING", "CANCELLED"}
<1>1. w.step \in Step /\ task \in [Step -> Tasks]
  BY DEF IInv, Types, Workers
<1> QED
  BY <1>1, DeliveryAssumption DEF IInv, Steady, Attempt, Working, Tasks

\* Evidence that is there is taken; otherwise its making begins.
LEMMA BeginCriterionInv == ASSUME IInv, BeginCriterion PROVE IInv'
<1>1. /\ w.at = "criterion" /\ w.step = "validation" /\ w.seen \in Tree
      /\ UNCHANGED <<given, run, task, rec, world>>
  BY StepOfPlace DEF BeginCriterion, At, IInv, Steady, Reading
<1>2. w.at \notin Between
  BY <1>1 DEF Between
<1>3. CASE UNCHANGED proof /\ Goto("failed")
  BY <1>1, <1>2, <1>3, EndInv DEF OnlyWorker, capsule
<1>4. CASE UNCHANGED proof /\ Goto("conclude")
  <2>1. w' \in Workers /\ w'.at = "conclude" /\ w'.step = w.step /\ w'.seen = w.seen
    BY <1>4, Going DEF IInv, Places
  <2>2. Position'
    BY <2>1 DEF Position, At, Intended
  <2>3. OnlyWorker
    BY <1>1, <1>4 DEF OnlyWorker, capsule
  <2> QED
    BY <1>1, <1>2, <2>1, <2>2, <2>3, WithinStep DEF Places, Between, Outcome, PlacesOf
<1>5. CASE /\ proof' = [proof EXCEPT !.criterion = "TESTING", !.started = @ \union {Key}]
           /\ Goto("evaluate")
  <2>1. w' \in Workers /\ w'.at = "evaluate" /\ w'.step = w.step /\ w'.seen = w.seen
    BY <1>5, Going DEF IInv, Places
  <2>2. Key \in Keys /\ Key' = Key
    BY <1>1, <1>2, <2>1, AttemptOfStep DEF Key, Keys, Attempt
  <2>3. proof' \in Proofs /\ proof'.evidence \subseteq proof'.started /\ Key \in proof'.started
    BY <1>5, <2>2 DEF IInv, Types, Proofs
  <2>4. Position'
    BY <2>1 DEF Position, At, Intended
  <2>5. Steady'
    BY <1>1, <1>2, <2>1, <2>2, <2>3 DEF IInv, Steady, Between, Outcome, PlacesOf, Working
  <2> QED
    BY <1>1, <2>1, <2>3, <2>4, <2>5, ProofMoves
<1> QED
  BY <1>3, <1>4, <1>5 DEF BeginCriterion

\* The tests have run.
LEMMA EvaluateInv == ASSUME IInv, NEW outcome \in {"PASS", "FAIL"}, Evaluate(outcome) PROVE IInv'
<1>1. /\ w.at = "evaluate" /\ w.step = "validation" /\ w.seen \in Tree /\ Key \in proof.started
      /\ UNCHANGED <<given, run, task, rec, world>>
  BY StepOfPlace DEF Evaluate, At, IInv, Steady, Reading
<1>2. w.at \notin Between
  BY <1>1 DEF Between
<1>3. proof' = [proof EXCEPT !.evidence = @ \union {Key},
                  !.criterion = IF run.state = "CANCELLED" THEN "PENDING" ELSE outcome]
  BY DEF Evaluate
<1>4. Key \in Keys
  BY <1>1, <1>2, AttemptOfStep DEF Key, Keys
<1>5. proof' \in Proofs /\ proof'.evidence \subseteq proof'.started
  <2> DEFINE c == IF run.state = "CANCELLED" THEN "PENDING" ELSE outcome
  <2>1. c \in {"PASS", "FAIL", "TESTING", "PENDING"}
    OBVIOUS
  <2>2. proof' = [proof EXCEPT !.evidence = @ \union {Key}, !.criterion = c]
    BY <1>3
  <2> HIDE DEF c
  <2> QED
    BY <1>1, <1>4, <2>1, <2>2 DEF IInv, Types, Proofs
<1>6. CASE Goto("conclude")
  <2>1. w' \in Workers /\ w'.at = "conclude" /\ w'.step = w.step /\ w'.seen = w.seen
    BY <1>6, Going DEF IInv, Places
  <2>2. Position'
    BY <2>1 DEF Position, At, Intended
  <2>3. Steady'
    BY <1>1, <1>2, <2>1 DEF IInv, Steady, Between, Outcome, PlacesOf, Working
  <2> QED
    BY <1>1, <1>5, <2>1, <2>2, <2>3, ProofMoves
<1>7. CASE Goto("failed")
  <2>1. w' \in Workers /\ w'.at = "failed" /\ w'.step = w.step
    BY <1>7, Going DEF IInv, Places
  <2>2. Steady' /\ Position'
    BY <1>1, <1>2, <2>1, StepEnds DEF IInv, Outcome
  <2> QED
    BY <1>1, <1>5, <2>1, <2>2, ProofMoves
<1> QED
  BY <1>6, <1>7 DEF Evaluate

\* Only the record and the worker move.
LEMMA RecordMoves ==
  ASSUME IInv, UNCHANGED <<given, run, task, proof, world>>, rec' \in Recs,
         w' \in Workers, Earned', Inspected', Committed', Steady', Position'
  PROVE  IInv'
<1>1. UNCHANGED <<tree, head, remote, edits, crashes, swapped>>
  BY DEF world
<1>2. Types'
  BY <1>1 DEF IInv, Types
<1>3. Ordered'
  BY SameOrder DEF IInv
<1> QED
  BY <1>2, <1>3 DEF IInv

\* A step that is worked on is not done, and nothing after it has begun.
LEMMA NothingAfter ==
  ASSUME IInv, w.at \notin Between
  PROVE  /\ w.step \in {"implementation", "validation"} =>
                rec.final = <<>> /\ task["final"].attempt = 0
         /\ w.step \in {"implementation", "validation", "final"} =>
                rec.delivery = None /\ task["git"].attempt = 0 /\ ~ Been("COMMITTING")
         /\ w.step = "implementation" =>
                task["documentation"].attempt = 0 /\ ~ Been("DOCUMENTING")
<1>1. w.step \in Step /\ task[w.step].status # "SUCCEEDED"
  BY AttemptOfStep DEF IInv, Types, Workers
<1>2. \A s \in Step : task[s].attempt \in Nat
  BY DeliveryAssumption DEF IInv, Types, Tasks
<1>3. /\ w.step = "implementation" => task["documentation"].attempt = 0
      /\ w.step \in {"implementation", "validation"} => task["final"].attempt = 0
      /\ w.step \in {"implementation", "validation", "final"} => task["git"].attempt = 0
  BY <1>1, <1>2, BehindIt, StepsAndStates DEF IInv
<1>4. /\ w.step = "implementation" => ~ Been("DOCUMENTING")
      /\ w.step = "final" => ~ Been("COMMITTING")
  BY <1>1 DEF IInv, Earned
<1>5. Been("COMMITTING") => task["final"].status = "SUCCEEDED"
  BY DEF IInv, Earned
<1>6. task["final"].status = "SUCCEEDED" => task["final"].attempt > 0
  BY StepsAndStates DEF IInv, Types
<1> QED
  BY <1>3, <1>4, <1>5, <1>6 DEF IInv, Earned

\* The last validation is of a workspace.
LEMMA LastValidation ==
  ASSUME IInv, rec.validations # <<>>
  PROVE  /\ Len(rec.validations) \in 1..Len(rec.validations)
         /\ Last(rec.validations) = rec.validations[Len(rec.validations)]
         /\ Last(rec.validations).tree \in Tree
<1> DEFINE V == [attempt : 1..MaxAttempts, before : Tree, tree : Tree, passed : BOOLEAN]
<1>1. rec.validations \in Seq(V)
  BY DEF IInv, Types, Recs, Validations
<1>2. /\ Len(rec.validations) \in 1..Len(rec.validations)
      /\ Last(rec.validations) = rec.validations[Len(rec.validations)]
      /\ Last(rec.validations) \in V
  BY <1>1, LastIsOne
<1> QED
  BY <1>2

\* The report of an inspection.
LEMMA ReportOf ==
  ASSUME IInv, w.at = "digest"
  PROVE  /\ Report \in [attempt : 1..MaxAttempts, tree : Tree \union {Unverified},
                        code : Code, passed : BOOLEAN]
         /\ Report.passed =>
                /\ Report.code \notin Flagged
                /\ w.step = "final" => Report.code = Last(rec.implementation).code
         /\ Report.code = w.seen.code
         /\ Report.tree \in Tree => Report.tree = tree
<1>1. w.seen \in Tree /\ w.seen.code \in Code /\ tree \in Tree
  BY DEF IInv, Steady, Reading, Types, Tree
<1>2. Attempt \in 1..MaxAttempts
  BY AttemptOfStep DEF Between
<1>3. Digest \in Tree \union {Unverified} /\ (Digest \in Tree => Digest = tree)
  BY <1>1, MarkAssumption DEF Digest, Unverified
<1> DEFINE passed == /\ w.seen.code \notin Flagged
                     /\ Digest # Unverified
                     /\ w.step = "final" => w.seen.code = Last(rec.implementation).code
<1>4. Report = [attempt |-> Attempt, tree |-> Digest, code |-> w.seen.code, passed |-> passed]
  BY DEF Report
<1>5. passed \in BOOLEAN
  OBVIOUS
<1>6. passed => /\ w.seen.code \notin Flagged
                /\ w.step = "final" => w.seen.code = Last(rec.implementation).code
  OBVIOUS
<1> HIDE DEF passed
<1> QED
  BY <1>1, <1>2, <1>3, <1>4, <1>5, <1>6

\* A report of the implementation is added: nothing relies on the last one yet.
LEMMA ImplementationReported ==
  ASSUME IInv, w.at = "digest", w.step = "implementation",
         rec' = [rec EXCEPT !.implementation = Append(@, Report)],
         UNCHANGED <<given, run, task, proof, world>>
  PROVE  rec' \in Recs /\ Earned' /\ Inspected' /\ Committed'
<1>1. /\ rec \in Recs /\ rec.implementation \in Reports
      /\ UNCHANGED <<tree, head, remote, edits, crashes, swapped>>
  BY DEF IInv, Types, Recs, world
<1>2. /\ rec'.implementation = Append(rec.implementation, Report)
      /\ rec'.final = rec.final /\ rec'.artifact = rec.artifact
      /\ rec'.validations = rec.validations /\ rec'.delivery = rec.delivery
      /\ rec'.promoted = rec.promoted
  BY <1>1 DEF Recs
<1>3. rec' \in Recs
  <2>1. Append(rec.implementation, Report) \in Reports
    BY <1>1, ReportOf, AppendProperties DEF Reports
  <2> QED
    BY <1>1, <2>1 DEF Recs
<1>4. /\ rec.final = <<>> /\ rec.delivery = None /\ task["final"].attempt = 0
      /\ task["git"].attempt = 0 /\ task["documentation"].attempt = 0
      /\ ~ Been("COMMITTING") /\ ~ Been("DOCUMENTING")
  BY NothingAfter DEF Between
<1>5. \A x : Been(x)' = Been(x)
  BY DEF Been, Place, Reached
<1>6. Earned'
  <2>1. ~ (0 > 0)
    OBVIOUS
  <2> QED
    BY <1>2, <1>4, <1>5, <2>1 DEF IInv, Earned
<1>7. Committed'
  BY <1>1, <1>2, <1>4 DEF IInv, Committed
<1>8. Reviewed \in Tree /\ Reviewed.code = given.code
  BY DEF IInv, Types, Reviewed, Tree
<1>9. ImplementationReport(Report)
  <2>1. Report.passed => Report.code \notin Flagged
    BY ReportOf
  <2>2. ~ swapped /\ Report.tree = Reviewed => Report.code = given.code
    BY <1>8, ReportOf DEF IInv, Position, At
  <2> QED
    BY <2>1, <2>2 DEF ImplementationReport
<1>10. \A i \in 1..Len(rec'.implementation) : ImplementationReport(rec'.implementation[i])
  <2>1. /\ Len(rec'.implementation) = Len(rec.implementation) + 1
        /\ \A i \in 1..Len(rec.implementation) : rec'.implementation[i] = rec.implementation[i]
        /\ rec'.implementation[Len(rec.implementation) + 1] = Report
        /\ Len(rec.implementation) \in Nat
    BY <1>1, <1>2, ReportOf, AppendProperties, LenProperties DEF Reports
  <2> QED
    BY <1>9, <2>1 DEF IInv, Inspected
<1>11. Inspected'
  <2>1. (\A i \in 1..Len(rec.implementation) : ImplementationReport(rec.implementation[i]))'
    BY <1>1, <1>10 DEF ImplementationReport, Reviewed
  <2>2. rec'.final = <<>> /\ Len(rec'.final) = 0
    BY <1>2, <1>4, EmptySeq
  <2>3. 1..0 = {}
    OBVIOUS
  <2> QED
    BY <1>1, <1>2, <2>1, <2>2, <2>3 DEF IInv, Inspected
<1> QED
  BY <1>3, <1>6, <1>7, <1>11

\* A final report is added: nothing is committed yet.
LEMMA FinalReported ==
  ASSUME IInv, w.at = "digest", w.step = "final",
         rec' = [rec EXCEPT !.final = Append(@, Report)],
         UNCHANGED <<given, run, task, proof, world>>
  PROVE  rec' \in Recs /\ Earned' /\ Inspected' /\ Committed'
<1>1. /\ rec \in Recs /\ rec.final \in Reports
      /\ UNCHANGED <<tree, head, remote, edits, crashes, swapped>>
  BY DEF IInv, Types, Recs, world
<1>2. /\ rec'.implementation = rec.implementation
      /\ rec'.final = Append(rec.final, Report) /\ rec'.artifact = rec.artifact
      /\ rec'.validations = rec.validations /\ rec'.delivery = rec.delivery
      /\ rec'.promoted = rec.promoted
  BY <1>1 DEF Recs
<1>3. rec' \in Recs
  <2>1. Append(rec.final, Report) \in Reports
    BY <1>1, ReportOf, AppendProperties DEF Reports
  <2> QED
    BY <1>1, <2>1 DEF Recs
<1>4. rec.delivery = None /\ task["git"].attempt = 0 /\ ~ Been("COMMITTING")
  BY NothingAfter DEF Between
<1>5. \A x : Been(x)' = Been(x)
  BY DEF Been, Place, Reached
<1>6. task["final"].attempt > 0
  BY DEF IInv, Steady, Between
<1>7. Earned'
  <2>1. ~ (0 > 0)
    OBVIOUS
  <2> QED
    BY <1>2, <1>4, <1>5, <1>6, <2>1 DEF IInv, Earned, ImplementationCertified, Reviewed
<1>8. Committed'
  BY <1>1, <1>2, <1>4 DEF IInv, Committed
<1>9. FinalReport(Report)
  <2>1. Report.passed => /\ Report.code \notin Flagged
                         /\ Report.code = Last(rec.implementation).code
    BY ReportOf
  <2>2. rec.validations # <<>> => Last(rec.validations).tree \in Tree
    BY LastValidation
  <2>3. ~ swapped /\ rec.validations # <<>> =>
            (Report.tree = Last(rec.validations).tree => Report.tree.code = Report.code)
    BY <2>2, ReportOf DEF IInv, Position, At
  <2> QED
    BY <2>1, <2>3 DEF FinalReport
<1>10. \A i \in 1..Len(rec'.final) : FinalReport(rec'.final[i])
  <2>1. /\ Len(rec'.final) = Len(rec.final) + 1
        /\ \A i \in 1..Len(rec.final) : rec'.final[i] = rec.final[i]
        /\ rec'.final[Len(rec.final) + 1] = Report
        /\ Len(rec.final) \in Nat
    BY <1>1, <1>2, ReportOf, AppendProperties, LenProperties DEF Reports
  <2> QED
    BY <1>9, <2>1 DEF IInv, Inspected
<1>11. Inspected'
  <2>1. (\A i \in 1..Len(rec.final) : FinalReport(rec.final[i]))'
    BY <1>1, <1>2, <1>10 DEF FinalReport
  <2>2. (\A i \in 1..Len(rec.implementation) : ImplementationReport(rec.implementation[i]))'
    BY <1>1, <1>2 DEF IInv, Inspected, ImplementationReport, Reviewed
  <2> QED
    BY <1>1, <1>2, <2>1, <2>2 DEF IInv, Inspected
<1> QED
  BY <1>3, <1>7, <1>8, <1>11

\* The tree is digested and the report recorded, unless there is one.
LEMMA CertifyInv == ASSUME IInv, Certify PROVE IInv'
<1>1. /\ w.at = "digest" /\ w.step \in {"implementation", "final"} /\ w.at \notin Between
      /\ UNCHANGED <<given, run, task, proof, world>>
  BY StepOfPlace DEF Certify, At, Between
<1>2. \/ rec' = Added(w.step, Report)
      \/ rec' = rec
  BY DEF Certify
<1>3. \E place \in Outcome : w' = [w EXCEPT !.seen = None, !.at = place]
  BY DEF Certify, Outcome
<1>4. w' \in Workers /\ w'.at \in Outcome /\ w'.step = w.step
  BY <1>3 DEF IInv, Types, Workers, Places, Outcome
<1>5. Steady' /\ Position'
  BY <1>1, <1>4, StepEnds DEF IInv
<1>6. CASE rec' = rec
  BY <1>1, <1>4, <1>5, <1>6, OnlyWorkerInv DEF OnlyWorker, capsule
<1>7. CASE rec' = Added(w.step, Report) /\ w.step = "implementation"
  <2>1. rec' = [rec EXCEPT !.implementation = Append(@, Report)]
    BY <1>7 DEF Added
  <2> QED
    BY <1>1, <1>4, <1>5, <1>7, <2>1, ImplementationReported, RecordMoves
<1>8. CASE rec' = Added(w.step, Report) /\ w.step = "final"
  <2>1. rec' = [rec EXCEPT !.final = Append(@, Report)]
    BY <1>8 DEF Added
  <2> QED
    BY <1>1, <1>4, <1>5, <1>8, <2>1, FinalReported, RecordMoves
<1> QED
  BY <1>1, <1>2, <1>6, <1>7, <1>8

\* The documentation is recorded as it was written.
LEMMA SaveArtifactInv == ASSUME IInv, SaveArtifact PROVE IInv'
<1>1. /\ w.at = "artifact" /\ w.at \notin Between /\ w.seen \in Tree
      /\ rec' = [rec EXCEPT !.artifact = w.seen.doc]
      /\ w' = [w EXCEPT !.at = "done", !.seen = None]
      /\ UNCHANGED <<given, run, task, proof, world>>
  BY DEF SaveArtifact, At, IInv, Steady, Reading, Between
<1>2. w' \in Workers /\ w'.at \in Outcome /\ w'.step = w.step
  BY <1>1 DEF IInv, Types, Workers, Places, Outcome
<1>3. Steady' /\ Position'
  BY <1>1, <1>2, StepEnds DEF IInv
<1>4. /\ rec \in Recs /\ w.seen.doc \in {"plain", "documented"} /\ w.seen.doc # None
      /\ given.docs => w.seen.doc = "documented"
      /\ UNCHANGED <<tree, head, remote, swapped>>
  BY <1>1, MarkAssumption DEF IInv, Types, Tree, Position, At, world
<1>5. /\ rec' \in Recs /\ rec'.artifact = w.seen.doc
      /\ rec'.implementation = rec.implementation /\ rec'.final = rec.final
      /\ rec'.validations = rec.validations /\ rec'.delivery = rec.delivery
      /\ rec'.promoted = rec.promoted
  BY <1>1, <1>4 DEF Recs
<1>6. Earned'
  BY <1>1, <1>4, <1>5
     DEF IInv, Earned, Been, Place, Reached, ImplementationCertified, FinalCertified, Reviewed
<1>7. Inspected'
  BY <1>1, <1>4, <1>5 DEF IInv, Inspected, ImplementationReport, FinalReport, Reviewed
<1>8. Committed'
  BY <1>4, <1>5, SameCommitted DEF IInv, Certificate
<1> QED
  BY <1>1, <1>2, <1>3, <1>5, <1>6, <1>7, <1>8, RecordMoves

\* The workspace is digested: what was read before may have changed.
LEMMA ConcludeInv == ASSUME IInv, Conclude PROVE IInv'
<1>1. w.at \notin Between /\ OnlyWorker /\ w.step = "validation" /\ w.seen \in Tree
  BY StepOfPlace DEF Conclude, Between, At, IInv, Steady, Reading
<1>2. CASE Goto("failed")
  BY <1>1, <1>2, EndInv
<1>3. CASE w' = [w EXCEPT !.at = "check", !.after = tree]
  <2>1. /\ w' \in Workers /\ w'.at = "check" /\ w'.step = w.step /\ w'.seen = w.seen
        /\ w'.after = tree /\ tree \in Tree /\ tree' = tree
    BY <1>1, <1>3 DEF IInv, Types, Workers, Places, OnlyWorker, world
  <2>2. Position'
    BY <2>1 DEF Position, At, Intended
  <2> QED
    BY <1>1, <2>1, <2>2, WithinStep DEF Places, Between, Outcome, PlacesOf
<1> QED
  BY <1>2, <1>3 DEF Conclude

\* A validation is added: nothing is certified by the last one yet.
LEMMA Validated ==
  ASSUME IInv, w.at = "check", w.step = "validation", NEW holds \in BOOLEAN,
         rec' = [rec EXCEPT !.validations = Append(@, Validation(holds))],
         UNCHANGED <<given, run, task, proof, world>>
  PROVE  rec' \in Recs /\ Earned' /\ Inspected' /\ Committed'
<1> DEFINE V == [attempt : 1..MaxAttempts, before : Tree, tree : Tree, passed : BOOLEAN]
<1>1. /\ rec \in Recs /\ rec.validations \in Seq(V) /\ w.seen \in Tree /\ w.after \in Tree
      /\ UNCHANGED <<tree, head, remote, edits, crashes, swapped>>
  BY DEF IInv, Types, Recs, Validations, world, Steady, Reading
<1>2. /\ rec'.implementation = rec.implementation
      /\ rec'.validations = Append(rec.validations, Validation(holds)) /\ rec'.artifact = rec.artifact
      /\ rec'.final = rec.final /\ rec'.delivery = rec.delivery
      /\ rec'.promoted = rec.promoted
  BY <1>1 DEF Recs
<1>3. /\ Validation(holds) \in V
      /\ ~ swapped /\ Validation(holds).passed /\ given.docs
           => Validation(holds).tree.doc = "documented"
  <2> DEFINE passed == w.seen = w.after /\ proof.criterion = "PASS" /\ ArtifactMatches /\ holds
  <2>1. Validation(holds) =
          [attempt |-> Attempt, before |-> w.seen, tree |-> w.after, passed |-> passed]
    BY DEF Validation
  <2>2. passed \in BOOLEAN /\ (passed => ArtifactMatches)
    OBVIOUS
  <2>3. Attempt \in 1..MaxAttempts
    BY AttemptOfStep DEF Between
  <2>4. task["validation"].attempt > 0
    BY DEF IInv, Steady, Between
  <2>5. ~ swapped /\ passed /\ given.docs => w.after.doc = "documented"
    BY <2>2, <2>4 DEF IInv, Earned, Inspected, ArtifactMatches, Position, At
  <2> HIDE DEF passed
  <2> QED
    BY <1>1, <2>1, <2>2, <2>3, <2>5
<1>4. rec' \in Recs
  <2>1. Append(rec.validations, Validation(holds)) \in Seq(V)
    BY <1>1, <1>3, AppendProperties
  <2> QED
    BY <1>1, <1>2, <2>1 DEF Recs, Validations
<1>5. /\ rec.delivery = None /\ task["git"].attempt = 0 /\ ~ Been("COMMITTING")
      /\ rec.final = <<>>
  BY NothingAfter DEF Between
<1>6. \A x : Been(x)' = Been(x)
  BY DEF Been, Place, Reached
<1>7. Earned'
  <2>1. ~ (0 > 0)
    OBVIOUS
  <2> QED
    BY <1>2, <1>5, <1>6, <2>1 DEF IInv, Earned, ImplementationCertified, Reviewed
<1>8. Committed'
  BY <1>1, <1>2, <1>5 DEF IInv, Committed
<1>9. ~ swapped => \A i \in 1..Len(rec'.validations) :
         rec'.validations[i].passed /\ given.docs => rec'.validations[i].tree.doc = "documented"
  <2>1. /\ Len(rec'.validations) = Len(rec.validations) + 1
        /\ \A i \in 1..Len(rec.validations) : rec'.validations[i] = rec.validations[i]
        /\ rec'.validations[Len(rec.validations) + 1] = Validation(holds)
        /\ Len(rec.validations) \in Nat
    BY <1>1, <1>2, <1>3, AppendProperties, LenProperties
  <2> QED
    BY <1>3, <2>1 DEF IInv, Inspected
<1>10. Inspected'
  <2>1. rec'.final = <<>> /\ Len(rec'.final) = 0
    BY <1>2, <1>5, EmptySeq
  <2>2. 1..0 = {}
    OBVIOUS
  <2>3. (\A i \in 1..Len(rec.implementation) : ImplementationReport(rec.implementation[i]))'
    BY <1>1, <1>2 DEF IInv, Inspected, ImplementationReport, Reviewed
  <2> QED
    BY <1>1, <1>2, <1>9, <2>1, <2>2, <2>3 DEF IInv, Inspected
<1> QED
  BY <1>4, <1>7, <1>8, <1>10

\* The artifact and the sources are compared, and the validation is recorded.
LEMMA CheckSourcesInv == ASSUME IInv, NEW holds \in BOOLEAN, CheckSources(holds) PROVE IInv'
<1>1. /\ w.at = "check" /\ w.step = "validation" /\ w.at \notin Between
      /\ UNCHANGED <<given, run, task, proof, world>>
  BY StepOfPlace DEF CheckSources, At, Between
<1>2. CASE UNCHANGED rec /\ Goto("failed")
  BY <1>1, <1>2, EndInv DEF OnlyWorker, capsule
<1>3. CASE /\ rec' = Added("validations", Validation(holds))
           /\ w' = [w EXCEPT !.seen = None, !.after = None,
                      !.at = IF Validation(holds).passed THEN "done" ELSE "failed"]
  <2>1. \E place \in Outcome : w' = [w EXCEPT !.seen = None, !.after = None, !.at = place]
    BY <1>3 DEF Outcome
  <2>2. w' \in Workers /\ w'.at \in Outcome /\ w'.step = w.step
    BY <2>1 DEF IInv, Types, Workers, Places, Outcome
  <2>3. Steady' /\ Position'
    BY <1>1, <2>2, StepEnds DEF IInv
  <2>4. rec' = [rec EXCEPT !.validations = Append(@, Validation(holds))]
    BY <1>3 DEF Added
  <2> QED
    BY <1>1, <2>2, <2>3, <2>4, Validated, RecordMoves
<1> QED
  BY <1>2, <1>3 DEF CheckSources

\* The delivery is recorded, or what has become of it.
LEMMA DeliveryMoves ==
  ASSUME IInv, UNCHANGED <<given, run, task, proof, world>>, NEW d \in Deliveries,
         rec' = [rec EXCEPT !.delivery = d], task["git"].attempt > 0,
         d.certified = Certificate.tree, d.created /\ ~ swapped => d.tree = Certificate.tree,
         d.attached => head \in {d.tree, Above}, d.pushed => remote = d.tree,
         rec.delivery = None => run.state # "COMPLETED",
         rec.delivery # None =>
             /\ d.tree = rec.delivery.tree /\ (rec.delivery.created => d.created)
             /\ rec.delivery.attached => d.attached
             /\ rec.delivery.pushed => d.pushed,
         w' \in Workers, Steady', Position'
  PROVE  IInv'
<1>1. rec \in Recs /\ d # None /\ UNCHANGED <<tree, head, remote, swapped>>
  BY MarkAssumption DEF IInv, Types, world
<1>2. /\ rec' \in Recs /\ rec'.delivery = d /\ rec'.artifact = rec.artifact
      /\ rec'.implementation = rec.implementation /\ rec'.final = rec.final
      /\ rec'.validations = rec.validations /\ rec'.promoted = rec.promoted
  BY <1>1 DEF Recs
<1>3. Earned'
  BY <1>1, <1>2
     DEF IInv, Earned, Been, Place, Reached, ImplementationCertified, FinalCertified, Reviewed
<1>4. Inspected'
  BY <1>1, <1>2, SameInspected DEF IInv
<1>5. Committed'
  BY <1>1, <1>2 DEF IInv, Committed, Certificate
<1> QED
  BY <1>2, <1>3, <1>4, <1>5, RecordMoves

\* At the git work the final certificate stands.
LEMMA AtGit ==
  ASSUME IInv, w.at \notin Between, w.step = "git"
  PROVE  task["git"].attempt > 0 /\ FinalCertified /\ Certificate.tree \in Tree
<1>1. task["git"].attempt > 0 /\ FinalCertified
  BY DEF IInv, Steady, Earned
<1>2. Certificate.tree = Last(rec.validations).tree /\ rec.validations # <<>>
  BY <1>1 DEF FinalCertified, Certificate
<1> QED
  BY <1>1, <1>2, LastValidation

\* The intent of the commit.
LEMMA SaveIntentInv == ASSUME IInv, SaveIntent PROVE IInv'
<1>1. /\ w.at = "intent" /\ w.step = "git" /\ w.at \notin Between /\ w.seen \in Tree
      /\ rec' = [rec EXCEPT !.delivery = Intent]
      /\ w' = [w EXCEPT !.at = "status", !.seen = None]
      /\ UNCHANGED <<given, run, task, proof, world>>
  BY StepOfPlace DEF SaveIntent, OnlyRecord, At, IInv, Steady, Reading, Between
<1>2. w' \in Workers /\ w'.at = "status" /\ w'.step = w.step
  BY <1>1 DEF IInv, Types, Workers, Places
<1>3. /\ Intent \in Deliveries /\ Intent.certified = Certificate.tree
      /\ ~ Intent.created /\ ~ Intent.attached /\ ~ Intent.pushed
  BY <1>1, AtGit DEF Intent, Deliveries
<1>4. rec.delivery = None /\ run.state = "COMMITTING"
  BY <1>1 DEF IInv, Position, At
<1>5. rec'.delivery # None
  BY <1>1, <1>3, MarkAssumption DEF IInv, Types, Recs
<1>6. Steady'
  BY <1>1, <1>2 DEF IInv, Steady, Between, Outcome, Reading, PlacesOf, Working
<1>7. Position'
  BY <1>2, <1>5 DEF Position, At, Intended
<1>8. task["git"].attempt > 0
  BY <1>1, AtGit
<1> QED
  BY <1>1, <1>2, <1>3, <1>4, <1>6, <1>7, <1>8, DeliveryMoves

\* The delivery while the commit is made.
LEMMA AtDelivery ==
  ASSUME IInv, w.at \in Intended
  PROVE  /\ w.step = "git" /\ w.at \notin Between /\ task["git"].attempt > 0
         /\ rec.delivery \in Deliveries /\ rec.delivery # None
         /\ rec.delivery.certified = Certificate.tree
         /\ rec.delivery.created /\ ~ swapped => rec.delivery.tree = Certificate.tree
         /\ rec.delivery.attached => head \in {rec.delivery.tree, Above}
         /\ rec.delivery.pushed => remote = rec.delivery.tree
<1>1. w.step = "git" /\ w.at \notin Between
  BY StepOfPlace DEF Intended, Between
<1>2. rec.delivery # None
  BY DEF IInv, Position
<1> QED
  BY <1>1, <1>2, AtGit DEF IInv, Types, Recs, Committed

\* A place within the git work, after the record was written.
LEMMA GitGoesOn ==
  ASSUME IInv, UNCHANGED <<run, task>>, w.step = "git", w.at \notin Between,
         NEW place \in (PlacesOf["git"] \union Outcome) \ Reading, Goto(place)
  PROVE  w' \in Workers /\ w'.at = place /\ w'.step = "git" /\ Steady'
<1>1. place \in Places
  BY DEF Places, PlacesOf, Outcome
<1>2. w' \in Workers /\ w'.at = place /\ w'.step = w.step
  BY <1>1, Going DEF IInv
<1>3. place \notin Between /\ place \notin {"evaluate", "check"}
  BY DEF PlacesOf, Between, Outcome
<1> QED
  BY <1>2, <1>3 DEF IInv, Steady, Between, Outcome, Working

\* The commit object is made: of the certified tree, unless the workspace was swapped.
LEMMA CreateCommitInv == ASSUME IInv, CreateCommit PROVE IInv'
<1> DEFINE d == [rec.delivery EXCEPT !.created = TRUE]
<1>1. /\ w.at = "create" /\ w.at \in Intended /\ Goto("attach")
      /\ rec' = [rec EXCEPT !.delivery.created = TRUE]
      /\ UNCHANGED <<given, run, task, proof, world>>
  BY DEF CreateCommit, OnlyRecord, At, Intended
<1>2. /\ w.step = "git" /\ w.at \notin Between /\ task["git"].attempt > 0
      /\ rec.delivery \in Deliveries /\ rec.delivery # None
      /\ rec.delivery.certified = Certificate.tree
      /\ rec.delivery.attached => head \in {rec.delivery.tree, Above}
      /\ rec.delivery.pushed => remote = rec.delivery.tree
  BY <1>1, AtDelivery
<1>3. /\ d \in Deliveries /\ d.created /\ d.tree = rec.delivery.tree
      /\ d.certified = rec.delivery.certified
      /\ d.attached = rec.delivery.attached /\ d.pushed = rec.delivery.pushed
  BY <1>2 DEF Deliveries
<1>4. ~ swapped => d.tree = Certificate.tree
  BY <1>1, <1>3 DEF IInv, Position, At
<1>5. rec' = [rec EXCEPT !.delivery = d]
  BY <1>1
<1>6. w' \in Workers /\ w'.at = "attach" /\ w'.step = "git" /\ Steady'
  BY <1>1, <1>2, GitGoesOn DEF PlacesOf, Reading
<1>7. rec'.delivery = d /\ d # None
  BY <1>3, <1>5, MarkAssumption DEF IInv, Types, Recs
<1>8. Position'
  BY <1>3, <1>6, <1>7 DEF Position, At, Intended
<1> HIDE DEF d
<1> QED
  BY <1>1, <1>2, <1>3, <1>4, <1>5, <1>6, <1>8, DeliveryMoves

\* The commit is recorded as attached when the branch has it.
LEMMA SaveAttachedInv == ASSUME IInv, SaveAttached PROVE IInv'
<1> DEFINE d == [rec.delivery EXCEPT !.attached = TRUE]
<1>1. /\ w.at = "attached" /\ w.at \in Intended /\ (Goto("pushing") \/ Goto("done"))
      /\ rec' = [rec EXCEPT !.delivery.attached = TRUE]
      /\ UNCHANGED <<given, run, task, proof, world>>
  BY DEF SaveAttached, OnlyRecord, At, Intended
<1>2. /\ w.step = "git" /\ w.at \notin Between /\ task["git"].attempt > 0
      /\ rec.delivery \in Deliveries /\ rec.delivery # None
      /\ rec.delivery.certified = Certificate.tree
      /\ rec.delivery.created /\ ~ swapped => rec.delivery.tree = Certificate.tree
      /\ rec.delivery.pushed => remote = rec.delivery.tree
  BY <1>1, AtDelivery
<1>3. /\ d \in Deliveries /\ d.attached /\ d.tree = rec.delivery.tree
      /\ d.certified = rec.delivery.certified
      /\ d.created = rec.delivery.created /\ d.pushed = rec.delivery.pushed
  BY <1>2 DEF Deliveries
<1>4. head \in {rec.delivery.tree, Above}
  BY <1>1 DEF IInv, Position, At
<1>5. rec' = [rec EXCEPT !.delivery = d]
  BY <1>1
<1>6. w' \in Workers /\ w'.at \in {"pushing", "done"} /\ w'.step = "git" /\ Steady'
  BY <1>1, <1>2, GitGoesOn DEF PlacesOf, Reading, Outcome
<1>7. Position'
  BY <1>6 DEF Position, At, Intended
<1> HIDE DEF d
<1> QED
  BY <1>1, <1>2, <1>3, <1>4, <1>5, <1>6, <1>7, DeliveryMoves

\* The commit is recorded as pushed when the remote has it.
LEMMA SavePushedInv == ASSUME IInv, SavePushed PROVE IInv'
<1> DEFINE d == [rec.delivery EXCEPT !.pushed = TRUE]
<1>1. /\ w.at = "sent" /\ w.at \in Intended /\ Goto("done")
      /\ rec' = [rec EXCEPT !.delivery.pushed = TRUE]
      /\ UNCHANGED <<given, run, task, proof, world>>
  BY DEF SavePushed, OnlyRecord, At, Intended
<1>2. /\ w.step = "git" /\ w.at \notin Between /\ task["git"].attempt > 0
      /\ rec.delivery \in Deliveries /\ rec.delivery # None
      /\ rec.delivery.certified = Certificate.tree
      /\ rec.delivery.created /\ ~ swapped => rec.delivery.tree = Certificate.tree
      /\ rec.delivery.attached => head \in {rec.delivery.tree, Above}
  BY <1>1, AtDelivery
<1>3. /\ d \in Deliveries /\ d.pushed /\ d.tree = rec.delivery.tree
      /\ d.certified = rec.delivery.certified
      /\ d.created = rec.delivery.created /\ d.attached = rec.delivery.attached
  BY <1>2 DEF Deliveries
<1>4. remote = rec.delivery.tree
  BY <1>1 DEF IInv, Position, At
<1>5. rec' = [rec EXCEPT !.delivery = d]
  BY <1>1
<1>6. w' \in Workers /\ w'.at = "done" /\ w'.step = "git" /\ Steady'
  BY <1>1, <1>2, GitGoesOn DEF PlacesOf, Reading, Outcome
<1>7. Position'
  BY <1>6 DEF Position, At, Intended
<1> HIDE DEF d
<1> QED
  BY <1>1, <1>2, <1>3, <1>4, <1>5, <1>6, <1>7, DeliveryMoves

\* The memory of the run is recorded.
LEMMA PromoteInv == ASSUME IInv, Promote PROVE IInv'
<1>1. /\ w.at = "proposed" /\ w.at \notin Between /\ (Goto("done") \/ Goto("failed"))
      /\ rec' = [rec EXCEPT !.promoted = @ \/ AtMemory]
      /\ UNCHANGED <<given, run, task, proof, world>>
  BY DEF Promote, OnlyRecord, At, Between
<1>2. w' \in Workers /\ w'.at \in Outcome /\ w'.step = w.step
  BY <1>1, Going DEF IInv, Outcome, Places
<1>3. Steady' /\ Position'
  BY <1>1, <1>2, StepEnds DEF IInv
<1>4. /\ rec \in Recs /\ rec.promoted \in BOOLEAN /\ UNCHANGED <<tree, head, remote, swapped>>
  BY <1>1 DEF IInv, Types, Recs, world
<1>5. \E b \in BOOLEAN : rec' = [rec EXCEPT !.promoted = b] /\ (rec.promoted => b)
  <2>1. (rec.promoted \/ AtMemory) \in BOOLEAN
    OBVIOUS
  <2> QED
    BY <1>1, <1>4, <2>1
<1>6. /\ rec' \in Recs /\ rec'.artifact = rec.artifact
      /\ rec'.implementation = rec.implementation /\ rec'.final = rec.final
      /\ rec'.validations = rec.validations /\ rec'.delivery = rec.delivery
      /\ rec.promoted => rec'.promoted
  BY <1>4, <1>5 DEF Recs
<1>7. Earned'
  BY <1>1, <1>6
     DEF IInv, Earned, Been, Place, Reached, ImplementationCertified, FinalCertified, Reviewed
<1>8. Inspected'
  BY <1>1, <1>4, <1>6, SameInspected DEF IInv
<1>9. Committed'
  BY <1>4, <1>6, SameCommitted DEF IInv, Certificate
<1> QED
  BY <1>1, <1>2, <1>3, <1>6, <1>7, <1>8, <1>9, RecordMoves

-----------------------------------------------------------------------------
(* The workspace, the branch and the remote. *)

\* Only the world moves, and the worker with it.
LEMMA WorldMoves ==
  ASSUME IInv, UNCHANGED <<given, run, task, rec, proof>>, tree' \in Tree,
         head' \in Tree \union {Base, Foreign, Above}, remote' \in Tree \union {None},
         swapped' \in BOOLEAN, swapped => swapped',
         w' \in Workers, Committed', Steady', Position'
  PROVE  IInv'
<1>1. Types'
  BY DEF IInv, Types
<1>2. Ordered' /\ Earned'
  BY SameOrder, SameEarned DEF IInv
<1>3. Inspected'
  BY DEF IInv, Inspected, ImplementationReport, FinalReport, Reviewed
<1> QED
  BY <1>1, <1>2, <1>3 DEF IInv

\* The process dies.
LEMMA CrashInv == ASSUME IInv, Crash PROVE IInv'
<1>1. UNCHANGED <<given, run, task, rec, proof, tree, head, remote, swapped>> /\ Quit
  BY DEF Crash, capsule
<1>2. Committed'
  BY <1>1, SameCommitted DEF IInv, Certificate
<1> QED
  BY <1>1, <1>2, Quitting, WorldMoves DEF IInv, Types

\* The document is written into the workspace.
LEMMA WriteDocumentInv == ASSUME IInv, WriteDocument PROVE IInv'
<1>1. /\ w.at = "documentation" /\ w.step = "documentation" /\ w.at \notin Between
      /\ UNCHANGED <<given, run, task, rec, proof, head, remote, crashes, swapped>>
  BY StepOfPlace DEF WriteDocument, At, capsule, Between
<1>2. CASE UNCHANGED tree /\ (Goto("done") \/ Goto("failed"))
  <2>1. w' \in Workers /\ w'.at \in Outcome /\ w'.step = w.step
    BY <1>2, Going DEF IInv, Outcome, Places
  <2>2. Steady' /\ Position'
    BY <1>1, <2>1, StepEnds DEF IInv
  <2>3. Committed'
    BY <1>1, SameCommitted DEF IInv, Certificate
  <2> QED
    BY <1>1, <1>2, <2>1, <2>2, <2>3, WorldMoves DEF IInv, Types
<1>3. CASE /\ tree' = IF given.docs THEN [tree EXCEPT !.doc = "documented"] ELSE tree
           /\ w' = [w EXCEPT !.at = "artifact", !.seen = tree']
  <2>1. tree' \in Tree /\ (given.docs => tree'.doc = "documented")
    BY <1>3 DEF IInv, Types, Tree
  <2>2. w' \in Workers /\ w'.at = "artifact" /\ w'.step = w.step /\ w'.seen = tree'
    BY <1>3, <2>1 DEF IInv, Types, Workers, Places
  <2>3. Steady'
    BY <1>1, <2>1, <2>2 DEF IInv, Steady, Between, Outcome, PlacesOf, Working
  <2>4. Position'
    BY <1>1, <2>1, <2>2 DEF Position, At, Intended
  <2>5. Committed'
    BY <1>1, SameCommitted DEF IInv, Certificate
  <2> QED
    BY <1>1, <2>1, <2>2, <2>3, <2>4, <2>5, WorldMoves DEF IInv, Types
<1> QED
  BY <1>2, <1>3 DEF WriteDocument

\* The branch gets the commit that was made, on the base commit only.
LEMMA AttachInv == ASSUME IInv, Attach PROVE IInv'
<1>1. /\ w.at = "attach" /\ w.at \in Intended
      /\ UNCHANGED <<given, run, task, rec, proof, tree, remote, edits, crashes, swapped>>
  BY DEF Attach, At, capsule, Intended
<1>2. /\ w.step = "git" /\ w.at \notin Between /\ rec.delivery \in Deliveries
      /\ rec.delivery # None /\ rec.delivery.tree \in Tree
  BY <1>1, AtDelivery DEF Deliveries
<1>3. CASE UNCHANGED head /\ Goto("failed")
  BY <1>1, <1>2, <1>3, EndInv DEF OnlyWorker, capsule, world
<1>4. CASE head \in {Base, rec.delivery.tree} /\ head' = rec.delivery.tree /\ Goto("attached")
  <2>1. w' \in Workers /\ w'.at = "attached" /\ w'.step = "git" /\ Steady'
    BY <1>1, <1>2, <1>4, GitGoesOn DEF PlacesOf, Reading
  <2>2. rec.delivery.created
    BY <1>1 DEF IInv, Position
  <2>3. Committed'
    BY <1>1, <1>2, <1>4, <2>2 DEF IInv, Committed, Certificate
  <2>4. Position'
    BY <1>1, <1>2, <1>4, <2>1, <2>2 DEF Position, At, Intended
  <2> QED
    BY <1>1, <1>2, <1>4, <2>1, <2>3, <2>4, WorldMoves DEF IInv, Types
<1> QED
  BY <1>3, <1>4 DEF Attach

\* What is sent is what the branch has, which is the commit of the run.
LEMMA SendInv == ASSUME IInv, NEW outcome, Send(outcome) PROVE IInv'
<1> DEFINE taken == OnCommit /\ outcome # "refused"
<1>1. /\ w.at = "send" /\ w.at \in Intended
      /\ UNCHANGED <<given, run, task, rec, proof, tree, head, edits, crashes, swapped>>
      /\ remote' = IF taken THEN rec.delivery.tree ELSE remote
      /\ Goto(IF taken /\ outcome = "answered" THEN "sent" ELSE "failed")
  BY DEF Send, At, capsule, Intended
<1>2. /\ w.step = "git" /\ w.at \notin Between /\ rec.delivery \in Deliveries
      /\ rec.delivery # None /\ rec.delivery.tree \in Tree
  BY <1>1, AtDelivery DEF Deliveries
<1>3. CASE ~ taken
  <2>1. UNCHANGED remote /\ Goto("failed")
    BY <1>1, <1>3
  <2> QED
    BY <1>1, <1>2, <2>1, EndInv DEF OnlyWorker, capsule, world
<1>4. CASE taken
  <2>1. remote' = rec.delivery.tree /\ head = rec.delivery.tree
    BY <1>1, <1>4 DEF OnCommit
  <2>2. rec.delivery.created
    BY <1>2, <2>1 DEF IInv, Committed
  <2>3. Goto("sent") \/ Goto("failed")
    BY <1>1
  <2>4. w' \in Workers /\ w'.at \in {"sent", "failed"} /\ w'.step = "git" /\ Steady'
    BY <1>1, <1>2, <2>3, GitGoesOn DEF PlacesOf, Reading, Outcome
  <2>5. Committed'
    BY <1>1, <1>2, <2>1, <2>2 DEF IInv, Committed, Certificate
  <2>6. Position'
    BY <1>1, <1>2, <2>1, <2>4 DEF Position, At, Intended
  <2> QED
    BY <1>1, <1>2, <2>1, <2>4, <2>5, <2>6, WorldMoves DEF IInv, Types
<1> QED
  BY <1>3, <1>4

\* Somebody else commits: a commit of the run is below theirs.
LEMMA CommitElsewhereInv == ASSUME IInv, CommitElsewhere PROVE IInv'
<1>1. /\ head \notin {Foreign, Above} /\ head' = IF head = Base THEN Foreign ELSE Above
      /\ UNCHANGED <<given, run, task, rec, proof, tree, remote, w, swapped>>
  BY DEF CommitElsewhere, capsule
<1>2. head' \in {Foreign, Above} /\ head' \notin Tree
  BY <1>1, MarkAssumption
<1>3. \A d \in Deliveries : head \in {d.tree, Above} => head' = Above
  BY <1>1, MarkAssumption DEF Deliveries
<1>4. rec.delivery # None => rec.delivery \in Deliveries
  BY DEF IInv, Types, Recs
<1>5. Committed'
  BY <1>1, <1>2, <1>3, <1>4 DEF IInv, Committed, Certificate
<1>6. Steady'
  BY <1>1 DEF IInv, Steady, Working, Been, Place, Reached, Key, Attempt
<1>7. w.at = "attached" => head' = Above
  BY <1>3, <1>4 DEF IInv, Position, At, Intended
<1>8. Position'
  BY <1>1, <1>7 DEF IInv, Position, At, Reviewed, Certificate
<1> QED
  BY <1>1, <1>2, <1>5, <1>6, <1>8, WorldMoves DEF IInv, Types

\* The workspace is edited: where a digest cannot tell, that is a swap.
LEMMA EditInv == ASSUME IInv, NEW t \in Tree, Edit(t) PROVE IInv'
<1>1. /\ tree' = t /\ swapped' = (swapped \/ Swaps(t))
      /\ UNCHANGED <<given, run, task, rec, proof, head, remote, w>>
  BY DEF Edit, capsule
<1>2. Committed'
  BY <1>1 DEF IInv, Committed, Certificate
<1>3. Steady'
  BY <1>1 DEF IInv, Steady, Working, Been, Place, Reached, Key, Attempt
<1>4. w.at = "digest" /\ w.step = "implementation" /\ ~ swapped' /\ t = Reviewed => w.seen = t
  BY <1>1 DEF Swaps, At
<1>5. w.at = "digest" /\ w.step = "final" /\ ~ swapped' /\ t = Last(rec.validations).tree
         => w.seen = t
  BY <1>1 DEF Swaps, At
<1>6. w.at = "verify" /\ rec.delivery # None /\ ~ swapped' /\ t = Certificate.tree
         => w.seen = t
  BY <1>1 DEF Swaps, At
<1>7. w.at = "check" /\ ~ swapped' /\ t.doc = rec.artifact => w.after.doc = rec.artifact
  BY <1>1 DEF Swaps, At
<1>8. swapped' \in BOOLEAN /\ (swapped => swapped')
  <2>1. Swaps(t) \in BOOLEAN
    BY DEF Swaps, At
  <2> QED
    BY <1>1, <2>1 DEF IInv, Types
<1>9. Position'
  BY <1>1, <1>4, <1>5, <1>6, <1>7, <1>8 DEF IInv, Position, At, Reviewed, Certificate
<1> QED
  BY <1>1, <1>2, <1>3, <1>8, <1>9, WorldMoves DEF IInv, Types

-----------------------------------------------------------------------------
(* The invariant, and what it gives. *)

\* Delivery starts with nothing on record.
LEMMA InitInv == ASSUME Init PROVE IInv
<1>1. /\ task \in [Step -> Tasks]
      /\ \A s \in Step : /\ task[s].attempt = 0
                         /\ task[s].status = IF s = "implementation" THEN "READY" ELSE "PENDING"
  BY DeliveryAssumption DEF Init, Tasks, Statuses
<1>2. /\ rec = [implementation |-> <<>>, final |-> <<>>, artifact |-> None,
                validations |-> <<>>, delivery |-> None, promoted |-> FALSE]
      /\ given \in [push : BOOLEAN, docs : BOOLEAN, code : Code]
      /\ run = [state |-> "REVIEWING", resume |-> None]
      /\ proof = [criterion |-> "PASS", started |-> {}, evidence |-> {}]
      /\ tree = [code |-> given.code, doc |-> "plain"]
      /\ head = Base /\ remote = None /\ w = Idle /\ swapped = FALSE
  BY DeliveryAssumption DEF Init
<1>3. rec \in Recs
  <2>1. <<>> \in Reports /\ <<>> \in Validations
    BY EmptySeq DEF Reports, Validations
  <2> QED
    BY <1>2, <2>1 DEF Recs
<1>4. w \in Workers /\ w.at = "idle"
  BY <1>2, StepsAndStates DEF Idle, Workers, Places
<1>5. Types
  <2>1. tree \in Tree /\ proof \in Proofs /\ proof.evidence \subseteq proof.started
    BY <1>2 DEF Tree, Proofs
  <2>2. run \in [state : ToSet(States) \union Suspended \union {"CANCELLED"},
                 resume : ToSet(States) \union {None}]
        /\ run.resume = None /\ run.state \notin Suspended
    BY <1>2, StepsAndStates DEF Suspended
  <2>3. \A s \in Step : task[s].attempt < MaxAttempts /\ task[s].status \in {"READY", "PENDING"}
    BY <1>1, DeliveryAssumption
  <2> QED
    BY <1>1, <1>2, <1>3, <1>4, <2>1, <2>2, <2>3 DEF Types
<1>6. Ordered
  BY <1>1, <1>2, StepsAndStates DEF Ordered, After
<1>7. ~ Been("DOCUMENTING") /\ ~ Been("DELIVERY_VALIDATION") /\ ~ Been("COMMITTING")
      /\ ~ Been("PUSHING")
  BY <1>2, Ranks DEF Been, Place, Reached, Suspended
<1>8. Earned
  <2>1. ~ (0 > 0) /\ {"documentation", "validation", "git"} \subseteq Step
    BY StepsAndStates
  <2> QED
    BY <1>1, <1>2, <1>7, <2>1 DEF Earned
<1>9. Inspected
  <2>1. Len(rec.implementation) = 0 /\ Len(rec.final) = 0 /\ Len(rec.validations) = 0
    BY <1>2, EmptySeq
  <2>2. 1..0 = {}
    OBVIOUS
  <2> QED
    BY <1>2, <2>1, <2>2 DEF Inspected
<1>10. Committed
  BY <1>2, MarkAssumption DEF Committed
<1>11. Steady /\ Position
  BY <1>4 DEF Steady, Position, At, Between, Outcome, Reading, Intended
<1> QED
  BY <1>5, <1>6, <1>8, <1>9, <1>10, <1>11 DEF IInv

\* Every step keeps it.
LEMMA NextInv == ASSUME IInv, [Next]_vars PROVE IInv'
<1>1. CASE Work
  <2>1. CASE NextStep \/ AdvanceRun \/ Start \/ Done \/ Failed \/ BlockRun \/ Finish
    BY <2>1, NextStepInv, AdvanceRunInv, StartInv, DoneInv, FailedInv, BlockRunInv, FinishInv
  <2>2. CASE Inspect \/ Certify \/ WriteDocument \/ SaveArtifact
    BY <2>2, InspectInv, CertifyInv, WriteDocumentInv, SaveArtifactInv
  <2>3. CASE \/ BeginValidation \/ BeginCriterion \/ Conclude
             \/ \E holds \in BOOLEAN : CheckSources(holds)
             \/ \E outcome \in {"PASS", "FAIL"} : Evaluate(outcome)
    BY <2>3, BeginValidationInv, BeginCriterionInv, ConcludeInv, CheckSourcesInv, EvaluateInv
  <2>4. CASE BeginGit \/ Stage \/ StoreBlobs \/ Verify \/ SaveIntent \/ CheckStatus \/ Compare
    BY <2>4, BeginGitInv, StageInv, StoreBlobsInv, VerifyInv, SaveIntentInv, CheckStatusInv,
       CompareInv
  <2>5. CASE CreateCommit \/ Attach \/ SaveAttached \/ BeginPush \/ Push \/ SavePushed
    BY <2>5, CreateCommitInv, AttachInv, SaveAttachedInv, BeginPushInv, PushInv, SavePushedInv
  <2>6. CASE \/ ProposeMemory \/ Promote
             \/ \E outcome \in {"answered", "lost", "refused"} : Send(outcome)
    BY <2>6, ProposeMemoryInv, PromoteInv, SendInv
  <2> QED
    BY <1>1, <2>1, <2>2, <2>3, <2>4, <2>5, <2>6 DEF Work
<1>2. CASE Invoke \/ Operate
  BY <1>2, InvokeInv, PauseInv, ResumeInv, CancelInv, RecoverInv DEF Operate
<1>3. CASE Interfere
  BY <1>3, CommitElsewhereInv, CrashInv, EditInv DEF Interfere
<1>4. CASE UNCHANGED vars
  <2>1. UNCHANGED <<given, run, task, rec, proof, tree, head, remote, w, swapped>>
    BY <1>4 DEF vars, capsule, world
  <2>2. Steady'
    BY <2>1 DEF IInv, Steady, Working, Been, Place, Reached, Key, Attempt
  <2>3. Position'
    BY <2>1 DEF IInv, Position, At, Reviewed, Certificate
  <2>4. Committed'
    BY <2>1, SameCommitted DEF IInv, Certificate
  <2> QED
    BY <2>1, <2>2, <2>3, <2>4, WorldMoves DEF IInv, Types
<1> QED
  BY <1>1, <1>2, <1>3, <1>4 DEF Next

\* The invariant holds in every state of a delivery.
THEOREM DeliveryInvariant == Spec => []IInv
<1>1. Init => IInv
  BY InitInv
<1>2. IInv /\ [Next]_vars => IInv'
  BY NextInv
<1> QED
  BY <1>1, <1>2, PTL DEF Spec

\* A commit of the run is what was certified, and every report on the way to that passed.
LEMMA CertifiedCommit ==
  ASSUME IInv, ~ swapped, NEW commit \in {head, remote}, commit \in Tree
  PROVE  /\ commit.code = given.code
         /\ commit.code \notin Flagged
         /\ given.docs => commit.doc = "documented"
         /\ \E v \in ToSet(rec.validations) : v.passed /\ v.tree = commit
         /\ \E r \in ToSet(rec.final) : r.passed /\ r.tree = commit
<1> DEFINE i == Len(rec.implementation)
           v == Len(rec.validations)
           f == Len(rec.final)
<1>1. rec.delivery # None /\ commit = Certificate.tree
  BY DEF IInv, Committed
<1>2. task["git"].attempt > 0 /\ task \in [Step -> Tasks] /\ ~ (0 > 0)
  BY <1>1 DEF IInv, Earned, Types
<1>3. task["final"].status = "SUCCEEDED" /\ task["validation"].status = "SUCCEEDED"
      /\ task["documentation"].status = "SUCCEEDED"
  BY <1>2 DEF IInv, Ordered, After
<1>4. ImplementationCertified /\ FinalCertified
  BY <1>2, <1>3, StepsAndStates DEF IInv, Types, Earned
<1>5. /\ i \in 1..i /\ Last(rec.implementation) = rec.implementation[i]
      /\ f \in 1..f /\ Last(rec.final) = rec.final[f]
  <2>1. rec.implementation \in Reports /\ rec.final \in Reports
    BY DEF IInv, Types, Recs
  <2> QED
    BY <1>4, <2>1, LastIsOne DEF ImplementationCertified, FinalCertified, Reports
<1>6. v \in 1..v /\ Last(rec.validations) = rec.validations[v]
  BY <1>4, LastValidation DEF FinalCertified
<1>7. /\ rec.implementation[i].passed /\ rec.implementation[i].tree = Reviewed
      /\ rec.validations[v].passed /\ rec.validations[v].tree = commit
      /\ rec.final[f].passed /\ rec.final[f].tree = commit /\ rec.validations # <<>>
  BY <1>1, <1>4, <1>5, <1>6 DEF ImplementationCertified, FinalCertified, Certificate
<1>8. rec.implementation[i].code = given.code
  BY <1>5, <1>7 DEF IInv, Inspected, ImplementationReport
<1>9. /\ rec.final[f].code \notin Flagged /\ rec.final[f].code = Last(rec.implementation).code
      /\ rec.final[f].tree.code = rec.final[f].code
  BY <1>5, <1>6, <1>7 DEF IInv, Inspected, FinalReport
<1>10. given.docs => commit.doc = "documented"
  BY <1>6, <1>7 DEF IInv, Inspected
<1>11. rec.validations[v] \in ToSet(rec.validations) /\ rec.final[f] \in ToSet(rec.final)
  <2>1. DOMAIN rec.validations = 1..v /\ DOMAIN rec.final = 1..f
    BY LenProperties DEF IInv, Types, Recs, Validations, Reports
  <2> QED
    BY <1>5, <1>6, <2>1 DEF ToSet
<1> QED
  BY <1>5, <1>7, <1>8, <1>9, <1>10, <1>11

\* Capsule, branch and remote agree with what was certified, for any contents and any
\* number of edits, crashes and attempts: nothing gets onto the branch that was not
\* reviewed, validated and inspected as one tree, and the capsule claims no more than
\* that (delivery/coordinator.py, delivery/guardian.py, git/delivery.py).
THEOREM DeliveryAgrees == Spec => []DeliveryInv
<1>1. IInv => TypeOK
  BY DEF IInv, Types, TypeOK, Tasks, Recs, Proofs, Workers
<1>2. IInv => CommitIsCertified
  <2> SUFFICES ASSUME IInv, ~ swapped, NEW commit \in {head, remote} \ {Base, Foreign, Above, None}
               PROVE  /\ commit.code = given.code
                      /\ commit.code \notin Flagged
                      /\ given.docs => commit.doc = "documented"
                      /\ \E v \in ToSet(rec.validations) : v.passed /\ v.tree = commit
                      /\ \E r \in ToSet(rec.final) : r.passed /\ r.tree = commit
    BY DEF CommitIsCertified
  <2>1. commit \in Tree
    BY DEF IInv, Types
  <2> QED
    BY <2>1, CertifiedCommit
<1>3. IInv => RecordsFollowGit
  <2> SUFFICES ASSUME IInv PROVE RecordsFollowGit
    OBVIOUS
  <2>1. rec.delivery # None => /\ rec.delivery.attached => head \in {rec.delivery.tree, Above}
                               /\ rec.delivery.pushed => remote = rec.delivery.tree
                               /\ rec.delivery.tree # None
    BY MarkAssumption DEF IInv, Committed, Types, Recs, Deliveries
  <2>2. run.state = "COMPLETED" => /\ rec.promoted /\ rec.delivery # None
                                   /\ rec.delivery.attached
                                   /\ (given.push => rec.delivery.pushed)
    BY DEF IInv, Earned
  <2> QED
    BY <2>1, <2>2 DEF RecordsFollowGit
<1> QED
  BY <1>1, <1>2, <1>3, DeliveryInvariant, PTL DEF DeliveryInv

\* The step of a cancelled run, and of a branch that others have moved.
StopsDelivery ==
    run.state = "CANCELLED" =>
        /\ rec.delivery = None => rec'.delivery = None
        /\ head' # head => head' \in {Foreign, Above} \/ rec.delivery # None
        /\ w'.at = "send" \/ remote' # remote => At("send")
        /\ run'.state = "CANCELLED"
LeavesForeign == head' # head => head \notin {Foreign, Above}

\* Only the push goes on to send, from the state of the run for it.
LEMMA GoingToSend ==
  ASSUME IInv, Next, run.state = "CANCELLED", w'.at = "send"
  PROVE  At("send")
<1>1. w \in Workers
  BY DEF IInv, Types
<1>2. CASE Work
  <2>1. CASE NextStep
    <3>1. \/ Goto("finish") \/ Quit
          \/ \E s : w' = [w EXCEPT !.step = s,
                          !.at = IF run.state = StateOf[s] \/ (s = "git" /\ run.state = "PUSHING")
                                 THEN "start" ELSE "advance"]
      BY <2>1, Zenon DEF NextStep
    <3>2. ASSUME NEW s, NEW place \in {"start", "advance"},
                 w' = [w EXCEPT !.step = s, !.at = place]
          PROVE  FALSE
      BY <1>1, <3>2 DEF Workers
    <3>3. \/ w'.at \in {"finish", "idle"}
          \/ \E s : \E place \in {"start", "advance"} : w' = [w EXCEPT !.step = s, !.at = place]
      <4>1. Goto("finish") \/ Quit => w'.at \in {"finish", "idle"}
        BY <1>1 DEF Goto, Quit, Idle, Workers
      <4>2. ASSUME NEW s,
                   w' = [w EXCEPT !.step = s,
                           !.at = IF run.state = StateOf[s] \/ (s = "git" /\ run.state = "PUSHING")
                                  THEN "start" ELSE "advance"]
            PROVE  \E place \in {"start", "advance"} : w' = [w EXCEPT !.step = s, !.at = place]
        <5> DEFINE place == IF run.state = StateOf[s] \/ (s = "git" /\ run.state = "PUSHING")
                            THEN "start" ELSE "advance"
        <5>1. place \in {"start", "advance"} /\ w' = [w EXCEPT !.step = s, !.at = place]
          BY <4>2
        <5> HIDE DEF place
        <5> QED
          BY <5>1
      <4> QED
        BY <3>1, <4>1, <4>2, Zenon
    <3> QED
      BY <3>2, <3>3
  <2>2. CASE AdvanceRun \/ Failed \/ BlockRun \/ Finish \/ Done
    BY <1>1, <2>2 DEF AdvanceRun, Failed, BlockRun, Finish, Done, Goto, Quit, Idle, Workers
  <2>3. CASE Start
    <3>1. w'.at \in {w.step, "idle"}
      BY <1>1, <2>3 DEF Start, Goto, Quit, Idle, Workers
    <3> QED
      BY <1>1, <3>1, StepsAndStates DEF Workers
  <2>4. CASE Inspect \/ Certify \/ WriteDocument \/ SaveArtifact
    BY <1>1, <2>4 DEF Inspect, Certify, WriteDocument, SaveArtifact, Goto, Workers
  <2>5. CASE \/ BeginValidation \/ BeginCriterion \/ Conclude
             \/ \E holds \in BOOLEAN : CheckSources(holds)
             \/ \E outcome \in {"PASS", "FAIL"} : Evaluate(outcome)
    BY <1>1, <2>5 DEF BeginValidation, BeginCriterion, Conclude, CheckSources, Evaluate, Goto, Workers
  <2>6. CASE BeginGit \/ Stage \/ StoreBlobs \/ Verify \/ SaveIntent \/ CheckStatus \/ Compare
    BY <1>1, <2>6 DEF BeginGit, Stage, StoreBlobs, Verify, SaveIntent, CheckStatus, Compare, Goto, Workers
  <2>7. CASE CreateCommit \/ Attach \/ SaveAttached \/ BeginPush \/ Push \/ SavePushed
    BY <1>1, <2>7 DEF CreateCommit, Attach, SaveAttached, BeginPush, Push, SavePushed, Goto, Workers
  <2>8. CASE \/ ProposeMemory \/ Promote
             \/ \E outcome \in {"answered", "lost", "refused"} : Send(outcome)
    BY <1>1, <2>8 DEF ProposeMemory, Promote, Send, Goto, Workers
  <2> QED
    BY <1>2, <2>1, <2>2, <2>3, <2>4, <2>5, <2>6, <2>7, <2>8 DEF Work
<1>3. CASE Invoke \/ Operate \/ Interfere
  BY <1>3 DEF Invoke, Operate, Pause, Resume, Cancel, Recover, OnlyRun, Interfere, Edit,
     CommitElsewhere, Crash, Quit, Idle, At
<1> QED
  BY <1>2, <1>3 DEF Next

\* The states of the run that a step can leave.
LEMMA CancelledStays ==
  ASSUME IInv, Next, run.state = "CANCELLED"
  PROVE  run'.state = "CANCELLED"
<1>1. "CANCELLED" \notin ToSet(States) /\ "CANCELLED" \notin Suspended /\ "CANCELLED" \in Terminal
  BY StepsAndStates DEF Suspended, Terminal
<1>2. CASE Work
  <2>1. CASE AdvanceRun \/ BlockRun \/ Finish \/ BeginPush
    BY <1>1, <2>1 DEF AdvanceRun, BlockRun, Finish, BeginPush, Replayed, MayAdvance
  <2>2. CASE NextStep \/ Start \/ Done \/ Failed
    BY <2>2 DEF NextStep, Start, Done, Failed, OnlyWorker, capsule
  <2>3. CASE Inspect \/ Certify \/ WriteDocument \/ SaveArtifact
    BY <2>3 DEF Inspect, Certify, WriteDocument, SaveArtifact, OnlyWorker, capsule
  <2>4. CASE \/ BeginValidation \/ BeginCriterion \/ Conclude
             \/ \E holds \in BOOLEAN : CheckSources(holds)
             \/ \E outcome \in {"PASS", "FAIL"} : Evaluate(outcome)
    BY <2>4 DEF BeginValidation, BeginCriterion, Conclude, CheckSources, Evaluate, OnlyWorker, capsule
  <2>5. CASE BeginGit \/ Stage \/ StoreBlobs \/ Verify \/ SaveIntent \/ CheckStatus \/ Compare
    BY <2>5 DEF BeginGit, Stage, StoreBlobs, Verify, SaveIntent, CheckStatus, Compare, OnlyWorker,
       OnlyRecord, capsule
  <2>6. CASE CreateCommit \/ Attach \/ SaveAttached \/ Push \/ SavePushed
    BY <2>6 DEF CreateCommit, Attach, SaveAttached, Push, SavePushed, OnlyWorker, OnlyRecord, capsule
  <2>7. CASE \/ ProposeMemory \/ Promote
             \/ \E outcome \in {"answered", "lost", "refused"} : Send(outcome)
    BY <2>7 DEF ProposeMemory, Promote, Send, OnlyWorker, OnlyRecord, capsule
  <2> QED
    BY <1>2, <2>1, <2>2, <2>3, <2>4, <2>5, <2>6, <2>7 DEF Work
<1>3. CASE Invoke \/ Operate \/ Interfere
  BY <1>1, <1>3 DEF Invoke, Operate, Pause, Resume, Cancel, Recover, OnlyRun, Interfere, Edit,
     CommitElsewhere, Crash, OnlyWorker, capsule
<1> QED
  BY <1>2, <1>3 DEF Next

\* Who moves the branch and the remote, and who records a delivery.
LEMMA WhoMoves ==
  ASSUME IInv, Next
  PROVE  /\ head' # head => Attach \/ CommitElsewhere
         /\ remote' # remote => \E outcome : Send(outcome)
         /\ rec.delivery = None /\ rec'.delivery # None => SaveIntent
<1>1. rec \in Recs
  BY DEF IInv, Types
<1>2. CASE Work
  <2>1. CASE NextStep \/ AdvanceRun \/ Start \/ Done \/ Failed \/ BlockRun \/ Finish
    BY <2>1 DEF NextStep, AdvanceRun, Start, Done, Failed, BlockRun, Finish, OnlyWorker, capsule, world
  <2>2. CASE Inspect \/ WriteDocument \/ SaveArtifact
    BY <1>1, <2>2 DEF Inspect, WriteDocument, SaveArtifact, OnlyWorker, capsule, world, Recs
  <2>3. CASE Certify
    <3>1. w.step \in {"implementation", "final"}
      BY <2>3, StepOfPlace DEF Certify, At
    <3>2. rec'.delivery = rec.delivery
      BY <1>1, <2>3, <3>1 DEF Certify, Added, Recs
    <3> QED
      BY <2>3, <3>2 DEF Certify, world
  <2>4. CASE \/ BeginValidation \/ BeginCriterion \/ Conclude
             \/ \E holds \in BOOLEAN : CheckSources(holds)
             \/ \E outcome \in {"PASS", "FAIL"} : Evaluate(outcome)
    BY <1>1, <2>4
       DEF BeginValidation, BeginCriterion, Conclude, CheckSources, Evaluate, OnlyWorker, capsule,
           world, Added, Recs
  <2>5. CASE BeginGit \/ Stage \/ StoreBlobs \/ Verify \/ CheckStatus \/ Compare
    BY <2>5 DEF BeginGit, Stage, StoreBlobs, Verify, CheckStatus, Compare, OnlyWorker, capsule, world
  <2>6. CASE SaveIntent
    BY <2>6 DEF SaveIntent, OnlyRecord, world
  <2>7. CASE CreateCommit \/ SaveAttached \/ SavePushed
    <3>1. rec.delivery # None
      BY <2>7, AtDelivery DEF CreateCommit, SaveAttached, SavePushed, At, Intended
    <3> QED
      BY <2>7, <3>1 DEF CreateCommit, SaveAttached, SavePushed, OnlyRecord, world
  <2>8. CASE Attach \/ BeginPush \/ Push \/ ProposeMemory
    BY <2>8 DEF Attach, BeginPush, Push, ProposeMemory, OnlyWorker, capsule, world
  <2>9. CASE Promote \/ \E outcome \in {"answered", "lost", "refused"} : Send(outcome)
    BY <1>1, <2>9 DEF Promote, Send, OnlyRecord, capsule, world, Recs
  <2> QED
    BY <1>2, <2>1, <2>2, <2>3, <2>4, <2>5, <2>6, <2>7, <2>8, <2>9 DEF Work
<1>3. CASE Invoke \/ Operate
  BY <1>3 DEF Invoke, Operate, Pause, Resume, Cancel, Recover, OnlyRun, OnlyWorker, capsule, world
<1>4. CASE Interfere
  <2>1. CASE CommitElsewhere
    BY <2>1 DEF CommitElsewhere, capsule
  <2>2. CASE Crash \/ \E t \in Tree : Edit(t)
    BY <2>2 DEF Edit, Crash, capsule
  <2> QED
    BY <1>4, <2>1, <2>2 DEF Interfere
<1> QED
  BY <1>2, <1>3, <1>4 DEF Next

\* A step respects the branch.
LEMMA StepRespects ==
  ASSUME IInv, Next
  PROVE  StopsDelivery /\ LeavesForeign
<1>1. Attach => /\ rec.delivery # None
                /\ head' # head => head \notin {Foreign, Above}
  <2> SUFFICES ASSUME Attach PROVE /\ rec.delivery # None
                                   /\ head' # head => head \notin {Foreign, Above}
    OBVIOUS
  <2>1. rec.delivery # None /\ rec.delivery \in Deliveries
    BY AtDelivery DEF Attach, At, Intended
  <2>2. rec.delivery.tree \in Tree
    BY <2>1 DEF Deliveries
  <2> QED
    BY <2>1, <2>2, MarkAssumption DEF Attach
<1>2. CommitElsewhere => head \notin {Foreign, Above} /\ head' \in {Foreign, Above}
  BY DEF CommitElsewhere
<1>3. SaveIntent => run.state # "CANCELLED"
  BY DEF SaveIntent, IInv, Position, At
<1>4. \A outcome : Send(outcome) => At("send")
  BY DEF Send
<1> QED
  BY <1>1, <1>2, <1>3, <1>4, WhoMoves, GoingToSend, CancelledStays DEF StopsDelivery, LeavesForeign

\* A delivery that is cancelled leaves the branch and the remote alone but for what was
\* already intended, or under way, and none ever overwrites the commit of somebody else
\* (delivery/coordinator.py, git/delivery.py: update-ref names the commit it replaces).
THEOREM DeliveryRespectsOthers == Spec => BranchIsRespected
<1>1. IInv /\ [Next]_vars => [StopsDelivery]_vars /\ [head \notin {Foreign, Above}]_head
  <2>1. CASE Next
    BY <2>1, StepRespects DEF LeavesForeign
  <2>2. CASE UNCHANGED vars
    BY <2>2 DEF vars, world
  <2> QED
    BY <2>1, <2>2
<1> QED
  BY <1>1, DeliveryInvariant, PTL
     DEF Spec, BranchIsRespected, CancelStopsDelivery, ForeignCommitsStay, StopsDelivery
=============================================================================
