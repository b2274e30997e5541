------------------------------ MODULE Delivery ------------------------------
(***************************************************************************)
(* Delivery of one accepted run: the six delivery steps of the coordinator *)
(* with their effects on the workspace, the branch and the remote, while   *)
(* somebody else edits the workspace or moves the branch, the operator     *)
(* pauses, cancels, resumes or recovers, and the process may die between   *)
(* any two effects.                                                        *)
(***************************************************************************)
EXTENDS Integers, Sequences, SequencesExt

CONSTANTS
    Policies,       \* whether the bound policy asks for a push, and names a document
    Code,           \* contents of the changed source files
    Flagged,        \* contents the Change Guardian has findings about
    MaxEdits,       \* bound: changes of the workspace or branch from outside, refusals
    MaxCrashes,     \* bound: deaths of the delivering process
    MaxAttempts,    \* project.settings.max_task_attempts
    Base,           \* the base commit of the run
    Foreign,        \* a commit of somebody else on the base,
    Above,          \* and one on the commit of the run
    None

ASSUME DeliveryAssumption ==
    /\ Policies \subseteq [push : BOOLEAN, docs : BOOLEAN]
    /\ Flagged \subseteq Code
    /\ MaxEdits \in Nat /\ MaxCrashes \in Nat /\ MaxAttempts \in Nat \ {0}

VARIABLES
    given,      \* what the delivery starts from: its policy and the reviewed code
    run, task,  \* the run, and the task of each step, in the capsule
    rec,        \* what the steps have recorded in the capsule
    proof,      \* validation of the acceptance criteria
    tree,       \* contents of the workspace
    head,       \* commit of the run's branch
    remote,     \* the branch at the push destination
    w,          \* the process that runs finalize
    edits, crashes,
    swapped     \* history: see Swaps

capsule == <<run, task, rec, proof>>
world == <<tree, head, remote, edits, crashes, swapped>>
vars == <<given, capsule, world, w>>

Steps == <<"implementation", "documentation", "validation", "final", "git", "memory">>
Step == ToSet(Steps)
States == <<"REVIEWING", "CHANGE_GUARD", "DOCUMENTING", "DELIVERY_VALIDATION",
            "COMMITTING", "PUSHING", "MEMORY_FINALIZATION", "COMPLETED">>
Rank == [s \in ToSet(States) |-> CHOOSE n \in DOMAIN States : States[n] = s]
StateOf ==
    [implementation |-> "CHANGE_GUARD", documentation |-> "DOCUMENTING",
     validation |-> "DELIVERY_VALIDATION", final |-> "DELIVERY_VALIDATION",
     git |-> "COMMITTING", memory |-> "MEMORY_FINALIZATION"]

\* The documentation file, if the policy names one, holds the block of this run or not.
Tree == [code : Code, doc : {"plain", "documented"}]
Unverified == Foreign       \* the digest of a workspace whose HEAD has moved
Deliveries == [certified : Tree, tree : Tree,
               created : BOOLEAN, attached : BOOLEAN, pushed : BOOLEAN]

\* The commits of others are no commit of the run, and None is nothing else.
ASSUME MarkAssumption ==
    /\ Base \notin {Foreign, Above, None} /\ Foreign \notin {Above, None}
    /\ {Base, Foreign, Above, None} \intersect Tree = {}
    /\ None \notin {Above} \union Deliveries \union ToSet(States) \union {"plain", "documented"}

Suspended == {"PAUSED", "BLOCKED"}
Terminal == {"COMPLETED", "CANCELLED"}

Idle == [at |-> "idle", step |-> "implementation", seen |-> None, after |-> None]

Init ==
    /\ \E policy \in Policies, code \in Code :
         given = [push |-> policy.push, docs |-> policy.docs, code |-> code]
    /\ run = [state |-> "REVIEWING", resume |-> None]
    /\ task = [s \in Step |->
                 [status |-> IF s = "implementation" THEN "READY" ELSE "PENDING",
                  attempt |-> 0]]
    /\ rec = [implementation |-> <<>>, final |-> <<>>, artifact |-> None,
              validations |-> <<>>, delivery |-> None, promoted |-> FALSE]
    /\ proof = [criterion |-> "PASS", started |-> {}, evidence |-> {}]
    /\ tree = [code |-> given.code, doc |-> "plain"]
    /\ head = Base
    /\ remote = None
    /\ w = Idle
    /\ edits = 0
    /\ crashes = 0
    /\ swapped = FALSE

-----------------------------------------------------------------------------
(* The gates. *)

Reviewed == [code |-> given.code, doc |-> "plain"]
Reached(target, state) == Rank[target] >= Rank[state]

\* guard_delivery: what must be on record before the run enters a state.
Guard(target) ==
    /\ target = "COMPLETED" =>
         /\ rec.promoted
         /\ \A s \in Step : task[s].status = "SUCCEEDED"
    /\ Reached(target, "DOCUMENTING") =>
         /\ rec.implementation # <<>>
         /\ Last(rec.implementation).passed
         /\ Last(rec.implementation).tree = Reviewed
    /\ Reached(target, "DELIVERY_VALIDATION") => rec.artifact # None
    /\ Reached(target, "COMMITTING") =>
         /\ rec.validations # <<>> /\ Last(rec.validations).passed
         /\ rec.final # <<>> /\ Last(rec.final).passed
         /\ Last(rec.final).tree = Last(rec.validations).tree
    /\ Reached(target, "PUSHING") =>
         /\ rec.delivery # None
         /\ rec.delivery.attached
         /\ rec.delivery.certified = Last(rec.final).tree
    /\ target = "PUSHING" => given.push
    /\ Reached(target, "MEMORY_FINALIZATION") =>
         (given.push => rec.delivery.pushed)

\* The reports and validations of the capsule are only ever added to.
Added(kind, report) == [rec EXCEPT ![kind] = Append(@, report)]

\* workspace_digest: refuses a workspace whose HEAD is not the base commit.
Digest == IF head = Base THEN tree ELSE Unverified

\* Status of the checkout after the commit of the run: on it, with nothing changed.
OnCommit == head = rec.delivery.tree /\ tree = head

-----------------------------------------------------------------------------
(* The loop over the steps. *)

At(place) == w.at = place
Goto(place) == w' = [w EXCEPT !.at = place]
Quit == w' = Idle
Attempt == task[w.step].attempt
Working == task[w.step].status = "RUNNING"
OnlyWorker == UNCHANGED <<given, capsule, world>>

Enter(target) == run' = [run EXCEPT !.state = target]
Successor(target) ==
    \/ Rank[target] = Rank[run.state] + 1
    \/ run.state = "COMMITTING" /\ target = "MEMORY_FINALIZATION"

\* The run has been in that state: advance finds its key and changes nothing.
Replayed(target) ==
    LET state == IF run.state \in Suspended THEN run.resume ELSE run.state
    IN run.state # "CANCELLED" /\ Reached(state, target)
MayAdvance(target) ==
    /\ run.state \in ToSet(States)
    /\ Successor(target)
    /\ Guard(target)

\* finalize: takes the lease of the run and starts over.
Invoke ==
    /\ At("idle")
    /\ run.state \in ToSet(States)
    /\ w' = [Idle EXCEPT !.at = "next"]
    /\ OnlyWorker

\* Reads the next unfinished step, and the state of the run with it.
NextStep ==
    /\ At("next")
    /\ OnlyWorker
    /\ LET left == {n \in DOMAIN Steps : task[Steps[n]].status # "SUCCEEDED"} IN
       IF left = {} THEN Goto("finish")
       ELSE LET s == Steps[CHOOSE n \in left : \A m \in left : n <= m] IN
            IF task[s].status \notin {"READY", "RUNNING"} THEN Quit
            ELSE w' = [w EXCEPT !.step = s,
                         !.at = IF \/ run.state = StateOf[s]
                                   \/ s = "git" /\ run.state = "PUSHING"
                                THEN "start" ELSE "advance"]

\* An error here ends finalize without blocking anything.
AdvanceRun ==
    /\ At("advance")
    /\ UNCHANGED <<given, task, rec, proof, world>>
    /\ IF Replayed(StateOf[w.step]) THEN UNCHANGED run /\ Goto("start")
       ELSE IF MayAdvance(StateOf[w.step]) THEN Enter(StateOf[w.step]) /\ Goto("start")
       ELSE UNCHANGED run /\ Quit

\* Variant: an attempt that was interrupted is not taken up again.
StartFresh ==
    /\ At("start")
    /\ UNCHANGED <<given, run, rec, proof, world>>
    /\ IF task[w.step].status = "READY" /\ run.state \in ToSet(States)
       THEN /\ task' = [task EXCEPT ![w.step] =
                          [status |-> "RUNNING", attempt |-> @.attempt + 1]]
            /\ Goto(w.step)
       ELSE UNCHANGED task /\ Quit

\* Takes up the attempt that is running, or starts one.
Start ==
    /\ At("start")
    /\ UNCHANGED <<given, run, rec, proof, world>>
    /\ IF Working THEN UNCHANGED task /\ Goto(w.step)
       ELSE IF task[w.step].status = "READY" /\ run.state \in ToSet(States)
       THEN /\ task' = [task EXCEPT ![w.step] =
                          [status |-> "RUNNING", attempt |-> @.attempt + 1]]
            /\ Goto(w.step)
       ELSE UNCHANGED task /\ Quit

\* The step is done: its attempt succeeds and the next step is ready.
Done ==
    /\ At("done")
    /\ UNCHANGED <<given, run, rec, proof, world>>
    /\ IF Working
       THEN /\ task' = [s \in Step |->
                 IF s = w.step THEN [task[s] EXCEPT !.status = "SUCCEEDED"]
                 ELSE IF /\ task[s].status = "PENDING"
                         /\ \E n \in DOMAIN Steps : Steps[n] = w.step /\ n + 1 \in DOMAIN Steps
                                                    /\ Steps[n + 1] = s
                 THEN [task[s] EXCEPT !.status = "READY"]
                 ELSE task[s]]
            /\ Goto("next")
       ELSE UNCHANGED task /\ Goto("failed")

\* The step failed: its attempt is blocked, unless the run has come to its end.
Failed ==
    /\ At("failed")
    /\ UNCHANGED <<given, run, rec, proof, world>>
    /\ IF run.state \in Terminal THEN UNCHANGED task /\ Quit
       ELSE /\ task' = [task EXCEPT ![w.step].status = "BLOCKED"]
            /\ Goto("block")

Suspend(state) ==
    run' = [state |-> state,
            resume |-> IF run.state \in Suspended THEN run.resume ELSE run.state]
NoneRunning == \A s \in Step : task[s].status # "RUNNING"

\* ... and then the run.
BlockRun ==
    /\ At("block")
    /\ IF run.state \in Terminal \union {"BLOCKED"} \/ ~ NoneRunning
       THEN UNCHANGED run
       ELSE Suspend("BLOCKED")
    /\ Quit
    /\ UNCHANGED <<given, task, rec, proof, world>>

\* After the last step the run is completed.
Finish ==
    /\ At("finish")
    /\ IF run.state = "MEMORY_FINALIZATION" /\ MayAdvance("COMPLETED")
       THEN Enter("COMPLETED") ELSE UNCHANGED run
    /\ Quit
    /\ UNCHANGED <<given, task, rec, proof, world>>

-----------------------------------------------------------------------------
(* The Change Guardian. *)

\* Reads the changed files one by one.
Inspect ==
    /\ w.at \in {"implementation", "final"}
    /\ IF Working THEN w' = [w EXCEPT !.at = "digest", !.seen = tree]
       ELSE Goto("failed")
    /\ OnlyWorker

Report ==
    LET passed == /\ w.seen.code \notin Flagged
                  /\ Digest # Unverified
                  /\ w.step = "final" => w.seen.code = Last(rec.implementation).code
    IN [attempt |-> Attempt, tree |-> Digest, code |-> w.seen.code, passed |-> passed]

\* _check_report: the tree of the review, or the one that was validated.
Accepts(report) ==
    /\ report.passed
    /\ IF w.step = "implementation" THEN report.tree = Reviewed
       ELSE /\ report.code = Last(rec.implementation).code
            /\ rec.validations # <<>>
            /\ Last(rec.validations).tree = report.tree

\* Digests the tree, and records the report unless this attempt has one of the tree.
Certify ==
    /\ At("digest")
    /\ LET same == SelectSeq(rec[w.step], LAMBDA r :
                      r.attempt = Attempt /\ r.tree = Digest)
           report == IF same = <<>> THEN Report ELSE Last(same)
       IN /\ rec' = IF same = <<>> THEN Added(w.step, report) ELSE rec
          /\ w' = [w EXCEPT !.seen = None,
                     !.at = IF Accepts(report) THEN "done" ELSE "failed"]
    /\ UNCHANGED <<given, run, task, proof, world>>

-----------------------------------------------------------------------------
(* Documentation and final validation. *)

ArtifactMatches == rec.artifact # None => rec.artifact = tree.doc

\* Writes the block of the run, into the workspace if the policy names a file; a path that
\* is denied, and contents that are sensitive or malformed, are refused (and counted with
\* the changes from outside).
WriteDocument ==
    /\ At("documentation")
    /\ UNCHANGED <<given, capsule, head, remote, crashes, swapped>>
    /\ \/ /\ Working /\ rec.artifact = None
          /\ tree' = IF given.docs THEN [tree EXCEPT !.doc = "documented"] ELSE tree
          /\ w' = [w EXCEPT !.at = "artifact", !.seen = tree']
          /\ UNCHANGED edits
       \/ /\ Working /\ rec.artifact = None
          /\ edits < MaxEdits /\ edits' = edits + 1
          /\ Goto("failed") /\ UNCHANGED tree
       \/ /\ Working => rec.artifact # None
          /\ Goto(IF Working /\ ArtifactMatches THEN "done" ELSE "failed")
          /\ UNCHANGED <<tree, edits>>

SaveArtifact ==
    /\ At("artifact")
    /\ rec' = [rec EXCEPT !.artifact = w.seen.doc]
    /\ w' = [w EXCEPT !.at = "done", !.seen = None]
    /\ UNCHANGED <<given, run, task, proof, world>>

\* A validation of this attempt and tree is returned, passed or not.
BeginValidation ==
    /\ At("validation")
    /\ OnlyWorker
    /\ LET earlier == SelectSeq(rec.validations, LAMBDA v :
                         v.attempt = Attempt /\ v.before = Digest)
       IN IF ~ Working \/ Digest = Unverified THEN Goto("failed")
          ELSE IF earlier # <<>>
          THEN Goto(IF Last(earlier).passed THEN "done" ELSE "failed")
          ELSE w' = [w EXCEPT !.at = "criterion", !.seen = tree]

Key == [attempt |-> Attempt, tree |-> w.seen]

\* GoalService.validate: evidence is returned; a key that was begun is refused.
BeginCriterion ==
    /\ At("criterion")
    /\ UNCHANGED <<given, run, task, rec, world>>
    /\ IF Key \in proof.evidence THEN UNCHANGED proof /\ Goto("conclude")
       ELSE IF Key \in proof.started \/ ~ Working THEN UNCHANGED proof /\ Goto("failed")
       ELSE /\ proof' = [proof EXCEPT !.criterion = "TESTING", !.started = @ \union {Key}]
            /\ Goto("evaluate")

\* The tests run; the only point where a cancelled run interrupts the step.
Evaluate(outcome) ==
    /\ At("evaluate")
    /\ proof' = [proof EXCEPT !.evidence = @ \union {Key},
                   !.criterion = IF run.state = "CANCELLED" THEN "PENDING" ELSE outcome]
    /\ \/ Goto("conclude")
       \/ Goto("failed")
    /\ UNCHANGED <<given, run, task, rec, world>>

\* The workspace is digested and the criteria are read ...
Conclude ==
    /\ At("conclude")
    /\ OnlyWorker
    /\ IF Digest = Unverified THEN Goto("failed")
       ELSE w' = [w EXCEPT !.at = "check", !.after = tree]

Validation(holds) ==
    [attempt |-> Attempt, before |-> w.seen, tree |-> w.after,
     passed |-> w.seen = w.after /\ proof.criterion = "PASS" /\ ArtifactMatches /\ holds]

\* ... and then the artifact and the sources, by what the reviews say they contain, and the
\* result is recorded, unless one of them cannot be read.
CheckSources(holds) ==
    /\ At("check")
    /\ UNCHANGED <<given, run, task, proof, world>>
    /\ \/ /\ rec' = Added("validations", Validation(holds))
          /\ w' = [w EXCEPT !.seen = None, !.after = None,
                     !.at = IF Validation(holds).passed THEN "done" ELSE "failed"]
       \/ UNCHANGED rec /\ Goto("failed")

-----------------------------------------------------------------------------
(* The commit. *)

OnlyRecord == UNCHANGED <<given, run, task, proof, world>>
Certificate == Last(rec.final)

BeginGit ==
    /\ At("git")
    /\ OnlyWorker
    /\ IF run.state = "COMMITTING"
       THEN Goto(IF ~ Working \/ ~ Guard("COMMITTING") THEN "failed"
                 ELSE IF rec.delivery = None THEN "stage" ELSE "status")
       ELSE Goto(IF given.push THEN "pushing" ELSE "done")

\* stage: the tree is the certified one before its blobs are stored ...
Stage ==
    /\ At("stage")
    /\ OnlyWorker
    /\ Goto(IF Certificate.passed /\ Certificate.tree = Digest THEN "store" ELSE "failed")

StoreBlobs ==
    /\ At("store")
    /\ OnlyWorker
    /\ w' = [w EXCEPT !.at = "verify", !.seen = tree]

\* ... and after.
Verify ==
    /\ At("verify")
    /\ OnlyWorker
    /\ Goto(IF Certificate.tree # Digest THEN "failed"
            ELSE IF rec.delivery = None THEN "intent" ELSE "compare")

Intent ==
    [certified |-> Certificate.tree, tree |-> w.seen,
     created |-> FALSE, attached |-> FALSE, pushed |-> FALSE]

SaveIntent ==
    /\ At("intent")
    /\ rec' = [rec EXCEPT !.delivery = Intent]
    /\ w' = [w EXCEPT !.at = "status", !.seen = None]
    /\ OnlyRecord

\* Before the commit the tree is staged once more; after it the checkout is on it.
CheckStatus ==
    /\ At("status")
    /\ OnlyWorker
    /\ Goto(IF head = Base THEN "stage"
            ELSE IF rec.delivery.created /\ OnCommit THEN "create" ELSE "failed")

\* Variant: what is staged again is not compared with the intent.
CompareNothing == At("compare") /\ Goto("create") /\ OnlyWorker

Compare ==
    /\ At("compare")
    /\ OnlyWorker
    /\ Goto(IF w.seen = rec.delivery.tree THEN "create" ELSE "failed")

\* commit-tree: the object follows from the intent, so making it again is no change.
CreateCommit ==
    /\ At("create")
    /\ rec' = [rec EXCEPT !.delivery.created = TRUE]
    /\ Goto("attach")
    /\ OnlyRecord

\* update-ref from the base commit, or nothing if the branch is there.
Attach ==
    /\ At("attach")
    /\ UNCHANGED <<given, capsule, tree, remote, edits, crashes, swapped>>
    /\ IF head \in {Base, rec.delivery.tree}
       THEN head' = rec.delivery.tree /\ Goto("attached")
       ELSE UNCHANGED head /\ Goto("failed")

SaveAttached ==
    /\ At("attached")
    /\ rec' = [rec EXCEPT !.delivery.attached = TRUE]
    /\ Goto(IF given.push THEN "pushing" ELSE "done")
    /\ OnlyRecord

-----------------------------------------------------------------------------
(* The push, and the memory of the run. *)

BeginPush ==
    /\ At("pushing")
    /\ UNCHANGED <<given, task, rec, proof, world>>
    /\ IF run.state = "PUSHING" \/ Replayed("PUSHING") THEN UNCHANGED run /\ Goto("push")
       ELSE IF MayAdvance("PUSHING") THEN Enter("PUSHING") /\ Goto("push")
       ELSE UNCHANGED run /\ Goto("failed")

\* Variant: the run is not looked at again before the push.
PushOutright ==
    /\ At("push")
    /\ OnlyWorker
    /\ Goto("send")

Push ==
    /\ At("push")
    /\ OnlyWorker
    /\ Goto(IF run.state # "PUSHING" \/ ~ Working \/ ~ Guard("PUSHING") THEN "failed"
            ELSE IF rec.delivery.pushed THEN "done" ELSE "send")

\* The remote may refuse; it may also take the commit and the answer be lost.
Send(outcome) ==
    /\ At("send")
    /\ UNCHANGED <<given, capsule, tree, head, edits, crashes, swapped>>
    /\ LET taken == OnCommit /\ outcome # "refused" IN
       /\ remote' = IF taken THEN rec.delivery.tree ELSE remote
       /\ Goto(IF taken /\ outcome = "answered" THEN "sent" ELSE "failed")

SavePushed ==
    /\ At("sent")
    /\ rec' = [rec EXCEPT !.delivery.pushed = TRUE]
    /\ Goto("done")
    /\ OnlyRecord

AtMemory == run.state = "MEMORY_FINALIZATION" /\ Guard("MEMORY_FINALIZATION")

\* The outcome is proposed to the curated memory (see CuratedMemory) ...
ProposeMemory ==
    /\ At("memory")
    /\ OnlyWorker
    /\ Goto(IF ~ AtMemory \/ ~ Working \/ ~ OnCommit THEN "failed"
            ELSE IF rec.promoted THEN "done" ELSE "proposed")

\* ... and then recorded in the run, if it is still there.
Promote ==
    /\ At("proposed")
    /\ rec' = [rec EXCEPT !.promoted = @ \/ AtMemory]
    /\ Goto(IF AtMemory THEN "done" ELSE "failed")
    /\ OnlyRecord

-----------------------------------------------------------------------------
(* The operator, the workspace and the machine. *)

\* The units of work that inspect, document, conclude and stage hold the lock of the run.
Unlocked ==
    /\ w.at \notin {"digest", "artifact", "check", "intent"}
    /\ w.at \in {"stage", "store", "verify"} => rec.delivery # None
OnlyRun == UNCHANGED <<given, task, rec, proof, world, w>>

Pause ==
    /\ Unlocked
    /\ run.state \notin Terminal \union {"PAUSED"}
    /\ NoneRunning
    /\ Suspend("PAUSED")
    /\ OnlyRun

Resume ==
    /\ Unlocked
    /\ run.state \in Suspended
    /\ Guard(run.resume)
    /\ run' = [state |-> run.resume, resume |-> None]
    /\ OnlyRun

Cancel ==
    /\ Unlocked
    /\ run.state \notin Terminal
    /\ run' = [state |-> "CANCELLED", resume |-> None]
    /\ task' = [s \in Step |-> IF task[s].status = "SUCCEEDED" THEN task[s]
                               ELSE [task[s] EXCEPT !.status = "CANCELLED"]]
    /\ UNCHANGED <<given, rec, proof, world, w>>

\* RecoveryService.retry, by an owner who finds the lease of the run free.
Recover(s) ==
    /\ At("idle")
    /\ run.state \notin Terminal
    /\ task[s].status \in {"RUNNING", "BLOCKED"}
    /\ task[s].attempt < MaxAttempts
    /\ task' = [task EXCEPT ![s].status = "READY"]
    /\ UNCHANGED <<given, run, rec, proof, world, w>>

\* Where a digest cannot tell: after others were read, the contents it is compared with
\* come back, in an inspection or in the staging before the commit; or after the digest
\* of the validation, the documentation it is to have.
Swaps(t) ==
    \/ /\ t # w.seen
       /\ \/ /\ At("digest")
             /\ t = IF w.step = "implementation" THEN Reviewed ELSE Last(rec.validations).tree
          \/ At("verify") /\ rec.delivery # None /\ t = Certificate.tree
    \/ At("check") /\ w.after.doc # rec.artifact /\ t.doc = rec.artifact

Edit(t) ==
    /\ edits < MaxEdits
    /\ edits' = edits + 1
    /\ t # tree
    /\ t.doc = tree.doc \/ t.doc = "plain" \/ rec.artifact = "documented"
    /\ tree' = t
    /\ swapped' = (swapped \/ Swaps(t))
    /\ UNCHANGED <<given, capsule, head, remote, w, crashes>>

\* Somebody commits on the branch of the run.
CommitElsewhere ==
    /\ edits < MaxEdits
    /\ edits' = edits + 1
    /\ head \notin {Foreign, Above}
    /\ head' = IF head = Base THEN Foreign ELSE Above
    /\ UNCHANGED <<given, capsule, tree, remote, w, crashes, swapped>>

\* The process dies: its locks and its lease are released.
Crash ==
    /\ ~ At("idle")
    /\ crashes < MaxCrashes
    /\ crashes' = crashes + 1
    /\ Quit
    /\ UNCHANGED <<given, capsule, tree, head, remote, edits, swapped>>

Work ==
    \/ NextStep \/ AdvanceRun \/ Start \/ Done \/ Failed \/ BlockRun \/ Finish
    \/ Inspect \/ Certify \/ WriteDocument \/ SaveArtifact
    \/ BeginValidation \/ BeginCriterion \/ Conclude
    \/ \E holds \in BOOLEAN : CheckSources(holds)
    \/ \E outcome \in {"PASS", "FAIL"} : Evaluate(outcome)
    \/ BeginGit \/ Stage \/ StoreBlobs \/ Verify \/ SaveIntent \/ CheckStatus \/ Compare
    \/ CreateCommit \/ Attach \/ SaveAttached
    \/ BeginPush \/ Push \/ SavePushed \/ ProposeMemory \/ Promote
    \/ \E outcome \in {"answered", "lost", "refused"} : Send(outcome)
Operate == Pause \/ Resume \/ Cancel \/ \E s \in Step : Recover(s)
Interfere == CommitElsewhere \/ Crash \/ \E t \in Tree : Edit(t)
Next == Invoke \/ Work \/ Operate \/ Interfere

\* finalize runs to its end once called, and is called again after a restart.
Spec == Init /\ [][Next]_vars /\ WF_vars(Work) /\ WF_vars(Invoke)

-----------------------------------------------------------------------------
(* Properties. *)

Reports == Seq([attempt : 1..MaxAttempts, tree : Tree \union {Unverified},
                code : Code, passed : BOOLEAN])
Keys == [attempt : 1..MaxAttempts, tree : Tree]

\* Types of everything the capsule, the repository and the worker hold.
TypeOK ==
    /\ run.state \in ToSet(States) \union Suspended \union {"CANCELLED"}
    /\ run.resume \in ToSet(States) \union {None}
    /\ (run.resume = None) = (run.state \notin Suspended)
    /\ \A s \in Step : task[s].attempt \in 0..MaxAttempts
    /\ rec.implementation \in Reports /\ rec.final \in Reports
    /\ rec.artifact \in {None, "plain", "documented"}
    /\ rec.delivery \in Deliveries \union {None}
    /\ proof.evidence \subseteq proof.started /\ proof.started \subseteq Keys
    /\ tree \in Tree /\ head \in Tree \union {Base, Foreign, Above}
    /\ remote \in Tree \union {None}
    /\ w.seen \in Tree \union {None} /\ w.after \in Tree \union {None}

\* The reviewed code with the documentation of the run, and nothing else, is what the
\* branch and the remote can get, however the workspace changes meanwhile and wherever
\* delivery is interrupted: what is committed is what was reviewed, has no finding of
\* the Guardian, and passed the final validation and inspection as one tree.  The one
\* exception is a workspace that is changed and changed back around a digest: what was
\* read in between is inspected, validated or staged for it (delivery/guardian.py:182,
\* delivery/validation.py:89, git/delivery.py:87).
CommitIsCertified ==
    ~ swapped => \A commit \in {head, remote} \ {Base, Foreign, Above, None} :
        /\ commit.code = given.code
        /\ commit.code \notin Flagged
        /\ given.docs => commit.doc = "documented"
        /\ \E v \in ToSet(rec.validations) : v.passed /\ v.tree = commit
        /\ \E r \in ToSet(rec.final) : r.passed /\ r.tree = commit

\* The capsule never claims more than the repositories have: a commit recorded as
\* attached is or was on the branch, a push recorded as done is at the remote, and a
\* completed run has all of it. Interruptions only ever leave the record behind.
RecordsFollowGit ==
    /\ rec.delivery # None =>
         /\ rec.delivery.attached => head \in {rec.delivery.tree, Above}
         /\ rec.delivery.pushed => remote = rec.delivery.tree
    /\ run.state = "COMPLETED" =>
         rec.promoted /\ rec.delivery.attached /\ (given.push => remote # None)

\* A cancelled run starts no delivery, and its branch moves and its remote changes only
\* if the commit was already intended or the push already under way.
CancelStopsDelivery ==
    [][run.state = "CANCELLED" =>
         /\ rec.delivery = None => rec'.delivery = None
         /\ head' # head => head' \in {Foreign, Above} \/ rec.delivery # None
         /\ w'.at = "send" \/ remote' # remote => At("send")
         /\ run'.state = "CANCELLED"]_vars

\* A commit of somebody else on the branch of the run is never overwritten.
ForeignCommitsStay == [][head \notin {Foreign, Above}]_head

\* Delivery does not get stuck: whatever was interrupted, calling finalize again ends
\* with the run completed, cancelled, suspended or a step blocked for the operator.
DeliverySettles ==
    []<>(\/ run.state \in Terminal \union Suspended
         \/ \E s \in Step : task[s].status = "BLOCKED")

\* Capsule, branch and remote agree with what was certified, wherever delivery stopped.
DeliveryInv == TypeOK /\ CommitIsCertified /\ RecordsFollowGit

\* The branch and the remote belong to others too: a delivery that is cancelled leaves them
\* alone, and one that is not never overwrites what somebody else committed.
BranchIsRespected == CancelStopsDelivery /\ ForeignCommitsStay
=============================================================================
