--------------------------- MODULE MCRunLifecycle ---------------------------
(* Instances of RunLifecycle: the planners' chain, and a plan with two developers. *)
EXTENDS RunLifecycle

Step(name, roleName) == [step |-> name, role |-> roleName]
Develop == Step("develop", "DEVELOPER")
Port == Step("port", "DEVELOPER")
Check == Step("test", "TESTER")
Judge == Step("review", "REVIEWER")

\* VerticalPlanner: developer, then tester, then reviewer.
Vertical == [tasks |-> {Develop, Check, Judge},
             after |-> {<<Check, Develop>>, <<Judge, Check>>}]

\* An edited plan: two developers side by side.
Wide == [tasks |-> {Develop, Port, Check, Judge},
         after |-> {<<Check, Develop>>, <<Check, Port>>, <<Judge, Check>>}]

\* Goal revision, preview edits and replanning around paused, waiting and recovered work.
Replanning ==
    [templates |-> {Vertical}, gates |-> {"GOAL", "PLAN"}, pushes |-> {},
     interrupts |-> {"PAUSED", "CANCELLED"}, reports |-> {"RUNNING", "WAITING", "SUCCEEDED"},
     repairs |-> 0, attempts |-> 2, goals |-> 2, versions |-> 2, reviews |-> 0]

\* Two developers of one plan, with workers that wait, are recovered, fail or give up.
Writers ==
    [templates |-> {Wide}, gates |-> {}, pushes |-> {}, interrupts |-> {"BLOCKED", "FAILED"},
     reports |-> {"RUNNING", "WAITING", "SUCCEEDED", "CANCELLED"},
     repairs |-> 0, attempts |-> 2, goals |-> 1, versions |-> 1, reviews |-> 1]

\* The same with one attempt each, then a repair of what they did.
RepairedWriters ==
    [Writers EXCEPT !.interrupts = {"FAILED"}, !.reports = @ \ {"CANCELLED"},
                    !.repairs = 1, !.attempts = 1, !.versions = 2]

\* Delivery of a run whose goal the operator may revise while it is paused and its
\* reviewer waits.
Delivering ==
    [templates |-> {Vertical}, gates |-> {"DELIVERY"}, pushes |-> {TRUE},
     interrupts |-> {"PAUSED"}, reports |-> {"RUNNING", "WAITING", "SUCCEEDED"},
     repairs |-> 0, attempts |-> 1, goals |-> 2, versions |-> 3, reviews |-> 2]

\* Delivery of a run whose workers are recovered, its reviewer too, after they have acted.
Recovered ==
    [Delivering EXCEPT !.pushes = {FALSE}, !.interrupts = {}, !.reports = {"SUCCEEDED"},
                       !.attempts = 2, !.goals = 1, !.versions = 2]

\* A failed review, its repair, and delivery to the end.
Repairing ==
    [templates |-> {Vertical}, gates |-> {"REPAIR", "DELIVERY"}, pushes |-> BOOLEAN,
     interrupts |-> {"HUMAN_REVIEW_REQUIRED"},
     reports |-> {"RUNNING", "WAITING", "SUCCEEDED"},
     repairs |-> 1, attempts |-> 1, goals |-> 1, versions |-> 3, reviews |-> 2]

Runs == {Replanning, Delivering, Recovered, Repairing, Writers, RepairedWriters}
=============================================================================
