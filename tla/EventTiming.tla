----------------------------- MODULE EventTiming -----------------------------
(***************************************************************************)
(* What the projections read out of the event history of a run: how long   *)
(* each attempt and the run were active, waiting, blocked or idle, the     *)
(* segments of the timeline, the peak of parallel work and the critical    *)
(* path of the plan.  An event is a record of its subject (the run, an     *)
(* approval the run asked for, or an attempt), the status it reports and   *)
(* the instant it occurred at.  Instants are finer than the milliseconds   *)
(* that are counted.                                                       *)
(***************************************************************************)
EXTENDS Integers, Sequences, FiniteSetsExt

CONSTANTS
    PerMs,          \* instants in a millisecond
    Short           \* whole milliseconds that the floating-point product falls short of

ASSUME TimingAssumption ==
    /\ PerMs \in Nat \ {0}
    /\ \A d \in Short : d \in Nat /\ d > PerMs /\ d % PerMs = 0

ActiveStatuses == {"RUNNING", "EXECUTING"}
WaitingStatuses == {"WAITING", "PAUSED"}
BlockedStatuses == {"BLOCKED"}
Ending == {"SUCCEEDED", "FAILED", "CANCELLED", "COMPLETED"}

Category(status) ==
    CASE status \in ActiveStatuses -> "active"
      [] status \in WaitingStatuses -> "waiting"
      [] status \in BlockedStatuses -> "blocked"
      [] OTHER -> "idle"
Categories == {"active", "waiting", "blocked", "idle"}

\* The events an entity's time is computed from: an attempt's are its own, the run's are
\* its own, the requests and decisions of its operator, and every TASK_STARTED.
History(events, entity) ==
    SelectSeq(events, LAMBDA e : \/ e.subject = entity
                                 \/ entity = "run" /\ (e.subject = "approval"
                                                        \/ e.status = "RUNNING"))

\* _timing_status: a run waits for its operator, also once approved, and a rejection blocks it.
TimingStatus(e) ==
    IF e.subject # "approval" THEN e.status
    ELSE IF e.status = "REJECTED" THEN "BLOCKED" ELSE "WAITING"

\* The events that open an interval: those before the first that ends the entity.
Counted(history) ==
    {i \in DOMAIN history : \A j \in 1..i : TimingStatus(history[j]) \notin Ending}

Until(history, i, now) == IF i < Len(history) THEN history[i + 1].at ELSE now

\* int(total_seconds() * 1000): what is left of a millisecond is cut off, and of some whole
\* milliseconds a whole one.
Milliseconds(span) == span \div PerMs - (IF span \in Short THEN 1 ELSE 0)

\* Nothing, if the clock is behind the event.
Duration(history, i, now) ==
    Max({0, Milliseconds(Max({0, Until(history, i, now) - history[i].at}))})

Total(history, indexes, now) ==
    MapThenSumSet(LAMBDA i : Duration(history, i, now), indexes)

Intervals(history, now) ==
    [c \in Categories |->
        Total(history, {i \in Counted(history) : Category(TimingStatus(history[i])) = c}, now)]
Wall(history, now) == Total(history, Counted(history), now)

\* timeline: a segment for every interval of every entity.
Timeline(events, entities, now) ==
    UNION {LET history == History(events, e)
           IN {[entity |-> e, nth |-> i, status |-> history[i].status,
                from |-> history[i].at,
                to |-> Max({Until(history, i, now), history[i].at})] : i \in Counted(history)} :
           e \in entities}

\* A segment counts if its duration_ms is not zero.
Running(segments) ==
    {s \in segments : s.status = "RUNNING" /\ Milliseconds(s.to - s.from) > 0}
Instants(segments) == {s.from : s \in segments} \union {s.to : s \in segments}

\* Variant: at one instant, what starts is counted before what ends.
ChangeOfStarts(segments, t) == Cardinality({s \in segments : s.from = t})

Change(segments, t) ==
    Cardinality({s \in segments : s.from = t}) - Cardinality({s \in segments : s.to = t})

Concurrent(segments, t) ==
    MapThenSumSet(LAMBDA u : Change(segments, u), {u \in Instants(segments) : u <= t})

\* max_parallel_tasks: the highest running sum over the sorted instants.
MaxParallel(segments) ==
    Max({0} \union {Concurrent(Running(segments), t) : t \in Instants(Running(segments))})

Longest(paths) == CHOOSE p \in paths : \A q \in paths : p.ms >= q.ms

\* The path that ends in each task, extending the longest path of its parents.
Paths(parents, weight) ==
    LET path[t \in DOMAIN parents] ==
          LET best == IF parents[t] = {} THEN [ms |-> 0, tasks |-> <<>>]
                      ELSE Longest({path[p] : p \in parents[t]})
          IN [ms |-> best.ms + weight[t], tasks |-> Append(best.tasks, t)]
    IN {path[t] : t \in DOMAIN parents}

\* critical: the longest, and of those the one with the most tasks.
Critical(parents, weight) ==
    LET longest == {p \in Paths(parents, weight) :
                      \A q \in Paths(parents, weight) : p.ms >= q.ms}
    IN CHOOSE p \in longest : \A q \in longest : Len(p.tasks) >= Len(q.tasks)
=============================================================================
