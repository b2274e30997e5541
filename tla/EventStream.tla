----------------------------- MODULE EventStream -----------------------------
(***************************************************************************)
(* From the event history of a run to the console that shows it: the units *)
(* of work of the API process and of another process append events, the    *)
(* process-local bus wakes the WebSocket, which replays the durable        *)
(* history from its cursor, and the console merges what it receives into   *)
(* the window of events it shows.  Notifications are dropped, made in the  *)
(* wrong process or never made; connections break; processes die.          *)
(***************************************************************************)
EXTENDS EventTiming

CONSTANTS
    Settings,       \* the instances that are checked together (see StreamInit)
    Parents,        \* the plan: the tasks each task depends on
    TaskOf,         \* the task of every attempt
    QueueSize,      \* of a subscription to the bus
    Window,         \* events a console keeps
    MaxInFlight,    \* bound: messages sent and not yet received
    Nothing

OfRun == {"run", "approval"}

ASSUME StreamAssumption ==
    /\ QueueSize \in Nat \ {0} /\ Window \in Nat
    /\ Nothing \notin {"api", "cli"}
    /\ \A s \in Settings : /\ s.events \in Nat /\ s.times \subseteq Nat /\ s.now \subseteq Nat
                          /\ \A d \in s.drafts : d.subject \in OfRun \union DOMAIN TaskOf

Attempts == DOMAIN TaskOf
Processes == {"api", "cli"}

VARIABLES
    setting,
    log, executions,            \* the capsule: its events and its attempts
    uow, lock,                  \* the units of work, and who has the run's lock
    bus,                        \* the subscription, and callbacks its loop has yet to run
    stream, channel,            \* the WebSocket: its server, messages under way
    console,
    faults

Console == setting.console      \* whether somebody watches
Drafts == setting.drafts        \* [subject, status]
Times == setting.times
MaxEvents == setting.events     \* bound: length of the history
MaxFaults == setting.faults     \* bound: failures of any kind

saved == <<log, executions>>
server == <<bus, stream>>
streamVars == <<setting, saved, uow, lock, server, channel, console, faults>>

NoWork == [at |-> "idle", events |-> <<>>, executions |-> <<>>, pending |-> <<>>]
NoBus == [subscribed |-> FALSE, callbacks |-> <<>>, queue |-> <<>>]
NoStream == [at |-> "closed", cursor |-> 0, state |-> 0]

StreamInit ==
    /\ setting \in Settings
    /\ log = <<>>
    /\ executions = [a \in Attempts |-> [status |-> "none", timing |-> Nothing]]
    /\ uow = [p \in Processes |-> NoWork]
    /\ lock = Nothing
    /\ bus = NoBus
    /\ stream = NoStream
    /\ channel = <<>>
    /\ console = [at |-> "offline", cursor |-> 0, seen |-> 0, shown |-> {}, pending |-> {},
                  base |-> 0]
    /\ faults = 0

Fault == faults < MaxFaults /\ faults' = faults + 1
OnlyWork == UNCHANGED <<setting, server, channel, console>>
OnlyServer == UNCHANGED <<setting, saved, uow, lock, console, faults>>
OnlyConsole == UNCHANGED <<setting, saved, uow, lock, bus, faults>>

-----------------------------------------------------------------------------
(* Units of work. *)

\* append: an event never occurs before the one it follows.
Stamp(events, at) ==
    IF events = <<>> THEN at ELSE Max({events[Len(events)].at, at})

Moves == [none |-> {"RUNNING"}, RUNNING |-> {"WAITING", "BLOCKED"} \union Ending,
          WAITING |-> {"RUNNING", "CANCELLED"}, BLOCKED |-> {"RUNNING", "CANCELLED"}]
CanMove(status, to) ==
    status \in DOMAIN Moves /\ to \in Moves[status]

\* transition_in_transaction: the attempt keeps the time computed up to its event.
Timing(events, a, at) == Intervals(History(events, a), events[Len(events)].at)

\* A unit of work takes the lock with its first event and keeps it until it is closed.
Stage(p) ==
    /\ p \in setting.writers
    /\ Len(log) + Len(uow[p].events) < MaxEvents
    /\ \/ lock = Nothing /\ uow[p].at = "idle"
       \/ lock = p /\ uow[p].at = "staging" /\ setting.batches
    /\ LET attempts == IF lock = p THEN uow[p].executions ELSE executions
       IN \E draft \in Drafts, at \in Times :
            LET a == draft.subject
                before == log \o uow[p].events
                event == [subject |-> a, status |-> draft.status, at |-> Stamp(before, at)]
            IN /\ a \in Attempts => CanMove(attempts[a].status, draft.status)
               /\ uow' = [uow EXCEPT ![p] =
                     [NoWork EXCEPT
                        !.at = "staging",
                        !.events = Append(uow[p].events, event),
                        !.executions =
                           IF a \notin Attempts THEN attempts
                           ELSE [attempts EXCEPT ![a] =
                                   [status |-> draft.status,
                                    timing |-> Timing(Append(before, event), a, at)]]]]
    /\ lock' = p
    /\ UNCHANGED <<saved, faults>>
    /\ OnlyWork

EndWork(p) ==
    /\ uow' = [uow EXCEPT ![p] = NoWork]
    /\ lock' = Nothing

Abort(p) ==
    /\ uow[p].at = "staging"
    /\ EndWork(p)
    /\ Fault
    /\ UNCHANGED saved
    /\ OnlyWork

\* session.commit: the capsule is replaced, and what it gained is kept to be announced.
CommitCapsule(p) ==
    /\ uow[p].at = "staging"
    /\ log' = log \o uow[p].events
    /\ executions' = uow[p].executions
    /\ uow' = [uow EXCEPT ![p] = [NoWork EXCEPT !.at = "committed",
                                   !.pending = [i \in DOMAIN uow[p].events |-> Len(log) + i]]]
    /\ UNCHANGED <<lock, faults>>
    /\ OnlyWork

\* The memory commit fails after the capsule's: nothing is announced.
MemoryFails(p) ==
    /\ uow[p].at = "committed"
    /\ EndWork(p)
    /\ Fault
    /\ UNCHANGED saved
    /\ OnlyWork

\* publish: one callback for every event and every subscriber of this process.
Publish(p) ==
    /\ uow[p].at \in {"committed", "publishing"}
    /\ UNCHANGED <<setting, saved, stream, channel, console, faults>>
    /\ IF uow[p].pending = <<>> THEN EndWork(p) /\ UNCHANGED bus
       ELSE /\ uow' = [uow EXCEPT ![p].at = "publishing", ![p].pending = Tail(@)]
            /\ bus' = IF p = "api" /\ bus.subscribed
                      THEN [bus EXCEPT !.callbacks = Append(@, Head(uow[p].pending))]
                      ELSE bus
            /\ UNCHANGED lock

EndProcess(p) ==
    /\ Fault
    /\ IF lock = p THEN EndWork(p) ELSE UNCHANGED <<uow, lock>>
    /\ IF p = "api" THEN bus' = NoBus /\ stream' = NoStream ELSE UNCHANGED server
    /\ UNCHANGED <<setting, saved, channel, console>>

-----------------------------------------------------------------------------
(* The bus and the WebSocket. *)

\* _offer_latest: a full queue loses its oldest notification.
Offer ==
    /\ bus.callbacks # <<>>
    /\ LET room == IF Len(bus.queue) < QueueSize THEN bus.queue ELSE Tail(bus.queue)
       IN bus' = [bus EXCEPT !.callbacks = Tail(@), !.queue = Append(room, Head(bus.callbacks))]
    /\ UNCHANGED <<stream, channel>>
    /\ OnlyServer

Subscribe ==
    /\ stream.at = "subscribe"
    /\ stream' = [stream EXCEPT !.at = "snapshot"]
    /\ bus' = [NoBus EXCEPT !.subscribed = TRUE]
    /\ UNCHANGED channel
    /\ OnlyServer

\* Variant: a snapshot that does not wait for the writer, and sees what it has staged.
HistoryBeingWritten ==
    IF lock = Nothing THEN log ELSE log \o uow[lock].events

\* get_snapshot holds the lock every writer of the run takes.
HistoryLocked == IF lock = Nothing THEN log ELSE Nothing

Snapshot(n) == HistoryLocked # Nothing /\ n = Len(HistoryLocked)

\* A cursor beyond the history closes the connection.
TakeSnapshot ==
    /\ stream.at = "snapshot"
    /\ \E n \in 0..MaxEvents :
         /\ Snapshot(n)
         /\ IF stream.cursor > n THEN stream' = NoStream /\ bus' = NoBus
            ELSE stream' = [stream EXCEPT !.at = "replay", !.state = n] /\ UNCHANGED bus
    /\ UNCHANGED channel
    /\ OnlyServer

\* Variant: the events that were announced, instead of all since the cursor.
MissedAnnounced(cursor, state) == {state} \ {cursor}

Missed(cursor, state) == cursor + 1..state

Send(message) ==
    /\ Len(channel) < MaxInFlight
    /\ channel' = Append(channel, message)

Replay ==
    /\ stream.at = "replay"
    /\ lock = Nothing
    /\ LET batch == Missed(stream.cursor, stream.state)
       IN IF batch = {} THEN UNCHANGED channel
          ELSE Send([type |-> "events", events |-> batch])
    /\ stream' = [stream EXCEPT !.at = "report"]
    /\ UNCHANGED bus
    /\ OnlyServer

Report ==
    /\ stream.at = "report"
    /\ Send([type |-> "snapshot", cursor |-> stream.state])
    /\ stream' = [stream EXCEPT !.at = "wait", !.cursor = stream.state]
    /\ UNCHANGED bus
    /\ OnlyServer

\* receive: whatever the notification says, the loop begins again.
Receive ==
    /\ stream.at = "wait"
    /\ bus.queue # <<>>
    /\ bus' = [bus EXCEPT !.queue = Tail(@)]
    /\ stream' = [stream EXCEPT !.at = "snapshot"]
    /\ UNCHANGED channel
    /\ OnlyServer

\* Variant: only a notification wakes the stream.
NeverWake == FALSE /\ UNCHANGED streamVars

\* receive: after a second without a notification.
Wake ==
    /\ stream.at = "wait"
    /\ bus.queue = <<>>
    /\ stream' = [stream EXCEPT !.at = "snapshot"]
    /\ UNCHANGED <<bus, channel>>
    /\ OnlyServer

-----------------------------------------------------------------------------
(* The console. *)

\* mergeEvents: those up to the cursor, the latest of all.
Merge(current, incoming, cursor) ==
    LET all == current \union {n \in incoming : n <= cursor}
    IN {n \in all : Cardinality({k \in all : k > n}) < Window}

\* connect: the state of the run is fetched first, and shown at once.
Fetch ==
    /\ Console
    /\ console.at = "offline"
    /\ \E n \in 0..MaxEvents :
         Snapshot(n) /\ console' = [console EXCEPT !.at = "history", !.seen = n, !.cursor = n]
    /\ UNCHANGED <<stream, channel>>
    /\ OnlyConsole

\* The request names the events before the state; the answer has those appended since.
FetchHistory ==
    /\ console.at = "history"
    /\ UNCHANGED <<setting, saved, uow, lock, server, channel>>
    /\ \/ /\ lock = Nothing
          /\ LET after == Max({0, console.seen - Window})
                 history == after + 1..Min({after + Window, Len(log)})
             IN console' = [console EXCEPT !.at = "connect", !.pending = {}, !.base = 0,
                                           !.shown = Merge({}, history, console.seen)]
          /\ UNCHANGED faults
       \/ /\ Fault
          /\ console' = [console EXCEPT !.at = "connect", !.pending = {}, !.shown = {},
                                        !.base = console.seen]

Open ==
    /\ console.at = "connect"
    /\ console' = [console EXCEPT !.at = "open"]
    /\ stream' = [at |-> "subscribe", cursor |-> console.cursor, state |-> 0]
    /\ channel' = <<>>
    /\ OnlyConsole

\* EventBuffer.take: events wait for the snapshot they belong to.
Take(pending, cursor) == {n \in pending : n <= cursor}

\* onmessage: a snapshot older than the cursor is passed over.
Message ==
    /\ console.at = "open"
    /\ channel # <<>>
    /\ channel' = Tail(channel)
    /\ LET m == Head(channel)
       IN \/ /\ m.type = "events"
             /\ console' = [console EXCEPT !.pending = @ \union m.events]
          \/ /\ m.type = "snapshot" /\ m.cursor >= console.cursor
             /\ console' = [console EXCEPT
                              !.cursor = m.cursor, !.seen = m.cursor,
                              !.pending = @ \ Take(@, m.cursor),
                              !.shown = Merge(@, Take(console.pending, m.cursor), m.cursor)]
          \/ m.type = "snapshot" /\ m.cursor < console.cursor /\ UNCHANGED console
    /\ UNCHANGED stream
    /\ OnlyConsole

\* The connection breaks, or its server is gone: onclose connects again.
Hangup ==
    /\ console' = [console EXCEPT !.at = "offline"]
    /\ stream' = NoStream
    /\ bus' = NoBus
    /\ channel' = <<>>
    /\ UNCHANGED <<setting, saved, uow, lock>>

Drop == console.at = "open" /\ Fault /\ Hangup
Disconnected ==
    /\ console.at = "open"
    /\ stream.at = "closed" /\ channel = <<>>
    /\ Hangup
    /\ UNCHANGED faults

-----------------------------------------------------------------------------
Write(p) ==
    \/ Stage(p) \/ Abort(p) \/ CommitCapsule(p)
    \/ MemoryFails(p) \/ Publish(p) \/ EndProcess(p)
Serve == Offer \/ Subscribe \/ TakeSnapshot \/ Replay \/ Report \/ Receive \/ Wake
Watch == Fetch \/ FetchHistory \/ Open \/ Message \/ Drop \/ Disconnected

StreamNext == (\E p \in Processes : Write(p)) \/ Serve \/ Watch

\* A unit of work that has begun goes on to its end; the loop of the server runs what is
\* ready, its timer fires, and the console takes its steps and retries.
StreamFairness ==
    /\ \A p \in Processes : WF_streamVars(CommitCapsule(p) \/ Publish(p))
    /\ WF_streamVars(Offer)
    /\ WF_streamVars(Subscribe \/ TakeSnapshot \/ Replay \/ Report \/ Receive \/ Wake)
    /\ WF_streamVars(Fetch \/ FetchHistory \/ Open \/ Message \/ Disconnected)

StreamSpec == StreamInit /\ [][StreamNext]_streamVars /\ StreamFairness

-----------------------------------------------------------------------------
(* Properties. *)

Numbers == 1..MaxEvents

StreamTypeOK ==
    /\ setting \in Settings
    /\ \A i \in DOMAIN log : log[i].subject \in OfRun \union Attempts /\ log[i].at \in Times
    /\ \A p \in Processes :
         /\ uow[p].at \in {"idle", "staging", "committed", "publishing"}
         /\ \A i \in DOMAIN uow[p].pending : uow[p].pending[i] \in DOMAIN log
    /\ lock = Nothing \/ uow[lock].at # "idle"
    /\ Len(bus.queue) <= QueueSize
    /\ stream.at \in {"closed", "subscribe", "snapshot", "replay", "report", "wait"}
    /\ console.at \in {"offline", "history", "connect", "open"}
    /\ console.shown \subseteq Numbers /\ console.pending \subseteq Numbers
    /\ Cardinality(console.shown) <= Window

\* event_bus.py: "consumers then fill the sequence gap".  Whatever notifications were lost,
\* a connected console shows the latest events before its snapshot, every one of them and
\* none beyond it; only events from before a history that could not be loaded are missing.
ShownIsGapless ==
    console.at \in {"connect", "open"} =>
        console.shown = {n \in console.base + 1..console.seen : n > console.seen - Window}

\* What a console shows of a run never goes back, not even over reconnections and restarts
\* of the server: the snapshot it holds is of a committed history and never of an older one.
ViewNeverGoesBack ==
    [][/\ console'.seen >= console.seen
       /\ console'.seen <= Len(log')]_streamVars

\* A console catches up with the history time and again, so every committed event is shown
\* in the end: also one whose notification was dropped, made in another process, or never
\* made because the memory commit failed.
EventsAreSeen == Console => []<>(console.seen = Len(log))

\* A projection reads the history with the run's lock; its clock may be behind the last event.
Instant == IF HistoryLocked = Nothing THEN {} ELSE setting.now

\* An entity has ended with the first event that says so; if none does, the last interval
\* is open until now.
EndOf(history, now) ==
    LET ends == {i \in DOMAIN history : history[i].status \in Ending}
    IN IF ends = {} THEN Max({now, history[Len(history)].at}) ELSE history[Min(ends)].at

\* Timing.intervals: the time of an entity is the span from its first event to its end, or to
\* now, but for what is cut off, at most a millisecond for each interval: intervals neither
\* overlap nor go missing, though the clocks of two processes disagree.
WallIsSpan ==
    \A e \in {"run"} \union Attempts, now \in Instant :
        LET history == History(log, e)
            span == EndOf(history, now) - history[1].at
            wall == Wall(history, now)
        IN history # <<>> /\ history[1].status \notin Ending =>
             /\ wall * PerMs <= span
             /\ span <= (wall + Cardinality(Counted(history))) * PerMs

\* transition_in_transaction stores the time an attempt took with the event that ends it.
\* No later projection, whatever the clock, computes another.
EndedTimeIsFinal ==
    \A a \in Attempts, now \in Instant :
        executions[a].status \in Ending =>
            executions[a].timing = Intervals(History(log, a), now)

Peak(segments) ==
    Max({0} \union {Cardinality({s \in segments : s.from <= t /\ t < s.to}) :
                      t \in Instants(segments)})

\* max_parallel_tasks is the number of attempts running together at some instant, and no
\* more: an attempt that ends when another begins does not overlap it.  All that run longer
\* than a millisecond are counted; of those that do not, some are missing.
PeakIsReached ==
    \A now \in Instant :
        LET segments == Timeline(log, Attempts, now)
            running == {s \in segments : s.status = "RUNNING"}
        IN /\ MaxParallel(segments) >= Peak({s \in running : s.to - s.from > PerMs})
           /\ MaxParallel(segments) <= Peak({s \in running : s.to > s.from})

Weights(now) ==
    [t \in DOMAIN Parents |->
        MapThenSumSet(LAMBDA a : Intervals(History(log, a), now)["active"],
                      {a \in Attempts : TaskOf[a] = t})]
Along(weight, tasks) == MapThenSumSet(LAMBDA i : weight[tasks[i]], DOMAIN tasks)
Chains ==
    {c \in UNION {[1..k -> DOMAIN Parents] : k \in 1..Cardinality(DOMAIN Parents)} :
       \A i \in 1..Len(c) - 1 : c[i] \in Parents[c[i + 1]]}

\* critical_path_working_ms is the most active time, in the milliseconds counted, along any
\* chain of dependent tasks.
CriticalPathIsLongest ==
    \A now \in Instant :
        LET weight == Weights(now)
            critical == Critical(Parents, weight)
        IN /\ critical.tasks \in Chains
           /\ critical.ms = Along(weight, critical.tasks)
           /\ \A c \in Chains : Along(weight, c) <= critical.ms

\* What a console shows is a gapless end of the history, over dropped notifications,
\* overlapping batches, reconnections and restarts.
ConsoleInv == StreamTypeOK /\ ShownIsGapless

\* The projections measure what happened, to the millisecond: spans, final times, the peak of
\* parallel work and the critical path, for any order and equality of instants and any clock.
TimingInv == WallIsSpan /\ EndedTimeIsFinal /\ PeakIsReached /\ CriticalPathIsLongest
=============================================================================
