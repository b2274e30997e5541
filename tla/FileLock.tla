------------------------------ MODULE FileLock ------------------------------
(***************************************************************************)
(* The advisory lock behind every capsule: FileLock and its FIFO gate.     *)
(* Threads of one process queue at the gate (a condition variable), and    *)
(* the thread that owns it polls the lock of the operating system, which   *)
(* processes exclude each other with.  Deadlines, I/O errors and processes *)
(* that die may end an acquisition or a tenure at any point.               *)
(*                                                                         *)
(* What runs under the gate's condition is one action; a thread that waits *)
(* is asleep until it is notified, then checks again.                      *)
(***************************************************************************)
EXTENDS Threads, Integers, Sequences, FiniteSets

CONSTANT
    MaxDepth        \* bound: nested acquisitions of a thread

ASSUME ThreadAssumption ==
    /\ ProcessOf \in [Thread -> Process]
    /\ None \notin Thread \union Process
    /\ MaxDepth \in Nat \ {0}

VARIABLES
    pc,         \* where each thread is
    owner,      \* of each process: gate._owner
    entries,    \* gate._depth
    waiters,    \* gate._waiters, in order of arrival
    depth,      \* _LockState.depth
    flock,      \* the process whose handle has the lock of the operating system
    holds       \* acquisitions of each thread, over all its FileLock objects

gate == <<owner, entries, waiters>>
vars == <<pc, gate, depth, flock, holds>>

ThreadsOf(p) == {t \in Thread : ProcessOf[t] = p}
Here(t) == ProcessOf[t]
Waiting == {"asleep", "awake"}

Init ==
    /\ pc = [t \in Thread |-> "out"]
    /\ owner = [p \in Process |-> None]
    /\ entries = [p \in Process |-> 0]
    /\ waiters = [p \in Process |-> <<>>]
    /\ depth = [p \in Process |-> 0]
    /\ flock = None
    /\ holds = [t \in Thread |-> 0]

\* notify_all: every waiter of the process checks again; then t goes somewhere.
Notified(p, t, where) ==
    [u \in Thread |-> IF u = t THEN where
                      ELSE IF ProcessOf[u] = p /\ pc[u] = "asleep" THEN "awake"
                      ELSE pc[u]]

Left(queue, t) == SelectSeq(queue, LAMBDA u : u # t)

TakeGate(p, t) ==
    /\ owner' = [owner EXCEPT ![p] = t]
    /\ entries' = [entries EXCEPT ![p] = 1]

LeaveGate(p, t) ==
    /\ owner' = [owner EXCEPT ![p] = None]
    /\ entries' = [entries EXCEPT ![p] = 0]
    /\ pc' = Notified(p, t, "out")

-----------------------------------------------------------------------------
(* acquire *)

\* The owner's fast path; the operating system is not asked again.
Reenter(t) ==
    /\ pc[t] = "out"
    /\ owner[Here(t)] = t
    /\ holds[t] < MaxDepth
    /\ entries' = [entries EXCEPT ![Here(t)] = @ + 1]
    /\ depth' = [depth EXCEPT ![Here(t)] = @ + 1]
    /\ holds' = [holds EXCEPT ![t] = @ + 1]
    /\ UNCHANGED <<pc, owner, waiters, flock>>

\* Variant: a free gate is taken even if others wait for it.
GateUnowned(p) == owner[p] = None

GateFree(p) == owner[p] = None /\ waiters[p] = <<>>

EnterGate(t) ==
    /\ pc[t] = "out"
    /\ owner[Here(t)] # t
    /\ GateFree(Here(t))
    /\ TakeGate(Here(t), t)
    /\ pc' = [pc EXCEPT ![t] = "polling"]
    /\ UNCHANGED <<waiters, depth, flock, holds>>

\* With a timeout of zero the caller leaves at once instead.
Queue(t) ==
    /\ pc[t] = "out"
    /\ owner[Here(t)] # t
    /\ ~GateFree(Here(t))
    /\ waiters' = [waiters EXCEPT ![Here(t)] = Append(@, t)]
    /\ pc' = [pc EXCEPT ![t] = "asleep"]
    /\ UNCHANGED <<owner, entries, depth, flock, holds>>

\* A notified waiter takes the gate if it is free and its turn.
Check(t) ==
    LET p == Here(t) IN
    /\ pc[t] = "awake"
    /\ IF owner[p] = None /\ Head(waiters[p]) = t
       THEN /\ TakeGate(p, t)
            /\ waiters' = [waiters EXCEPT ![p] = Left(@, t)]
            /\ pc' = Notified(p, t, "polling")
       ELSE /\ pc' = [pc EXCEPT ![t] = "asleep"]
            /\ UNCHANGED gate
    /\ UNCHANGED <<depth, flock, holds>>

\* Variant: a waiter that gives up wakes nobody.
GiveUpQuietly(t) ==
    /\ pc[t] \in Waiting
    /\ waiters' = [waiters EXCEPT ![Here(t)] = Left(@, t)]
    /\ pc' = [pc EXCEPT ![t] = "out"]
    /\ UNCHANGED <<owner, entries, depth, flock, holds>>

\* The deadline passes while the thread waits.
GiveUp(t) ==
    /\ pc[t] \in Waiting
    /\ waiters' = [waiters EXCEPT ![Here(t)] = Left(@, t)]
    /\ pc' = Notified(Here(t), t, "out")
    /\ UNCHANGED <<owner, entries, depth, flock, holds>>

\* Variant: the answer of the operating system is not looked at.
FlockIgnored == TRUE

FlockFree == flock = None

\* The operating system grants the lock; otherwise the thread polls again.
TakeFlock(t) ==
    /\ pc[t] = "polling"
    /\ FlockFree
    /\ flock' = Here(t)
    /\ depth' = [depth EXCEPT ![Here(t)] = 1]
    /\ holds' = [holds EXCEPT ![t] = 1]
    /\ pc' = [pc EXCEPT ![t] = "out"]
    /\ UNCHANGED gate

\* The deadline passes while it polls, or the lock file cannot be opened or written.
PollFails(t) ==
    /\ pc[t] = "polling"
    /\ LeaveGate(Here(t), t)
    /\ UNCHANGED <<waiters, depth, flock, holds>>

-----------------------------------------------------------------------------
(* release *)

\* Variant: an inner release gives the lock of the operating system back.
ReleaseInnerUnlocks(t) ==
    /\ pc[t] = "out"
    /\ holds[t] > 1
    /\ holds' = [holds EXCEPT ![t] = @ - 1]
    /\ depth' = [depth EXCEPT ![Here(t)] = @ - 1]
    /\ entries' = [entries EXCEPT ![Here(t)] = @ - 1]
    /\ flock' = None
    /\ UNCHANGED <<pc, owner, waiters>>

ReleaseInner(t) ==
    /\ pc[t] = "out"
    /\ holds[t] > 1
    /\ holds' = [holds EXCEPT ![t] = @ - 1]
    /\ depth' = [depth EXCEPT ![Here(t)] = @ - 1]
    /\ entries' = [entries EXCEPT ![Here(t)] = @ - 1]
    /\ UNCHANGED <<pc, owner, waiters, flock>>

\* The last release: the lock of the operating system first, the gate after it.
ReleaseOuter(t) ==
    /\ pc[t] = "out"
    /\ holds[t] = 1
    /\ holds' = [holds EXCEPT ![t] = 0]
    /\ depth' = [depth EXCEPT ![Here(t)] = 0]
    /\ flock' = None
    /\ pc' = [pc EXCEPT ![t] = "unlocked"]
    /\ UNCHANGED gate

OpenGate(t) ==
    /\ pc[t] = "unlocked"
    /\ LeaveGate(Here(t), t)
    /\ UNCHANGED <<waiters, depth, flock, holds>>

\* A process dies: its memory is gone, and the operating system closes its handles.
Crash(p) ==
    /\ \E t \in ThreadsOf(p) : pc[t] # "out" \/ holds[t] > 0
    /\ pc' = [t \in Thread |-> IF ProcessOf[t] = p THEN "out" ELSE pc[t]]
    /\ holds' = [t \in Thread |-> IF ProcessOf[t] = p THEN 0 ELSE holds[t]]
    /\ owner' = [owner EXCEPT ![p] = None]
    /\ entries' = [entries EXCEPT ![p] = 0]
    /\ waiters' = [waiters EXCEPT ![p] = <<>>]
    /\ depth' = [depth EXCEPT ![p] = 0]
    /\ flock' = IF flock = p THEN None ELSE flock

Step(t) ==
    \/ Reenter(t) \/ EnterGate(t) \/ Queue(t) \/ Check(t) \/ GiveUp(t)
    \/ TakeFlock(t) \/ PollFails(t) \/ ReleaseInner(t) \/ ReleaseOuter(t) \/ OpenGate(t)

Next == (\E t \in Thread : Step(t)) \/ (\E p \in Process : Crash(p))

\* Threads keep running, polling ends at its deadline, and whoever holds the lock leaves
\* it (every user does, in a finally block).  No waiter is assumed to give up.
Fairness ==
    \A t \in Thread :
        /\ WF_vars(Check(t))
        /\ WF_vars(TakeFlock(t) \/ PollFails(t))
        /\ SF_vars(ReleaseOuter(t))
        /\ WF_vars(ReleaseInner(t))
        /\ WF_vars(OpenGate(t))

Spec == Init /\ [][Next]_vars /\ Fairness

-----------------------------------------------------------------------------
(* Properties. *)

TypeOK ==
    /\ pc \in [Thread -> Waiting \union {"out", "polling", "unlocked"}]
    /\ owner \in [Process -> Thread \union {None}]
    /\ entries \in [Process -> 0..MaxDepth]
    /\ depth \in [Process -> 0..MaxDepth]
    /\ flock \in Process \union {None}
    /\ holds \in [Thread -> 0..MaxDepth]

\* One thread of all processes holds the lock, however often it entered it, and through
\* every release, timeout and death of others.
MutualExclusion ==
    \A t, u \in Thread : holds[t] > 0 /\ holds[u] > 0 => t = u

\* The three counts of a process and the lock of the operating system never drift apart:
\* the lock is held exactly while a thread holds it, and whoever owns the gate is in it.
CountsAgree ==
    \A p \in Process :
        /\ flock = p <=> depth[p] > 0
        /\ owner[p] = None => entries[p] = 0 /\ depth[p] = 0
        /\ owner[p] # None =>
              /\ ProcessOf[owner[p]] = p
              /\ holds[owner[p]] = depth[p]
              /\ depth[p] > 0 => entries[p] = depth[p]
              /\ depth[p] = 0 => entries[p] = 1 /\ pc[owner[p]] \in {"polling", "unlocked"}

\* "Give queued threads FIFO handoff": nobody passes a thread that waits.
FirstComeFirstServed ==
    [][\A p \in Process : owner'[p] \notin {owner[p], None} =>
          waiters[p] = <<>> \/ owner'[p] = Head(waiters[p])]_vars

\* No wake-up is lost: a thread that waits gets the gate (or its deadline passes), even
\* if those ahead of it give up at the moment the gate is handed on to them.
WaitersServed ==
    \A t \in Thread : pc[t] \in Waiting ~> pc[t] \notin Waiting

-----------------------------------------------------------------------------
(* The invariant behind mutual exclusion. *)

\* A thread that is past the gate owns it, and only such a thread holds the lock.
PastGate ==
    \A t \in Thread :
        (pc[t] \in {"polling", "unlocked"} \/ holds[t] > 0) => owner[ProcessOf[t]] = t

NotInside ==
    \A t \in Thread : pc[t] # "out" => holds[t] = 0

LockInv == TypeOK /\ CountsAgree /\ PastGate /\ NotInside

\* The lock of all processes together is one reentrant lock.
Abstract == INSTANCE ReentrantLock
ImplementsReentrantLock == Abstract!Spec
=============================================================================
