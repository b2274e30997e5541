--------------------------- MODULE FileLock_proofs ---------------------------
(* Machine-checked proofs about FileLock, and about the ControllerLease of a run,
   for any number of threads, processes and sessions. *)
EXTENDS FileLock, ControllerLease, TLAPS

\* The facts about one thread that an action of it may rely on.
LEMMA Facts ==
  ASSUME LockInv, NEW t \in Thread
  PROVE  /\ Here(t) \in Process
         /\ holds[t] > 0 => /\ owner[Here(t)] = t
                            /\ depth[Here(t)] = holds[t]
                            /\ entries[Here(t)] = holds[t]
                            /\ flock = Here(t)
                            /\ pc[t] = "out"
         /\ pc[t] \in {"polling", "unlocked"} =>
               owner[Here(t)] = t /\ depth[Here(t)] = 0 /\ holds[t] = 0
         /\ pc[t] # "out" => holds[t] = 0
         /\ owner[Here(t)] = None => depth[Here(t)] = 0 /\ entries[Here(t)] = 0
BY ThreadAssumption
   DEF LockInv, TypeOK, CountsAgree, PastGate, NotInside, Here

\* The invariant holds of a free lock.
LEMMA InitInv == Init => LockInv
BY ThreadAssumption
   DEF Init, LockInv, TypeOK, CountsAgree, PastGate, NotInside, Waiting

\* A process's counts and threads depend on that process only.
LEMMA ReenterInv ==
  ASSUME LockInv, NEW t \in Thread, Reenter(t)
  PROVE  LockInv'
<1> DEFINE p == Here(t)
<1>1. p \in Process /\ t \in Thread /\ t # None
  BY ThreadAssumption, Facts
<1>2. owner[p] = t /\ pc[t] = "out" /\ holds[t] = depth[p] /\ depth[p] > 0
      /\ entries[p] = depth[p]
  BY <1>1, ThreadAssumption DEF Reenter, LockInv, TypeOK, CountsAgree, Here
<1>3. TypeOK'
  BY <1>1, <1>2, ThreadAssumption DEF LockInv, TypeOK, Reenter
<1>4. CountsAgree'
  BY <1>1, <1>2, ThreadAssumption DEF LockInv, TypeOK, CountsAgree, Reenter, Here
<1>5. PastGate'
  BY <1>1, <1>2, ThreadAssumption DEF LockInv, TypeOK, PastGate, Reenter, Here
<1>6. NotInside'
  BY <1>1, <1>2, ThreadAssumption DEF LockInv, TypeOK, NotInside, Reenter
<1> QED
  BY <1>3, <1>4, <1>5, <1>6 DEF LockInv

\* notify_all moves sleepers and nobody else.
LEMMA NotifiedFacts ==
  ASSUME LockInv, NEW p \in Process, NEW t \in Thread,
         NEW where \in {"out", "polling"}, pc' = Notified(p, t, where)
  PROVE  /\ pc' \in [Thread -> Waiting \union {"out", "polling", "unlocked"}]
         /\ pc'[t] = where
         /\ \A u \in Thread \ {t} : pc'[u] = pc[u] \/ {pc[u], pc'[u]} \subseteq Waiting
BY DEF LockInv, TypeOK, Notified, Waiting

\* Only t's place and the counts of its process change.
LEMMA EnterGateInv ==
  ASSUME LockInv, NEW t \in Thread, EnterGate(t)
  PROVE  LockInv'
<1> DEFINE p == Here(t)
<1>1. p \in Process /\ t # None /\ owner[p] = None /\ depth[p] = 0 /\ flock # p
      /\ holds[t] = 0
  BY Facts, ThreadAssumption DEF EnterGate, GateFree, LockInv, CountsAgree, TypeOK
<1>2. /\ owner' = [owner EXCEPT ![p] = t] /\ entries' = [entries EXCEPT ![p] = 1]
      /\ pc' = [pc EXCEPT ![t] = "polling"] /\ UNCHANGED <<depth, flock, holds>>
  BY DEF EnterGate, TakeGate
<1>3. TypeOK'
  BY <1>1, <1>2, ThreadAssumption DEF LockInv, TypeOK
<1>4. CountsAgree'
  BY <1>1, <1>2, ThreadAssumption DEF LockInv, TypeOK, CountsAgree, PastGate, Here
<1>5. PastGate'
  BY <1>1, <1>2, ThreadAssumption DEF LockInv, TypeOK, PastGate, Here
<1>6. NotInside'
  BY <1>1, <1>2 DEF LockInv, TypeOK, NotInside
<1> QED
  BY <1>3, <1>4, <1>5, <1>6 DEF LockInv

\* A thread goes to sleep.
LEMMA QueueInv ==
  ASSUME LockInv, NEW t \in Thread, Queue(t)
  PROVE  LockInv'
<1>1. holds[t] = 0 /\ owner[Here(t)] # t /\ pc[t] = "out"
  BY Facts DEF Queue, LockInv, TypeOK
<1>2. pc' = [pc EXCEPT ![t] = "asleep"] /\ UNCHANGED <<owner, entries, depth, flock, holds>>
  BY DEF Queue
<1>3. TypeOK'
  BY <1>2 DEF LockInv, TypeOK, Waiting
<1>4. CountsAgree'
  BY <1>1, <1>2 DEF LockInv, TypeOK, CountsAgree, Here
<1>5. PastGate'
  BY <1>1, <1>2 DEF LockInv, TypeOK, PastGate
<1>6. NotInside'
  BY <1>1, <1>2 DEF LockInv, TypeOK, NotInside
<1> QED
  BY <1>3, <1>4, <1>5, <1>6 DEF LockInv

\* Either t takes a free gate and the sleepers wake, or it sleeps again.
LEMMA CheckInv ==
  ASSUME LockInv, NEW t \in Thread, Check(t)
  PROVE  LockInv'
<1> DEFINE p == Here(t)
<1>1. p \in Process /\ t # None /\ holds[t] = 0 /\ pc[t] = "awake"
  BY Facts, ThreadAssumption DEF Check
<1>2. UNCHANGED <<depth, flock, holds>>
  BY DEF Check
<1>3. CASE owner[p] = None /\ Head(waiters[p]) = t
  <2>1. /\ owner' = [owner EXCEPT ![p] = t] /\ entries' = [entries EXCEPT ![p] = 1]
        /\ pc' = Notified(p, t, "polling")
    BY <1>3 DEF Check, TakeGate
  <2>2. /\ pc' \in [Thread -> Waiting \union {"out", "polling", "unlocked"}]
        /\ pc'[t] = "polling"
        /\ \A u \in Thread \ {t} : pc'[u] = pc[u] \/ {pc[u], pc'[u]} \subseteq Waiting
    BY <1>1, <2>1, NotifiedFacts
  <2>3. TypeOK'
    BY <1>1, <1>2, <2>1, <2>2, ThreadAssumption DEF LockInv, TypeOK
  <2>4. CountsAgree'
    BY <1>1, <1>2, <1>3, <2>1, <2>2, ThreadAssumption
       DEF LockInv, TypeOK, CountsAgree, PastGate, Waiting, Here
  <2>5. PastGate'
    BY <1>1, <1>2, <1>3, <2>1, <2>2, ThreadAssumption
       DEF LockInv, TypeOK, PastGate, Waiting, Here
  <2>6. NotInside'
    BY <1>1, <1>2, <2>2 DEF LockInv, TypeOK, NotInside, Waiting
  <2> QED
    BY <2>3, <2>4, <2>5, <2>6 DEF LockInv
<1>4. CASE ~(owner[p] = None /\ Head(waiters[p]) = t)
  <2>1. pc' = [pc EXCEPT ![t] = "asleep"] /\ UNCHANGED <<owner, entries>>
    BY <1>4 DEF Check, gate
  <2>2. TypeOK'
    BY <1>2, <2>1 DEF LockInv, TypeOK, Waiting
  <2>3. CountsAgree'
    BY <1>1, <1>2, <2>1 DEF LockInv, TypeOK, CountsAgree
  <2>4. PastGate'
    BY <1>1, <1>2, <2>1 DEF LockInv, TypeOK, PastGate
  <2>5. NotInside'
    BY <1>1, <1>2, <2>1 DEF LockInv, TypeOK, NotInside
  <2> QED
    BY <2>2, <2>3, <2>4, <2>5 DEF LockInv
<1> QED
  BY <1>3, <1>4

\* A waiter gives up at its deadline.
LEMMA GiveUpInv ==
  ASSUME LockInv, NEW t \in Thread, GiveUp(t)
  PROVE  LockInv'
<1>1. Here(t) \in Process /\ holds[t] = 0 /\ pc[t] \in Waiting
  BY Facts DEF GiveUp, Waiting
<1>2. pc' = Notified(Here(t), t, "out") /\ UNCHANGED <<owner, entries, depth, flock, holds>>
  BY DEF GiveUp
<1>3. /\ pc' \in [Thread -> Waiting \union {"out", "polling", "unlocked"}]
      /\ pc'[t] = "out"
      /\ \A u \in Thread \ {t} : pc'[u] = pc[u] \/ {pc[u], pc'[u]} \subseteq Waiting
  BY <1>1, <1>2, NotifiedFacts
<1>4. TypeOK'
  BY <1>2, <1>3 DEF LockInv, TypeOK
<1>5. CountsAgree'
  BY <1>1, <1>2, <1>3 DEF LockInv, TypeOK, CountsAgree, Waiting
<1>6. PastGate'
  BY <1>1, <1>2, <1>3 DEF LockInv, TypeOK, PastGate, Waiting
<1>7. NotInside'
  BY <1>1, <1>2, <1>3 DEF LockInv, TypeOK, NotInside, Waiting
<1> QED
  BY <1>4, <1>5, <1>6, <1>7 DEF LockInv

\* The new holder owns the gate, so no other thread of its process holds the lock, and
\* no other process had the lock of the operating system.
LEMMA TakeFlockInv ==
  ASSUME LockInv, NEW t \in Thread, TakeFlock(t)
  PROVE  LockInv'
<1> DEFINE p == Here(t)
<1>1. p \in Process /\ t # None /\ owner[p] = t /\ depth[p] = 0 /\ holds[t] = 0
      /\ entries[p] = 1 /\ flock = None
  BY Facts, ThreadAssumption DEF TakeFlock, FlockFree, LockInv, CountsAgree
<1>2. /\ flock' = p /\ depth' = [depth EXCEPT ![p] = 1]
      /\ holds' = [holds EXCEPT ![t] = 1] /\ pc' = [pc EXCEPT ![t] = "out"]
      /\ UNCHANGED <<owner, entries>>
  BY DEF TakeFlock, gate
<1>3. TypeOK'
  BY <1>1, <1>2, ThreadAssumption DEF LockInv, TypeOK
<1>4. CountsAgree'
  BY <1>1, <1>2, ThreadAssumption DEF LockInv, TypeOK, CountsAgree, Here
<1>5. PastGate'
  BY <1>1, <1>2 DEF LockInv, TypeOK, PastGate, Here
<1>6. NotInside'
  BY <1>1, <1>2 DEF LockInv, TypeOK, NotInside
<1> QED
  BY <1>3, <1>4, <1>5, <1>6 DEF LockInv

\* Giving the gate up frees it for the process; t held nothing.
LEMMA LeaveGateInv ==
  ASSUME LockInv, NEW t \in Thread, pc[t] \in {"polling", "unlocked"},
         LeaveGate(Here(t), t), UNCHANGED <<depth, flock, holds>>
  PROVE  LockInv'
<1> DEFINE p == Here(t)
<1>1. p \in Process /\ owner[p] = t /\ depth[p] = 0 /\ holds[t] = 0
  BY Facts
<1>2. /\ owner' = [owner EXCEPT ![p] = None] /\ entries' = [entries EXCEPT ![p] = 0]
      /\ pc' = Notified(p, t, "out")
  BY DEF LeaveGate
<1>3. /\ pc' \in [Thread -> Waiting \union {"out", "polling", "unlocked"}]
      /\ pc'[t] = "out"
      /\ \A u \in Thread \ {t} : pc'[u] = pc[u] \/ {pc[u], pc'[u]} \subseteq Waiting
  BY <1>1, <1>2, NotifiedFacts
<1>4. TypeOK'
  BY <1>1, <1>2, <1>3, ThreadAssumption DEF LockInv, TypeOK
<1>5. CountsAgree'
  BY <1>1, <1>2, <1>3, ThreadAssumption
     DEF LockInv, TypeOK, CountsAgree, Waiting, Here
<1>6. PastGate'
  BY <1>1, <1>2, <1>3 DEF LockInv, TypeOK, PastGate, Waiting, Here
<1>7. NotInside'
  BY <1>1, <1>3 DEF LockInv, TypeOK, NotInside, Waiting
<1> QED
  BY <1>4, <1>5, <1>6, <1>7 DEF LockInv

\* A nested release.
LEMMA ReleaseInnerInv ==
  ASSUME LockInv, NEW t \in Thread, ReleaseInner(t)
  PROVE  LockInv'
<1> DEFINE p == Here(t)
<1>1. p \in Process /\ holds[t] \in Nat /\ holds[t] > 1 /\ holds[t] =< MaxDepth
  BY Facts, ThreadAssumption DEF ReleaseInner, LockInv, TypeOK
<1>2. owner[p] = t /\ depth[p] = holds[t] /\ entries[p] = holds[t] /\ flock = p
  BY <1>1, Facts
<1>3. /\ holds' = [holds EXCEPT ![t] = @ - 1] /\ depth' = [depth EXCEPT ![p] = @ - 1]
      /\ entries' = [entries EXCEPT ![p] = @ - 1] /\ UNCHANGED <<pc, owner, flock>>
      /\ pc[t] = "out"
  BY DEF ReleaseInner
<1>4. TypeOK'
  BY <1>1, <1>2, <1>3, ThreadAssumption DEF LockInv, TypeOK
<1>5. CountsAgree'
  BY <1>1, <1>2, <1>3, ThreadAssumption DEF LockInv, TypeOK, CountsAgree, Here
<1>6. PastGate'
  BY <1>1, <1>2, <1>3 DEF LockInv, TypeOK, PastGate, Here
<1>7. NotInside'
  BY <1>1, <1>3 DEF LockInv, TypeOK, NotInside
<1> QED
  BY <1>4, <1>5, <1>6, <1>7 DEF LockInv

\* The lock is free, and t keeps the gate until it opens it.
LEMMA ReleaseOuterInv ==
  ASSUME LockInv, NEW t \in Thread, ReleaseOuter(t)
  PROVE  LockInv'
<1> DEFINE p == Here(t)
<1>1. /\ p \in Process /\ owner[p] = t /\ depth[p] = 1 /\ entries[p] = 1 /\ flock = p
      /\ holds[t] = 1 /\ pc[t] = "out"
  BY Facts DEF ReleaseOuter
<1>2. /\ holds' = [holds EXCEPT ![t] = 0] /\ depth' = [depth EXCEPT ![p] = 0]
      /\ flock' = None /\ pc' = [pc EXCEPT ![t] = "unlocked"] /\ UNCHANGED <<owner, entries>>
  BY DEF ReleaseOuter, gate
<1>3. TypeOK'
  BY <1>1, <1>2, ThreadAssumption DEF LockInv, TypeOK
<1>4. CountsAgree'
  BY <1>1, <1>2, ThreadAssumption DEF LockInv, TypeOK, CountsAgree, Here
<1>5. PastGate'
  BY <1>1, <1>2 DEF LockInv, TypeOK, PastGate, Here
<1>6. NotInside'
  BY <1>1, <1>2 DEF LockInv, TypeOK, NotInside
<1> QED
  BY <1>3, <1>4, <1>5, <1>6 DEF LockInv

\* The dead process is back at its initial state; nothing of another one changes.
LEMMA CrashInv ==
  ASSUME LockInv, NEW p \in Process, Crash(p)
  PROVE  LockInv'
<1>1. /\ owner' = [owner EXCEPT ![p] = None] /\ entries' = [entries EXCEPT ![p] = 0]
      /\ depth' = [depth EXCEPT ![p] = 0]
      /\ flock' = IF flock = p THEN None ELSE flock
      /\ pc' = [t \in Thread |-> IF ProcessOf[t] = p THEN "out" ELSE pc[t]]
      /\ holds' = [t \in Thread |-> IF ProcessOf[t] = p THEN 0 ELSE holds[t]]
  BY DEF Crash
<1>2. p # None
  BY ThreadAssumption
<1>3. TypeOK'
  BY <1>1, ThreadAssumption DEF LockInv, TypeOK
<1>4. CountsAgree'
  BY <1>1, <1>2, ThreadAssumption DEF LockInv, TypeOK, CountsAgree
<1>5. PastGate'
  BY <1>1, ThreadAssumption DEF LockInv, TypeOK, PastGate
<1>6. NotInside'
  BY <1>1 DEF LockInv, TypeOK, NotInside
<1> QED
  BY <1>3, <1>4, <1>5, <1>6 DEF LockInv

\* Every step keeps the invariant.
LEMMA NextInv == LockInv /\ [Next]_vars => LockInv'
<1> SUFFICES ASSUME LockInv, [Next]_vars PROVE LockInv'
  OBVIOUS
<1>1. ASSUME NEW t \in Thread, Step(t) PROVE LockInv'
  <2>1. CASE Reenter(t)
    BY <2>1, ReenterInv
  <2>2. CASE EnterGate(t)
    BY <2>2, EnterGateInv
  <2>3. CASE Queue(t)
    BY <2>3, QueueInv
  <2>4. CASE Check(t)
    BY <2>4, CheckInv
  <2>5. CASE GiveUp(t)
    BY <2>5, GiveUpInv
  <2>6. CASE TakeFlock(t)
    BY <2>6, TakeFlockInv
  <2>7. CASE PollFails(t)
    BY <2>7, LeaveGateInv DEF PollFails
  <2>8. CASE ReleaseInner(t)
    BY <2>8, ReleaseInnerInv
  <2>9. CASE ReleaseOuter(t)
    BY <2>9, ReleaseOuterInv
  <2>10. CASE OpenGate(t)
    BY <2>10, LeaveGateInv DEF OpenGate
  <2> QED
    BY <1>1, <2>1, <2>2, <2>3, <2>4, <2>5, <2>6, <2>7, <2>8, <2>9, <2>10 DEF Step
<1>2. CASE \E p \in Process : Crash(p)
  BY <1>2, CrashInv
<1>3. CASE UNCHANGED vars
  BY <1>3 DEF vars, gate, LockInv, TypeOK, CountsAgree, PastGate, NotInside
<1> QED
  BY <1>1, <1>2, <1>3 DEF Next

-----------------------------------------------------------------------------
\* The counts of the gate, of the lock state and of the threads agree with the lock of
\* the operating system in every reachable state of acquire and release.
THEOREM LockInvariant == Spec => []LockInv
  BY InitInv, NextInv, PTL DEF Spec

\* Two holders would share the lock of the operating system, hence a process, hence its
\* gate.
LEMMA InvExcludes == LockInv => MutualExclusion
<1> SUFFICES ASSUME LockInv, NEW t \in Thread, NEW u \in Thread, holds[t] > 0, holds[u] > 0
             PROVE  t = u
  BY DEF MutualExclusion
<1>1. flock = Here(t) /\ owner[Here(t)] = t
  BY Facts
<1>2. flock = Here(u) /\ owner[Here(u)] = u
  BY Facts
<1> QED
  BY <1>1, <1>2

\* One thread of all processes holds a FileLock, for any number of threads, processes and
\* nested acquisitions.
THEOREM MutuallyExclusive == Spec => []MutualExclusion
  BY LockInvariant, InvExcludes, PTL

-----------------------------------------------------------------------------
(* FileLock implements ReentrantLock. *)

\* A free lock is a free abstract lock.
LEMMA InitRefines == Init => Abstract!Init
BY DEF Init, Abstract!Init

\* The thread that is granted the lock of the operating system is its only holder.
LEMMA TakeFlockRefines ==
  ASSUME LockInv, NEW t \in Thread, TakeFlock(t)
  PROVE  Abstract!Acquire(t)
<1>1. holds[t] = 0 /\ holds' = [holds EXCEPT ![t] = 1] /\ holds \in [Thread -> 0..MaxDepth]
  BY Facts DEF TakeFlock, LockInv, TypeOK
<1>2. ASSUME NEW u \in Thread, holds[u] > 0 PROVE FALSE
  <2>1. flock = Here(u) /\ Here(u) \in Process
    BY <1>2, Facts
  <2> QED
    BY <2>1, ThreadAssumption DEF TakeFlock, FlockFree
<1>3. \A u \in Thread \ {t} : holds[u] = 0
  BY <1>1, <1>2, ThreadAssumption
<1> QED
  BY <1>1, <1>3 DEF Abstract!Acquire

\* Entering again is an abstract acquisition.
LEMMA ReenterRefines ==
  ASSUME LockInv, NEW t \in Thread, Reenter(t)
  PROVE  Abstract!Acquire(t)
<1> DEFINE p == Here(t)
<1>1. p \in Process /\ t # None /\ owner[p] = t /\ pc[t] = "out"
  BY Facts, ThreadAssumption DEF Reenter
<1>2. depth[p] \in 0..MaxDepth /\ holds \in [Thread -> 0..MaxDepth]
  BY <1>1 DEF LockInv, TypeOK
<1>3. holds[t] = depth[p] /\ depth[p] # 0
  BY <1>1 DEF LockInv, CountsAgree
<1>4. \A u \in Thread \ {t} : holds[u] = 0
  BY <1>2, <1>3, InvExcludes, ThreadAssumption DEF MutualExclusion
<1> QED
  BY <1>4 DEF Reenter, Abstract!Acquire

\* A process that dies held the lock in one thread at most.
LEMMA CrashRefines ==
  ASSUME LockInv, NEW p \in Process, Crash(p)
  PROVE  Abstract!Next \/ UNCHANGED holds
<1>1. /\ holds \in [Thread -> 0..MaxDepth]
      /\ holds' = [t \in Thread |-> IF ProcessOf[t] = p THEN 0 ELSE holds[t]]
  BY DEF LockInv, TypeOK, Crash
<1>2. CASE \E t \in Thread : ProcessOf[t] = p /\ holds[t] > 0
  <2>1. PICK t \in Thread : ProcessOf[t] = p /\ holds[t] > 0
    BY <1>2
  <2>2. \A u \in Thread \ {t} : holds[u] = 0
    BY <1>1, <2>1, InvExcludes, ThreadAssumption DEF MutualExclusion
  <2>3. holds' = [holds EXCEPT ![t] = 0]
    BY <1>1, <2>1, <2>2
  <2> QED
    BY <2>1, <2>3 DEF Abstract!Next, Abstract!Die
<1>3. CASE ~ \E t \in Thread : ProcessOf[t] = p /\ holds[t] > 0
  <2>1. \A t \in Thread : ProcessOf[t] = p => holds[t] = 0
    BY <1>1, <1>3, ThreadAssumption
  <2>2. holds' = holds
    BY <1>1, <2>1
  <2> QED
    BY <2>2
<1> QED
  BY <1>2, <1>3

\* Every step is one of the abstract lock, or changes nothing there.
LEMMA NextRefines == LockInv /\ [Next]_vars => [Abstract!Next]_holds
<1> SUFFICES ASSUME LockInv, [Next]_vars PROVE Abstract!Next \/ UNCHANGED holds
  OBVIOUS
<1>1. ASSUME NEW t \in Thread, Step(t) PROVE Abstract!Next \/ UNCHANGED holds
  <2>1. CASE Reenter(t)
    BY <2>1, ReenterRefines DEF Abstract!Next
  <2>2. CASE TakeFlock(t)
    BY <2>2, TakeFlockRefines DEF Abstract!Next
  <2>3. CASE ReleaseInner(t)
    <3>1. Abstract!Release(t)
      BY <2>3, ThreadAssumption DEF ReleaseInner, LockInv, TypeOK, Abstract!Release
    <3> QED
      BY <3>1 DEF Abstract!Next
  <2>4. CASE ReleaseOuter(t)
    <3>1. Abstract!Release(t)
      BY <2>4 DEF ReleaseOuter, LockInv, TypeOK, Abstract!Release
    <3> QED
      BY <3>1 DEF Abstract!Next
  <2>5. CASE EnterGate(t) \/ Queue(t) \/ Check(t) \/ GiveUp(t) \/ PollFails(t) \/ OpenGate(t)
    BY <2>5 DEF EnterGate, Queue, Check, GiveUp, PollFails, OpenGate
  <2> QED
    BY <1>1, <2>1, <2>2, <2>3, <2>4, <2>5 DEF Step
<1>2. CASE \E p \in Process : Crash(p)
  BY <1>2, CrashRefines
<1>3. CASE UNCHANGED vars
  BY <1>3 DEF vars
<1> QED
  BY <1>1, <1>2, <1>3 DEF Next

\* The gate, the polling and the lock of the operating system together are one reentrant
\* lock, through timeouts, I/O errors and the death of processes.
THEOREM Refinement == Spec => ImplementsReentrantLock
  BY InitRefines, NextRefines, LockInvariant, PTL
     DEF Spec, ImplementsReentrantLock, Abstract!Spec

-----------------------------------------------------------------------------
(* The order of the queue. *)

\* Only a step of Check or EnterGate gives the gate of any process a new owner.
LEMMA HandOver ==
  ASSUME LockInv, [Next]_vars, NEW p \in Process, owner'[p] \notin {owner[p], None}
  PROVE  waiters[p] = <<>> \/ owner'[p] = Head(waiters[p])
<1>1. owner \in [Process -> Thread \union {None}] /\ (\A t \in Thread : Here(t) \in Process)
  BY ThreadAssumption DEF LockInv, TypeOK, Here
<1>2. ASSUME NEW t \in Thread, Step(t)
      PROVE  waiters[p] = <<>> \/ owner'[p] = Head(waiters[p])
  <2>1. CASE EnterGate(t)
    BY <1>1, <2>1 DEF EnterGate, GateFree, TakeGate
  <2>2. CASE Check(t)
    BY <1>1, <2>2 DEF Check, TakeGate, gate
  <2>3. CASE PollFails(t) \/ OpenGate(t)
    BY <1>1, <2>3 DEF PollFails, OpenGate, LeaveGate
  <2>4. CASE Reenter(t) \/ Queue(t) \/ GiveUp(t) \/ TakeFlock(t) \/ ReleaseInner(t)
             \/ ReleaseOuter(t)
    BY <2>4 DEF Reenter, Queue, GiveUp, TakeFlock, ReleaseInner, ReleaseOuter, gate
  <2> QED
    BY <1>2, <2>1, <2>2, <2>3, <2>4 DEF Step
<1>3. CASE \E q \in Process : Crash(q)
  BY <1>1, <1>3 DEF Crash
<1>4. CASE UNCHANGED vars
  BY <1>4 DEF vars, gate
<1> QED
  BY <1>2, <1>3, <1>4 DEF Next

\* The gate is handed over in the order of arrival; no thread passes one that waits.
THEOREM FirstComeFirst == Spec => FirstComeFirstServed
<1>1. LockInv /\ [Next]_vars =>
        [\A p \in Process : owner'[p] \notin {owner[p], None} =>
            waiters[p] = <<>> \/ owner'[p] = Head(waiters[p])]_vars
  BY HandOver
<1> QED
  BY <1>1, LockInvariant, PTL DEF Spec, FirstComeFirstServed

-----------------------------------------------------------------------------
(* The lease of the controller. *)

\* The invariant runHolds when nothing is open.
LEMMA LeaseInitInv == LeaseInit => LeaseInv
BY LeaseAssumption
   DEF LeaseInit, LeaseInv, LeaseTypeOK, LockFollowsLease, Places, Lock!Init, Home

\* Two sessions with the lease share the lock, hence a process, hence its table.
LEMMA LeaseInvOneController == LeaseInv => OneController
BY LeaseAssumption DEF LeaseInv, OneController, Home

\* A step that takes s from one place to another, neither of them the lease, and leaves
\* the table and the lock alone.
LEMMA LeaseGotoInv ==
  ASSUME LeaseInv, NEW s \in Session, NEW where \in Places \ {"leased"},
         Goto(s, where), UNCHANGED <<owners, runHolds>>, place[s] # "leased",
         where \in {"claimed", "refused", "unlocked"} => owners[Home(s)] = s
  PROVE  LeaseInv'
BY LeaseAssumption DEF LeaseInv, LeaseTypeOK, LockFollowsLease, Goto, Home

\* A session claims the lease in the table of its process.
LEMMA LeaseClaimInv ==
  ASSUME LeaseInv, NEW s \in Session, Claim(s)
  PROVE  LeaseInv'
<1>1. /\ Home(s) \in Process /\ owners[Home(s)] \in {None, s} /\ place[s] = "open"
      /\ owners' = [owners EXCEPT ![Home(s)] = s]
      /\ place' = [place EXCEPT ![s] = "claimed"] /\ UNCHANGED runHolds
  BY LeaseAssumption DEF Claim, MayClaim, Goto, Home
<1>2. LeaseTypeOK'
  BY <1>1 DEF LeaseInv, LeaseTypeOK, Places
<1>3. \A r \in Session : place'[r] \in {"claimed", "refused", "leased", "unlocked"} =>
         owners'[Home(r)] = r
  BY <1>1, LeaseAssumption DEF LeaseInv, LeaseTypeOK
<1>4. \A r \in Session : place'[r] = "leased" => runHolds'[ThreadOf[r]] = 1
  BY <1>1 DEF LeaseInv, LeaseTypeOK
<1>5. LockFollowsLease'
  BY <1>1 DEF LeaseInv, LeaseTypeOK, LockFollowsLease
<1> QED
  BY <1>1, <1>2, <1>3, <1>4, <1>5 DEF LeaseInv, Home

\* No thread held the lock, so the lease is s's alone.
LEMMA LeaseTakeInv ==
  ASSUME LeaseInv, NEW s \in Session, Take(s)
  PROVE  LeaseInv'
<1> DEFINE t == ThreadOf[s]
<1>1. /\ t \in Thread /\ place[s] = "claimed" /\ owners[Home(s)] = s
      /\ \A u \in Thread \ {t} : runHolds[u] = 0
      /\ runHolds' = [runHolds EXCEPT ![t] = @ + 1]
      /\ place' = [place EXCEPT ![s] = "leased"] /\ UNCHANGED owners
  BY LeaseAssumption DEF Take, Goto, Lock!Acquire, LeaseInv
<1>2. runHolds[t] = 0
  <2> SUFFICES ASSUME runHolds[t] > 0 PROVE FALSE
    BY <1>1 DEF LeaseInv
  <2>1. PICK r \in Session : ThreadOf[r] = t /\ place[r] = "leased"
    BY <1>1 DEF LeaseInv, LockFollowsLease
  <2>2. owners[Home(s)] = r
    BY <2>1 DEF LeaseInv, Home
  <2> QED
    BY <1>1, <2>1, <2>2
<1>3. /\ runHolds' \in [Thread -> Nat] /\ runHolds'[t] = 1
      /\ \A u \in Thread \ {t} : runHolds'[u] = 0
  BY <1>1, <1>2 DEF LeaseInv, LeaseTypeOK
<1>4. LeaseTypeOK'
  BY <1>1, <1>3 DEF LeaseInv, LeaseTypeOK, Places
<1>5. ASSUME NEW r \in Session, place'[r] = "leased" PROVE r = s
  <2> SUFFICES ASSUME r # s PROVE FALSE
    OBVIOUS
  <2>1. place[r] = "leased"
    BY <1>1, <1>5 DEF LeaseInv, LeaseTypeOK
  <2>2. ThreadOf[r] \in Thread /\ runHolds[ThreadOf[r]] = 1
    BY <2>1, LeaseAssumption DEF LeaseInv
  <2> QED
    BY <1>1, <1>2, <2>2
<1>6. LockFollowsLease'
  BY <1>1, <1>3 DEF LeaseInv, LeaseTypeOK, LockFollowsLease
<1>7. \A r \in Session : place'[r] \in {"claimed", "refused", "leased", "unlocked"} =>
         owners'[Home(r)] = r
  BY <1>1 DEF LeaseInv, LeaseTypeOK
<1> QED
  BY <1>3, <1>4, <1>5, <1>6, <1>7 DEF LeaseInv, Home

\* Unclaim and Disown take s out of the table; s is in it, so no other session is.
LEMMA LeaseClearInv ==
  ASSUME LeaseInv, NEW s \in Session, NEW where \in {"open", "closed"},
         place[s] \in {"refused", "unlocked"}, Goto(s, where), UNCHANGED runHolds,
         owners' = [owners EXCEPT ![Home(s)] = IF @ = s THEN None ELSE @]
  PROVE  LeaseInv'
<1>1. /\ Home(s) \in Process /\ owners[Home(s)] = s
      /\ owners' = [owners EXCEPT ![Home(s)] = None]
      /\ place' = [place EXCEPT ![s] = where]
  BY LeaseAssumption DEF Goto, Home, LeaseInv
<1>2. LeaseTypeOK'
  BY <1>1 DEF LeaseInv, LeaseTypeOK, Places
<1>3. \A r \in Session : place'[r] \in {"claimed", "refused", "leased", "unlocked"} =>
         owners'[Home(r)] = r
  BY <1>1, LeaseAssumption DEF LeaseInv, LeaseTypeOK
<1>4. \A r \in Session : place'[r] = "leased" => runHolds'[ThreadOf[r]] = 1
  BY <1>1 DEF LeaseInv, LeaseTypeOK
<1>5. LockFollowsLease'
  BY <1>1 DEF LeaseInv, LeaseTypeOK, LockFollowsLease
<1> QED
  BY <1>2, <1>3, <1>4, <1>5 DEF LeaseInv, Home

\* The thread held the lock once, and no other session had the lease.
LEMMA LeaseUnlockInv ==
  ASSUME LeaseInv, NEW s \in Session, Unlock(s)
  PROVE  LeaseInv'
<1> DEFINE t == ThreadOf[s]
<1>1. /\ t \in Thread /\ place[s] = "leased" /\ owners[Home(s)] = s /\ runHolds[t] = 1
      /\ runHolds' = [runHolds EXCEPT ![t] = @ - 1]
      /\ place' = [place EXCEPT ![s] = "unlocked"] /\ UNCHANGED owners
  BY LeaseAssumption DEF Unlock, Goto, Lock!Release, LeaseInv
<1>2. runHolds' \in [Thread -> Nat] /\ \A u \in Thread : runHolds'[u] = 0
  <2>1. \A u \in Thread \ {t} : runHolds[u] = 0
    BY <1>1 DEF LeaseInv
  <2>2. runHolds \in [Thread -> Nat]
    BY DEF LeaseInv, LeaseTypeOK
  <2> QED
    BY <1>1, <2>1, <2>2
<1>3. \A r \in Session : place'[r] # "leased"
  BY <1>1, LeaseInvOneController DEF LeaseInv, LeaseTypeOK, OneController
<1>4. LeaseTypeOK'
  BY <1>1, <1>2 DEF LeaseInv, LeaseTypeOK, Places
<1>5. \A r \in Session : place'[r] \in {"claimed", "refused", "leased", "unlocked"} =>
         owners'[Home(r)] = r
  BY <1>1 DEF LeaseInv, LeaseTypeOK
<1> QED
  BY <1>2, <1>3, <1>4, <1>5 DEF LeaseInv, LockFollowsLease, Home

\* Every session of the dead process is out of the table and without the lock.
LEMMA LeaseCrashInv ==
  ASSUME LeaseInv, NEW p \in Process, EndProcess(p)
  PROVE  LeaseInv'
<1> DEFINE dead == {s \in Session : Home(s) = p /\ place[s] \notin {"new", "closed"}}
<1>1. /\ place' = [s \in Session |-> IF s \in dead THEN "closed" ELSE place[s]]
      /\ owners' = [owners EXCEPT ![p] = None]
      /\ runHolds' = [t \in Thread |-> IF ProcessOf[t] = p THEN 0 ELSE runHolds[t]]
  BY DEF EndProcess
<1>2. LeaseTypeOK'
  BY <1>1 DEF LeaseInv, LeaseTypeOK, Places
<1>3. \A r \in Session : place'[r] \in {"claimed", "refused", "leased", "unlocked"} =>
         place'[r] = place[r] /\ Home(r) # p /\ Home(r) \in Process
  BY <1>1, LeaseAssumption DEF Home
<1>4. \A r \in Session : place'[r] \in {"claimed", "refused", "leased", "unlocked"} =>
         owners'[Home(r)] = r
  BY <1>1, <1>3 DEF LeaseInv, LeaseTypeOK
<1>5. \A r \in Session : place'[r] = "leased" => runHolds'[ThreadOf[r]] = 1
  BY <1>1, <1>3, LeaseAssumption DEF LeaseInv, Home
<1>6. LockFollowsLease'
  BY <1>1, LeaseAssumption DEF LeaseInv, LeaseTypeOK, LockFollowsLease, Home
<1>7. /\ \A t \in Thread : runHolds'[t] \in {0, 1}
      /\ \A t, u \in Thread : runHolds'[t] > 0 /\ runHolds'[u] > 0 => t = u
  BY <1>1 DEF LeaseInv
<1> QED
  BY <1>2, <1>4, <1>5, <1>6, <1>7 DEF LeaseInv, Home

\* Every step keeps the invariant.
LEMMA LeaseNextInv == LeaseInv /\ [LeaseNext]_leaseVars => LeaseInv'
<1> SUFFICES ASSUME LeaseInv, [LeaseNext]_leaseVars PROVE LeaseInv'
  OBVIOUS
<1>1. ASSUME NEW s \in Session, Open(s) \/ Fail(s) \/ Close(s) \/ Refuse(s) PROVE LeaseInv'
  <2>1. CASE Open(s)
    BY <2>1, LeaseGotoInv DEF Open, Places
  <2>2. CASE Fail(s)
    BY <2>2, LeaseGotoInv DEF Fail, Places
  <2>3. CASE Close(s)
    BY <2>3, LeaseGotoInv DEF Close, Places
  <2>4. CASE Refuse(s)
    BY <2>4, LeaseGotoInv DEF Refuse, Places, LeaseInv
  <2> QED
    BY <1>1, <2>1, <2>2, <2>3, <2>4
<1>2. ASSUME NEW s \in Session, Claim(s) PROVE LeaseInv'
  BY <1>2, LeaseClaimInv
<1>3. ASSUME NEW s \in Session, Take(s) PROVE LeaseInv'
  BY <1>3, LeaseTakeInv
<1>4. ASSUME NEW s \in Session, Unclaim(s) \/ Disown(s) PROVE LeaseInv'
  <2>1. CASE Unclaim(s)
    BY <2>1, LeaseClearInv DEF Unclaim
  <2>2. CASE Disown(s)
    BY <2>2, LeaseClearInv DEF Disown
  <2> QED
    BY <1>4, <2>1, <2>2
<1>5. ASSUME NEW s \in Session, Unlock(s) PROVE LeaseInv'
  BY <1>5, LeaseUnlockInv
<1>6. CASE \E p \in Process : EndProcess(p)
  BY <1>6, LeaseCrashInv
<1>7. CASE UNCHANGED leaseVars
  BY <1>7 DEF leaseVars, LeaseInv, LeaseTypeOK, LockFollowsLease
<1> QED
  BY <1>1, <1>2, <1>3, <1>4, <1>5, <1>6, <1>7 DEF LeaseNext

-----------------------------------------------------------------------------
\* Whoever is past the claim is in the table of its process, and the lock file is held
\* once, for a session that has the lease.
THEOREM LeaseInvariant == LeaseSpec => []LeaseInv
  BY LeaseInitInv, LeaseNextInv, PTL DEF LeaseSpec

\* One session drives the run, for any number of sessions, on any threads of any
\* processes.
THEOREM SingleController == LeaseSpec => []OneController
  BY LeaseInvariant, LeaseInvOneController, PTL

\* No thread keeps the lock file of a controller that has closed or died.
THEOREM LockIsTheLease == LeaseSpec => []LockFollowsLease
<1>1. LeaseInv => LockFollowsLease
  BY DEF LeaseInv
<1> QED
  BY <1>1, LeaseInvariant, PTL
=============================================================================
