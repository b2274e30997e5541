--------------------------- MODULE ControllerLease ---------------------------
(***************************************************************************)
(* The lease of the controller that drives a run: try_run_lock and its     *)
(* release when the unit of work closes.  The lock file is reentrant for a *)
(* thread, so two coroutines of one event loop would both get it; a table  *)
(* of owners, one per process, tells their sessions apart.                 *)
(*                                                                         *)
(* The table and the lock file are not changed together: each change of    *)
(* the table is one action, and so is each use of the lock (see FileLock). *)
(***************************************************************************)
EXTENDS Threads, Integers, FiniteSets

CONSTANTS
    Session,
    ThreadOf        \* the thread each session runs on

ASSUME LeaseAssumption ==
    /\ ThreadOf \in [Session -> Thread]
    /\ ProcessOf \in [Thread -> Process]
    /\ None \notin Session

VARIABLES
    place,      \* where each session is
    owners,     \* _CONTROLLER_OWNERS of each process: the session that claims the run
    runHolds    \* acquisitions of the lock file of the run by each thread

leaseVars == <<place, owners, runHolds>>

Lock == INSTANCE ReentrantLock WITH holds <- runHolds

Home(s) == ProcessOf[ThreadOf[s]]
Places == {"new", "open", "claimed", "refused", "leased", "unlocked", "closed"}

\* A session that is changing the table or the lock; its thread runs nothing else.
Busy(s) == place[s] \in {"claimed", "refused", "unlocked"}
ThreadFree(s) == \A r \in Session \ {s} : ThreadOf[r] = ThreadOf[s] => ~Busy(r)

Goto(s, where) == place' = [place EXCEPT ![s] = where]

LeaseInit ==
    /\ place = [s \in Session |-> "new"]
    /\ owners = [p \in Process |-> None]
    /\ Lock!Init

Open(s) ==
    /\ place[s] = "new"
    /\ ThreadFree(s)
    /\ Goto(s, "open")
    /\ UNCHANGED <<owners, runHolds>>

\* Variant: the table is not consulted, only written.
AnyoneMayClaim(s) == TRUE

MayClaim(s) == owners[Home(s)] \in {None, s}

\* try_run_lock; it returns False to a session that may not claim the run.
Claim(s) ==
    /\ place[s] = "open"
    /\ ThreadFree(s)
    /\ MayClaim(s)
    /\ owners' = [owners EXCEPT ![Home(s)] = s]
    /\ Goto(s, "claimed")
    /\ UNCHANGED runHolds

Take(s) ==
    /\ place[s] = "claimed"
    /\ Lock!Acquire(ThreadOf[s])
    /\ Goto(s, "leased")
    /\ UNCHANGED owners

\* The lock is held, or its gate is busy: with a timeout of zero that is the end.
Refuse(s) ==
    /\ place[s] = "claimed"
    /\ Goto(s, "refused")
    /\ UNCHANGED <<owners, runHolds>>

Unclaim(s) ==
    /\ place[s] = "refused"
    /\ owners' = [owners EXCEPT ![Home(s)] = IF @ = s THEN None ELSE @]
    /\ Goto(s, "open")
    /\ UNCHANGED runHolds

\* The lock file cannot be opened or written; the exception leaves the unit of work.
Fail(s) ==
    /\ place[s] = "claimed"
    /\ Goto(s, "open")
    /\ UNCHANGED <<owners, runHolds>>

Close(s) ==
    /\ place[s] = "open"
    /\ ThreadFree(s)
    /\ Goto(s, "closed")
    /\ UNCHANGED <<owners, runHolds>>

\* Variant: closing forgets the lock and clears the table only.
UnlockForgotten(s) ==
    /\ place[s] = "leased"
    /\ ThreadFree(s)
    /\ Goto(s, "unlocked")
    /\ UNCHANGED <<owners, runHolds>>

\* _release_locks gives the lock back first and clears the table after it.
Unlock(s) ==
    /\ place[s] = "leased"
    /\ ThreadFree(s)
    /\ Lock!Release(ThreadOf[s])
    /\ Goto(s, "unlocked")
    /\ UNCHANGED owners

\* After a rollback the session stays open; closed, it does not.
Disown(s) ==
    /\ place[s] = "unlocked"
    /\ owners' = [owners EXCEPT ![Home(s)] = IF @ = s THEN None ELSE @]
    /\ \E where \in {"open", "closed"} : Goto(s, where)
    /\ UNCHANGED runHolds

\* The process dies with its table; the operating system frees the lock file.
EndProcess(p) ==
    LET dead == {s \in Session : Home(s) = p /\ place[s] \notin {"new", "closed"}} IN
    /\ dead # {}
    /\ place' = [s \in Session |-> IF s \in dead THEN "closed" ELSE place[s]]
    /\ owners' = [owners EXCEPT ![p] = None]
    /\ runHolds' = [t \in Thread |-> IF ProcessOf[t] = p THEN 0 ELSE runHolds[t]]

LeaseNext ==
    \/ \E s \in Session :
          \/ Open(s) \/ Claim(s) \/ Take(s) \/ Refuse(s) \/ Unclaim(s) \/ Fail(s)
          \/ Close(s) \/ Unlock(s) \/ Disown(s)
    \/ \E p \in Process : EndProcess(p)

LeaseSpec == LeaseInit /\ [][LeaseNext]_leaseVars
-----------------------------------------------------------------------------
(* Properties. *)

\* "A controller lease prevents two workers from driving the same run": one session of
\* all threads and processes has it, two coroutines of one thread included.
OneController ==
    \A r, s \in Session : place[r] = "leased" /\ place[s] = "leased" => r = s

\* The lock file is free again when its controller has closed or died: a thread holds it
\* only for a session that is open and has the lease.
LockFollowsLease ==
    \A t \in Thread : runHolds[t] > 0 =>
        \E s \in Session : ThreadOf[s] = t /\ place[s] = "leased"

LeaseTypeOK ==
    /\ place \in [Session -> Places]
    /\ owners \in [Process -> Session \union {None}]
    /\ runHolds \in [Thread -> Nat]

\* Who is past the claim is in the table, and who has the lease has the lock once.
LeaseInv ==
    /\ LeaseTypeOK
    /\ \A s \in Session : place[s] \in {"claimed", "refused", "leased", "unlocked"} =>
          owners[Home(s)] = s
    /\ \A s \in Session : place[s] = "leased" => runHolds[ThreadOf[s]] = 1
    /\ \A t \in Thread : runHolds[t] \in {0, 1}
    /\ \A t, u \in Thread : runHolds[t] > 0 /\ runHolds[u] > 0 => t = u
    /\ LockFollowsLease

=============================================================================
