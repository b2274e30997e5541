----------------------------- MODULE MCFileLock -----------------------------
(* Three threads of one process, so that two can queue, and one of another, at the lock of  *)
(* a store; two coroutines of the first, one of the second and two commands at the lease of *)
(* a run.  The two locks have no state in common: each is used while the other rests.       *)
EXTENDS FileLock, ControllerLease, TLC

CONSTANTS t1, t2, t3, other, service, command, s1, s2, s3, s4, s5

MCProcessOf == (t1 :> service) @@ (t2 :> service) @@ (t3 :> service) @@ (other :> command)
MCThreadOf == (s1 :> t1) @@ (s2 :> t1) @@ (s3 :> t2) @@ (s4 :> other) @@ (s5 :> other)

LeaseRests == \E where \in {"new", "closed"} : \A s \in Session : place[s] = where
LockRests == \A p \in Process : owner[p] = None /\ waiters[p] = <<>>

UseLock == LeaseRests /\ Next /\ UNCHANGED leaseVars
UseLease == LockRests /\ LeaseNext /\ UNCHANGED vars

MCInit == Init /\ LeaseInit
MCNext == UseLock \/ UseLease
MCSpec == MCInit /\ [][MCNext]_<<vars, leaseVars>> /\ Fairness
=============================================================================
