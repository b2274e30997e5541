--------------------------- MODULE ReentrantLock ---------------------------
(***************************************************************************)
(* What users of a FileLock rely on: one thread holds it, as often as it   *)
(* likes, and it is free again when that thread has left it or is dead.    *)
(***************************************************************************)
EXTENDS Naturals

CONSTANT Thread

VARIABLE holds      \* how often each thread holds the lock

Init == holds = [t \in Thread |-> 0]

Acquire(t) ==
    /\ \A u \in Thread \ {t} : holds[u] = 0
    /\ holds' = [holds EXCEPT ![t] = @ + 1]

Release(t) ==
    /\ holds[t] > 0
    /\ holds' = [holds EXCEPT ![t] = @ - 1]

Die(t) ==
    /\ holds[t] > 0
    /\ holds' = [holds EXCEPT ![t] = 0]

Next == \E t \in Thread : Acquire(t) \/ Release(t) \/ Die(t)

Spec == Init /\ [][Next]_holds
=============================================================================
