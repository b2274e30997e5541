--------------------------- MODULE AtomicCapsule ---------------------------
(***************************************************************************)
(* What a Task Capsule promises to the services built on it: one document  *)
(* and its event log, changed atomically by compare-and-swap transactions. *)
(* Files, markers, locks, recovery and crashes do not appear here; module  *)
(* CapsuleStore is shown to implement this specification.                  *)
(*                                                                         *)
(* A transaction works on a private copy.  It commits only on top of the   *)
(* generation it copied, its whole effect becomes visible in one step, and *)
(* a commit reported to its caller is never undone.                        *)
(***************************************************************************)
EXTENDS Integers, Sequences

CONSTANTS
    Session,    \* units of work
    MaxTail,    \* bound: events one command appends
    Tx          \* idempotent commands, each identified by its key

VARIABLES
    store,      \* the committed capsule
    copy,       \* the private copy of each session
    stage,      \* "none", "open" or "committed" (decided, caller not told)
    acked       \* commands whose commit was reported to a caller

vars == <<store, copy, stage, acked>>

Empty == [gen |-> 0, txs |-> {}, log |-> <<>>]

Init ==
    /\ store = Empty
    /\ copy = [s \in Session |-> Empty]
    /\ stage = [s \in Session |-> "none"]
    /\ acked = {}

\* A session that creates the capsule starts from the empty one.
Open(s) ==
    /\ stage[s] = "none"
    /\ stage' = [stage EXCEPT ![s] = "open"]
    /\ copy' = [copy EXCEPT ![s] = store]
    /\ UNCHANGED <<store, acked>>

\* A command takes effect on the copy once, whatever its retries, and appends its n
\* events at the end of the log.
Stage(s, t, n) ==
    /\ stage[s] = "open"
    /\ t \notin copy[s].txs
    /\ copy' = [copy EXCEPT ![s].txs = @ \union {t},
                   ![s].log = @ \o [i \in 1..n |-> [tx |-> t, seq |-> Len(@) + i]]]
    /\ UNCHANGED <<store, stage, acked>>

\* The only step that changes the capsule.
Commit(s) ==
    /\ stage[s] = "open"
    /\ copy[s].gen = store.gen
    /\ store' = [copy[s] EXCEPT !.gen = @ + 1]
    /\ copy' = [copy EXCEPT ![s].gen = @ + 1]
    /\ stage' = [stage EXCEPT ![s] = "committed"]
    /\ UNCHANGED acked

Report(s) ==
    /\ stage[s] = "committed"
    /\ stage' = [stage EXCEPT ![s] = "open"]
    /\ acked' = acked \union copy[s].txs
    /\ UNCHANGED <<store, copy>>

\* Sessions end, fail or die with their process; the capsule stays.
Drop(S) ==
    /\ copy' = [s \in Session |-> IF s \in S THEN Empty ELSE copy[s]]
    /\ stage' = [s \in Session |-> IF s \in S THEN "none" ELSE stage[s]]
    /\ UNCHANGED <<store, acked>>

Next ==
    \/ \E s \in Session : Open(s) \/ Commit(s) \/ Report(s)
    \/ \E s \in Session, t \in Tx, n \in 1..MaxTail : Stage(s, t, n)
    \/ \E S \in SUBSET Session : Drop(S)

Spec == Init /\ [][Next]_vars

=============================================================================
