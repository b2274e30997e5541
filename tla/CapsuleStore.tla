---------------------------- MODULE CapsuleStore ----------------------------
(***************************************************************************)
(* One Task Capsule on disk and the units of work that share it: the       *)
(* transaction marker, the documents it rolls forward (state.yaml last),   *)
(* the append-only event log, the per-capsule state lock, the generation   *)
(* check, and crashes, I/O errors and torn appends between any two writes. *)
(*                                                                         *)
(* Sessions run on threads and threads in processes.  The state lock is    *)
(* reentrant per thread, so two sessions of a thread (two coroutines of    *)
(* one event loop) may hold it together; only the generation check keeps   *)
(* one from overwriting the other.  A repository call has no await in it,  *)
(* so a thread finishes one call before it runs another session.           *)
(***************************************************************************)
EXTENDS Integers, Sequences, FiniteSets

CONSTANTS
    Session, Thread, Process,
    ThreadOf,       \* the thread each session runs on
    ProcessOf,      \* the process of each thread
    Tx,             \* commands, each with its idempotency key
    NDocs,          \* documents of a commit in write order; the last is state.yaml
    TaskDoc,        \* position of task.yaml, which makes the capsule discoverable
    MaxTail,        \* bound: events one command appends
    MaxGen          \* bound: generations (commits) of the capsule

ASSUME PlacementAssumption ==
    /\ ThreadOf \in [Session -> Thread]
    /\ ProcessOf \in [Thread -> Process]
ASSUME DocsAssumption == NDocs \in Nat /\ TaskDoc \in 1..(NDocs - 1)
ASSUME BoundAssumption == MaxTail \in Nat \ {0} /\ MaxGen \in Nat

VARIABLES
    reserved,   \* the capsule directory exists
    docs,       \* what each document was last written from
    log,        \* complete lines of events.jsonl
    torn,       \* events.jsonl ends in an incomplete line
    marker,     \* execution/.transaction.json
    pc, op,     \* where a session is, and the call it is in
    idx,        \* next document to roll forward
    held,       \* the session holds the state lock
    agg,        \* the aggregate a session caches
    acked       \* history: commands whose commit returned to the caller

disk == <<reserved, docs, log, torn, marker>>
control == <<pc, op, idx, held>>
vars == <<disk, control, agg, acked>>

Docs == 1..NDocs
Event == [tx : Tx, seq : Nat]
Snapshot == [gen : Nat, txs : SUBSET Tx, cursor : Nat]
Absent == [gen |-> 0, txs |-> {}, cursor |-> 0]
Marker == [snap : Snapshot, base : Nat, tail : Seq(Event)]
NoMarker == [snap |-> Absent, base |-> 0, tail |-> <<>>]
Marked == marker.snap.gen > 0
StateDoc == docs[NDocs]

\* Where a session is, and the repository call it is in.
Places == {"closed", "open", "check", "docs", "events", "tail", "torn", "unlink", "return"}
Calls == {"none", "read", "update", "stage", "commit", "apply"}

\* TaskCapsuleAggregate: events[1..persisted] are in the log file.
Aggregate == [cached : BOOLEAN, isNew : BOOLEAN, dirty : BOOLEAN, gen : Nat,
              txs : SUBSET Tx, events : Seq(Event), persisted : Nat]
NoAgg == [cached |-> FALSE, isNew |-> FALSE, dirty |-> FALSE, gen |-> 0,
          txs |-> {}, events |-> <<>>, persisted |-> 0]

\* Discovery reads task.yaml: without it no session can find the capsule.
Discoverable == docs[TaskDoc].gen > 0

InCall(s) == pc[s] \notin {"closed", "open"}
ThreadFree(s) == \A r \in Session \ {s} : ThreadOf[r] = ThreadOf[s] => ~InCall(r)
LockFree(s) == \A r \in Session : held[r] => ThreadOf[r] = ThreadOf[s]
Untouched == ~Marked /\ \A i \in Docs : docs[i].gen = 0

Goto(s, where) == pc' = [pc EXCEPT ![s] = where]

\* Every call that needs the capsule takes the state lock, then recovers it.
Enter(s, call) ==
    /\ ThreadFree(s)
    /\ LockFree(s)
    /\ held' = [held EXCEPT ![s] = TRUE]
    /\ op' = [op EXCEPT ![s] = call]
    /\ Goto(s, "check")
    /\ UNCHANGED <<disk, idx, agg, acked>>

Init ==
    /\ reserved = FALSE
    /\ docs = [i \in Docs |-> Absent]
    /\ log = <<>>
    /\ torn = FALSE
    /\ marker = NoMarker
    /\ pc = [s \in Session |-> "closed"]
    /\ op = [s \in Session |-> "none"]
    /\ idx = [s \in Session |-> 1]
    /\ held = [s \in Session |-> FALSE]
    /\ agg = [s \in Session |-> NoAgg]
    /\ acked = {}

-----------------------------------------------------------------------------
(* Calls of a session. *)

Create(s) ==
    /\ pc[s] = "closed"
    /\ ThreadFree(s)
    /\ LockFree(s)
    /\ ~reserved
    /\ reserved' = TRUE
    /\ held' = [held EXCEPT ![s] = TRUE]
    /\ agg' = [agg EXCEPT ![s] = [NoAgg EXCEPT !.cached = TRUE, !.isNew = TRUE,
                                               !.dirty = TRUE]]
    /\ Goto(s, "open")
    /\ UNCHANGED <<docs, log, torn, marker, op, idx, acked>>

BeginLoad(s, call) ==
    /\ pc[s] = "closed"
    /\ Discoverable
    /\ call \in {"read", "update"}
    /\ Enter(s, call)

\* A mutation re-enters load_capsule(for_update=True) on the cached aggregate.
BeginStage(s) ==
    /\ pc[s] = "open"
    /\ ~agg[s].isNew
    /\ Enter(s, "stage")

BeginCommit(s) ==
    /\ pc[s] = "open"
    /\ agg[s].dirty
    /\ ~agg[s].isNew
    /\ agg[s].gen < MaxGen
    /\ Enter(s, "commit")

\* A new capsule has no generation to compare with.
BeginCommitNew(s) ==
    /\ pc[s] = "open"
    /\ agg[s].isNew
    /\ agg[s].gen < MaxGen
    /\ ThreadFree(s)
    /\ op' = [op EXCEPT ![s] = "commit"]
    /\ Goto(s, "return")
    /\ UNCHANGED <<disk, idx, held, agg, acked>>

-----------------------------------------------------------------------------
(* _recover: roll the marker forward, whoever wrote it. *)

\* Variant: an interrupted transaction is discarded instead of rolled forward.
CheckMarkerDiscards(s) ==
    /\ pc[s] = "check"
    /\ Goto(s, IF Marked THEN "unlink" ELSE "return")
    /\ idx' = [idx EXCEPT ![s] = 1]
    /\ UNCHANGED <<disk, op, held, agg, acked>>

CheckMarker(s) ==
    /\ pc[s] = "check"
    /\ Goto(s, IF Marked THEN "docs" ELSE "return")
    /\ idx' = [idx EXCEPT ![s] = 1]
    /\ UNCHANGED <<disk, op, held, agg, acked>>

\* Each document is replaced atomically, state.yaml last.
WriteDoc(s) ==
    /\ pc[s] = "docs"
    /\ docs' = [docs EXCEPT ![idx[s]] = marker.snap]
    /\ IF idx[s] = NDocs
       THEN Goto(s, "events") /\ UNCHANGED idx
       ELSE idx' = [idx EXCEPT ![s] = @ + 1] /\ UNCHANGED pc
    /\ UNCHANGED <<reserved, log, torn, marker, op, held, agg, acked>>

LogReadable == Len(log) >= marker.base

\* A torn tail is cut back to the committed prefix.
ReadEvents(s) ==
    /\ pc[s] = "events"
    /\ LogReadable
    /\ log' = IF torn THEN SubSeq(log, 1, marker.base) ELSE log
    /\ torn' = FALSE
    /\ Goto(s, "tail")
    /\ UNCHANGED <<reserved, docs, marker, op, idx, held, agg, acked>>

TailMatches ==
    \A i \in 1..Len(marker.tail) :
        marker.base + i <= Len(log) => log[marker.base + i] = marker.tail[i]

\* Variant: the last line of the tail is not appended.
PendingOffByOne == Len(log) < marker.base + Len(marker.tail) - 1

Pending == Len(log) < marker.base + Len(marker.tail)

AppendStart(s) ==
    /\ pc[s] = "tail"
    /\ TailMatches
    /\ IF Pending
       THEN Goto(s, "torn") /\ torn' = TRUE
       ELSE Goto(s, "unlink") /\ UNCHANGED torn
    /\ UNCHANGED <<reserved, docs, log, marker, op, idx, held, agg, acked>>

NextLine == marker.tail[Len(log) - marker.base + 1]

AppendEnd(s) ==
    /\ pc[s] = "torn"
    /\ log' = Append(log, NextLine)
    /\ torn' = FALSE
    /\ Goto(s, "tail")
    /\ UNCHANGED <<reserved, docs, marker, op, idx, held, agg, acked>>

Unlink(s) ==
    /\ pc[s] = "unlink"
    /\ marker' = NoMarker
    /\ Goto(s, "return")
    /\ UNCHANGED <<reserved, docs, log, torn, op, idx, held, agg, acked>>

-----------------------------------------------------------------------------
(* What each call does once the capsule is recovered. *)

Returning(s, call) == pc[s] = "return" /\ op[s] = call

\* The checks of _load_path; a capsule that fails them cannot be opened.
Readable == ~torn /\ StateDoc.gen >= 1 /\ StateDoc.cursor = Len(log)

Loaded == [cached |-> TRUE, isNew |-> FALSE, dirty |-> FALSE, gen |-> StateDoc.gen,
           txs |-> StateDoc.txs, events |-> log, persisted |-> Len(log)]

\* A read-only load gives the lock back; an update keeps it to the end.
FinishLoad(s) ==
    /\ Returning(s, "read") \/ Returning(s, "update")
    /\ Readable
    /\ agg' = [agg EXCEPT ![s] = Loaded]
    /\ held' = [held EXCEPT ![s] = op[s] = "update"]
    /\ Goto(s, "open")
    /\ UNCHANGED <<disk, op, idx, acked>>

\* Variant: a stale aggregate is not noticed.
GenerationUnchecked(s) == TRUE

GenerationMatches(s) == agg[s].isNew \/ StateDoc.gen = agg[s].gen

\* Variant: a retried command appends its events again.
StagedAgain(a, t, n) ==
    [a EXCEPT !.dirty = TRUE, !.txs = @ \union {t},
              !.events = @ \o [i \in 1..n |-> [tx |-> t, seq |-> Len(a.events) + i]]]

\* A command replays as a no-op when its key is already in the log; save_extension
\* changes state without an event.
Staged(a, t, n) ==
    IF t \in a.txs THEN a
    ELSE [a EXCEPT !.dirty = TRUE, !.txs = @ \union {t},
                   !.events = @ \o [i \in 1..n |-> [tx |-> t, seq |-> Len(a.events) + i]]]

FinishStage(s, t, n) ==
    /\ Returning(s, "stage")
    /\ GenerationMatches(s)
    /\ agg' = [agg EXCEPT ![s] = Staged(@, t, n)]
    /\ Goto(s, "open")
    /\ UNCHANGED <<disk, op, idx, held, acked>>

FinishExtension(s) ==
    /\ Returning(s, "stage")
    /\ GenerationMatches(s)
    /\ agg' = [agg EXCEPT ![s].dirty = TRUE]
    /\ Goto(s, "open")
    /\ UNCHANGED <<disk, op, idx, held, acked>>

\* A new aggregate is cached and locked already: no recovery, no comparison.
StageNew(s, t, n) ==
    /\ pc[s] = "open"
    /\ agg[s].isNew
    /\ ThreadFree(s)
    /\ t \notin agg[s].txs
    /\ agg' = [agg EXCEPT ![s] = Staged(@, t, n)]
    /\ UNCHANGED <<disk, control, acked>>

NewMarker(s) ==
    LET a == agg[s] IN
    [snap |-> [gen |-> a.gen + 1, txs |-> a.txs, cursor |-> Len(a.events)],
     base |-> a.persisted,
     tail |-> SubSeq(a.events, a.persisted + 1, Len(a.events))]

WriteMarker(s) ==
    /\ Returning(s, "commit")
    /\ GenerationMatches(s)
    /\ marker' = NewMarker(s)
    /\ op' = [op EXCEPT ![s] = "apply"]
    /\ Goto(s, "check")
    /\ UNCHANGED <<reserved, docs, log, torn, idx, held, agg, acked>>

FinishCommit(s) ==
    /\ Returning(s, "apply")
    /\ agg' = [agg EXCEPT ![s].gen = @ + 1, ![s].dirty = FALSE, ![s].isNew = FALSE,
                          ![s].persisted = Len(agg[s].events)]
    /\ acked' = acked \union agg[s].txs
    /\ op' = [op EXCEPT ![s] = "none"]
    /\ Goto(s, "open")
    /\ UNCHANGED <<disk, idx, held>>

-----------------------------------------------------------------------------
(* Ends of a session. *)

Forget(S) ==
    /\ pc' = [s \in Session |-> IF s \in S THEN "closed" ELSE pc[s]]
    /\ op' = [s \in Session |-> IF s \in S THEN "none" ELSE op[s]]
    /\ idx' = [s \in Session |-> IF s \in S THEN 1 ELSE idx[s]]
    /\ held' = [s \in Session |-> IF s \in S THEN FALSE ELSE held[s]]
    /\ agg' = [s \in Session |-> IF s \in S THEN NoAgg ELSE agg[s]]
    /\ UNCHANGED acked

Close(s) ==
    /\ pc[s] = "open"
    /\ ~agg[s].dirty
    /\ ThreadFree(s)
    /\ Forget({s})
    /\ UNCHANGED disk

\* Any exception (a conflict, an I/O error, a lock timeout, the caller's own) leaves
\* the with-block: an append in progress is truncated, a reserved directory is removed
\* if it is still empty, and the marker stays.  A failed marker write may have made
\* the execution directory already.
Abort(s) ==
    /\ pc[s] # "closed"
    /\ InCall(s) \/ agg[s].dirty
    /\ ThreadFree(s)
    /\ Forget({s})
    /\ torn' = (torn /\ pc[s] # "torn")
    /\ IF agg[s].isNew /\ Untouched
       THEN reserved' \in IF InCall(s) THEN BOOLEAN ELSE {FALSE}
       ELSE UNCHANGED reserved
    /\ UNCHANGED <<docs, log, marker>>

\* A process dies: its locks are freed by the kernel, its files stay as they are.  The
\* line it was appending is absent, torn or complete.
Crash(p) ==
    LET dead == {s \in Session : ProcessOf[ThreadOf[s]] = p /\ pc[s] # "closed"} IN
    /\ dead # {}
    /\ Forget(dead)
    /\ IF \E s \in dead : pc[s] = "torn"
       THEN \/ torn' \in BOOLEAN /\ UNCHANGED log
            \/ torn' = FALSE /\ log' = Append(log, NextLine)
       ELSE UNCHANGED <<log, torn>>
    /\ UNCHANGED <<reserved, docs, marker>>

Recover(s) ==
    \/ CheckMarker(s) \/ WriteDoc(s) \/ ReadEvents(s)
    \/ AppendStart(s) \/ AppendEnd(s) \/ Unlink(s)

Call(s) ==
    \/ Create(s) \/ BeginLoad(s, "read") \/ BeginLoad(s, "update")
    \/ BeginStage(s) \/ BeginCommit(s) \/ BeginCommitNew(s)

Finish(s) ==
    \/ FinishLoad(s) \/ FinishExtension(s) \/ WriteMarker(s) \/ FinishCommit(s)
    \/ \E t \in Tx, n \in 1..MaxTail : FinishStage(s, t, n) \/ StageNew(s, t, n)

Next ==
    \/ \E s \in Session : Call(s) \/ Recover(s) \/ Finish(s) \/ Close(s) \/ Abort(s)
    \/ \E p \in Process : Crash(p)

Spec == Init /\ [][Next]_vars
-----------------------------------------------------------------------------
(* Properties. *)

TypeOK ==
    /\ reserved \in BOOLEAN
    /\ docs \in [Docs -> Snapshot]
    /\ log \in Seq(Event)
    /\ torn \in BOOLEAN
    /\ marker \in Marker
    /\ pc \in [Session -> Places]
    /\ op \in [Session -> Calls]
    /\ idx \in [Session -> Docs]
    /\ held \in [Session -> BOOLEAN]
    /\ agg \in [Session -> Aggregate]
    /\ acked \in SUBSET Tx

\* What the next session to open the capsule will see: the marker once it is
\* discoverable, the documents otherwise.
Committed ==
    IF ~Discoverable THEN Absent ELSE IF Marked THEN marker.snap ELSE StateDoc

CommittedLog ==
    IF ~Discoverable THEN <<>>
    ELSE IF Marked THEN SubSeq(log, 1, marker.base) \o marker.tail ELSE log

\* With no marker the capsule opens: the log is whole, its length is the run's event
\* cursor, and every document is from the same generation (_load_path never raises
\* "state and event cursor disagree", whatever crashed before).
CleanCapsuleOpens ==
    ~Marked => /\ ~torn
               /\ StateDoc.cursor = Len(log)
               /\ \A i \in Docs : docs[i] = StateDoc

\* With a marker, recovery can finish: the committed prefix is there and the lines
\* after it are a prefix of the marker's tail (_recover never raises "missing committed
\* history" or "history diverged"), and it ends in a capsule that opens.
RecoveryNeverConflicts ==
    Marked => /\ LogReadable
              /\ Len(log) <= marker.base + Len(marker.tail)
              /\ TailMatches
              /\ marker.snap.cursor = marker.base + Len(marker.tail)

\* A commit that returned to its caller survives every later crash, conflict and commit.
AckedCommitsSurvive == acked \subseteq Committed.txs

\* A command is in the log exactly when its effect is in the state, and its events are
\* there once, at the sequence numbers they claim, whatever retries and replays were
\* made (events.append deduplicates by idempotency key, only within one aggregate).
EventsExactlyOnce ==
    /\ {CommittedLog[i].tx : i \in 1..Len(CommittedLog)} = Committed.txs
    /\ \A i \in 1..Len(CommittedLog) : CommittedLog[i].seq = i
    /\ \A i, j \in 1..Len(CommittedLog) :
          i < j /\ CommittedLog[i].tx = CommittedLog[j].tx
              => \A k \in i..j : CommittedLog[k].tx = CommittedLog[i].tx

-----------------------------------------------------------------------------
(* The inductive invariant behind these properties. *)

\* The newest commit point on disk, discoverable or not.
Latest == IF Marked THEN marker.snap ELSE StateDoc

\* One thread at a time, and one of its sessions in a call; staged work keeps the lock.
LockInv ==
    /\ \A r, s \in Session : held[r] /\ held[s] => ThreadOf[r] = ThreadOf[s]
    /\ \A r, s \in Session : InCall(r) /\ InCall(s) => r = s
    /\ \A s \in Session : InCall(s) \/ agg[s].dirty => held[s]

\* Only one session creates the capsule, on a directory nobody wrote to.
NewInv ==
    /\ \A s \in Session : agg[s].isNew =>
          agg[s].cached /\ agg[s].dirty /\ agg[s].gen = 0 /\ agg[s].persisted = 0 /\ reserved
    /\ \A s \in Session : agg[s].isNew /\ op[s] # "apply" => Untouched
    /\ \A r, s \in Session : agg[r].isNew /\ agg[s].isNew => r = s
    /\ ~Untouched => reserved
    /\ acked # {} => Discoverable

DiskInv ==
    /\ CleanCapsuleOpens
    /\ RecoveryNeverConflicts
    /\ Marked /\ torn => Pending
    /\ \A i \in Docs : docs[i].gen = 0 => docs[i] = Absent
    /\ acked \subseteq Latest.txs

\* How far the session rolling the marker forward has come.
ProgressOf(s) ==
    /\ pc[s] \in {"docs", "events", "tail", "torn", "unlink"} => Marked
    /\ pc[s] = "docs" => \A i \in 1..(idx[s] - 1) : docs[i] = marker.snap
    /\ pc[s] \in {"events", "tail", "torn", "unlink"} =>
          \A i \in Docs : docs[i] = marker.snap
    /\ pc[s] \in {"tail", "unlink"} => ~torn
    /\ pc[s] = "torn" => Pending
    /\ pc[s] = "unlink" => ~Pending
    /\ pc[s] = "return" => ~Marked

ProgressInv == \A s \in Session : ProgressOf(s)

\* A cached aggregate of the newest generation carries all of it.
AggOf(s) ==
    /\ pc[s] = "closed" => agg[s] = NoAgg
    /\ pc[s] = "open" => agg[s].cached
    /\ op[s] = "apply" => InCall(s)
    /\ InCall(s) /\ op[s] \in {"read", "update", "none"} => agg[s] = NoAgg
    /\ InCall(s) /\ op[s] \in {"stage", "commit", "apply"} => agg[s].cached
    /\ agg[s].persisted <= Len(agg[s].events)
    /\ agg[s].cached /\ ~agg[s].isNew => Discoverable
    /\ agg[s].cached /\ op[s] # "apply" =>
          /\ agg[s].gen <= Latest.gen
          /\ agg[s].gen = Latest.gen =>
                agg[s].persisted = Latest.cursor /\ Latest.txs \subseteq agg[s].txs
    /\ op[s] = "apply" =>
          Latest = [gen |-> agg[s].gen + 1, txs |-> agg[s].txs,
                    cursor |-> Len(agg[s].events)]

AggInv == \A s \in Session : AggOf(s)

\* What every state of the store satisfies.
CapsuleInv == TypeOK /\ LockInv /\ NewInv /\ DiskInv /\ ProgressInv /\ AggInv

-----------------------------------------------------------------------------
(* The capsule as the services see it: the commit point is the marker's atomic
   replacement (for a new capsule, the moment task.yaml makes it discoverable). *)

Decided(s) == op[s] = "apply" /\ Discoverable

AbstractCopy(s) ==
    IF agg[s].cached
    THEN [gen |-> agg[s].gen + IF Decided(s) THEN 1 ELSE 0, txs |-> agg[s].txs,
          log |-> agg[s].events]
    ELSE [gen |-> 0, txs |-> {}, log |-> <<>>]

Abstract == INSTANCE AtomicCapsule WITH
    store <- [gen |-> Committed.gen, txs |-> Committed.txs, log |-> CommittedLog],
    copy <- [s \in Session |-> AbstractCopy(s)],
    stage <- [s \in Session |-> IF ~agg[s].cached THEN "none"
                                ELSE IF Decided(s) THEN "committed" ELSE "open"]

\* Every behaviour of the files, locks and crashes is a behaviour of an atomic store.
ImplementsAtomicCapsule == Abstract!Spec
=============================================================================
