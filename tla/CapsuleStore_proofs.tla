------------------------ MODULE CapsuleStore_proofs ------------------------
(* Machine-checked proofs about the two file stores: about CapsuleStore, for any
   number of sessions, threads, processes, commands and documents, and about
   ProjectStore, for any processes, identities, edits and commits. *)
EXTENDS CapsuleStore, ProjectStore, SequenceTheorems, TLAPS

\* The invariant holds of an empty directory.
LEMMA InitInv == Init => CapsuleInv
<1> SUFFICES ASSUME Init PROVE CapsuleInv
  OBVIOUS
<1> USE DocsAssumption DEF Init, NoMarker, Absent, Marked, StateDoc, Latest, Docs
<1>1. TypeOK
  <2>1. Absent \in Snapshot
    BY DEF Snapshot
  <2>2. <<>> \in Seq(Event)
    OBVIOUS
  <2>3. marker \in Marker
    BY <2>1, <2>2 DEF Marker
  <2>4. agg \in [Session -> Aggregate]
    BY <2>2 DEF NoAgg, Aggregate
  <2>5. docs \in [Docs -> Snapshot] /\ idx \in [Session -> Docs]
    BY <2>1
  <2>6. pc \in [Session -> Places] /\ op \in [Session -> Calls]
    BY DEF Places, Calls
  <2>7. reserved \in BOOLEAN /\ torn \in BOOLEAN /\ held \in [Session -> BOOLEAN]
    OBVIOUS
  <2>8. log \in Seq(Event) /\ acked \in SUBSET Tx
    BY <2>2
  <2> QED
    BY <2>3, <2>4, <2>5, <2>6, <2>7, <2>8 DEF TypeOK
<1>2. LockInv
  BY DEF LockInv, InCall, NoAgg
<1>3. NewInv
  BY DEF NewInv, Untouched, NoAgg
<1>4. DiskInv
  BY DEF DiskInv, CleanCapsuleOpens, RecoveryNeverConflicts
<1>5. ProgressInv
  BY DEF ProgressInv, ProgressOf
<1>6. AggInv
  BY DEF AggInv, AggOf, InCall, NoAgg
<1> QED
  BY <1>1, <1>2, <1>3, <1>4, <1>5, <1>6 DEF CapsuleInv

-----------------------------------------------------------------------------
(* Facts shared by the steps of recovery. *)

\* What moving one session does to pc.
LEMMA GotoFacts ==
  ASSUME TypeOK, NEW s \in Session, NEW v \in Places, Goto(s, v)
  PROVE  /\ pc' \in [Session -> Places]
         /\ pc'[s] = v
         /\ \A r \in Session \ {s} : pc'[r] = pc[r]
BY DEF TypeOK, Goto

\* A session that is already in a call may go anywhere without disturbing the lock.
LEMMA MoveKeepsLock ==
  ASSUME LockInv, NEW s \in Session, InCall(s), held' = held, agg' = agg,
         \A r \in Session \ {s} : pc'[r] = pc[r]
  PROVE  LockInv'
BY DEF LockInv, InCall

\* While one session is in a call the others are not: only its own progress counts.
LEMMA ProgressOfOne ==
  ASSUME LockInv, NEW s \in Session, InCall(s), ProgressOf(s)',
         \A r \in Session \ {s} : pc'[r] = pc[r]
  PROVE  ProgressInv'
<1> SUFFICES ASSUME NEW r \in Session PROVE ProgressOf(r)'
  BY DEF ProgressInv
<1>1. CASE r = s
  BY <1>1
<1>2. CASE r # s
  BY <1>2 DEF LockInv, InCall, ProgressOf
<1> QED
  BY <1>1, <1>2

\* Recovery changes no aggregate and never the newest commit point.
LEMMA RecoveryKeepsAggregates ==
  ASSUME AggInv, UNCHANGED <<op, agg>>, Latest' = Latest, Discoverable => Discoverable',
         NEW s \in Session, InCall(s), pc'[s] \notin {"closed", "open"},
         \A r \in Session \ {s} : pc'[r] = pc[r]
  PROVE  AggInv'
<1> SUFFICES ASSUME NEW r \in Session PROVE AggOf(r)'
  BY DEF AggInv
<1>1. AggOf(r) /\ (InCall(r)' <=> InCall(r)) /\ (pc'[r] = "closed" <=> pc[r] = "closed")
  BY DEF AggInv, InCall
<1> QED
  BY <1>1 DEF AggOf

-----------------------------------------------------------------------------
\* Recovery looks for a marker.
LEMMA CheckMarkerInv == ASSUME CapsuleInv, NEW s \in Session, CheckMarker(s) PROVE CapsuleInv'
<1> USE DEF CapsuleInv
<1> DEFINE v == IF Marked THEN "docs" ELSE "return"
<1>1. /\ pc[s] = "check" /\ Goto(s, v)
      /\ UNCHANGED <<disk, op, held, agg, acked>>
      /\ idx' = [idx EXCEPT ![s] = 1]
  BY DEF CheckMarker
<1>2. v \in Places /\ v \in {"docs", "return"}
  BY DEF Places
<1> HIDE DEF v
<1>3. /\ pc' \in [Session -> Places] /\ pc'[s] = v
      /\ \A r \in Session \ {s} : pc'[r] = pc[r]
  BY <1>1, <1>2, GotoFacts
<1>4. /\ idx' \in [Session -> Docs] /\ idx'[s] = 1
      /\ \A r \in Session \ {s} : idx'[r] = idx[r]
  BY <1>1, DocsAssumption DEF TypeOK, Docs
<1>5. InCall(s) /\ \A r \in Session : InCall(r)' <=> InCall(r)
  BY <1>1, <1>2, <1>3 DEF InCall
<1>a. TypeOK'
  BY <1>1, <1>3, <1>4 DEF TypeOK, disk, Docs, Marker
<1>b. LockInv'
  BY <1>1, <1>3, <1>5, MoveKeepsLock DEF disk
<1>c. NewInv'
  BY <1>1 DEF NewInv, Untouched, Discoverable, disk, Marked
<1>d. DiskInv'
  BY <1>1 DEF DiskInv, CleanCapsuleOpens, RecoveryNeverConflicts, LogReadable, TailMatches,
              Pending, Marked, StateDoc, Latest, disk
<1>e. ProgressInv'
  <2>1. ProgressOf(s)'
    BY <1>1, <1>2, <1>3, <1>4 DEF v, ProgressOf, Marked, disk
  <2> QED
    BY <1>3, <1>5, <2>1, ProgressOfOne
<1>f. AggInv'
  BY <1>1, <1>2, <1>3, <1>5, RecoveryKeepsAggregates
       DEF Discoverable, Latest, Marked, StateDoc, disk
<1> QED
  BY <1>a, <1>b, <1>c, <1>d, <1>e, <1>f

\* Recovery replaces one document.
LEMMA WriteDocInv == ASSUME CapsuleInv, NEW s \in Session, WriteDoc(s) PROVE CapsuleInv'
<1> USE DEF CapsuleInv
<1>1. /\ pc[s] = "docs" /\ Marked
      /\ docs' = [docs EXCEPT ![idx[s]] = marker.snap]
      /\ UNCHANGED <<reserved, log, torn, marker, op, held, agg, acked>>
  BY DEF WriteDoc, ProgressInv, ProgressOf
<1>2. /\ pc' \in [Session -> Places] /\ idx' \in [Session -> Docs]
      /\ \A r \in Session \ {s} : pc'[r] = pc[r]
      /\ \/ idx[s] = NDocs /\ pc'[s] = "events"
         \/ pc'[s] = "docs" /\ idx[s] # NDocs /\ idx'[s] = idx[s] + 1
  <2>1. CASE idx[s] = NDocs
    <3>1. Goto(s, "events") /\ idx' = idx
      BY <2>1 DEF WriteDoc
    <3>2. "events" \in Places
      BY DEF Places
    <3> QED
      BY <2>1, <3>1, <3>2, GotoFacts DEF TypeOK
  <2>2. CASE idx[s] # NDocs
    <3>1. pc' = pc /\ idx' = [idx EXCEPT ![s] = @ + 1]
      BY <2>2 DEF WriteDoc
    <3>2. idx[s] + 1 \in Docs
      BY <2>2, DocsAssumption DEF TypeOK, Docs
    <3> QED
      BY <1>1, <2>2, <3>1, <3>2 DEF TypeOK
  <2> QED
    BY <2>1, <2>2
<1>3. /\ docs' \in [Docs -> Snapshot] /\ idx[s] \in Docs
      /\ docs'[idx[s]] = marker.snap
      /\ \A i \in Docs : docs'[i] = docs[i] \/ docs'[i] = marker.snap
      /\ marker.snap.gen > 0 /\ marker.snap \in Snapshot
  BY <1>1 DEF TypeOK, Marked, Marker
<1>4. InCall(s) /\ \A r \in Session : InCall(r)' <=> InCall(r)
  BY <1>1, <1>2 DEF InCall
<1>5. Marked' /\ Latest = marker.snap /\ Latest' = marker.snap /\ ~Untouched
  BY <1>1 DEF Marked, Latest, Untouched
<1>6. Discoverable => Discoverable'
  BY <1>3, DocsAssumption DEF Discoverable, Docs
<1>a. TypeOK'
  BY <1>1, <1>2, <1>3 DEF TypeOK, Docs
<1>b. LockInv'
  BY <1>1, <1>2, <1>4, MoveKeepsLock
<1>c. NewInv'
  BY <1>1, <1>5, <1>6 DEF NewInv, Untouched
<1>d. DiskInv'
  BY <1>1, <1>3, <1>5 DEF DiskInv, CleanCapsuleOpens, RecoveryNeverConflicts, LogReadable,
              TailMatches, Pending, Docs
<1>e. ProgressInv'
  <2>1. \A i \in 1..(idx[s] - 1) : docs[i] = marker.snap
    BY <1>1 DEF ProgressInv, ProgressOf
  <2>2. ASSUME NEW i \in 1..idx[s] PROVE docs'[i] = marker.snap
    <3>1. CASE i = idx[s]
      BY <1>3, <3>1
    <3>2. CASE i # idx[s]
      BY <1>1, <1>3, <2>1, <3>2, DocsAssumption DEF Docs
    <3> QED
      BY <3>1, <3>2
  <2>3. ProgressOf(s)'
    BY <1>1, <1>2, <1>3, <1>5, <2>2, DocsAssumption DEF ProgressOf, Docs
  <2> QED
    BY <1>2, <1>4, <2>3, ProgressOfOne
<1>f. AggInv'
  BY <1>1, <1>2, <1>4, <1>5, <1>6, RecoveryKeepsAggregates DEF InCall
<1> QED
  BY <1>a, <1>b, <1>c, <1>d, <1>e, <1>f

\* Recovery reads the event log and drops a torn line.
LEMMA ReadEventsInv == ASSUME CapsuleInv, NEW s \in Session, ReadEvents(s) PROVE CapsuleInv'
<1> USE DEF CapsuleInv
<1>1. /\ pc[s] = "events" /\ Marked /\ LogReadable
      /\ Goto(s, "tail") /\ torn' = FALSE
      /\ UNCHANGED <<reserved, docs, marker, op, idx, held, agg, acked>>
      /\ \A i \in Docs : docs[i] = marker.snap
  BY DEF ReadEvents, ProgressInv, ProgressOf
<1>2. "tail" \in Places
  BY DEF Places
<1>3. /\ pc' \in [Session -> Places] /\ pc'[s] = "tail"
      /\ \A r \in Session \ {s} : pc'[r] = pc[r]
  BY <1>1, <1>2, GotoFacts
<1>4. /\ log' \in Seq(Event)
      /\ log' = log \/ Len(log') = marker.base
  <2>1. log \in Seq(Event) /\ marker.base \in 0..Len(log)
    BY <1>1 DEF TypeOK, Marker, LogReadable
  <2>2. log' = log \/ log' = SubSeq(log, 1, marker.base)
    BY DEF ReadEvents
  <2>3. \A i \in 1..marker.base : log[i] \in Event
    BY <2>1
  <2>4. SubSeq(log, 1, marker.base) \in Seq(Event) /\ Len(SubSeq(log, 1, marker.base)) = marker.base
    BY <2>1, <2>3, SubSeqProperties
  <2> QED
    BY <2>1, <2>2, <2>4
<1>5. InCall(s) /\ InCall(s)'
  BY <1>1, <1>3 DEF InCall
<1>6. Marked' /\ Latest' = Latest /\ ~Untouched
  BY <1>1 DEF Marked, Latest, Untouched
<1>a. TypeOK'
  BY <1>1, <1>3, <1>4 DEF TypeOK, Docs, Marker
<1>b. LockInv'
  BY <1>1, <1>3, <1>5, MoveKeepsLock
<1>c. NewInv'
  BY <1>1, <1>6 DEF NewInv, Untouched, Discoverable
<1>d. DiskInv'
  <2>1. RecoveryNeverConflicts'
    BY <1>1, <1>4 DEF TypeOK, Marker, DiskInv, RecoveryNeverConflicts, LogReadable, TailMatches
  <2> QED
    BY <1>1, <1>6, <2>1 DEF DiskInv, CleanCapsuleOpens
<1>e. ProgressInv'
  <2>1. ProgressOf(s)'
    BY <1>1, <1>3, <1>6 DEF ProgressOf, Docs
  <2> QED
    BY <1>3, <1>5, <2>1, ProgressOfOne
<1>f. AggInv'
  BY <1>1, <1>3, <1>5, <1>6, RecoveryKeepsAggregates DEF Discoverable
<1> QED
  BY <1>a, <1>b, <1>c, <1>d, <1>e, <1>f

\* Recovery begins to append an event.
LEMMA AppendStartInv == ASSUME CapsuleInv, NEW s \in Session, AppendStart(s) PROVE CapsuleInv'
<1> USE DEF CapsuleInv
<1> DEFINE v == IF Pending THEN "torn" ELSE "unlink"
<1>1. /\ pc[s] = "tail" /\ Marked /\ ~torn /\ Goto(s, v)
      /\ (Pending /\ torn' = TRUE) \/ (~Pending /\ torn' = torn)
      /\ UNCHANGED <<reserved, docs, log, marker, op, idx, held, agg, acked>>
      /\ \A i \in Docs : docs[i] = marker.snap
  BY DEF AppendStart, ProgressInv, ProgressOf, TypeOK
<1>2. \/ v = "torn" /\ Pending
      \/ v = "unlink" /\ ~Pending
  OBVIOUS
<1> HIDE DEF v
<1>3. /\ pc' \in [Session -> Places] /\ pc'[s] = v
      /\ \A r \in Session \ {s} : pc'[r] = pc[r]
  <2>1. v \in Places
    BY <1>2 DEF Places
  <2> QED
    BY <1>1, <2>1, GotoFacts
<1>4. torn' \in BOOLEAN
  BY <1>1 DEF TypeOK
<1>5. InCall(s) /\ InCall(s)'
  BY <1>1, <1>2, <1>3 DEF InCall
<1>6. Marked' /\ Latest' = Latest /\ ~Untouched /\ (Pending' <=> Pending)
  BY <1>1 DEF Marked, Latest, Untouched, Pending
<1>a. TypeOK'
  BY <1>1, <1>3, <1>4 DEF TypeOK, Docs, Marker
<1>b. LockInv'
  BY <1>1, <1>3, <1>5, MoveKeepsLock
<1>c. NewInv'
  BY <1>1, <1>6 DEF NewInv, Untouched, Discoverable
<1>d. DiskInv'
  BY <1>1, <1>6 DEF DiskInv, CleanCapsuleOpens, RecoveryNeverConflicts, LogReadable, TailMatches
<1>e. ProgressInv'
  <2>1. ProgressOf(s)'
    BY <1>1, <1>2, <1>3, <1>6 DEF ProgressOf, Docs
  <2> QED
    BY <1>3, <1>5, <2>1, ProgressOfOne
<1>f. AggInv'
  BY <1>1, <1>3, <1>5, <1>6, RecoveryKeepsAggregates DEF Discoverable, InCall
<1> QED
  BY <1>a, <1>b, <1>c, <1>d, <1>e, <1>f

\* The line that completes a pending tail keeps the log a prefix of the commit.
LEMMA AppendedLine ==
  ASSUME TypeOK, Marked, RecoveryNeverConflicts, Pending, marker' = marker,
         log' = Append(log, NextLine)
  PROVE  log' \in Seq(Event) /\ Len(log') = Len(log) + 1 /\ RecoveryNeverConflicts'
<1>1. /\ log \in Seq(Event) /\ marker.tail \in Seq(Event) /\ marker.base \in Nat
      /\ marker.base <= Len(log) /\ Len(log) < marker.base + Len(marker.tail)
      /\ marker.snap.cursor = marker.base + Len(marker.tail)
  BY DEF TypeOK, Marker, RecoveryNeverConflicts, LogReadable, Pending
<1>2. Len(log) - marker.base + 1 \in 1..Len(marker.tail)
  BY <1>1
<1>3. NextLine \in Event
  BY <1>1, <1>2 DEF NextLine
<1>4. /\ log' \in Seq(Event) /\ Len(log') = Len(log) + 1
      /\ log'[Len(log) + 1] = NextLine
      /\ \A i \in 1..Len(log) : log'[i] = log[i]
  BY <1>1, <1>3, AppendProperties
<1>5. ASSUME NEW i \in 1..Len(marker.tail), marker.base + i <= Len(log) + 1
      PROVE  log'[marker.base + i] = marker.tail[i]
  <2>1. CASE marker.base + i <= Len(log)
    BY <1>1, <1>4, <2>1 DEF RecoveryNeverConflicts, TailMatches
  <2>2. CASE marker.base + i = Len(log) + 1
    BY <1>1, <1>4, <2>2 DEF NextLine
  <2> QED
    BY <1>1, <1>5, <2>1, <2>2
<1>6. TailMatches'
  BY <1>4, <1>5 DEF TailMatches
<1>7. LogReadable' /\ Len(log') <= marker.base + Len(marker.tail)
  BY <1>1, <1>4 DEF LogReadable
<1> QED
  BY <1>1, <1>4, <1>6, <1>7 DEF RecoveryNeverConflicts

\* An event is appended whole.
LEMMA AppendEndInv == ASSUME CapsuleInv, NEW s \in Session, AppendEnd(s) PROVE CapsuleInv'
<1> USE DEF CapsuleInv
<1>1. /\ pc[s] = "torn" /\ Marked /\ Pending
      /\ Goto(s, "tail") /\ torn' = FALSE /\ log' = Append(log, NextLine)
      /\ UNCHANGED <<reserved, docs, marker, op, idx, held, agg, acked>>
      /\ \A i \in Docs : docs[i] = marker.snap
  BY DEF AppendEnd, ProgressInv, ProgressOf
<1>2. "tail" \in Places
  BY DEF Places
<1>3. /\ pc' \in [Session -> Places] /\ pc'[s] = "tail"
      /\ \A r \in Session \ {s} : pc'[r] = pc[r]
  BY <1>1, <1>2, GotoFacts
<1>4. log' \in Seq(Event) /\ RecoveryNeverConflicts'
  BY <1>1, AppendedLine DEF DiskInv
<1>5. InCall(s) /\ InCall(s)'
  BY <1>1, <1>3 DEF InCall
<1>6. Marked' /\ Latest' = Latest /\ ~Untouched
  BY <1>1 DEF Marked, Latest, Untouched
<1>a. TypeOK'
  BY <1>1, <1>3, <1>4 DEF TypeOK, Docs, Marker
<1>b. LockInv'
  BY <1>1, <1>3, <1>5, MoveKeepsLock
<1>c. NewInv'
  BY <1>1, <1>6 DEF NewInv, Untouched, Discoverable
<1>d. DiskInv'
  BY <1>1, <1>4, <1>6 DEF DiskInv, CleanCapsuleOpens
<1>e. ProgressInv'
  <2>1. ProgressOf(s)'
    BY <1>1, <1>3, <1>6 DEF ProgressOf, Docs
  <2> QED
    BY <1>3, <1>5, <2>1, ProgressOfOne
<1>f. AggInv'
  BY <1>1, <1>3, <1>5, <1>6, RecoveryKeepsAggregates DEF Discoverable
<1> QED
  BY <1>a, <1>b, <1>c, <1>d, <1>e, <1>f

\* Recovery removes the marker of a commit that is on disk.
LEMMA UnlinkInv == ASSUME CapsuleInv, NEW s \in Session, Unlink(s) PROVE CapsuleInv'
<1> USE DEF CapsuleInv
<1>1. /\ pc[s] = "unlink" /\ Marked /\ ~Pending /\ ~torn
      /\ Goto(s, "return") /\ marker' = NoMarker
      /\ UNCHANGED <<reserved, docs, log, torn, op, idx, held, agg, acked>>
      /\ \A i \in Docs : docs[i] = marker.snap
  BY DEF Unlink, ProgressInv, ProgressOf
<1>2. "return" \in Places
  BY DEF Places
<1>3. /\ pc' \in [Session -> Places] /\ pc'[s] = "return"
      /\ \A r \in Session \ {s} : pc'[r] = pc[r]
  BY <1>1, <1>2, GotoFacts
<1>4. NDocs \in Docs /\ marker' \in Marker /\ ~Marked'
  <2>1. NoMarker \in Marker
    BY DEF NoMarker, Marker, Snapshot, Absent
  <2> QED
    BY <1>1, <2>1, DocsAssumption DEF Docs, Marked, NoMarker, Absent
<1>5. InCall(s) /\ InCall(s)'
  BY <1>1, <1>3 DEF InCall
<1>6. Latest' = Latest /\ ~Untouched'
  BY <1>1, <1>4 DEF Marked, Latest, Untouched, StateDoc
<1>a. TypeOK'
  BY <1>1, <1>3, <1>4 DEF TypeOK, Docs, Marker
<1>b. LockInv'
  BY <1>1, <1>3, <1>5, MoveKeepsLock
<1>c. NewInv'
  BY <1>1, <1>6 DEF NewInv, Untouched, Discoverable
<1>d. DiskInv'
  <2>1. Len(log) = marker.snap.cursor
    BY <1>1 DEF TypeOK, Marker, DiskInv, RecoveryNeverConflicts, Pending
  <2> QED
    BY <1>1, <1>4, <1>6, <2>1 DEF DiskInv, CleanCapsuleOpens, RecoveryNeverConflicts, StateDoc, Docs
<1>e. ProgressInv'
  <2>1. ProgressOf(s)'
    BY <1>1, <1>3, <1>4 DEF ProgressOf
  <2> QED
    BY <1>3, <1>5, <2>1, ProgressOfOne
<1>f. AggInv'
  BY <1>1, <1>3, <1>5, <1>6, RecoveryKeepsAggregates DEF Discoverable
<1> QED
  BY <1>a, <1>b, <1>c, <1>d, <1>e, <1>f

-----------------------------------------------------------------------------
(* The calls: taking the lock, loading, staging, deciding and reporting. *)

\* A call takes the state lock.
LEMMA EnterInv ==
  ASSUME CapsuleInv, NEW s \in Session, NEW call \in Calls, Enter(s, call),
         pc[s] \in {"closed", "open"},
         \/ call \in {"read", "update"} /\ agg[s] = NoAgg
         \/ call \in {"stage", "commit"} /\ agg[s].cached /\ ~agg[s].isNew
  PROVE  CapsuleInv'
<1> USE DEF CapsuleInv
<1>1. /\ ThreadFree(s) /\ LockFree(s) /\ Goto(s, "check")
      /\ held' = [held EXCEPT ![s] = TRUE] /\ op' = [op EXCEPT ![s] = call]
      /\ UNCHANGED <<reserved, docs, log, torn, marker, idx, agg, acked>>
  BY DEF Enter, disk
<1>2. "check" \in Places
  BY DEF Places
<1>3. /\ pc' \in [Session -> Places] /\ pc'[s] = "check"
      /\ \A r \in Session \ {s} : pc'[r] = pc[r]
  BY <1>1, <1>2, GotoFacts
<1>4. /\ held' \in [Session -> BOOLEAN] /\ op' \in [Session -> Calls]
      /\ held'[s] = TRUE /\ op'[s] = call
      /\ \A r \in Session \ {s} : held'[r] = held[r] /\ op'[r] = op[r]
  BY <1>1 DEF TypeOK
<1>5. \A r \in Session : ~InCall(r)
  BY <1>1 DEF ThreadFree, LockFree, LockInv, InCall
<1>6. Latest' = Latest /\ (Untouched' <=> Untouched) /\ (Discoverable' <=> Discoverable)
  BY <1>1 DEF Latest, Untouched, Discoverable, Marked, StateDoc
<1>a. TypeOK'
  BY <1>1, <1>3, <1>4 DEF TypeOK, Docs, Marker
<1>b. LockInv'
  BY <1>1, <1>3, <1>4, <1>5 DEF LockInv, InCall, LockFree
<1>c. NewInv'
  BY <1>1, <1>4, <1>6 DEF NewInv, NoAgg
<1>d. DiskInv'
  BY <1>1, <1>6 DEF DiskInv, CleanCapsuleOpens, RecoveryNeverConflicts, LogReadable,
              TailMatches, Pending, Marked, StateDoc, Docs
<1>e. ProgressInv'
  BY <1>1, <1>3, <1>5 DEF ProgressInv, ProgressOf, InCall
<1>f. AggInv'
  <2> SUFFICES ASSUME NEW r \in Session PROVE AggOf(r)'
    BY DEF AggInv
  <2>1. AggOf(r)
    BY DEF AggInv
  <2>2. CASE r = s
    BY <1>1, <1>3, <1>4, <1>5, <1>6, <2>1, <2>2 DEF AggOf, InCall, NoAgg
  <2>3. CASE r # s
    BY <1>1, <1>3, <1>4, <1>6, <2>1, <2>3 DEF AggOf, InCall
  <2> QED
    BY <2>2, <2>3
<1> QED
  BY <1>a, <1>b, <1>c, <1>d, <1>e, <1>f

\* A call of a session that has the capsule begins.
LEMMA BeginInv ==
  ASSUME CapsuleInv, NEW s \in Session,
         \/ BeginLoad(s, "read") \/ BeginLoad(s, "update")
         \/ BeginStage(s) \/ BeginCommit(s)
  PROVE  CapsuleInv'
<1>1. CASE BeginLoad(s, "read")
  <2>1. /\ "read" \in Calls /\ Enter(s, "read") /\ pc[s] = "closed" /\ agg[s] = NoAgg
    BY <1>1 DEF BeginLoad, CapsuleInv, AggInv, AggOf, Calls
  <2> QED
    BY <2>1, EnterInv
<1>2. CASE BeginLoad(s, "update")
  <2>1. /\ "update" \in Calls /\ Enter(s, "update") /\ pc[s] = "closed" /\ agg[s] = NoAgg
    BY <1>2 DEF BeginLoad, CapsuleInv, AggInv, AggOf, Calls
  <2> QED
    BY <2>1, EnterInv
<1>3. CASE BeginStage(s)
  <2>1. /\ "stage" \in Calls /\ Enter(s, "stage") /\ pc[s] = "open"
        /\ agg[s].cached /\ ~agg[s].isNew
    BY <1>3 DEF BeginStage, CapsuleInv, AggInv, AggOf, Calls
  <2> QED
    BY <2>1, EnterInv
<1>4. CASE BeginCommit(s)
  <2>1. /\ "commit" \in Calls /\ Enter(s, "commit") /\ pc[s] = "open"
        /\ agg[s].cached /\ ~agg[s].isNew
    BY <1>4 DEF BeginCommit, CapsuleInv, AggInv, AggOf, Calls
  <2> QED
    BY <2>1, EnterInv
<1> QED
  BY <1>1, <1>2, <1>3, <1>4

\* A new capsule: only its creator can have anything cached, and nothing is on disk.
LEMMA CreateInv == ASSUME CapsuleInv, NEW s \in Session, Create(s) PROVE CapsuleInv'
<1> USE DEF CapsuleInv
<1> DEFINE a == [NoAgg EXCEPT !.cached = TRUE, !.isNew = TRUE, !.dirty = TRUE]
<1>1. /\ pc[s] = "closed" /\ ThreadFree(s) /\ LockFree(s) /\ ~reserved /\ reserved' = TRUE
      /\ held' = [held EXCEPT ![s] = TRUE] /\ agg' = [agg EXCEPT ![s] = a]
      /\ Goto(s, "open")
      /\ UNCHANGED <<docs, log, torn, marker, op, idx, acked>>
  BY DEF Create
<1>2. "open" \in Places
  BY DEF Places
<1>3. /\ pc' \in [Session -> Places] /\ pc'[s] = "open"
      /\ \A r \in Session \ {s} : pc'[r] = pc[r]
  BY <1>1, <1>2, GotoFacts
<1>4. /\ a \in Aggregate /\ a.cached /\ a.isNew /\ a.dirty /\ a.gen = 0 /\ a.txs = {}
      /\ a.events = <<>> /\ a.persisted = 0
  <2>1. <<>> \in Seq(Event)
    OBVIOUS
  <2> QED
    BY <2>1 DEF Aggregate, NoAgg
<1> HIDE DEF a
<1>5. /\ held' \in [Session -> BOOLEAN] /\ agg' \in [Session -> Aggregate]
      /\ held'[s] = TRUE /\ agg'[s] = a
      /\ \A r \in Session \ {s} : held'[r] = held[r] /\ agg'[r] = agg[r]
  BY <1>1, <1>4 DEF TypeOK
<1>6. Untouched /\ Untouched' /\ ~Marked /\ ~Marked' /\ Latest = Absent /\ Latest' = Absent
  BY <1>1, DocsAssumption DEF NewInv, DiskInv, Untouched, Latest, StateDoc, Docs, Marked
<1>7. \A r \in Session : ~agg[r].isNew /\ ~InCall(r)
  BY <1>1 DEF NewInv, ThreadFree, LockFree, LockInv, InCall
<1>a. TypeOK'
  BY <1>1, <1>3, <1>5 DEF TypeOK, Docs, Marker
<1>b. LockInv'
  BY <1>1, <1>3, <1>4, <1>5, <1>7 DEF LockInv, InCall, LockFree
<1>c. NewInv'
  BY <1>1, <1>4, <1>5, <1>6, <1>7 DEF NewInv, Discoverable
<1>d. DiskInv'
  BY <1>1, <1>6 DEF DiskInv, CleanCapsuleOpens, RecoveryNeverConflicts, LogReadable,
              TailMatches, Pending, StateDoc, Docs
<1>e. ProgressInv'
  BY <1>1, <1>3, <1>7 DEF ProgressInv, ProgressOf, InCall
<1>f. AggInv'
  <2> SUFFICES ASSUME NEW r \in Session PROVE AggOf(r)'
    BY DEF AggInv
  <2>1. AggOf(r)
    BY DEF AggInv
  <2>2. CASE r = s
    BY <1>1, <1>3, <1>4, <1>5, <1>6, <1>7, <2>1, <2>2 DEF AggOf, InCall, Absent
  <2>3. CASE r # s
    BY <1>1, <1>3, <1>5, <1>6, <2>1, <2>3 DEF AggOf, InCall, Discoverable
  <2> QED
    BY <2>2, <2>3
<1> QED
  BY <1>a, <1>b, <1>c, <1>d, <1>e, <1>f

\* The first commit of a new capsule begins.
LEMMA BeginCommitNewInv == ASSUME CapsuleInv, NEW s \in Session, BeginCommitNew(s) PROVE CapsuleInv'
<1> USE DEF CapsuleInv
<1>1. /\ pc[s] = "open" /\ agg[s].isNew /\ ThreadFree(s)
      /\ op' = [op EXCEPT ![s] = "commit"] /\ Goto(s, "return")
      /\ UNCHANGED <<reserved, docs, log, torn, marker, idx, held, agg, acked>>
  BY DEF BeginCommitNew, disk
<1>2. "return" \in Places /\ "commit" \in Calls
  BY DEF Places, Calls
<1>3. /\ pc' \in [Session -> Places] /\ pc'[s] = "return"
      /\ \A r \in Session \ {s} : pc'[r] = pc[r]
  BY <1>1, <1>2, GotoFacts
<1>4. /\ op' \in [Session -> Calls] /\ op'[s] = "commit"
      /\ \A r \in Session \ {s} : op'[r] = op[r]
  BY <1>1, <1>2 DEF TypeOK
<1>5. /\ op[s] # "apply" /\ Untouched /\ ~Marked /\ held[s]
      /\ agg[s].cached /\ ~InCall(s)
  BY <1>1 DEF AggInv, AggOf, InCall, NewInv, Untouched, LockInv
<1>6. \A r \in Session : ~InCall(r)
  BY <1>1, <1>5 DEF ThreadFree, LockInv
<1>7. Latest' = Latest /\ (Untouched' <=> Untouched) /\ (Discoverable' <=> Discoverable)
      /\ ~Marked'
  BY <1>1, <1>5 DEF Latest, Untouched, Discoverable, Marked, StateDoc
<1>a. TypeOK'
  BY <1>1, <1>3, <1>4 DEF TypeOK, Docs, Marker
<1>b. LockInv'
  BY <1>1, <1>3, <1>5, <1>6 DEF LockInv, InCall
<1>c. NewInv'
  BY <1>1, <1>4, <1>5, <1>7 DEF NewInv
<1>d. DiskInv'
  BY <1>1, <1>5, <1>7 DEF DiskInv, CleanCapsuleOpens, RecoveryNeverConflicts, StateDoc, Docs
<1>e. ProgressInv'
  BY <1>1, <1>3, <1>6, <1>7 DEF ProgressInv, ProgressOf, InCall
<1>f. AggInv'
  <2> SUFFICES ASSUME NEW r \in Session PROVE AggOf(r)'
    BY DEF AggInv
  <2>1. AggOf(r)
    BY DEF AggInv
  <2>2. CASE r = s
    BY <1>1, <1>3, <1>4, <1>5, <1>7, <2>1, <2>2 DEF AggOf, InCall
  <2>3. CASE r # s
    BY <1>1, <1>3, <1>4, <1>7, <2>1, <2>3 DEF AggOf, InCall
  <2> QED
    BY <2>2, <2>3
<1> QED
  BY <1>a, <1>b, <1>c, <1>d, <1>e, <1>f

\* A load caches what is on disk.
LEMMA FinishLoadInv == ASSUME CapsuleInv, NEW s \in Session, FinishLoad(s) PROVE CapsuleInv'
<1> USE DEF CapsuleInv
<1> DEFINE a == Loaded
           h == (op[s] = "update")
<1>1. /\ pc[s] = "return" /\ op[s] \in {"read", "update"} /\ Readable
      /\ agg' = [agg EXCEPT ![s] = a] /\ held' = [held EXCEPT ![s] = h] /\ Goto(s, "open")
      /\ UNCHANGED <<reserved, docs, log, torn, marker, op, idx, acked>>
  BY DEF FinishLoad, Returning, disk
<1>2. "open" \in Places
  BY DEF Places
<1>3. /\ pc' \in [Session -> Places] /\ pc'[s] = "open"
      /\ \A r \in Session \ {s} : pc'[r] = pc[r]
  BY <1>1, <1>2, GotoFacts
<1>4. /\ a \in Aggregate /\ a.cached /\ ~a.isNew /\ ~a.dirty
      /\ a.gen = StateDoc.gen /\ a.txs = StateDoc.txs /\ a.events = log /\ a.persisted = Len(log)
  <2>1. log \in Seq(Event) /\ StateDoc \in Snapshot
    BY DocsAssumption DEF TypeOK, StateDoc, Docs
  <2>2. Len(log) \in Nat /\ StateDoc.gen \in Nat /\ StateDoc.txs \in SUBSET Tx
    BY <2>1 DEF Snapshot
  <2> QED
    BY <2>1, <2>2 DEF Aggregate, Loaded
<1> HIDE DEF a
<1>5. /\ agg' \in [Session -> Aggregate] /\ agg'[s] = a
      /\ \A r \in Session \ {s} : held'[r] = held[r] /\ agg'[r] = agg[r]
  BY <1>1, <1>4 DEF TypeOK
<1>h. held' \in [Session -> BOOLEAN]
  BY <1>1 DEF TypeOK
<1>6. /\ ~Marked /\ ~Marked' /\ Latest = StateDoc /\ Latest' = StateDoc
      /\ (Untouched' <=> Untouched) /\ (Discoverable' <=> Discoverable)
  BY <1>1 DEF ProgressInv, ProgressOf, Untouched, Latest, StateDoc, Marked, Discoverable
<1>7. InCall(s) /\ held[s] /\ \A r \in Session : r # s => ~InCall(r)
  BY <1>1 DEF LockInv, InCall
<1>8. /\ Discoverable /\ ~Untouched /\ agg[s] = NoAgg
      /\ Latest.gen \in Nat /\ Len(log) \in Nat /\ Latest.cursor = Len(log)
  <2>1. NDocs \in Docs /\ TaskDoc \in Docs /\ StateDoc.gen >= 1 /\ StateDoc.cursor = Len(log)
    BY <1>1, DocsAssumption DEF Docs, Readable
  <2>2. docs[TaskDoc] = StateDoc /\ StateDoc \in Snapshot /\ Len(log) \in Nat
    BY <1>6, <2>1 DEF DiskInv, CleanCapsuleOpens, StateDoc, TypeOK
  <2>3. agg[s] = NoAgg
    BY <1>1, <1>7 DEF AggInv, AggOf
  <2> QED
    BY <1>6, <2>1, <2>2, <2>3 DEF Discoverable, Untouched, Snapshot, StateDoc
<1>a. TypeOK'
  BY <1>1, <1>3, <1>5, <1>h DEF TypeOK, Docs, Marker
<1>b. LockInv'
  BY <1>1, <1>3, <1>4, <1>5, <1>7 DEF LockInv, InCall
<1>c. NewInv'
  BY <1>1, <1>4, <1>5, <1>6 DEF NewInv
<1>d. DiskInv'
  BY <1>1, <1>6 DEF DiskInv, CleanCapsuleOpens, RecoveryNeverConflicts, StateDoc, Docs
<1>e. ProgressInv'
  BY <1>1, <1>3, <1>7 DEF ProgressInv, ProgressOf, InCall
<1>f. AggInv'
  <2> SUFFICES ASSUME NEW r \in Session PROVE AggOf(r)'
    BY DEF AggInv
  <2>1. AggOf(r)
    BY DEF AggInv
  <2>2. CASE r = s
    BY <1>1, <1>3, <1>4, <1>5, <1>6, <1>8, <2>2 DEF AggOf, InCall
  <2>3. CASE r # s
    BY <1>1, <1>3, <1>5, <1>6, <2>1, <2>3 DEF AggOf, InCall
  <2> QED
    BY <2>2, <2>3
<1> QED
  BY <1>a, <1>b, <1>c, <1>d, <1>e, <1>f

\* What staging a command does to an aggregate.
LEMMA StagedFacts ==
  ASSUME NEW a \in Aggregate, NEW t \in Tx, NEW n \in Nat
  PROVE  /\ Staged(a, t, n) \in Aggregate
         /\ Staged(a, t, n).cached = a.cached /\ Staged(a, t, n).isNew = a.isNew
         /\ Staged(a, t, n).gen = a.gen /\ Staged(a, t, n).persisted = a.persisted
         /\ a.dirty => Staged(a, t, n).dirty
         /\ a.txs \subseteq Staged(a, t, n).txs
         /\ Len(a.events) <= Len(Staged(a, t, n).events)
<1>1. CASE t \in a.txs
  BY <1>1 DEF Staged, Aggregate
<1>2. CASE t \notin a.txs
  <2> DEFINE line(i) == [tx |-> t, seq |-> Len(a.events) + i]
             tail == [i \in 1..n |-> line(i)]
             b == [a EXCEPT !.dirty = TRUE, !.txs = @ \union {t}, !.events = @ \o tail]
  <2>1. a.events \in Seq(Event) /\ Len(a.events) \in Nat
    BY DEF Aggregate
  <2>2. \A i \in 1..n : line(i) \in Event
    BY <2>1 DEF Event
  <2>3. tail \in Seq(Event)
    BY <2>2
  <2>4. /\ a.events \o tail \in Seq(Event)
        /\ Len(a.events \o tail) = Len(a.events) + Len(tail)
    BY <2>1, <2>3, ConcatProperties
  <2>5. Len(tail) \in Nat
    BY <2>3
  <2>6. Staged(a, t, n) = b
    BY <1>2 DEF Staged
  <2> HIDE DEF tail
  <2>7. /\ b.cached = a.cached /\ b.isNew = a.isNew /\ b.gen = a.gen
        /\ b.persisted = a.persisted /\ b.dirty = TRUE /\ b.txs = a.txs \union {t}
        /\ b.events = a.events \o tail
    BY DEF Aggregate
  <2>8. b \in Aggregate
    BY <2>4 DEF Aggregate
  <2> HIDE DEF b
  <2> QED
    BY <2>1, <2>4, <2>5, <2>6, <2>7, <2>8
<1> QED
  BY <1>1, <1>2

\* A session that keeps the lock may grow its own aggregate on the newest generation.
LEMMA GrowInv ==
  ASSUME CapsuleInv, NEW s \in Session, NEW b \in Aggregate,
         agg[s].cached, op[s] # "apply", held[s], pc[s] \in {"open", "return"},
         \A r \in Session \ {s} : ~InCall(r),
         agg' = [agg EXCEPT ![s] = b], Goto(s, "open"),
         UNCHANGED <<disk, op, idx, held, acked>>,
         b.cached, b.isNew = agg[s].isNew, b.gen = agg[s].gen, b.persisted = agg[s].persisted,
         agg[s].dirty => b.dirty, agg[s].txs \subseteq b.txs,
         Len(agg[s].events) <= Len(b.events)
  PROVE  CapsuleInv'
<1> USE DEF CapsuleInv
<1>1. UNCHANGED <<reserved, docs, log, torn, marker>>
  BY DEF disk
<1>2. "open" \in Places
  BY DEF Places
<1>3. /\ pc' \in [Session -> Places] /\ pc'[s] = "open"
      /\ \A r \in Session \ {s} : pc'[r] = pc[r]
  BY <1>2, GotoFacts
<1>5. /\ agg' \in [Session -> Aggregate] /\ agg'[s] = b
      /\ \A r \in Session \ {s} : agg'[r] = agg[r]
  BY DEF TypeOK
<1>6. /\ Latest' = Latest /\ (Untouched' <=> Untouched) /\ (Discoverable' <=> Discoverable)
      /\ (Marked' <=> Marked)
  BY <1>1 DEF Untouched, Latest, StateDoc, Marked, Discoverable
<1>a. TypeOK'
  BY <1>1, <1>3, <1>5 DEF TypeOK, Docs, Marker
<1>b. LockInv'
  BY <1>3, <1>5 DEF LockInv, InCall
<1>c. NewInv'
  BY <1>1, <1>5, <1>6 DEF NewInv
<1>d. DiskInv'
  BY <1>1, <1>6 DEF DiskInv, CleanCapsuleOpens, RecoveryNeverConflicts, LogReadable,
       TailMatches, Pending, StateDoc, Docs
<1>e. ProgressInv'
  BY <1>3 DEF ProgressInv, ProgressOf, InCall
<1>f. AggInv'
  <2> SUFFICES ASSUME NEW r \in Session PROVE AggOf(r)'
    BY DEF AggInv
  <2>1. AggOf(r)
    BY DEF AggInv
  <2>2. CASE r = s
    <3>1. Len(b.events) \in Nat /\ Len(agg[s].events) \in Nat /\ agg[s].persisted \in Nat
      BY DEF Aggregate, TypeOK
    <3> QED
      BY <1>3, <1>5, <1>6, <2>1, <2>2, <3>1 DEF AggOf, InCall
  <2>3. CASE r # s
    BY <1>3, <1>5, <1>6, <2>1, <2>3 DEF AggOf, InCall
  <2> QED
    BY <2>2, <2>3
<1> QED
  BY <1>a, <1>b, <1>c, <1>d, <1>e, <1>f

\* A command is staged in the cached aggregate.
LEMMA FinishStageInv ==
  ASSUME CapsuleInv, NEW s \in Session, NEW t \in Tx, NEW n \in 1..MaxTail,
         FinishStage(s, t, n)
  PROVE  CapsuleInv'
<1>1. /\ agg[s] \in Aggregate /\ agg[s].cached /\ op[s] # "apply" /\ held[s]
      /\ pc[s] = "return" /\ \A r \in Session \ {s} : ~InCall(r)
  BY DEF FinishStage, Returning, CapsuleInv, TypeOK, AggInv, AggOf, LockInv, InCall
<1>2. /\ agg' = [agg EXCEPT ![s] = Staged(agg[s], t, n)] /\ Goto(s, "open")
      /\ UNCHANGED <<disk, op, idx, held, acked>>
  BY DEF FinishStage
<1>3. n \in Nat
  BY BoundAssumption
<1> DEFINE b == Staged(agg[s], t, n)
<1>4. /\ b \in Aggregate /\ b.cached = agg[s].cached /\ b.isNew = agg[s].isNew
      /\ b.gen = agg[s].gen /\ b.persisted = agg[s].persisted
      /\ (agg[s].dirty => b.dirty) /\ agg[s].txs \subseteq b.txs
      /\ Len(agg[s].events) <= Len(b.events)
  BY <1>1, <1>3, StagedFacts
<1> HIDE DEF b
<1>5. agg' = [agg EXCEPT ![s] = b]
  BY <1>2 DEF b
<1> QED
  BY <1>1, <1>2, <1>4, <1>5, GrowInv

\* A command is staged in a new capsule.
LEMMA StageNewInv ==
  ASSUME CapsuleInv, NEW s \in Session, NEW t \in Tx, NEW n \in 1..MaxTail,
         StageNew(s, t, n)
  PROVE  CapsuleInv'
<1>1. /\ agg[s] \in Aggregate /\ agg[s].cached /\ op[s] # "apply" /\ held[s]
      /\ pc[s] = "open" /\ \A r \in Session \ {s} : ~InCall(r)
  <2>1. /\ pc[s] = "open" /\ agg[s].isNew /\ ThreadFree(s)
    BY DEF StageNew
  <2>2. /\ agg[s] \in Aggregate /\ agg[s].cached /\ op[s] # "apply" /\ held[s]
    BY <2>1 DEF CapsuleInv, TypeOK, AggInv, AggOf, NewInv, LockInv, InCall
  <2> QED
    BY <2>1, <2>2 DEF CapsuleInv, LockInv, ThreadFree
<1>2. /\ agg' = [agg EXCEPT ![s] = Staged(agg[s], t, n)]
      /\ UNCHANGED <<disk, op, idx, held, acked>> /\ pc' = pc
  BY DEF StageNew, control
<1>3. n \in Nat /\ Goto(s, "open")
  BY <1>1, <1>2, BoundAssumption DEF Goto, CapsuleInv, TypeOK
<1> DEFINE b == Staged(agg[s], t, n)
<1>4. /\ b \in Aggregate /\ b.cached = agg[s].cached /\ b.isNew = agg[s].isNew
      /\ b.gen = agg[s].gen /\ b.persisted = agg[s].persisted
      /\ (agg[s].dirty => b.dirty) /\ agg[s].txs \subseteq b.txs
      /\ Len(agg[s].events) <= Len(b.events)
  BY <1>1, <1>3, StagedFacts
<1> HIDE DEF b
<1>5. agg' = [agg EXCEPT ![s] = b]
  BY <1>2 DEF b
<1> QED
  BY <1>1, <1>2, <1>3, <1>4, <1>5, GrowInv

\* An extension document is staged.
LEMMA FinishExtensionInv ==
  ASSUME CapsuleInv, NEW s \in Session, FinishExtension(s)
  PROVE  CapsuleInv'
<1>1. /\ agg[s] \in Aggregate /\ agg[s].cached /\ op[s] # "apply" /\ held[s]
      /\ pc[s] = "return" /\ \A r \in Session \ {s} : ~InCall(r)
  BY DEF FinishExtension, Returning, CapsuleInv, TypeOK, AggInv, AggOf, LockInv, InCall
<1> DEFINE b == [agg[s] EXCEPT !.dirty = TRUE]
<1>2. /\ agg' = [agg EXCEPT ![s] = b] /\ Goto(s, "open")
      /\ UNCHANGED <<disk, op, idx, held, acked>>
  BY DEF FinishExtension
<1>3. b \in Aggregate
  BY <1>1 DEF Aggregate
<1>4. /\ b.cached = agg[s].cached /\ b.isNew = agg[s].isNew
      /\ b.gen = agg[s].gen /\ b.persisted = agg[s].persisted
      /\ agg[s].txs = b.txs /\ agg[s].events = b.events
  BY <1>1 DEF Aggregate
<1>5. b.dirty = TRUE /\ Len(agg[s].events) \in Nat
  BY <1>1 DEF Aggregate
<1> HIDE DEF b
<1>6. Len(agg[s].events) <= Len(b.events) /\ (agg[s].dirty => b.dirty)
      /\ agg[s].txs \subseteq b.txs
  BY <1>4, <1>5
<1> QED
  BY <1>1, <1>2, <1>3, <1>4, <1>6, GrowInv

-----------------------------------------------------------------------------
(* Deciding a commit: the marker extends the newest commit point by one generation. *)

\* A new marker continues what is on disk.
LEMMA NewMarkerFacts ==
  ASSUME TypeOK, AggInv, NEW s \in Session
  PROVE  LET m == NewMarker(s) IN
         /\ m \in Marker /\ m.base = agg[s].persisted
         /\ m.snap = [gen |-> agg[s].gen + 1, txs |-> agg[s].txs,
                      cursor |-> Len(agg[s].events)]
         /\ Len(m.tail) = Len(agg[s].events) - agg[s].persisted
<1> DEFINE a == agg[s]
           tail == SubSeq(a.events, a.persisted + 1, Len(a.events))
<1>1. /\ a.events \in Seq(Event) /\ a.gen \in Nat /\ a.persisted \in Nat
      /\ a.txs \in SUBSET Tx /\ Len(a.events) \in Nat /\ a.persisted <= Len(a.events)
  BY DEF TypeOK, Aggregate, AggInv, AggOf
<1>2. \A i \in (a.persisted + 1)..Len(a.events) : a.events[i] \in Event
  BY <1>1
<1>3. /\ tail \in Seq(Event)
      /\ Len(tail) = IF a.persisted + 1 <= Len(a.events)
                     THEN Len(a.events) - (a.persisted + 1) + 1 ELSE 0
  BY <1>1, <1>2, SubSeqProperties
<1>4. Len(tail) = Len(a.events) - a.persisted
  BY <1>1, <1>3
<1>5. NewMarker(s) = [snap |-> [gen |-> a.gen + 1, txs |-> a.txs, cursor |-> Len(a.events)],
                      base |-> a.persisted, tail |-> tail]
  BY DEF NewMarker
<1> HIDE DEF tail
<1> QED
  BY <1>1, <1>3, <1>4, <1>5 DEF Marker, Snapshot

\* The marker is written: the commit point.
LEMMA WriteMarkerInv == ASSUME CapsuleInv, NEW s \in Session, WriteMarker(s) PROVE CapsuleInv'
<1> USE DEF CapsuleInv
<1>1. /\ pc[s] = "return" /\ op[s] = "commit" /\ GenerationMatches(s)
      /\ marker' = NewMarker(s) /\ op' = [op EXCEPT ![s] = "apply"] /\ Goto(s, "check")
      /\ UNCHANGED <<reserved, docs, log, torn, idx, held, agg, acked>>
  BY DEF WriteMarker, Returning
<1>2. "check" \in Places /\ "apply" \in Calls
  BY DEF Places, Calls
<1>3. /\ pc' \in [Session -> Places] /\ pc'[s] = "check"
      /\ \A r \in Session \ {s} : pc'[r] = pc[r]
  BY <1>1, <1>2, GotoFacts
<1>4. /\ op' \in [Session -> Calls] /\ op'[s] = "apply"
      /\ \A r \in Session \ {s} : op'[r] = op[r]
  BY <1>1, <1>2 DEF TypeOK
<1>5. InCall(s) /\ InCall(s)' /\ \A r \in Session \ {s} : ~InCall(r) /\ ~InCall(r)'
  BY <1>1, <1>3 DEF LockInv, InCall
<1>6. /\ ~Marked /\ Latest = StateDoc /\ agg[s].cached /\ AggOf(s)
      /\ StateDoc.cursor = Len(log) /\ ~torn /\ Len(log) \in Nat
      /\ agg[s].gen \in Nat /\ StateDoc.gen \in Nat
  <2>1. ~Marked
    BY <1>1 DEF ProgressInv, ProgressOf
  <2>2. AggOf(s) /\ agg[s].cached
    BY <1>1, <1>5 DEF AggInv, AggOf
  <2>3. StateDoc.cursor = Len(log) /\ ~torn
    BY <2>1 DEF DiskInv, CleanCapsuleOpens
  <2>4. Len(log) \in Nat /\ agg[s].gen \in Nat
    BY DEF TypeOK, Aggregate
  <2>5. StateDoc.gen \in Nat
    BY DocsAssumption DEF TypeOK, StateDoc, Docs, Snapshot
  <2> QED
    BY <2>1, <2>2, <2>3, <2>4, <2>5 DEF Latest
<1>7. agg[s].gen = Latest.gen
  <2>1. CASE agg[s].isNew
    BY <1>1, <1>6, <2>1, DocsAssumption DEF NewInv, Untouched, StateDoc, Docs
  <2>2. CASE ~agg[s].isNew
    BY <1>1, <1>6, <2>2 DEF GenerationMatches
  <2> QED
    BY <2>1, <2>2
<1>8. agg[s].persisted = Len(log) /\ Latest.txs \subseteq agg[s].txs
  BY <1>1, <1>6, <1>7 DEF AggOf
<1>9. /\ marker' \in Marker /\ marker'.base = Len(log)
      /\ marker'.snap = [gen |-> agg[s].gen + 1, txs |-> agg[s].txs,
                         cursor |-> Len(agg[s].events)]
      /\ Len(marker'.tail) = Len(agg[s].events) - Len(log)
      /\ Len(log) <= Len(agg[s].events) /\ Len(agg[s].events) \in Nat
  BY <1>1, <1>6, <1>8, NewMarkerFacts DEF AggOf, TypeOK, Aggregate
<1>10. /\ Marked' /\ Latest' = marker'.snap /\ Latest'.gen = Latest.gen + 1
       /\ Latest'.txs = agg[s].txs
  BY <1>6, <1>7, <1>9 DEF Marked, Latest
<1>11. (Discoverable' <=> Discoverable) /\ ~Untouched'
  BY <1>1, <1>10 DEF Discoverable, Untouched
<1>a. TypeOK'
  BY <1>1, <1>3, <1>4, <1>9 DEF TypeOK, Docs
<1>b. LockInv'
  BY <1>1, <1>3, <1>5, MoveKeepsLock
<1>c. NewInv'
  <2>1. reserved
    <3>1. CASE agg[s].isNew
      BY <3>1 DEF NewInv
    <3>2. CASE ~agg[s].isNew
      BY <1>6, <3>2, DocsAssumption DEF AggOf, NewInv, Untouched, Discoverable, Docs
    <3> QED
      BY <3>1, <3>2
  <2>2. \A r \in Session : agg[r].isNew /\ op'[r] # "apply" => r # s /\ agg[r].isNew
    BY <1>4
  <2>3. \A r \in Session : agg[r].isNew /\ op'[r] # "apply" => Untouched
    BY <1>4 DEF NewInv
  <2>4. \A r \in Session : agg[r].isNew /\ op'[r] # "apply" => ~agg[s].isNew
    BY <2>2 DEF NewInv
  <2>5. \A r \in Session : agg[r].isNew => op'[r] = "apply"
    <3>1. CASE agg[s].isNew
      BY <2>4, <3>1
    <3>2. CASE ~agg[s].isNew
      BY <1>6, <2>3, <3>2, DocsAssumption DEF AggOf, Untouched, Discoverable, Docs
    <3> QED
      BY <3>1, <3>2
  <2> QED
    BY <1>1, <1>11, <2>1, <2>5 DEF NewInv
<1>d. DiskInv'
  <2>1. RecoveryNeverConflicts'
    BY <1>1, <1>6, <1>9 DEF RecoveryNeverConflicts, LogReadable, TailMatches, Marker
  <2>2. acked \subseteq agg[s].txs
    BY <1>8 DEF DiskInv
  <2> QED
    BY <1>1, <1>6, <1>10, <2>1, <2>2 DEF DiskInv, CleanCapsuleOpens, Docs
<1>e. ProgressInv'
  <2>1. ProgressOf(s)'
    BY <1>3, <1>10 DEF ProgressOf
  <2> QED
    BY <1>3, <1>5, <2>1, ProgressOfOne
<1>f. AggInv'
  <2> SUFFICES ASSUME NEW r \in Session PROVE AggOf(r)'
    BY DEF AggInv
  <2>1. AggOf(r)
    BY DEF AggInv
  <2>2. CASE r = s
    BY <1>1, <1>3, <1>4, <1>5, <1>6, <1>9, <1>10, <1>11, <2>1, <2>2 DEF AggOf, InCall
  <2>3. CASE r # s
    <3>1. op[r] # "apply" /\ op'[r] = op[r] /\ pc'[r] = pc[r] /\ agg[r].gen \in Nat
      BY <1>4, <1>3, <1>5, <2>1, <2>3 DEF AggOf, TypeOK, Aggregate
    <3>2. agg[r].cached => agg[r].gen < Latest'.gen
      BY <1>6, <1>7, <1>10, <2>1, <3>1 DEF AggOf
    <3> QED
      BY <1>1, <1>5, <1>11, <2>1, <2>3, <3>1, <3>2, <1>6, <1>10 DEF AggOf
  <2> QED
    BY <2>2, <2>3
<1> QED
  BY <1>a, <1>b, <1>c, <1>d, <1>e, <1>f

\* A commit is acknowledged.
LEMMA FinishCommitInv == ASSUME CapsuleInv, NEW s \in Session, FinishCommit(s) PROVE CapsuleInv'
<1> USE DEF CapsuleInv
<1> DEFINE b == [agg[s] EXCEPT !.gen = @ + 1, !.dirty = FALSE, !.isNew = FALSE,
                               !.persisted = Len(agg[s].events)]
<1>1. /\ pc[s] = "return" /\ op[s] = "apply"
      /\ agg' = [agg EXCEPT ![s] = b] /\ acked' = acked \union agg[s].txs
      /\ op' = [op EXCEPT ![s] = "none"] /\ Goto(s, "open")
      /\ UNCHANGED <<reserved, docs, log, torn, marker, idx, held>>
  BY DEF FinishCommit, Returning, disk, TypeOK
<1>2. "open" \in Places /\ "none" \in Calls
  BY DEF Places, Calls
<1>3. /\ pc' \in [Session -> Places] /\ pc'[s] = "open"
      /\ \A r \in Session \ {s} : pc'[r] = pc[r]
  BY <1>1, <1>2, GotoFacts
<1>4. /\ op' \in [Session -> Calls] /\ op'[s] = "none"
      /\ \A r \in Session \ {s} : op'[r] = op[r]
  BY <1>1, <1>2 DEF TypeOK
<1>5. InCall(s) /\ ~InCall(s)' /\ \A r \in Session \ {s} : ~InCall(r) /\ ~InCall(r)'
  BY <1>1, <1>3 DEF LockInv, InCall
<1>6. agg[s] \in Aggregate /\ agg[s].cached /\ Len(agg[s].events) \in Nat /\ agg[s].gen \in Nat
  BY <1>1 DEF TypeOK, Aggregate, AggInv, AggOf, InCall
<1>7. b \in Aggregate
  <2>1. agg[s].gen + 1 \in Nat
    BY <1>6
  <2> QED
    BY <1>6, <2>1, Zenon DEF Aggregate
<1>8. /\ b.cached = agg[s].cached /\ b.gen = agg[s].gen + 1 /\ b.txs = agg[s].txs
      /\ b.events = agg[s].events /\ b.persisted = Len(agg[s].events)
  BY <1>6 DEF Aggregate
<1>9. b.isNew = FALSE /\ b.dirty = FALSE
  BY <1>6 DEF Aggregate
<1> HIDE DEF b
<1>10. /\ agg' \in [Session -> Aggregate] /\ agg'[s] = b
       /\ \A r \in Session \ {s} : agg'[r] = agg[r]
  BY <1>1, <1>7 DEF TypeOK
<1>11. /\ ~Marked /\ ~Marked' /\ Latest = StateDoc /\ Latest' = StateDoc
       /\ (Untouched' <=> Untouched) /\ (Discoverable' <=> Discoverable)
  BY <1>1 DEF ProgressInv, ProgressOf, Untouched, Latest, StateDoc, Marked, Discoverable
<1>12. /\ Latest.gen = agg[s].gen + 1 /\ Latest.txs = agg[s].txs
       /\ Latest.cursor = Len(agg[s].events)
  BY <1>1 DEF AggInv, AggOf
<1>13. Discoverable /\ ~Untouched
  <2>1. docs[TaskDoc] = StateDoc /\ StateDoc.gen > 0 /\ TaskDoc \in Docs
    BY <1>6, <1>11, <1>12, DocsAssumption DEF DiskInv, CleanCapsuleOpens, Docs
  <2>2. docs[TaskDoc].gen > 0
    BY <2>1
  <2>3. docs[TaskDoc].gen # 0
    BY <2>2
  <2> QED
    BY <2>1, <2>2, <2>3 DEF Discoverable, Untouched
<1>a. TypeOK'
  BY <1>1, <1>3, <1>4, <1>6, <1>10 DEF TypeOK, Docs, Marker, Aggregate
<1>b. LockInv'
  BY <1>1, <1>3, <1>5, <1>9, <1>10 DEF LockInv
<1>c. NewInv'
  BY <1>1, <1>4, <1>9, <1>10, <1>11, <1>13 DEF NewInv
<1>d. DiskInv'
  BY <1>1, <1>11, <1>12 DEF DiskInv, CleanCapsuleOpens, RecoveryNeverConflicts, StateDoc, Docs
<1>e. ProgressInv'
  BY <1>5 DEF ProgressInv, ProgressOf, InCall
<1>f. AggInv'
  <2> SUFFICES ASSUME NEW r \in Session PROVE AggOf(r)'
    BY DEF AggInv
  <2>1. AggOf(r)
    BY DEF AggInv
  <2>2. CASE r = s
    <3>1. /\ pc'[s] = "open" /\ op'[s] = "none" /\ ~InCall(s)'
          /\ b.cached /\ Discoverable' /\ Latest' = Latest
      BY <1>3, <1>4, <1>5, <1>6, <1>8, <1>11, <1>13
    <3>2. b.persisted = Len(b.events) /\ Len(b.events) \in Nat
      BY <1>6, <1>8
    <3>3. b.persisted <= Len(b.events)
      BY <3>2
    <3>4. b.gen = Latest.gen /\ b.persisted = Latest.cursor /\ Latest.txs = b.txs
      BY <1>8, <1>12
    <3>5. b.gen <= Latest.gen
      BY <1>6, <1>8, <3>4
    <3> HIDE DEF Latest, Discoverable
    <3> QED
      BY <1>10, <2>2, <3>1, <3>3, <3>4, <3>5 DEF AggOf
  <2>3. CASE r # s
    BY <1>3, <1>4, <1>5, <1>10, <1>11, <2>1, <2>3 DEF AggOf
  <2> QED
    BY <2>2, <2>3
<1> QED
  BY <1>a, <1>b, <1>c, <1>d, <1>e, <1>f

-----------------------------------------------------------------------------
(* Ends: whatever sessions go, what they held in memory goes with them. *)

\* Sessions that end a call or die leave files that a recovery can finish.
LEMMA ForgetInv ==
  ASSUME CapsuleInv, NEW S \in SUBSET Session, Forget(S), UNCHANGED <<docs, marker>>,
         reserved' \in BOOLEAN, log' \in Seq(Event), torn' \in BOOLEAN,
         \/ reserved' = reserved
         \/ Untouched /\ \A r \in Session \ S : ~agg[r].isNew,
         \/ log' = log /\ torn' = torn
         \/ Marked /\ \A r \in Session \ S : ~InCall(r),
         CleanCapsuleOpens', RecoveryNeverConflicts', (Marked /\ torn => Pending)'
  PROVE  CapsuleInv'
<1> USE DEF CapsuleInv
<1>1. \A r \in Session :
        /\ r \in S => /\ pc'[r] = "closed" /\ op'[r] = "none" /\ idx'[r] = 1
                      /\ held'[r] = FALSE /\ agg'[r] = NoAgg
        /\ r \notin S => /\ pc'[r] = pc[r] /\ op'[r] = op[r] /\ idx'[r] = idx[r]
                         /\ held'[r] = held[r] /\ agg'[r] = agg[r]
  BY DEF Forget
<1>2. NoAgg \in Aggregate /\ ~NoAgg.isNew /\ ~NoAgg.dirty /\ ~NoAgg.cached
  BY DEF NoAgg, Aggregate
<1>3. \A r \in Session : /\ r \in S => ~InCall(r)'
                         /\ r \notin S => InCall(r)' = InCall(r)
  BY <1>1 DEF InCall
<1>4. /\ docs' = docs /\ marker' = marker /\ acked' = acked
      /\ Latest' = Latest /\ Untouched' = Untouched /\ Discoverable' = Discoverable
      /\ Marked' = Marked
  BY DEF Forget, Latest, Untouched, Discoverable, Marked, StateDoc
<1>a. TypeOK'
  <2>1. "closed" \in Places /\ "none" \in Calls /\ 1 \in Docs
    BY DocsAssumption DEF Places, Calls, Docs
  <2>2. pc' \in [Session -> Places] /\ op' \in [Session -> Calls] /\ idx' \in [Session -> Docs]
    BY <2>1 DEF Forget, TypeOK
  <2>3. held' \in [Session -> BOOLEAN]
    BY DEF Forget, TypeOK
  <2>4. agg' \in [Session -> Aggregate]
    BY <1>2 DEF Forget, TypeOK
  <2> QED
    BY <1>4, <2>2, <2>3, <2>4 DEF TypeOK, Docs
<1>b. LockInv'
  BY <1>1, <1>2, <1>3 DEF LockInv
<1>c. NewInv'
  <2>1. \A r \in Session : agg'[r].isNew => r \notin S /\ agg[r].isNew
    BY <1>1, <1>2
  <2>2. \A r \in Session : agg'[r].isNew => reserved'
    BY <2>1 DEF NewInv
  <2>3. ~Untouched => reserved'
    BY DEF NewInv
  <2> QED
    BY <1>1, <1>4, <2>1, <2>2, <2>3 DEF NewInv
<1>d. DiskInv'
  BY <1>4 DEF DiskInv, Docs
<1>e. ProgressInv'
  <2> SUFFICES ASSUME NEW r \in Session PROVE ProgressOf(r)'
    BY DEF ProgressInv
  <2>1. CASE ~InCall(r)'
    BY <2>1 DEF ProgressOf, InCall
  <2>2. CASE InCall(r)'
    <3>1. r \notin S /\ InCall(r)
      BY <1>3, <2>2
    <3>2. log' = log /\ torn' = torn
      BY <3>1
    <3>3. Pending' = Pending
      BY <1>4, <3>2 DEF Pending
    <3> QED
      BY <1>1, <1>4, <3>1, <3>2, <3>3 DEF ProgressInv, ProgressOf, Docs
  <2> QED
    BY <2>1, <2>2
<1>f. AggInv'
  <2> SUFFICES ASSUME NEW r \in Session PROVE AggOf(r)'
    BY DEF AggInv
  <2>1. CASE r \in S
    <3>1. NoAgg.persisted <= Len(NoAgg.events)
      BY DEF NoAgg
    <3>2. pc'[r] = "closed" /\ op'[r] = "none" /\ agg'[r] = NoAgg /\ ~InCall(r)'
      BY <1>1, <1>3, <2>1
    <3> QED
      BY <1>2, <3>1, <3>2 DEF AggOf
  <2>2. CASE r \notin S
    BY <1>1, <1>3, <1>4, <2>2 DEF AggInv, AggOf
  <2> QED
    BY <2>1, <2>2
<1> QED
  BY <1>a, <1>b, <1>c, <1>d, <1>e, <1>f

\* A session closes.
LEMMA CloseInv == ASSUME CapsuleInv, NEW s \in Session, Close(s) PROVE CapsuleInv'
<1>1. Forget({s}) /\ UNCHANGED <<reserved, docs, log, torn, marker>>
  BY DEF Close, disk
<1>2. reserved' \in BOOLEAN /\ log' \in Seq(Event) /\ torn' \in BOOLEAN
  BY <1>1 DEF CapsuleInv, TypeOK
<1>3. CleanCapsuleOpens' /\ RecoveryNeverConflicts' /\ (Marked /\ torn => Pending)'
  BY <1>1 DEF CapsuleInv, DiskInv, CleanCapsuleOpens, RecoveryNeverConflicts, Marked, Pending,
              StateDoc, LogReadable, TailMatches, Docs
<1> QED
  BY <1>1, <1>2, <1>3, ForgetInv

\* Truncating the append in progress leaves the complete lines; a directory is removed
\* only while nothing was written in it.
LEMMA AbortInv == ASSUME CapsuleInv, NEW s \in Session, Abort(s) PROVE CapsuleInv'
<1> USE DEF CapsuleInv
<1>1. /\ Forget({s}) /\ UNCHANGED <<docs, log, marker>>
      /\ torn' = (torn /\ pc[s] # "torn")
  BY DEF Abort
<1>2. log' \in Seq(Event) /\ torn' \in BOOLEAN
  BY <1>1 DEF TypeOK
<1>3. \/ reserved' = reserved
      \/ reserved' \in BOOLEAN /\ Untouched /\ agg[s].isNew
  BY DEF Abort
<1>4. reserved' \in BOOLEAN
  BY <1>3 DEF TypeOK
<1>5. agg[s].isNew => \A r \in Session \ {s} : ~agg[r].isNew
  BY DEF NewInv
<1>6. pc[s] = "torn" => Marked /\ \A r \in Session \ {s} : ~InCall(r)
  BY DEF ProgressInv, ProgressOf, LockInv, InCall
<1>7. pc[s] # "torn" => torn' = torn
  BY <1>1 DEF TypeOK
<1>8. CleanCapsuleOpens' /\ RecoveryNeverConflicts' /\ (Marked /\ torn => Pending)'
  BY <1>1 DEF DiskInv, CleanCapsuleOpens, RecoveryNeverConflicts, Marked, Pending, StateDoc,
              LogReadable, TailMatches, Docs
<1> QED
  BY <1>1, <1>2, <1>3, <1>4, <1>5, <1>6, <1>7, <1>8, ForgetInv

\* A dying process may leave the line it was appending absent, torn or complete.
LEMMA CrashInv == ASSUME CapsuleInv, NEW p \in Process, Crash(p) PROVE CapsuleInv'
<1> USE DEF CapsuleInv
<1> DEFINE dead == {s \in Session : ProcessOf[ThreadOf[s]] = p /\ pc[s] # "closed"}
<1>1. Forget(dead) /\ UNCHANGED <<reserved, docs, marker>> /\ dead \in SUBSET Session
  BY DEF Crash
<1>2. \/ log' = log /\ torn' = torn
      \/ /\ \E s \in dead : pc[s] = "torn"
         /\ \/ torn' \in BOOLEAN /\ log' = log
            \/ torn' = FALSE /\ log' = Append(log, NextLine)
  BY DEF Crash
<1>3. (\E s \in dead : pc[s] = "torn") =>
        Marked /\ Pending /\ \A r \in Session \ dead : ~InCall(r)
  BY DEF ProgressInv, ProgressOf, LockInv, InCall
<1> HIDE DEF dead
<1>4. reserved' \in BOOLEAN
  BY <1>1 DEF TypeOK
<1>5. CASE log' = log /\ torn' = torn
  <2>1. CleanCapsuleOpens' /\ RecoveryNeverConflicts' /\ (Marked /\ torn => Pending)'
    BY <1>1, <1>5 DEF DiskInv, CleanCapsuleOpens, RecoveryNeverConflicts, Marked, Pending,
                      StateDoc, LogReadable, TailMatches, Docs
  <2> QED
    BY <1>1, <1>4, <1>5, <2>1, ForgetInv DEF TypeOK
<1>6. CASE (\E s \in dead : pc[s] = "torn") /\ torn' \in BOOLEAN /\ log' = log
  <2>1. CleanCapsuleOpens' /\ RecoveryNeverConflicts' /\ (Marked /\ torn => Pending)'
    BY <1>1, <1>3, <1>6 DEF DiskInv, CleanCapsuleOpens, RecoveryNeverConflicts, Marked, Pending,
                            StateDoc, LogReadable, TailMatches, Docs
  <2> QED
    BY <1>1, <1>3, <1>4, <1>6, <2>1, ForgetInv DEF TypeOK
<1>7. CASE (\E s \in dead : pc[s] = "torn") /\ torn' = FALSE /\ log' = Append(log, NextLine)
  <2>1. log' \in Seq(Event) /\ RecoveryNeverConflicts'
    BY <1>1, <1>3, <1>7, AppendedLine DEF DiskInv
  <2>2. CleanCapsuleOpens' /\ (Marked /\ torn => Pending)'
    BY <1>1, <1>3, <1>7 DEF CleanCapsuleOpens, Marked
  <2> QED
    BY <1>1, <1>3, <1>4, <1>7, <2>1, <2>2, ForgetInv DEF TypeOK
<1> QED
  BY <1>2, <1>5, <1>6, <1>7

-----------------------------------------------------------------------------
(* The theorems. *)

\* Every step keeps the invariant.
LEMMA NextInv == CapsuleInv /\ [Next]_vars => CapsuleInv'
<1> SUFFICES ASSUME CapsuleInv, [Next]_vars PROVE CapsuleInv'
  OBVIOUS
<1>1. CASE UNCHANGED vars
  BY <1>1 DEF vars, disk, control, CapsuleInv, TypeOK, LockInv, NewInv, DiskInv, ProgressInv,
     AggInv, ProgressOf, AggOf, InCall, Latest, Marked, StateDoc, Untouched, Discoverable,
     CleanCapsuleOpens, RecoveryNeverConflicts, LogReadable, TailMatches, Pending
<1>2. ASSUME NEW s \in Session, Call(s) PROVE CapsuleInv'
  BY <1>2, CreateInv, BeginInv, BeginCommitNewInv DEF Call
<1>3. ASSUME NEW s \in Session, Recover(s) PROVE CapsuleInv'
  BY <1>3, CheckMarkerInv, WriteDocInv, ReadEventsInv, AppendStartInv, AppendEndInv, UnlinkInv
     DEF Recover
<1>4. ASSUME NEW s \in Session, Finish(s) PROVE CapsuleInv'
  BY <1>4, FinishLoadInv, FinishExtensionInv, WriteMarkerInv, FinishCommitInv, FinishStageInv,
     StageNewInv DEF Finish
<1>5. ASSUME NEW s \in Session, Close(s) \/ Abort(s) PROVE CapsuleInv'
  BY <1>5, CloseInv, AbortInv
<1>6. ASSUME NEW p \in Process, Crash(p) PROVE CapsuleInv'
  BY <1>6, CrashInv
<1> QED
  BY <1>1, <1>2, <1>3, <1>4, <1>5, <1>6 DEF Next

\* The inductive invariant of the store holds in every reachable state, for any number
\* of sessions, threads and processes and any number of documents, events and commits:
\* it is what TaskCapsuleSession's locks, recovery and generation check add up to.
THEOREM CapsuleInvariant == Spec => []CapsuleInv
<1>1. Init => CapsuleInv
  BY InitInv
<1>2. CapsuleInv /\ [Next]_vars => CapsuleInv'
  BY NextInv
<1> QED
  BY <1>1, <1>2, PTL DEF Spec

\* Every variable keeps its type, the cached aggregates and the marker included.
THEOREM TypeCorrect == Spec => []TypeOK
<1>1. CapsuleInv => TypeOK
  BY DEF CapsuleInv
<1> QED
  BY <1>1, CapsuleInvariant, PTL

\* After any crash, I/O error or conflict, a capsule with no marker passes the checks
\* of _load_path: state.yaml's event cursor is the length of events.jsonl and every
\* document is from one generation.
THEOREM CapsuleAlwaysOpens == Spec => []CleanCapsuleOpens
<1>1. CapsuleInv => CleanCapsuleOpens
  BY DEF CapsuleInv, DiskInv
<1> QED
  BY <1>1, CapsuleInvariant, PTL

\* And a capsule with a marker can be rolled forward: _recover never finds its log
\* shorter than the marker's base or diverging from the marker's tail.
THEOREM RecoveryAlwaysPossible == Spec => []RecoveryNeverConflicts
<1>1. CapsuleInv => RecoveryNeverConflicts
  BY DEF CapsuleInv, DiskInv
<1> QED
  BY <1>1, CapsuleInvariant, PTL

\* What a commit reported as written stays written: no crash, rollback, conflict or
\* later commit of another session removes a command whose commit returned.
THEOREM AckedCommitsAreDurable == Spec => []AckedCommitsSurvive
<1>1. CapsuleInv => AckedCommitsSurvive
  <2> SUFFICES ASSUME CapsuleInv PROVE AckedCommitsSurvive
    OBVIOUS
  <2>1. CASE acked = {}
    BY <2>1 DEF AckedCommitsSurvive
  <2>2. CASE acked # {}
    BY <2>2 DEF AckedCommitsSurvive, Committed, CapsuleInv, NewInv, DiskInv, Latest
  <2> QED
    BY <2>1, <2>2
<1> QED
  BY <1>1, CapsuleInvariant, PTL
-----------------------------------------------------------------------------
(* The log and the refinement: CapsuleStore is an AtomicCapsule, and its log holds
   every event once.  What CapsuleInv says of lengths and commands, LogInv says of
   the events themselves. *)
(* The invariant. *)

\* The events of the newest commit point, wherever they are.
LatestLog == IF Marked THEN SubSeq(log, 1, marker.base) \o marker.tail ELSE log

\* The events are those of the commands, each command's once and in one piece.
Exact(events, txs) ==
    /\ {events[i].tx : i \in 1..Len(events)} = txs
    /\ \A i \in 1..Len(events) : events[i].seq = i
    /\ \A i, j \in 1..Len(events) :
          i < j /\ events[i].tx = events[j].tx
              => \A k \in i..j : events[k].tx = events[i].tx

\* An aggregate of the newest generation continues the newest log; the one being
\* committed is the newest log.  Nobody but its creator is in an undiscoverable capsule.
LogOf(s) ==
    /\ InCall(s) => Discoverable \/ agg[s].isNew
    /\ agg[s].cached => Exact(agg[s].events, agg[s].txs)
    /\ agg[s].cached /\ op[s] # "apply" /\ agg[s].gen = Latest.gen =>
          SubSeq(agg[s].events, 1, agg[s].persisted) = LatestLog
    /\ op[s] = "apply" => agg[s].events = LatestLog

LogInv == Exact(LatestLog, Latest.txs) /\ \A s \in Session : LogOf(s)

-----------------------------------------------------------------------------
(* Sequences of events. *)

\* A sequence cut in two and joined again.
LEMMA CutAndJoined ==
  ASSUME NEW e \in Seq(Event), NEW n \in 0..Len(e)
  PROVE  /\ SubSeq(e, 1, n) \in Seq(Event) /\ Len(SubSeq(e, 1, n)) = n
         /\ \A i \in 1..n : SubSeq(e, 1, n)[i] = e[i]
         /\ SubSeq(e, n + 1, Len(e)) \in Seq(Event)
         /\ Len(SubSeq(e, n + 1, Len(e))) = Len(e) - n
         /\ SubSeq(e, 1, n) \o SubSeq(e, n + 1, Len(e)) = e
<1>1. Len(e) \in Nat /\ \A i \in 1..Len(e) : e[i] \in Event
  BY ElementOfSeq
<1>2. /\ SubSeq(e, 1, n) \in Seq(Event) /\ Len(SubSeq(e, 1, n)) = n
      /\ \A i \in 1..n : SubSeq(e, 1, n)[i] = e[i]
  <2>1. \A i \in 1..n : e[i] \in Event
    BY <1>1
  <2>2. /\ SubSeq(e, 1, n) \in Seq(Event)
        /\ Len(SubSeq(e, 1, n)) = (IF 1 <= n THEN n - 1 + 1 ELSE 0)
        /\ \A i \in 1..(n - 1 + 1) : SubSeq(e, 1, n)[i] = e[1 + i - 1]
    BY <1>1, <2>1, SubSeqProperties
  <2> QED
    BY <1>1, <2>2
<1>3. /\ SubSeq(e, n + 1, Len(e)) \in Seq(Event)
      /\ Len(SubSeq(e, n + 1, Len(e))) = Len(e) - n
      /\ \A i \in 1..(Len(e) - n) : SubSeq(e, n + 1, Len(e))[i] = e[n + i]
  <2>1. \A i \in (n + 1)..Len(e) : e[i] \in Event
    BY <1>1
  <2>2. /\ SubSeq(e, n + 1, Len(e)) \in Seq(Event)
        /\ Len(SubSeq(e, n + 1, Len(e))) =
              (IF n + 1 <= Len(e) THEN Len(e) - (n + 1) + 1 ELSE 0)
        /\ \A i \in 1..(Len(e) - (n + 1) + 1) :
              SubSeq(e, n + 1, Len(e))[i] = e[(n + 1) + i - 1]
    BY <1>1, <2>1, SubSeqProperties
  <2> QED
    BY <1>1, <2>2
<1> DEFINE a == SubSeq(e, 1, n)
           b == SubSeq(e, n + 1, Len(e))
           c == a \o b
<1> HIDE DEF a, b, c
<1>4. /\ a \in Seq(Event) /\ Len(a) = n /\ \A i \in 1..n : a[i] = e[i]
      /\ b \in Seq(Event) /\ Len(b) = Len(e) - n
      /\ \A i \in 1..(Len(e) - n) : b[i] = e[n + i]
  BY <1>2, <1>3 DEF a, b
<1>5. /\ c \in Seq(Event) /\ Len(c) = Len(a) + Len(b)
      /\ \A i \in 1..(Len(a) + Len(b)) :
            c[i] = IF i <= Len(a) THEN a[i] ELSE b[i - Len(a)]
  BY <1>4, ConcatProperties DEF c
<1>6. ASSUME NEW i \in 1..Len(e) PROVE c[i] = e[i]
  <2>0. i \in Nat /\ n \in Nat
    BY <1>1
  <2>1. CASE i <= n
    BY <1>1, <1>4, <1>5, <2>1
  <2>2. CASE i > n
    <3>1. i - n \in 1..(Len(e) - n)
      BY <1>1, <2>2
    <3>2. c[i] = b[i - n]
      BY <1>1, <1>4, <1>5, <2>2
    <3>3. b[i - n] = e[n + (i - n)]
      BY <1>4, <3>1
    <3> QED
      BY <1>1, <3>2, <3>3
  <2> QED
    BY <2>0, <2>1, <2>2
<1>7. Len(c) = Len(e)
  BY <1>1, <1>4, <1>5
<1>8. c = e
  BY <1>5, <1>6, <1>7, SeqEqual
<1> QED
  BY <1>2, <1>3, <1>8 DEF a, b, c

\* A prefix depends on the elements in it only.
LEMMA SamePrefix ==
  ASSUME NEW e \in Seq(Event), NEW f \in Seq(Event), NEW n \in 0..Len(e), n <= Len(f),
         \A i \in 1..n : e[i] = f[i]
  PROVE  SubSeq(e, 1, n) = SubSeq(f, 1, n)
<1>1. Len(e) \in Nat /\ Len(f) \in Nat /\ n \in 0..Len(f)
  BY LenProperties
<1>2. /\ SubSeq(e, 1, n) \in Seq(Event) /\ Len(SubSeq(e, 1, n)) = n
      /\ \A i \in 1..n : SubSeq(e, 1, n)[i] = e[i]
      /\ SubSeq(f, 1, n) \in Seq(Event) /\ Len(SubSeq(f, 1, n)) = n
      /\ \A i \in 1..n : SubSeq(f, 1, n)[i] = f[i]
  BY <1>1, CutAndJoined
<1> QED
  BY <1>2, SeqEqual

\* A command that is staged adds its events once, after all others.
NewEvents(e, t, n) == [i \in 1..n |-> [tx |-> t, seq |-> Len(e) + i]]

LEMMA StagedOnce ==
  ASSUME NEW e \in Seq(Event), NEW txs \in SUBSET Tx, Exact(e, txs),
         NEW t \in Tx \ txs, NEW n \in 1..MaxTail
  PROVE  LET f == e \o NewEvents(e, t, n) IN
         /\ f \in Seq(Event)
         /\ Exact(f, txs \union {t})
         /\ Len(e) <= Len(f)
         /\ \A i \in 1..Len(e) : f[i] = e[i]
<1> DEFINE d == NewEvents(e, t, n)
           f == e \o d
<1>1. Len(e) \in Nat /\ n \in Nat /\ n > 0
  BY BoundAssumption
<1>2. \A i \in 1..n : [tx |-> t, seq |-> Len(e) + i] \in Event
  BY <1>1 DEF Event
<1>3. d \in Seq(Event) /\ Len(d) = n /\ \A i \in 1..n : d[i] = [tx |-> t, seq |-> Len(e) + i]
  BY <1>1, <1>2 DEF NewEvents
<1> HIDE DEF d
<1>4. /\ f \in Seq(Event) /\ Len(f) = Len(e) + n
      /\ \A i \in 1..(Len(e) + n) : f[i] = IF i <= Len(e) THEN e[i] ELSE d[i - Len(e)]
  BY <1>3, ConcatProperties
<1> HIDE DEF f
<1>5. \A i \in 1..Len(e) : f[i] = e[i]
  BY <1>1, <1>4
<1>6. ASSUME NEW i \in (Len(e) + 1)..(Len(e) + n) PROVE f[i].tx = t /\ f[i].seq = i
  <2>1. i - Len(e) \in 1..n /\ f[i] = d[i - Len(e)]
    BY <1>1, <1>4
  <2>2. f[i] = [tx |-> t, seq |-> Len(e) + (i - Len(e))]
    BY <1>3, <2>1
  <2> QED
    BY <1>1, <2>2
<1>7. \A i \in 1..Len(f) : i \in 1..Len(e) \/ i \in (Len(e) + 1)..(Len(e) + n)
  BY <1>1, <1>4
<1>8. /\ {e[i].tx : i \in 1..Len(e)} = txs
      /\ \A i \in 1..Len(e) : e[i].tx \in txs /\ e[i].seq = i /\ e[i].tx # t
  BY DEF Exact
<1>9. {f[i].tx : i \in 1..Len(f)} = txs \union {t}
  <2>1. \A i \in 1..Len(f) : f[i].tx \in txs \union {t}
    BY <1>5, <1>6, <1>7, <1>8
  <2>2. ASSUME NEW x \in txs PROVE \E i \in 1..Len(f) : f[i].tx = x
    <3>1. PICK i \in 1..Len(e) : e[i].tx = x
      BY <1>8
    <3>2. i \in 1..Len(f)
      BY <1>1, <1>4
    <3> QED
      BY <1>5, <3>1, <3>2
  <2>3. \E i \in 1..Len(f) : f[i].tx = t
    <3>1. Len(e) + 1 \in (Len(e) + 1)..(Len(e) + n) /\ Len(e) + 1 \in 1..Len(f)
      BY <1>1, <1>4
    <3> QED
      BY <1>6, <3>1
  <2> QED
    BY <2>1, <2>2, <2>3
<1>10. \A i \in 1..Len(f) : f[i].seq = i
  BY <1>5, <1>6, <1>7, <1>8
<1>11. ASSUME NEW i \in 1..Len(f), NEW j \in 1..Len(f), i < j, f[i].tx = f[j].tx,
              NEW k \in i..j
       PROVE  f[k].tx = f[i].tx
  <2>1. k \in 1..Len(f)
    BY <1>1, <1>4
  <2>2. CASE i \in 1..Len(e)
    <3>1. f[i].tx # t
      BY <1>5, <1>8, <2>2
    <3>2. j \in 1..Len(e)
      BY <1>6, <1>7, <1>11, <3>1
    <3>3. k \in 1..Len(e)
      BY <1>1, <3>2, <2>1
    <3>4. e[k].tx = e[i].tx
      BY <1>5, <1>11, <2>2, <3>2 DEF Exact
    <3> QED
      BY <1>5, <2>2, <3>3, <3>4
  <2>3. CASE i \notin 1..Len(e)
    <3>1. i \in (Len(e) + 1)..(Len(e) + n)
      BY <1>7, <2>3
    <3>2. k \in (Len(e) + 1)..(Len(e) + n)
      BY <1>1, <1>4, <3>1, <2>1
    <3> QED
      BY <1>6, <3>1, <3>2
  <2> QED
    BY <2>2, <2>3
<1>12. Exact(f, txs \union {t})
  BY <1>9, <1>10, <1>11 DEF Exact
<1>13. Len(e) <= Len(f)
  BY <1>1, <1>4
<1> QED
  BY <1>4, <1>5, <1>12, <1>13 DEF f, d

-----------------------------------------------------------------------------
(* Only the writing of a marker changes what is committed. *)

\* What CapsuleInv says of the marker and the log together.
LEMMA MarkerTyped ==
  ASSUME CapsuleInv, Marked
  PROVE  /\ log \in Seq(Event) /\ marker.tail \in Seq(Event) /\ marker.base \in 0..Len(log)
         /\ marker.snap \in Snapshot /\ Len(log) \in Nat /\ Len(marker.tail) \in Nat
         /\ Len(log) <= marker.base + Len(marker.tail)
         /\ \A i \in 1..Len(marker.tail) :
               marker.base + i <= Len(log) => log[marker.base + i] = marker.tail[i]
         /\ Latest = marker.snap
BY DEF CapsuleInv, TypeOK, Marker, DiskInv, RecoveryNeverConflicts, LogReadable, TailMatches,
       Latest

\* The newest log is a sequence of events, as long as its cursor says.
LEMMA LatestTyped ==
  ASSUME CapsuleInv
  PROVE  LatestLog \in Seq(Event) /\ Len(LatestLog) = Latest.cursor /\ Latest \in Snapshot
<1>1. CASE Marked
  <2>1. /\ SubSeq(log, 1, marker.base) \in Seq(Event)
        /\ Len(SubSeq(log, 1, marker.base)) = marker.base
    BY <1>1, MarkerTyped, CutAndJoined
  <2>2. /\ LatestLog \in Seq(Event)
        /\ Len(LatestLog) = marker.base + Len(marker.tail)
    BY <1>1, <2>1, MarkerTyped, ConcatProperties DEF LatestLog
  <2> QED
    BY <1>1, <2>2, MarkerTyped DEF CapsuleInv, DiskInv, RecoveryNeverConflicts
<1>2. CASE ~Marked
  <2>1. NDocs \in Docs
    BY DocsAssumption DEF Docs
  <2> QED
    BY <1>2, <2>1 DEF LatestLog, Latest, StateDoc, CapsuleInv, TypeOK, DiskInv, CleanCapsuleOpens
<1> QED
  BY <1>1, <1>2

\* What a commit has written so far can be appended to, or cut back to what was there
\* before, without a change of the newest log.
LEMMA PrefixStays ==
  ASSUME CapsuleInv, Marked, marker' = marker, log' \in Seq(Event),
         marker.base <= Len(log'), \A i \in 1..marker.base : log'[i] = log[i]
  PROVE  LatestLog' = LatestLog
<1>1. Len(log') \in Nat /\ marker.base \in 0..Len(log)
  BY MarkerTyped
<1>2. SubSeq(log', 1, marker.base) = SubSeq(log, 1, marker.base)
  BY <1>1, MarkerTyped, SamePrefix
<1> QED
  BY <1>2 DEF LatestLog, Marked

\* A line of the tail is appended.
LEMMA LineStays ==
  ASSUME CapsuleInv, Marked, Pending, marker' = marker, log' = Append(log, NextLine)
  PROVE  LatestLog' = LatestLog
<1>1. NextLine \in Event
  <2>1. Len(log) - marker.base + 1 \in 1..Len(marker.tail)
    BY MarkerTyped DEF Pending
  <2> QED
    BY <2>1, MarkerTyped, ElementOfSeq DEF NextLine
<1>2. /\ log' \in Seq(Event) /\ Len(log') = Len(log) + 1
      /\ \A i \in 1..Len(log) : log'[i] = log[i]
  BY <1>1, MarkerTyped, AppendProperties
<1> QED
  BY <1>2, MarkerTyped, PrefixStays

\* A log is cut back.
LEMMA CutStays ==
  ASSUME CapsuleInv, Marked, marker' = marker, log' = SubSeq(log, 1, marker.base)
  PROVE  LatestLog' = LatestLog
<1>1. /\ log' \in Seq(Event) /\ Len(log') = marker.base
      /\ \A i \in 1..marker.base : log'[i] = log[i]
  BY MarkerTyped, CutAndJoined
<1> QED
  BY <1>1, MarkerTyped, PrefixStays

\* A marker is removed when the log has its whole tail.
LEMMA WholeLog ==
  ASSUME CapsuleInv, Marked, ~Pending
  PROVE  LatestLog = log
<1> DEFINE c == SubSeq(log, 1, marker.base)
           d == c \o marker.tail
<1>1. Len(log) = marker.base + Len(marker.tail)
  BY MarkerTyped DEF Pending
<1>2. /\ c \in Seq(Event) /\ Len(c) = marker.base
      /\ \A i \in 1..marker.base : c[i] = log[i]
  BY MarkerTyped, CutAndJoined
<1> HIDE DEF c
<1>3. /\ d \in Seq(Event) /\ Len(d) = Len(c) + Len(marker.tail)
      /\ \A i \in 1..(Len(c) + Len(marker.tail)) :
            d[i] = IF i <= Len(c) THEN c[i] ELSE marker.tail[i - Len(c)]
  BY <1>2, MarkerTyped, ConcatProperties
<1> HIDE DEF d
<1>4. ASSUME NEW i \in 1..Len(d) PROVE d[i] = log[i]
  <2>1. i \in Nat /\ marker.base \in Nat /\ i <= Len(log) /\ i >= 1
    BY <1>1, <1>2, <1>3, MarkerTyped
  <2>2. CASE i <= marker.base
    BY <1>1, <1>2, <1>3, <2>1, <2>2
  <2>3. CASE i > marker.base
    <3>1. i - marker.base \in 1..Len(marker.tail)
      BY <1>1, <2>1, <2>3, MarkerTyped
    <3>2. d[i] = marker.tail[i - marker.base]
      BY <1>2, <1>3, <2>1, <2>3
    <3>3. marker.base + (i - marker.base) = i
      BY <2>1
    <3>4. log[marker.base + (i - marker.base)] = marker.tail[i - marker.base]
      BY <2>1, <3>1, <3>3, MarkerTyped
    <3> QED
      BY <3>2, <3>3, <3>4
  <2> QED
    BY <2>1, <2>2, <2>3
<1>5. Len(d) = Len(log)
  BY <1>1, <1>2, <1>3
<1>6. d = log
  BY <1>3, <1>4, <1>5, MarkerTyped, SeqEqual
<1> QED
  BY <1>6 DEF LatestLog, c, d

\* The steps of recovery, by what they do to the files.
LEMMA RecoverySteps ==
  ASSUME CapsuleInv, NEW s \in Session, Recover(s)
  PROVE  /\ InCall(s) /\ UNCHANGED <<op, held, agg, acked>>
         /\ pc' = [pc EXCEPT ![s] = pc'[s]] /\ InCall(s)'
         /\ \A r \in Session \ {s} : InCall(r)' = InCall(r)
         /\ Latest' = Latest /\ LatestLog' = LatestLog
         /\ \/ docs' = docs
            \/ /\ Marked /\ docs' = [docs EXCEPT ![idx[s]] = marker.snap]
               /\ WriteDoc(s)
<1> USE DEF CapsuleInv
<1>0. pc \in [Session -> Places] /\ docs \in [Docs -> Snapshot] /\ idx[s] \in Docs
  BY DEF TypeOK
<1>1. ASSUME NEW v \in Places \ {"closed", "open"}, InCall(s), Goto(s, v)
      PROVE  /\ pc' = [pc EXCEPT ![s] = pc'[s]] /\ InCall(s)'
             /\ \A r \in Session \ {s} : InCall(r)' = InCall(r)
  BY <1>0, <1>1 DEF Goto, InCall
<1>2. CASE CheckMarker(s)
  <2>1. /\ InCall(s) /\ UNCHANGED <<docs, log, torn, marker, op, held, agg, acked>>
        /\ Goto(s, "docs") \/ Goto(s, "return")
    BY <1>2 DEF CheckMarker, InCall, disk
  <2>2. {"docs", "return"} \subseteq Places \ {"closed", "open"}
    BY DEF Places
  <2> QED
    BY <1>1, <2>1, <2>2 DEF Latest, LatestLog, Marked, StateDoc
<1>3. CASE WriteDoc(s)
  <2>1. /\ InCall(s) /\ UNCHANGED <<log, marker, op, held, agg, acked>>
        /\ docs' = [docs EXCEPT ![idx[s]] = marker.snap]
        /\ Goto(s, "events") \/ pc' = pc
        /\ Marked
    BY <1>3 DEF WriteDoc, InCall, ProgressInv, ProgressOf
  <2>2. "events" \in Places \ {"closed", "open"}
    BY DEF Places
  <2>3. /\ pc' = [pc EXCEPT ![s] = pc'[s]] /\ InCall(s)'
        /\ \A r \in Session \ {s} : InCall(r)' = InCall(r)
    BY <1>0, <1>1, <2>1, <2>2 DEF InCall
  <2>4. Latest' = Latest /\ LatestLog' = LatestLog
    BY <2>1 DEF Latest, LatestLog, Marked
  <2> QED
    BY <1>3, <2>1, <2>3, <2>4
<1>4. CASE ReadEvents(s)
  <2>1. /\ InCall(s) /\ UNCHANGED <<docs, marker, op, held, agg, acked>>
        /\ Goto(s, "tail") /\ Marked
        /\ log' = log \/ log' = SubSeq(log, 1, marker.base)
    BY <1>4 DEF ReadEvents, InCall, ProgressInv, ProgressOf
  <2>2. "tail" \in Places \ {"closed", "open"}
    BY DEF Places
  <2>3. Latest' = Latest /\ (log' = log => LatestLog' = LatestLog)
    BY <2>1 DEF Latest, LatestLog, Marked, StateDoc
  <2>4. LatestLog' = LatestLog
    BY <2>1, <2>3, CutStays
  <2> QED
    BY <1>1, <2>1, <2>2, <2>3, <2>4
<1>5. CASE AppendStart(s)
  <2>1. /\ InCall(s) /\ UNCHANGED <<docs, log, marker, op, held, agg, acked>>
        /\ Goto(s, "torn") \/ Goto(s, "unlink")
    BY <1>5 DEF AppendStart, InCall
  <2>2. {"torn", "unlink"} \subseteq Places \ {"closed", "open"}
    BY DEF Places
  <2> QED
    BY <1>1, <2>1, <2>2 DEF Latest, LatestLog, Marked, StateDoc
<1>6. CASE AppendEnd(s)
  <2>1. /\ InCall(s) /\ UNCHANGED <<docs, marker, op, held, agg, acked>>
        /\ Goto(s, "tail") /\ Marked /\ Pending /\ log' = Append(log, NextLine)
    BY <1>6 DEF AppendEnd, InCall, ProgressInv, ProgressOf
  <2>2. "tail" \in Places \ {"closed", "open"}
    BY DEF Places
  <2>3. Latest' = Latest /\ LatestLog' = LatestLog
    BY <2>1, LineStays DEF Latest, Marked, StateDoc
  <2> QED
    BY <1>1, <2>1, <2>2, <2>3
<1>7. CASE Unlink(s)
  <2>1. /\ InCall(s) /\ UNCHANGED <<docs, log, op, held, agg, acked>>
        /\ Goto(s, "return") /\ Marked /\ ~Pending /\ marker' = NoMarker
        /\ \A i \in Docs : docs[i] = marker.snap
    BY <1>7 DEF Unlink, InCall, ProgressInv, ProgressOf
  <2>2. "return" \in Places \ {"closed", "open"}
    BY DEF Places
  <2>3. ~Marked' /\ NDocs \in Docs
    BY <2>1, DocsAssumption DEF Marked, NoMarker, Absent, Docs
  <2>4. Latest' = Latest
    BY <2>1, <2>3 DEF Latest, StateDoc
  <2>5. LatestLog' = LatestLog
    BY <2>1, <2>3, WholeLog DEF LatestLog
  <2> QED
    BY <1>1, <2>1, <2>2, <2>4, <2>5
<1> QED
  BY <1>2, <1>3, <1>4, <1>5, <1>6, <1>7 DEF Recover

\* Once task.yaml is there, it stays.
LEMMA StaysDiscoverable ==
  ASSUME CapsuleInv, Discoverable,
         docs' = docs \/ (\E i \in Docs : Marked /\ docs' = [docs EXCEPT ![i] = marker.snap])
  PROVE  Discoverable'
<1>1. TaskDoc \in Docs /\ docs \in [Docs -> Snapshot]
  BY DocsAssumption DEF Docs, CapsuleInv, TypeOK
<1> QED
  BY <1>1 DEF Discoverable, Marked

\* Sessions that end leave the newest log, though a line may be appended by a process
\* as it dies.
LEMMA EndSteps ==
  ASSUME CapsuleInv, NEW S \in SUBSET Session, Forget(S), UNCHANGED <<docs, marker>>,
         \/ log' = log
         \/ Marked /\ Pending /\ log' = Append(log, NextLine)
  PROVE  /\ Latest' = Latest /\ LatestLog' = LatestLog
         /\ Discoverable' = Discoverable
         /\ acked' = acked
         /\ \A r \in Session :
               /\ r \in S => agg'[r] = NoAgg /\ op'[r] = "none" /\ ~InCall(r)'
               /\ r \notin S => agg'[r] = agg[r] /\ op'[r] = op[r] /\ InCall(r)' = InCall(r)
<1>1. Latest' = Latest /\ Discoverable' = Discoverable /\ (log' = log => LatestLog' = LatestLog)
  BY DEF Latest, LatestLog, Marked, StateDoc, Discoverable
<1>2. LatestLog' = LatestLog
  BY <1>1, LineStays
<1> QED
  BY <1>1, <1>2 DEF Forget, InCall

\* Which these are.
LEMMA Endings ==
  ASSUME CapsuleInv, \/ \E s \in Session : Close(s) \/ Abort(s)
                     \/ \E p \in Process : Crash(p)
  PROVE  \E S \in SUBSET Session :
            /\ Forget(S) /\ UNCHANGED <<docs, marker>>
            /\ \/ log' = log
               \/ Marked /\ Pending /\ log' = Append(log, NextLine)
<1>1. CASE \E s \in Session : Close(s) \/ Abort(s)
  <2>1. PICK s \in Session : Close(s) \/ Abort(s)
    BY <1>1
  <2>2. {s} \in SUBSET Session /\ Forget({s}) /\ UNCHANGED <<docs, log, marker>>
    BY <2>1 DEF Close, Abort, disk
  <2> QED
    BY <2>2
<1>2. CASE \E p \in Process : Crash(p)
  <2>1. PICK p \in Process : Crash(p)
    BY <1>2
  <2> DEFINE dead == {s \in Session : ProcessOf[ThreadOf[s]] = p /\ pc[s] # "closed"}
  <2>2. /\ dead \in SUBSET Session /\ Forget(dead) /\ UNCHANGED <<docs, marker>>
        /\ \/ log' = log
           \/ (\E s \in dead : pc[s] = "torn") /\ log' = Append(log, NextLine)
    BY <2>1 DEF Crash
  <2>3. (\E s \in dead : pc[s] = "torn") => Marked /\ Pending
    BY DEF CapsuleInv, ProgressInv, ProgressOf
  <2> QED
    BY <2>2, <2>3
<1> QED
  BY <1>1, <1>2

-----------------------------------------------------------------------------
(* The invariant is kept. *)

\* Calls and their ends change the one session.
LEMMA OneSession ==
  ASSUME CapsuleInv, NEW s \in Session, Call(s) \/ Finish(s)
  PROVE  /\ docs' = docs /\ log' = log
         /\ \A r \in Session \ {s} :
               agg'[r] = agg[r] /\ op'[r] = op[r] /\ InCall(r)' = InCall(r)
         /\ (\A r \in Session : ~WriteMarker(r)) =>
               /\ marker' = marker /\ Latest' = Latest /\ LatestLog' = LatestLog
               /\ Discoverable' = Discoverable
<1> USE DEF CapsuleInv
<1>1. /\ docs' = docs /\ log' = log
      /\ marker' = marker \/ WriteMarker(s)
      /\ \E x \in Places : pc' = [pc EXCEPT ![s] = x]
      /\ \E x : op' = [op EXCEPT ![s] = x]
      /\ \E x : agg' = [agg EXCEPT ![s] = x]
  <2>0. /\ op = [op EXCEPT ![s] = op[s]] /\ agg = [agg EXCEPT ![s] = agg[s]]
        /\ pc = [pc EXCEPT ![s] = pc[s]] /\ pc[s] \in Places
    BY DEF TypeOK
  <2>1. {"open", "check", "return"} \subseteq Places
    BY DEF Places
  <2>2. CASE Create(s)
    BY <2>0, <2>1, <2>2, Zenon DEF Create, Goto
  <2>3. CASE BeginLoad(s, "read") \/ BeginLoad(s, "update") \/ BeginStage(s) \/ BeginCommit(s)
    <3>1. PICK call : Enter(s, call)
      BY <2>3 DEF BeginLoad, BeginStage, BeginCommit
    <3> QED
      BY <2>0, <2>1, <3>1, Zenon DEF Enter, Goto, disk
  <2>4. CASE BeginCommitNew(s)
    BY <2>0, <2>1, <2>4, Zenon DEF BeginCommitNew, Goto, disk
  <2>5. CASE FinishLoad(s)
    BY <2>0, <2>1, <2>5, Zenon DEF FinishLoad, Goto, disk
  <2>6. CASE FinishExtension(s)
    BY <2>0, <2>1, <2>6, Zenon DEF FinishExtension, Goto, disk
  <2>7. CASE WriteMarker(s)
    BY <2>0, <2>1, <2>7, Zenon DEF WriteMarker, Goto
  <2>8. CASE FinishCommit(s)
    <3>1. PICK x : agg' = [agg EXCEPT ![s] = x]
      BY <2>8 DEF FinishCommit
    <3> QED
      BY <2>0, <2>1, <2>8, <3>1, Zenon DEF FinishCommit, Goto, disk
  <2>9. ASSUME NEW t \in Tx, NEW n \in 1..MaxTail, FinishStage(s, t, n) \/ StageNew(s, t, n)
        PROVE  /\ docs' = docs /\ log' = log /\ marker' = marker
               /\ \E x \in Places : pc' = [pc EXCEPT ![s] = x]
               /\ \E x : op' = [op EXCEPT ![s] = x]
               /\ \E x : agg' = [agg EXCEPT ![s] = x]
    BY <2>0, <2>1, <2>9, Zenon DEF FinishStage, StageNew, Goto, disk, control
  <2> QED
    BY <2>2, <2>3, <2>4, <2>5, <2>6, <2>7, <2>8, <2>9 DEF Call, Finish
<1>2. \A r \in Session \ {s} : agg'[r] = agg[r] /\ op'[r] = op[r] /\ InCall(r)' = InCall(r)
  BY <1>1 DEF TypeOK, InCall
<1> QED
  BY <1>1, <1>2 DEF Latest, LatestLog, Marked, StateDoc, Discoverable

\* The commit point: the marker holds the session's whole log, and nobody else's.
LEMMA CommitPoint ==
  ASSUME CapsuleInv, LogInv, NEW s \in Session, WriteMarker(s)
  PROVE  /\ InCall(s) /\ InCall(s)' /\ op[s] = "commit" /\ op' = [op EXCEPT ![s] = "apply"]
         /\ UNCHANGED <<docs, log, agg, acked>>
         /\ agg[s].cached /\ agg[s].gen = Latest.gen
         /\ ~Marked /\ Marked'
         /\ Latest' = [gen |-> agg[s].gen + 1, txs |-> agg[s].txs,
                       cursor |-> Len(agg[s].events)]
         /\ LatestLog' = agg[s].events
         /\ \A r \in Session \ {s} : op[r] # "apply"
<1> USE DEF CapsuleInv
<1>1. /\ pc[s] = "return" /\ op[s] = "commit" /\ GenerationMatches(s)
      /\ marker' = NewMarker(s) /\ op' = [op EXCEPT ![s] = "apply"] /\ Goto(s, "check")
      /\ UNCHANGED <<docs, log, agg, acked>>
  BY DEF WriteMarker, Returning
<1>2. InCall(s) /\ InCall(s)' /\ ~Marked
  BY <1>1 DEF InCall, Goto, TypeOK, ProgressInv, ProgressOf
<1>3. agg[s].cached /\ agg[s] \in Aggregate
  BY <1>1, <1>2 DEF AggInv, AggOf, TypeOK
<1>4. agg[s].gen = Latest.gen
  <2>1. CASE agg[s].isNew
    <3>1. agg[s].gen = 0 /\ Untouched
      BY <1>1, <2>1 DEF NewInv
    <3>2. StateDoc.gen = 0
      BY <3>1, DocsAssumption DEF Untouched, StateDoc, Docs
    <3> QED
      BY <1>2, <3>1, <3>2 DEF Latest
  <2>2. CASE ~agg[s].isNew
    BY <1>1, <1>2, <2>2 DEF GenerationMatches, Latest
  <2> QED
    BY <2>1, <2>2
<1>5. /\ agg[s].persisted = Latest.cursor
      /\ SubSeq(agg[s].events, 1, agg[s].persisted) = LatestLog
      /\ agg[s].persisted <= Len(agg[s].events)
  BY <1>1, <1>3, <1>4 DEF AggInv, AggOf, LogInv, LogOf
<1>6. /\ agg[s].events \in Seq(Event) /\ agg[s].gen \in Nat /\ agg[s].txs \in SUBSET Tx
      /\ agg[s].persisted \in 0..Len(agg[s].events)
  BY <1>3, <1>5 DEF Aggregate
<1>7. /\ marker'.snap = [gen |-> agg[s].gen + 1, txs |-> agg[s].txs,
                         cursor |-> Len(agg[s].events)]
      /\ marker'.base = agg[s].persisted
      /\ marker'.tail = SubSeq(agg[s].events, agg[s].persisted + 1, Len(agg[s].events))
  BY <1>1 DEF NewMarker
<1>8. Marked'
  BY <1>6, <1>7 DEF Marked
<1>9. Latest' = marker'.snap
  BY <1>8 DEF Latest
<1>10. LatestLog' = agg[s].events
  <2>1. log = LatestLog /\ log \in Seq(Event) /\ Len(log) = agg[s].persisted
    BY <1>2, <1>5, LatestTyped DEF LatestLog
  <2>2. SubSeq(log, 1, agg[s].persisted) = log
    BY <2>1, SubSeqFull
  <2>3. LatestLog' = SubSeq(log, 1, agg[s].persisted) \o marker'.tail
    BY <1>1, <1>7, <1>8 DEF LatestLog
  <2>4. LatestLog' = SubSeq(agg[s].events, 1, agg[s].persisted) \o marker'.tail
    BY <1>5, <2>1, <2>2, <2>3
  <2> DEFINE e == agg[s].events
             n == agg[s].persisted
  <2>5. e \in Seq(Event) /\ n \in 0..Len(e)
    BY <1>6
  <2>6. SubSeq(e, 1, n) \o SubSeq(e, n + 1, Len(e)) = e
    <3> HIDE DEF e, n
    <3> QED
      BY <2>5, CutAndJoined
  <2> QED
    BY <1>7, <2>4, <2>6
<1>11. \A r \in Session \ {s} : op[r] # "apply"
  BY <1>2 DEF AggInv, AggOf, LockInv
<1> QED
  BY <1>1, <1>2, <1>3, <1>4, <1>7, <1>8, <1>9, <1>10, <1>11

\* The events staged in a session's copy.
LEMMA StagedCopy ==
  ASSUME CapsuleInv, LogInv, NEW s \in Session, NEW t \in Tx, NEW n \in 1..MaxTail,
         agg[s].cached, op[s] # "apply", agg' = [agg EXCEPT ![s] = Staged(@, t, n)]
  PROVE  /\ agg'[s] = Staged(agg[s], t, n)
         /\ agg'[s].cached = agg[s].cached /\ agg'[s].isNew = agg[s].isNew
         /\ agg'[s].gen = agg[s].gen /\ agg'[s].persisted = agg[s].persisted
         /\ t \in agg[s].txs => agg'[s] = agg[s]
         /\ t \notin agg[s].txs =>
               /\ agg'[s].txs = agg[s].txs \union {t}
               /\ agg'[s].events = agg[s].events \o NewEvents(agg[s].events, t, n)
         /\ Exact(agg'[s].events, agg'[s].txs)
         /\ SubSeq(agg'[s].events, 1, agg[s].persisted)
              = SubSeq(agg[s].events, 1, agg[s].persisted)
<1> DEFINE a == agg[s]
<1>1. a \in Aggregate /\ agg'[s] = Staged(a, t, n) /\ Exact(a.events, a.txs)
      /\ a.persisted <= Len(a.events)
  BY DEF CapsuleInv, TypeOK, LogInv, LogOf, AggInv, AggOf
<1>2. /\ a.events \in Seq(Event) /\ a.txs \in SUBSET Tx /\ a.persisted \in 0..Len(a.events)
  BY <1>1 DEF Aggregate
<1>3. CASE t \in a.txs
  <2>1. agg'[s] = a
    BY <1>1, <1>3 DEF Staged
  <2> QED
    BY <1>1, <1>3, <2>1
<1>4. CASE t \notin a.txs
  <2>1. Staged(a, t, n) =
          [a EXCEPT !.dirty = TRUE, !.txs = @ \union {t},
                    !.events = @ \o NewEvents(a.events, t, n)]
    BY <1>4 DEF Staged, NewEvents
  <2>2. /\ agg'[s].cached = a.cached /\ agg'[s].isNew = a.isNew
        /\ agg'[s].gen = a.gen /\ agg'[s].persisted = a.persisted
        /\ agg'[s].txs = a.txs \union {t}
        /\ agg'[s].events = a.events \o NewEvents(a.events, t, n)
    <3> DEFINE txs == a.txs \union {t}
               events == a.events \o NewEvents(a.events, t, n)
               b == [a EXCEPT !.dirty = TRUE, !.txs = txs, !.events = events]
    <3>1. agg'[s] = b
      BY <1>1, <2>1
    <3> HIDE DEF txs, events
    <3>2. /\ b.cached = a.cached /\ b.isNew = a.isNew /\ b.gen = a.gen
          /\ b.persisted = a.persisted /\ b.txs = txs /\ b.events = events
      BY <1>1 DEF Aggregate
    <3> QED
      BY <3>1, <3>2 DEF txs, events
  <2>3. /\ agg'[s].events \in Seq(Event) /\ Exact(agg'[s].events, agg'[s].txs)
        /\ Len(a.events) <= Len(agg'[s].events)
        /\ \A i \in 1..Len(a.events) : agg'[s].events[i] = a.events[i]
    <3> DEFINE e == a.events
               f == e \o NewEvents(e, t, n)
    <3>1. /\ e \in Seq(Event) /\ Exact(e, a.txs) /\ a.txs \in SUBSET Tx
          /\ t \in Tx \ a.txs
      BY <1>1, <1>2, <1>4
    <3> HIDE DEF a
    <3>2. /\ f \in Seq(Event) /\ Exact(f, a.txs \union {t}) /\ Len(e) <= Len(f)
          /\ \A i \in 1..Len(e) : f[i] = e[i]
      <4> HIDE DEF e
      <4> QED
        BY <3>1, StagedOnce
    <3> QED
      BY <2>2, <3>2
  <2>4. a.persisted <= Len(agg'[s].events) /\ \A i \in 1..a.persisted :
            a.events[i] = agg'[s].events[i]
    BY <1>2, <2>3
  <2>5. SubSeq(a.events, 1, a.persisted) = SubSeq(agg'[s].events, 1, a.persisted)
    BY <1>2, <2>3, <2>4, SamePrefix
  <2> QED
    BY <1>1, <1>4, <2>2, <2>3, <2>5
<1> QED
  BY <1>3, <1>4

\* A session that a step leaves alone, while the commit point stays.
LEMMA LogOfKept ==
  ASSUME NEW r, LogOf(r), agg'[r] = agg[r], op'[r] = op[r], InCall(r)' => InCall(r),
         Latest' = Latest, LatestLog' = LatestLog, Discoverable => Discoverable'
  PROVE  LogOf(r)'
BY DEF LogOf

\* A call or its end keeps what is said of the session, when it writes no marker.
LEMMA CallKeepsLog ==
  ASSUME CapsuleInv, LogInv, NEW s \in Session, Call(s) \/ Finish(s),
         \A r \in Session : ~WriteMarker(r)
  PROVE  LogOf(s)'
<1> USE DEF CapsuleInv
<1>1. /\ LogOf(s) /\ AggOf(s) /\ Latest' = Latest /\ LatestLog' = LatestLog
      /\ Discoverable' = Discoverable
      /\ agg \in [Session -> Aggregate] /\ op \in [Session -> Calls] /\ pc \in [Session -> Places]
  BY OneSession DEF LogInv, AggInv, TypeOK
<1>2. CASE Create(s)
  <2>1. /\ ~reserved /\ op' = op /\ pc[s] = "closed" /\ ~InCall(s)' /\ op[s] # "apply"
        /\ agg'[s].events = <<>> /\ agg'[s].txs = {} /\ agg'[s].persisted = 0
    BY <1>1, <1>2 DEF Create, Goto, InCall, NoAgg, AggOf
  <2>2. ~Marked /\ \A i \in Docs : docs[i] = Absent
    BY <2>1 DEF NewInv, Untouched, DiskInv
  <2>3. StateDoc.cursor = 0
    BY <2>2, DocsAssumption DEF StateDoc, Docs, Absent
  <2>4. LatestLog = log /\ Len(log) = 0 /\ log \in Seq(Event)
    BY <2>2, <2>3 DEF LatestLog, DiskInv, CleanCapsuleOpens, TypeOK
  <2>5. LatestLog = <<>> /\ SubSeq(<<>>, 1, 0) = <<>>
    BY <2>4, EmptySeq
  <2>6. Exact(<<>>, {})
    BY DEF Exact
  <2> QED
    BY <1>1, <2>1, <2>5, <2>6 DEF LogOf
<1>3. CASE BeginLoad(s, "read") \/ BeginLoad(s, "update")
  <2>1. /\ Discoverable /\ agg' = agg /\ pc[s] = "closed" /\ agg[s] = NoAgg
        /\ op'[s] # "apply"
    BY <1>1, <1>3 DEF BeginLoad, Enter, AggOf
  <2> QED
    BY <1>1, <2>1 DEF LogOf, NoAgg
<1>4. CASE BeginStage(s) \/ BeginCommit(s)
  <2>1. /\ pc[s] = "open" /\ agg' = agg /\ ~agg[s].isNew /\ op'[s] # "apply" /\ op[s] # "apply"
        /\ agg[s].cached
    BY <1>1, <1>4 DEF BeginStage, BeginCommit, Enter, AggOf, InCall
  <2>2. Discoverable
    BY <1>1, <2>1 DEF AggOf
  <2> QED
    BY <1>1, <2>1, <2>2 DEF LogOf
<1>5. CASE BeginCommitNew(s)
  <2>1. pc[s] = "open" /\ agg' = agg /\ agg[s].isNew /\ op'[s] # "apply" /\ op[s] # "apply"
    BY <1>1, <1>5 DEF BeginCommitNew, AggOf, InCall
  <2> QED
    BY <1>1, <2>1 DEF LogOf
<1>6. CASE FinishLoad(s)
  <2>1. /\ pc[s] = "return" /\ op[s] \in {"read", "update"} /\ op' = op /\ ~InCall(s)'
        /\ agg'[s] = Loaded
    BY <1>1, <1>6 DEF FinishLoad, Returning, Goto, InCall
  <2>2. ~Marked /\ Latest = StateDoc /\ LatestLog = log
    BY <2>1 DEF ProgressInv, ProgressOf, Latest, LatestLog
  <2>3. SubSeq(log, 1, Len(log)) = log
    BY SubSeqFull DEF TypeOK
  <2>4. Exact(log, StateDoc.txs)
    BY <2>2 DEF LogInv
  <2> QED
    BY <1>1, <2>1, <2>2, <2>3, <2>4 DEF LogOf, Loaded
<1>7. CASE FinishExtension(s)
  <2>1. /\ pc[s] = "return" /\ op[s] = "stage" /\ op' = op /\ InCall(s) /\ ~InCall(s)'
        /\ agg'[s] = [agg[s] EXCEPT !.dirty = TRUE] /\ agg[s] \in Aggregate
    BY <1>1, <1>7 DEF FinishExtension, Returning, Goto, InCall
  <2>2. /\ agg'[s].cached = agg[s].cached /\ agg'[s].gen = agg[s].gen
        /\ agg'[s].txs = agg[s].txs /\ agg'[s].events = agg[s].events
        /\ agg'[s].persisted = agg[s].persisted
    BY <2>1 DEF Aggregate
  <2> QED
    BY <1>1, <2>1, <2>2 DEF LogOf
<1>8. ASSUME NEW t \in Tx, NEW n \in 1..MaxTail, FinishStage(s, t, n) \/ StageNew(s, t, n)
      PROVE  LogOf(s)'
  <2>1. /\ op' = op /\ op[s] # "apply" /\ agg[s].cached
        /\ agg' = [agg EXCEPT ![s] = Staged(@, t, n)]
        /\ InCall(s)' => InCall(s)
    BY <1>1, <1>8 DEF FinishStage, StageNew, Returning, AggOf, InCall, Goto, control, NewInv
  <2>2. /\ agg'[s].cached = agg[s].cached /\ agg'[s].isNew = agg[s].isNew
        /\ agg'[s].gen = agg[s].gen /\ agg'[s].persisted = agg[s].persisted
        /\ Exact(agg'[s].events, agg'[s].txs)
        /\ SubSeq(agg'[s].events, 1, agg[s].persisted)
              = SubSeq(agg[s].events, 1, agg[s].persisted)
    BY <2>1, StagedCopy
  <2> QED
    BY <1>1, <2>1, <2>2 DEF LogOf
<1>9. CASE FinishCommit(s)
  <2>1. /\ pc[s] = "return" /\ op[s] = "apply" /\ op'[s] = "none" /\ ~InCall(s)' /\ InCall(s)
        /\ agg[s] \in Aggregate
        /\ agg' = [agg EXCEPT ![s].gen = @ + 1, ![s].dirty = FALSE, ![s].isNew = FALSE,
                              ![s].persisted = Len(agg[s].events)]
    BY <1>1, <1>9 DEF FinishCommit, Returning, Goto, InCall
  <2>2. /\ agg'[s].cached = agg[s].cached /\ agg'[s].txs = agg[s].txs
        /\ agg'[s].events = agg[s].events /\ agg'[s].persisted = Len(agg[s].events)
        /\ agg[s].events \in Seq(Event) /\ agg[s].cached
    BY <1>1, <2>1 DEF Aggregate, AggOf
  <2>3. SubSeq(agg[s].events, 1, Len(agg[s].events)) = agg[s].events
    <3> DEFINE e == agg[s].events
    <3>1. e \in Seq(Event)
      BY <2>2
    <3> HIDE DEF e
    <3>2. SubSeq(e, 1, Len(e)) = e
      BY <3>1, SubSeqFull
    <3> QED
      BY <3>2 DEF e
  <2> QED
    BY <1>1, <2>1, <2>2, <2>3 DEF LogOf
<1> QED
  BY <1>2, <1>3, <1>4, <1>5, <1>6, <1>7, <1>8, <1>9 DEF Call, Finish

\* Every step keeps the invariant of the events.
LEMMA LogKept ==
  ASSUME CapsuleInv, LogInv, [Next]_vars
  PROVE  LogInv'
<1>0. \A r \in Session : LogOf(r)
  BY DEF LogInv
<1>1. CASE UNCHANGED vars
  BY <1>1 DEF vars, disk, control, LogInv, LogOf, LatestLog, Latest, Marked, StateDoc,
              Discoverable, InCall
<1>2. ASSUME NEW s \in Session, Recover(s) PROVE LogInv'
  <2>1. /\ InCall(s) /\ agg' = agg /\ op' = op
        /\ \A r \in Session \ {s} : InCall(r)' = InCall(r)
        /\ Latest' = Latest /\ LatestLog' = LatestLog
    BY <1>2, RecoverySteps
  <2>2. Discoverable => Discoverable'
    <3>1. idx[s] \in Docs
      BY DEF CapsuleInv, TypeOK
    <3> QED
      BY <1>2, <3>1, RecoverySteps, StaysDiscoverable
  <2>3. \A r \in Session : LogOf(r)'
    BY <1>0, <2>1, <2>2, LogOfKept
  <2> QED
    BY <2>1, <2>3 DEF LogInv
<1>3. ASSUME NEW s \in Session, WriteMarker(s) PROVE LogInv'
  <2>1. /\ InCall(s) /\ op' = [op EXCEPT ![s] = "apply"] /\ agg' = agg /\ docs' = docs
        /\ agg[s].cached /\ agg[s].gen = Latest.gen
        /\ Latest' = [gen |-> agg[s].gen + 1, txs |-> agg[s].txs,
                      cursor |-> Len(agg[s].events)]
        /\ LatestLog' = agg[s].events
        /\ \A r \in Session \ {s} : op[r] # "apply"
    BY <1>3, CommitPoint
  <2>2. /\ Discoverable' = Discoverable
        /\ \A r \in Session \ {s} : InCall(r)' = InCall(r)
    BY <1>3, <2>1, OneSession DEF Discoverable, Finish
  <2>3. Exact(LatestLog', Latest'.txs)
    BY <1>0, <2>1 DEF LogOf
  <2>4. ASSUME NEW r \in Session PROVE LogOf(r)'
    <3>1. CASE r = s
      BY <1>0, <2>1, <2>2, <3>1 DEF LogOf, CapsuleInv, TypeOK
    <3>2. CASE r # s
      <4>1. op'[r] = op[r] /\ op[r] # "apply" /\ agg[r].gen \in Nat /\ agg[s].gen \in Nat
        BY <2>1, <3>2 DEF CapsuleInv, TypeOK, Aggregate
      <4>2. agg[r].cached => agg[r].gen <= Latest.gen
        BY <4>1 DEF CapsuleInv, AggInv, AggOf
      <4>3. agg[r].cached => agg[r].gen # Latest'.gen
        BY <2>1, <4>1, <4>2
      <4> QED
        BY <1>0, <2>1, <2>2, <3>2, <4>1, <4>3 DEF LogOf
    <3> QED
      BY <3>1, <3>2
  <2> QED
    BY <2>3, <2>4 DEF LogInv
<1>4. ASSUME NEW s \in Session, Call(s) \/ Finish(s), \A r \in Session : ~WriteMarker(r)
      PROVE  LogInv'
  <2>1. /\ Latest' = Latest /\ LatestLog' = LatestLog /\ Discoverable' = Discoverable
        /\ \A r \in Session \ {s} :
              agg'[r] = agg[r] /\ op'[r] = op[r] /\ InCall(r)' = InCall(r)
    BY <1>4, OneSession
  <2>2. \A r \in Session \ {s} : LogOf(r)'
    BY <1>0, <2>1, LogOfKept
  <2>3. LogOf(s)'
    BY <1>4, CallKeepsLog
  <2> QED
    BY <2>1, <2>2, <2>3 DEF LogInv
<1>5. CASE (\E s \in Session : Close(s) \/ Abort(s)) \/ (\E p \in Process : Crash(p))
  <2>1. PICK S \in SUBSET Session :
           /\ Forget(S) /\ UNCHANGED <<docs, marker>>
           /\ \/ log' = log
              \/ Marked /\ Pending /\ log' = Append(log, NextLine)
    BY <1>5, Endings
  <2>2. /\ Latest' = Latest /\ LatestLog' = LatestLog /\ Discoverable' = Discoverable
        /\ \A r \in Session :
               /\ r \in S => agg'[r] = NoAgg /\ op'[r] = "none" /\ ~InCall(r)'
               /\ r \notin S => agg'[r] = agg[r] /\ op'[r] = op[r] /\ InCall(r)' = InCall(r)
    BY <2>1, EndSteps
  <2>3. ASSUME NEW r \in Session PROVE LogOf(r)'
    <3>1. CASE r \in S
      BY <2>2, <3>1 DEF LogOf, NoAgg
    <3>2. CASE r \notin S
      BY <1>0, <2>2, <3>2, LogOfKept
    <3> QED
      BY <3>1, <3>2
  <2> QED
    BY <2>2, <2>3 DEF LogInv
<1> QED
  BY <1>1, <1>2, <1>3, <1>4, <1>5 DEF Next

\* The directory is empty at first.
LEMMA LogInit ==
  ASSUME Init
  PROVE  LogInv
<1>1. /\ ~Marked /\ LatestLog = <<>> /\ Latest = Absent
  BY DocsAssumption DEF Init, Marked, NoMarker, Absent, LatestLog, Latest, StateDoc, Docs
<1>2. Exact(<<>>, {})
  BY DEF Exact
<1>3. \A s \in Session : LogOf(s)
  BY DEF Init, LogOf, NoAgg, InCall
<1> QED
  BY <1>1, <1>2, <1>3 DEF LogInv, Absent

\* Both invariants hold in every state.
LEMMA BothHold == Spec => [](CapsuleInv /\ LogInv)
<1>1. Init => CapsuleInv /\ LogInv
  BY InitInv, LogInit
<1>2. CapsuleInv /\ LogInv /\ [Next]_vars => (CapsuleInv /\ LogInv)'
  BY NextInv, LogKept
<1> QED
  BY <1>1, <1>2, PTL DEF Spec

\* Each command whose effect is in the committed state has its events in the committed
\* log, once, in one piece, and at the sequence numbers they claim: whatever is retried with
\* the same key, rolled forward, torn or committed by a stale copy meanwhile.
THEOREM EventsAreExact == Spec => []EventsExactlyOnce
<1>1. LogInv => EventsExactlyOnce
  <2> SUFFICES ASSUME LogInv PROVE EventsExactlyOnce
    OBVIOUS
  <2>1. CASE Discoverable
    <3>1. Committed = Latest /\ CommittedLog = LatestLog
      BY <2>1 DEF Committed, CommittedLog, Latest, LatestLog
    <3>2. Exact(CommittedLog, Committed.txs)
      BY <3>1 DEF LogInv
    <3> HIDE DEF Committed, CommittedLog
    <3> QED
      BY <3>2 DEF EventsExactlyOnce, Exact
  <2>2. CASE ~Discoverable
    <3>1. Committed = Absent /\ CommittedLog = <<>>
      BY <2>2 DEF Committed, CommittedLog
    <3>2. Exact(<<>>, {})
      BY DEF Exact
    <3>3. Exact(CommittedLog, Committed.txs)
      BY <3>1, <3>2 DEF Absent
    <3> HIDE DEF Committed, CommittedLog
    <3> QED
      BY <3>3 DEF EventsExactlyOnce, Exact
  <2> QED
    BY <2>1, <2>2
<1> QED
  BY <1>1, BothHold, PTL

-----------------------------------------------------------------------------
(* The refinement. *)

\* The state of the atomic store, as CapsuleStore defines it.
AtomicStore == [gen |-> Committed.gen, txs |-> Committed.txs, log |-> CommittedLog]
AtomicCopy == [s \in Session |-> AbstractCopy(s)]
StageOf(s) == IF ~agg[s].cached THEN "none" ELSE IF Decided(s) THEN "committed" ELSE "open"
AtomicStage == [s \in Session |-> StageOf(s)]
AtomicVars == <<AtomicStore, AtomicCopy, AtomicStage, acked>>

\* What the services see of a session.
SameView(s) == AbstractCopy(s)' = AbstractCopy(s) /\ StageOf(s)' = StageOf(s)

\* The capsule is what the newest commit point says once it can be found.
LEMMA StoreIs ==
  /\ Discoverable =>
        AtomicStore = [gen |-> Latest.gen, txs |-> Latest.txs, log |-> LatestLog]
  /\ ~Discoverable => AtomicStore = [gen |-> 0, txs |-> {}, log |-> <<>>]
BY DEF AtomicStore, Committed, CommittedLog, Latest, LatestLog, Absent

\* A step that changes neither what can be found nor the commit point.
LEMMA StoreStays ==
  ASSUME Discoverable' = Discoverable, Latest' = Latest, LatestLog' = LatestLog
  PROVE  AtomicStore' = AtomicStore
BY DEF AtomicStore, Committed, CommittedLog, Latest, LatestLog

\* A session that a step leaves alone looks as before.
LEMMA ViewStays ==
  ASSUME NEW s \in Session, agg'[s] = agg[s], Discoverable' = Discoverable,
         op'[s] = "apply" <=> op[s] = "apply"
  PROVE  SameView(s)
BY DEF SameView, AbstractCopy, StageOf, Decided

\* When all sessions and the store look as before, nothing has happened.
LEMMA Unseen ==
  ASSUME AtomicStore' = AtomicStore, \A s \in Session : SameView(s), acked' = acked
  PROVE  UNCHANGED AtomicVars
BY DEF AtomicVars, AtomicCopy, AtomicStage, SameView

\* When all but one do, it is that one's step.
LEMMA OneView ==
  ASSUME NEW s \in Session, \A r \in Session \ {s} : SameView(r)
  PROVE  /\ AtomicCopy' = [AtomicCopy EXCEPT ![s] = AbstractCopy(s)']
         /\ AtomicStage' = [AtomicStage EXCEPT ![s] = StageOf(s)']
         /\ AtomicCopy[s] = AbstractCopy(s) /\ AtomicStage[s] = StageOf(s)
BY DEF AtomicCopy, AtomicStage, SameView

\* The actions of the atomic store, in these terms.  A session opens the capsule.
LEMMA OpenSeen ==
  ASSUME NEW s \in Session, \A r \in Session \ {s} : SameView(r),
         StageOf(s) = "none", StageOf(s)' = "open", AbstractCopy(s)' = AtomicStore,
         AtomicStore' = AtomicStore, acked' = acked
  PROVE  Abstract!Next
<1>1. /\ AtomicStage[s] = "none" /\ AtomicStage' = [AtomicStage EXCEPT ![s] = "open"]
      /\ AtomicCopy' = [AtomicCopy EXCEPT ![s] = AtomicStore]
      /\ AtomicStore' = AtomicStore /\ acked' = acked
  BY OneView
<1>2. Abstract!Open(s)
  BY <1>1 DEF Abstract!Open, AtomicStore, AtomicCopy, AtomicStage, StageOf
<1> QED
  BY <1>2 DEF Abstract!Next

\* A command takes effect on the copy of a session.
LEMMA StageSeen ==
  ASSUME NEW s \in Session, NEW t \in Tx, NEW n \in 1..MaxTail, NEW g, NEW x, NEW l,
         \A r \in Session \ {s} : SameView(r),
         StageOf(s) = "open", StageOf(s)' = "open",
         AbstractCopy(s) = [gen |-> g, txs |-> x, log |-> l], t \notin x,
         AbstractCopy(s)' = [gen |-> g, txs |-> x \union {t}, log |-> l \o NewEvents(l, t, n)],
         AtomicStore' = AtomicStore, acked' = acked
  PROVE  Abstract!Next
<1> DEFINE c == [gen |-> g, txs |-> x, log |-> l]
           d == [gen |-> g, txs |-> x \union {t}, log |-> l \o NewEvents(l, t, n)]
<1>1. /\ AtomicStage[s] = "open" /\ AtomicStage' = AtomicStage
      /\ AtomicCopy[s] = c /\ AtomicCopy' = [AtomicCopy EXCEPT ![s] = d]
      /\ DOMAIN AtomicCopy = Session
  <2>1. AtomicStage' = [AtomicStage EXCEPT ![s] = "open"] /\ AtomicStage[s] = "open"
    BY OneView
  <2> QED
    BY <2>1, OneView DEF AtomicStage, AtomicCopy
<1>2. AtomicCopy' =
        [AtomicCopy EXCEPT ![s].txs = @ \union {t},
            ![s].log = @ \o [i \in 1..n |-> [tx |-> t, seq |-> Len(@) + i]]]
  <2>1. [c EXCEPT !.txs = @ \union {t}, !.log = @ \o NewEvents(@, t, n)] = d
    <3> DEFINE y == x \union {t}
               m == l \o NewEvents(l, t, n)
    <3>1. c.txs = x /\ c.log = l
      OBVIOUS
    <3> HIDE DEF y, m
    <3>2. [c EXCEPT !.txs = y, !.log = m] = [gen |-> g, txs |-> y, log |-> m]
      <4>1. [c EXCEPT !.txs = y] = [gen |-> g, txs |-> y, log |-> l]
        OBVIOUS
      <4>2. [[gen |-> g, txs |-> y, log |-> l] EXCEPT !.log = m]
              = [gen |-> g, txs |-> y, log |-> m]
        OBVIOUS
      <4>3. [c EXCEPT !.txs = y, !.log = m] = [[c EXCEPT !.txs = y] EXCEPT !.log = m]
        <5> HIDE DEF c
        <5> QED
          OBVIOUS
      <4> HIDE DEF c
      <4> QED
        BY <4>1, <4>2, <4>3
    <3> HIDE DEF c
    <3> QED
      BY <3>1, <3>2 DEF y, m
  <2>2. AtomicCopy = [r \in Session |-> AtomicCopy[r]]
    BY DEF AtomicCopy
  <2> QED
    BY <1>1, <2>1, <2>2 DEF NewEvents
<1>3. Abstract!Stage(s, t, n)
  <2>1. t \notin AtomicCopy[s].txs
    BY <1>1
  <2> QED
    BY <1>1, <1>2, <2>1 DEF Abstract!Stage, AtomicStore, AtomicCopy, AtomicStage, StageOf
<1> QED
  BY <1>3 DEF Abstract!Next

\* A copy becomes the store.
LEMMA CommitSeen ==
  ASSUME NEW s \in Session, NEW g, NEW x, NEW l,
         \A r \in Session \ {s} : SameView(r),
         StageOf(s) = "open", StageOf(s)' = "committed",
         AbstractCopy(s) = [gen |-> g, txs |-> x, log |-> l], AtomicStore.gen = g,
         AbstractCopy(s)' = [gen |-> g + 1, txs |-> x, log |-> l],
         AtomicStore' = [gen |-> g + 1, txs |-> x, log |-> l],
         acked' = acked
  PROVE  Abstract!Next
<1> DEFINE c == [gen |-> g, txs |-> x, log |-> l]
           d == [gen |-> g + 1, txs |-> x, log |-> l]
<1>1. /\ AtomicStage[s] = "open" /\ AtomicStage' = [AtomicStage EXCEPT ![s] = "committed"]
      /\ AtomicCopy[s] = c /\ AtomicCopy' = [AtomicCopy EXCEPT ![s] = d]
      /\ AtomicCopy[s].gen = AtomicStore.gen
  BY OneView
<1>2. [c EXCEPT !.gen = @ + 1] = d
  OBVIOUS
<1>3. AtomicCopy' = [AtomicCopy EXCEPT ![s].gen = @ + 1]
  BY <1>1, <1>2
<1>4. AtomicStore' = [AtomicCopy[s] EXCEPT !.gen = @ + 1]
  BY <1>1, <1>2
<1>5. Abstract!Commit(s)
  BY <1>1, <1>3, <1>4 DEF Abstract!Commit, AtomicStore, AtomicCopy, AtomicStage, StageOf
<1> QED
  BY <1>5 DEF Abstract!Next

\* A commit is reported to its caller.
LEMMA ReportSeen ==
  ASSUME NEW s \in Session, \A r \in Session \ {s} : SameView(r),
         StageOf(s) = "committed", StageOf(s)' = "open", AbstractCopy(s)' = AbstractCopy(s),
         AtomicStore' = AtomicStore, acked' = acked \union AbstractCopy(s).txs
  PROVE  Abstract!Next
<1>0. AtomicCopy = [r \in Session |-> AbstractCopy(r)]
  BY DEF AtomicCopy
<1>1. /\ AtomicStage[s] = "committed" /\ AtomicStage' = [AtomicStage EXCEPT ![s] = "open"]
      /\ AtomicCopy' = AtomicCopy
      /\ AtomicStore' = AtomicStore /\ acked' = acked \union AtomicCopy[s].txs
  BY <1>0, OneView
<1>2. Abstract!Report(s)
  BY <1>1 DEF Abstract!Report, AtomicStore, AtomicCopy, AtomicStage, StageOf
<1> QED
  BY <1>2 DEF Abstract!Next

\* The sessions of S are gone.
LEMMA DropSeen ==
  ASSUME NEW S \in SUBSET Session,
         \A r \in Session \ S : SameView(r),
         \A r \in S : StageOf(r)' = "none" /\ AbstractCopy(r)' = [gen |-> 0, txs |-> {}, log |-> <<>>],
         AtomicStore' = AtomicStore, acked' = acked
  PROVE  Abstract!Next
<1>1. /\ AtomicStage' = [r \in Session |-> IF r \in S THEN "none" ELSE AtomicStage[r]]
      /\ AtomicCopy' = [r \in Session |-> IF r \in S THEN [gen |-> 0, txs |-> {}, log |-> <<>>]
                                          ELSE AtomicCopy[r]]
  BY DEF AtomicStage, AtomicCopy, SameView
<1>2. Abstract!Drop(S)
  BY <1>1 DEF Abstract!Drop, Abstract!Empty, AtomicStore, AtomicCopy, AtomicStage, StageOf
<1> QED
  BY <1>2 DEF Abstract!Next

\* A session outside of a commit looks as before even when the capsule is first found.
LEMMA IdleStays ==
  ASSUME NEW s \in Session, agg'[s] = agg[s], op[s] # "apply", op'[s] # "apply"
  PROVE  SameView(s)
BY DEF SameView, AbstractCopy, StageOf, Decided

\* What is seen of a session with a cached aggregate, before and after its commit point.
LEMMA CopyIs ==
  ASSUME CapsuleInv, NEW s \in Session, agg[s].cached
  PROVE  /\ Decided(s) => /\ StageOf(s) = "committed"
                          /\ AbstractCopy(s) = [gen |-> agg[s].gen + 1, txs |-> agg[s].txs,
                                                log |-> agg[s].events]
         /\ ~Decided(s) => /\ StageOf(s) = "open"
                           /\ AbstractCopy(s) = [gen |-> agg[s].gen, txs |-> agg[s].txs,
                                                 log |-> agg[s].events]
BY DEF CapsuleInv, TypeOK, Aggregate, AbstractCopy, StageOf

\* The same after a step.
LEMMA CopyBecomes ==
  ASSUME CapsuleInv', NEW s \in Session, agg'[s].cached
  PROVE  /\ Decided(s)' => /\ StageOf(s)' = "committed"
                           /\ AbstractCopy(s)' = [gen |-> agg'[s].gen + 1, txs |-> agg'[s].txs,
                                                  log |-> agg'[s].events]
         /\ ~Decided(s)' => /\ StageOf(s)' = "open"
                            /\ AbstractCopy(s)' = [gen |-> agg'[s].gen, txs |-> agg'[s].txs,
                                                   log |-> agg'[s].events]
BY DEF CapsuleInv, TypeOK, Aggregate, AbstractCopy, StageOf

\* Recovery is not seen, but for task.yaml of a new capsule: its creator's commit point.
LEMMA RecoverSeen ==
  ASSUME CapsuleInv, CapsuleInv', LogInv, NEW s \in Session, Recover(s)
  PROVE  Abstract!Next \/ UNCHANGED AtomicVars
<1>1. /\ InCall(s) /\ op' = op /\ agg' = agg /\ acked' = acked
      /\ Latest' = Latest /\ LatestLog' = LatestLog
      /\ \/ docs' = docs
         \/ /\ Marked /\ docs' = [docs EXCEPT ![idx[s]] = marker.snap]
            /\ WriteDoc(s)
  BY RecoverySteps
<1>2. CASE Discoverable' = Discoverable
  BY <1>1, <1>2, StoreStays, ViewStays, Unseen
<1>3. CASE Discoverable' # Discoverable
  <2>1. idx[s] \in Docs
    BY DEF CapsuleInv, TypeOK
  <2>2. ~Discoverable /\ Discoverable'
    BY <1>1, <1>3, <2>1, StaysDiscoverable DEF Discoverable
  <2>3. Marked
    BY <1>1, <1>3 DEF Discoverable
  <2>4. agg[s].isNew /\ op[s] = "apply" /\ agg[s].cached /\ agg[s].gen = 0
    BY <1>1, <2>2, <2>3 DEF LogInv, LogOf, CapsuleInv, NewInv, Untouched
  <2>5. /\ Latest = [gen |-> agg[s].gen + 1, txs |-> agg[s].txs, cursor |-> Len(agg[s].events)]
        /\ LatestLog = agg[s].events
    BY <2>4 DEF CapsuleInv, AggInv, AggOf, LogInv, LogOf
  <2>6. \A r \in Session \ {s} : op[r] # "apply"
    BY <1>1 DEF CapsuleInv, AggInv, AggOf, LockInv
  <2>7. \A r \in Session \ {s} : SameView(r)
    BY <1>1, <2>6, IdleStays
  <2>8. /\ StageOf(s) = "open"
        /\ AbstractCopy(s) = [gen |-> 0, txs |-> agg[s].txs, log |-> agg[s].events]
    BY <2>2, <2>4, CopyIs DEF Decided
  <2>9. /\ StageOf(s)' = "committed"
        /\ AbstractCopy(s)' = [gen |-> 0 + 1, txs |-> agg[s].txs, log |-> agg[s].events]
    BY <1>1, <2>2, <2>4, CopyBecomes DEF Decided
  <2>10. AtomicStore.gen = 0
    BY <2>2, StoreIs
  <2>11. AtomicStore' = [gen |-> 0 + 1, txs |-> agg[s].txs, log |-> agg[s].events]
    <3>1. AtomicStore' = [gen |-> Latest'.gen, txs |-> Latest'.txs, log |-> LatestLog']
      BY <2>2 DEF AtomicStore, Committed, CommittedLog, Latest, LatestLog
    <3> QED
      BY <1>1, <2>4, <2>5, <3>1
  <2> QED
    BY <1>1, <2>7, <2>8, <2>9, <2>10, <2>11, CommitSeen
<1> QED
  BY <1>2, <1>3

\* The marker of a capsule that can be found is the commit point.
LEMMA MarkerSeen ==
  ASSUME CapsuleInv, CapsuleInv', LogInv, NEW s \in Session, WriteMarker(s)
  PROVE  Abstract!Next \/ UNCHANGED AtomicVars
<1>1. /\ op[s] = "commit" /\ op' = [op EXCEPT ![s] = "apply"]
      /\ UNCHANGED <<docs, log, agg, acked>>
      /\ agg[s].cached /\ agg[s].gen = Latest.gen
      /\ Latest' = [gen |-> agg[s].gen + 1, txs |-> agg[s].txs,
                    cursor |-> Len(agg[s].events)]
      /\ LatestLog' = agg[s].events
  BY CommitPoint
<1>2. op'[s] = "apply" /\ \A r \in Session \ {s} : op'[r] = op[r]
  BY <1>1 DEF CapsuleInv, TypeOK
<1>3. Discoverable' = Discoverable
  BY <1>1 DEF Discoverable
<1>4. \A r \in Session \ {s} : SameView(r)
  BY <1>1, <1>2, <1>3, ViewStays
<1>5. CASE Discoverable
  <2>1. /\ StageOf(s) = "open"
        /\ AbstractCopy(s) = [gen |-> agg[s].gen, txs |-> agg[s].txs, log |-> agg[s].events]
    BY <1>1, CopyIs DEF Decided
  <2>2. /\ StageOf(s)' = "committed"
        /\ AbstractCopy(s)' = [gen |-> agg[s].gen + 1, txs |-> agg[s].txs,
                               log |-> agg[s].events]
    BY <1>1, <1>2, <1>3, <1>5, CopyBecomes DEF Decided
  <2>3. AtomicStore.gen = agg[s].gen
    BY <1>1, <1>5, StoreIs
  <2>4. AtomicStore' = [gen |-> agg[s].gen + 1, txs |-> agg[s].txs, log |-> agg[s].events]
    <3>1. AtomicStore' = [gen |-> Latest'.gen, txs |-> Latest'.txs, log |-> LatestLog']
      BY <1>3, <1>5 DEF AtomicStore, Committed, CommittedLog, Latest, LatestLog
    <3> QED
      BY <1>1, <3>1
  <2> QED
    BY <1>1, <1>4, <2>1, <2>2, <2>3, <2>4, CommitSeen
<1>6. CASE ~Discoverable
  <2>1. SameView(s)
    BY <1>1, <1>3, <1>6 DEF SameView, AbstractCopy, StageOf, Decided
  <2>2. AtomicStore' = AtomicStore
    BY <1>3, <1>6 DEF AtomicStore, Committed, CommittedLog
  <2> QED
    BY <1>1, <1>4, <2>1, <2>2, Unseen
<1> QED
  BY <1>5, <1>6

\* A session that creates the capsule, or has loaded it, has a copy of what is committed.
LEMMA EntrySeen ==
  ASSUME CapsuleInv, CapsuleInv', LogInv, NEW s \in Session, Create(s) \/ FinishLoad(s)
  PROVE  Abstract!Next
<1>1. ~WriteMarker(s) /\ \A r \in Session : ~WriteMarker(r)
  <2>1. \A r \in Session : WriteMarker(r) => marker' # marker
    <3> SUFFICES ASSUME NEW r \in Session, WriteMarker(r) PROVE marker' # marker
      OBVIOUS
    <3> QED
      BY CommitPoint DEF Marked
  <2>2. marker' = marker
    BY DEF Create, FinishLoad, disk
  <2> QED
    BY <2>1, <2>2
<1>2. /\ Latest' = Latest /\ LatestLog' = LatestLog /\ Discoverable' = Discoverable
      /\ \A r \in Session \ {s} : agg'[r] = agg[r] /\ op'[r] = op[r]
  BY <1>1, OneSession DEF Call, Finish
<1>3. AtomicStore' = AtomicStore /\ \A r \in Session \ {s} : SameView(r)
  BY <1>2, StoreStays, ViewStays
<1>4. CASE Create(s)
  <2>1. /\ pc[s] = "closed" /\ agg[s] = NoAgg /\ op[s] # "apply" /\ op' = op /\ acked' = acked
        /\ agg'[s] = [NoAgg EXCEPT !.cached = TRUE, !.isNew = TRUE, !.dirty = TRUE]
        /\ Untouched
    BY <1>4 DEF Create, CapsuleInv, TypeOK, AggInv, AggOf, InCall, NewInv
  <2>2. ~Discoverable
    BY <2>1, DocsAssumption DEF Untouched, Discoverable, Docs
  <2>3. StageOf(s) = "none"
    BY <2>1 DEF StageOf, NoAgg
  <2>4. agg'[s].cached /\ agg'[s].gen = 0 /\ agg'[s].txs = {} /\ agg'[s].events = <<>>
    BY <2>1 DEF NoAgg
  <2>5. StageOf(s)' = "open" /\ AbstractCopy(s)' = [gen |-> 0, txs |-> {}, log |-> <<>>]
    BY <2>1, <2>4, CopyBecomes DEF Decided
  <2> QED
    BY <1>3, <2>1, <2>2, <2>3, <2>5, StoreIs, OpenSeen
<1>5. CASE FinishLoad(s)
  <2>1. /\ pc[s] = "return" /\ op[s] \in {"read", "update"} /\ op' = op /\ acked' = acked
        /\ InCall(s) /\ agg'[s] = Loaded
    BY <1>5 DEF FinishLoad, Returning, InCall, CapsuleInv, TypeOK
  <2>2. agg[s] = NoAgg /\ ~Marked
    BY <2>1 DEF CapsuleInv, AggInv, AggOf, ProgressInv, ProgressOf
  <2>3. Discoverable
    BY <2>1, <2>2 DEF LogInv, LogOf, NoAgg
  <2>4. StageOf(s) = "none"
    BY <2>2 DEF StageOf, NoAgg
  <2>5. AtomicStore = [gen |-> StateDoc.gen, txs |-> StateDoc.txs, log |-> log]
    BY <2>2, <2>3, StoreIs DEF Latest, LatestLog
  <2>6. /\ agg'[s].cached /\ agg'[s].gen = StateDoc.gen /\ agg'[s].txs = StateDoc.txs
        /\ agg'[s].events = log
    BY <2>1 DEF Loaded
  <2>7. /\ StageOf(s)' = "open"
        /\ AbstractCopy(s)' = [gen |-> StateDoc.gen, txs |-> StateDoc.txs, log |-> log]
    BY <2>1, <2>6, CopyBecomes DEF Decided
  <2> QED
    BY <1>3, <2>1, <2>4, <2>5, <2>7, OpenSeen
<1> QED
  BY <1>4, <1>5

\* The beginnings of calls are not seen, nor is a change of state without an event until
\* it is committed.
LEMMA BeginUnseen ==
  ASSUME CapsuleInv, CapsuleInv', NEW s \in Session,
         \/ BeginLoad(s, "read") \/ BeginLoad(s, "update")
         \/ BeginStage(s) \/ BeginCommit(s) \/ BeginCommitNew(s) \/ FinishExtension(s)
  PROVE  UNCHANGED AtomicVars
<1>1. /\ UNCHANGED <<docs, log, marker, acked>>
      /\ op[s] # "apply" /\ op'[s] # "apply"
      /\ \A r \in Session \ {s} : agg'[r] = agg[r] /\ op'[r] = op[r]
  <2>0. op \in [Session -> Calls] /\ agg \in [Session -> Aggregate]
    BY DEF CapsuleInv, TypeOK
  <2>1. CASE FinishExtension(s)
    BY <2>0, <2>1 DEF FinishExtension, Returning, disk
  <2>2. CASE BeginCommitNew(s)
    BY <2>0, <2>2 DEF BeginCommitNew, disk, CapsuleInv, AggInv, AggOf, InCall
  <2>3. ASSUME NEW call \in {"read", "update", "stage", "commit"}, Enter(s, call), ~InCall(s)
        PROVE  /\ UNCHANGED <<docs, log, marker, acked>>
               /\ op[s] # "apply" /\ op'[s] # "apply"
               /\ \A r \in Session \ {s} : agg'[r] = agg[r] /\ op'[r] = op[r]
    BY <2>0, <2>3 DEF Enter, disk, CapsuleInv, AggInv, AggOf
  <2> QED
    BY <2>1, <2>2, <2>3 DEF BeginLoad, BeginStage, BeginCommit, InCall
<1>2. Latest' = Latest /\ LatestLog' = LatestLog /\ Discoverable' = Discoverable
  BY <1>1 DEF Latest, LatestLog, Discoverable, Marked, StateDoc
<1>3. SameView(s)
  <2>1. CASE agg' = agg
    BY <1>1, <2>1, IdleStays
  <2>2. CASE FinishExtension(s)
    <3>1. agg'[s] = [agg[s] EXCEPT !.dirty = TRUE] /\ agg[s] \in Aggregate
      BY <2>2 DEF FinishExtension, CapsuleInv, TypeOK
    <3>2. /\ agg'[s].cached = agg[s].cached /\ agg'[s].gen = agg[s].gen
          /\ agg'[s].txs = agg[s].txs /\ agg'[s].events = agg[s].events
      BY <3>1 DEF Aggregate
    <3> QED
      BY <1>1, <3>2 DEF SameView, AbstractCopy, StageOf, Decided
  <2> QED
    BY <2>1, <2>2 DEF BeginLoad, Enter, BeginStage, BeginCommit, BeginCommitNew
<1> QED
  BY <1>1, <1>2, <1>3, StoreStays, ViewStays, Unseen

\* A command is seen in its session's copy, once.
LEMMA CommandSeen ==
  ASSUME CapsuleInv, CapsuleInv', LogInv, NEW s \in Session, NEW t \in Tx, NEW n \in 1..MaxTail,
         FinishStage(s, t, n) \/ StageNew(s, t, n)
  PROVE  Abstract!Next \/ UNCHANGED AtomicVars
<1>1. /\ UNCHANGED <<docs, log, marker, acked, op>>
      /\ op[s] # "apply" /\ agg[s].cached
      /\ agg' = [agg EXCEPT ![s] = Staged(@, t, n)]
  BY DEF FinishStage, StageNew, Returning, disk, control, CapsuleInv, AggInv, AggOf, InCall, NewInv
<1>2. Latest' = Latest /\ LatestLog' = LatestLog /\ Discoverable' = Discoverable
  BY <1>1 DEF Latest, LatestLog, Discoverable, Marked, StateDoc
<1>3. \A r \in Session \ {s} : SameView(r)
  <2>1. \A r \in Session \ {s} : agg'[r] = agg[r]
    BY <1>1 DEF CapsuleInv, TypeOK
  <2> QED
    BY <1>1, <1>2, <2>1, ViewStays
<1>4. AtomicStore' = AtomicStore
  BY <1>2, StoreStays
<1>5. /\ agg'[s].cached /\ agg'[s].gen = agg[s].gen
      /\ t \in agg[s].txs => agg'[s] = agg[s]
      /\ t \notin agg[s].txs =>
            /\ agg'[s].txs = agg[s].txs \union {t}
            /\ agg'[s].events = agg[s].events \o NewEvents(agg[s].events, t, n)
  BY <1>1, StagedCopy
<1>6. CASE t \in agg[s].txs
  <2>1. SameView(s)
    BY <1>1, <1>5, <1>6, IdleStays
  <2> QED
    BY <1>1, <1>3, <1>4, <2>1, Unseen
<1>7. CASE t \notin agg[s].txs
  <2> DEFINE g == agg[s].gen
             x == agg[s].txs
             l == agg[s].events
  <2>1. StageOf(s) = "open" /\ AbstractCopy(s) = [gen |-> g, txs |-> x, log |-> l]
    BY <1>1, CopyIs DEF Decided
  <2>2. /\ StageOf(s)' = "open"
        /\ AbstractCopy(s)' = [gen |-> agg'[s].gen, txs |-> agg'[s].txs,
                               log |-> agg'[s].events]
    BY <1>1, <1>5, CopyBecomes DEF Decided
  <2>3. /\ agg'[s].gen = g /\ agg'[s].txs = x \union {t}
        /\ agg'[s].events = l \o NewEvents(l, t, n) /\ t \notin x
    BY <1>5, <1>7
  <2> HIDE DEF g, x, l
  <2>4. AbstractCopy(s)' = [gen |-> g, txs |-> x \union {t}, log |-> l \o NewEvents(l, t, n)]
    BY <2>2, <2>3
  <2> QED
    BY <1>1, <1>3, <1>4, <2>1, <2>2, <2>3, <2>4, StageSeen
<1> QED
  BY <1>6, <1>7

\* A commit that returns is reported after its commit point.
LEMMA ReturnSeen ==
  ASSUME CapsuleInv, CapsuleInv', NEW s \in Session, FinishCommit(s)
  PROVE  Abstract!Next
<1>1. /\ pc[s] = "return" /\ op[s] = "apply" /\ op' = [op EXCEPT ![s] = "none"]
      /\ UNCHANGED <<docs, log, marker>> /\ acked' = acked \union agg[s].txs
      /\ agg' = [agg EXCEPT ![s].gen = @ + 1, ![s].dirty = FALSE, ![s].isNew = FALSE,
                            ![s].persisted = Len(agg[s].events)]
  BY DEF FinishCommit, Returning, disk
<1>2. InCall(s) /\ ~Marked /\ agg[s].cached /\ agg[s] \in Aggregate
  BY <1>1 DEF InCall, CapsuleInv, ProgressInv, ProgressOf, AggInv, AggOf, TypeOK
<1>3. Discoverable
  <2>1. StateDoc.gen = agg[s].gen + 1 /\ agg[s].gen \in Nat
    BY <1>1, <1>2 DEF CapsuleInv, AggInv, AggOf, Latest, Aggregate
  <2>2. docs[TaskDoc] = StateDoc
    BY <1>2, DocsAssumption DEF CapsuleInv, DiskInv, CleanCapsuleOpens, Docs
  <2> QED
    BY <2>1, <2>2 DEF Discoverable
<1>4. Latest' = Latest /\ LatestLog' = LatestLog /\ Discoverable' = Discoverable
  BY <1>1 DEF Latest, LatestLog, Discoverable, Marked, StateDoc
<1>5. op'[s] = "none" /\ \A r \in Session \ {s} : agg'[r] = agg[r] /\ op'[r] = op[r]
  BY <1>1 DEF CapsuleInv, TypeOK
<1>6. AtomicStore' = AtomicStore /\ \A r \in Session \ {s} : SameView(r)
  BY <1>4, <1>5, StoreStays, ViewStays
<1>7. /\ StageOf(s) = "committed"
      /\ AbstractCopy(s) = [gen |-> agg[s].gen + 1, txs |-> agg[s].txs, log |-> agg[s].events]
  BY <1>1, <1>2, <1>3, CopyIs DEF Decided
<1>8. /\ agg'[s].cached /\ agg'[s].gen = agg[s].gen + 1 /\ agg'[s].txs = agg[s].txs
      /\ agg'[s].events = agg[s].events
  BY <1>1, <1>2 DEF CapsuleInv, TypeOK, Aggregate
<1>9. StageOf(s)' = "open" /\ AbstractCopy(s)' = AbstractCopy(s)
  BY <1>5, <1>7, <1>8, CopyBecomes DEF Decided
<1>10. acked' = acked \union AbstractCopy(s).txs
  BY <1>1, <1>7
<1> QED
  BY <1>6, <1>7, <1>9, <1>10, ReportSeen

\* Sessions that end are dropped with their copies.
LEMMA EndSeen ==
  ASSUME CapsuleInv, \/ \E s \in Session : Close(s) \/ Abort(s)
                     \/ \E p \in Process : Crash(p)
  PROVE  Abstract!Next
<1>1. PICK S \in SUBSET Session :
         /\ Forget(S) /\ UNCHANGED <<docs, marker>>
         /\ \/ log' = log
            \/ Marked /\ Pending /\ log' = Append(log, NextLine)
  BY Endings
<1>2. /\ Latest' = Latest /\ LatestLog' = LatestLog /\ Discoverable' = Discoverable
      /\ acked' = acked
      /\ \A r \in Session :
            /\ r \in S => agg'[r] = NoAgg /\ op'[r] = "none" /\ ~InCall(r)'
            /\ r \notin S => agg'[r] = agg[r] /\ op'[r] = op[r] /\ InCall(r)' = InCall(r)
  BY <1>1, EndSteps
<1>3. AtomicStore' = AtomicStore /\ \A r \in Session \ S : SameView(r)
  BY <1>2, StoreStays, ViewStays
<1>4. \A r \in S : StageOf(r)' = "none" /\ AbstractCopy(r)' = [gen |-> 0, txs |-> {}, log |-> <<>>]
  BY <1>2 DEF StageOf, AbstractCopy, NoAgg
<1> QED
  BY <1>2, <1>3, <1>4, DropSeen

\* Every step of the files and the sessions is a step of the atomic store, or is not seen.
LEMMA StepSeen ==
  ASSUME CapsuleInv, LogInv, [Next]_vars
  PROVE  Abstract!Next \/ UNCHANGED AtomicVars
<1>0. CapsuleInv'
  BY NextInv
<1>1. CASE UNCHANGED vars
  <2>1. /\ Latest' = Latest /\ LatestLog' = LatestLog /\ Discoverable' = Discoverable
        /\ agg' = agg /\ op' = op /\ acked' = acked
    BY <1>1 DEF vars, disk, control, Latest, LatestLog, Discoverable, Marked, StateDoc
  <2> QED
    BY <2>1, StoreStays, ViewStays, Unseen
<1>2. ASSUME NEW s \in Session, Call(s) PROVE Abstract!Next \/ UNCHANGED AtomicVars
  BY <1>0, <1>2, EntrySeen, BeginUnseen DEF Call
<1>3. ASSUME NEW s \in Session, Recover(s) PROVE Abstract!Next \/ UNCHANGED AtomicVars
  BY <1>0, <1>3, RecoverSeen
<1>4. ASSUME NEW s \in Session, Finish(s) PROVE Abstract!Next \/ UNCHANGED AtomicVars
  BY <1>0, <1>4, EntrySeen, BeginUnseen, MarkerSeen, ReturnSeen, CommandSeen DEF Finish
<1>5. CASE (\E s \in Session : Close(s) \/ Abort(s)) \/ (\E p \in Process : Crash(p))
  BY <1>5, EndSeen
<1> QED
  BY <1>1, <1>2, <1>3, <1>4, <1>5 DEF Next

\* It begins empty.
LEMMA StartSeen ==
  ASSUME Init
  PROVE  Abstract!Init
<1>1. ~Discoverable /\ acked = {} /\ agg = [s \in Session |-> NoAgg]
  BY DocsAssumption DEF Init, Discoverable, Docs, Absent
<1>2. AtomicStore = [gen |-> 0, txs |-> {}, log |-> <<>>]
  BY <1>1, StoreIs
<1>3. \A s \in Session : ~agg[s].cached
  BY <1>1 DEF NoAgg
<1>4. AtomicCopy = [s \in Session |-> [gen |-> 0, txs |-> {}, log |-> <<>>]]
  BY <1>3 DEF AtomicCopy, AbstractCopy
<1>5. AtomicStage = [s \in Session |-> "none"]
  BY <1>3 DEF AtomicStage, StageOf
<1> QED
  BY <1>1, <1>2, <1>4, <1>5
  DEF Abstract!Init, Abstract!Empty, AtomicStore, AtomicCopy, AtomicStage, StageOf

\* The files of a capsule, with their locks, markers, recovery, torn lines and crashes, are
\* one atomic, compare-and-swap store to the services built on TaskCapsuleSession.
THEOREM CapsuleIsAtomic == Spec => ImplementsAtomicCapsule
<1>1. Init => Abstract!Init
  BY StartSeen
<1>2. CapsuleInv /\ LogInv /\ [Next]_vars => [Abstract!Next]_(Abstract!vars)
  BY StepSeen DEF Abstract!vars, AtomicVars, AtomicStore, AtomicCopy, AtomicStage, StageOf
<1> QED
  BY <1>1, <1>2, BothHold, PTL DEF Spec, ImplementsAtomicCapsule, Abstract!Spec

(* The project store: what a process still has to do. *)

Doings == {"open", "load", "lookup", "return", "add", "reserve", "again", "match",
           "manifest", "config", "sync", "gitignore", "publish", "migrate", "backup", "upgrade",
           "verify", "documents", "head", "reread", "record"}
StoreSteps == {Do(d) : d \in Doings} \union {Take(l) : l \in Locks} \union {Give(l) : l \in Locks}
Rendering == {"config", "sync", "gitignore"}

\* A step that gives a lock back, or that is replaced by steps that do.
Closes(s, l) == s \in {Give(l)} \union (IF l = "migration" THEN {Do("migrate")} ELSE {})
                               \union (IF l = "identity" THEN {Do("reserve")} ELSE {})

\* The lock is given back before it is taken.
Owed(t, l) == \E i \in DOMAIN t : Closes(t[i], l) /\ \A j \in 1..i - 1 : t[j] # Take(l)
Has(t, d) == \E i \in DOMAIN t : t[i].do = d

\* What may follow a step directly.
Leads(s, t) ==
    /\ Head(t) = Do("config") => s \in {Do("manifest"), Do("publish"), Do("migrate"), Do("backup"),
                                       Give("migration")}
    /\ Head(t) = Do("sync") => s = Do("config")
    /\ Head(t) = Do("gitignore") => s = Do("sync")
    /\ Head(t) \in {Do("publish"), Do("upgrade")} => s = Do("gitignore")
    /\ Head(t) = Give("migration") => s = Do("upgrade")
    /\ Head(t) = Do("record") => s = Do("reread")
    /\ Head(t) = Do("reread") => s = Take("manifest")
    /\ Head(t) = Do("reserve") => s \in {Do("load"), Do("match")}
    /\ Head(t) = Do("migrate") => s = Take("migration")

\* A step may stand before what is to follow it.
Fits(s, t) ==
    /\ s \in StoreSteps
    /\ t # <<>> => Leads(s, t)
    /\ \A l \in Locks : /\ s = Take(l) => Owed(t, l)
                        /\ Closes(s, l) => ~ Owed(t, l)
    /\ s.do \in {"load", "open", "manifest"} => ~ Owed(t, "migration")
    /\ s.do = "load" => ~ Owed(t, "bootstrap")
    /\ s.do \in {"lookup", "add", "reserve", "again", "return"} => t = <<>>
    /\ Has(t, "publish") => s.do \in Rendering /\ Owed(t, "bootstrap")
    /\ Has(t, "upgrade") => s.do \in {"backup"} \union Rendering /\ Owed(t, "migration")
    /\ s = Do("manifest") => Owed(t, "bootstrap")
    /\ s.do \in {"reread", "record"} => Owed(t, "manifest")
    /\ ~ Has(t, "backup")
    /\ s.do = "backup" => Has(t, "upgrade")
    /\ s.do = "publish" => Owed(t, "bootstrap")
    /\ s.do = "upgrade" => Owed(t, "migration")
    /\ s.do \in Rendering => Has(t, "upgrade") \/ Owed(t, "bootstrap")
Sound(t) == \A i \in DOMAIN t : Fits(t[i], SubSeq(t, i + 1, Len(t)))

First(r, step) == r.todo # <<>> /\ Head(r.todo) = step
Creates(t) == \E d \in {"manifest", "publish", "verify"} : Has(t, d)

Workers == [todo : Seq(StoreSteps), found : Ids \union {None}, mine : Ids \union {None},
            seen : Missing..MaxEdits, old : Manifests \union {None}, commit : 0..MaxHead,
            returned : Ids \union {None}]

StoreTypes ==
    /\ original \in {None} \union [schema : {1}, id : {1}, commit : {0}]
    /\ manifest \in {None} \union Manifests
    /\ identity \in {None} \union Ids
    /\ config \in Missing..MaxEdits /\ gitignore \in Missing..MaxEdits
    /\ backups \subseteq Manifests
    /\ holder \in [Locks -> Processes \union {None}]
    /\ head \in 1..MaxHead
    /\ w \in [Processes -> Workers]
    /\ drawn \in Nat

\* What is stored.
StoreIsWhole ==
    /\ manifest # None => manifest.id = identity
    /\ original # None => manifest # None
    /\ Old => manifest = original /\ recorded = 0
    /\ gitignore <= config
    /\ Current => /\ config # Missing /\ gitignore # Missing
                  /\ manifest.commit = recorded
                  /\ original # None => original \in backups

\* What a process knows, by what it still has to do.
HasLocks(p, t) == \A l \in Locks : Owed(t, l) <=> holder[l] = p
KnowsProject(r) ==
    /\ r.found \in {None, identity} /\ r.returned \in {None, identity}
    /\ Creates(r.todo) => r.mine = identity /\ identity # None
    /\ Has(r.todo, "reserve") => r.mine # None
    /\ First(r, Do("reserve")) => (r.found = None <=> identity = None)
KnowsManifest(r) ==
    /\ Has(r.todo, "publish") => manifest = None
    /\ Has(r.todo, "upgrade") => /\ Old /\ r.old = manifest
                                 /\ Has(r.todo, "backup") \/ manifest \in backups
    /\ First(r, Give("migration")) => ~ Old
    /\ First(r, Do("record")) => Current /\ r.old = manifest
KnowsConfig(r) ==
    /\ \A d \in Rendering : First(r, Do(d)) => Has(r.todo, "upgrade") \/ ~ Old
    /\ First(r, Do("sync")) => config # Missing
    /\ First(r, Do("gitignore")) => /\ config # Missing /\ r.seen # Missing
                                    /\ gitignore <= r.seen /\ r.seen <= config
    /\ First(r, Do("publish")) \/ First(r, Do("upgrade")) => config # Missing /\ gitignore # Missing

GoesOn(p, r) ==
    /\ Sound(r.todo)
    /\ HasLocks(p, r.todo) /\ KnowsProject(r) /\ KnowsManifest(r) /\ KnowsConfig(r)

StoreIInv == StoreTypes /\ StoreIsWhole /\ \A p \in Processes : GoesOn(p, w[p])

-----------------------------------------------------------------------------
(* Sequences of steps. *)

Push(s, t) == <<s>> \o t

\* A sequence with a step before it.
LEMMA Pushed ==
  ASSUME NEW s \in StoreSteps, NEW t \in Seq(StoreSteps)
  PROVE  /\ Push(s, t) \in Seq(StoreSteps) /\ Push(s, t) # <<>>
         /\ Head(Push(s, t)) = s /\ Tail(Push(s, t)) = t
         /\ \A d : Has(Push(s, t), d) <=> s.do = d \/ Has(t, d)
         /\ \A l : Owed(Push(s, t), l) <=> Closes(s, l) \/ (s # Take(l) /\ Owed(t, l))
         /\ Sound(Push(s, t)) <=> Fits(s, t) /\ Sound(t)
<1> DEFINE u == Push(s, t)
<1>1. /\ u \in Seq(StoreSteps) /\ Len(u) = Len(t) + 1 /\ u[1] = s
      /\ \A i \in 1..Len(t) : u[i + 1] = t[i]
  BY DEF Push
<1>2. u # <<>> /\ Head(u) = s /\ DOMAIN u = 1..Len(t) + 1 /\ DOMAIN t = 1..Len(t) /\ Len(t) \in Nat
  BY <1>1
<1>3. Tail(u) = t
  BY <1>1, <1>2
<1>4. ASSUME NEW d PROVE Has(u, d) <=> s.do = d \/ Has(t, d)
  <2>1. Has(u, d) <=> \E i \in 1..Len(t) + 1 : u[i].do = d
    BY <1>2 DEF Has
  <2>2. Has(t, d) <=> \E i \in 1..Len(t) : t[i].do = d
    BY <1>2 DEF Has
  <2>3. ASSUME Has(u, d) PROVE s.do = d \/ Has(t, d)
    <3>1. PICK i \in 1..Len(t) + 1 : u[i].do = d
      BY <2>1, <2>3
    <3>2. CASE i = 1
      BY <1>1, <3>1, <3>2
    <3>3. CASE i # 1
      <4>1. i - 1 \in 1..Len(t) /\ (i - 1) + 1 = i
        BY <1>2, <3>1, <3>3
      <4>2. t[i - 1] = u[i]
        BY <1>1, <4>1
      <4> QED
        BY <2>2, <3>1, <4>1, <4>2
    <3> QED
      BY <3>2, <3>3
  <2>4. ASSUME s.do = d \/ Has(t, d) PROVE Has(u, d)
    <3>1. CASE s.do = d
      BY <1>1, <1>2, <2>1, <3>1
    <3>2. CASE Has(t, d)
      <4>1. PICK i \in 1..Len(t) : t[i].do = d
        BY <2>2, <3>2
      <4>2. i + 1 \in 1..Len(t) + 1 /\ u[i + 1].do = d
        BY <1>1, <1>2, <4>1
      <4> QED
        BY <2>1, <4>2
    <3> QED
      BY <2>4, <3>1, <3>2
  <2> QED
    BY <2>3, <2>4
<1>5. ASSUME NEW l PROVE Owed(u, l) <=> Closes(s, l) \/ (s # Take(l) /\ Owed(t, l))
  <2>1. Owed(u, l) <=> \E i \in 1..Len(t) + 1 : Closes(u[i], l) /\ \A j \in 1..i - 1 : u[j] # Take(l)
    BY <1>2 DEF Owed
  <2>2. Owed(t, l) <=> \E i \in 1..Len(t) : Closes(t[i], l) /\ \A j \in 1..i - 1 : t[j] # Take(l)
    BY <1>2 DEF Owed
  <2>3. ASSUME Owed(u, l) PROVE Closes(s, l) \/ (s # Take(l) /\ Owed(t, l))
    <3>1. PICK i \in 1..Len(t) + 1 : Closes(u[i], l) /\ \A j \in 1..i - 1 : u[j] # Take(l)
      BY <2>1, <2>3
    <3>2. CASE i = 1
      BY <1>1, <3>1, <3>2
    <3>3. CASE i # 1
      <4>1. i - 1 \in 1..Len(t) /\ (i - 1) + 1 = i /\ 1 \in 1..i - 1
        BY <1>2, <3>1, <3>3
      <4>2. t[i - 1] = u[i] /\ s # Take(l)
        BY <1>1, <3>1, <4>1
      <4>3. \A j \in 1..(i - 1) - 1 : t[j] # Take(l)
        <5> TAKE j \in 1..(i - 1) - 1
        <5>1. j \in 1..Len(t) /\ j + 1 \in 1..i - 1
          BY <1>2, <3>1, <4>1
        <5> QED
          BY <1>1, <3>1, <5>1
      <4> QED
        BY <2>2, <3>1, <4>1, <4>2, <4>3
    <3> QED
      BY <3>2, <3>3
  <2>4. ASSUME Closes(s, l) \/ (s # Take(l) /\ Owed(t, l)) PROVE Owed(u, l)
    <3>1. CASE Closes(s, l)
      <4>1. 1 \in 1..Len(t) + 1 /\ \A j \in 1..1 - 1 : u[j] # Take(l)
        BY <1>2
      <4> QED
        BY <1>1, <2>1, <3>1, <4>1
    <3>2. CASE s # Take(l) /\ Owed(t, l)
      <4>1. PICK i \in 1..Len(t) : Closes(t[i], l) /\ \A j \in 1..i - 1 : t[j] # Take(l)
        BY <2>2, <3>2
      <4>2. i + 1 \in 1..Len(t) + 1 /\ Closes(u[i + 1], l)
        BY <1>1, <1>2, <4>1
      <4>3. \A j \in 1..(i + 1) - 1 : u[j] # Take(l)
        <5> TAKE j \in 1..(i + 1) - 1
        <5>1. CASE j = 1
          BY <1>1, <3>2, <5>1
        <5>2. CASE j # 1
          <6>1. j - 1 \in 1..i - 1 /\ j - 1 \in 1..Len(t) /\ (j - 1) + 1 = j
            BY <1>2, <4>1, <5>2
          <6> QED
            BY <1>1, <4>1, <6>1
        <5> QED
          BY <5>1, <5>2
      <4> QED
        BY <2>1, <4>2, <4>3
    <3> QED
      BY <2>4, <3>1, <3>2
  <2> QED
    BY <2>3, <2>4
<1>6. SubSeq(u, 1 + 1, Len(u)) = t
  BY <1>1, <1>2
<1>7. \A i \in 1..Len(t) : SubSeq(u, (i + 1) + 1, Len(u)) = SubSeq(t, i + 1, Len(t))
  <2> TAKE i \in 1..Len(t)
  <2> DEFINE a == SubSeq(u, (i + 1) + 1, Len(u))
             b == SubSeq(t, i + 1, Len(t))
  <2>1. \A j \in (i + 1) + 1..Len(u) : u[j] \in StoreSteps
    BY <1>1, <1>2
  <2>2. \A j \in i + 1..Len(t) : t[j] \in StoreSteps
    BY <1>2
  <2>3. Len(u) = Len(t) + 1 /\ Len(t) \in Nat /\ i \in Nat /\ i >= 1 /\ i <= Len(t)
    BY <1>1, <1>2
  <2> HIDE DEF u
  <2>4. /\ a \in Seq(StoreSteps)
        /\ Len(a) = IF (i + 1) + 1 <= Len(u) THEN Len(u) - ((i + 1) + 1) + 1 ELSE 0
        /\ \A j \in 1..Len(u) - ((i + 1) + 1) + 1 : a[j] = u[((i + 1) + 1) + j - 1]
    BY <2>1, <2>3, SubSeqProperties
  <2>5. /\ b \in Seq(StoreSteps)
        /\ Len(b) = IF i + 1 <= Len(t) THEN Len(t) - (i + 1) + 1 ELSE 0
        /\ \A j \in 1..Len(t) - (i + 1) + 1 : b[j] = t[(i + 1) + j - 1]
    BY <2>2, <2>3, SubSeqProperties
  <2> HIDE DEF a, b
  <2>6. Len(a) = Len(t) - i /\ Len(b) = Len(t) - i
    BY <2>3, <2>4, <2>5
  <2>7. \A j \in 1..Len(t) - i : a[j] = b[j]
    <3> TAKE j \in 1..Len(t) - i
    <3>1. a[j] = u[((i + 1) + 1) + j - 1] /\ b[j] = t[(i + 1) + j - 1]
      BY <2>3, <2>4, <2>5
    <3>2. (i + 1) + j - 1 \in 1..Len(t) /\ ((i + 1) + 1) + j - 1 = ((i + 1) + j - 1) + 1
      BY <2>3
    <3> QED
      BY <1>1, <3>1, <3>2
  <2>8. a = b
    BY <2>4, <2>5, <2>6, <2>7, SeqEqual
  <2> QED
    BY <2>8 DEF a, b
<1>8. Sound(u) <=> Fits(s, t) /\ Sound(t)
  <2>1. Sound(u) <=> \A i \in 1..Len(t) + 1 : Fits(u[i], SubSeq(u, i + 1, Len(u)))
    BY <1>2 DEF Sound
  <2>2. Sound(t) <=> \A i \in 1..Len(t) : Fits(t[i], SubSeq(t, i + 1, Len(t)))
    BY <1>2 DEF Sound
  <2>3. ASSUME Sound(u) PROVE Fits(s, t) /\ Sound(t)
    <3>1. Fits(s, t)
      <4>1. Fits(u[1], SubSeq(u, 1 + 1, Len(u)))
        BY <1>2, <2>1, <2>3
      <4> QED
        BY <1>1, <1>6, <4>1
    <3>2. \A i \in 1..Len(t) : Fits(t[i], SubSeq(t, i + 1, Len(t)))
      <4> TAKE i \in 1..Len(t)
      <4>1. i + 1 \in 1..Len(t) + 1
        BY <1>2
      <4>2. Fits(u[i + 1], SubSeq(u, (i + 1) + 1, Len(u)))
        BY <2>1, <2>3, <4>1
      <4>3. u[i + 1] = t[i] /\ SubSeq(u, (i + 1) + 1, Len(u)) = SubSeq(t, i + 1, Len(t))
        BY <1>1, <1>7
      <4> QED
        BY <4>2, <4>3
    <3> QED
      BY <2>2, <3>1, <3>2
  <2>4. ASSUME Fits(s, t), Sound(t) PROVE Sound(u)
    <3>1. \A i \in 1..Len(t) + 1 : Fits(u[i], SubSeq(u, i + 1, Len(u)))
      <4> TAKE i \in 1..Len(t) + 1
      <4>1. CASE i = 1
        BY <1>1, <1>6, <2>4, <4>1
      <4>2. CASE i # 1
        <5> DEFINE k == i - 1
        <5>1. k \in 1..Len(t) /\ k + 1 = i
          BY <1>2, <4>2
        <5>2. u[k + 1] = t[k] /\ SubSeq(u, (k + 1) + 1, Len(u)) = SubSeq(t, k + 1, Len(t))
          BY <1>1, <1>7, <5>1
        <5>3. Fits(t[k], SubSeq(t, k + 1, Len(t)))
          BY <2>2, <2>4, <5>1
        <5> QED
          BY <5>1, <5>2, <5>3
      <4> QED
        BY <4>1, <4>2
    <3> QED
      BY <2>1, <3>1
  <2> QED
    BY <2>3, <2>4
<1> QED
  BY <1>1, <1>2, <1>3, <1>4, <1>5, <1>8

\* A sequence that is not empty is one with a step before it.
LEMMA Popped ==
  ASSUME NEW t \in Seq(StoreSteps), t # <<>>
  PROVE  /\ Head(t) \in StoreSteps /\ Tail(t) \in Seq(StoreSteps)
         /\ t = Push(Head(t), Tail(t))
<1>1. Head(t) \in StoreSteps /\ Tail(t) \in Seq(StoreSteps)
  BY HeadTailProperties
<1> DEFINE u == Push(Head(t), Tail(t))
<1>2. u \in Seq(StoreSteps) /\ Len(u) = Len(t)
  BY <1>1 DEF Push
<1>3. \A i \in 1..Len(u) : u[i] = t[i]
  BY <1>1, <1>2 DEF Push
<1> HIDE DEF u
<1>4. u = t
  BY <1>2, <1>3, SeqEqual
<1> QED
  BY <1>1, <1>4 DEF u

\* Nothing is to be done.
LEMMA Nothing ==
  /\ <<>> \in Seq(StoreSteps) /\ Sound(<<>>)
  /\ \A d : ~ Has(<<>>, d)
  /\ \A l : ~ Owed(<<>>, l)
  /\ \A t \in Seq(StoreSteps) : <<>> \o t = t /\ t \o <<>> = t
BY ConcatEmptySeq DEF Sound, Has, Owed

\* Steps are told apart by their names.
LEMMA StepNames ==
  /\ \A d \in Doings : Do(d) \in StoreSteps /\ Do(d).do = d
  /\ \A l \in Locks : Take(l) \in StoreSteps /\ Give(l) \in StoreSteps
  /\ \A l : Take(l).do = "take" /\ Give(l).do = "give"
  /\ \A l, k : /\ Take(l) # Give(k) /\ (Take(l) = Take(k) <=> l = k) /\ (Give(l) = Give(k) <=> l = k)
  /\ \A d, e : Do(d) = Do(e) <=> d = e
  /\ \A d \in Doings : \A l : Do(d) # Take(l) /\ Do(d) # Give(l)
BY DEF StoreSteps, Do, Take, Give, Doings, Locks

\* The names of steps, as operations are built from them.
LEMMA Built ==
  ASSUME NEW t \in Seq(StoreSteps)
  PROVE  /\ Sync \o t = Push(Do("config"), Push(Do("sync"), Push(Do("gitignore"), t)))
         /\ Publish \o t = Sync \o Push(Do("publish"), t)
         /\ Bootstrap \o t =
                Push(Take("bootstrap"), Push(Do("manifest"), Sync \o Push(Give("bootstrap"), t)))
         /\ Migrate \o t = Push(Take("migration"), Push(Do("migrate"), t))
         /\ Upgrade \o t =
                Push(Do("backup"), Sync \o Push(Do("upgrade"), Push(Give("migration"), t)))
         /\ Record \o t = Push(Do("head"), Push(Take("manifest"), Push(Do("reread"),
                              Push(Do("record"), Push(Give("manifest"), t)))))
         /\ Describe \o t = Bootstrap \o Push(Do("verify"), Push(Do("documents"), Record \o t))
         /\ Reserve \o t = Push(Take("identity"), Push(Do("load"), Push(Do("reserve"), t)))
<1>1. /\ Sync \in Seq(StoreSteps) /\ Publish \in Seq(StoreSteps) /\ Bootstrap \in Seq(StoreSteps)
      /\ Migrate \in Seq(StoreSteps) /\ Upgrade \in Seq(StoreSteps) /\ Record \in Seq(StoreSteps)
  BY StepNames DEF Sync, Publish, Bootstrap, Migrate, Upgrade, Record, Doings, Locks
<1>2. ASSUME NEW a \in Seq(StoreSteps), NEW b \in Seq(StoreSteps), NEW c \in Seq(StoreSteps)
      PROVE  (a \o b) \o c = a \o (b \o c) /\ a \o b \in Seq(StoreSteps)
  BY ConcatAssociative, ConcatProperties
<1>3. \A s \in StoreSteps : <<s>> \in Seq(StoreSteps)
  OBVIOUS
<1>4. \A s \in StoreSteps, u \in Seq(StoreSteps) : Push(s, u) \in Seq(StoreSteps)
  BY Pushed
<1>5. Sync \o t = Push(Do("config"), Push(Do("sync"), Push(Do("gitignore"), t)))
  <2>1. Sync = <<Do("config")>> \o (<<Do("sync")>> \o <<Do("gitignore")>>)
    BY DEF Sync
  <2> QED
    BY <1>2, <1>3, <2>1, StepNames DEF Push, Doings
<1>6. Publish \o t = Sync \o Push(Do("publish"), t)
  <2>1. Publish = Sync \o <<Do("publish")>> /\ <<Do("publish")>> \in Seq(StoreSteps)
    BY <1>3, StepNames DEF Publish, Doings
  <2>2. (Sync \o <<Do("publish")>>) \o t = Sync \o (<<Do("publish")>> \o t)
    BY <1>1, <2>1, ConcatAssociative, SMTT(30)
  <2> QED
    BY <2>1, <2>2 DEF Push
<1>7. Bootstrap \o t =
          Push(Take("bootstrap"), Push(Do("manifest"), Sync \o Push(Give("bootstrap"), t)))
  <2>1. Bootstrap = <<Take("bootstrap")>> \o (<<Do("manifest")>> \o (Sync \o <<Give("bootstrap")>>))
    <3> DEFINE a == <<Take("bootstrap")>>
               b == <<Do("manifest")>>
               c == <<Give("bootstrap")>>
    <3>1. a \in Seq(StoreSteps) /\ b \in Seq(StoreSteps) /\ c \in Seq(StoreSteps)
      BY <1>3, StepNames DEF Doings, Locks
    <3>2. <<Take("bootstrap"), Do("manifest")>> = a \o b
      OBVIOUS
    <3>3. Bootstrap = ((a \o b) \o Sync) \o c
      BY <3>2 DEF Bootstrap
    <3> HIDE DEF a, b, c
    <3>4. a \o b \in Seq(StoreSteps) /\ Sync \o c \in Seq(StoreSteps)
      BY <1>1, <3>1, ConcatProperties
    <3>5. ((a \o b) \o Sync) \o c = (a \o b) \o (Sync \o c)
      <4> DEFINE ab == a \o b
      <4> HIDE DEF ab
      <4>1. ab \in Seq(StoreSteps)
        BY <3>4 DEF ab
      <4>2. Sync \in Seq(StoreSteps) /\ c \in Seq(StoreSteps)
        BY <1>1, <3>1
      <4>3. (ab \o Sync) \o c = ab \o (Sync \o c)
        BY <4>1, <4>2, ConcatAssociative
      <4> QED
        BY <4>3 DEF ab
    <3>6. (a \o b) \o (Sync \o c) = a \o (b \o (Sync \o c))
      <4> DEFINE sc == Sync \o c
      <4> HIDE DEF sc
      <4>1. sc \in Seq(StoreSteps)
        BY <3>4 DEF sc
      <4>2. (a \o b) \o sc = a \o (b \o sc)
        BY <3>1, <4>1, ConcatAssociative, SMTT(30)
      <4> QED
        BY <4>2 DEF sc
    <3> QED
      BY <3>3, <3>5, <3>6 DEF a, b, c
  <2>2. /\ <<Take("bootstrap")>> \in Seq(StoreSteps) /\ <<Do("manifest")>> \in Seq(StoreSteps)
        /\ <<Give("bootstrap")>> \in Seq(StoreSteps)
        /\ Sync \o <<Give("bootstrap")>> \in Seq(StoreSteps)
        /\ <<Do("manifest")>> \o (Sync \o <<Give("bootstrap")>>) \in Seq(StoreSteps)
    BY <1>1, <1>3, StepNames DEF Doings, Locks
  <2>3. Bootstrap \o t =
          <<Take("bootstrap")>> \o ((<<Do("manifest")>> \o (Sync \o <<Give("bootstrap")>>)) \o t)
    BY <1>2, <2>1, <2>2
  <2>4. (<<Do("manifest")>> \o (Sync \o <<Give("bootstrap")>>)) \o t =
          <<Do("manifest")>> \o ((Sync \o <<Give("bootstrap")>>) \o t)
    BY <1>2, <2>2
  <2>5. (Sync \o <<Give("bootstrap")>>) \o t = Sync \o (<<Give("bootstrap")>> \o t)
    BY <1>1, <1>2, <2>2, SMTT(30)
  <2> QED
    BY <2>3, <2>4, <2>5 DEF Push
<1>8. Migrate \o t = Push(Take("migration"), Push(Do("migrate"), t))
  BY <1>2, <1>3, StepNames DEF Migrate, Push, Doings, Locks
<1>9. Upgrade \o t = Push(Do("backup"), Sync \o Push(Do("upgrade"), Push(Give("migration"), t)))
  <2>1. /\ <<Do("backup")>> \in Seq(StoreSteps) /\ <<Do("upgrade")>> \in Seq(StoreSteps)
        /\ <<Give("migration")>> \in Seq(StoreSteps)
        /\ <<Do("upgrade"), Give("migration")>> \in Seq(StoreSteps)
    BY <1>3, StepNames DEF Doings, Locks
  <2>2. /\ <<Do("upgrade"), Give("migration")>> = <<Do("upgrade")>> \o <<Give("migration")>>
        /\ Upgrade = (<<Do("backup")>> \o Sync) \o <<Do("upgrade"), Give("migration")>>
    BY DEF Upgrade
  <2>3. Upgrade \o t = (<<Do("backup")>> \o Sync) \o (<<Do("upgrade"), Give("migration")>> \o t)
    <3>1. <<Do("backup")>> \o Sync \in Seq(StoreSteps)
      BY <1>1, <2>1
    <3> QED
      BY <1>2, <2>1, <2>2, <3>1
  <2>4. <<Do("upgrade"), Give("migration")>> \o t = Push(Do("upgrade"), Push(Give("migration"), t))
    BY <1>2, <2>1, <2>2 DEF Push
  <2>5. Push(Do("upgrade"), Push(Give("migration"), t)) \in Seq(StoreSteps)
    BY <1>4, StepNames DEF Doings, Locks
  <2> QED
    <3>1. (<<Do("backup")>> \o Sync) \o Push(Do("upgrade"), Push(Give("migration"), t)) =
              <<Do("backup")>> \o (Sync \o Push(Do("upgrade"), Push(Give("migration"), t)))
      <4> DEFINE a == <<Do("backup")>>
                 v == Push(Do("upgrade"), Push(Give("migration"), t))
      <4>1. a \in Seq(StoreSteps) /\ v \in Seq(StoreSteps)
        BY <2>1, <2>5
      <4> HIDE DEF a, v
      <4>2. Sync \in Seq(StoreSteps)
        BY <1>1
      <4>3. (a \o Sync) \o v = a \o (Sync \o v)
        BY <4>1, <4>2, ConcatAssociative
      <4> QED
        BY <4>3 DEF a, v
    <3> QED
      BY <2>3, <2>4, <3>1, Zenon DEF Push
<1>10. Record \o t = Push(Do("head"), Push(Take("manifest"), Push(Do("reread"),
                              Push(Do("record"), Push(Give("manifest"), t)))))
  <2> DEFINE a == <<Do("head"), Take("manifest"), Do("reread")>>
             b == <<Do("record"), Give("manifest")>>
  <2>1. /\ Record = a \o b /\ a \in Seq(StoreSteps) /\ b \in Seq(StoreSteps)
        /\ b = <<Do("record")>> \o <<Give("manifest")>>
    BY StepNames DEF Record, Doings, Locks
  <2>2. b \o t = Push(Do("record"), Push(Give("manifest"), t)) /\ b \o t \in Seq(StoreSteps)
    BY <1>2, <1>3, <2>1, StepNames DEF Push, Doings, Locks
  <2>3. ASSUME NEW v \in Seq(StoreSteps)
        PROVE  a \o v = Push(Do("head"), Push(Take("manifest"), Push(Do("reread"), v)))
    <3>1. /\ a = <<Do("head")>> \o (<<Take("manifest")>> \o <<Do("reread")>>)
          /\ <<Take("manifest")>> \o <<Do("reread")>> \in Seq(StoreSteps)
      BY StepNames DEF Doings, Locks
    <3> QED
      BY <1>2, <1>3, <3>1, StepNames DEF Push, Doings, Locks
  <2>4. Record \o t = a \o (b \o t)
    BY <1>2, <2>1
  <2> QED
    BY <2>2, <2>3, <2>4
<1>11. Describe \o t = Bootstrap \o Push(Do("verify"), Push(Do("documents"), Record \o t))
  <2> DEFINE a == <<Do("verify"), Do("documents")>>
  <2>1. /\ Describe = (Bootstrap \o a) \o Record /\ a \in Seq(StoreSteps)
        /\ a = <<Do("verify")>> \o <<Do("documents")>>
    BY StepNames DEF Describe, Doings
  <2>2. Record \o t \in Seq(StoreSteps) /\ Bootstrap \o a \in Seq(StoreSteps)
    BY <1>1, <2>1
  <2>3. a \o (Record \o t) = Push(Do("verify"), Push(Do("documents"), Record \o t))
    BY <1>2, <1>3, <2>1, <2>2, StepNames, SMTT(30) DEF Push, Doings
  <2> HIDE DEF a
  <2>4. ((Bootstrap \o a) \o Record) \o t = (Bootstrap \o a) \o (Record \o t)
    <3> DEFINE b == Bootstrap \o a
    <3>1. b \in Seq(StoreSteps)
      BY <2>2
    <3> HIDE DEF b
    <3>2. Record \in Seq(StoreSteps)
      BY <1>1
    <3>3. (b \o Record) \o t = b \o (Record \o t)
      BY <3>1, <3>2, ConcatAssociative
    <3> QED
      BY <3>3 DEF b
  <2>5. (Bootstrap \o a) \o (Record \o t) = Bootstrap \o (a \o (Record \o t))
    <3> DEFINE r == Record \o t
    <3>1. r \in Seq(StoreSteps)
      BY <2>2
    <3> HIDE DEF r
    <3>2. Bootstrap \in Seq(StoreSteps) /\ a \in Seq(StoreSteps)
      BY <1>1, <2>1
    <3>3. (Bootstrap \o a) \o r = Bootstrap \o (a \o r)
      BY <3>1, <3>2, ConcatAssociative
    <3> QED
      BY <3>3 DEF r
  <2> QED
    BY <2>1, <2>3, <2>4, <2>5, Zenon
<1>12. Reserve \o t = Push(Take("identity"), Push(Do("load"), Push(Do("reserve"), t)))
  <2>1. /\ Reserve = <<Take("identity")>> \o (<<Do("load")>> \o <<Do("reserve")>>)
        /\ <<Do("load")>> \o <<Do("reserve")>> \in Seq(StoreSteps)
    BY StepNames DEF Reserve, Doings, Locks
  <2> QED
    BY <1>2, <1>3, <2>1, StepNames DEF Push, Doings, Locks
<1> QED
  BY <1>5, <1>6, <1>7, <1>8, <1>9, <1>10, <1>11, <1>12

\* What a step gives back.
LEMMA Closing ==
  /\ \A d \in Doings : \A l :
         Closes(Do(d), l) <=> (d = "migrate" /\ l = "migration") \/ (d = "reserve" /\ l = "identity")
  /\ \A k, l : ~ Closes(Take(k), l) /\ (Closes(Give(k), l) <=> k = l)
  /\ \A d \in Doings : \A k : Do(d) # Take(k) /\ Do(d) # Give(k)
BY StepNames DEF Closes, Doings

\* What a step may precede directly.
LEMMA Leading ==
  ASSUME NEW t
  PROVE  /\ \A d \in Doings :
               Leads(Do(d), t) <=>
                   /\ Head(t) = Do("config") => d \in {"manifest", "publish", "migrate", "backup"}
                   /\ Head(t) = Do("sync") => d = "config"
                   /\ Head(t) = Do("gitignore") => d = "sync"
                   /\ Head(t) \in {Do("publish"), Do("upgrade")} => d = "gitignore"
                   /\ Head(t) = Give("migration") => d = "upgrade"
                   /\ Head(t) = Do("record") => d = "reread"
                   /\ Head(t) # Do("reread") /\ Head(t) # Do("migrate")
                   /\ Head(t) = Do("reserve") => d \in {"load", "match"}
         /\ \A l : Leads(Take(l), t) <=>
                   /\ Head(t) \notin {Do(d) : d \in {"config", "sync", "gitignore", "publish",
                                                     "upgrade", "record", "reserve"}}
                   /\ Head(t) # Give("migration")
                   /\ Head(t) = Do("reread") => l = "manifest"
                   /\ Head(t) = Do("migrate") => l = "migration"
         /\ \A l : Leads(Give(l), t) <=>
                   /\ Head(t) \notin {Do(d) : d \in {"sync", "gitignore", "publish", "upgrade",
                                                     "record", "reread", "reserve", "migrate"}}
                   /\ Head(t) = Do("config") => l = "migration"
                   /\ Head(t) # Give("migration")
<1>1. /\ \A d, e : Do(d) = Do(e) <=> d = e
      /\ \A d \in Doings : \A k : Do(d) # Take(k) /\ Do(d) # Give(k)
      /\ \A l, k : Take(l) # Give(k) /\ (Take(l) = Take(k) <=> l = k) /\ (Give(l) = Give(k) <=> l = k)
  BY StepNames
<1>2. {"config", "sync", "gitignore", "publish", "upgrade", "record", "reread", "reserve",
       "migrate", "manifest", "backup", "load", "match"} \subseteq Doings
  BY DEF Doings
<1>3. ASSUME NEW d \in Doings
      PROVE  Leads(Do(d), t) <=>
                   /\ Head(t) = Do("config") => d \in {"manifest", "publish", "migrate", "backup"}
                   /\ Head(t) = Do("sync") => d = "config"
                   /\ Head(t) = Do("gitignore") => d = "sync"
                   /\ Head(t) \in {Do("publish"), Do("upgrade")} => d = "gitignore"
                   /\ Head(t) = Give("migration") => d = "upgrade"
                   /\ Head(t) = Do("record") => d = "reread"
                   /\ Head(t) # Do("reread") /\ Head(t) # Do("migrate")
                   /\ Head(t) = Do("reserve") => d \in {"load", "match"}
  BY <1>1, <1>2 DEF Leads
<1>4. ASSUME NEW l
      PROVE  Leads(Take(l), t) <=>
                   /\ Head(t) \notin {Do(d) : d \in {"config", "sync", "gitignore", "publish",
                                                     "upgrade", "record", "reserve"}}
                   /\ Head(t) # Give("migration")
                   /\ Head(t) = Do("reread") => l = "manifest"
                   /\ Head(t) = Do("migrate") => l = "migration"
  BY <1>1, <1>2 DEF Leads
<1>5. ASSUME NEW l
      PROVE  Leads(Give(l), t) <=>
                   /\ Head(t) \notin {Do(d) : d \in {"sync", "gitignore", "publish", "upgrade",
                                                     "record", "reread", "reserve", "migrate"}}
                   /\ Head(t) = Do("config") => l = "migration"
                   /\ Head(t) # Give("migration")
  BY <1>1, <1>2 DEF Leads
<1> QED
  BY <1>3, <1>4, <1>5

Unfinished(t) == Has(t, "publish") \/ Has(t, "upgrade") \/ Has(t, "backup")

\* What a step adds to what is to follow it.
LEMMA Doing ==
  ASSUME NEW d \in Doings, NEW t \in Seq(StoreSteps)
  PROVE  /\ Push(Do(d), t) \in Seq(StoreSteps) /\ Push(Do(d), t) # <<>>
         /\ Head(Push(Do(d), t)) = Do(d) /\ Tail(Push(Do(d), t)) = t
         /\ \A e : Has(Push(Do(d), t), e) <=> d = e \/ Has(t, e)
         /\ \A l : Owed(Push(Do(d), t), l) <=> \/ d = "migrate" /\ l = "migration"
                                               \/ d = "reserve" /\ l = "identity"
                                               \/ Owed(t, l)
         /\ Sound(Push(Do(d), t)) <=> Fits(Do(d), t) /\ Sound(t)
<1> DEFINE s == Do(d)
<1>1. s \in StoreSteps /\ s.do = d
  BY StepNames
<1>2. \A l : /\ s # Take(l)
             /\ Closes(s, l) <=> \/ d = "migrate" /\ l = "migration"
                                 \/ d = "reserve" /\ l = "identity"
  BY Closing
<1> HIDE DEF s
<1>3. /\ Push(s, t) \in Seq(StoreSteps) /\ Push(s, t) # <<>>
      /\ Head(Push(s, t)) = s /\ Tail(Push(s, t)) = t
      /\ \A e : Has(Push(s, t), e) <=> d = e \/ Has(t, e)
      /\ \A l : Owed(Push(s, t), l) <=> Closes(s, l) \/ (s # Take(l) /\ Owed(t, l))
      /\ Sound(Push(s, t)) <=> Fits(s, t) /\ Sound(t)
  BY <1>1, Pushed
<1> QED
  BY <1>2, <1>3 DEF s

\* What a step may precede.
LEMMA DoingFits ==
  ASSUME NEW d \in Doings, NEW t \in Seq(StoreSteps)
  PROVE  Fits(Do(d), t) <=>
           /\ t # <<>> => Leads(Do(d), t)
           /\ d = "migrate" => ~ Owed(t, "migration")
           /\ d = "reserve" => ~ Owed(t, "identity")
           /\ d \in {"load", "open", "manifest"} => ~ Owed(t, "migration")
           /\ d = "load" => ~ Owed(t, "bootstrap")
           /\ d \in {"lookup", "add", "reserve", "again", "return"} => t = <<>>
           /\ Has(t, "publish") => d \in Rendering /\ Owed(t, "bootstrap")
           /\ Has(t, "upgrade") => d \in {"backup"} \union Rendering /\ Owed(t, "migration")
           /\ d = "manifest" => Owed(t, "bootstrap")
           /\ d \in {"reread", "record"} => Owed(t, "manifest")
           /\ ~ Has(t, "backup")
           /\ d = "backup" => Has(t, "upgrade")
           /\ d = "publish" => Owed(t, "bootstrap")
           /\ d = "upgrade" => Owed(t, "migration")
           /\ d \in Rendering => Has(t, "upgrade") \/ Owed(t, "bootstrap")
<1> DEFINE s == Do(d)
<1>1. s \in StoreSteps /\ s.do = d /\ (s = Do("manifest") <=> d = "manifest")
  BY StepNames
<1>2. \A l : /\ s # Take(l)
             /\ Closes(s, l) <=> \/ d = "migrate" /\ l = "migration"
                                 \/ d = "reserve" /\ l = "identity"
  BY Closing
<1>3. {"migration", "identity"} \subseteq Locks
  BY DEF Locks
<1> HIDE DEF s
<1>4. Fits(s, t) <=>
               /\ t # <<>> => Leads(s, t)
               /\ d = "migrate" => ~ Owed(t, "migration")
               /\ d = "reserve" => ~ Owed(t, "identity")
               /\ d \in {"load", "open", "manifest"} => ~ Owed(t, "migration")
               /\ d = "load" => ~ Owed(t, "bootstrap")
               /\ d \in {"lookup", "add", "reserve", "again", "return"} => t = <<>>
               /\ Has(t, "publish") => d \in Rendering /\ Owed(t, "bootstrap")
               /\ Has(t, "upgrade") => d \in {"backup"} \union Rendering /\ Owed(t, "migration")
               /\ d = "manifest" => Owed(t, "bootstrap")
               /\ d \in {"reread", "record"} => Owed(t, "manifest")
               /\ ~ Has(t, "backup")
               /\ d = "backup" => Has(t, "upgrade")
               /\ d = "publish" => Owed(t, "bootstrap")
               /\ d = "upgrade" => Owed(t, "migration")
               /\ d \in Rendering => Has(t, "upgrade") \/ Owed(t, "bootstrap")
  BY <1>1, <1>2, <1>3 DEF Fits
<1> QED
  BY <1>4 DEF s

\* The same, of a step that takes a lock.
LEMMA Taking ==
  ASSUME NEW k \in Locks, NEW t \in Seq(StoreSteps)
  PROVE  /\ Push(Take(k), t) \in Seq(StoreSteps) /\ Push(Take(k), t) # <<>>
         /\ Head(Push(Take(k), t)) = Take(k) /\ Tail(Push(Take(k), t)) = t
         /\ \A e : Has(Push(Take(k), t), e) <=> e = "take" \/ Has(t, e)
         /\ \A l : Owed(Push(Take(k), t), l) <=> k # l /\ Owed(t, l)
         /\ Sound(Push(Take(k), t)) <=> Fits(Take(k), t) /\ Sound(t)
         /\ Fits(Take(k), t) <=> /\ t # <<>> => Leads(Take(k), t)
                                 /\ Owed(t, k) /\ ~ Unfinished(t)
<1> DEFINE s == Take(k)
<1>1. s \in StoreSteps /\ s.do = "take" /\ s # Do("manifest")
  BY StepNames DEF Doings
<1>2. \A l : ~ Closes(s, l) /\ (s = Take(l) <=> k = l)
  BY Closing, StepNames
<1> HIDE DEF s
<1>3. /\ Push(s, t) \in Seq(StoreSteps) /\ Push(s, t) # <<>>
      /\ Head(Push(s, t)) = s /\ Tail(Push(s, t)) = t
      /\ \A e : Has(Push(s, t), e) <=> e = "take" \/ Has(t, e)
      /\ \A l : Owed(Push(s, t), l) <=> Closes(s, l) \/ (s # Take(l) /\ Owed(t, l))
      /\ Sound(Push(s, t)) <=> Fits(s, t) /\ Sound(t)
  BY <1>1, Pushed
<1>4. Fits(s, t) <=> (t # <<>> => Leads(s, t)) /\ Owed(t, k) /\ ~ Unfinished(t)
  BY <1>1, <1>2 DEF Fits, Rendering, Unfinished
<1> QED
  BY <1>2, <1>3, <1>4 DEF s

\* The same, of a step that gives a lock back.
LEMMA Giving ==
  ASSUME NEW k \in Locks, NEW t \in Seq(StoreSteps)
  PROVE  /\ Push(Give(k), t) \in Seq(StoreSteps) /\ Push(Give(k), t) # <<>>
         /\ Head(Push(Give(k), t)) = Give(k) /\ Tail(Push(Give(k), t)) = t
         /\ \A e : Has(Push(Give(k), t), e) <=> e = "give" \/ Has(t, e)
         /\ \A l : Owed(Push(Give(k), t), l) <=> k = l \/ Owed(t, l)
         /\ Sound(Push(Give(k), t)) <=> Fits(Give(k), t) /\ Sound(t)
         /\ Fits(Give(k), t) <=> /\ t # <<>> => Leads(Give(k), t)
                                 /\ ~ Owed(t, k) /\ ~ Unfinished(t)
<1> DEFINE s == Give(k)
<1>1. s \in StoreSteps /\ s.do = "give" /\ s # Do("manifest")
  BY StepNames DEF Doings
<1>2. \A l : s # Take(l) /\ (Closes(s, l) <=> k = l)
  BY Closing, StepNames
<1> HIDE DEF s
<1>3. /\ Push(s, t) \in Seq(StoreSteps) /\ Push(s, t) # <<>>
      /\ Head(Push(s, t)) = s /\ Tail(Push(s, t)) = t
      /\ \A e : Has(Push(s, t), e) <=> e = "give" \/ Has(t, e)
      /\ \A l : Owed(Push(s, t), l) <=> Closes(s, l) \/ (s # Take(l) /\ Owed(t, l))
      /\ Sound(Push(s, t)) <=> Fits(s, t) /\ Sound(t)
  BY <1>1, Pushed
<1>4. Fits(s, t) <=> (t # <<>> => Leads(s, t)) /\ ~ Owed(t, k) /\ ~ Unfinished(t)
  BY <1>1, <1>2 DEF Fits, Rendering, Unfinished
<1> QED
  BY <1>2, <1>3, <1>4 DEF s

\* What may follow any step, and what a rendering may also follow.
Special == {Do(d) : d \in {"sync", "gitignore", "publish", "upgrade", "record", "reread",
                           "reserve", "migrate"}} \union {Give("migration")}
Opens(t) == t = <<>> \/ Head(t) \notin Special
Plain(t) == t = <<>> \/ Head(t) \notin Special \union {Do("config")}

\* After a plain step.
LEMMA PlainLeads ==
  ASSUME NEW t, t # <<>>
  PROVE  /\ Opens(t) => /\ \A d \in {"manifest", "publish", "migrate", "backup"} : Leads(Do(d), t)
                        /\ Leads(Give("migration"), t)
         /\ Plain(t) => /\ \A d \in Doings : Leads(Do(d), t)
                        /\ \A l : Leads(Take(l), t) /\ Leads(Give(l), t)
<1>1. {"manifest", "publish", "migrate", "backup"} \subseteq Doings
  BY DEF Doings
<1> QED
  BY <1>1, Leading DEF Opens, Plain, Special

\* The rendering, before what follows it.
LEMMA SyncPush ==
  ASSUME NEW t \in Seq(StoreSteps), t # <<>>, Sound(t),
         Head(t) \in {Do("publish"), Do("upgrade"), Give("bootstrap")},
         Has(t, "upgrade") \/ Owed(t, "bootstrap"), ~ Has(t, "backup"),
         Has(t, "publish") => Owed(t, "bootstrap"), Has(t, "upgrade") => Owed(t, "migration")
  PROVE  /\ Sync \o t \in Seq(StoreSteps) /\ Sync \o t # <<>> /\ Head(Sync \o t) = Do("config")
         /\ Sound(Sync \o t)
         /\ \A d : Has(Sync \o t, d) <=> d \in Rendering \/ Has(t, d)
         /\ \A l : Owed(Sync \o t, l) <=> Owed(t, l)
<1> DEFINE a == Push(Do("gitignore"), t)
           b == Push(Do("sync"), a)
           c == Push(Do("config"), b)
<1>1. "gitignore" \in Doings /\ "sync" \in Doings /\ "config" \in Doings
  BY DEF Doings
<1>2. Leads(Do("gitignore"), t)
  BY StepNames DEF Leads, Doings
<1>3. /\ a \in Seq(StoreSteps) /\ a # <<>> /\ Head(a) = Do("gitignore") /\ Sound(a)
      /\ \A d : Has(a, d) <=> d = "gitignore" \/ Has(t, d)
      /\ \A l : Owed(a, l) <=> Owed(t, l)
  <2>1. Fits(Do("gitignore"), t)
    BY <1>1, <1>2, DoingFits DEF Rendering
  <2> QED
    BY <1>1, <2>1, Doing
<1> HIDE DEF a
<1>4. Leads(Do("sync"), a)
  BY <1>3, StepNames DEF Leads, Doings
<1>5. /\ b \in Seq(StoreSteps) /\ b # <<>> /\ Head(b) = Do("sync") /\ Sound(b)
      /\ \A d : Has(b, d) <=> d \in {"sync", "gitignore"} \/ Has(t, d)
      /\ \A l : Owed(b, l) <=> Owed(t, l)
  <2>1. Fits(Do("sync"), a)
    BY <1>1, <1>3, <1>4, DoingFits DEF Rendering
  <2> QED
    BY <1>1, <1>3, <2>1, Doing
<1> HIDE DEF b
<1>6. Leads(Do("config"), b)
  BY <1>5, StepNames DEF Leads, Doings
<1>7. /\ c \in Seq(StoreSteps) /\ c # <<>> /\ Head(c) = Do("config") /\ Sound(c)
      /\ \A d : Has(c, d) <=> d \in Rendering \/ Has(t, d)
      /\ \A l : Owed(c, l) <=> Owed(t, l)
  <2>1. Fits(Do("config"), b)
    BY <1>1, <1>5, <1>6, DoingFits DEF Rendering
  <2> QED
    BY <1>1, <1>5, <2>1, Doing DEF Rendering
<1>8. c = Sync \o t
  BY Built DEF a, b
<1> HIDE DEF c
<1> QED
  BY <1>7, <1>8

\* A bootstrap, before what follows it.
LEMMA BootstrapPush ==
  ASSUME NEW t \in Seq(StoreSteps), Sound(t), Plain(t), ~ Unfinished(t),
         ~ Owed(t, "bootstrap"), ~ Owed(t, "migration")
  PROVE  /\ Bootstrap \o t \in Seq(StoreSteps) /\ Bootstrap \o t # <<>>
         /\ Head(Bootstrap \o t) = Take("bootstrap")
         /\ Sound(Bootstrap \o t)
         /\ \A d : Has(Bootstrap \o t, d) <=>
                       d \in {"take", "manifest", "give"} \union Rendering \/ Has(t, d)
         /\ \A l : Owed(Bootstrap \o t, l) <=> Owed(t, l)
<1> DEFINE a == Push(Give("bootstrap"), t)
           b == Sync \o a
           c == Push(Do("manifest"), b)
           u == Push(Take("bootstrap"), c)
<1>1. "manifest" \in Doings /\ "bootstrap" \in Locks
  BY DEF Doings, Locks
<1>2. t # <<>> => Leads(Give("bootstrap"), t)
  BY PlainLeads
<1>3. /\ a \in Seq(StoreSteps) /\ a # <<>> /\ Head(a) = Give("bootstrap") /\ Sound(a)
      /\ \A d : Has(a, d) <=> d = "give" \/ Has(t, d)
      /\ \A l : Owed(a, l) <=> l = "bootstrap" \/ Owed(t, l)
  BY <1>1, <1>2, Giving
<1> HIDE DEF a
<1>4. /\ b \in Seq(StoreSteps) /\ b # <<>> /\ Head(b) = Do("config") /\ Sound(b)
      /\ \A d : Has(b, d) <=> d \in {"give"} \union Rendering \/ Has(t, d)
      /\ \A l : Owed(b, l) <=> l = "bootstrap" \/ Owed(t, l)
  BY <1>3, SyncPush DEF Unfinished
<1> HIDE DEF b
<1>5. Leads(Do("manifest"), b)
  BY <1>4, StepNames DEF Leads, Doings
<1>6. /\ c \in Seq(StoreSteps) /\ c # <<>> /\ Head(c) = Do("manifest") /\ Sound(c)
      /\ \A d : Has(c, d) <=> d \in {"manifest", "give"} \union Rendering \/ Has(t, d)
      /\ \A l : Owed(c, l) <=> l = "bootstrap" \/ Owed(t, l)
  <2>1. Fits(Do("manifest"), b)
    BY <1>1, <1>4, <1>5, DoingFits DEF Unfinished, Rendering
  <2> QED
    BY <1>1, <1>4, <2>1, Doing
<1> HIDE DEF c
<1>7. Leads(Take("bootstrap"), c)
  BY <1>6, StepNames DEF Leads, Doings
<1>8. /\ u \in Seq(StoreSteps) /\ u # <<>> /\ Head(u) = Take("bootstrap") /\ Sound(u)
      /\ \A d : Has(u, d) <=> d \in {"take", "manifest", "give"} \union Rendering \/ Has(t, d)
      /\ \A l : Owed(u, l) <=> Owed(t, l)
  <2>1. Owed(c, "bootstrap") /\ ~ Unfinished(c)
    BY <1>6 DEF Unfinished, Rendering
  <2>2. Fits(Take("bootstrap"), c)
    BY <1>1, <1>6, <1>7, <2>1, Taking
  <2> QED
    BY <1>1, <1>6, <2>2, Taking
<1>9. u = Bootstrap \o t
  BY Built DEF a, b, c
<1> HIDE DEF u
<1> QED
  BY <1>8, <1>9

\* What writes a manifest that is not there, before the rest of a bootstrap.
LEMMA PublishPush ==
  ASSUME NEW t \in Seq(StoreSteps), Sound(t), Opens(t), ~ Unfinished(t), Owed(t, "bootstrap")
  PROVE  /\ Publish \o t \in Seq(StoreSteps) /\ Publish \o t # <<>>
         /\ Head(Publish \o t) = Do("config")
         /\ Sound(Publish \o t)
         /\ \A d : Has(Publish \o t, d) <=> d \in {"publish"} \union Rendering \/ Has(t, d)
         /\ \A l : Owed(Publish \o t, l) <=> Owed(t, l)
<1> DEFINE a == Push(Do("publish"), t)
<1>1. "publish" \in Doings /\ (t # <<>> => Leads(Do("publish"), t))
  BY PlainLeads DEF Doings
<1>2. /\ a \in Seq(StoreSteps) /\ a # <<>> /\ Head(a) = Do("publish") /\ Sound(a)
      /\ \A d : Has(a, d) <=> d = "publish" \/ Has(t, d)
      /\ \A l : Owed(a, l) <=> Owed(t, l)
  <2>1. Fits(Do("publish"), t)
    BY <1>1, DoingFits DEF Unfinished, Rendering
  <2> QED
    BY <1>1, <2>1, Doing
<1>3. Publish \o t = Sync \o a
  BY Built
<1> HIDE DEF a
<1> QED
  BY <1>2, <1>3, SyncPush DEF Unfinished

\* A migration, before what follows it.
LEMMA MigratePush ==
  ASSUME NEW t \in Seq(StoreSteps), Sound(t), Opens(t), ~ Unfinished(t), ~ Owed(t, "migration")
  PROVE  /\ Migrate \o t \in Seq(StoreSteps) /\ Migrate \o t # <<>>
         /\ Head(Migrate \o t) = Take("migration")
         /\ Sound(Migrate \o t)
         /\ \A d : Has(Migrate \o t, d) <=> d \in {"take", "migrate"} \/ Has(t, d)
         /\ \A l : Owed(Migrate \o t, l) <=> Owed(t, l)
<1> DEFINE a == Push(Do("migrate"), t)
<1>1. /\ "migrate" \in Doings /\ "migration" \in Locks
      /\ t # <<>> => Leads(Do("migrate"), t)
  BY PlainLeads DEF Doings, Locks
<1>2. /\ a \in Seq(StoreSteps) /\ a # <<>> /\ Head(a) = Do("migrate") /\ Sound(a)
      /\ \A d : Has(a, d) <=> d = "migrate" \/ Has(t, d)
      /\ \A l : Owed(a, l) <=> l = "migration" \/ Owed(t, l)
  <2>1. Fits(Do("migrate"), t)
    BY <1>1, DoingFits DEF Unfinished, Rendering
  <2> QED
    BY <1>1, <2>1, Doing
<1>3. Migrate \o t = Push(Take("migration"), a)
  BY Built
<1> HIDE DEF a
<1>4. Leads(Take("migration"), a)
  BY <1>2, StepNames DEF Leads, Doings
<1>5. ~ Unfinished(a)
  BY <1>2 DEF Unfinished
<1>6. Fits(Take("migration"), a)
  BY <1>1, <1>2, <1>4, <1>5, Taking
<1> DEFINE u == Push(Take("migration"), a)
<1>7. /\ u \in Seq(StoreSteps) /\ u # <<>> /\ Head(u) = Take("migration") /\ Sound(u)
      /\ \A d : Has(u, d) <=> d = "take" \/ Has(a, d)
      /\ \A l : Owed(u, l) <=> "migration" # l /\ Owed(a, l)
  BY <1>1, <1>2, <1>6, Taking
<1>8. u = Migrate \o t
  BY <1>3
<1> HIDE DEF u
<1>9. \A l : Owed(u, l) <=> Owed(t, l)
  BY <1>2, <1>7
<1>10. \A d : Has(u, d) <=> d \in {"take", "migrate"} \/ Has(t, d)
  BY <1>2, <1>7
<1> QED
  BY <1>7, <1>8, <1>9, <1>10

\* The steps of a migration that is due, before what follows it.
LEMMA UpgradePush ==
  ASSUME NEW t \in Seq(StoreSteps), Sound(t), Opens(t), ~ Unfinished(t), ~ Owed(t, "migration")
  PROVE  /\ Upgrade \o t \in Seq(StoreSteps) /\ Upgrade \o t # <<>>
         /\ Head(Upgrade \o t) = Do("backup")
         /\ Sound(Upgrade \o t)
         /\ \A d : Has(Upgrade \o t, d) <=>
                       d \in {"backup", "upgrade", "give"} \union Rendering \/ Has(t, d)
         /\ \A l : Owed(Upgrade \o t, l) <=> l = "migration" \/ Owed(t, l)
<1> DEFINE a == Push(Give("migration"), t)
           b == Push(Do("upgrade"), a)
           c == Sync \o b
           u == Push(Do("backup"), c)
<1>1. /\ "upgrade" \in Doings /\ "backup" \in Doings /\ "migration" \in Locks
      /\ t # <<>> => Leads(Give("migration"), t)
  BY PlainLeads DEF Doings, Locks
<1>2. /\ a \in Seq(StoreSteps) /\ a # <<>> /\ Head(a) = Give("migration") /\ Sound(a)
      /\ \A d : Has(a, d) <=> d = "give" \/ Has(t, d)
      /\ \A l : Owed(a, l) <=> l = "migration" \/ Owed(t, l)
  BY <1>1, Giving
<1> HIDE DEF a
<1>3. Leads(Do("upgrade"), a)
  BY <1>2, StepNames DEF Leads, Doings
<1>4. /\ b \in Seq(StoreSteps) /\ b # <<>> /\ Head(b) = Do("upgrade") /\ Sound(b)
      /\ \A d : Has(b, d) <=> d \in {"upgrade", "give"} \/ Has(t, d)
      /\ \A l : Owed(b, l) <=> l = "migration" \/ Owed(t, l)
  <2>1. Fits(Do("upgrade"), a)
    BY <1>1, <1>2, <1>3, DoingFits DEF Unfinished, Rendering
  <2> QED
    BY <1>1, <1>2, <2>1, Doing
<1> HIDE DEF b
<1>5. /\ c \in Seq(StoreSteps) /\ c # <<>> /\ Head(c) = Do("config") /\ Sound(c)
      /\ \A d : Has(c, d) <=> d \in {"upgrade", "give"} \union Rendering \/ Has(t, d)
      /\ \A l : Owed(c, l) <=> l = "migration" \/ Owed(t, l)
  BY <1>4, SyncPush DEF Unfinished
<1> HIDE DEF c
<1>6. Leads(Do("backup"), c)
  BY <1>5, StepNames DEF Leads, Doings
<1>7. /\ u \in Seq(StoreSteps) /\ u # <<>> /\ Head(u) = Do("backup") /\ Sound(u)
      /\ \A d : Has(u, d) <=> d \in {"backup", "upgrade", "give"} \union Rendering \/ Has(t, d)
      /\ \A l : Owed(u, l) <=> l = "migration" \/ Owed(t, l)
  <2>1. Fits(Do("backup"), c)
    BY <1>1, <1>5, <1>6, DoingFits DEF Unfinished, Rendering
  <2> QED
    BY <1>1, <1>5, <2>1, Doing
<1>8. u = Upgrade \o t
  BY Built DEF a, b, c
<1> HIDE DEF u
<1> QED
  BY <1>7, <1>8

\* What holds no lock, and neither creates nor migrates anything before its first step.
Harmless(t) ==
    /\ t \in Seq(StoreSteps) /\ Sound(t) /\ Plain(t)
    /\ \A l : ~ Owed(t, l)
    /\ ~ Unfinished(t)

\* What the index was built from is recorded.
LEMMA RecordIs ==
  /\ Harmless(Record) /\ Record # <<>> /\ Head(Record) = Do("head")
  /\ ~ Creates(Record) /\ ~ Has(Record, "reserve")
<1> DEFINE a == Push(Give("manifest"), <<>>)
           b == Push(Do("record"), a)
           c == Push(Do("reread"), b)
           v == Push(Take("manifest"), c)
           u == Push(Do("head"), v)
<1>1. {"record", "reread", "head"} \subseteq Doings /\ "manifest" \in Locks
  BY DEF Doings, Locks
<1>2. /\ a \in Seq(StoreSteps) /\ a # <<>> /\ Head(a) = Give("manifest") /\ Sound(a)
      /\ \A d : Has(a, d) <=> d = "give"
      /\ \A l : Owed(a, l) <=> l = "manifest"
  <2>1. Fits(Give("manifest"), <<>>)
    BY <1>1, Nothing, Giving DEF Unfinished
  <2> QED
    BY <1>1, <2>1, Nothing, Giving
<1> HIDE DEF a
<1>3. /\ b \in Seq(StoreSteps) /\ b # <<>> /\ Head(b) = Do("record") /\ Sound(b)
      /\ \A d : Has(b, d) <=> d \in {"record", "give"}
      /\ \A l : Owed(b, l) <=> l = "manifest"
  <2>1. Leads(Do("record"), a)
    BY <1>2, StepNames DEF Leads, Doings
  <2>2. Fits(Do("record"), a)
    BY <1>1, <1>2, <2>1, DoingFits DEF Rendering
  <2> QED
    BY <1>1, <1>2, <2>2, Doing
<1> HIDE DEF b
<1>4. /\ c \in Seq(StoreSteps) /\ c # <<>> /\ Head(c) = Do("reread") /\ Sound(c)
      /\ \A d : Has(c, d) <=> d \in {"reread", "record", "give"}
      /\ \A l : Owed(c, l) <=> l = "manifest"
  <2>1. Leads(Do("reread"), b)
    BY <1>3, StepNames DEF Leads, Doings
  <2>2. Fits(Do("reread"), b)
    BY <1>1, <1>3, <2>1, DoingFits DEF Rendering
  <2> QED
    BY <1>1, <1>3, <2>2, Doing
<1> HIDE DEF c
<1>5. /\ v \in Seq(StoreSteps) /\ v # <<>> /\ Head(v) = Take("manifest") /\ Sound(v)
      /\ \A d : Has(v, d) <=> d \in {"take", "reread", "record", "give"}
      /\ \A l : ~ Owed(v, l)
  <2>1. Leads(Take("manifest"), c)
    BY <1>4, StepNames DEF Leads, Doings
  <2>2. ~ Unfinished(c)
    BY <1>4 DEF Unfinished
  <2>3. Fits(Take("manifest"), c)
    BY <1>1, <1>4, <2>1, <2>2, Taking
  <2>4. /\ \A d : Has(v, d) <=> d = "take" \/ Has(c, d)
        /\ \A l : Owed(v, l) <=> "manifest" # l /\ Owed(c, l)
        /\ v \in Seq(StoreSteps) /\ v # <<>> /\ Head(v) = Take("manifest") /\ Sound(v)
    BY <1>1, <1>4, <2>3, Taking
  <2> HIDE DEF v
  <2> QED
    BY <1>4, <2>4
<1> HIDE DEF v
<1>6. /\ u \in Seq(StoreSteps) /\ u # <<>> /\ Head(u) = Do("head") /\ Sound(u)
      /\ \A d : Has(u, d) <=> d \in {"head", "take", "reread", "record", "give"}
      /\ \A l : ~ Owed(u, l)
  <2>1. Leads(Do("head"), v)
    BY <1>5, StepNames DEF Leads, Doings
  <2>2. Fits(Do("head"), v)
    BY <1>1, <1>5, <2>1, DoingFits DEF Rendering
  <2> QED
    BY <1>1, <1>5, <2>2, Doing
<1>7. u = Record
  <2>1. Record \in Seq(StoreSteps)
    BY <1>1, StepNames DEF Record
  <2>2. Record \o <<>> = Record
    BY <2>1, Nothing
  <2>3. Record \o <<>> = u
    BY Nothing, Built DEF a, b, c, v
  <2> QED
    BY <2>2, <2>3
<1> HIDE DEF u
<1>8. Plain(u)
  BY <1>6, StepNames DEF Plain, Special, Doings
<1> QED
  BY <1>6, <1>7, <1>8 DEF Harmless, Unfinished, Creates

\* The store is made whole, and what it says of the repository is written and recorded.
LEMMA DescribeIs ==
  /\ Harmless(Describe) /\ Describe # <<>> /\ Head(Describe) = Take("bootstrap")
  /\ ~ Has(Describe, "reserve")
<1> DEFINE a == Push(Do("documents"), Record)
           b == Push(Do("verify"), a)
           u == Bootstrap \o b
<1>1. {"documents", "verify"} \subseteq Doings /\ Record \in Seq(StoreSteps)
  BY RecordIs DEF Doings, Harmless
<1>2. /\ a \in Seq(StoreSteps) /\ a # <<>> /\ Head(a) = Do("documents") /\ Sound(a)
      /\ ~ Has(a, "reserve") /\ ~ Unfinished(a)
      /\ \A l : ~ Owed(a, l)
  <2>1. Leads(Do("documents"), Record)
    BY <1>1, RecordIs, PlainLeads DEF Harmless
  <2>2. Fits(Do("documents"), Record)
    BY <1>1, <2>1, RecordIs, DoingFits DEF Harmless, Unfinished, Rendering
  <2> QED
    BY <1>1, <2>2, Doing, RecordIs DEF Harmless, Unfinished
<1> HIDE DEF a
<1>3. /\ b \in Seq(StoreSteps) /\ b # <<>> /\ Head(b) = Do("verify") /\ Sound(b)
      /\ ~ Has(b, "reserve") /\ ~ Unfinished(b)
      /\ \A l : ~ Owed(b, l)
  <2>1. Leads(Do("verify"), a)
    BY <1>2, StepNames DEF Leads, Doings
  <2>2. Fits(Do("verify"), a)
    BY <1>1, <1>2, <2>1, DoingFits DEF Unfinished, Rendering
  <2> QED
    BY <1>1, <1>2, <2>2, Doing DEF Unfinished
<1>4. u = Describe
  <2>1. Record \o <<>> = Record
    BY <1>1, Nothing
  <2>2. Bootstrap \in Seq(StoreSteps) /\ Describe \in Seq(StoreSteps)
    <3>1. Bootstrap \in Seq(StoreSteps)
      BY StepNames DEF Bootstrap, Sync, Doings, Locks
    <3>2. <<Do("verify"), Do("documents")>> \in Seq(StoreSteps)
      BY StepNames DEF Doings
    <3> QED
      BY <1>1, <3>1, <3>2, ConcatProperties DEF Describe
  <2>3. Describe \o <<>> = Describe
    BY <2>2, Nothing
  <2>4. Describe \o <<>> = Bootstrap \o Push(Do("verify"), Push(Do("documents"), Record \o <<>>))
    BY Nothing, Built
  <2> QED
    BY <2>1, <2>3, <2>4 DEF a
<1> HIDE DEF b
<1>5. Plain(b)
  BY <1>3, StepNames DEF Plain, Special, Doings
<1>6. /\ u \in Seq(StoreSteps) /\ u # <<>> /\ Head(u) = Take("bootstrap") /\ Sound(u)
      /\ ~ Has(u, "reserve") /\ ~ Unfinished(u)
      /\ \A l : ~ Owed(u, l)
  BY <1>3, <1>5, BootstrapPush DEF Unfinished, Rendering
<1> HIDE DEF u
<1>7. Plain(u)
  BY <1>6, StepNames DEF Plain, Special, Doings
<1> QED
  BY <1>4, <1>6, <1>7 DEF Harmless

\* An id is drawn, and the identity reserved if no other process has reserved one.
LEMMA ReserveIs ==
  /\ Harmless(Reserve) /\ Reserve # <<>> /\ Head(Reserve) = Take("identity")
  /\ ~ Creates(Reserve)
<1> DEFINE a == Push(Do("reserve"), <<>>)
           b == Push(Do("load"), a)
           u == Push(Take("identity"), b)
<1>1. {"reserve", "load"} \subseteq Doings /\ "identity" \in Locks
  BY DEF Doings, Locks
<1>2. /\ a \in Seq(StoreSteps) /\ a # <<>> /\ Head(a) = Do("reserve") /\ Sound(a)
      /\ \A d : Has(a, d) <=> d = "reserve"
      /\ \A l : Owed(a, l) <=> l = "identity"
  <2>1. Fits(Do("reserve"), <<>>)
    BY <1>1, Nothing, DoingFits DEF Rendering
  <2> QED
    BY <1>1, <2>1, Nothing, Doing
<1> HIDE DEF a
<1>3. /\ b \in Seq(StoreSteps) /\ b # <<>> /\ Head(b) = Do("load") /\ Sound(b)
      /\ \A d : Has(b, d) <=> d \in {"load", "reserve"}
      /\ \A l : Owed(b, l) <=> l = "identity"
  <2>1. Leads(Do("load"), a)
    BY <1>2, StepNames DEF Leads, Doings
  <2>2. Fits(Do("load"), a)
    BY <1>1, <1>2, <2>1, DoingFits DEF Rendering
  <2> QED
    BY <1>1, <1>2, <2>2, Doing
<1> HIDE DEF b
<1>4. /\ u \in Seq(StoreSteps) /\ u # <<>> /\ Head(u) = Take("identity") /\ Sound(u)
      /\ \A d : Has(u, d) <=> d = "take" \/ Has(b, d)
      /\ \A l : Owed(u, l) <=> "identity" # l /\ Owed(b, l)
  <2>1. Leads(Take("identity"), b)
    BY <1>3, StepNames DEF Leads, Doings
  <2>2. ~ Unfinished(b)
    BY <1>3 DEF Unfinished
  <2>3. Fits(Take("identity"), b)
    BY <1>1, <1>3, <2>1, <2>2, Taking
  <2> QED
    BY <1>1, <1>3, <2>3, Taking
<1>5. u = Reserve
  <2>1. Reserve \in Seq(StoreSteps)
    BY <1>1, StepNames DEF Reserve
  <2>2. Reserve \o <<>> = Reserve
    BY <2>1, Nothing
  <2>3. Reserve \o <<>> = u
    BY Nothing, Built DEF a, b
  <2> QED
    BY <2>2, <2>3
<1> HIDE DEF u
<1>6. Plain(u)
  BY <1>4, StepNames DEF Plain, Special, Doings
<1>7. /\ \A l : ~ Owed(u, l)
      /\ ~ Unfinished(u) /\ ~ Creates(u)
  BY <1>3, <1>4 DEF Unfinished, Creates
<1> QED
  BY <1>4, <1>5, <1>6, <1>7 DEF Harmless

\* Short sequences.
LEMMA Tuples ==
  ASSUME NEW a, NEW b, NEW c
  PROVE  <<a>> \o <<b>> = <<a, b>> /\ <<a>> \o <<b, c>> = <<a, b, c>>
<1>1. ASSUME NEW u \in Seq({a, b, c}), NEW v \in Seq({a, b, c}), Len(u) = 3, Len(v) = 3,
             u[1] = v[1], u[2] = v[2], u[3] = v[3]
      PROVE  u = v
  <2>1. \A i \in 1..Len(u) : u[i] = v[i]
    BY <1>1
  <2> QED
    BY <1>1, <2>1, SeqEqual
<1>2. <<a>> \o <<b>> = <<a, b>>
  <2> DEFINE x == <<a>> \o <<b>>
             y == <<a, b>>
  <2>1. x \in Seq({a, b}) /\ Len(x) = 2 /\ x[1] = a /\ x[2] = b
    OBVIOUS
  <2>2. y \in Seq({a, b}) /\ Len(y) = 2 /\ y[1] = a /\ y[2] = b
    OBVIOUS
  <2> HIDE DEF x, y
  <2>3. \A i \in 1..Len(x) : x[i] = y[i]
    BY <2>1, <2>2
  <2>4. x = y
    BY <2>1, <2>2, <2>3, SeqEqual
  <2> QED
    BY <2>4 DEF x, y
<1> DEFINE u == <<a>> \o <<b, c>>
           v == <<a, b, c>>
<1>3. u \in Seq({a, b, c}) /\ Len(u) = 3 /\ u[1] = a /\ u[2] = b /\ u[3] = c
  OBVIOUS
<1>4. v \in Seq({a, b, c}) /\ Len(v) = 3 /\ v[1] = a /\ v[2] = b /\ v[3] = c
  OBVIOUS
<1> HIDE DEF u, v
<1>5. u = v
  BY <1>1, <1>3, <1>4
<1> QED
  BY <1>2, <1>5 DEF u, v

\* The project is loaded, and something is decided on it.
LEMMA LoadIs ==
  ASSUME NEW e \in {"lookup", "return", "add", "again"}
  PROVE  /\ Harmless(<<Do("load"), Do(e)>>) /\ Head(<<Do("load"), Do(e)>>) = Do("load")
         /\ ~ Creates(<<Do("load"), Do(e)>>) /\ ~ Has(<<Do("load"), Do(e)>>, "reserve")
<1> DEFINE a == Push(Do(e), <<>>)
           u == Push(Do("load"), a)
<1>1. e \in Doings /\ "load" \in Doings
  BY DEF Doings
<1>2. /\ a \in Seq(StoreSteps) /\ a # <<>> /\ Head(a) = Do(e) /\ Sound(a)
      /\ \A d : Has(a, d) <=> d = e
      /\ \A l : ~ Owed(a, l)
  <2>1. Fits(Do(e), <<>>)
    BY <1>1, Nothing, DoingFits DEF Rendering
  <2> QED
    BY <1>1, <2>1, Nothing, Doing
<1>3. u = <<Do("load"), Do(e)>>
  <2>1. <<Do(e)>> \o <<>> = <<Do(e)>>
    BY <1>1, Nothing, StepNames
  <2>2. a = <<Do(e)>>
    BY <2>1 DEF Push
  <2> HIDE DEF a
  <2> QED
    BY <2>2, Tuples DEF Push
<1> HIDE DEF a
<1>4. /\ u \in Seq(StoreSteps) /\ u # <<>> /\ Head(u) = Do("load") /\ Sound(u)
      /\ \A d : Has(u, d) <=> d \in {"load", e}
      /\ \A l : ~ Owed(u, l)
  <2>1. Leads(Do("load"), a)
    BY <1>2, StepNames DEF Leads, Doings
  <2>2. Fits(Do("load"), a)
    BY <1>1, <1>2, <2>1, DoingFits DEF Rendering
  <2> QED
    BY <1>1, <1>2, <2>2, Doing
<1> HIDE DEF u
<1>5. Plain(u)
  BY <1>4, StepNames DEF Plain, Special, Doings
<1>6. ~ Unfinished(u) /\ ~ Creates(u) /\ ~ Has(u, "reserve")
  BY <1>4 DEF Unfinished, Creates
<1> QED
  BY <1>3, <1>4, <1>5, <1>6 DEF Harmless

\* A harmless sequence, after the layout has been looked at.
LEMMA OpenIs ==
  ASSUME NEW t, Harmless(t), ~ Creates(t), ~ Has(t, "reserve")
  PROVE  /\ Harmless(Push(Do("open"), t))
         /\ ~ Creates(Push(Do("open"), t)) /\ ~ Has(Push(Do("open"), t), "reserve")
<1> DEFINE u == Push(Do("open"), t)
<1>1. "open" \in Doings /\ t \in Seq(StoreSteps)
  BY DEF Doings, Harmless
<1>2. t # <<>> => Leads(Do("open"), t)
  BY <1>1, PlainLeads DEF Harmless
<1>3. Fits(Do("open"), t)
  BY <1>1, <1>2, DoingFits DEF Harmless, Unfinished, Rendering
<1>4. /\ u \in Seq(StoreSteps) /\ u # <<>> /\ Head(u) = Do("open") /\ Sound(u)
      /\ \A d : Has(u, d) <=> d = "open" \/ Has(t, d)
      /\ \A l : ~ Owed(u, l)
  BY <1>1, <1>3, Doing DEF Harmless
<1> HIDE DEF u
<1>5. Plain(u)
  BY <1>4, StepNames DEF Plain, Special, Doings
<1>6. ~ Unfinished(u)
  <2>1. ~ Unfinished(t)
    BY DEF Harmless
  <2> QED
    BY <1>4, <2>1 DEF Unfinished
<1>7. ~ Creates(u) /\ ~ Has(u, "reserve")
  BY <1>4 DEF Creates
<1> QED
  BY <1>4, <1>5, <1>6, <1>7 DEF Harmless, u

\* An operation begins with nothing in its hands.
LEMMA StepsAre ==
  ASSUME NEW o \in Operations
  PROVE  Harmless(Steps(o)) /\ ~ Creates(Steps(o)) /\ ~ Has(Steps(o), "reserve")
<1>1. CASE o = "initialize"
  <2>1. Steps(o) = Push(Do("open"), <<Do("load"), Do("lookup")>>)
    BY <1>1 DEF Steps, Push
  <2> QED
    BY <2>1, LoadIs, OpenIs
<1>2. CASE o = "open"
  <2>1. Steps(o) = Push(Do("open"), <<Do("load"), Do("return")>>)
    BY <1>2 DEF Steps, Push
  <2> QED
    BY <2>1, LoadIs, OpenIs
<1>3. CASE o = "index"
  <2>1. Steps(o) = Push(Do("open"), Record)
    BY <1>3 DEF Steps, Push
  <2> QED
    BY <2>1, RecordIs, OpenIs
<1> QED
  BY <1>1, <1>2, <1>3 DEF Operations

\* A reservation that another process was ahead of.
LEMMA StandDownIs ==
  LET u == <<Give("identity"), Do("load"), Do("again")>> IN
  /\ u \in Seq(StoreSteps) /\ u # <<>> /\ Head(u) = Give("identity") /\ Sound(u)
  /\ \A l : Owed(u, l) <=> l = "identity"
  /\ ~ Unfinished(u) /\ ~ Creates(u) /\ ~ Has(u, "reserve")
<1> DEFINE t == <<Do("load"), Do("again")>>
           u == Push(Give("identity"), t)
<1>1. /\ t \in Seq(StoreSteps) /\ Sound(t) /\ t # <<>> /\ Head(t) = Do("load")
      /\ \A l : ~ Owed(t, l)
      /\ ~ Unfinished(t) /\ ~ Creates(t) /\ ~ Has(t, "reserve") /\ Plain(t)
  <2>1. Harmless(t) /\ Head(t) = Do("load") /\ ~ Creates(t) /\ ~ Has(t, "reserve")
    BY LoadIs
  <2>2. t # <<>>
    OBVIOUS
  <2> HIDE DEF t
  <2> QED
    BY <2>1, <2>2 DEF Harmless
<1>2. u = <<Give("identity"), Do("load"), Do("again")>>
  BY Tuples DEF Push
<1> HIDE DEF t
<1>3. Leads(Give("identity"), t) /\ "identity" \in Locks
  BY <1>1, PlainLeads DEF Locks
<1>4. Fits(Give("identity"), t)
  BY <1>1, <1>3, Giving
<1>5. /\ u \in Seq(StoreSteps) /\ u # <<>> /\ Head(u) = Give("identity") /\ Sound(u)
      /\ \A d : Has(u, d) <=> d = "give" \/ Has(t, d)
      /\ \A l : Owed(u, l) <=> "identity" = l \/ Owed(t, l)
  BY <1>1, <1>3, <1>4, Giving
<1> HIDE DEF u
<1>6. /\ \A l : Owed(u, l) <=> l = "identity"
      /\ ~ Unfinished(u) /\ ~ Creates(u) /\ ~ Has(u, "reserve")
  BY <1>1, <1>5 DEF Unfinished, Creates
<1> QED
  BY <1>2, <1>5, <1>6

\* The store of an identity that was reserved.
LEMMA CommitIs ==
  LET u == Bootstrap \o <<Give("identity")>> \o Describe IN
  /\ u \in Seq(StoreSteps) /\ u # <<>> /\ Head(u) = Take("bootstrap") /\ Sound(u)
  /\ \A l : Owed(u, l) <=> l = "identity"
  /\ ~ Unfinished(u) /\ ~ Has(u, "reserve")
<1> DEFINE a == Push(Give("identity"), Describe)
           u == Bootstrap \o a
<1>1. /\ Describe \in Seq(StoreSteps) /\ Sound(Describe) /\ Describe # <<>>
      /\ \A l : ~ Owed(Describe, l)
      /\ ~ Unfinished(Describe) /\ ~ Has(Describe, "reserve") /\ Plain(Describe)
  BY DescribeIs DEF Harmless
<1>2. Leads(Give("identity"), Describe) /\ "identity" \in Locks
  BY <1>1, PlainLeads DEF Locks
<1>3. Fits(Give("identity"), Describe)
  BY <1>1, <1>2, Giving
<1>4. /\ a \in Seq(StoreSteps) /\ a # <<>> /\ Head(a) = Give("identity") /\ Sound(a)
      /\ \A d : Has(a, d) <=> d = "give" \/ Has(Describe, d)
      /\ \A l : Owed(a, l) <=> "identity" = l \/ Owed(Describe, l)
  BY <1>1, <1>2, <1>3, Giving
<1>5. u = Bootstrap \o <<Give("identity")>> \o Describe
  <2> DEFINE g == <<Give("identity")>>
  <2>1. g \in Seq(StoreSteps)
    BY <1>2, StepNames
  <2>2. Bootstrap \in Seq(StoreSteps)
    BY StepNames DEF Bootstrap, Sync, Doings, Locks
  <2> HIDE DEF g
  <2>3. (Bootstrap \o g) \o Describe = Bootstrap \o (g \o Describe)
    BY <1>1, <2>1, <2>2, ConcatAssociative
  <2> QED
    BY <2>3 DEF g, Push
<1> HIDE DEF a
<1>6. Plain(a) /\ ~ Unfinished(a)
  BY <1>1, <1>4, StepNames DEF Plain, Special, Unfinished, Doings
<1>7. /\ u \in Seq(StoreSteps) /\ u # <<>> /\ Head(u) = Take("bootstrap") /\ Sound(u)
      /\ \A d : Has(u, d) <=> d \in {"take", "manifest", "give"} \union Rendering \/ Has(a, d)
      /\ \A l : Owed(u, l) <=> Owed(a, l)
  BY <1>1, <1>4, <1>6, BootstrapPush
<1> HIDE DEF u
<1>8. /\ \A l : Owed(u, l) <=> l = "identity"
      /\ ~ Unfinished(u) /\ ~ Has(u, "reserve")
  BY <1>1, <1>4, <1>7 DEF Unfinished, Rendering
<1> QED
  BY <1>5, <1>7, <1>8

-----------------------------------------------------------------------------
(* The steps of the processes. *)

\* A process at a step.
LEMMA Acting ==
  ASSUME StoreIInv, NEW p \in Processes, w[p].todo # <<>>
  PROVE  /\ w[p] \in Workers /\ w[p].todo \in Seq(StoreSteps)
         /\ Head(w[p].todo) \in StoreSteps /\ Tail(w[p].todo) \in Seq(StoreSteps)
         /\ w[p].todo = Push(Head(w[p].todo), Tail(w[p].todo))
         /\ GoesOn(p, w[p]) /\ Sound(w[p].todo)
         /\ \A r : r.todo = w[p].todo => HasLocks(p, r.todo)
<1>1. w[p] \in Workers /\ w[p].todo \in Seq(StoreSteps)
  BY DEF StoreIInv, StoreTypes, Workers
<1>2. GoesOn(p, w[p]) /\ Sound(w[p].todo) /\ HasLocks(p, w[p].todo)
  BY DEF StoreIInv, GoesOn
<1> QED
  BY <1>1, <1>2, Popped

\* A process that does something other than take a lock or give it back.
LEMMA ActingDo ==
  ASSUME StoreIInv, NEW p \in Processes, NEW d \in Doings, At(p, d)
  PROVE  LET t == Tail(w[p].todo) IN
         /\ w[p] \in Workers /\ t \in Seq(StoreSteps) /\ GoesOn(p, w[p])
         /\ w[p].todo = Push(Do(d), t) /\ w[p].todo # <<>> /\ Head(w[p].todo) = Do(d)
         /\ Fits(Do(d), t) /\ Sound(t)
         /\ \A e : Has(w[p].todo, e) <=> d = e \/ Has(t, e)
         /\ \A l : Owed(w[p].todo, l) <=> \/ d = "migrate" /\ l = "migration"
                                          \/ d = "reserve" /\ l = "identity"
                                          \/ Owed(t, l)
<1> DEFINE t == Tail(w[p].todo)
<1>1. w[p].todo # <<>> /\ Head(w[p].todo).do = d
  BY DEF At
<1>2. /\ w[p] \in Workers /\ t \in Seq(StoreSteps) /\ GoesOn(p, w[p])
      /\ w[p].todo = Push(Head(w[p].todo), t) /\ Sound(w[p].todo)
      /\ Head(w[p].todo) \in StoreSteps
  BY <1>1, Acting
<1>3. Head(w[p].todo) = Do(d)
  BY <1>1, <1>2 DEF StoreSteps, Do, Take, Give, Doings
<1>4. w[p].todo = Push(Do(d), t)
  BY <1>2, <1>3
<1> HIDE DEF t
<1>5. Fits(Do(d), t) /\ Sound(t)
  BY <1>2, <1>4, Doing
<1>6. /\ \A e : Has(w[p].todo, e) <=> d = e \/ Has(t, e)
      /\ \A l : Owed(w[p].todo, l) <=> \/ d = "migrate" /\ l = "migration"
                                       \/ d = "reserve" /\ l = "identity"
                                       \/ Owed(t, l)
  BY <1>2, <1>4, Doing
<1> QED
  BY <1>1, <1>2, <1>3, <1>4, <1>5, <1>6 DEF t

\* A process that only looks, or decides, leaves the store as it is.
LEMMA OnlyLooks ==
  ASSUME StoreIInv, NEW p \in Processes, NEW r \in Workers, GoesOn(p, r),
         w' = [w EXCEPT ![p] = r], UNCHANGED <<store, holder, head, original>>, drawn' \in Nat
  PROVE  StoreIInv'
<1>1. UNCHANGED <<manifest, identity, config, gitignore, backups, holder, recorded>>
  BY DEF store
<1>2. StoreTypes'
  BY <1>1 DEF StoreIInv, StoreTypes
<1>3. StoreIsWhole'
  BY <1>1 DEF StoreIInv, StoreIsWhole, Old, Current
<1>4. ASSUME NEW q \in Processes PROVE GoesOn(q, w[q])'
  <2>1. w'[q] = IF q = p THEN r ELSE w[q]
    BY DEF StoreIInv, StoreTypes
  <2>2. GoesOn(q, w[q]) /\ GoesOn(p, r)
    BY DEF StoreIInv
  <2>3. CASE q = p
    BY <1>1, <2>1, <2>2, <2>3
       DEF GoesOn, HasLocks, KnowsProject, KnowsManifest, KnowsConfig, Old, Current, First
  <2>4. CASE q # p
    BY <1>1, <2>1, <2>2, <2>4
       DEF GoesOn, HasLocks, KnowsProject, KnowsManifest, KnowsConfig, Old, Current, First
  <2> QED
    BY <2>3, <2>4
<1> QED
  BY <1>2, <1>3, <1>4 DEF StoreIInv

\* What may be first, once a step is done.
LEMMA Popping ==
  ASSUME StoreIInv, NEW p \in Processes, NEW d \in Doings \ {"migrate", "reserve"}, At(p, d),
         NEW r, r.todo = Tail(w[p].todo)
  PROVE  /\ r.todo \in Seq(StoreSteps) /\ Sound(r.todo) /\ HasLocks(p, r.todo)
         /\ \A e : Has(w[p].todo, e) <=> d = e \/ Has(r.todo, e)
         /\ Creates(r.todo) => Creates(w[p].todo)
         /\ First(r, Do("config")) => d \in {"manifest", "publish", "backup"}
         /\ First(r, Do("sync")) => d = "config"
         /\ First(r, Do("gitignore")) => d = "sync"
         /\ First(r, Do("publish")) \/ First(r, Do("upgrade")) => d = "gitignore"
         /\ First(r, Give("migration")) => d = "upgrade"
         /\ First(r, Do("record")) => d = "reread"
         /\ First(r, Do("reserve")) => d \in {"load", "match"}
<1> DEFINE t == Tail(w[p].todo)
<1>1. /\ t \in Seq(StoreSteps) /\ GoesOn(p, w[p]) /\ Fits(Do(d), t) /\ Sound(t)
      /\ \A e : Has(w[p].todo, e) <=> d = e \/ Has(t, e)
      /\ \A l : Owed(w[p].todo, l) <=> Owed(t, l)
  BY ActingDo
<1>2. r.todo = t
  OBVIOUS
<1> HIDE DEF t
<1>3. HasLocks(p, t)
  BY <1>1 DEF GoesOn, HasLocks
<1>4. Creates(t) => Creates(w[p].todo)
  BY <1>1 DEF Creates
<1>5. t # <<>> => Leads(Do(d), t)
  BY <1>1, DoingFits
<1>6. t # <<>> => /\ Head(t) = Do("config") => d \in {"manifest", "publish", "backup"}
                  /\ Head(t) = Do("sync") => d = "config"
                  /\ Head(t) = Do("gitignore") => d = "sync"
                  /\ Head(t) \in {Do("publish"), Do("upgrade")} => d = "gitignore"
                  /\ Head(t) = Give("migration") => d = "upgrade"
                  /\ Head(t) = Do("record") => d = "reread"
                  /\ Head(t) = Do("reserve") => d \in {"load", "match"}
  BY <1>5, Leading
<1> QED
  BY <1>1, <1>2, <1>3, <1>4, <1>6 DEF First

\* A process that has looked at something, and goes on with what was to follow.
LEMMA LooksAndGoesOn ==
  ASSUME StoreIInv, NEW p \in Processes, NEW r, r.todo = Tail(w[p].todo),
         NEW d \in {"open", "return", "verify", "documents", "head"}, At(p, d),
         r.found = w[p].found, r.mine = w[p].mine, r.old = w[p].old,
         r.returned \in {w[p].returned, w[p].found}
  PROVE  GoesOn(p, r)
<1>1. d \in Doings \ {"migrate", "reserve"} /\ d \notin {"backup", "upgrade", "publish"} \union Rendering
  BY DEF Doings, Rendering
<1>2. /\ GoesOn(p, w[p])
      /\ Sound(r.todo) /\ HasLocks(p, r.todo)
      /\ \A e : Has(w[p].todo, e) <=> d = e \/ Has(r.todo, e)
      /\ Creates(r.todo) => Creates(w[p].todo)
      /\ ~ First(r, Do("config")) /\ ~ First(r, Do("sync")) /\ ~ First(r, Do("gitignore"))
      /\ ~ First(r, Do("publish")) /\ ~ First(r, Do("upgrade")) /\ ~ First(r, Give("migration"))
      /\ ~ First(r, Do("record")) /\ ~ First(r, Do("reserve"))
  BY <1>1, ActingDo, Popping
<1>3. KnowsProject(r)
  BY <1>2 DEF GoesOn, KnowsProject
<1>4. KnowsManifest(r)
  BY <1>1, <1>2 DEF GoesOn, KnowsManifest
<1>5. KnowsConfig(r)
  BY <1>2 DEF KnowsConfig, Rendering
<1> QED
  BY <1>2, <1>3, <1>4, <1>5 DEF GoesOn

\* A process whose next steps are harmless.
LEMMA HarmlessGoesOn ==
  ASSUME StoreIInv, NEW p, NEW r, Harmless(r.todo), \A l \in Locks : holder[l] # p,
         r.found \in {None, identity}, r.returned \in {None, identity},
         Creates(r.todo) => r.mine = identity /\ identity # None,
         Has(r.todo, "reserve") => r.mine # None
  PROVE  GoesOn(p, r)
<1>1. /\ Sound(r.todo) /\ Plain(r.todo)
      /\ \A l : ~ Owed(r.todo, l)
      /\ ~ Has(r.todo, "publish") /\ ~ Has(r.todo, "upgrade")
  BY DEF Harmless, Unfinished
<1>2. \A d \in {"config", "sync", "gitignore", "publish", "upgrade", "record", "reserve"} :
          ~ First(r, Do(d))
  BY <1>1 DEF First, Plain, Special
<1>3. ~ First(r, Give("migration"))
  BY <1>1 DEF First, Plain, Special
<1>4. HasLocks(p, r.todo)
  BY <1>1 DEF HasLocks
<1>5. KnowsProject(r) /\ KnowsManifest(r)
  BY <1>1, <1>2, <1>3 DEF KnowsProject, KnowsManifest
<1>6. KnowsConfig(r)
  BY <1>2 DEF KnowsConfig, Rendering
<1> QED
  BY <1>1, <1>4, <1>5, <1>6 DEF GoesOn

\* What a process does next, and the rest of what it knows.
LEMMA ThenIs ==
  ASSUME NEW p, w[p] \in Workers, Tail(w[p].todo) \in Seq(StoreSteps), NEW more \in Seq(StoreSteps)
  PROVE  /\ Then(p, more) \in Workers
         /\ Then(p, more).todo = more \o Tail(w[p].todo)
         /\ Then(p, <<>>).todo = Tail(w[p].todo) /\ Then(p, <<>>) \in Workers
         /\ Then(p, more).found = w[p].found /\ Then(p, more).mine = w[p].mine
         /\ Then(p, more).seen = w[p].seen /\ Then(p, more).old = w[p].old
         /\ Then(p, more).commit = w[p].commit /\ Then(p, more).returned = w[p].returned
<1>1. more \o Tail(w[p].todo) \in Seq(StoreSteps) /\ <<>> \o Tail(w[p].todo) = Tail(w[p].todo)
  BY ConcatProperties, Nothing
<1> DEFINE t == more \o Tail(w[p].todo)
           r == Then(p, more)
<1> HIDE DEF t
<1>2. r = [w[p] EXCEPT !.todo = t]
  BY DEF Then, t
<1>3. Then(p, <<>>) = [w[p] EXCEPT !.todo = Tail(w[p].todo)]
  BY <1>1 DEF Then
<1>4. t \in Seq(StoreSteps)
  BY <1>1 DEF t
<1>5. Then(p, <<>>) \in Workers /\ Then(p, <<>>).todo = Tail(w[p].todo)
  BY <1>3 DEF Workers
<1> HIDE DEF r
<1>6. /\ r \in Workers /\ r.todo = t
      /\ r.found = w[p].found /\ r.mine = w[p].mine /\ r.seen = w[p].seen /\ r.old = w[p].old
      /\ r.commit = w[p].commit /\ r.returned = w[p].returned
  BY <1>2, <1>4 DEF Workers
<1> QED
  BY <1>5, <1>6 DEF r, t

\* A process goes on with what was to follow.
LEMMA PopIs ==
  ASSUME NEW p, w[p] \in Workers, Tail(w[p].todo) \in Seq(StoreSteps)
  PROVE  /\ Then(p, <<>>) \in Workers /\ Then(p, <<>>).todo = Tail(w[p].todo)
         /\ Then(p, <<>>).found = w[p].found /\ Then(p, <<>>).mine = w[p].mine
         /\ Then(p, <<>>).seen = w[p].seen /\ Then(p, <<>>).old = w[p].old
         /\ Then(p, <<>>).commit = w[p].commit /\ Then(p, <<>>).returned = w[p].returned
BY ThenIs, Nothing

\* A process that fails, or dies, gives back what it holds.
LEMMA FailKeeps ==
  ASSUME StoreIInv, NEW p \in Processes, Fail(p), UNCHANGED <<store, history>>, head' = head
  PROVE  StoreIInv'
<1>1. UNCHANGED <<manifest, identity, config, gitignore, backups, recorded, original, drawn>>
  BY DEF store, history
<1>2. /\ w' = [w EXCEPT ![p] = Idle]
      /\ \A l \in Locks : holder'[l] = IF holder[l] = p THEN None ELSE holder[l]
      /\ holder' \in [Locks -> Processes \union {None}]
  BY DEF Fail, Continue, Released, StoreIInv, StoreTypes
<1>3. Idle \in Workers /\ Idle.todo = <<>> /\ Idle.found = None /\ Idle.returned = None
  <2>1. Missing \in Missing..MaxEdits /\ 0 \in 0..MaxHead
    BY ProjectStoreAssumption DEF Missing
  <2> QED
    BY <2>1, Nothing DEF Idle, Workers
<1>4. StoreTypes'
  BY <1>1, <1>2, <1>3 DEF StoreIInv, StoreTypes
<1>5. StoreIsWhole'
  BY <1>1 DEF StoreIInv, StoreIsWhole, Old, Current
<1>6. ASSUME NEW q \in Processes PROVE GoesOn(q, w[q])'
  <2>1. w'[q] = IF q = p THEN Idle ELSE w[q]
    BY <1>2 DEF StoreIInv, StoreTypes
  <2>2. p # None /\ q # None
    BY StoreMarkAssumption
  <2>3. CASE q = p
    <3>1. HasLocks(p, Idle.todo)'
      BY <1>2, <1>3, <2>2, Nothing DEF HasLocks
    <3>2. /\ KnowsProject(Idle)' /\ KnowsManifest(Idle)' /\ KnowsConfig(Idle)'
          /\ Sound(Idle.todo)
      BY <1>3, Nothing DEF KnowsProject, KnowsManifest, KnowsConfig, Creates, First
    <3> QED
      BY <2>1, <2>3, <3>1, <3>2
         DEF GoesOn, HasLocks, KnowsProject, KnowsManifest, KnowsConfig, Old, Current, First
  <2>4. CASE q # p
    <3>1. GoesOn(q, w[q]) /\ w'[q] = w[q]
      BY <2>1, <2>4 DEF StoreIInv
    <3>2. HasLocks(q, w[q].todo)'
      BY <1>2, <2>2, <2>4, <3>1 DEF GoesOn, HasLocks
    <3> QED
      BY <1>1, <3>1, <3>2
         DEF GoesOn, HasLocks, KnowsProject, KnowsManifest, KnowsConfig, Old, Current, First
  <2> QED
    BY <2>3, <2>4
<1> QED
  BY <1>4, <1>5, <1>6 DEF StoreIInv

\* A read leaves everything but the process as it is.
LEMMA ReadsKeep ==
  ASSUME StoreIInv, NEW p \in Processes, NEW r \in Workers, GoesOn(p, r), Continue(p, r), Reads
  PROVE  StoreIInv'
<1>1. UNCHANGED <<store, holder, head, original>> /\ drawn' \in Nat
  BY DEF Reads, OnlyProcess, history, StoreIInv, StoreTypes
<1>2. w' = [w EXCEPT ![p] = r]
  BY DEF Continue
<1> QED
  BY <1>1, <1>2, OnlyLooks

\* Looking at the head, at the identity of a described project, and the end of an opening.
LEMMA ReadHeadKeeps ==
  ASSUME StoreIInv, NEW p \in Processes, ReadHead(p)
  PROVE  StoreIInv'
<1> DEFINE r == [Then(p, <<>>) EXCEPT !.commit = head]
<1>1. At(p, "head") /\ Continue(p, r) /\ Reads /\ "head" \in Doings
  BY DEF ReadHead, Doings
<1>2. w[p] \in Workers /\ Tail(w[p].todo) \in Seq(StoreSteps)
  BY <1>1, ActingDo
<1>3. head \in 0..MaxHead
  BY ProjectStoreAssumption DEF StoreIInv, StoreTypes
<1>4. /\ r \in Workers /\ r.todo = Tail(w[p].todo)
      /\ r.found = w[p].found /\ r.mine = w[p].mine /\ r.old = w[p].old
      /\ r.returned = w[p].returned
  BY <1>2, <1>3, PopIs DEF Workers
<1> HIDE DEF r
<1>5. GoesOn(p, r)
  BY <1>1, <1>4, LooksAndGoesOn
<1> QED
  BY <1>1, <1>4, <1>5, ReadsKeep

\* What may be first in a plain sequence.
LEMMA PlainFirst ==
  ASSUME NEW r, Plain(r.todo)
  PROVE  /\ \A d \in {"config", "sync", "gitignore", "publish", "upgrade", "record", "reserve"} :
                ~ First(r, Do(d))
         /\ ~ First(r, Give("migration"))
BY DEF First, Plain, Special

\* A sequence that begins with a lock is plain, and so is one that begins with a backup.
LEMMA PlainHead ==
  ASSUME NEW t
  PROVE  /\ \A l : Head(t) = Take(l) => Plain(t)
         /\ \A d \in {"backup", "load", "match", "head", "open"} : Head(t) = Do(d) => Plain(t)
         /\ Head(t) = Give("identity") => Plain(t)
BY StepNames DEF Plain, Special, Doings

\* A process that goes on with a plain sequence.
LEMMA PlainGoesOn ==
  ASSUME NEW p, NEW r, Sound(r.todo), HasLocks(p, r.todo), Plain(r.todo),
         ~ Has(r.todo, "publish"),
         Has(r.todo, "upgrade") => Old /\ r.old = manifest /\ Has(r.todo, "backup"),
         r.found \in {None, identity}, r.returned \in {None, identity},
         Creates(r.todo) => r.mine = identity /\ identity # None,
         Has(r.todo, "reserve") => r.mine # None
  PROVE  GoesOn(p, r)
<1>1. /\ \A d \in {"config", "sync", "gitignore", "publish", "upgrade", "record", "reserve"} :
                ~ First(r, Do(d))
      /\ ~ First(r, Give("migration"))
  BY PlainFirst
<1>2. KnowsProject(r) /\ KnowsManifest(r)
  BY <1>1 DEF KnowsProject, KnowsManifest
<1>3. KnowsConfig(r)
  BY <1>1 DEF KnowsConfig, Rendering
<1> QED
  BY <1>2, <1>3 DEF GoesOn

\* The end of an opening.
LEMMA ReturnKeeps ==
  ASSUME StoreIInv, NEW p \in Processes, Return(p)
  PROVE  StoreIInv'
<1> DEFINE r == [Then(p, <<>>) EXCEPT !.returned = w[p].found]
<1>1. At(p, "return") /\ Continue(p, r) /\ Reads /\ "return" \in Doings
  BY DEF Return, Doings
<1>2. w[p] \in Workers /\ Tail(w[p].todo) \in Seq(StoreSteps)
  BY <1>1, ActingDo
<1>3. w[p].found \in Ids \union {None}
  BY <1>2 DEF Workers
<1>4. /\ r \in Workers /\ r.todo = Tail(w[p].todo)
      /\ r.found = w[p].found /\ r.mine = w[p].mine /\ r.old = w[p].old
      /\ r.returned = w[p].found
  BY <1>2, <1>3, PopIs DEF Workers
<1> HIDE DEF r
<1>5. GoesOn(p, r)
  BY <1>1, <1>4, LooksAndGoesOn
<1> QED
  BY <1>1, <1>4, <1>5, ReadsKeep

\* A process that fails at a step that changes nothing else.
LEMMA FailsKeep ==
  ASSUME StoreIInv, NEW p \in Processes, Fail(p), OnlyProcess
  PROVE  StoreIInv'
BY FailKeeps DEF OnlyProcess, history

\* The manifest names the project that is described.
LEMMA VerifyKeeps ==
  ASSUME StoreIInv, NEW p \in Processes, Verify(p)
  PROVE  StoreIInv'
<1>1. At(p, "verify") /\ OnlyProcess /\ "verify" \in Doings
  BY DEF Verify, Doings
<1>2. CASE Current /\ manifest.id = w[p].mine
  <2> DEFINE r == Then(p, <<>>)
  <2>1. Continue(p, r) /\ Reads
    BY <1>1, <1>2 DEF Verify, Reads
  <2>2. w[p] \in Workers /\ Tail(w[p].todo) \in Seq(StoreSteps)
    BY <1>1, ActingDo
  <2>3. /\ r \in Workers /\ r.todo = Tail(w[p].todo)
        /\ r.found = w[p].found /\ r.mine = w[p].mine /\ r.old = w[p].old
        /\ r.returned = w[p].returned
    BY <2>2, PopIs
  <2> HIDE DEF r
  <2>4. GoesOn(p, r)
    BY <1>1, <2>3, LooksAndGoesOn
  <2> QED
    BY <2>1, <2>3, <2>4, ReadsKeep
<1>3. CASE ~ (Current /\ manifest.id = w[p].mine)
  BY <1>1, <1>3, FailsKeep DEF Verify
<1> QED
  BY <1>2, <1>3

\* What is to follow where a layout is brought up to date.
LEMMA Follows ==
  ASSUME NEW d \in {"open", "manifest", "migrate"}, NEW t \in Seq(StoreSteps), Fits(Do(d), t)
  PROVE  Opens(t) /\ ~ Unfinished(t) /\ ~ Owed(t, "migration")
<1>1. d \in Doings /\ d \notin Rendering /\ d # "backup"
  BY DEF Doings, Rendering
<1>2. ~ Unfinished(t) /\ ~ Owed(t, "migration") /\ (t # <<>> => Leads(Do(d), t))
  BY <1>1, DoingFits DEF Unfinished
<1>3. t # <<>> => Head(t) \notin Special
  BY <1>1, <1>2, Leading DEF Special
<1> QED
  BY <1>2, <1>3 DEF Opens

\* A layout of schema 1 is migrated, and then the process goes on.
LEMMA MigratesAndGoesOn ==
  ASSUME StoreIInv, NEW p \in Processes, NEW r, r.todo = Migrate \o Tail(w[p].todo),
         NEW d \in {"open", "manifest"}, At(p, d),
         r.found = w[p].found, r.mine = w[p].mine, r.returned = w[p].returned
  PROVE  GoesOn(p, r)
<1> DEFINE t == Tail(w[p].todo)
<1>1. d \in Doings
  BY DEF Doings
<1>2. /\ t \in Seq(StoreSteps) /\ GoesOn(p, w[p]) /\ Fits(Do(d), t) /\ Sound(t)
      /\ \A e : Has(w[p].todo, e) <=> d = e \/ Has(t, e)
      /\ \A l : Owed(w[p].todo, l) <=> Owed(t, l)
  BY <1>1, ActingDo
<1>3. r.todo = Migrate \o t
  OBVIOUS
<1> HIDE DEF t
<1>4. Opens(t) /\ ~ Unfinished(t) /\ ~ Owed(t, "migration")
  BY <1>2, Follows
<1>5. /\ Sound(r.todo) /\ Head(r.todo) = Take("migration")
      /\ \A e : Has(r.todo, e) <=> e \in {"take", "migrate"} \/ Has(t, e)
      /\ \A l : Owed(r.todo, l) <=> Owed(t, l)
  <2>1. /\ Sound(Migrate \o t) /\ Head(Migrate \o t) = Take("migration")
        /\ \A e : Has(Migrate \o t, e) <=> e \in {"take", "migrate"} \/ Has(t, e)
        /\ \A l : Owed(Migrate \o t, l) <=> Owed(t, l)
    BY <1>2, <1>4, MigratePush
  <2> QED
    BY <1>3, <2>1, Zenon
<1>6. Plain(r.todo)
  BY <1>5, PlainHead
<1>7. HasLocks(p, r.todo)
  BY <1>2, <1>5 DEF GoesOn, HasLocks
<1>8. Creates(r.todo) => Creates(w[p].todo)
  BY <1>2, <1>5 DEF Creates
<1>9. ~ Has(r.todo, "publish") /\ ~ Has(r.todo, "upgrade")
  BY <1>4, <1>5 DEF Unfinished
<1>10. Has(r.todo, "reserve") => Has(w[p].todo, "reserve")
  BY <1>2, <1>5
<1>11. KnowsProject(w[p])
  BY <1>2 DEF GoesOn
<1> QED
  BY <1>5, <1>6, <1>7, <1>8, <1>9, <1>10, <1>11, PlainGoesOn DEF KnowsProject

\* An opening of the store.
LEMMA OpenKeeps ==
  ASSUME StoreIInv, NEW p \in Processes, Open(p)
  PROVE  StoreIInv'
<1> DEFINE r == Ensure(p)
<1>1. At(p, "open") /\ Continue(p, r) /\ Reads /\ "open" \in Doings
  BY DEF Open, Doings
<1>2. w[p] \in Workers /\ Tail(w[p].todo) \in Seq(StoreSteps)
  BY <1>1, ActingDo
<1>3. Migrate \in Seq(StoreSteps)
  BY StepNames DEF Migrate, Doings, Locks
<1>4. CASE Old
  <2>1. r = Then(p, Migrate)
    BY <1>4 DEF Ensure
  <2>2. /\ r \in Workers /\ r.todo = Migrate \o Tail(w[p].todo)
        /\ r.found = w[p].found /\ r.mine = w[p].mine /\ r.returned = w[p].returned
    BY <1>2, <1>3, <2>1, ThenIs, SMTT(30)
  <2> HIDE DEF r
  <2>3. GoesOn(p, r)
    BY <1>1, <2>2, MigratesAndGoesOn
  <2> QED
    BY <1>1, <2>2, <2>3, ReadsKeep
<1>5. CASE ~ Old
  <2>1. r = Then(p, <<>>)
    BY <1>5 DEF Ensure
  <2>2. /\ r \in Workers /\ r.todo = Tail(w[p].todo)
        /\ r.found = w[p].found /\ r.mine = w[p].mine /\ r.old = w[p].old
        /\ r.returned = w[p].returned
    BY <1>2, <2>1, PopIs
  <2> HIDE DEF r
  <2>3. GoesOn(p, r)
    BY <1>1, <2>2, LooksAndGoesOn
  <2> QED
    BY <1>1, <2>2, <2>3, ReadsKeep
<1> QED
  BY <1>4, <1>5

\* A decision is the last step of a process that holds nothing.
LEMMA LastStep ==
  ASSUME StoreIInv, NEW p \in Processes, NEW d \in {"lookup", "add", "again"}, At(p, d)
  PROVE  /\ w[p] \in Workers /\ KnowsProject(w[p]) /\ Tail(w[p].todo) = <<>>
         /\ \A l \in Locks : holder[l] # p
<1> DEFINE t == Tail(w[p].todo)
<1>1. d \in Doings /\ d # "migrate" /\ d # "reserve"
  BY DEF Doings
<1>2. /\ w[p] \in Workers /\ t \in Seq(StoreSteps) /\ GoesOn(p, w[p]) /\ Fits(Do(d), t)
      /\ \A l : Owed(w[p].todo, l) <=> Owed(t, l)
  BY <1>1, ActingDo
<1> HIDE DEF t
<1>3. t = <<>>
  BY <1>1, <1>2, DoingFits
<1>4. KnowsProject(w[p]) /\ HasLocks(p, w[p].todo)
  BY <1>2 DEF GoesOn
<1>5. \A l \in Locks : holder[l] # p
  BY <1>2, <1>3, <1>4, Nothing DEF HasLocks
<1> QED
  BY <1>2, <1>3, <1>4, <1>5 DEF t

\* A project that exists is returned, and its store made whole.
LEMMA FoundGoesOn ==
  ASSUME StoreIInv, NEW p \in Processes, NEW d \in {"lookup", "again"}, At(p, d), Found(p)
  PROVE  ReturnFound(p) \in Workers /\ GoesOn(p, ReturnFound(p))
<1> DEFINE r == ReturnFound(p)
<1>1. /\ w[p] \in Workers /\ KnowsProject(w[p]) /\ Tail(w[p].todo) = <<>>
      /\ \A l \in Locks : holder[l] # p
  BY LastStep
<1>2. Harmless(Describe) /\ ~ Has(Describe, "reserve") /\ Describe \in Seq(StoreSteps)
  BY DescribeIs DEF Harmless
<1>3. /\ Then(p, Describe) \in Workers /\ Then(p, Describe).todo = Describe
      /\ Then(p, Describe).found = w[p].found
  BY <1>1, <1>2, ThenIs, Nothing
<1>4. w[p].found = identity /\ identity # None /\ w[p].found \in Ids
  BY <1>1 DEF Found, KnowsProject, Workers
<1>5. /\ r \in Workers /\ r.todo = Describe
      /\ r.found = identity /\ r.mine = identity /\ r.returned = identity
  BY <1>3, <1>4 DEF ReturnFound, Workers
<1> HIDE DEF r
<1>6. GoesOn(p, r)
  BY <1>1, <1>2, <1>4, <1>5, HarmlessGoesOn
<1> QED
  BY <1>5, <1>6 DEF r

\* Two steps that begin by loading the project.
LEMMA LoadsNext ==
  ASSUME StoreIInv, NEW p \in Processes, NEW d \in {"lookup", "add", "again"}, At(p, d),
         NEW e \in {"lookup", "return", "add", "again"}
  PROVE  LET r == Then(p, <<Do("load"), Do(e)>>) IN r \in Workers /\ GoesOn(p, r)
<1> DEFINE u == <<Do("load"), Do(e)>>
           r == Then(p, u)
<1>1. /\ w[p] \in Workers /\ KnowsProject(w[p]) /\ Tail(w[p].todo) = <<>>
      /\ \A l \in Locks : holder[l] # p
  BY LastStep
<1>2. Harmless(u) /\ ~ Creates(u) /\ ~ Has(u, "reserve")
  BY LoadIs
<1> HIDE DEF u
<1>3. u \in Seq(StoreSteps)
  BY <1>2 DEF Harmless
<1>4. /\ r \in Workers /\ r.todo = u
      /\ r.found = w[p].found /\ r.returned = w[p].returned
  BY <1>1, <1>3, ThenIs, Nothing
<1> HIDE DEF r
<1>5. GoesOn(p, r)
  BY <1>1, <1>2, <1>4, HarmlessGoesOn DEF KnowsProject
<1> QED
  BY <1>4, <1>5 DEF r, u

\* A project is looked for.
LEMMA LookupKeeps ==
  ASSUME StoreIInv, NEW p \in Processes, Lookup(p)
  PROVE  StoreIInv'
<1>1. At(p, "lookup") /\ Reads
  BY DEF Lookup
<1>2. CASE Found(p)
  <2>1. Continue(p, ReturnFound(p))
    BY <1>2 DEF Lookup
  <2>2. ReturnFound(p) \in Workers /\ GoesOn(p, ReturnFound(p))
    BY <1>1, <1>2, FoundGoesOn
  <2> QED
    BY <1>1, <2>1, <2>2, ReadsKeep
<1>3. CASE ~ Found(p)
  <2> DEFINE r == Then(p, <<Do("load"), Do("add")>>)
  <2>1. Continue(p, r)
    BY <1>3 DEF Lookup
  <2>2. r \in Workers /\ GoesOn(p, r)
    BY <1>1, LoadsNext
  <2> HIDE DEF r
  <2> QED
    BY <1>1, <2>1, <2>2, ReadsKeep
<1> QED
  BY <1>2, <1>3

\* A project that was reserved by another process is looked for again.
LEMMA AgainKeeps ==
  ASSUME StoreIInv, NEW p \in Processes, Again(p)
  PROVE  StoreIInv'
<1>1. At(p, "again") /\ OnlyProcess
  BY DEF Again
<1>2. CASE Found(p)
  <2>1. Continue(p, ReturnFound(p)) /\ Reads
    BY <1>2 DEF Again, Reads
  <2>2. ReturnFound(p) \in Workers /\ GoesOn(p, ReturnFound(p))
    BY <1>1, <1>2, FoundGoesOn
  <2> QED
    BY <2>1, <2>2, ReadsKeep
<1>3. CASE ~ Found(p)
  BY <1>1, <1>3, FailsKeep DEF Again
<1> QED
  BY <1>2, <1>3

\* A project is added, unless there is one.
LEMMA AddKeeps ==
  ASSUME StoreIInv, NEW p \in Processes, Add(p)
  PROVE  StoreIInv'
<1>1. At(p, "add") /\ UNCHANGED <<store, holder, head, original>>
  BY DEF Add
<1>2. CASE Found(p)
  <2> DEFINE r == Then(p, <<Do("load"), Do("again")>>)
  <2>1. w' = [w EXCEPT ![p] = r] /\ drawn' = drawn
    BY <1>2 DEF Add, Continue
  <2>2. r \in Workers /\ GoesOn(p, r)
    BY <1>1, LoadsNext
  <2> HIDE DEF r
  <2>3. drawn' \in Nat
    BY <2>1 DEF StoreIInv, StoreTypes
  <2> QED
    BY <1>1, <2>1, <2>2, <2>3, OnlyLooks
<1>3. CASE ~ Found(p)
  <2> DEFINE r == [Then(p, Reserve) EXCEPT !.mine = drawn + 1]
  <2>1. w' = [w EXCEPT ![p] = r] /\ drawn' = drawn + 1
    BY <1>3 DEF Add, Continue
  <2>2. /\ w[p] \in Workers /\ KnowsProject(w[p]) /\ Tail(w[p].todo) = <<>>
        /\ \A l \in Locks : holder[l] # p
    BY <1>1, LastStep
  <2>3. Harmless(Reserve) /\ ~ Creates(Reserve) /\ Reserve \in Seq(StoreSteps)
    BY ReserveIs DEF Harmless
  <2>4. /\ Then(p, Reserve) \in Workers /\ Then(p, Reserve).todo = Reserve
        /\ Then(p, Reserve).found = w[p].found /\ Then(p, Reserve).returned = w[p].returned
    BY <2>2, <2>3, ThenIs, Nothing
  <2>5. drawn + 1 \in Ids /\ drawn' \in Nat /\ drawn + 1 # None
    BY <2>1, StoreMarkAssumption DEF StoreIInv, StoreTypes, Ids
  <2>6. /\ r \in Workers /\ r.todo = Reserve /\ r.mine # None
        /\ r.found = w[p].found /\ r.returned = w[p].returned
    BY <2>4, <2>5 DEF Workers
  <2> HIDE DEF r
  <2>7. GoesOn(p, r)
    BY <2>2, <2>3, <2>6, HarmlessGoesOn DEF KnowsProject
  <2> QED
    BY <1>1, <2>1, <2>5, <2>6, <2>7, OnlyLooks
<1> QED
  BY <1>2, <1>3

\* The manifest names the project that was loaded.
LEMMA MatchKeeps ==
  ASSUME StoreIInv, NEW p \in Processes, Match(p)
  PROVE  StoreIInv'
<1>1. At(p, "match") /\ OnlyProcess /\ "match" \in Doings \ {"migrate", "reserve"}
  BY DEF Match, Doings
<1>2. CASE Current /\ manifest.id = w[p].found
  <2> DEFINE r == Then(p, <<>>)
  <2>1. Continue(p, r) /\ Reads
    BY <1>1, <1>2 DEF Match, Reads
  <2>2. /\ w[p] \in Workers /\ Tail(w[p].todo) \in Seq(StoreSteps)
        /\ GoesOn(p, w[p])
    BY <1>1, ActingDo
  <2>3. /\ r \in Workers /\ r.todo = Tail(w[p].todo)
        /\ r.found = w[p].found /\ r.mine = w[p].mine /\ r.old = w[p].old
        /\ r.returned = w[p].returned
    BY <2>2, PopIs
  <2> HIDE DEF r
  <2>4. /\ Sound(r.todo) /\ HasLocks(p, r.todo)
        /\ \A e : Has(w[p].todo, e) <=> "match" = e \/ Has(r.todo, e)
        /\ Creates(r.todo) => Creates(w[p].todo)
        /\ ~ First(r, Do("config")) /\ ~ First(r, Do("sync")) /\ ~ First(r, Do("gitignore"))
        /\ ~ First(r, Do("publish")) /\ ~ First(r, Do("upgrade")) /\ ~ First(r, Give("migration"))
        /\ ~ First(r, Do("record"))
    BY <1>1, <2>3, Popping
  <2>5. w[p].found # None /\ identity # None
    <3>1. manifest.id \in Ids
      BY <1>2 DEF StoreIInv, StoreTypes, Current, Manifests
    <3> QED
      BY <1>2, <2>2, <3>1, StoreMarkAssumption DEF GoesOn, KnowsProject
  <2>6. KnowsProject(r)
    BY <2>2, <2>3, <2>4, <2>5 DEF GoesOn, KnowsProject
  <2>7. KnowsManifest(r)
    BY <2>2, <2>3, <2>4 DEF GoesOn, KnowsManifest
  <2>8. KnowsConfig(r)
    BY <2>4 DEF KnowsConfig, Rendering
  <2>9. GoesOn(p, r)
    BY <2>4, <2>6, <2>7, <2>8 DEF GoesOn
  <2> QED
    BY <2>1, <2>3, <2>9, ReadsKeep
<1>3. CASE ~ (Current /\ manifest.id = w[p].found)
  BY <1>1, <1>3, FailsKeep DEF Match
<1> QED
  BY <1>2, <1>3

\* A project that is loaded is compared with the manifest, before anything else.
LEMMA MatchFirst ==
  ASSUME StoreIInv, NEW p \in Processes, At(p, "load")
  PROVE  LET t == Tail(w[p].todo)
             u == Push(Do("match"), t)
         IN /\ t \in Seq(StoreSteps) /\ u \in Seq(StoreSteps)
            /\ Sound(u) /\ Plain(u) /\ ~ Unfinished(u) /\ HasLocks(p, u)
            /\ ~ Owed(u, "bootstrap") /\ ~ Owed(u, "migration")
            /\ Creates(u) => Creates(w[p].todo)
            /\ Has(u, "reserve") <=> Has(w[p].todo, "reserve")
            /\ \A l : Owed(u, l) <=> Owed(w[p].todo, l)
<1> DEFINE t == Tail(w[p].todo)
           u == Push(Do("match"), t)
<1>1. "load" \in Doings /\ "match" \in Doings
  BY DEF Doings
<1>2. /\ t \in Seq(StoreSteps) /\ GoesOn(p, w[p]) /\ Fits(Do("load"), t) /\ Sound(t)
      /\ \A e : Has(w[p].todo, e) <=> "load" = e \/ Has(t, e)
      /\ \A l : Owed(w[p].todo, l) <=> Owed(t, l)
  BY <1>1, ActingDo
<1> HIDE DEF t
<1>3. /\ ~ Unfinished(t) /\ ~ Owed(t, "bootstrap") /\ ~ Owed(t, "migration")
      /\ t # <<>> => Leads(Do("load"), t)
  BY <1>1, <1>2, DoingFits DEF Unfinished, Rendering
<1>4. t # <<>> => Leads(Do("match"), t)
  BY <1>1, <1>3, Leading
<1>5. Fits(Do("match"), t)
  BY <1>1, <1>2, <1>3, <1>4, DoingFits DEF Unfinished, Rendering
<1>6. /\ u \in Seq(StoreSteps) /\ Sound(u) /\ Head(u) = Do("match")
      /\ \A e : Has(u, e) <=> "match" = e \/ Has(t, e)
      /\ \A l : Owed(u, l) <=> Owed(t, l)
  BY <1>1, <1>2, <1>5, Doing
<1> HIDE DEF u
<1>7. Plain(u)
  BY <1>6, PlainHead
<1>8. ~ Unfinished(u)
  BY <1>3, <1>6 DEF Unfinished
<1>9. HasLocks(p, u)
  BY <1>2, <1>6 DEF GoesOn, HasLocks
<1>10. Creates(u) => Creates(w[p].todo)
  BY <1>2, <1>6 DEF Creates
<1>11. (Has(u, "reserve") <=> Has(w[p].todo, "reserve")) /\ (\A l : Owed(u, l) <=> Owed(w[p].todo, l))
  BY <1>2, <1>6
<1> QED
  BY <1>2, <1>3, <1>6, <1>7, <1>8, <1>9, <1>10, <1>11 DEF t, u

\* The project is loaded.
LEMMA LoadKeeps ==
  ASSUME StoreIInv, NEW p \in Processes, Load(p)
  PROVE  StoreIInv'
<1>1. At(p, "load") /\ Reads /\ "load" \in Doings \ {"migrate", "reserve"}
  BY DEF Load, Doings
<1>2. w[p] \in Workers /\ Tail(w[p].todo) \in Seq(StoreSteps) /\ GoesOn(p, w[p]) /\ KnowsProject(w[p])
  BY <1>1, ActingDo DEF GoesOn
<1>3. identity \in Ids \union {None}
  BY DEF StoreIInv, StoreTypes
<1> DEFINE u == Push(Do("match"), Tail(w[p].todo))
<1>4. /\ u \in Seq(StoreSteps)
      /\ Sound(u) /\ Plain(u) /\ ~ Unfinished(u) /\ HasLocks(p, u)
      /\ ~ Owed(u, "bootstrap") /\ ~ Owed(u, "migration")
      /\ Creates(u) => Creates(w[p].todo)
      /\ Has(u, "reserve") <=> Has(w[p].todo, "reserve")
      /\ \A l : Owed(u, l) <=> Owed(w[p].todo, l)
  BY <1>1, MatchFirst
<1>5. u = <<Do("match")>> \o Tail(w[p].todo)
  BY DEF Push
<1> HIDE DEF u
<1>6. CASE identity = None
  <2> DEFINE r == [Then(p, <<>>) EXCEPT !.found = None]
  <2>1. Continue(p, r)
    BY <1>6 DEF Load
  <2>2. /\ r \in Workers /\ r.todo = Tail(w[p].todo)
        /\ r.found = None /\ r.mine = w[p].mine /\ r.old = w[p].old
        /\ r.returned = w[p].returned
    BY <1>2, PopIs DEF Workers
  <2> HIDE DEF r
  <2>3. /\ Sound(r.todo) /\ HasLocks(p, r.todo)
        /\ \A e : Has(w[p].todo, e) <=> "load" = e \/ Has(r.todo, e)
        /\ Creates(r.todo) => Creates(w[p].todo)
        /\ ~ First(r, Do("config")) /\ ~ First(r, Do("sync")) /\ ~ First(r, Do("gitignore"))
        /\ ~ First(r, Do("publish")) /\ ~ First(r, Do("upgrade")) /\ ~ First(r, Give("migration"))
        /\ ~ First(r, Do("record"))
    BY <1>1, <2>2, Popping
  <2>4. KnowsProject(r)
    BY <1>2, <1>6, <2>2, <2>3 DEF KnowsProject
  <2>5. KnowsManifest(r)
    BY <1>2, <2>2, <2>3 DEF GoesOn, KnowsManifest
  <2>6. KnowsConfig(r)
    BY <2>3 DEF KnowsConfig, Rendering
  <2>7. GoesOn(p, r)
    BY <2>3, <2>4, <2>5, <2>6 DEF GoesOn
  <2> QED
    BY <1>1, <2>1, <2>2, <2>7, ReadsKeep
<1>7. CASE identity # None /\ manifest = None
  <2> DEFINE m == Bootstrap \o <<Do("match")>>
             r == [Then(p, m) EXCEPT !.found = identity, !.mine = identity]
  <2>1. Continue(p, r)
    BY <1>7 DEF Load
  <2>2. Bootstrap \in Seq(StoreSteps) /\ <<Do("match")>> \in Seq(StoreSteps) /\ m \in Seq(StoreSteps)
    <3>1. Bootstrap \in Seq(StoreSteps)
      BY StepNames DEF Bootstrap, Sync, Doings, Locks
    <3>2. <<Do("match")>> \in Seq(StoreSteps)
      BY StepNames DEF Doings
    <3> QED
      BY <3>1, <3>2, ConcatProperties
  <2>3. m \o Tail(w[p].todo) = Bootstrap \o u
    <3> DEFINE g == <<Do("match")>>
               t == Tail(w[p].todo)
    <3>1. g \in Seq(StoreSteps) /\ t \in Seq(StoreSteps)
      BY <1>2, <2>2
    <3> HIDE DEF g, t
    <3>2. (Bootstrap \o g) \o t = Bootstrap \o (g \o t)
      BY <2>2, <3>1, ConcatAssociative
    <3> QED
      BY <1>5, <3>2 DEF g, t
  <2> HIDE DEF m
  <2>4. /\ Then(p, m) \in Workers /\ Then(p, m).todo = Bootstrap \o u
        /\ Then(p, m).returned = w[p].returned
    BY <1>2, <2>2, <2>3, ThenIs
  <2>5. /\ r \in Workers /\ r.todo = Bootstrap \o u
        /\ r.found = identity /\ r.mine = identity /\ r.returned = w[p].returned
    BY <1>3, <2>4 DEF Workers
  <2> HIDE DEF r
  <2>6. /\ Sound(Bootstrap \o u) /\ Head(Bootstrap \o u) = Take("bootstrap")
        /\ \A d : Has(Bootstrap \o u, d) <=>
                      d \in {"take", "manifest", "give"} \union Rendering \/ Has(u, d)
        /\ \A l : Owed(Bootstrap \o u, l) <=> Owed(u, l)
    BY <1>4, BootstrapPush
  <2>7. HasLocks(p, Bootstrap \o u)
    BY <1>4, <2>6 DEF HasLocks
  <2>8. ~ Has(Bootstrap \o u, "publish") /\ ~ Has(Bootstrap \o u, "upgrade")
    BY <1>4, <2>6 DEF Unfinished, Rendering
  <2>9. Plain(Bootstrap \o u)
    BY <2>6, PlainHead
  <2>10. GoesOn(p, r)
    BY <1>2, <1>7, <2>5, <2>6, <2>7, <2>8, <2>9, PlainGoesOn DEF KnowsProject
  <2> QED
    BY <1>1, <2>1, <2>5, <2>10, ReadsKeep
<1>8. CASE identity # None /\ manifest # None
  <2> DEFINE m == <<>> \o <<Do("match")>>
             r == [Then(p, m) EXCEPT !.found = identity, !.mine = @]
  <2>1. Continue(p, r)
    BY <1>8 DEF Load
  <2>2. m = <<Do("match")>> /\ m \in Seq(StoreSteps)
    BY StepNames, Nothing DEF Doings
  <2>3. m \o Tail(w[p].todo) = u
    BY <1>5, <2>2
  <2> HIDE DEF m
  <2>4. /\ Then(p, m) \in Workers /\ Then(p, m).todo = u
        /\ Then(p, m).mine = w[p].mine /\ Then(p, m).returned = w[p].returned
    BY <1>2, <2>2, <2>3, ThenIs
  <2>5. /\ r \in Workers /\ r.todo = u
        /\ r.found = identity /\ r.mine = w[p].mine /\ r.returned = w[p].returned
    BY <1>3, <2>4 DEF Workers
  <2> HIDE DEF r
  <2>6. ~ Has(u, "publish") /\ ~ Has(u, "upgrade")
    BY <1>4 DEF Unfinished
  <2>7. GoesOn(p, r)
    BY <1>2, <1>4, <1>8, <2>5, <2>6, PlainGoesOn DEF KnowsProject
  <2> QED
    BY <1>1, <2>1, <2>5, <2>7, ReadsKeep
<1> QED
  BY <1>6, <1>7, <1>8

\* A lock is taken or given back: no other process has more or fewer.
LEMMA LocksMove ==
  ASSUME StoreIInv, NEW p \in Processes, NEW r \in Workers, Continue(p, r), OnlyProcess,
         holder' \in [Locks -> Processes \union {None}],
         Sound(r.todo), KnowsProject(r), KnowsManifest(r), KnowsConfig(r),
         \A l \in Locks : Owed(r.todo, l) <=> holder'[l] = p,
         \A q \in Processes \ {p}, l \in Locks : holder'[l] = q <=> holder[l] = q
  PROVE  StoreIInv'
<1>1. UNCHANGED <<manifest, identity, config, gitignore, backups, recorded, original, drawn, head>>
  BY DEF OnlyProcess, store, history
<1>2. w' = [w EXCEPT ![p] = r]
  BY DEF Continue
<1>3. StoreTypes'
  BY <1>1, <1>2 DEF StoreIInv, StoreTypes
<1>4. StoreIsWhole'
  BY <1>1 DEF StoreIInv, StoreIsWhole, Old, Current
<1>5. ASSUME NEW q \in Processes PROVE GoesOn(q, w[q])'
  <2>1. w'[q] = IF q = p THEN r ELSE w[q]
    BY <1>2 DEF StoreIInv, StoreTypes
  <2>2. CASE q = p
    <3>1. HasLocks(p, r.todo)'
      BY DEF HasLocks
    <3> QED
      BY <1>1, <2>1, <2>2, <3>1
         DEF GoesOn, HasLocks, KnowsProject, KnowsManifest, KnowsConfig, Old, Current, First
  <2>3. CASE q # p
    <3>1. GoesOn(q, w[q]) /\ w'[q] = w[q]
      BY <2>1, <2>3 DEF StoreIInv
    <3>2. HasLocks(q, w[q].todo)'
      BY <2>3, <3>1 DEF GoesOn, HasLocks
    <3> QED
      BY <1>1, <3>1, <3>2
         DEF GoesOn, HasLocks, KnowsProject, KnowsManifest, KnowsConfig, Old, Current, First
  <2> QED
    BY <2>2, <2>3
<1> QED
  BY <1>3, <1>4, <1>5 DEF StoreIInv

\* A lock is taken.
LEMMA TakeLockKeeps ==
  ASSUME StoreIInv, NEW p \in Processes, TakeLock(p)
  PROVE  StoreIInv'
<1> DEFINE t == Tail(w[p].todo)
           r == Then(p, <<>>)
<1>1. At(p, "take") /\ w[p].todo # <<>> /\ Head(w[p].todo).do = "take"
  BY DEF TakeLock, At
<1>2. /\ w[p] \in Workers /\ t \in Seq(StoreSteps) /\ GoesOn(p, w[p])
      /\ w[p].todo = Push(Head(w[p].todo), t) /\ Sound(w[p].todo)
      /\ Head(w[p].todo) \in StoreSteps
  BY <1>1, Acting
<1>3. PICK k \in Locks : Head(w[p].todo) = Take(k)
  BY <1>1, <1>2 DEF StoreSteps, Do, Take, Give, Doings
<1>4. /\ holder[k] = None /\ holder' = [holder EXCEPT ![k] = p]
      /\ Continue(p, r) /\ OnlyProcess
  <2>1. Lock(p) = k
    BY <1>3 DEF Lock, Take
  <2> QED
    BY <2>1 DEF TakeLock
<1>5. /\ r \in Workers /\ r.todo = t
      /\ r.found = w[p].found /\ r.mine = w[p].mine /\ r.old = w[p].old
      /\ r.returned = w[p].returned
  BY <1>2, PopIs
<1> HIDE DEF r, t
<1>6. w[p].todo = Push(Take(k), t)
  BY <1>2, <1>3
<1>7. /\ Sound(t) /\ Fits(Take(k), t)
      /\ \A e : Has(w[p].todo, e) <=> e = "take" \/ Has(t, e)
      /\ \A l : Owed(w[p].todo, l) <=> k # l /\ Owed(t, l)
  BY <1>2, <1>6, Taking
<1>8. (t # <<>> => Leads(Take(k), t)) /\ Owed(t, k) /\ ~ Unfinished(t)
  BY <1>2, <1>7, Taking
<1>9. t # <<>> => /\ Head(t) \notin {Do(d) : d \in {"config", "sync", "gitignore", "publish",
                                                    "upgrade", "record", "reserve"}}
                  /\ Head(t) # Give("migration")
  BY <1>8, Leading
<1>10. /\ \A d \in {"config", "sync", "gitignore", "publish", "upgrade", "record", "reserve"} :
                ~ First(r, Do(d))
       /\ ~ First(r, Give("migration"))
  BY <1>5, <1>9 DEF First
<1>11. ~ Has(t, "publish") /\ ~ Has(t, "upgrade") /\ (Creates(t) => Creates(w[p].todo))
  BY <1>7, <1>8 DEF Unfinished, Creates
<1>12. KnowsProject(r)
  BY <1>2, <1>5, <1>7, <1>10, <1>11 DEF GoesOn, KnowsProject
<1>13. KnowsManifest(r)
  BY <1>5, <1>10, <1>11 DEF KnowsManifest
<1>14. KnowsConfig(r)
  BY <1>10 DEF KnowsConfig, Rendering
<1>15. /\ holder \in [Locks -> Processes \union {None}]
       /\ holder' \in [Locks -> Processes \union {None}] /\ p # None
  BY <1>4, StoreMarkAssumption DEF StoreIInv, StoreTypes
<1>16. \A l \in Locks : Owed(t, l) <=> holder'[l] = p
  BY <1>2, <1>4, <1>7, <1>8, <1>15 DEF GoesOn, HasLocks
<1>17. \A q \in Processes \ {p}, l \in Locks : holder'[l] = q <=> holder[l] = q
  BY <1>4, <1>15, StoreMarkAssumption
<1> QED
  BY <1>4, <1>5, <1>7, <1>12, <1>13, <1>14, <1>15, <1>16, <1>17, LocksMove

\* A lock is given back.
LEMMA GiveLockKeeps ==
  ASSUME StoreIInv, NEW p \in Processes, GiveLock(p)
  PROVE  StoreIInv'
<1> DEFINE t == Tail(w[p].todo)
           r == Then(p, <<>>)
<1>1. At(p, "give") /\ w[p].todo # <<>> /\ Head(w[p].todo).do = "give"
  BY DEF GiveLock, At
<1>2. /\ w[p] \in Workers /\ t \in Seq(StoreSteps) /\ GoesOn(p, w[p])
      /\ w[p].todo = Push(Head(w[p].todo), t) /\ Sound(w[p].todo)
      /\ Head(w[p].todo) \in StoreSteps
  BY <1>1, Acting
<1>3. PICK k \in Locks : Head(w[p].todo) = Give(k)
  BY <1>1, <1>2 DEF StoreSteps, Do, Take, Give, Doings
<1>4. holder' = [holder EXCEPT ![k] = None] /\ Continue(p, r) /\ OnlyProcess
  <2>1. Lock(p) = k
    BY <1>3 DEF Lock, Give
  <2> QED
    BY <2>1 DEF GiveLock
<1>5. /\ r \in Workers /\ r.todo = t
      /\ r.found = w[p].found /\ r.mine = w[p].mine /\ r.old = w[p].old
      /\ r.returned = w[p].returned
  BY <1>2, PopIs
<1> HIDE DEF r, t
<1>6. w[p].todo = Push(Give(k), t)
  BY <1>2, <1>3
<1>7. /\ Sound(t) /\ Fits(Give(k), t)
      /\ \A e : Has(w[p].todo, e) <=> e = "give" \/ Has(t, e)
      /\ \A l : Owed(w[p].todo, l) <=> k = l \/ Owed(t, l)
  BY <1>2, <1>6, Giving
<1>8. (t # <<>> => Leads(Give(k), t)) /\ ~ Owed(t, k) /\ ~ Unfinished(t)
  BY <1>2, <1>7, Giving
<1>9. t # <<>> => /\ Head(t) \notin {Do(d) : d \in {"sync", "gitignore", "publish", "upgrade",
                                                    "record", "reread", "reserve", "migrate"}}
                  /\ Head(t) = Do("config") => k = "migration"
                  /\ Head(t) # Give("migration")
  BY <1>8, Leading
<1>10. /\ \A d \in {"sync", "gitignore", "publish", "upgrade", "record", "reserve"} :
                ~ First(r, Do(d))
       /\ First(r, Do("config")) => k = "migration"
       /\ ~ First(r, Give("migration"))
  BY <1>5, <1>9 DEF First
<1>11. ~ Has(t, "publish") /\ ~ Has(t, "upgrade") /\ (Creates(t) => Creates(w[p].todo))
  BY <1>7, <1>8 DEF Unfinished, Creates
<1>12. KnowsProject(r)
  BY <1>2, <1>5, <1>7, <1>10, <1>11 DEF GoesOn, KnowsProject
<1>13. KnowsManifest(r)
  BY <1>5, <1>10, <1>11 DEF KnowsManifest
<1>14. KnowsConfig(r)
  <2>1. k = "migration" => ~ Old
    BY <1>1, <1>2, <1>3 DEF GoesOn, KnowsManifest, First
  <2> QED
    BY <1>10, <2>1 DEF KnowsConfig, Rendering
<1>15. /\ holder \in [Locks -> Processes \union {None}]
       /\ holder' \in [Locks -> Processes \union {None}] /\ p # None
  BY <1>4, StoreMarkAssumption DEF StoreIInv, StoreTypes
<1>16. HasLocks(p, w[p].todo) /\ holder[k] = p
  BY <1>2, <1>7 DEF GoesOn, HasLocks
<1>17. \A l \in Locks : Owed(t, l) <=> holder'[l] = p
  BY <1>4, <1>7, <1>8, <1>15, <1>16 DEF HasLocks
<1>18. \A q \in Processes \ {p}, l \in Locks : holder'[l] = q <=> holder[l] = q
  BY <1>4, <1>15, <1>16, StoreMarkAssumption
<1> QED
  BY <1>4, <1>5, <1>7, <1>12, <1>13, <1>14, <1>15, <1>17, <1>18, LocksMove

\* The configuration is read, to be rendered.
LEMMA ReadConfigKeeps ==
  ASSUME StoreIInv, NEW p \in Processes, ReadConfig(p)
  PROVE  StoreIInv'
<1> DEFINE r == [Then(p, <<>>) EXCEPT !.seen = config]
<1>1. At(p, "sync") /\ Continue(p, r) /\ Reads /\ "sync" \in Doings \ {"migrate", "reserve"}
  BY DEF ReadConfig, Doings
<1>2. /\ w[p] \in Workers /\ Tail(w[p].todo) \in Seq(StoreSteps) /\ GoesOn(p, w[p])
      /\ w[p].todo # <<>> /\ Head(w[p].todo) = Do("sync")
  BY <1>1, ActingDo
<1>3. /\ config \in Missing..MaxEdits /\ gitignore <= config /\ config <= config
  BY ProjectStoreAssumption DEF StoreIInv, StoreTypes, StoreIsWhole, Missing
<1>4. /\ r \in Workers /\ r.todo = Tail(w[p].todo)
      /\ r.found = w[p].found /\ r.mine = w[p].mine /\ r.old = w[p].old
      /\ r.returned = w[p].returned /\ r.seen = config
  BY <1>2, <1>3, PopIs DEF Workers
<1> HIDE DEF r
<1>5. /\ Sound(r.todo) /\ HasLocks(p, r.todo)
      /\ \A e : Has(w[p].todo, e) <=> "sync" = e \/ Has(r.todo, e)
      /\ Creates(r.todo) => Creates(w[p].todo)
      /\ ~ First(r, Do("config")) /\ ~ First(r, Do("sync"))
      /\ ~ First(r, Do("publish")) /\ ~ First(r, Do("upgrade")) /\ ~ First(r, Give("migration"))
      /\ ~ First(r, Do("record")) /\ ~ First(r, Do("reserve"))
  BY <1>1, <1>4, Popping
<1>6. (Has(w[p].todo, "upgrade") \/ ~ Old) /\ config # Missing
  BY <1>2 DEF GoesOn, KnowsConfig, First, Rendering
<1>7. KnowsProject(r)
  BY <1>2, <1>4, <1>5 DEF GoesOn, KnowsProject
<1>8. KnowsManifest(r)
  BY <1>2, <1>4, <1>5 DEF GoesOn, KnowsManifest
<1>9. KnowsConfig(r)
  BY <1>3, <1>4, <1>5, <1>6 DEF KnowsConfig, Rendering
<1>10. GoesOn(p, r)
  BY <1>5, <1>7, <1>8, <1>9 DEF GoesOn
<1> QED
  BY <1>1, <1>4, <1>10, ReadsKeep

\* The manifest is read, to be replaced.
LEMMA RereadKeeps ==
  ASSUME StoreIInv, NEW p \in Processes, Reread(p)
  PROVE  StoreIInv'
<1>1. At(p, "reread") /\ OnlyProcess /\ "reread" \in Doings \ {"migrate", "reserve"}
  BY DEF Reread, Doings
<1>2. CASE ~ Current
  BY <1>1, <1>2, FailsKeep DEF Reread
<1>3. CASE Current
  <2> DEFINE r == [Then(p, <<>>) EXCEPT !.old = manifest]
  <2>1. Continue(p, r) /\ Reads
    BY <1>1, <1>3 DEF Reread, Reads
  <2>2. /\ w[p] \in Workers /\ Tail(w[p].todo) \in Seq(StoreSteps) /\ GoesOn(p, w[p])
        /\ Fits(Do("reread"), Tail(w[p].todo))
    BY <1>1, ActingDo
  <2>3. manifest \in Manifests \union {None}
    BY DEF StoreIInv, StoreTypes
  <2>4. /\ r \in Workers /\ r.todo = Tail(w[p].todo)
        /\ r.found = w[p].found /\ r.mine = w[p].mine /\ r.old = manifest
        /\ r.returned = w[p].returned
    BY <2>2, <2>3, PopIs DEF Workers
  <2> HIDE DEF r
  <2>5. /\ Sound(r.todo) /\ HasLocks(p, r.todo)
        /\ \A e : Has(w[p].todo, e) <=> "reread" = e \/ Has(r.todo, e)
        /\ Creates(r.todo) => Creates(w[p].todo)
        /\ ~ First(r, Do("config")) /\ ~ First(r, Do("sync")) /\ ~ First(r, Do("gitignore"))
        /\ ~ First(r, Do("publish")) /\ ~ First(r, Do("upgrade")) /\ ~ First(r, Give("migration"))
        /\ ~ First(r, Do("reserve"))
    BY <1>1, <2>4, Popping
  <2>6. ~ Has(r.todo, "publish") /\ ~ Has(r.todo, "upgrade")
    <3> DEFINE t == Tail(w[p].todo)
    <3>1. "reread" \in Doings /\ t \in Seq(StoreSteps) /\ Fits(Do("reread"), t) /\ r.todo = t
      BY <1>1, <2>2, <2>4
    <3> HIDE DEF t
    <3>2. /\ Has(t, "publish") => "reread" \in Rendering
          /\ Has(t, "upgrade") => "reread" \in {"backup"} \union Rendering
      BY <3>1, DoingFits, Zenon
    <3>3. "reread" \notin Rendering /\ "reread" \notin {"backup"} \union Rendering
      BY DEF Rendering
    <3> QED
      BY <3>1, <3>2, <3>3, Zenon
  <2>7. KnowsProject(r)
    BY <2>2, <2>4, <2>5 DEF GoesOn, KnowsProject
  <2>8. KnowsManifest(r)
    BY <1>3, <2>4, <2>5, <2>6 DEF KnowsManifest
  <2>9. KnowsConfig(r)
    BY <2>5 DEF KnowsConfig, Rendering
  <2>10. GoesOn(p, r)
    BY <2>5, <2>7, <2>8, <2>9 DEF GoesOn
  <2> QED
    BY <2>1, <2>4, <2>10, ReadsKeep
<1> QED
  BY <1>2, <1>3

\* With the lock of the migration, the manifest is looked at again.
LEMMA MigrateManifestKeeps ==
  ASSUME StoreIInv, NEW p \in Processes, MigrateManifest(p)
  PROVE  StoreIInv'
<1> DEFINE t == Tail(w[p].todo)
<1>1. At(p, "migrate") /\ Reads /\ "migrate" \in Doings /\ "migration" \in Locks
  BY DEF MigrateManifest, Doings, Locks
<1>2. /\ w[p] \in Workers /\ t \in Seq(StoreSteps) /\ GoesOn(p, w[p])
      /\ Fits(Do("migrate"), t) /\ Sound(t)
      /\ \A e : Has(w[p].todo, e) <=> "migrate" = e \/ Has(t, e)
      /\ \A l : Owed(w[p].todo, l) <=> l = "migration" \/ Owed(t, l)
  BY <1>1, ActingDo
<1>3. Opens(t) /\ ~ Unfinished(t) /\ ~ Owed(t, "migration")
  BY <1>2, Follows
<1>4. CASE Old
  <2> DEFINE r == [Then(p, Upgrade) EXCEPT !.old = manifest]
  <2>1. Continue(p, r)
    BY <1>4 DEF MigrateManifest
  <2>2. Upgrade \in Seq(StoreSteps) /\ manifest \in Manifests
    <3>1. Upgrade \in Seq(StoreSteps)
      BY StepNames DEF Upgrade, Sync, Doings, Locks
    <3> QED
      BY <1>4, <3>1 DEF StoreIInv, StoreTypes, Old
  <2>3. /\ Then(p, Upgrade) \in Workers /\ Then(p, Upgrade).todo = Upgrade \o t
        /\ Then(p, Upgrade).found = w[p].found /\ Then(p, Upgrade).mine = w[p].mine
        /\ Then(p, Upgrade).returned = w[p].returned
    BY <1>2, <2>2, ThenIs
  <2>4. /\ r \in Workers /\ r.todo = Upgrade \o t
        /\ r.found = w[p].found /\ r.mine = w[p].mine /\ r.old = manifest
        /\ r.returned = w[p].returned
    BY <2>2, <2>3 DEF Workers
  <2> HIDE DEF r, t
  <2> DEFINE u == Upgrade \o t
  <2>5. /\ Sound(u) /\ Head(u) = Do("backup")
        /\ \A d : Has(u, d) <=> d \in {"backup", "upgrade", "give"} \union Rendering \/ Has(t, d)
        /\ \A l : Owed(u, l) <=> l = "migration" \/ Owed(t, l)
    BY <1>2, <1>3, UpgradePush
  <2>6. r.todo = u
    BY <2>4
  <2> HIDE DEF u
  <2>7. Plain(u)
    BY <2>5, PlainHead
  <2>8. HasLocks(p, u)
    BY <1>2, <2>5 DEF GoesOn, HasLocks
  <2>9. ~ Has(u, "publish") /\ Has(u, "backup") /\ (Has(u, "reserve") => Has(w[p].todo, "reserve"))
    BY <1>2, <1>3, <2>5 DEF Unfinished, Rendering
  <2>10. Creates(u) => Creates(w[p].todo)
    BY <1>2, <2>5 DEF Creates, Rendering
  <2>11. KnowsProject(w[p])
    BY <1>2 DEF GoesOn
  <2>12. GoesOn(p, r)
    BY <1>4, <2>4, <2>5, <2>6, <2>7, <2>8, <2>9, <2>10, <2>11, PlainGoesOn DEF KnowsProject
  <2> QED
    BY <1>1, <2>1, <2>4, <2>12, ReadsKeep
<1>5. CASE ~ Old
  <2> DEFINE m == <<Give("migration")>>
             r == Then(p, m)
             u == Push(Give("migration"), t)
  <2>1. Continue(p, r)
    BY <1>5 DEF MigrateManifest
  <2>2. m \in Seq(StoreSteps) /\ u = m \o t
    BY <1>1, StepNames DEF Push
  <2> HIDE DEF m
  <2>3. /\ r \in Workers /\ r.todo = u
        /\ r.found = w[p].found /\ r.mine = w[p].mine
        /\ r.returned = w[p].returned
    BY <1>2, <2>2, ThenIs
  <2> HIDE DEF r, t
  <2>4. t # <<>> => Leads(Give("migration"), t)
    BY <1>3, PlainLeads
  <2>5. Fits(Give("migration"), t)
    BY <1>1, <1>2, <1>3, <2>4, Giving
  <2>6. /\ Sound(u) /\ Head(u) = Give("migration")
        /\ \A d : Has(u, d) <=> d = "give" \/ Has(t, d)
        /\ \A l : Owed(u, l) <=> "migration" = l \/ Owed(t, l)
    BY <1>1, <1>2, <2>5, Giving
  <2> HIDE DEF u
  <2>7. \A d \in Doings : ~ First(r, Do(d))
    BY <2>3, <2>6, StepNames DEF First
  <2>8. ~ Has(u, "publish") /\ ~ Has(u, "upgrade") /\ (Has(u, "reserve") => Has(w[p].todo, "reserve"))
    BY <1>2, <1>3, <2>6 DEF Unfinished
  <2>9. Creates(u) => Creates(w[p].todo)
    BY <1>2, <2>6 DEF Creates
  <2>10. HasLocks(p, u)
    BY <1>2, <2>6 DEF GoesOn, HasLocks
  <2>11. "reserve" \in Doings /\ "record" \in Doings /\ "publish" \in Doings /\ "upgrade" \in Doings
         /\ Rendering \subseteq Doings
    BY DEF Doings, Rendering
  <2>12. KnowsProject(r)
    BY <1>2, <2>3, <2>7, <2>8, <2>9, <2>11 DEF GoesOn, KnowsProject
  <2>13. KnowsManifest(r)
    BY <1>5, <2>3, <2>7, <2>8, <2>11 DEF KnowsManifest
  <2>14. KnowsConfig(r)
    BY <2>7, <2>11 DEF KnowsConfig, Rendering
  <2>15. GoesOn(p, r)
    BY <2>3, <2>6, <2>10, <2>12, <2>13, <2>14 DEF GoesOn
  <2> QED
    BY <1>1, <2>1, <2>3, <2>15, ReadsKeep
<1> QED
  BY <1>4, <1>5

\* With the lock of the bootstrap, the manifest is looked for.
LEMMA FindManifestKeeps ==
  ASSUME StoreIInv, NEW p \in Processes, FindManifest(p)
  PROVE  StoreIInv'
<1> DEFINE t == Tail(w[p].todo)
<1>1. At(p, "manifest") /\ Reads /\ "manifest" \in Doings \ {"migrate", "reserve"}
  BY DEF FindManifest, Doings
<1>2. /\ w[p] \in Workers /\ t \in Seq(StoreSteps) /\ GoesOn(p, w[p])
      /\ Fits(Do("manifest"), t) /\ Sound(t)
      /\ \A e : Has(w[p].todo, e) <=> "manifest" = e \/ Has(t, e)
      /\ \A l : Owed(w[p].todo, l) <=> Owed(t, l)
  BY <1>1, ActingDo
<1>3. Opens(t) /\ ~ Unfinished(t) /\ ~ Owed(t, "migration") /\ Owed(t, "bootstrap")
  BY <1>1, <1>2, Follows, DoingFits
<1>4. CASE manifest = None
  <2> DEFINE r == [Then(p, Publish) EXCEPT !.commit = head]
  <2>1. Continue(p, r)
    BY <1>4 DEF FindManifest
  <2>2. Publish \in Seq(StoreSteps) /\ head \in 0..MaxHead
    <3>1. Publish \in Seq(StoreSteps)
      BY StepNames DEF Publish, Sync, Doings
    <3> QED
      BY <3>1, ProjectStoreAssumption DEF StoreIInv, StoreTypes
  <2>3. /\ Then(p, Publish) \in Workers /\ Then(p, Publish).todo = Publish \o t
        /\ Then(p, Publish).found = w[p].found /\ Then(p, Publish).mine = w[p].mine
        /\ Then(p, Publish).returned = w[p].returned
    BY <1>2, <2>2, ThenIs
  <2>4. /\ r \in Workers /\ r.todo = Publish \o t
        /\ r.found = w[p].found /\ r.mine = w[p].mine
        /\ r.returned = w[p].returned
    BY <2>2, <2>3 DEF Workers
  <2> HIDE DEF r, t
  <2> DEFINE u == Publish \o t
  <2>5. /\ Sound(u) /\ Head(u) = Do("config")
        /\ \A d : Has(u, d) <=> d \in {"publish"} \union Rendering \/ Has(t, d)
        /\ \A l : Owed(u, l) <=> Owed(t, l)
    BY <1>2, <1>3, PublishPush
  <2>6. r.todo = u
    BY <2>4
  <2> HIDE DEF u
  <2>7. /\ \A d \in Doings \ {"config"} : ~ First(r, Do(d))
        /\ ~ First(r, Give("migration"))
    BY <2>5, <2>6, StepNames DEF First, Doings
  <2>8. HasLocks(p, u)
    BY <1>2, <2>5 DEF GoesOn, HasLocks
  <2>9. ~ Has(u, "upgrade") /\ (Has(u, "reserve") => Has(w[p].todo, "reserve"))
    BY <1>2, <1>3, <2>5 DEF Unfinished, Rendering
  <2>10. Creates(w[p].todo)
    BY <1>2 DEF Creates
  <2>11. {"reserve", "record", "publish", "upgrade", "sync", "gitignore"} \subseteq Doings \ {"config"}
    BY DEF Doings
  <2>12. KnowsProject(r)
    BY <1>2, <2>4, <2>6, <2>7, <2>9, <2>10, <2>11 DEF GoesOn, KnowsProject
  <2>13. KnowsManifest(r)
    BY <1>4, <2>6, <2>7, <2>9, <2>11 DEF KnowsManifest
  <2>14. KnowsConfig(r)
    BY <1>4, <2>7, <2>11 DEF KnowsConfig, Rendering, Old
  <2>15. GoesOn(p, r)
    BY <2>5, <2>6, <2>8, <2>12, <2>13, <2>14 DEF GoesOn
  <2> QED
    BY <1>1, <2>1, <2>4, <2>15, ReadsKeep
<1>5. CASE Old
  <2> DEFINE r == Then(p, Migrate)
  <2>1. Continue(p, r)
    BY <1>5 DEF FindManifest, Ensure, Old
  <2>2. Migrate \in Seq(StoreSteps)
    BY StepNames DEF Migrate, Doings, Locks
  <2>3. /\ r \in Workers /\ r.todo = Migrate \o t
        /\ r.found = w[p].found /\ r.mine = w[p].mine /\ r.returned = w[p].returned
    BY <1>2, <2>2, ThenIs
  <2> HIDE DEF r
  <2>4. GoesOn(p, r)
    BY <1>1, <2>3, MigratesAndGoesOn
  <2> QED
    BY <1>1, <2>1, <2>3, <2>4, ReadsKeep
<1>6. CASE manifest # None /\ ~ Old
  <2> DEFINE r == Then(p, <<>>)
  <2>1. Continue(p, r)
    BY <1>6 DEF FindManifest, Ensure
  <2>2. /\ r \in Workers /\ r.todo = t
        /\ r.found = w[p].found /\ r.mine = w[p].mine /\ r.returned = w[p].returned
        /\ r.old = w[p].old
    BY <1>2, PopIs
  <2> HIDE DEF r
  <2>3. /\ Sound(r.todo) /\ HasLocks(p, r.todo)
        /\ \A e : Has(w[p].todo, e) <=> "manifest" = e \/ Has(r.todo, e)
        /\ Creates(r.todo) => Creates(w[p].todo)
        /\ ~ First(r, Do("sync")) /\ ~ First(r, Do("gitignore"))
        /\ ~ First(r, Do("publish")) /\ ~ First(r, Do("upgrade")) /\ ~ First(r, Give("migration"))
        /\ ~ First(r, Do("record")) /\ ~ First(r, Do("reserve"))
    BY <1>1, <2>2, Popping
  <2>4. KnowsProject(r)
    BY <1>2, <2>2, <2>3 DEF GoesOn, KnowsProject
  <2>5. KnowsManifest(r)
    BY <1>2, <2>2, <2>3 DEF GoesOn, KnowsManifest
  <2>6. KnowsConfig(r)
    BY <1>6, <2>3 DEF KnowsConfig, Rendering
  <2>7. GoesOn(p, r)
    BY <2>3, <2>4, <2>5, <2>6 DEF GoesOn
  <2> QED
    BY <1>1, <2>1, <2>2, <2>7, ReadsKeep
<1> QED
  BY <1>4, <1>5, <1>6 DEF Old

\* An operation begins.
LEMMA BeginKeeps ==
  ASSUME StoreIInv, NEW p \in Processes, NEW o \in Operations, Begin(p, o)
  PROVE  StoreIInv'
<1> DEFINE r == [Idle EXCEPT !.todo = Steps(o)]
<1>1. /\ w[p].todo = <<>> /\ w' = [w EXCEPT ![p] = r]
      /\ UNCHANGED <<store, holder, head, original>> /\ drawn' \in Nat
  BY DEF Begin, Continue, history, StoreIInv, StoreTypes
<1>2. Harmless(Steps(o)) /\ ~ Creates(Steps(o)) /\ ~ Has(Steps(o), "reserve")
  BY StepsAre
<1>3. Missing \in Missing..MaxEdits /\ 0 \in 0..MaxHead
  BY ProjectStoreAssumption DEF Missing
<1>4. r \in Workers /\ r.todo = Steps(o) /\ r.found = None /\ r.returned = None
  BY <1>2, <1>3 DEF Idle, Workers, Harmless
<1>5. \A l \in Locks : holder[l] # p
  BY <1>1, Nothing DEF StoreIInv, GoesOn, HasLocks
<1> HIDE DEF r
<1>6. GoesOn(p, r)
  BY <1>2, <1>4, <1>5, HarmlessGoesOn
<1> QED
  BY <1>1, <1>4, <1>6, OnlyLooks

\* A process dies.
LEMMA EndProcessKeeps ==
  ASSUME StoreIInv, NEW p \in Processes, EndProcess(p)
  PROVE  StoreIInv'
BY FailKeeps DEF EndProcess

\* Someone commits to the repository.
LEMMA CommitHeadKeeps ==
  ASSUME StoreIInv, CommitHead
  PROVE  StoreIInv'
<1>1. /\ UNCHANGED <<manifest, identity, config, gitignore, backups, recorded, original, drawn>>
      /\ UNCHANGED <<holder, w>> /\ head < MaxHead /\ head' = head + 1
  BY DEF CommitHead, store, history
<1>2. StoreTypes'
  BY <1>1, ProjectStoreAssumption DEF StoreIInv, StoreTypes
<1>3. StoreIsWhole'
  BY <1>1 DEF StoreIInv, StoreIsWhole, Old, Current
<1>4. ASSUME NEW q \in Processes PROVE GoesOn(q, w[q])'
  BY <1>1
     DEF StoreIInv, GoesOn, HasLocks, KnowsProject, KnowsManifest, KnowsConfig, Old, Current, First
<1> QED
  BY <1>2, <1>3, <1>4 DEF StoreIInv

\* What a process is in the middle of, it holds the lock of.
LEMMA Holding ==
  ASSUME StoreIInv, NEW p \in Processes
  PROVE  /\ Has(w[p].todo, "publish") => holder["bootstrap"] = p
         /\ Has(w[p].todo, "upgrade") => holder["migration"] = p
         /\ First(w[p], Do("reserve")) => holder["identity"] = p
         /\ First(w[p], Do("record")) => holder["manifest"] = p
         /\ \A d \in Rendering :
                First(w[p], Do(d)) => Has(w[p].todo, "upgrade") \/ holder["bootstrap"] = p
<1>1. CASE w[p].todo = <<>>
  BY <1>1, Nothing DEF First
<1>2. CASE w[p].todo # <<>>
  <2> DEFINE h == Head(w[p].todo)
             t == Tail(w[p].todo)
  <2>1. /\ h \in StoreSteps /\ t \in Seq(StoreSteps) /\ w[p].todo = Push(h, t)
        /\ Sound(w[p].todo) /\ HasLocks(p, w[p].todo)
    BY <1>2, Acting
  <2>2. \A d : First(w[p], Do(d)) <=> h = Do(d)
    BY <1>2 DEF First
  <2> HIDE DEF h, t
  <2>3. /\ Fits(h, t)
        /\ \A d : Has(w[p].todo, d) <=> h.do = d \/ Has(t, d)
        /\ \A l : Owed(w[p].todo, l) <=> Closes(h, l) \/ (h # Take(l) /\ Owed(t, l))
    <3>1. /\ Sound(Push(h, t)) => Fits(h, t)
          /\ \A d : Has(Push(h, t), d) <=> h.do = d \/ Has(t, d)
          /\ \A l : Owed(Push(h, t), l) <=> Closes(h, l) \/ (h # Take(l) /\ Owed(t, l))
      BY <2>1, Pushed
    <3> QED
      BY <2>1, <3>1, Zenon
  <2>4. \A l \in Locks : Owed(w[p].todo, l) => holder[l] = p
    BY <2>1 DEF HasLocks
  <2>5. {"bootstrap", "migration", "identity", "manifest"} \subseteq Locks
    BY DEF Locks
  <2>6. h.do # "take" => \A l : h # Take(l)
    BY StepNames
  <2>7. Has(w[p].todo, "publish") => holder["bootstrap"] = p
    <3>1. Has(w[p].todo, "publish") => h.do # "take" /\ Owed(t, "bootstrap")
      BY <2>3 DEF Fits, Rendering
    <3> QED
      BY <2>3, <2>4, <2>5, <2>6, <3>1
  <2>8. Has(w[p].todo, "upgrade") => holder["migration"] = p
    <3>1. Has(w[p].todo, "upgrade") => h.do # "take" /\ Owed(t, "migration")
      BY <2>3 DEF Fits, Rendering
    <3> QED
      BY <2>3, <2>4, <2>5, <2>6, <3>1
  <2>9. h = Do("reserve") => holder["identity"] = p
    BY <2>3, <2>4, <2>5 DEF Closes
  <2>10. h = Do("record") => holder["manifest"] = p
    <3>1. h = Do("record") => h.do = "record"
      BY StepNames DEF Doings
    <3>2. h = Do("record") => h.do # "take" /\ Owed(t, "manifest")
      BY <2>3, <3>1 DEF Fits
    <3> QED
      BY <2>3, <2>4, <2>5, <2>6, <3>2
  <2>11. ASSUME NEW d \in Rendering, h = Do(d)
         PROVE  Has(w[p].todo, "upgrade") \/ holder["bootstrap"] = p
    <3>1. h.do = d /\ h.do # "take"
      BY <2>11, StepNames DEF Doings, Rendering
    <3>2. Has(t, "upgrade") \/ Owed(t, "bootstrap")
      BY <2>3, <2>11, <3>1 DEF Fits
    <3> QED
      BY <2>3, <2>4, <2>5, <2>6, <3>1, <3>2
  <2> QED
    BY <2>2, <2>7, <2>8, <2>9, <2>10, <2>11
<1> QED
  BY <1>1, <1>2

\* What one process may do to what another knows.
Respects(p) ==
    /\ holder' = holder /\ backups \subseteq backups'
    /\ identity' = identity \/ (identity = None /\ First(w[p], Do("reserve")))
    /\ \/ manifest' = manifest
       \/ /\ manifest' # None /\ manifest'.schema = 2
          /\ \/ manifest = None /\ Has(w[p].todo, "publish")
             \/ Old /\ Has(w[p].todo, "upgrade")
             \/ Current /\ First(w[p], Do("record"))
    /\ config' \in Int /\ config' >= config
    /\ gitignore' = gitignore \/ (First(w[p], Do("gitignore")) /\ gitignore' # Missing)

\* A write respects what every other process is in the middle of.
LEMMA OthersGoOn ==
  ASSUME StoreIInv, NEW p \in Processes, Respects(p), NEW q \in Processes, q # p, w'[q] = w[q]
  PROVE  GoesOn(q, w[q])'
<1>1. GoesOn(q, w[q]) /\ GoesOn(p, w[p])
  BY DEF StoreIInv
<1>2. /\ config \in Int /\ gitignore \in Int
      /\ identity \in Ids \union {None}
      /\ manifest # None => manifest.id = identity /\ manifest.id # None
  BY ProjectStoreAssumption, StoreMarkAssumption
     DEF StoreIInv, StoreTypes, StoreIsWhole, Missing, Manifests
<1>3. Sound(w[q].todo) /\ HasLocks(q, w[q].todo)'
  BY <1>1 DEF GoesOn, HasLocks, Respects
<1>4. KnowsProject(w[q])'
  <2>1. KnowsProject(w[q])
    BY <1>1 DEF GoesOn
  <2>2. CASE identity' = identity
    BY <2>1, <2>2 DEF KnowsProject, First
  <2>3. CASE identity = None /\ First(w[p], Do("reserve"))
    <3>1. ~ First(w[q], Do("reserve"))
      BY <2>3, Holding
    <3>2. /\ w[q].found = None /\ w[q].returned = None /\ ~ Creates(w[q].todo)
          /\ Has(w[q].todo, "reserve") => w[q].mine # None
      BY <2>1, <2>3 DEF KnowsProject
    <3> QED
      BY <3>1, <3>2 DEF KnowsProject, First
  <2> QED
    BY <2>2, <2>3 DEF Respects
<1>5. KnowsManifest(w[q])'
  <2>1. KnowsManifest(w[q]) /\ backups \subseteq backups'
    BY <1>1 DEF GoesOn, Respects
  <2>2. CASE manifest' = manifest
    BY <2>1, <2>2 DEF KnowsManifest, First, Old, Current
  <2>3. CASE manifest' # manifest
    <3>1. /\ manifest' # None /\ manifest'.schema = 2
          /\ \/ manifest = None /\ Has(w[p].todo, "publish")
             \/ Old /\ Has(w[p].todo, "upgrade")
             \/ Current /\ First(w[p], Do("record"))
      BY <2>3 DEF Respects
    <3>2. ~ Has(w[q].todo, "publish")
      BY <2>1, <3>1, Holding DEF KnowsManifest, Old, Current
    <3>3. ~ Has(w[q].todo, "upgrade")
      BY <2>1, <3>1, Holding DEF KnowsManifest, Old, Current
    <3>4. ~ First(w[q], Do("record"))
      BY <2>1, <3>1, Holding DEF KnowsManifest, Old, Current
    <3>5. ~ Old'
      BY <3>1 DEF Old
    <3> QED
      BY <3>2, <3>3, <3>4, <3>5 DEF KnowsManifest, First
  <2> QED
    BY <2>2, <2>3
<1>6. KnowsConfig(w[q])'
  <2>1. KnowsConfig(w[q])
    BY <1>1 DEF GoesOn
  <2>2. config # Missing => config' # Missing
    BY <1>2 DEF StoreIInv, StoreTypes, Respects, Missing
  <2>3. ~ Old => ~ Old'
    BY DEF Respects, Old
  <2>4. /\ First(w[q], Do("gitignore")) => gitignore' = gitignore
        /\ gitignore # Missing => gitignore' # Missing
    <3>1. ASSUME First(w[q], Do("gitignore")), First(w[p], Do("gitignore")) PROVE FALSE
      <4>1. /\ Has(w[p].todo, "upgrade") \/ holder["bootstrap"] = p
            /\ Has(w[q].todo, "upgrade") \/ holder["bootstrap"] = q
        BY <3>1, Holding DEF Rendering
      <4>2. /\ Has(w[p].todo, "upgrade") => holder["migration"] = p /\ Old
            /\ Has(w[q].todo, "upgrade") => holder["migration"] = q /\ Old
        BY <1>1, Holding DEF GoesOn, KnowsManifest
      <4>3. /\ Has(w[p].todo, "upgrade") \/ ~ Old
            /\ Has(w[q].todo, "upgrade") \/ ~ Old
        BY <1>1, <3>1 DEF GoesOn, KnowsConfig, Rendering
      <4> QED
        BY <4>1, <4>2, <4>3
    <3> QED
      BY <3>1 DEF Respects
  <2>5. First(w[q], Do("gitignore")) => w[q].seen \in Int /\ w[q].seen <= config'
    <3>1. w[q].seen \in Int
      BY DEF StoreIInv, StoreTypes, Workers, Missing
    <3> QED
      BY <1>2, <2>1, <3>1 DEF KnowsConfig, Respects
  <2>6. \A d : First(w[q], Do(d))' <=> First(w[q], Do(d))
    BY DEF First
  <2> QED
    BY <2>1, <2>2, <2>3, <2>4, <2>5, <2>6 DEF KnowsConfig
<1> QED
  BY <1>3, <1>4, <1>5, <1>6 DEF GoesOn

\* A write of a process, which goes on with what it knows afterwards.
LEMMA WritesKeep ==
  ASSUME StoreIInv, NEW p \in Processes, NEW r \in Workers, Continue(p, r), Respects(p),
         UNCHANGED <<head, history>>, StoreIsWhole',
         manifest' \in {None} \union Manifests, identity' \in {None} \union Ids,
         config' \in Missing..MaxEdits, gitignore' \in Missing..MaxEdits, backups' \subseteq Manifests,
         Sound(r.todo), HasLocks(p, r.todo),
         KnowsProject(r)', KnowsManifest(r)', KnowsConfig(r)'
  PROVE  StoreIInv'
<1>1. w' = [w EXCEPT ![p] = r] /\ holder' = holder /\ UNCHANGED <<head, original, drawn>>
  BY DEF Continue, Respects, history
<1>2. StoreTypes'
  BY <1>1 DEF StoreIInv, StoreTypes
<1>3. ASSUME NEW q \in Processes PROVE GoesOn(q, w[q])'
  <2>1. w'[q] = IF q = p THEN r ELSE w[q]
    BY <1>1 DEF StoreIInv, StoreTypes
  <2>2. CASE q = p
    BY <1>1, <2>1, <2>2
       DEF GoesOn, HasLocks, KnowsProject, KnowsManifest, KnowsConfig, Old, Current, First
  <2>3. CASE q # p
    BY <2>1, <2>3, OthersGoOn
  <2> QED
    BY <2>2, <2>3
<1> QED
  BY <1>2, <1>3 DEF StoreIInv

\* The documents are written once.
LEMMA WriteDocumentsKeeps ==
  ASSUME StoreIInv, NEW p \in Processes, WriteDocuments(p)
  PROVE  StoreIInv'
<1>1. /\ At(p, "documents") /\ Continue(p, Then(p, <<>>)) /\ "documents" \in Doings
      /\ UNCHANGED <<manifest, identity, config, gitignore, backups, recorded, holder, head, history>>
  BY DEF WriteDocuments, Writes, Doings
<1>2. w[p] \in Workers /\ Tail(w[p].todo) \in Seq(StoreSteps)
  BY <1>1, ActingDo
<1>3. PICK r \in Workers :
          /\ Continue(p, r) /\ r.todo = Tail(w[p].todo)
          /\ r.found = w[p].found /\ r.mine = w[p].mine /\ r.old = w[p].old
          /\ r.returned = w[p].returned
  BY <1>1, <1>2, PopIs
<1>4. GoesOn(p, r)
  BY <1>1, <1>3, LooksAndGoesOn
<1>5. StoreIsWhole'
  BY <1>1 DEF StoreIInv, StoreIsWhole, Old, Current, history
<1>6. Respects(p)
  BY <1>1, ProjectStoreAssumption DEF Respects, StoreIInv, StoreTypes, Missing
<1>7. Sound(r.todo) /\ HasLocks(p, r.todo) /\ KnowsProject(r)' /\ KnowsManifest(r)' /\ KnowsConfig(r)'
  BY <1>1, <1>4 DEF GoesOn, KnowsProject, KnowsManifest, KnowsConfig, Old, Current
<1>8. /\ manifest' \in {None} \union Manifests /\ identity' \in {None} \union Ids
      /\ config' \in Missing..MaxEdits /\ gitignore' \in Missing..MaxEdits
      /\ backups' \subseteq Manifests
  BY <1>1 DEF StoreIInv, StoreTypes
<1> QED
  BY <1>1, <1>3, <1>5, <1>6, <1>7, <1>8, WritesKeep

\* A manifest of schema 1 is copied before it is replaced.
LEMMA BackupKeeps ==
  ASSUME StoreIInv, NEW p \in Processes, Backup(p)
  PROVE  StoreIInv'
<1> DEFINE t == Tail(w[p].todo)
<1>1. /\ At(p, "backup") /\ Continue(p, Then(p, <<>>)) /\ "backup" \in Doings \ {"migrate", "reserve"}
      /\ backups' = backups \union {manifest}
      /\ UNCHANGED <<manifest, identity, config, gitignore, recorded, holder, head, history>>
  BY DEF Backup, Writes, Doings
<1>2. /\ w[p] \in Workers /\ t \in Seq(StoreSteps) /\ GoesOn(p, w[p])
      /\ Fits(Do("backup"), t)
      /\ \A e : Has(w[p].todo, e) <=> "backup" = e \/ Has(t, e)
  BY <1>1, ActingDo
<1>3. PICK r \in Workers :
          /\ Continue(p, r) /\ r.todo = t
          /\ r.found = w[p].found /\ r.mine = w[p].mine /\ r.old = w[p].old
          /\ r.returned = w[p].returned
  BY <1>1, <1>2, PopIs
<1>4. /\ Sound(r.todo) /\ HasLocks(p, r.todo)
      /\ Creates(r.todo) => Creates(w[p].todo)
      /\ ~ First(r, Do("sync")) /\ ~ First(r, Do("gitignore"))
      /\ ~ First(r, Do("publish")) /\ ~ First(r, Do("upgrade")) /\ ~ First(r, Give("migration"))
      /\ ~ First(r, Do("record")) /\ ~ First(r, Do("reserve"))
  BY <1>1, <1>3, Popping
<1> HIDE DEF t
<1>5. Has(t, "upgrade") /\ ~ Has(t, "publish")
  BY <1>1, <1>2, DoingFits DEF Rendering
<1>6. Old /\ w[p].old = manifest /\ manifest \in Manifests
  BY <1>2, <1>5 DEF GoesOn, KnowsManifest, StoreIInv, StoreTypes, Old
<1>7. StoreIsWhole'
  BY <1>1 DEF StoreIInv, StoreIsWhole, Old, Current, history
<1>8. Respects(p)
  BY <1>1, ProjectStoreAssumption DEF Respects, StoreIInv, StoreTypes, Missing
<1>9. KnowsProject(r)'
  BY <1>1, <1>2, <1>3, <1>4 DEF GoesOn, KnowsProject
<1>10. KnowsManifest(r)'
  BY <1>1, <1>3, <1>4, <1>5, <1>6 DEF KnowsManifest, Old
<1>11. KnowsConfig(r)'
  BY <1>3, <1>4, <1>5 DEF KnowsConfig, Rendering
<1>12. /\ manifest' \in {None} \union Manifests /\ identity' \in {None} \union Ids
       /\ config' \in Missing..MaxEdits /\ gitignore' \in Missing..MaxEdits
       /\ backups' \subseteq Manifests
  BY <1>1, <1>6 DEF StoreIInv, StoreTypes
<1> QED
  BY <1>1, <1>3, <1>4, <1>7, <1>8, <1>9, <1>10, <1>11, <1>12, WritesKeep

\* A migrated manifest replaces the one that was copied.
LEMMA UpgradeManifestKeeps ==
  ASSUME StoreIInv, NEW p \in Processes, UpgradeManifest(p)
  PROVE  StoreIInv'
<1> DEFINE t == Tail(w[p].todo)
<1>1. /\ At(p, "upgrade") /\ Continue(p, Then(p, <<>>)) /\ "upgrade" \in Doings \ {"migrate", "reserve"}
      /\ manifest' = [w[p].old EXCEPT !.schema = 2]
      /\ UNCHANGED <<backups, identity, config, gitignore, recorded, holder, head, history>>
  BY DEF UpgradeManifest, Writes, Doings
<1>2. /\ w[p] \in Workers /\ t \in Seq(StoreSteps) /\ GoesOn(p, w[p])
      /\ Fits(Do("upgrade"), t)
      /\ \A e : Has(w[p].todo, e) <=> "upgrade" = e \/ Has(t, e)
      /\ w[p].todo # <<>> /\ Head(w[p].todo) = Do("upgrade")
  BY <1>1, ActingDo
<1>3. PICK r \in Workers :
          /\ Continue(p, r) /\ r.todo = t
          /\ r.found = w[p].found /\ r.mine = w[p].mine /\ r.old = w[p].old
          /\ r.returned = w[p].returned
  BY <1>1, <1>2, PopIs
<1>4. /\ Sound(r.todo) /\ HasLocks(p, r.todo)
      /\ Creates(r.todo) => Creates(w[p].todo)
      /\ ~ First(r, Do("config")) /\ ~ First(r, Do("sync")) /\ ~ First(r, Do("gitignore"))
      /\ ~ First(r, Do("publish")) /\ ~ First(r, Do("upgrade"))
      /\ ~ First(r, Do("record")) /\ ~ First(r, Do("reserve"))
  BY <1>1, <1>3, Popping
<1> HIDE DEF t
<1>5. ~ Has(t, "upgrade") /\ ~ Has(t, "publish") /\ ~ Has(t, "backup")
  BY <1>1, <1>2, DoingFits DEF Rendering
<1>6. /\ Old /\ w[p].old = manifest /\ manifest \in Manifests /\ manifest \in backups
  BY <1>2, <1>5 DEF GoesOn, KnowsManifest, StoreIInv, StoreTypes, Old
<1>7. config # Missing /\ gitignore # Missing
  BY <1>2 DEF GoesOn, KnowsConfig, First
<1>8. /\ manifest' \in Manifests /\ manifest' # None /\ manifest'.schema = 2
      /\ manifest'.id = manifest.id /\ manifest'.commit = manifest.commit
  BY <1>1, <1>6, StoreMarkAssumption DEF Manifests
<1>9. StoreIsWhole'
  <2>1. manifest = original /\ recorded = 0 /\ original # None /\ manifest.id = identity
    BY <1>6 DEF StoreIInv, StoreIsWhole, Old
  <2>2. manifest.commit = 0
    BY <2>1 DEF StoreIInv, StoreTypes
  <2> QED
    BY <1>1, <1>6, <1>7, <1>8, <2>1, <2>2 DEF StoreIInv, StoreIsWhole, Old, Current, history
<1>10. Respects(p)
  BY <1>1, <1>2, <1>6, <1>8, ProjectStoreAssumption DEF Respects, StoreIInv, StoreTypes, Missing
<1>11. KnowsProject(r)'
  BY <1>1, <1>2, <1>3, <1>4 DEF GoesOn, KnowsProject
<1>12. KnowsManifest(r)'
  BY <1>3, <1>4, <1>5, <1>8 DEF KnowsManifest, Old
<1>13. KnowsConfig(r)'
  BY <1>4 DEF KnowsConfig, Rendering
<1>14. /\ manifest' \in {None} \union Manifests /\ identity' \in {None} \union Ids
       /\ config' \in Missing..MaxEdits /\ gitignore' \in Missing..MaxEdits
       /\ backups' \subseteq Manifests
  BY <1>1, <1>8 DEF StoreIInv, StoreTypes
<1> QED
  BY <1>1, <1>3, <1>4, <1>9, <1>10, <1>11, <1>12, <1>13, <1>14, WritesKeep

\* A configuration is written where there is none.
LEMMA DefaultConfigKeeps ==
  ASSUME StoreIInv, NEW p \in Processes, DefaultConfig(p)
  PROVE  StoreIInv'
<1> DEFINE t == Tail(w[p].todo)
<1>1. /\ At(p, "config") /\ Continue(p, Then(p, <<>>)) /\ "config" \in Doings \ {"migrate", "reserve"}
      /\ config' = IF config = Missing THEN 0 ELSE config
      /\ UNCHANGED <<manifest, identity, backups, gitignore, recorded, holder, head, history>>
  BY DEF DefaultConfig, Writes, Doings
<1>2. /\ w[p] \in Workers /\ t \in Seq(StoreSteps) /\ GoesOn(p, w[p])
      /\ \A e : Has(w[p].todo, e) <=> "config" = e \/ Has(t, e)
      /\ w[p].todo # <<>> /\ Head(w[p].todo) = Do("config")
  BY <1>1, ActingDo
<1>3. PICK r \in Workers :
          /\ Continue(p, r) /\ r.todo = t
          /\ r.found = w[p].found /\ r.mine = w[p].mine /\ r.old = w[p].old
          /\ r.returned = w[p].returned
  BY <1>1, <1>2, PopIs
<1>4. /\ Sound(r.todo) /\ HasLocks(p, r.todo)
      /\ Creates(r.todo) => Creates(w[p].todo)
      /\ ~ First(r, Do("config")) /\ ~ First(r, Do("gitignore"))
      /\ ~ First(r, Do("publish")) /\ ~ First(r, Do("upgrade")) /\ ~ First(r, Give("migration"))
      /\ ~ First(r, Do("record")) /\ ~ First(r, Do("reserve"))
  BY <1>1, <1>3, Popping
<1> HIDE DEF t
<1>5. Has(w[p].todo, "upgrade") \/ ~ Old
  BY <1>2 DEF GoesOn, KnowsConfig, First, Rendering
<1>6. /\ config \in Int /\ gitignore \in Int /\ config' \in Missing..MaxEdits
      /\ config' >= config /\ config' # Missing
  BY <1>1, ProjectStoreAssumption DEF StoreIInv, StoreTypes, Missing
<1>7. StoreIsWhole'
  BY <1>1, <1>6 DEF StoreIInv, StoreIsWhole, Old, Current, history, Missing
<1>8. Respects(p)
  BY <1>1, <1>6 DEF Respects, Missing
<1>9. KnowsProject(r)'
  BY <1>1, <1>2, <1>3, <1>4 DEF GoesOn, KnowsProject
<1>10. KnowsManifest(r)'
  BY <1>1, <1>2, <1>3, <1>4 DEF GoesOn, KnowsManifest, Old, Current
<1>11. KnowsConfig(r)'
  BY <1>1, <1>2, <1>3, <1>4, <1>5, <1>6 DEF KnowsConfig, Rendering, Old
<1>12. /\ manifest' \in {None} \union Manifests /\ identity' \in {None} \union Ids
       /\ config' \in Missing..MaxEdits /\ gitignore' \in Missing..MaxEdits
       /\ backups' \subseteq Manifests
  BY <1>1, <1>6 DEF StoreIInv, StoreTypes
<1> QED
  BY <1>1, <1>3, <1>4, <1>7, <1>8, <1>9, <1>10, <1>11, <1>12, WritesKeep

\* The .gitignore is rendered from the configuration that was read.
LEMMA WriteGitignoreKeeps ==
  ASSUME StoreIInv, NEW p \in Processes, WriteGitignore(p)
  PROVE  StoreIInv' /\ gitignore' >= gitignore
<1> DEFINE t == Tail(w[p].todo)
           n == [Then(p, <<>>) EXCEPT !.seen = Missing]
<1>1. /\ At(p, "gitignore") /\ Continue(p, n) /\ "gitignore" \in Doings \ {"migrate", "reserve"}
      /\ gitignore' = w[p].seen
      /\ UNCHANGED <<manifest, identity, backups, config, recorded, holder, head, history>>
  BY DEF WriteGitignore, Writes, Doings
<1>2. /\ w[p] \in Workers /\ t \in Seq(StoreSteps) /\ GoesOn(p, w[p])
      /\ \A e : Has(w[p].todo, e) <=> "gitignore" = e \/ Has(t, e)
      /\ w[p].todo # <<>> /\ Head(w[p].todo) = Do("gitignore")
  BY <1>1, ActingDo
<1>3. PICK r \in Workers :
          /\ Continue(p, r) /\ r.todo = t
          /\ r.found = w[p].found /\ r.mine = w[p].mine /\ r.old = w[p].old
          /\ r.returned = w[p].returned
  <2>1. Missing \in Missing..MaxEdits
    BY ProjectStoreAssumption DEF Missing
  <2>2. /\ n \in Workers /\ n.todo = t
        /\ n.found = w[p].found /\ n.mine = w[p].mine /\ n.old = w[p].old
        /\ n.returned = w[p].returned
    BY <1>2, <2>1, PopIs DEF Workers
  <2> HIDE DEF n
  <2> QED
    BY <1>1, <2>2
<1>4. /\ Sound(r.todo) /\ HasLocks(p, r.todo)
      /\ Creates(r.todo) => Creates(w[p].todo)
      /\ ~ First(r, Do("config")) /\ ~ First(r, Do("sync")) /\ ~ First(r, Do("gitignore"))
      /\ ~ First(r, Give("migration"))
      /\ ~ First(r, Do("record")) /\ ~ First(r, Do("reserve"))
  BY <1>1, <1>3, Popping
<1> HIDE DEF t
<1>5. First(w[p], Do("gitignore"))
  BY <1>2 DEF First
<1>6. /\ config # Missing /\ w[p].seen # Missing /\ gitignore <= w[p].seen /\ w[p].seen <= config
  BY <1>2, <1>5 DEF GoesOn, KnowsConfig
<1>7. /\ config \in Int /\ gitignore \in Int /\ gitignore' \in Missing..MaxEdits
      /\ config >= config /\ gitignore' # Missing
  BY <1>1, <1>2, <1>6, ProjectStoreAssumption DEF StoreIInv, StoreTypes, Missing, Workers
<1>8. StoreIsWhole'
  BY <1>1, <1>6, <1>7 DEF StoreIInv, StoreIsWhole, Old, Current, history
<1>9. Respects(p)
  BY <1>1, <1>5, <1>7 DEF Respects
<1>10. KnowsProject(r)'
  BY <1>1, <1>2, <1>3, <1>4 DEF GoesOn, KnowsProject
<1>11. KnowsManifest(r)'
  BY <1>1, <1>2, <1>3, <1>4 DEF GoesOn, KnowsManifest, Old, Current
<1>12. KnowsConfig(r)'
  BY <1>1, <1>4, <1>6, <1>7 DEF KnowsConfig, Rendering
<1>13. /\ manifest' \in {None} \union Manifests /\ identity' \in {None} \union Ids
       /\ config' \in Missing..MaxEdits /\ gitignore' \in Missing..MaxEdits
       /\ backups' \subseteq Manifests
  BY <1>1, <1>7 DEF StoreIInv, StoreTypes
<1>14. StoreIInv'
  BY <1>1, <1>3, <1>4, <1>8, <1>9, <1>10, <1>11, <1>12, <1>13, WritesKeep
<1> QED
  BY <1>1, <1>6, <1>7, <1>14

\* The manifest of a new store is written last.
LEMMA PublishManifestKeeps ==
  ASSUME StoreIInv, NEW p \in Processes, PublishManifest(p)
  PROVE  StoreIInv'
<1> DEFINE t == Tail(w[p].todo)
           n == [Then(p, <<>>) EXCEPT !.commit = 0]
<1>1. /\ At(p, "publish") /\ Continue(p, n) /\ "publish" \in Doings \ {"migrate", "reserve"}
      /\ manifest' = [schema |-> 2, id |-> w[p].mine, commit |-> w[p].commit]
      /\ recorded' = w[p].commit
      /\ UNCHANGED <<backups, identity, config, gitignore, holder, head, history>>
  BY DEF PublishManifest, Writes, Doings
<1>2. /\ w[p] \in Workers /\ t \in Seq(StoreSteps) /\ GoesOn(p, w[p])
      /\ Fits(Do("publish"), t)
      /\ \A e : Has(w[p].todo, e) <=> "publish" = e \/ Has(t, e)
      /\ w[p].todo # <<>> /\ Head(w[p].todo) = Do("publish")
  BY <1>1, ActingDo
<1>3. PICK r \in Workers :
          /\ Continue(p, r) /\ r.todo = t
          /\ r.found = w[p].found /\ r.mine = w[p].mine /\ r.old = w[p].old
          /\ r.returned = w[p].returned
  <2>1. 0 \in 0..MaxHead
    BY ProjectStoreAssumption
  <2>2. /\ n \in Workers /\ n.todo = t
        /\ n.found = w[p].found /\ n.mine = w[p].mine /\ n.old = w[p].old
        /\ n.returned = w[p].returned
    BY <1>2, <2>1, PopIs DEF Workers
  <2> HIDE DEF n
  <2> QED
    BY <1>1, <2>2
<1>4. /\ Sound(r.todo) /\ HasLocks(p, r.todo)
      /\ Creates(r.todo) => Creates(w[p].todo)
      /\ ~ First(r, Do("sync")) /\ ~ First(r, Do("gitignore"))
      /\ ~ First(r, Do("publish")) /\ ~ First(r, Do("upgrade")) /\ ~ First(r, Give("migration"))
      /\ ~ First(r, Do("record")) /\ ~ First(r, Do("reserve"))
  BY <1>1, <1>3, Popping
<1> HIDE DEF t
<1>5. ~ Has(t, "upgrade") /\ ~ Has(t, "publish")
  BY <1>1, <1>2, DoingFits DEF Rendering
<1>6. manifest = None /\ w[p].mine = identity /\ identity # None
  BY <1>2 DEF GoesOn, KnowsManifest, KnowsProject, Creates
<1>7. config # Missing /\ gitignore # Missing
  BY <1>2 DEF GoesOn, KnowsConfig, First
<1>8. identity \in Ids /\ w[p].commit \in 0..MaxHead
  BY <1>2, <1>6 DEF StoreIInv, StoreTypes, Workers
<1>9. /\ manifest' \in Manifests /\ manifest' # None /\ manifest'.schema = 2
      /\ manifest'.id = identity /\ manifest'.commit = recorded'
  BY <1>1, <1>6, <1>8, StoreMarkAssumption DEF Manifests
<1>10. StoreIsWhole'
  BY <1>1, <1>6, <1>7, <1>9 DEF StoreIInv, StoreIsWhole, Old, Current, history
<1>11. Respects(p)
  BY <1>1, <1>2, <1>6, <1>9, ProjectStoreAssumption DEF Respects, StoreIInv, StoreTypes, Missing
<1>12. KnowsProject(r)'
  BY <1>1, <1>2, <1>3, <1>4 DEF GoesOn, KnowsProject
<1>13. KnowsManifest(r)'
  BY <1>3, <1>4, <1>5 DEF KnowsManifest
<1>14. KnowsConfig(r)'
  BY <1>4, <1>9 DEF KnowsConfig, Rendering, Old
<1>15. /\ manifest' \in {None} \union Manifests /\ identity' \in {None} \union Ids
       /\ config' \in Missing..MaxEdits /\ gitignore' \in Missing..MaxEdits
       /\ backups' \subseteq Manifests
  BY <1>1, <1>9 DEF StoreIInv, StoreTypes
<1> QED
  BY <1>1, <1>3, <1>4, <1>10, <1>11, <1>12, <1>13, <1>14, <1>15, WritesKeep

\* What the index was built from is recorded in the manifest.
LEMMA RecordIndexKeeps ==
  ASSUME StoreIInv, NEW p \in Processes, RecordIndex(p)
  PROVE  StoreIInv'
<1> DEFINE t == Tail(w[p].todo)
<1>1. /\ At(p, "record") /\ Continue(p, Then(p, <<>>)) /\ "record" \in Doings \ {"migrate", "reserve"}
      /\ manifest' = [w[p].old EXCEPT !.commit = w[p].commit]
      /\ recorded' = w[p].commit
      /\ UNCHANGED <<backups, identity, config, gitignore, holder, head, history>>
  BY DEF RecordIndex, Writes, Doings
<1>2. /\ w[p] \in Workers /\ t \in Seq(StoreSteps) /\ GoesOn(p, w[p])
      /\ Fits(Do("record"), t)
      /\ \A e : Has(w[p].todo, e) <=> "record" = e \/ Has(t, e)
      /\ w[p].todo # <<>> /\ Head(w[p].todo) = Do("record")
  BY <1>1, ActingDo
<1>3. PICK r \in Workers :
          /\ Continue(p, r) /\ r.todo = t
          /\ r.found = w[p].found /\ r.mine = w[p].mine /\ r.old = w[p].old
          /\ r.returned = w[p].returned
  BY <1>1, <1>2, PopIs
<1>4. /\ Sound(r.todo) /\ HasLocks(p, r.todo)
      /\ Creates(r.todo) => Creates(w[p].todo)
      /\ ~ First(r, Do("config")) /\ ~ First(r, Do("sync")) /\ ~ First(r, Do("gitignore"))
      /\ ~ First(r, Do("publish")) /\ ~ First(r, Do("upgrade")) /\ ~ First(r, Give("migration"))
      /\ ~ First(r, Do("record")) /\ ~ First(r, Do("reserve"))
  BY <1>1, <1>3, Popping
<1> HIDE DEF t
<1>5. ~ Has(t, "upgrade") /\ ~ Has(t, "publish")
  BY <1>1, <1>2, DoingFits DEF Rendering
<1>6. First(w[p], Do("record"))
  BY <1>2 DEF First
<1>7. Current /\ w[p].old = manifest /\ manifest \in Manifests
  BY <1>2, <1>6 DEF GoesOn, KnowsManifest, StoreIInv, StoreTypes, Current
<1>8. w[p].commit \in 0..MaxHead
  BY <1>2 DEF Workers
<1>9. /\ manifest' \in Manifests /\ manifest' # None /\ manifest'.schema = 2
      /\ manifest'.id = manifest.id /\ manifest'.commit = recorded'
  BY <1>1, <1>7, <1>8, StoreMarkAssumption DEF Manifests, Current
<1>10. StoreIsWhole'
  BY <1>1, <1>7, <1>9 DEF StoreIInv, StoreIsWhole, Old, Current, history
<1>11. Respects(p)
  BY <1>1, <1>6, <1>7, <1>9, ProjectStoreAssumption DEF Respects, StoreIInv, StoreTypes, Missing
<1>12. KnowsProject(r)'
  BY <1>1, <1>2, <1>3, <1>4 DEF GoesOn, KnowsProject
<1>13. KnowsManifest(r)'
  BY <1>3, <1>4, <1>5 DEF KnowsManifest
<1>14. KnowsConfig(r)'
  BY <1>4 DEF KnowsConfig, Rendering
<1>15. /\ manifest' \in {None} \union Manifests /\ identity' \in {None} \union Ids
       /\ config' \in Missing..MaxEdits /\ gitignore' \in Missing..MaxEdits
       /\ backups' \subseteq Manifests
  BY <1>1, <1>9 DEF StoreIInv, StoreTypes
<1> QED
  BY <1>1, <1>3, <1>4, <1>10, <1>11, <1>12, <1>13, <1>14, <1>15, WritesKeep

\* The identity is reserved, if no other process was ahead.
LEMMA ReserveIdentityKeeps ==
  ASSUME StoreIInv, NEW p \in Processes, ReserveIdentity(p)
  PROVE  StoreIInv' /\ (identity # None => identity' = identity)
<1>1. At(p, "reserve") /\ Writes /\ "reserve" \in Doings /\ "identity" \in Locks
  BY DEF ReserveIdentity, Doings, Locks
<1>2. /\ w[p] \in Workers /\ GoesOn(p, w[p]) /\ Tail(w[p].todo) \in Seq(StoreSteps)
      /\ Fits(Do("reserve"), Tail(w[p].todo))
      /\ w[p].todo # <<>> /\ Head(w[p].todo) = Do("reserve")
      /\ \A e : Has(w[p].todo, e) <=> "reserve" = e \/ Has(Tail(w[p].todo), e)
      /\ \A l : Owed(w[p].todo, l) <=> l = "identity" \/ Owed(Tail(w[p].todo), l)
  BY <1>1, ActingDo
<1>3. Tail(w[p].todo) = <<>>
  BY <1>1, <1>2, DoingFits
<1>4. \A l \in Locks : holder[l] = p <=> l = "identity"
  BY <1>2, <1>3, Nothing DEF GoesOn, HasLocks
<1>5. /\ First(w[p], Do("reserve")) /\ KnowsProject(w[p])
      /\ w[p].found = None <=> identity = None
      /\ w[p].mine # None
  BY <1>2 DEF First, GoesOn, KnowsProject
<1>6. CASE Found(p)
  <2> DEFINE m == <<Give("identity"), Do("load"), Do("again")>>
             r == Then(p, m)
  <2>1. Continue(p, r) /\ UNCHANGED store
    BY <1>6 DEF ReserveIdentity
  <2>2. /\ m \in Seq(StoreSteps) /\ m # <<>> /\ Head(m) = Give("identity") /\ Sound(m)
        /\ \A l : Owed(m, l) <=> l = "identity"
        /\ ~ Unfinished(m) /\ ~ Creates(m) /\ ~ Has(m, "reserve")
    BY StandDownIs
  <2> HIDE DEF m
  <2>3. /\ r \in Workers /\ r.todo = m
        /\ r.found = w[p].found /\ r.returned = w[p].returned
    BY <1>2, <1>3, <2>2, ThenIs, Nothing
  <2> HIDE DEF r
  <2>4. Plain(m) /\ HasLocks(p, m)
    BY <1>4, <2>2, PlainHead DEF HasLocks
  <2>5. ~ Has(m, "publish") /\ ~ Has(m, "upgrade")
    BY <2>2 DEF Unfinished
  <2>6. GoesOn(p, r)
    BY <1>5, <2>2, <2>3, <2>4, <2>5, PlainGoesOn DEF KnowsProject
  <2>7. Reads /\ identity' = identity
    BY <1>1, <2>1 DEF Reads, Writes, OnlyProcess, store
  <2> QED
    BY <2>1, <2>3, <2>6, <2>7, ReadsKeep
<1>7. CASE ~ Found(p)
  <2> DEFINE m == Bootstrap \o <<Give("identity")>> \o Describe
             n == [Then(p, m) EXCEPT !.returned = w[p].mine]
  <2>1. /\ Continue(p, n) /\ identity' = w[p].mine
        /\ UNCHANGED <<manifest, config, gitignore, backups, recorded, holder, head, history>>
    BY <1>1, <1>7 DEF ReserveIdentity, Writes
  <2>2. /\ m \in Seq(StoreSteps) /\ m # <<>> /\ Head(m) = Take("bootstrap") /\ Sound(m)
        /\ \A l : Owed(m, l) <=> l = "identity"
        /\ ~ Unfinished(m) /\ ~ Has(m, "reserve")
    BY CommitIs
  <2> HIDE DEF m
  <2>3. w[p].mine \in Ids
    BY <1>2, <1>5 DEF Workers
  <2>4. PICK r \in Workers :
            /\ Continue(p, r) /\ r.todo = m
            /\ r.found = w[p].found /\ r.returned = w[p].mine /\ r.mine = w[p].mine
    <3>1. /\ Then(p, m) \in Workers /\ Then(p, m).todo = m
          /\ Then(p, m).found = w[p].found /\ Then(p, m).mine = w[p].mine
      BY <1>2, <1>3, <2>2, ThenIs, Nothing
    <3>2. /\ n \in Workers /\ n.todo = m
          /\ n.found = w[p].found /\ n.returned = w[p].mine /\ n.mine = w[p].mine
      BY <2>3, <3>1 DEF Workers
    <3> HIDE DEF n
    <3> QED
      BY <2>1, <3>2
  <2>5. identity = None /\ w[p].found = None
    BY <1>5, <1>7 DEF Found
  <2>6. manifest = None
    <3>1. manifest # None => manifest.id = None /\ manifest.id \in Ids
      BY <2>5 DEF StoreIInv, StoreIsWhole, StoreTypes, Manifests
    <3> QED
      BY <3>1, StoreMarkAssumption
  <2>7. StoreIsWhole'
    BY <2>1, <2>6 DEF StoreIInv, StoreIsWhole, Old, Current, history
  <2>8. Respects(p)
    BY <1>5, <2>1, <2>5, ProjectStoreAssumption DEF Respects, StoreIInv, StoreTypes, Missing
  <2>9. Plain(r.todo) /\ HasLocks(p, r.todo) /\ Sound(r.todo)
    BY <1>4, <2>2, <2>4, PlainHead DEF HasLocks
  <2>10. /\ \A d \in {"config", "sync", "gitignore", "publish", "upgrade", "record", "reserve"} :
                ~ First(r, Do(d))
         /\ ~ First(r, Give("migration"))
    BY <2>9, PlainFirst
  <2>11. KnowsProject(r)'
    BY <1>5, <2>1, <2>2, <2>4, <2>5, <2>10 DEF KnowsProject
  <2>12. KnowsManifest(r)'
    BY <2>2, <2>4, <2>10 DEF KnowsManifest, Unfinished
  <2>13. KnowsConfig(r)'
    BY <2>10 DEF KnowsConfig, Rendering
  <2>14. /\ manifest' \in {None} \union Manifests /\ identity' \in {None} \union Ids
         /\ config' \in Missing..MaxEdits /\ gitignore' \in Missing..MaxEdits
         /\ backups' \subseteq Manifests
    BY <2>1, <2>3 DEF StoreIInv, StoreTypes
  <2>15. UNCHANGED <<head, history>>
    BY <2>1
  <2>16. StoreIInv'
    BY <2>4, <2>7, <2>8, <2>9, <2>11, <2>12, <2>13, <2>14, <2>15, WritesKeep
  <2> QED
    BY <2>5, <2>16
<1> QED
  BY <1>6, <1>7

\* Someone edits the configuration.
LEMMA EditKeeps ==
  ASSUME StoreIInv, Edit
  PROVE  StoreIInv'
<1>1. /\ UNCHANGED <<manifest, identity, gitignore, backups, recorded, original, drawn>>
      /\ UNCHANGED <<holder, w, head>> /\ config \in 0..MaxEdits - 1 /\ config' = config + 1
  BY DEF Edit, history
<1>2. /\ config \in Int /\ gitignore \in Int /\ config # Missing /\ config' # Missing
      /\ config' \in Missing..MaxEdits
  BY <1>1, ProjectStoreAssumption DEF StoreIInv, StoreTypes, Missing
<1>3. StoreTypes'
  BY <1>1, <1>2 DEF StoreIInv, StoreTypes
<1>4. StoreIsWhole'
  BY <1>1, <1>2 DEF StoreIInv, StoreIsWhole, Old, Current
<1>5. ASSUME NEW q \in Processes PROVE GoesOn(q, w[q])'
  <2>1. GoesOn(q, w[q]) /\ w'[q] = w[q]
    BY <1>1 DEF StoreIInv
  <2>2. w[q].seen \in Int
    BY DEF StoreIInv, StoreTypes, Workers, Missing
  <2>3. KnowsConfig(w[q])'
    <3>1. KnowsConfig(w[q])
      BY <2>1 DEF GoesOn
    <3>2. w[q].seen <= config => w[q].seen <= config'
      BY <1>1, <1>2, <2>2
    <3> QED
      BY <1>1, <1>2, <3>1, <3>2 DEF KnowsConfig, First, Old
  <2> QED
    BY <1>1, <2>1, <2>3 DEF GoesOn, HasLocks, KnowsProject, KnowsManifest, Old, Current, First
<1> QED
  BY <1>3, <1>4, <1>5 DEF StoreIInv

-----------------------------------------------------------------------------
(* The theorems. *)

\* The inductive invariant holds at first.
LEMMA StoreBegins == StoreInit => StoreIInv
<1> SUFFICES ASSUME StoreInit PROVE StoreIInv
  OBVIOUS
<1>1. Missing \in Missing..MaxEdits /\ 0 \in 0..MaxHead /\ 1 \in 1..MaxHead
  BY ProjectStoreAssumption DEF Missing
<1>2. original = None \/ (original \in Manifests /\ original.schema = 1 /\ original.id = 1
                          /\ original.commit = 0 /\ original # None)
  BY <1>1, StoreMarkAssumption DEF StoreInit, Manifests, Ids
<1>3. Idle \in Workers /\ Idle.todo = <<>> /\ Idle.found = None /\ Idle.returned = None
  BY <1>1, Nothing DEF Idle, Workers
<1>4. StoreTypes
  BY <1>1, <1>2, <1>3 DEF StoreInit, StoreTypes, Ids
<1>5. StoreIsWhole
  BY <1>2 DEF StoreInit, StoreIsWhole, Old, Current, Missing
<1>6. ASSUME NEW q \in Processes PROVE GoesOn(q, w[q])
  <2>1. w[q] = Idle /\ q # None /\ \A l \in Locks : holder[l] = None
    BY StoreMarkAssumption DEF StoreInit
  <2>2. Sound(Idle.todo) /\ HasLocks(q, Idle.todo)
    BY <1>3, <2>1, Nothing DEF HasLocks
  <2>3. KnowsProject(Idle) /\ KnowsManifest(Idle) /\ KnowsConfig(Idle)
    BY <1>3, Nothing DEF KnowsProject, KnowsManifest, KnowsConfig, Creates, First
  <2> QED
    BY <2>1, <2>2, <2>3 DEF GoesOn
<1> QED
  BY <1>4, <1>5, <1>6 DEF StoreIInv

\* Every step keeps it.
LEMMA StoreStepKeeps ==
  ASSUME StoreIInv, [StoreNext]_storeVars
  PROVE  StoreIInv'
<1>1. ASSUME NEW p \in Processes, Step(p) PROVE StoreIInv'
  <2>1. CASE TakeLock(p)
    BY <2>1, TakeLockKeeps
  <2>2. CASE GiveLock(p)
    BY <2>2, GiveLockKeeps
  <2>3. CASE Open(p)
    BY <2>3, OpenKeeps
  <2>4. CASE MigrateManifest(p)
    BY <2>4, MigrateManifestKeeps
  <2>5. CASE Backup(p)
    BY <2>5, BackupKeeps
  <2>6. CASE UpgradeManifest(p)
    BY <2>6, UpgradeManifestKeeps
  <2>7. CASE FindManifest(p)
    BY <2>7, FindManifestKeeps
  <2>8. CASE DefaultConfig(p)
    BY <2>8, DefaultConfigKeeps
  <2>9. CASE ReadConfig(p)
    BY <2>9, ReadConfigKeeps
  <2>10. CASE WriteGitignore(p)
    BY <2>10, WriteGitignoreKeeps
  <2>11. CASE PublishManifest(p)
    BY <2>11, PublishManifestKeeps
  <2>12. CASE Load(p)
    BY <2>12, LoadKeeps
  <2>13. CASE Match(p)
    BY <2>13, MatchKeeps
  <2>14. CASE Lookup(p)
    BY <2>14, LookupKeeps
  <2>15. CASE Add(p)
    BY <2>15, AddKeeps
  <2>16. CASE ReserveIdentity(p)
    BY <2>16, ReserveIdentityKeeps
  <2>17. CASE Again(p)
    BY <2>17, AgainKeeps
  <2>18. CASE Return(p)
    BY <2>18, ReturnKeeps
  <2>19. CASE Verify(p)
    BY <2>19, VerifyKeeps
  <2>20. CASE WriteDocuments(p)
    BY <2>20, WriteDocumentsKeeps
  <2>21. CASE ReadHead(p)
    BY <2>21, ReadHeadKeeps
  <2>22. CASE Reread(p)
    BY <2>22, RereadKeeps
  <2>23. CASE RecordIndex(p)
    BY <2>23, RecordIndexKeeps
  <2> QED
    BY <1>1, <2>1, <2>2, <2>3, <2>4, <2>5, <2>6, <2>7, <2>8, <2>9, <2>10, <2>11, <2>12, <2>13,
       <2>14, <2>15, <2>16, <2>17, <2>18, <2>19, <2>20, <2>21, <2>22, <2>23 DEF Step
<1>2. ASSUME NEW p \in Processes, EndProcess(p) PROVE StoreIInv'
  BY <1>2, EndProcessKeeps
<1>3. ASSUME NEW p \in Processes, NEW o \in Operations, Begin(p, o) PROVE StoreIInv'
  BY <1>3, BeginKeeps
<1>4. CASE Edit
  BY <1>4, EditKeeps
<1>5. CASE CommitHead
  BY <1>5, CommitHeadKeeps
<1>6. CASE UNCHANGED storeVars
  <2>1. UNCHANGED <<manifest, identity, config, gitignore, backups, recorded, original, drawn,
                    head, holder, w>>
    BY <1>6 DEF storeVars, store, history
  <2>2. StoreTypes'
    BY <2>1 DEF StoreIInv, StoreTypes
  <2>3. StoreIsWhole'
    BY <2>1 DEF StoreIInv, StoreIsWhole, Old, Current
  <2>4. ASSUME NEW q \in Processes PROVE GoesOn(q, w[q])'
    BY <2>1
       DEF StoreIInv, GoesOn, HasLocks, KnowsProject, KnowsManifest, KnowsConfig, Old, Current, First
  <2> QED
    BY <2>2, <2>3, <2>4 DEF StoreIInv
<1> QED
  BY <1>1, <1>2, <1>3, <1>4, <1>5, <1>6 DEF StoreNext

\* The inductive invariant: what is stored fits what every process is in the middle of, by the
\* steps that it still has to take.
THEOREM StoreInvariant == StoreSpec => []StoreIInv
<1>1. StoreInit => StoreIInv
  BY StoreBegins
<1>2. StoreIInv /\ [StoreNext]_storeVars => StoreIInv'
  BY StoreStepKeeps
<1> QED
  BY <1>1, <1>2, PTL DEF StoreSpec

\* However many processes create, migrate, describe and index a store at once, and wherever
\* one of them dies: it is one project's, its manifest marks a store that is whole, the
\* manifest of schema 1 is kept, and what was recorded last is not forgotten.
THEOREM StoreIsOneProject == StoreSpec => []StoreInv
<1>1. StoreIInv => StoreInv
  <2> SUFFICES ASSUME StoreIInv PROVE StoreInv
    OBVIOUS
  <2>1. StoreTypeOK
    BY DEF StoreIInv, StoreTypes, StoreTypeOK, Manifests
  <2>2. OneProject
    BY DEF StoreIInv, StoreIsWhole, GoesOn, KnowsProject, OneProject
  <2>3. ManifestMarksBootstrap /\ OriginalIsKept /\ IndexIsNotForgotten
    BY DEF StoreIInv, StoreIsWhole, ManifestMarksBootstrap, OriginalIsKept, IndexIsNotForgotten
  <2> QED
    BY <2>1, <2>2, <2>3 DEF StoreInv
<1> QED
  BY <1>1, StoreInvariant, PTL

\* No process undoes what another did: the identity and the documents are written once, and
\* the .gitignore is never replaced by one of an older configuration.
THEOREM NothingUndone == StoreSpec => NothingIsUndone
<1> DEFINE Kept == /\ identity # None => identity' = identity
                   /\ documents # None => documents' = documents
           Forward == gitignore' >= gitignore
<1>1. StoreIInv /\ [StoreNext]_storeVars => Kept /\ Forward
  <2> SUFFICES ASSUME StoreIInv, [StoreNext]_storeVars PROVE Kept /\ Forward
    OBVIOUS
  <2>1. gitignore >= gitignore
    BY ProjectStoreAssumption DEF StoreIInv, StoreTypes, Missing
  <2>2. CASE UNCHANGED <<identity, documents, gitignore>>
    BY <2>1, <2>2
  <2>3. ASSUME NEW p \in Processes, ReserveIdentity(p) PROVE Kept /\ Forward
    <3>1. identity # None => identity' = identity
      BY <2>3, ReserveIdentityKeeps
    <3>2. UNCHANGED <<documents, gitignore>>
      BY <2>3 DEF ReserveIdentity, store
    <3> QED
      BY <2>1, <3>1, <3>2
  <2>4. ASSUME NEW p \in Processes, WriteGitignore(p) PROVE Kept /\ Forward
    <3>1. gitignore' >= gitignore
      BY <2>4, WriteGitignoreKeeps
    <3>2. UNCHANGED <<documents, identity>>
      BY <2>4 DEF WriteGitignore
    <3> QED
      BY <3>1, <3>2
  <2>5. ASSUME NEW p \in Processes, WriteDocuments(p) PROVE Kept /\ Forward
    <3>1. documents # None => documents' = documents
      BY <2>5 DEF WriteDocuments
    <3>2. UNCHANGED <<gitignore, identity>>
      BY <2>5 DEF WriteDocuments
    <3> QED
      BY <2>1, <3>1, <3>2
  <2>6. ASSUME NEW p \in Processes, Step(p), ~ ReserveIdentity(p), ~ WriteGitignore(p),
               ~ WriteDocuments(p)
        PROVE  UNCHANGED <<identity, documents, gitignore>>
    BY <2>6
       DEF Step, store, OnlyProcess, Reads, TakeLock, GiveLock, Open, MigrateManifest, Backup,
           UpgradeManifest, FindManifest, DefaultConfig, ReadConfig, PublishManifest, Load, Match,
           Lookup, Add, Again, Return, Verify, ReadHead, Reread, RecordIndex
  <2>7. ASSUME NEW p \in Processes, EndProcess(p) \/ \E o \in Operations : Begin(p, o)
        PROVE  UNCHANGED <<identity, documents, gitignore>>
    BY <2>7 DEF EndProcess, Begin, store
  <2>8. CASE Edit \/ CommitHead \/ UNCHANGED storeVars
    BY <2>2, <2>8 DEF Edit, CommitHead, storeVars, store
  <2> QED
    BY <2>2, <2>3, <2>4, <2>5, <2>6, <2>7, <2>8 DEF StoreNext
<1>2. StoreSpec => [][Kept /\ Forward]_storeVars
  BY <1>1, StoreInvariant, PTL DEF StoreSpec
<1> QED
  BY <1>2, PTL DEF NothingIsUndone, ProjectIsKept, GitignoreNeverGoesBack

=============================================================================
