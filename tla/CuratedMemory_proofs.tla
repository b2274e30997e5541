------------------------ MODULE CuratedMemory_proofs ------------------------
(* Machine-checked proofs about CuratedMemory: memory can be listed, reviews are carried
   out as ReviewIsKept says, nothing is proposed twice, and knowledge is replaced, never
   lost. *)
EXTENDS CuratedMemory, FiniteSetTheorems, TLAPS

(* The invariant. *)

Calls ==
    {Idle} \union [at : {"draft"}, id : Id, verified : 0..MaxSource, task : Task \union {None}]
           \union [at : {"stage", "auto"}, proposal : Proposal]
           \union [at : {"save", "publish", "review", "move"}, proposal : Proposal,
                   approved : BOOLEAN]

Types == TypeOK /\ call \in [Session -> Calls]

At(s, places) == call[s].at \in places
Target(s) == proposals[call[s].proposal]
Supersedes(s) == Target(s).record.supersedes

\* Whoever writes has the lock; only a draft, and what the policy will approve, wait outside.
LockOf(s) ==
    /\ lock = s => ~At(s, {"idle"})
    /\ At(s, {"stage", "save", "publish", "review", "move"}) => lock = s

\* A draft has an identity that no proposal has, and is the only one of its task.
DraftOf(s) ==
    At(s, {"draft"}) =>
        /\ call[s].id \in reserved
        /\ \A p \in Filed : proposals[p].id # call[s].id
        /\ call[s].task # None =>
               lock = s /\ \A p \in Written : proposals[p].task # call[s].task

\* What is being proposed or reviewed has its document where the call expects it.
PlaceOf(s) ==
    /\ At(s, {"stage"}) =>
           /\ call[s].proposal \in Filed /\ Target(s).place = "directory"
           /\ \A q \in Written : Target(s).task # None => proposals[q].task # Target(s).task
    /\ At(s, {"save", "publish", "review", "move"}) =>
           call[s].proposal \in Filed /\ Target(s).place = "staging"

\* While a review is under way the predecessor is active and is what was proposed against.
ReviewOf(s) ==
    /\ At(s, {"save", "publish"}) =>
           /\ call[s].approved
           /\ Supersedes(s) # None /\ ~Published(call[s].proposal) =>
                  Supersedes(s) \in Active /\ Target(s).digest = records[Supersedes(s)]
    /\ At(s, {"publish"}) =>
           /\ Supersedes(s) # None /\ ~Published(call[s].proposal)
           /\ Target(s).id \in Saved /\ records[Target(s).id].supersedes = Supersedes(s)
    /\ At(s, {"review", "move"}) =>
           IF call[s].approved
           THEN /\ Target(s).id \in Saved
                /\ Supersedes(s) # None => Published(call[s].proposal)
           ELSE ~Published(call[s].proposal) /\ Target(s).status # "APPROVED"
    /\ At(s, {"move"}) => Target(s).status = IF call[s].approved THEN "APPROVED" ELSE "REJECTED"

CallOf(s) == LockOf(s) /\ DraftOf(s) /\ PlaceOf(s) /\ ReviewOf(s)

\* Identities of proposals and drafts are reserved, and all different.
Reservations ==
    /\ \A p \in Filed : proposals[p].id \in reserved
                        /\ proposals[p].record.supersedes # proposals[p].id
    /\ \A p, q \in Filed : proposals[p].id = proposals[q].id => p = q
    /\ \A s, t \in Session :
           At(s, {"draft"}) /\ At(t, {"draft"}) /\ call[s].id = call[t].id => s = t

\* A proposal in the history was decided, as its transition says.
Decided ==
    \A p \in Filed : proposals[p].place = "history" =>
        LET d == proposals[p]
        IN  /\ d.status # "PENDING"
            /\ d.status = "REJECTED" => ~Published(p)
            /\ d.status = "APPROVED" =>
                /\ d.id \in Saved
                /\ d.record.supersedes # None => Published(p)

\* A session has saved the record of a proposal and not yet noted the decision.
Approving(s, p) ==
    At(s, {"publish", "review"}) /\ call[s].proposal = p /\ call[s].approved

\* A record is saved by an approval: one that was noted, is under way, or stopped.
Carried ==
    /\ \A p \in Filed : proposals[p].id \in Saved =>
           /\ records[proposals[p].id].supersedes = proposals[p].record.supersedes
           /\ proposals[p].status = "APPROVED" \/ p \in halted
              \/ \E s \in Session : Approving(s, p)
    /\ \A e \in lifecycle : e.proposal \in Filed /\ proposals[e.proposal].id = e.succ

\* What is superseded had been published itself.
PredecessorWasShown == \A e \in lifecycle : ~Hidden(e.pred)

IInv ==
    /\ Types /\ MemoryIsReadable /\ PredecessorIsReviewed /\ Decided
    /\ PredecessorWasShown /\ Reservations /\ OneOutcomePerTask /\ Carried
    /\ \A s \in Session : CallOf(s)

-----------------------------------------------------------------------------
(* What the types say. *)

\* Where a call is decides what it carries.
LEMMA CallIs ==
  ASSUME Types, NEW s \in Session
  PROVE  /\ call[s] \in Calls
         /\ call[s] = Idle <=> At(s, {"idle"})
         /\ At(s, {"draft"}) =>
                /\ call[s].id \in Id /\ call[s].verified \in 0..MaxSource
                /\ call[s].task \in Task \union {None}
         /\ At(s, {"stage", "auto", "save", "publish", "review", "move"}) =>
                call[s].proposal \in Proposal
         /\ At(s, {"save", "publish", "review", "move"}) =>
                call[s] = [at |-> call[s].at, proposal |-> call[s].proposal,
                           approved |-> call[s].approved]
                /\ call[s].approved \in BOOLEAN
         /\ call[s].at \in {"idle", "draft", "stage", "auto", "save", "publish", "review", "move"}
BY DEF Types, Calls, Idle, At

\* A proposal with a directory.
LEMMA FiledIs ==
  ASSUME Types, NEW p \in Filed
  PROVE  /\ p \in Proposal /\ proposals[p] \in Document
         /\ proposals[p].id \in Id /\ proposals[p].record \in Record
         /\ proposals[p].record.supersedes \in Id \union {None}
BY DEF Types, TypeOK, Filed, NoDocument, Document, Record

\* A record that is saved.
LEMMA SavedIs ==
  ASSUME Types, NEW i \in Saved
  PROVE  i \in Id /\ records[i] \in Record
BY DEF Types, TypeOK, Saved, NoRecord

\* Records, transitions and proposals decide all that is read from them.
LEMMA FilesSame ==
  ASSUME UNCHANGED <<records, lifecycle, proposals>>
  PROVE  /\ Saved' = Saved /\ Filed' = Filed /\ Written' = Written /\ Active' = Active
         /\ \A p \in Proposal : Published(p)' = Published(p)
         /\ MemoryIsReadable => MemoryIsReadable'
         /\ PredecessorIsReviewed => PredecessorIsReviewed'
         /\ Decided => Decided'
         /\ PredecessorWasShown => PredecessorWasShown'
         /\ OneOutcomePerTask => OneOutcomePerTask'
BY DEF Saved, Filed, Written, Active, Superseded, Hidden, Published, MemoryIsReadable,
       PredecessorIsReviewed, Decided, PredecessorWasShown, OneOutcomePerTask

-----------------------------------------------------------------------------
(* Callers that a step leaves alone. *)

Untouched(s) ==
    \A t \in Session \ {s} : call'[t] = call[t] /\ (lock' = t <=> lock = t)

\* Another's draft keeps its identity, and whoever has the lock finds the files as they were.
LEMMA OthersKept ==
  ASSUME IInv, NEW s \in Session, Untouched(s), reserved \subseteq reserved',
         lock \in Session \ {s} => UNCHANGED <<records, lifecycle, proposals>>,
         \A t \in Session \ {s} : At(t, {"draft"}) =>
             \A p \in Filed' : proposals'[p].id # call[t].id
  PROVE  \A t \in Session \ {s} : CallOf(t)'
<1> SUFFICES ASSUME NEW t \in Session \ {s} PROVE CallOf(t)'
  OBVIOUS
<1>1. /\ CallOf(t) /\ call'[t] = call[t] /\ (lock' = t <=> lock = t)
      /\ At(t, {"draft"}) => \A p \in Filed' : proposals'[p].id # call[t].id
  BY DEF IInv, Untouched
<1>2. LockOf(t)'
  BY <1>1 DEF CallOf, LockOf, At
<1>3. CASE lock = t
  <2>1. UNCHANGED <<records, lifecycle, proposals>>
    BY <1>3
  <2>2. /\ Saved' = Saved /\ Filed' = Filed /\ Written' = Written /\ Active' = Active
        /\ \A p \in Proposal : Published(p)' = Published(p)
    BY <2>1, FilesSame
  <2>3. DraftOf(t)'
    BY <1>1, <2>1, <2>2 DEF CallOf, DraftOf, At
  <2>4. PlaceOf(t)'
    BY <1>1, <2>1, <2>2 DEF CallOf, PlaceOf, At, Target
  <2>5. ReviewOf(t)'
    <3>1. At(t, {"save", "publish", "review", "move"}) =>
              call[t].proposal \in Proposal
              /\ Published(call[t].proposal)' = Published(call[t].proposal)
      <4>1. At(t, {"save", "publish", "review", "move"}) => call[t].proposal \in Proposal
        BY CallIs DEF IInv, At
      <4>2. Published(call[t].proposal)' = Published(call[t].proposal)
        BY <1>1, <2>1 DEF Published
      <4> QED
        BY <4>1, <4>2
    <3>2. /\ At(t, {"save", "publish"})' = At(t, {"save", "publish"})
          /\ At(t, {"publish"})' = At(t, {"publish"})
          /\ At(t, {"review", "move"})' = At(t, {"review", "move"})
          /\ At(t, {"move"})' = At(t, {"move"})
          /\ Target(t)' = Target(t) /\ Supersedes(t)' = Supersedes(t)
          /\ Published(call[t].proposal)' = Published(call[t].proposal)
      BY <1>1, <2>1 DEF At, Target, Supersedes, Published
    <3> QED
      BY <1>1, <2>1, <2>2, <3>2 DEF CallOf, ReviewOf
  <2> QED
    BY <1>2, <2>3, <2>4, <2>5 DEF CallOf
<1>4. CASE lock # t
  <2>1. /\ ~At(t, {"stage", "save", "publish", "review", "move"})
        /\ ~At(t, {"stage", "save", "publish", "review", "move"})'
    BY <1>1, <1>4 DEF CallOf, LockOf, At
  <2>2. DraftOf(t)'
    BY <1>1, <1>4 DEF CallOf, DraftOf, At
  <2>3. PlaceOf(t)' /\ ReviewOf(t)'
    BY <2>1 DEF PlaceOf, ReviewOf, At
  <2> QED
    BY <1>2, <2>2, <2>3 DEF CallOf
<1> QED
  BY <1>3, <1>4

\* Different drafts have different identities, also with one more.
LEMMA DraftsDiffer ==
  ASSUME IInv, NEW s \in Session, Untouched(s),
         At(s, {"draft"})' => \A t \in Session \ {s} : At(t, {"draft"}) => call[t].id # call'[s].id
  PROVE  \A t, u \in Session :
             At(t, {"draft"})' /\ At(u, {"draft"})' /\ call'[t].id = call'[u].id => t = u
BY DEF IInv, Reservations, Untouched, At

\* A record stays saved by what saved it, when its approval goes on or is noted as halted.
LEMMA CarriedKept ==
  ASSUME IInv, NEW s \in Session, Untouched(s), UNCHANGED <<records, lifecycle, proposals>>,
         halted \subseteq halted', \A p \in Proposal : Approving(s, p) => p \in halted'
  PROVE  Carried'
<1>1. Saved' = Saved /\ Filed' = Filed /\ Filed \subseteq Proposal
  BY FilesSame DEF Filed
<1>2. \A t \in Session \ {s}, p \in Proposal : Approving(t, p) => Approving(t, p)'
  BY DEF Untouched, Approving, At
<1>3. \A p \in Filed : (\E t \in Session : Approving(t, p))
          => p \in halted' \/ \E t \in Session : Approving(t, p)'
  BY <1>1, <1>2
<1>4. \A p \in Filed : proposals[p].id \in Saved =>
          /\ records[proposals[p].id].supersedes = proposals[p].record.supersedes
          /\ proposals[p].status = "APPROVED" \/ p \in halted'
             \/ \E t \in Session : Approving(t, p)'
  BY <1>3 DEF IInv, Carried
<1>5. \A e \in lifecycle : e.proposal \in Filed /\ proposals[e.proposal].id = e.succ
  BY DEF IInv, Carried
<1> QED
  BY <1>1, <1>4, <1>5 DEF Carried

\* Whoever approves has the lock, and so is alone.
LEMMA ApproverIsAlone ==
  ASSUME IInv, NEW s \in Session, lock \in {None, s}
  PROVE  \A t \in Session \ {s} : \A p : ~Approving(t, p)
BY MemoryAssumption DEF IInv, CallOf, LockOf, Approving, At

\* A call that writes no file keeps the invariant when it keeps its own part.
LEMMA CallStep ==
  ASSUME IInv, NEW s \in Session, UNCHANGED <<records, lifecycle, proposals, source>>,
         reserved \subseteq reserved', reserved' \subseteq Id,
         NEW c \in Calls, call' = [call EXCEPT ![s] = c],
         lock' \in Session \union {None}, \A t \in Session \ {s} : lock' = t <=> lock = t,
         CallOf(s)',
         c.at = "draft" => \A t \in Session \ {s} : At(t, {"draft"}) => call[t].id # c.id,
         halted \subseteq halted', halted' \subseteq Proposal,
         \A p \in Proposal : Approving(s, p) => p \in halted'
  PROVE  IInv'
<1>1. call \in [Session -> Calls] /\ call' \in [Session -> Calls]
  BY DEF IInv, Types
<1>2. Untouched(s) /\ call'[s] = c
  BY <1>1 DEF Untouched
<1>3. Types'
  BY <1>1 DEF IInv, Types, TypeOK
<1>4. \A t \in Session \ {s} : CallOf(t)'
  <2>1. ASSUME NEW t \in Session \ {s}, At(t, {"draft"})
        PROVE  \A p \in Filed' : proposals'[p].id # call[t].id
    BY <2>1, FilesSame DEF IInv, CallOf, DraftOf
  <2> QED
    BY <1>2, <2>1, OthersKept
<1>5. Reservations'
  BY <1>2, DraftsDiffer, FilesSame DEF IInv, Reservations, At
<1>6. Carried'
  BY <1>2, CarriedKept
<1> QED
  BY <1>3, <1>4, <1>5, <1>6, FilesSame DEF IInv

-----------------------------------------------------------------------------
(* Steps that write no file. *)

\* What a call that is under way may count on.
LEMMA Here ==
  ASSUME IInv, NEW s \in Session
  PROVE  /\ Types /\ TypeOK /\ CallOf(s) /\ Reservations /\ s # None
         /\ call \in [Session -> Calls] /\ lock \in Session \union {None} /\ reserved \subseteq Id
BY MemoryAssumption DEF IInv, Types, TypeOK

\* A new identity is reserved, and is in no proposal or draft yet.
LEMMA FreshId ==
  ASSUME IInv, NEW i \in FreeIds
  PROVE  /\ i \in Id
         /\ \A p \in Filed : proposals[p].id # i
         /\ \A t \in Session : At(t, {"draft"}) => call[t].id # i
BY DEF IInv, Reservations, CallOf, DraftOf, FreeIds

\* A new record is drafted outside the lock, with an identity of its own.
LEMMA NewRecordInv == ASSUME IInv, NEW s \in Session, NewRecord(s) PROVE IInv'
<1>1. PICK i \in FreeIds :
          /\ reserved' = reserved \union {i}
          /\ call' = [call EXCEPT ![s] = [at |-> "draft", id |-> i, verified |-> source,
                                          task |-> None]]
  BY DEF NewRecord
<1> DEFINE c == [at |-> "draft", id |-> i, verified |-> source, task |-> None]
<1>2. UNCHANGED <<records, lifecycle, proposals, lock, source>> /\ call[s] = Idle
  BY DEF NewRecord
<1>3. c \in Calls
  <2>1. i \in Id /\ source \in 0..MaxSource
    BY Here, FreshId DEF TypeOK
  <2> QED
    BY <2>1 DEF Calls
<1>4. c.at = "draft" /\ c.id = i /\ c.task = None
  OBVIOUS
<1>5. call' = [call EXCEPT ![s] = c]
  BY <1>1
<1> HIDE DEF c
<1>6. call'[s] = c
  BY <1>5, Here
<1>7. CallOf(s)'
  <2>1. ~At(s, {"idle"})' /\ ~At(s, {"stage", "save", "publish", "review", "move"})'
        /\ ~At(s, {"save", "publish", "review", "move"})'
    BY <1>4, <1>6 DEF At
  <2>2. DraftOf(s)'
    BY <1>1, <1>2, <1>4, <1>6, FreshId, FilesSame DEF DraftOf
  <2> QED
    BY <2>1, <2>2 DEF CallOf, LockOf, PlaceOf, ReviewOf, At
<1>9. UNCHANGED halted /\ halted \subseteq Proposal /\ \A p : ~Approving(s, p)
  BY Here DEF NewRecord, Approving, At, Idle, TypeOK
<1> QED
  BY <1>9, <1>1, <1>2, <1>3, <1>4, <1>5, <1>7, Here, FreshId, CallStep

\* The outcome of a task is drafted with the lock, when no proposal is of that task.
LEMMA ProposeOutcomeInv ==
  ASSUME IInv, NEW s \in Session, NEW t \in Task, ProposeOutcome(s, t) PROVE IInv'
<1>1. PICK i \in FreeIds :
          /\ reserved' = reserved \union {i}
          /\ lock' = s
          /\ call' = [call EXCEPT ![s] = [at |-> "draft", id |-> i, verified |-> source,
                                          task |-> t]]
  BY DEF ProposeOutcome, Enter
<1> DEFINE c == [at |-> "draft", id |-> i, verified |-> source, task |-> t]
<1>2. /\ UNCHANGED <<records, lifecycle, proposals, source>> /\ lock \in {None, s}
      /\ \A p \in Written : proposals[p].task # t
  BY DEF ProposeOutcome, MayEnter
<1>3. c \in Calls
  <2>1. i \in Id /\ source \in 0..MaxSource
    BY Here, FreshId DEF TypeOK
  <2> QED
    BY <2>1 DEF Calls
<1>4. c.at = "draft" /\ c.id = i /\ c.task = t
  OBVIOUS
<1>5. call' = [call EXCEPT ![s] = c]
  BY <1>1
<1> HIDE DEF c
<1>6. call'[s] = c
  BY <1>5, Here
<1>7. CallOf(s)'
  <2>1. ~At(s, {"idle"})' /\ ~At(s, {"stage", "save", "publish", "review", "move"})'
        /\ ~At(s, {"save", "publish", "review", "move"})'
    BY <1>4, <1>6 DEF At
  <2>2. DraftOf(s)'
    BY <1>1, <1>2, <1>4, <1>6, FreshId, FilesSame DEF DraftOf
  <2> QED
    BY <2>1, <2>2 DEF CallOf, LockOf, PlaceOf, ReviewOf, At
<1>8. \A u \in Session \ {s} : lock' = u <=> lock = u
  BY <1>1, <1>2, MemoryAssumption
<1>9. UNCHANGED halted /\ halted \subseteq Proposal /\ \A p : ~Approving(s, p)
  BY Here DEF ProposeOutcome, Approving, At, Idle, TypeOK
<1> QED
  BY <1>9, <1>1, <1>2, <1>3, <1>4, <1>5, <1>7, <1>8, Here, FreshId, CallStep

\* Whoever stops, stops with the files as they are and the lock given back.
LEMMA StopInv == ASSUME IInv, NEW s \in Session, Stop(s) PROVE IInv'
<1>1. /\ call' = [call EXCEPT ![s] = Idle] /\ lock' = IF lock = s THEN None ELSE lock
      /\ UNCHANGED <<records, lifecycle, proposals, reserved, source>>
  BY DEF Stop, files
<1>2. call'[s] = Idle /\ lock' # s /\ Idle.at = "idle" /\ Idle \in Calls
  BY <1>1, Here DEF Idle, Calls
<1>3. CallOf(s)'
  BY <1>2 DEF CallOf, LockOf, DraftOf, PlaceOf, ReviewOf, At
<1>4. /\ \A u \in Session \ {s} : lock' = u <=> lock = u
      /\ lock' \in Session \union {None}
  BY <1>1, Here, MemoryAssumption
<1>5. \A p \in Proposal : Approving(s, p) => p \in halted'
  BY DEF Stop, Approving, At
<1>6. halted \subseteq halted' /\ halted' \subseteq Proposal
  <2>1. At(s, {"publish", "review"}) => call[s].proposal \in Proposal
    BY Here, CallIs DEF At
  <2> QED
    BY <2>1, Here DEF Stop, At, TypeOK
<1> QED
  BY <1>5, <1>6, <1>1, <1>2, <1>3, <1>4, Here, CallStep

\* A review begins with a staged proposal whose predecessor is what it was.
LEMMA BeginReviewInv ==
  ASSUME IInv, NEW s \in Session, NEW p \in Proposal, NEW approved \in BOOLEAN,
         BeginReview(s, p, approved)
  PROVE  IInv'
<1> DEFINE c == [at |-> IF approved THEN "save" ELSE "review", proposal |-> p,
                 approved |-> approved]
<1>1. /\ lock' = s /\ call' = [call EXCEPT ![s] = c] /\ lock \in {None, s}
      /\ UNCHANGED <<records, lifecycle, proposals, reserved, source>>
      /\ p \in Written /\ Reviewable(p, approved)
  BY DEF BeginReview, Enter, MayEnter
<1>2. c \in Calls /\ c.at = (IF approved THEN "save" ELSE "review") /\ c.proposal = p
      /\ c.approved = approved
  BY DEF Calls
<1> HIDE DEF c
<1>3. call'[s] = c
  BY <1>1, Here
<1>4. /\ p \in Filed /\ proposals[p].place = "staging" /\ (Published(p) => approved)
      /\ ~approved => proposals[p].status # "APPROVED"
      /\ approved /\ proposals[p].record.supersedes # None /\ ~Published(p) =>
             /\ proposals[p].record.supersedes \in Active
             /\ proposals[p].digest = records[proposals[p].record.supersedes]
  BY <1>1 DEF Reviewable, Written
<1>5. CallOf(s)'
  <2>1. LockOf(s)' /\ DraftOf(s)'
    BY <1>1, <1>2, <1>3 DEF LockOf, DraftOf, At
  <2>2. PlaceOf(s)'
    BY <1>1, <1>2, <1>3, <1>4, FilesSame DEF PlaceOf, At, Target
  <2>3. ReviewOf(s)'
    <3>1. /\ Target(s)' = proposals[p] /\ Supersedes(s)' = proposals[p].record.supersedes
          /\ Published(call[s].proposal)' = Published(p) /\ Active' = Active
      BY <1>1, <1>2, <1>3, FilesSame DEF Target, Supersedes, Published
    <3> QED
      BY <1>1, <1>2, <1>3, <1>4, <3>1 DEF ReviewOf, At
  <2> QED
    BY <2>1, <2>2, <2>3 DEF CallOf
<1>6. \A u \in Session \ {s} : lock' = u <=> lock = u
  BY <1>1, MemoryAssumption
<1>7. lock' \in Session \union {None} /\ c.at # "draft"
  BY <1>1, <1>2
<1>8. UNCHANGED halted /\ halted \subseteq Proposal /\ \A q : ~Approving(s, q)
  BY Here DEF BeginReview, Approving, At, Idle, TypeOK
<1> QED
  BY <1>8, <1>1, <1>2, <1>5, <1>6, <1>7, Here, CallStep

\* Sources change under all of it; nothing that is saved says otherwise.
LEMMA SourceInv == ASSUME IInv, SourceChanges PROVE IInv'
<1>1. /\ UNCHANGED <<records, lifecycle, proposals, reserved, call, lock, halted>>
      /\ source' \in 0..MaxSource
  <2>1. source \in 0..MaxSource /\ source < MaxSource /\ source' = source + 1
    BY Here DEF SourceChanges, IInv, Types, TypeOK
  <2> QED
    BY <2>1, MemoryAssumption DEF SourceChanges
<1>2. Types'
  BY <1>1 DEF IInv, Types, TypeOK
<1>3. \A s \in Session : CallOf(s)'
  <2> SUFFICES ASSUME NEW s \in Session PROVE CallOf(s)'
    OBVIOUS
  <2>1. CallOf(s) /\ call'[s] = call[s] /\ lock' = lock
    BY <1>1 DEF IInv
  <2> QED
    BY <1>1, <2>1, FilesSame DEF CallOf, LockOf, DraftOf, PlaceOf, ReviewOf, At, Target,
                                 Supersedes, Published
<1>4. Reservations'
  BY <1>1, FilesSame DEF IInv, Reservations, At
<1>5. /\ MemoryIsReadable' /\ PredecessorIsReviewed' /\ Decided' /\ PredecessorWasShown'
      /\ OneOutcomePerTask'
  BY <1>1, FilesSame DEF IInv
<1>6. Carried'
  BY <1>1, FilesSame DEF IInv, Carried, Approving, At
<1> QED
  BY <1>6, <1>2, <1>3, <1>4, <1>5 DEF IInv

-----------------------------------------------------------------------------
(* Steps that write records or transitions. *)

\* What is saved keeps what it supersedes, and its content too when it is superseded.
RecordsGrow ==
    \A i \in Saved :
        /\ i \in Saved' /\ records'[i].supersedes = records[i].supersedes
        /\ Superseded(i) => records'[i] = records[i]

\* Then no record leaves active memory, and all that is said of transitions stays true.
LEMMA ActiveGrows ==
  ASSUME IInv, RecordsGrow, lifecycle' = lifecycle
  PROVE  /\ Active \subseteq Active'
         /\ MemoryIsReadable' /\ PredecessorIsReviewed' /\ PredecessorWasShown'
<1>1. \A i \in Saved : Superseded(i)' = Superseded(i) /\ Hidden(i)' = Hidden(i)
  BY DEF RecordsGrow, Superseded, Hidden
<1>2. \A e \in lifecycle : e.pred \in Saved /\ e.succ \in Saved /\ Superseded(e.pred)
  BY DEF IInv, MemoryIsReadable, Superseded
<1>3. Active \subseteq Active'
  BY <1>1 DEF Active, RecordsGrow
<1>4. MemoryIsReadable'
  BY <1>2 DEF IInv, MemoryIsReadable, RecordsGrow, ValidTransitions
<1>5. PredecessorIsReviewed'
  BY <1>2 DEF IInv, PredecessorIsReviewed, RecordsGrow
<1>6. PredecessorWasShown'
  BY <1>1, <1>2 DEF IInv, PredecessorWasShown
<1> QED
  BY <1>3, <1>4, <1>5, <1>6

\* A step that writes a record keeps the invariant when it keeps its own call's.
LEMMA RecordStep ==
  ASSUME IInv, NEW s \in Session, RecordsGrow, Untouched(s), lock \in {None, s},
         records' \in [Id -> Record \union {NoRecord}],
         UNCHANGED <<lifecycle, proposals, reserved, lock, source>>,
         call' \in [Session -> Calls], ~At(s, {"draft"})', CallOf(s)',
         halted' = halted, Carried'
  PROVE  IInv'
<1>1. Types'
  BY DEF IInv, Types, TypeOK
<1>2. Filed' = Filed /\ Written' = Written /\ \A p \in Proposal : Published(p)' = Published(p)
  BY DEF Filed, Written, Published
<1>3. \A t \in Session \ {s} : CallOf(t)'
  <2>1. \A t \in Session \ {s} : At(t, {"draft"}) =>
            \A p \in Filed' : proposals'[p].id # call[t].id
    BY <1>2 DEF IInv, CallOf, DraftOf
  <2>2. lock \notin Session \ {s}
    BY MemoryAssumption
  <2> QED
    BY <2>1, <2>2, OthersKept
<1>4. Decided'
  <2>1. Saved \subseteq Saved'
    BY DEF RecordsGrow
  <2> QED
    BY <1>2, <2>1, FiledIs DEF IInv, Decided
<1>5. OneOutcomePerTask' /\ Reservations'
  BY <1>2, DraftsDiffer DEF IInv, OneOutcomePerTask, Reservations, At
<1> QED
  BY <1>1, <1>3, <1>4, <1>5, ActiveGrows DEF IInv

\* Only an active record is revalidated, and so no predecessor of another.
LEMMA RevalidateInv ==
  ASSUME IInv, NEW s \in Session, NEW i \in Id, Revalidate(s, i) PROVE IInv'
<1>1. /\ call[s] = Idle /\ lock \in {None, s} /\ i \in Active
      /\ records' = [records EXCEPT ![i].verified = source]
      /\ UNCHANGED <<lifecycle, proposals, reserved, call, lock, source>>
  BY DEF Revalidate, MayEnter
<1>2. i \in Saved /\ records[i] \in Record /\ ~Superseded(i) /\ source \in 0..MaxSource
  BY <1>1, SavedIs DEF Active, IInv, Types, TypeOK
<1>3. PICK w \in Record : records' = [records EXCEPT ![i] = w]
                          /\ w.supersedes = records[i].supersedes
  <2>1. [records[i] EXCEPT !.verified = source] \in Record
    BY <1>2 DEF Record
  <2>2. [records[i] EXCEPT !.verified = source].supersedes = records[i].supersedes
    BY <1>2 DEF Record
  <2> QED
    BY <1>1, <2>1, <2>2
<1>4. records \in [Id -> Record \union {NoRecord}] /\ w # NoRecord
  BY MarkAssumption DEF IInv, Types, TypeOK, NoRecord
<1>5. RecordsGrow
  BY <1>2, <1>3, <1>4 DEF RecordsGrow, Saved
<1>6. records' \in [Id -> Record \union {NoRecord}]
  BY <1>3, <1>4
<1>7. call'[s] = Idle /\ Idle.at = "idle" /\ lock # s
  BY <1>1, Here DEF CallOf, LockOf, At, Idle
<1>8. CallOf(s)' /\ ~At(s, {"draft"})'
  BY <1>1, <1>7 DEF CallOf, LockOf, DraftOf, PlaceOf, ReviewOf, At
<1>9. Untouched(s) /\ call' \in [Session -> Calls]
  BY <1>1, Here DEF Untouched
<1>10. Carried'
  <2>1. Saved' = Saved /\ \A j \in Saved : records'[j].supersedes = records[j].supersedes
    BY <1>2, <1>3, <1>4 DEF Saved
  <2>2. \A t \in Session : \A p : Approving(t, p)' = Approving(t, p)
    BY <1>1 DEF Approving, At
  <2>3. Filed' = Filed /\ UNCHANGED <<lifecycle, proposals, halted>>
    BY DEF Revalidate, Filed
  <2> QED
    BY <2>1, <2>2, <2>3 DEF IInv, Carried
<1>11. halted' = halted
  BY DEF Revalidate
<1> QED
  BY <1>10, <1>11, <1>1, <1>5, <1>6, <1>8, <1>9, RecordStep

\* What a review under way has: the lock and its proposal in staging.
LEMMA Reviewing ==
  ASSUME IInv, NEW s \in Session, At(s, {"save", "publish", "review", "move"})
  PROVE  /\ lock = s /\ call[s].proposal \in Filed /\ call[s].proposal \in Proposal
         /\ proposals[call[s].proposal].place = "staging"
         /\ proposals[call[s].proposal] \in Document
         /\ proposals[call[s].proposal].record \in Record
         /\ proposals[call[s].proposal].id \in Id
         /\ call[s].approved \in BOOLEAN
BY Here, FiledIs, CallIs DEF CallOf, LockOf, PlaceOf, Target, At

\* The identity of a proposal is its own.
LEMMA OwnId ==
  ASSUME IInv, NEW p \in Filed
  PROVE  /\ p \in Proposal /\ proposals[p] \in Document
         /\ proposals[p].id \in reserved
         /\ proposals[p].record.supersedes # proposals[p].id
         /\ \A q \in Filed \ {p} : proposals[q].id # proposals[p].id
         /\ \A t \in Session : At(t, {"draft"}) => call[t].id # proposals[p].id
BY FiledIs DEF IInv, Reservations, CallOf, DraftOf

\* The place of a call alone is changed.
LEMMA PlaceChanges ==
  ASSUME IInv, NEW s \in Session, At(s, {"save", "publish", "review", "move"}),
         NEW a \in {"save", "publish", "review", "move"}, call' = [call EXCEPT ![s].at = a],
         lock' = lock
  PROVE  /\ call' \in [Session -> Calls] /\ Untouched(s)
         /\ call'[s].at = a /\ call'[s].proposal = call[s].proposal
         /\ call'[s].approved = call[s].approved
         /\ LockOf(s)' /\ DraftOf(s)' /\ ~At(s, {"draft"})'
<1>1. call[s] = [at |-> call[s].at, proposal |-> call[s].proposal, approved |-> call[s].approved]
      /\ call[s].proposal \in Proposal /\ call[s].approved \in BOOLEAN
  BY Here, CallIs DEF At
<1>2. [call[s] EXCEPT !.at = a] =
          [at |-> a, proposal |-> call[s].proposal, approved |-> call[s].approved]
  BY <1>1
<1>3. call' = [call EXCEPT ![s] =
                   [at |-> a, proposal |-> call[s].proposal, approved |-> call[s].approved]]
  BY <1>2
<1>4. [at |-> a, proposal |-> call[s].proposal, approved |-> call[s].approved] \in Calls
  BY <1>1 DEF Calls
<1>5. call' \in [Session -> Calls]
  BY <1>3, <1>4, Here
<1>6. call'[s] = [at |-> a, proposal |-> call[s].proposal, approved |-> call[s].approved]
      /\ \A t \in Session \ {s} : call'[t] = call[t]
  BY <1>3, Here
<1>7. lock = s
  BY Reviewing
<1> QED
  BY <1>5, <1>6, <1>7 DEF Untouched, LockOf, DraftOf, At

\* A record is saved once; what is there already is what was proposed.
LEMMA SaveRecordInv == ASSUME IInv, NEW s \in Session, SaveRecord(s) PROVE IInv'
<1>0. PICK p \in Proposal : p = call[s].proposal
  BY Reviewing DEF SaveRecord, At
<1> DEFINE d == proposals[p]
           a == IF d.record.supersedes # None /\ ~Published(p) THEN "publish" ELSE "review"
<1>1. /\ At(s, {"save"}) /\ records[d.id] \in {NoRecord, d.record}
      /\ records' = [records EXCEPT ![d.id] = d.record]
      /\ call' = [call EXCEPT ![s].at = a]
      /\ UNCHANGED <<lifecycle, proposals, reserved, lock, source>>
  BY <1>0 DEF SaveRecord, At
<1>2. /\ lock = s /\ p \in Filed /\ d.place = "staging" /\ d.record \in Record /\ d.id \in Id
      /\ d.record # NoRecord /\ d.record.supersedes \in Id \union {None}
  BY <1>0, <1>1, Reviewing, Here, FiledIs, MarkAssumption DEF At, NoRecord
<1>3. records \in [Id -> Record \union {NoRecord}]
  BY Here DEF TypeOK
<1>4. /\ \A i \in Saved : i \in Saved' /\ records'[i] = records[i]
      /\ d.id \in Saved' /\ records'[d.id] = d.record
      /\ records' \in [Id -> Record \union {NoRecord}]
  BY <1>1, <1>2, <1>3 DEF Saved
<1>5. RecordsGrow
  BY <1>4 DEF RecordsGrow
<1>6. /\ call[s].approved
      /\ d.record.supersedes # None /\ ~Published(p) =>
             d.record.supersedes \in Active /\ d.digest = records[d.record.supersedes]
  BY <1>0, <1>1, Here DEF CallOf, ReviewOf, At, Target, Supersedes
<1>7. a \in {"save", "publish", "review", "move"} /\ a \in {"publish", "review"}
      /\ (a = "publish" <=> d.record.supersedes # None /\ ~Published(p))
  OBVIOUS
<1> HIDE DEF a
<1>8. /\ call' \in [Session -> Calls] /\ Untouched(s)
      /\ call'[s].at = a /\ call'[s].proposal = p /\ call'[s].approved
      /\ LockOf(s)' /\ DraftOf(s)' /\ ~At(s, {"draft"})'
  BY <1>0, <1>1, <1>6, <1>7, PlaceChanges DEF At
<1>9. Target(s)' = d /\ Supersedes(s)' = d.record.supersedes
      /\ Published(call[s].proposal)' = Published(p) /\ Filed' = Filed
  BY <1>1, <1>8 DEF Target, Supersedes, Published, Filed
<1>10. PlaceOf(s)'
  BY <1>2, <1>7, <1>8, <1>9 DEF PlaceOf, At
<1>11. ReviewOf(s)'
  <2>1. CASE a = "publish"
    <3>1. /\ d.record.supersedes # None /\ ~Published(p)
          /\ d.record.supersedes \in Active /\ d.digest = records[d.record.supersedes]
      BY <1>6, <1>7, <2>1
    <3>2. Active \subseteq Active' /\ records'[d.record.supersedes] = records[d.record.supersedes]
      BY <1>1, <1>4, <1>5, <3>1, ActiveGrows DEF Active
    <3>3. ~At(s, {"review", "move"})' /\ ~At(s, {"move"})'
      BY <1>8, <2>1 DEF At
    <3> QED
      BY <1>4, <1>8, <1>9, <3>1, <3>2, <3>3 DEF ReviewOf
  <2>2. CASE a = "review"
    <3>1. ~At(s, {"save", "publish"})' /\ ~At(s, {"publish"})' /\ ~At(s, {"move"})'
      BY <1>8, <2>2 DEF At
    <3> QED
      BY <1>4, <1>7, <1>8, <1>9, <2>2, <3>1 DEF ReviewOf
  <2> QED
    BY <1>7, <2>1, <2>2
<1>12. halted' = halted /\ Approving(s, p)'
  BY <1>7, <1>8 DEF SaveRecord, Approving, At
<1>13. Carried'
  <2>1. \A q \in Filed \ {p} : proposals[q].id # d.id
    BY <1>2, OwnId
  <2>2. \A q \in Filed \ {p} : proposals[q].id \in Saved' =>
            proposals[q].id \in Saved
            /\ records'[proposals[q].id] = records[proposals[q].id]
    BY <1>1, <1>3, <2>1, FiledIs DEF Saved
  <2>3. \A q \in Filed \ {p} : \A t \in Session : ~Approving(t, q)
    BY <1>0, <1>1, <1>2, ApproverIsAlone DEF Approving, At
  <2>4. \A q \in Filed' : proposals'[q].id \in Saved' =>
            /\ records'[proposals'[q].id].supersedes = proposals'[q].record.supersedes
            /\ proposals'[q].status = "APPROVED" \/ q \in halted'
               \/ \E t \in Session : Approving(t, q)'
    <3> SUFFICES ASSUME NEW q \in Filed, proposals[q].id \in Saved'
                 PROVE  /\ records'[proposals[q].id].supersedes = proposals[q].record.supersedes
                        /\ proposals[q].status = "APPROVED" \/ q \in halted
                           \/ \E t \in Session : Approving(t, q)'
      BY <1>1, <1>9, <1>12
    <3>1. CASE q = p
      BY <1>4, <1>12, <3>1
    <3>2. CASE q # p
      BY <2>2, <2>3, <3>2 DEF IInv, Carried
    <3> QED
      BY <3>1, <3>2
  <2>5. \A e \in lifecycle' : e.proposal \in Filed' /\ proposals'[e.proposal].id = e.succ
    BY <1>1, <1>9 DEF IInv, Carried
  <2> QED
    BY <2>4, <2>5 DEF Carried
<1> QED
  BY <1>12, <1>13, <1>1, <1>2, <1>4, <1>5, <1>8, <1>10, <1>11, RecordStep DEF CallOf

\* What the reviewed transition adds to the published ones.
LEMMA PublishIs ==
  ASSUME IInv, NEW s \in Session, Publish(s)
  PROVE  \E p \in Proposal :
           LET d == proposals[p]
               e == [pred |-> d.record.supersedes, succ |-> d.id, proposal |-> p,
                     digest |-> d.digest]
           IN  /\ p = call[s].proposal /\ p \in Filed /\ d.place = "staging" /\ lock = s
               /\ At(s, {"publish"}) /\ call[s].approved
               /\ e.pred \in Active /\ e.pred \in Saved /\ e.pred \in Id /\ e.pred # None
               /\ e.digest = records[e.pred]
               /\ e.succ \in Saved /\ e.succ \in Id /\ records[e.succ].supersedes = e.pred
               /\ e.succ # e.pred /\ e \in Transition
               /\ lifecycle' = lifecycle \union {e} /\ ValidTransitions(lifecycle')
               /\ call' = [call EXCEPT ![s].at = "review"]
               /\ UNCHANGED <<records, proposals, reserved, lock, source>>
<1>0. PICK p \in Proposal : p = call[s].proposal
  BY Reviewing DEF Publish, At
<1> DEFINE d == proposals[p]
           e == [pred |-> d.record.supersedes, succ |-> d.id, proposal |-> p, digest |-> d.digest]
<1>1. /\ At(s, {"publish"}) /\ ValidTransitions(lifecycle \union {e})
      /\ lifecycle' = lifecycle \union {e} /\ call' = [call EXCEPT ![s].at = "review"]
      /\ UNCHANGED <<records, proposals, reserved, lock, source>>
  BY <1>0 DEF Publish, At
<1>2. /\ lock = s /\ p \in Filed /\ d.place = "staging" /\ d.id \in Id
      /\ d.record.supersedes \in Id \union {None} /\ d.record.supersedes # d.id
  BY <1>0, <1>1, Reviewing, Here, FiledIs DEF At, Reservations
<1>3. /\ call[s].approved /\ d.record.supersedes # None
      /\ d.record.supersedes \in Active /\ d.digest = records[d.record.supersedes]
      /\ d.id \in Saved /\ records[d.id].supersedes = d.record.supersedes
  BY <1>0, <1>1, Here DEF CallOf, ReviewOf, At, Target, Supersedes
<1>4. d.record.supersedes \in Saved /\ d.digest \in Record
  BY <1>3, SavedIs, Here DEF Active
<1>5. e \in Transition
  BY <1>2, <1>3, <1>4 DEF Transition
<1> QED
  BY <1>0, <1>1, <1>2, <1>3, <1>4, <1>5

\* Publishing takes the predecessor out of active memory and nothing else, in the step in
\* which its successor enters it.
LEMMA PublishReplaces ==
  ASSUME IInv, NEW s \in Session, Publish(s)
  PROVE  \A i \in Active \ Active' : \E j \in Active' \ Active : records'[j].supersedes = i
<1>1. PICK p \in Proposal :
           LET d == proposals[p]
               e == [pred |-> d.record.supersedes, succ |-> d.id, proposal |-> p,
                     digest |-> d.digest]
           IN  /\ e.pred \in Active /\ e.pred \in Saved /\ e.pred # None
               /\ e.succ \in Saved /\ records[e.succ].supersedes = e.pred
               /\ e.succ # e.pred /\ lifecycle' = lifecycle \union {e}
               /\ e \in Transition /\ UNCHANGED records
  BY PublishIs
<1>2. PICK i \in Saved, j \in Saved : i = proposals[p].record.supersedes /\ j = proposals[p].id
  BY <1>1
<1>3. PICK e \in Transition :
               /\ lifecycle' = lifecycle \union {e} /\ e.pred = i /\ e.succ = j
               /\ i \in Active /\ i # None /\ records[j].supersedes = i
               /\ j # i /\ records' = records
  BY <1>1, <1>2
<1>4. ~Superseded(i)
  BY <1>3 DEF Active
<1>5. Hidden(j) /\ j \notin Active
  BY <1>2, <1>3, <1>4 DEF Hidden, Superseded, Active
<1>6. ~Superseded(j)' /\ ~Hidden(j)'
  <2>1. ~Superseded(j)
    BY <1>5 DEF IInv, PredecessorWasShown, Superseded, Hidden
  <2>2. ~Superseded(j)'
    BY <1>2, <1>3, <2>1 DEF Superseded
  <2>3. ~Hidden(j)'
    BY <1>2, <1>3 DEF Hidden
  <2> QED
    BY <2>2, <2>3
<1>7. j \in Active'
  BY <1>3, <1>6 DEF Active, Saved
<1>8. \A k \in Active : k # i => k \in Active'
  BY <1>2, <1>3 DEF Active, Saved, Superseded, Hidden
<1> QED
  BY <1>3, <1>5, <1>7, <1>8

\* The transition is published between the record and the decision.
LEMMA PublishInv == ASSUME IInv, NEW s \in Session, Publish(s) PROVE IInv'
<1>1. PICK p \in Proposal :
           LET d == proposals[p]
               e == [pred |-> d.record.supersedes, succ |-> d.id, proposal |-> p,
                     digest |-> d.digest]
           IN  /\ p = call[s].proposal /\ p \in Filed /\ d.place = "staging" /\ lock = s
               /\ At(s, {"publish"}) /\ call[s].approved
               /\ e.pred \in Active /\ e.pred \in Saved /\ e.pred \in Id /\ e.pred # None
               /\ e.digest = records[e.pred]
               /\ e.succ \in Saved /\ e.succ \in Id /\ records[e.succ].supersedes = e.pred
               /\ e.succ # e.pred /\ e \in Transition
               /\ lifecycle' = lifecycle \union {e} /\ ValidTransitions(lifecycle')
               /\ call' = [call EXCEPT ![s].at = "review"]
               /\ UNCHANGED <<records, proposals, reserved, lock, source>>
  BY PublishIs
<1>2. PICK e \in Transition :
           /\ e.pred = proposals[p].record.supersedes /\ e.succ = proposals[p].id
           /\ e.proposal = p
           /\ e.pred \in Active /\ e.pred \in Saved /\ e.pred # None /\ e.succ \in Saved
           /\ e.digest = records[e.pred]
           /\ records[e.succ].supersedes = e.pred /\ e.succ # e.pred
           /\ lifecycle' = lifecycle \union {e}
  BY <1>1
<1>3. /\ p = call[s].proposal /\ p \in Filed /\ proposals[p].place = "staging" /\ lock = s
      /\ At(s, {"publish"}) /\ call[s].approved /\ ValidTransitions(lifecycle')
      /\ call' = [call EXCEPT ![s].at = "review"]
      /\ UNCHANGED <<records, proposals, reserved, lock, source>>
  BY <1>1
<1>4. /\ call' \in [Session -> Calls] /\ Untouched(s)
      /\ call'[s].at = "review" /\ call'[s].proposal = p /\ call'[s].approved
      /\ LockOf(s)' /\ DraftOf(s)' /\ ~At(s, {"draft"})'
  BY <1>3, PlaceChanges DEF At
<1>5. Filed' = Filed /\ Written' = Written /\ Saved' = Saved
  BY <1>3 DEF Filed, Written, Saved
<1>6. \A q \in Proposal : Published(q)' <=> Published(q) \/ q = p
  BY <1>2 DEF Published
<1>7. Types'
  BY <1>2, <1>3, <1>4 DEF IInv, Types, TypeOK, Publish
<1>8. MemoryIsReadable'
  <2>1. \A f \in lifecycle' : {f.pred, f.succ} \subseteq Saved /\ records[f.succ].supersedes = f.pred
    BY <1>2 DEF IInv, MemoryIsReadable
  <2> QED
    BY <1>3, <1>5, <2>1 DEF MemoryIsReadable
<1>9. PredecessorIsReviewed'
  BY <1>2, <1>3 DEF IInv, PredecessorIsReviewed
<1>10. PredecessorWasShown'
  <2>1. \A i \in Saved : ~Hidden(i) => ~Hidden(i)'
    BY <1>2, <1>3 DEF Hidden
  <2>2. \A f \in lifecycle' : f.pred \in Saved /\ ~Hidden(f.pred)
    BY <1>2 DEF IInv, MemoryIsReadable, PredecessorWasShown, Active
  <2> QED
    BY <2>1, <2>2 DEF PredecessorWasShown
<1>11. Decided'
  <2> SUFFICES ASSUME NEW q \in Filed, proposals[q].place = "history"
               PROVE  /\ proposals[q].status # "PENDING"
                      /\ proposals[q].status = "REJECTED" => ~Published(q)'
                      /\ proposals[q].status = "APPROVED" =>
                            /\ proposals[q].id \in Saved
                            /\ proposals[q].record.supersedes # None => Published(q)'
    BY <1>3, <1>5 DEF Decided
  <2>1. q \in Proposal /\ q # p
    BY <1>3 DEF Filed
  <2> QED
    BY <1>6, <2>1 DEF IInv, Decided
<1>12. OneOutcomePerTask' /\ Reservations'
  BY <1>3, <1>4, <1>5, DraftsDiffer DEF IInv, OneOutcomePerTask, Reservations, At
<1>13. \A t \in Session \ {s} : CallOf(t)'
  <2>1. \A t \in Session \ {s} : At(t, {"draft"}) =>
            \A q \in Filed' : proposals'[q].id # call[t].id
    BY <1>3, <1>5 DEF IInv, CallOf, DraftOf
  <2> QED
    BY <1>3, <1>4, <2>1, OthersKept
<1>14. CallOf(s)'
  <2>1. Target(s)' = proposals[p] /\ Supersedes(s)' = proposals[p].record.supersedes
        /\ Published(call[s].proposal)' = Published(p)'
    BY <1>3, <1>4 DEF Target, Supersedes, Published
  <2>2. ~At(s, {"stage"})' /\ ~At(s, {"save", "publish"})' /\ ~At(s, {"publish"})' /\ ~At(s, {"move"})'
    BY <1>4 DEF At
  <2>3. ReviewOf(s)'
    BY <1>2, <1>4, <1>5, <1>6, <2>1, <2>2 DEF ReviewOf
  <2>4. PlaceOf(s)'
    BY <1>3, <1>4, <1>5, <2>1, <2>2 DEF PlaceOf
  <2> QED
    BY <1>4, <2>3, <2>4 DEF CallOf
<1>15. halted' = halted /\ halted \subseteq Proposal /\ Approving(s, p)'
  BY <1>4, Here DEF Publish, Approving, At, TypeOK
<1>16. Carried'
  <2>1. \A q \in Filed \ {p} : \A t \in Session : ~Approving(t, q)
    BY <1>3, ApproverIsAlone DEF Approving
  <2>2. \A q \in Filed : proposals[q].id \in Saved =>
            /\ records[proposals[q].id].supersedes = proposals[q].record.supersedes
            /\ proposals[q].status = "APPROVED" \/ q \in halted
               \/ \E t \in Session : Approving(t, q)'
    <3> SUFFICES ASSUME NEW q \in Filed, proposals[q].id \in Saved
                 PROVE  /\ records[proposals[q].id].supersedes = proposals[q].record.supersedes
                        /\ proposals[q].status = "APPROVED" \/ q \in halted
                           \/ \E t \in Session : Approving(t, q)'
      OBVIOUS
    <3>1. CASE q = p
      BY <1>15, <3>1 DEF IInv, Carried
    <3>2. CASE q # p
      BY <2>1, <3>2 DEF IInv, Carried
    <3> QED
      BY <3>1, <3>2
  <2>3. \A f \in lifecycle' : f.proposal \in Filed /\ proposals[f.proposal].id = f.succ
    BY <1>2, <1>3 DEF IInv, Carried
  <2> QED
    BY <1>3, <1>5, <1>15, <2>2, <2>3 DEF Carried
<1> QED
  BY <1>15, <1>16, <1>7, <1>8, <1>9, <1>10, <1>11, <1>12, <1>13, <1>14 DEF IInv

-----------------------------------------------------------------------------
(* Steps that write a proposal. *)

\* A document that keeps its identity and its predecessor keeps what its record is, when a
\* saved record is approved or noted as halted.
LEMMA CarriedByDocument ==
  ASSUME IInv, NEW s \in Session, lock \in {None, s}, NEW p \in Proposal, NEW w \in Document,
         proposals' = [proposals EXCEPT ![p] = w], UNCHANGED <<records, lifecycle>>,
         IF p \in Filed THEN w.id = proposals[p].id /\ w.record = proposals[p].record
                       ELSE w.id \notin Saved,
         halted \ {p} \subseteq halted', \A q \in Proposal \ {p} : ~Approving(s, q),
         w.id \in Saved => w.status = "APPROVED" \/ p \in halted'
  PROVE  Carried'
<1>1. proposals \in [Proposal -> Document \union {NoDocument}] /\ w # NoDocument
  BY MarkAssumption DEF IInv, Types, TypeOK, NoDocument
<1>2. /\ proposals'[p] = w /\ \A q \in Proposal \ {p} : proposals'[q] = proposals[q]
      /\ Filed' = Filed \union {p} /\ Filed \subseteq Proposal /\ Saved' = Saved
  BY <1>1 DEF Filed, Saved
<1>3. \A q \in Filed \ {p} : \A t \in Session : ~Approving(t, q)
  BY <1>2, ApproverIsAlone
<1>4. \A q \in Filed' : proposals'[q].id \in Saved =>
          /\ records[proposals'[q].id].supersedes = proposals'[q].record.supersedes
          /\ proposals'[q].status = "APPROVED" \/ q \in halted'
  <2> SUFFICES ASSUME NEW q \in Filed', proposals'[q].id \in Saved
               PROVE  /\ records[proposals'[q].id].supersedes = proposals'[q].record.supersedes
                      /\ proposals'[q].status = "APPROVED" \/ q \in halted'
    OBVIOUS
  <2>1. CASE q = p
    BY <1>2, <2>1 DEF IInv, Carried
  <2>2. CASE q # p
    BY <1>2, <1>3, <2>2 DEF IInv, Carried
  <2> QED
    BY <2>1, <2>2
<1>5. \A e \in lifecycle : e.proposal \in Filed' /\ proposals'[e.proposal].id = e.succ
  <2> SUFFICES ASSUME NEW e \in lifecycle
               PROVE  e.proposal \in Filed' /\ proposals'[e.proposal].id = e.succ
    OBVIOUS
  <2>1. e.proposal \in Filed /\ proposals[e.proposal].id = e.succ
    BY DEF IInv, Carried
  <2> QED
    BY <1>2, <2>1
<1> QED
  BY <1>2, <1>4, <1>5 DEF Carried

\* What is written to a proposal keeps the invariant when its identity is its own, no other
\* is of its task, and its place in the history is deserved.
LEMMA ProposalStep ==
  ASSUME IInv, NEW s \in Session, lock \in {None, s}, NEW p \in Proposal, NEW w \in Document,
         proposals' = [proposals EXCEPT ![p] = w],
         UNCHANGED <<records, lifecycle, reserved, source>>,
         call' \in [Session -> Calls], Untouched(s), ~At(s, {"draft"})',
         lock' \in Session \union {None}, CallOf(s)',
         w.id \in reserved, w.record.supersedes # w.id,
         \A q \in Filed \ {p} : proposals[q].id # w.id,
         \A t \in Session \ {s} : At(t, {"draft"}) => call[t].id # w.id,
         w.place # "directory" /\ w.task # None =>
             \A q \in Written \ {p} : proposals[q].task # w.task,
         w.place = "history" =>
             /\ w.status # "PENDING"
             /\ w.status = "REJECTED" => ~Published(p)
             /\ w.status = "APPROVED" =>
                    /\ w.id \in Saved
                    /\ w.record.supersedes # None => Published(p),
         halted' \subseteq Proposal, Carried'
  PROVE  IInv'
<1>1. proposals \in [Proposal -> Document \union {NoDocument}] /\ w # NoDocument
  BY MarkAssumption DEF IInv, Types, TypeOK, NoDocument
<1>2. /\ proposals'[p] = w /\ \A q \in Proposal \ {p} : proposals'[q] = proposals[q]
      /\ proposals' \in [Proposal -> Document \union {NoDocument}]
  BY <1>1
<1>3. Filed' = Filed \union {p} /\ Filed \subseteq Proposal
  BY <1>1, <1>2 DEF Filed
<1>4. Written' \subseteq Written \union {p} /\ (p \in Written' => w.place # "directory")
  BY <1>2, <1>3 DEF Written
<1>5. /\ Saved' = Saved /\ Active' = Active
      /\ \A q \in Proposal : Published(q)' = Published(q)
  BY DEF Saved, Active, Superseded, Hidden, Published
<1>6. Types'
  BY <1>2 DEF IInv, Types, TypeOK
<1>7. MemoryIsReadable' /\ PredecessorIsReviewed' /\ PredecessorWasShown'
  BY <1>5 DEF IInv, MemoryIsReadable, PredecessorIsReviewed, PredecessorWasShown, Hidden
<1>8. Decided'
  <2> SUFFICES ASSUME NEW q \in Filed', proposals'[q].place = "history"
               PROVE  /\ proposals'[q].status # "PENDING"
                      /\ proposals'[q].status = "REJECTED" => ~Published(q)
                      /\ proposals'[q].status = "APPROVED" =>
                            /\ proposals'[q].id \in Saved
                            /\ proposals'[q].record.supersedes # None => Published(q)
    BY <1>3, <1>5 DEF Decided
  <2>1. CASE q = p
    BY <1>2, <2>1
  <2>2. CASE q # p
    BY <1>2, <1>3, <2>2 DEF IInv, Decided
  <2> QED
    BY <2>1, <2>2
<1>9. Reservations'
  <2>1. /\ \A q \in Filed' : proposals'[q].id \in reserved
                             /\ proposals'[q].record.supersedes # proposals'[q].id
        /\ \A q, r \in Filed' : proposals'[q].id = proposals'[r].id => q = r
    BY <1>2, <1>3 DEF IInv, Reservations
  <2>2. \A t, u \in Session :
            At(t, {"draft"})' /\ At(u, {"draft"})' /\ call'[t].id = call'[u].id => t = u
    BY DraftsDiffer
  <2> QED
    BY <2>1, <2>2 DEF Reservations
<1>10. OneOutcomePerTask'
  BY <1>2, <1>3, <1>4 DEF IInv, OneOutcomePerTask, Written
<1>11. \A t \in Session \ {s} : CallOf(t)'
  <2>1. \A t \in Session \ {s} : At(t, {"draft"}) =>
            \A q \in Filed' : proposals'[q].id # call[t].id
    BY <1>2, <1>3 DEF IInv, CallOf, DraftOf
  <2>2. lock \notin Session \ {s}
    BY MemoryAssumption
  <2> QED
    BY <2>1, <2>2, OthersKept
<1> QED
  BY <1>6, <1>7, <1>8, <1>9, <1>10, <1>11 DEF IInv

\* A proposal gets the identity of the draft, and is the first of its task.
LEMMA ProposeInv ==
  ASSUME IInv, NEW s \in Session, NEW pred \in Id \union {None}, Propose(s, pred) PROVE IInv'
<1>1. /\ At(s, {"draft"}) /\ lock \in {None, s}
      /\ pred # None => pred # call[s].id /\ pred \in Active
      /\ UNCHANGED <<records, lifecycle, reserved, source>> /\ lock' = s
  BY DEF Propose, Enter, MayEnter, At
<1>2. /\ call[s].id \in Id /\ call[s].verified \in 0..MaxSource
      /\ call[s].task \in Task \union {None}
  BY <1>1, Here, CallIs
<1> DEFINE w == [place |-> "directory", status |-> "PENDING", id |-> call[s].id,
                 record |-> [supersedes |-> pred, verified |-> call[s].verified],
                 task |-> call[s].task,
                 digest |-> IF pred = None THEN NoRecord ELSE records[pred]]
<1>3. PICK p \in FreeProposals : /\ proposals' = [proposals EXCEPT ![p] = w]
                                 /\ call' = [call EXCEPT ![s] = [at |-> "stage", proposal |-> p]]
  BY DEF Propose, Enter
<1>4. p \in Proposal /\ p \notin Filed
  BY DEF FreeProposals
<1>5. PICK v \in Document :
          /\ proposals' = [proposals EXCEPT ![p] = v] /\ v.place = "directory"
          /\ v.id = call[s].id /\ v.record.supersedes = pred /\ v.task = call[s].task
  <2>1. pred # None => records[pred] \in Record
    BY <1>1, Here, SavedIs DEF Active
  <2>2. w \in Document
    BY <1>2, <2>1 DEF Document, Record, Staged
  <2> QED
    BY <1>3, <2>2
<1>6. /\ call'[s] = [at |-> "stage", proposal |-> p] /\ call' \in [Session -> Calls]
      /\ \A t \in Session \ {s} : call'[t] = call[t]
  BY <1>3, <1>4, Here DEF Calls
<1>7. Untouched(s)
  BY <1>1, <1>6, MemoryAssumption DEF Untouched
<1>8. /\ call[s].id \in reserved /\ \A q \in Filed : proposals[q].id # call[s].id
      /\ call[s].task # None => \A q \in Written : proposals[q].task # call[s].task
      /\ \A t \in Session \ {s} : At(t, {"draft"}) => call[t].id # call[s].id
  BY <1>1, Here DEF CallOf, DraftOf, Reservations
<1>9. pred # call[s].id
  BY <1>1, <1>2, MemoryAssumption
<1>10. /\ proposals'[p] = v /\ \A q \in Proposal \ {p} : proposals'[q] = proposals[q]
       /\ v # NoDocument
  BY <1>4, <1>5, Here, MarkAssumption DEF TypeOK, NoDocument
<1>11. CallOf(s)'
  <2>1. LockOf(s)' /\ DraftOf(s)' /\ ReviewOf(s)' /\ ~At(s, {"draft"})'
    BY <1>1, <1>6 DEF LockOf, DraftOf, ReviewOf, At
  <2>2. Target(s)' = v /\ p \in Filed'
    BY <1>4, <1>6, <1>10 DEF Target, Filed
  <2>3. \A q \in Written' : q \in Written /\ proposals'[q] = proposals[q]
    BY <1>5, <1>10 DEF Written, Filed
  <2>4. PlaceOf(s)'
    BY <1>5, <1>6, <1>8, <2>2, <2>3 DEF PlaceOf, At
  <2> QED
    BY <2>1, <2>4 DEF CallOf
<1>12. ~At(s, {"draft"})'
  BY <1>6 DEF At
<1>13. /\ v.id \in reserved /\ v.record.supersedes # v.id
       /\ \A q \in Filed \ {p} : proposals[q].id # v.id
       /\ \A t \in Session \ {s} : At(t, {"draft"}) => call[t].id # v.id
       /\ v.place # "history" /\ v.place = "directory"
  BY <1>5, <1>8, <1>9
<1>14. lock' \in Session \union {None} /\ lock \in {None, s}
       /\ UNCHANGED <<records, lifecycle, reserved, source>>
  BY <1>1
<1>15. halted' = halted /\ halted \subseteq Proposal /\ (\A q : ~Approving(s, q))
       /\ v.id \notin Saved
  BY <1>1, <1>5, Here DEF Propose, Approving, At, TypeOK
<1>16. Carried'
  BY <1>1, <1>4, <1>5, <1>15, CarriedByDocument
<1> QED
  BY <1>15, <1>16, <1>4, <1>5, <1>6, <1>7, <1>11, <1>12, <1>13, <1>14, ProposalStep

\* The document appears; the caller goes on, or leaves, or stays with the lock.
LEMMA WriteProposalInv == ASSUME IInv, NEW s \in Session, WriteProposal(s) PROVE IInv'
<1>0. PICK p \in Proposal : p = call[s].proposal
  BY Here, CallIs DEF WriteProposal, At
<1> DEFINE c == IF AutoApprove THEN [at |-> "auto", proposal |-> p] ELSE Idle
<1>1. /\ At(s, {"stage"})
      /\ proposals' = [proposals EXCEPT ![p].place = "staging"]
      /\ call' = [call EXCEPT ![s] = c]
      /\ lock' = IF AutoApprove /\ proposals[p].task # None THEN s ELSE None
      /\ UNCHANGED <<records, lifecycle, reserved, source>>
  BY <1>0 DEF WriteProposal, At
<1>2. /\ lock = s /\ p \in Filed /\ proposals[p].place = "directory"
      /\ proposals[p].task # None => \A q \in Written : proposals[q].task # proposals[p].task
  BY <1>0, <1>1, Here DEF CallOf, LockOf, PlaceOf, Target, At
<1>3. [proposals[p] EXCEPT !.place = "staging"] \in Document
  BY <1>2, OwnId DEF Document, Staged
<1>4. PICK w \in Document :
          /\ proposals' = [proposals EXCEPT ![p] = w] /\ w.place = "staging"
          /\ w.id = proposals[p].id /\ w.record = proposals[p].record
          /\ w.task = proposals[p].task /\ w.status = proposals[p].status
  BY <1>1, <1>2, <1>3, OwnId DEF Document
<1>5. c \in Calls /\ ((c = Idle /\ ~AutoApprove) \/ (c.at = "auto" /\ AutoApprove))
  <2>1. CASE AutoApprove
    BY <2>1 DEF Calls
  <2>2. CASE ~AutoApprove
    <3>1. c = Idle
      BY <2>2
    <3>2. Idle \in Calls
      BY DEF Calls
    <3> QED
      BY <2>2, <3>1, <3>2
  <2> QED
    BY <2>1, <2>2
<1> HIDE DEF c
<1>6. /\ call'[s] = c /\ call' \in [Session -> Calls]
      /\ \A t \in Session \ {s} : call'[t] = call[t]
  BY <1>1, <1>5, Here
<1>7. Untouched(s)
  BY <1>1, <1>2, <1>6, MemoryAssumption DEF Untouched
<1>8. /\ ~At(s, {"draft"})' /\ ~At(s, {"stage", "save", "publish", "review", "move"})'
      /\ ~At(s, {"save", "publish", "review", "move"})'
      /\ (At(s, {"idle"})' => ~AutoApprove)
  BY <1>5, <1>6 DEF At, Idle
<1>9. CallOf(s)'
  <2>1. LockOf(s)'
    BY <1>1, <1>8, Here DEF LockOf
  <2>2. DraftOf(s)' /\ PlaceOf(s)' /\ ReviewOf(s)'
    BY <1>8 DEF DraftOf, PlaceOf, ReviewOf, At
  <2> QED
    BY <2>1, <2>2 DEF CallOf
<1>10. /\ w.id \in reserved /\ w.record.supersedes # w.id
       /\ \A q \in Filed \ {p} : proposals[q].id # w.id
       /\ \A t \in Session \ {s} : At(t, {"draft"}) => call[t].id # w.id
       /\ w.task # None => \A q \in Written \ {p} : proposals[q].task # w.task
       /\ w.place # "history"
  BY <1>2, <1>4, OwnId
<1>11. /\ lock' \in Session \union {None} /\ lock \in {None, s}
       /\ UNCHANGED <<records, lifecycle, reserved, source>>
  BY <1>1, <1>2
<1>12. halted' = halted /\ halted \subseteq Proposal /\ (\A q : ~Approving(s, q))
  BY <1>1, Here DEF WriteProposal, Approving, At, TypeOK
<1>13. w.id \in Saved => w.status = "APPROVED" \/ p \in halted'
  BY <1>2, <1>4, <1>12, ApproverIsAlone DEF IInv, Carried
<1>14. Carried'
  BY <1>2, <1>4, <1>11, <1>12, <1>13, CarriedByDocument
<1> QED
  BY <1>12, <1>14, <1>4, <1>6, <1>7, <1>8, <1>9, <1>10, <1>11, ProposalStep

\* The decision is noted in the proposal before it goes to the history.
LEMMA WriteReviewInv == ASSUME IInv, NEW s \in Session, WriteReview(s) PROVE IInv'
<1>0. PICK p \in Proposal : p = call[s].proposal
  BY Reviewing DEF WriteReview, At
<1>a. PICK x \in {"APPROVED", "REJECTED"} :
          x = IF call[s].approved THEN "APPROVED" ELSE "REJECTED"
  OBVIOUS
<1>1. /\ At(s, {"review"})
      /\ proposals' = [proposals EXCEPT ![p].status = x]
      /\ call' = [call EXCEPT ![s].at = "move"]
      /\ UNCHANGED <<records, lifecycle, reserved, lock, source>>
  BY <1>0, <1>a DEF WriteReview, At
<1>2. lock = s /\ p \in Filed /\ proposals[p].place = "staging"
  BY <1>0, <1>1, Reviewing DEF At
<1>3. [proposals[p] EXCEPT !.status = x] \in Document
  BY <1>2, OwnId DEF Document
<1>4. PICK w \in Document :
          /\ proposals' = [proposals EXCEPT ![p] = w] /\ w.place = "staging"
          /\ w.id = proposals[p].id /\ w.record = proposals[p].record
          /\ w.task = proposals[p].task /\ w.status = x
  BY <1>1, <1>2, <1>3, OwnId DEF Document
<1>5. IF call[s].approved
      THEN /\ proposals[p].id \in Saved
           /\ proposals[p].record.supersedes # None => Published(p)
      ELSE ~Published(p) /\ proposals[p].status # "APPROVED"
  BY <1>0, <1>1, Here DEF CallOf, ReviewOf, At, Target, Supersedes
<1>6. /\ call' \in [Session -> Calls] /\ Untouched(s)
      /\ call'[s].at = "move" /\ call'[s].proposal = p /\ call'[s].approved = call[s].approved
      /\ LockOf(s)' /\ DraftOf(s)' /\ ~At(s, {"draft"})'
  BY <1>0, <1>1, PlaceChanges DEF At
<1>7. proposals'[p] = w /\ w # NoDocument
  BY <1>4, Here, MarkAssumption DEF TypeOK, NoDocument
<1>8. /\ Target(s)' = w /\ Supersedes(s)' = w.record.supersedes /\ p \in Filed'
      /\ Published(call[s].proposal)' = Published(p) /\ Saved' = Saved
  BY <1>1, <1>6, <1>7 DEF Target, Supersedes, Filed, Published, Saved
<1>9. CallOf(s)'
  <2>1. ~At(s, {"stage"})' /\ ~At(s, {"save", "publish"})' /\ ~At(s, {"publish"})'
    BY <1>6 DEF At
  <2>2. PlaceOf(s)'
    BY <1>4, <1>6, <1>8, <2>1 DEF PlaceOf
  <2>3. ReviewOf(s)'
    BY <1>a, <1>4, <1>5, <1>6, <1>8, <2>1 DEF ReviewOf
  <2> QED
    BY <1>6, <2>2, <2>3 DEF CallOf
<1>10. /\ w.id \in reserved /\ w.record.supersedes # w.id
       /\ \A q \in Filed \ {p} : proposals[q].id # w.id
       /\ \A t \in Session \ {s} : At(t, {"draft"}) => call[t].id # w.id
       /\ w.place # "history"
  BY <1>2, <1>4, OwnId
<1>11. w.task # None => \A q \in Written \ {p} : proposals[q].task # w.task
  BY <1>2, <1>4 DEF IInv, OneOutcomePerTask, Written
<1>12. /\ lock' \in Session \union {None} /\ lock \in {None, s}
       /\ UNCHANGED <<records, lifecycle, reserved, source>>
  BY <1>1, <1>2
<1>13. /\ halted \ {p} \subseteq halted' /\ halted' \subseteq Proposal
       /\ ~call[s].approved => halted' = halted
       /\ \A q \in Proposal \ {p} : ~Approving(s, q)
  BY <1>0, Here DEF WriteReview, Approving, TypeOK
<1>14. w.id \in Saved => w.status = "APPROVED" \/ p \in halted'
  <2>1. CASE call[s].approved
    BY <1>a, <1>4, <2>1
  <2>2. CASE ~call[s].approved
    <3>1. \A t \in Session : ~Approving(t, p)
      BY <1>2, <2>2, ApproverIsAlone DEF Approving
    <3> QED
      BY <1>2, <1>4, <1>5, <1>13, <2>2, <3>1 DEF IInv, Carried
  <2> QED
    BY <2>1, <2>2
<1>15. Carried'
  BY <1>2, <1>4, <1>12, <1>13, <1>14, CarriedByDocument
<1> QED
  BY <1>13, <1>15, <1>4, <1>6, <1>9, <1>10, <1>11, <1>12, ProposalStep

\* In the history is what was decided and carried out.
LEMMA MoveProposalInv == ASSUME IInv, NEW s \in Session, MoveProposal(s) PROVE IInv'
<1>0. PICK p \in Proposal : p = call[s].proposal
  BY Reviewing DEF MoveProposal, At
<1>1. /\ At(s, {"move"})
      /\ proposals' = [proposals EXCEPT ![p].place = "history"]
      /\ call' = [call EXCEPT ![s] = Idle] /\ lock' = None
      /\ UNCHANGED <<records, lifecycle, reserved, source>>
  BY <1>0 DEF MoveProposal, Leave, At
<1>2. lock = s /\ p \in Filed /\ proposals[p].place = "staging"
  BY <1>0, <1>1, Reviewing DEF At
<1>3. [proposals[p] EXCEPT !.place = "history"] \in Document
  BY <1>2, OwnId DEF Document
<1>4. PICK w \in Document :
          /\ proposals' = [proposals EXCEPT ![p] = w] /\ w.place = "history"
          /\ w.id = proposals[p].id /\ w.record = proposals[p].record
          /\ w.task = proposals[p].task /\ w.status = proposals[p].status
  BY <1>1, <1>2, <1>3, OwnId DEF Document
<1>5. /\ IF call[s].approved
         THEN /\ proposals[p].id \in Saved
              /\ proposals[p].record.supersedes # None => Published(p)
         ELSE ~Published(p)
      /\ proposals[p].status = IF call[s].approved THEN "APPROVED" ELSE "REJECTED"
  BY <1>0, <1>1, Here DEF CallOf, ReviewOf, At, Target, Supersedes
<1>6. call'[s] = Idle /\ call' \in [Session -> Calls] /\ Idle.at = "idle"
      /\ \A t \in Session \ {s} : call'[t] = call[t]
  BY <1>1, Here DEF Calls, Idle
<1>7. Untouched(s)
  BY <1>1, <1>2, <1>6, MemoryAssumption DEF Untouched
<1>8. CallOf(s)' /\ ~At(s, {"draft"})'
  BY <1>1, <1>6, Here DEF CallOf, LockOf, DraftOf, PlaceOf, ReviewOf, At
<1>9. /\ w.id \in reserved /\ w.record.supersedes # w.id
      /\ \A q \in Filed \ {p} : proposals[q].id # w.id
      /\ \A t \in Session \ {s} : At(t, {"draft"}) => call[t].id # w.id
  BY <1>2, <1>4, OwnId
<1>10. w.task # None => \A q \in Written \ {p} : proposals[q].task # w.task
  BY <1>2, <1>4 DEF IInv, OneOutcomePerTask, Written
<1>11. /\ w.status # "PENDING"
       /\ w.status = "REJECTED" => ~Published(p)
       /\ w.status = "APPROVED" =>
              /\ w.id \in Saved
              /\ w.record.supersedes # None => Published(p)
  BY <1>4, <1>5
<1>12. /\ lock' \in Session \union {None} /\ lock \in {None, s}
       /\ UNCHANGED <<records, lifecycle, reserved, source>>
  BY <1>1, <1>2
<1>13. halted' = halted /\ halted \subseteq Proposal /\ (\A q : ~Approving(s, q))
  BY <1>1, Here DEF MoveProposal, Approving, At, TypeOK
<1>14. w.id \in Saved => w.status = "APPROVED" \/ p \in halted'
  BY <1>2, <1>4, <1>13, ApproverIsAlone DEF IInv, Carried
<1>15. Carried'
  BY <1>2, <1>4, <1>12, <1>13, <1>14, CarriedByDocument
<1> QED
  BY <1>13, <1>15, <1>4, <1>6, <1>7, <1>8, <1>9, <1>10, <1>11, <1>12, ProposalStep

-----------------------------------------------------------------------------
(* The theorems. *)

\* At first memory is empty and nobody is in a call.
LEMMA InitInv == Init => IInv
<1> SUFFICES ASSUME Init PROVE IInv
  OBVIOUS
<1>1. /\ records = [i \in Id |-> NoRecord] /\ lifecycle = {}
      /\ proposals = [p \in Proposal |-> NoDocument] /\ reserved = {}
      /\ call = [s \in Session |-> Idle] /\ lock = None /\ source = 0 /\ halted = {}
  BY DEF Init
<1>2. Saved = {} /\ Filed = {} /\ Written = {}
  BY <1>1 DEF Saved, Filed, Written
<1>3. Types
  BY <1>1, MemoryAssumption DEF Types, TypeOK, Calls
<1>4. MemoryIsReadable /\ PredecessorIsReviewed /\ Decided /\ PredecessorWasShown
  BY <1>1, <1>2 DEF MemoryIsReadable, ValidTransitions, PredecessorIsReviewed, Decided,
                    PredecessorWasShown
<1>5. \A s \in Session : call[s].at = "idle"
  BY <1>1 DEF Idle
<1>6. Reservations /\ OneOutcomePerTask
  BY <1>2, <1>5 DEF Reservations, OneOutcomePerTask, At
<1>7. \A s \in Session : CallOf(s)
  BY <1>1, <1>5, MemoryAssumption DEF CallOf, LockOf, DraftOf, PlaceOf, ReviewOf, At
<1>8. Carried
  BY <1>1, <1>2 DEF Carried
<1> QED
  BY <1>8, <1>3, <1>4, <1>6, <1>7 DEF IInv

\* Every step keeps the invariant.
LEMMA NextInv == IInv /\ [Next]_vars => IInv'
<1> SUFFICES ASSUME IInv, [Next]_vars PROVE IInv'
  OBVIOUS
<1>1. CASE UNCHANGED vars
  <2>1. UNCHANGED <<records, lifecycle, proposals, reserved, call, lock, source, halted>>
    BY <1>1 DEF vars, files
  <2>2. Types' /\ Reservations'
    BY <2>1, FilesSame DEF IInv, Types, TypeOK, Reservations, At
  <2>3. \A s \in Session : CallOf(s)'
    BY <2>1, FilesSame DEF IInv, CallOf, LockOf, DraftOf, PlaceOf, ReviewOf, At, Target,
                           Supersedes, Published
  <2>4. Carried'
    BY <2>1, FilesSame DEF IInv, Carried, Approving, At
  <2> QED
    BY <2>1, <2>2, <2>3, <2>4, FilesSame DEF IInv
<1>2. CASE SourceChanges
  BY <1>2, SourceInv
<1>3. ASSUME NEW s \in Session,
             \/ NewRecord(s) \/ WriteProposal(s) \/ SaveRecord(s) \/ Publish(s)
             \/ WriteReview(s) \/ MoveProposal(s) \/ Stop(s)
      PROVE  IInv'
  BY <1>3, NewRecordInv, WriteProposalInv, SaveRecordInv, PublishInv, WriteReviewInv,
     MoveProposalInv, StopInv
<1>4. ASSUME NEW s \in Session, NEW t \in Task, ProposeOutcome(s, t) PROVE IInv'
  BY <1>4, ProposeOutcomeInv
<1>5. ASSUME NEW s \in Session, NEW pred \in Id \union {None}, Propose(s, pred) PROVE IInv'
  BY <1>5, ProposeInv
<1>6. ASSUME NEW s \in Session, NEW p \in Proposal, NEW approved \in BOOLEAN,
             BeginReview(s, p, approved)
      PROVE  IInv'
  BY <1>6, BeginReviewInv
<1>7. ASSUME NEW s \in Session, NEW i \in Id, Revalidate(s, i) PROVE IInv'
  BY <1>7, RevalidateInv
<1> QED
  BY <1>1, <1>2, <1>3, <1>4, <1>5, <1>6, <1>7 DEF Next

\* The inductive invariant of durable memory.
THEOREM MemoryInvariant == Spec => []IInv
  BY InitInv, NextInv, PTL DEF Spec

\* What the invariant says of a rejected proposal: no transition is of its record.
LEMMA ReviewsAreKept == IInv => ReviewIsKept
<1> SUFFICES ASSUME IInv, NEW p \in Filed, proposals[p].place = "history"
             PROVE  LET d == proposals[p]
                    IN  /\ d.status # "PENDING"
                        /\ d.status = "REJECTED" =>
                            /\ ~Published(p)
                            /\ d.id \in Saved => p \in halted
                            /\ d.id \in Active => d.record.supersedes = None
                        /\ d.status = "APPROVED" =>
                            /\ d.id \in Saved
                            /\ d.record.supersedes # None => Published(p)
  BY DEF ReviewIsKept
<1>1. \A s \in Session : ~Approving(s, p)
  BY Reviewing DEF Approving, At
<1>2. ASSUME proposals[p].status = "REJECTED", proposals[p].id \in Saved
      PROVE  p \in halted
  BY <1>1, <1>2 DEF IInv, Carried
<1>3. ASSUME proposals[p].status = "REJECTED", proposals[p].id \in Active
      PROVE  proposals[p].record.supersedes = None
  <2>1. ~Published(p) /\ proposals[p].id \in Saved /\ ~Hidden(proposals[p].id)
    BY <1>3 DEF IInv, Decided, Active
  <2>2. \A e \in lifecycle : e.succ # proposals[p].id
    BY <2>1, OwnId DEF IInv, Carried, Published
  <2>3. records[proposals[p].id].supersedes = proposals[p].record.supersedes
    BY <2>1 DEF IInv, Carried
  <2> QED
    BY <2>1, <2>2, <2>3 DEF Hidden
<1> QED
  BY <1>2, <1>3 DEF IInv, Decided

\* However many callers propose, review, revalidate and stop between any two files: memory
\* can be listed, predecessors are what was reviewed, what is approved is saved and shown, and
\* what is rejected is neither, but for the record of an approval that stopped before.
THEOREM MemoryStaysReadable == Spec => []MemoryInv
<1>1. IInv => MemoryInv
  BY ReviewsAreKept DEF IInv, Types, MemoryInv
<1> QED
  BY <1>1, MemoryInvariant, PTL

\* At most one element makes at most one.
LEMMA AtMostOne ==
  ASSUME NEW S, \A a, b \in S : a = b
  PROVE  Cardinality(S) <= 1
<1>1. CASE S = {}
  BY <1>1, FS_EmptySet
<1>2. CASE S # {}
  <2>1. PICK a : a \in S
    BY <1>2
  <2>2. S = {a}
    BY <2>1
  <2> QED
    BY <2>2, FS_Singleton
<1> QED
  BY <1>1, <1>2

\* An identity belongs to one draft or proposal, a task to one proposal, although drafts are
\* made in one call and proposed in another, and curators repeat themselves.
THEOREM NothingIsProposedTwice == Spec => []ProposedOnce
<1>1. IInv => ProposedOnce
  <2> SUFFICES ASSUME IInv PROVE ProposedOnce
    OBVIOUS
  <2>1. ASSUME NEW i \in Id
        PROVE  Cardinality({p \in Filed : proposals[p].id = i /\ proposals[p].place # "directory"}
                           \union {s \in Session : call[s].at = "draft" /\ call[s].id = i}) <= 1
    <3> DEFINE P == {p \in Filed : proposals[p].id = i /\ proposals[p].place # "directory"}
               D == {s \in Session : call[s].at = "draft" /\ call[s].id = i}
    <3>1. \A p, q \in P : p = q
      BY DEF IInv, Reservations
    <3>2. \A s, t \in D : s = t
      BY DEF IInv, Reservations, At
    <3>3. P = {} \/ D = {}
      BY DEF IInv, CallOf, DraftOf, At
    <3> HIDE DEF P, D
    <3>4. \A a, b \in P \union D : a = b
      BY <3>1, <3>2, <3>3
    <3>5. Cardinality(P \union D) <= 1
      BY <3>4, AtMostOne
    <3> QED
      BY <3>5 DEF P, D
  <2> QED
    BY <2>1 DEF IInv, ProposedOnce, IdentityIsUnique
<1> QED
  BY <1>1, MemoryInvariant, PTL

\* Knowledge is replaced, never lost: nothing but a published successor takes a record out
\* of active memory, and it enters in the same step.
THEOREM KnowledgeIsReplaced == Spec => ActiveIsReplaced
<1>1. IInv /\ [Next]_vars =>
        [\A i \in Active \ Active' :
             \E j \in Active' \ Active : records'[j].supersedes = i]_vars
  <2> SUFFICES ASSUME IInv, Next
               PROVE  \A i \in Active \ Active' :
                          \E j \in Active' \ Active : records'[j].supersedes = i
    OBVIOUS
  <2>1. ASSUME NEW s \in Session, Publish(s)
        PROVE  \A i \in Active \ Active' :
                   \E j \in Active' \ Active : records'[j].supersedes = i
    BY <2>1, PublishReplaces
  <2>2. ASSUME UNCHANGED <<records, lifecycle>> PROVE Active' = Active
    BY <2>2 DEF Active, Saved, Superseded, Hidden
  <2>3. ASSUME NEW s \in Session, SaveRecord(s) PROVE Active \subseteq Active'
    <3>1. PICK p \in Filed : p = call[s].proposal
      BY <2>3, Reviewing DEF SaveRecord, At
    <3>2. /\ records[proposals[p].id] \in {NoRecord, proposals[p].record}
          /\ records' = [records EXCEPT ![proposals[p].id] = proposals[p].record]
          /\ lifecycle' = lifecycle
      BY <2>3, <3>1 DEF SaveRecord
    <3>3. \A i \in Saved : i \in Saved' /\ records'[i] = records[i]
      BY <3>2, Here, FiledIs, MarkAssumption DEF Saved, IInv, Types, TypeOK, NoRecord
    <3> QED
      BY <3>2, <3>3, ActiveGrows DEF RecordsGrow
  <2>4. ASSUME NEW s \in Session, NEW i \in Id, Revalidate(s, i) PROVE Active \subseteq Active'
    <3>1. /\ records' = [records EXCEPT ![i].verified = source] /\ lifecycle' = lifecycle
          /\ i \in Active
      BY <2>4 DEF Revalidate
    <3>2. i \in Saved /\ records[i] \in Record /\ ~Superseded(i) /\ source \in 0..MaxSource
      BY <3>1, SavedIs DEF Active, IInv, Types, TypeOK
    <3>3. /\ [records[i] EXCEPT !.verified = source] \in Record
          /\ [records[i] EXCEPT !.verified = source].supersedes = records[i].supersedes
      BY <3>2 DEF Record
    <3>4. RecordsGrow
      BY <3>1, <3>2, <3>3, MarkAssumption DEF RecordsGrow, Saved, IInv, Types, TypeOK, NoRecord
    <3> QED
      BY <3>1, <3>4, ActiveGrows
  <2>5. \/ \E s \in Session : Publish(s) \/ SaveRecord(s) \/ \E i \in Id : Revalidate(s, i)
        \/ UNCHANGED <<records, lifecycle>>
    BY DEF Next, NewRecord, WriteProposal, WriteReview, MoveProposal, Stop, ProposeOutcome,
           Propose, BeginReview, SourceChanges, files
  <2> QED
    BY <2>1, <2>2, <2>3, <2>4, <2>5
<1> QED
  BY <1>1, MemoryInvariant, PTL DEF Spec, ActiveIsReplaced

=============================================================================
