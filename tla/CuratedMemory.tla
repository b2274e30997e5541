--------------------------- MODULE CuratedMemory ---------------------------
(***************************************************************************)
(* Durable project memory: records proposed, reviewed, superseded and      *)
(* revalidated by operators and agents of several processes.  Every file   *)
(* is replaced atomically, but a review writes four of them, and its       *)
(* process may stop between any two.                                       *)
(***************************************************************************)
EXTENDS Naturals, FiniteSets

CONSTANTS
    Session,        \* callers of the store, each in one call at a time
    Id, Proposal,   \* identities of records and of proposals that may be allocated
    Task,           \* Task Capsules whose outcome is proposed
    AutoApprove,    \* whether the policy of the project approves what is proposed
    MaxSource,      \* bound: how often the sources of a record change
    None

ASSUME MemoryAssumption ==
    /\ MaxSource \in Nat
    /\ AutoApprove \in BOOLEAN
    /\ None \notin Session \union Id \union Proposal \union Task

VARIABLES
    records,        \* memory/records
    lifecycle,      \* memory/lifecycle.json, its transitions
    proposals,      \* memory/staging and memory/history
    reserved,       \* runtime/sessions/memory-ids
    call,           \* what each session is doing
    lock,           \* the session that holds the memory lock
    source,         \* version of the repository that records were verified against
    halted          \* for the properties: saved by an approval that stopped before its decision

files == <<records, lifecycle, proposals, reserved>>
vars == <<files, call, lock, source, halted>>

Record == [supersedes : Id \union {None}, verified : 0..MaxSource]
NoRecord == None
Transition == [pred : Id, succ : Id, proposal : Proposal, digest : Record]

Staged == {"directory", "staging"}
Document ==
    [place : Staged \union {"history"}, status : {"PENDING", "APPROVED", "REJECTED"},
     id : Id, record : Record, digest : Record \union {NoRecord}, task : Task \union {None}]
NoDocument == None

ASSUME MarkAssumption == None \notin Record /\ None \notin Document

Idle == [at |-> "idle"]

Init ==
    /\ records = [i \in Id |-> NoRecord]
    /\ lifecycle = {}
    /\ proposals = [p \in Proposal |-> NoDocument]
    /\ reserved = {}
    /\ call = [s \in Session |-> Idle]
    /\ lock = None
    /\ source = 0
    /\ halted = {}

-----------------------------------------------------------------------------
(* Reading the store. *)

Saved == {i \in Id : records[i] # NoRecord}
Filed == {p \in Proposal : proposals[p] # NoDocument}

\* Proposals with a document: a directory made just before a crash has none.
Written == {p \in Filed : proposals[p].place # "directory"}

Superseded(i) == \E e \in lifecycle : e.pred = i

\* Variant: a successor is active as soon as its record is written.
NeverHidden(i) == FALSE

\* A successor is hidden until its transition is published.
Hidden(i) ==
    /\ records[i].supersedes # None
    /\ \A e \in lifecycle : ~(e.pred = records[i].supersedes /\ e.succ = i)

Active == {i \in Saved : ~Superseded(i) /\ ~Hidden(i)}

\* Variant: identities of drafts are not reserved.
UnreservedIds == Id \ (Saved \union {proposals[p].id : p \in Written})

FreeIds == Id \ (Saved \union reserved \union {proposals[p].id : p \in Written})
FreeProposals == Proposal \ Filed

Published(p) == \E e \in lifecycle : e.proposal = p

\* What the document of transitions is validated against whenever it is read or written.
ValidTransitions(T) ==
    /\ \A d, e \in T : d # e => d.pred # e.pred /\ d.succ # e.succ
    /\ \A S \in SUBSET T : S # {} => {e.pred : e \in S} # {e.succ : e \in S}

-----------------------------------------------------------------------------
(* Calls.  Whoever holds the memory lock may go on; a draft is kept outside it. *)

MayEnter(s) == lock \in {None, s}

Enter(s, c) ==
    /\ lock' = s
    /\ call' = [call EXCEPT ![s] = c]

Leave(s) ==
    /\ lock' = None
    /\ call' = [call EXCEPT ![s] = Idle]

\* new_record: the identity is reserved in a call of its own.
NewRecord(s) ==
    /\ call[s] = Idle
    /\ MayEnter(s)
    /\ \E i \in FreeIds :
        /\ reserved' = reserved \union {i}
        /\ call' = [call EXCEPT ![s] = [at |-> "draft", id |-> i, verified |-> source,
                                        task |-> None]]
    /\ UNCHANGED <<records, lifecycle, proposals, lock, source, halted>>

\* propose_task_outcome: once per task, and all of it with the lock held.
ProposeOutcome(s, t) ==
    /\ call[s] = Idle
    /\ MayEnter(s)
    /\ \A p \in Written : proposals[p].task # t
    /\ \E i \in FreeIds :
        /\ reserved' = reserved \union {i}
        /\ Enter(s, [at |-> "draft", id |-> i, verified |-> source, task |-> t])
    /\ UNCHANGED <<records, lifecycle, proposals, source, halted>>

\* propose: checks, then the directory of the proposal is made.
Propose(s, pred) ==
    LET c == call[s]
        record == [supersedes |-> pred, verified |-> c.verified]
    IN  /\ c.at = "draft"
        /\ MayEnter(s)
        /\ c.task # None => pred = None
        /\ pred # None => pred # c.id /\ pred \in Active
        /\ c.id \notin Saved
        /\ \A p \in Written : proposals[p].id # c.id
        /\ \E p \in FreeProposals :
            /\ proposals' = [proposals EXCEPT ![p] =
                   [place |-> "directory", status |-> "PENDING", id |-> c.id,
                    record |-> record, task |-> c.task,
                    digest |-> IF pred = None THEN NoRecord ELSE records[pred]]]
            /\ Enter(s, [at |-> "stage", proposal |-> p])
        /\ UNCHANGED <<records, lifecycle, reserved, source, halted>>

\* The document makes the proposal exist; under the auto policy its approval follows,
\* for a task outcome with the lock still held.
WriteProposal(s) ==
    LET c == call[s]
    IN  /\ c.at = "stage"
        /\ proposals' = [proposals EXCEPT ![c.proposal].place = "staging"]
        /\ call' = [call EXCEPT ![s] = IF AutoApprove THEN [at |-> "auto", proposal |-> c.proposal]
                                               ELSE Idle]
        /\ lock' = IF AutoApprove /\ proposals[c.proposal].task # None THEN s ELSE None
        /\ UNCHANGED <<records, lifecycle, reserved, source, halted>>

\* The checks of _review on a proposal that is still staged.
Reviewable(p, approved) ==
    LET d == proposals[p]
    IN  /\ d.place = "staging"
        /\ d.status \in {"PENDING", IF approved THEN "APPROVED" ELSE "REJECTED"}
        /\ Published(p) => approved
        /\ (approved /\ d.record.supersedes # None /\ ~Published(p)) =>
               /\ d.record.supersedes \in Active
               /\ d.digest = records[d.record.supersedes]

BeginReview(s, p, approved) ==
    /\ \/ call[s] = Idle
       \/ call[s] = [at |-> "auto", proposal |-> p] /\ approved
    /\ MayEnter(s)
    /\ p \in Written
    /\ Reviewable(p, approved)
    /\ Enter(s, [at |-> IF approved THEN "save" ELSE "review", proposal |-> p,
                 approved |-> approved])
    /\ UNCHANGED <<records, lifecycle, proposals, reserved, source, halted>>

\* Variant: the transition is published before the record is written.
SaveAfterPublish(s) ==
    LET c == call[s]
        d == proposals[c.proposal]
        supersedes == d.record.supersedes # None
    IN  /\ c.at = "save"
        /\ records' = IF supersedes THEN records ELSE [records EXCEPT ![d.id] = d.record]
        /\ call' = [call EXCEPT ![s].at = IF supersedes THEN "publish" ELSE "review"]
        /\ UNCHANGED <<lifecycle, proposals, reserved, lock, source, halted>>

\* save: a record that is already there must be the proposed one.
SaveRecord(s) ==
    LET c == call[s]
        d == proposals[c.proposal]
    IN  /\ c.at = "save"
        /\ records[d.id] \in {NoRecord, d.record}
        /\ records' = [records EXCEPT ![d.id] = d.record]
        /\ call' = [call EXCEPT ![s].at =
                        IF d.record.supersedes # None /\ ~Published(c.proposal)
                        THEN "publish" ELSE "review"]
        /\ UNCHANGED <<lifecycle, proposals, reserved, lock, source, halted>>

Publish(s) ==
    LET c == call[s]
        d == proposals[c.proposal]
        T == lifecycle \union {[pred |-> d.record.supersedes, succ |-> d.id,
                                proposal |-> c.proposal, digest |-> d.digest]}
    IN  /\ c.at = "publish"
        /\ ValidTransitions(T)
        /\ lifecycle' = T
        /\ call' = [call EXCEPT ![s].at = "review"]
        /\ UNCHANGED <<records, proposals, reserved, lock, source, halted>>

WriteReview(s) ==
    LET c == call[s]
    IN  /\ c.at = "review"
        /\ proposals' = [proposals EXCEPT ![c.proposal].status =
                             IF c.approved THEN "APPROVED" ELSE "REJECTED"]
        /\ call' = [call EXCEPT ![s].at = "move"]
        /\ halted' = IF c.approved THEN halted \ {c.proposal} ELSE halted
        /\ UNCHANGED <<records, lifecycle, reserved, lock, source>>

MoveProposal(s) ==
    /\ call[s].at = "move"
    /\ proposals' = [proposals EXCEPT ![call[s].proposal].place = "history"]
    /\ Leave(s)
    /\ UNCHANGED <<records, lifecycle, reserved, source, halted>>

\* revalidate: a stale active record is verified against the sources of now.
Revalidate(s, i) ==
    /\ call[s] = Idle
    /\ MayEnter(s)
    /\ i \in Active
    /\ records[i].verified # source
    /\ records' = [records EXCEPT ![i].verified = source]
    /\ UNCHANGED <<lifecycle, proposals, reserved, call, lock, source, halted>>

\* A conflict, an error of the file system, or the death of the process ends a call; a
\* draft or an automatic approval may also just be dropped.  The lock is released.
Stop(s) ==
    /\ call[s] # Idle
    /\ call' = [call EXCEPT ![s] = Idle]
    /\ lock' = IF lock = s THEN None ELSE lock
    /\ halted' = IF call[s].at \in {"publish", "review"} /\ call[s].approved
                 THEN halted \union {call[s].proposal} ELSE halted
    /\ UNCHANGED <<files, source>>

SourceChanges ==
    /\ source < MaxSource
    /\ source' = source + 1
    /\ UNCHANGED <<records, lifecycle, proposals, reserved, call, lock, halted>>

Next ==
    \/ \E s \in Session :
        \/ NewRecord(s) \/ WriteProposal(s) \/ SaveRecord(s) \/ Publish(s)
        \/ WriteReview(s) \/ MoveProposal(s) \/ Stop(s)
        \/ \E t \in Task : ProposeOutcome(s, t)
        \/ \E pred \in Id \union {None} : Propose(s, pred)
        \/ \E p \in Proposal, approved \in BOOLEAN : BeginReview(s, p, approved)
        \/ \E i \in Id : Revalidate(s, i)
    \/ SourceChanges

Spec == Init /\ [][Next]_vars

-----------------------------------------------------------------------------
(* Properties. *)

TypeOK ==
    /\ records \in [Id -> Record \union {NoRecord}]
    /\ lifecycle \subseteq Transition
    /\ proposals \in [Proposal -> Document \union {NoDocument}]
    /\ reserved \subseteq Id
    /\ lock \in Session \union {None}
    /\ source \in 0..MaxSource
    /\ halted \subseteq Proposal

\* Active memory can always be listed: `list` refuses all of it when a transition names a
\* missing record, disagrees with its successor, or competes with another, and no
\* interruption or interleaving of reviews leaves such a transition behind.
MemoryIsReadable ==
    /\ ValidTransitions(lifecycle)
    /\ \A e \in lifecycle :
        /\ {e.pred, e.succ} \subseteq Saved
        /\ records[e.succ].supersedes = e.pred

\* A superseded record stays what it was when its successor was proposed and reviewed.
PredecessorIsReviewed == \A e \in lifecycle : records[e.pred] = e.digest

\* A proposal in the history was decided: an approved record is saved and its transition
\* published.  A rejected one never replaces another, and is not even saved, unless an approval
\* before it stopped after `self.save`: nothing takes that record back.  Such a record stays
\* hidden when it has a predecessor; when it has none it is active although it was rejected.
ReviewIsKept ==
    \A p \in Filed : proposals[p].place = "history" =>
        LET d == proposals[p]
        IN  /\ d.status # "PENDING"
            /\ d.status = "REJECTED" =>
                /\ ~Published(p)
                /\ d.id \in Saved => p \in halted
                /\ d.id \in Active => d.record.supersedes = None
            /\ d.status = "APPROVED" =>
                /\ d.id \in Saved
                /\ d.record.supersedes # None => Published(p)

\* An identity is given once, to a draft or to a proposal, although drafts are made in one
\* call and proposed in another.
IdentityIsUnique ==
    LET Owners(i) ==
            {p \in Filed : proposals[p].id = i /\ proposals[p].place # "directory"}
              \union {s \in Session : call[s].at = "draft" /\ call[s].id = i}
    IN  \A i \in Id : Cardinality(Owners(i)) <= 1

\* The curator may be interrupted and repeat itself; a task has one proposed outcome.
OneOutcomePerTask ==
    \A p, q \in Written : proposals[p].task = proposals[q].task /\ proposals[p].task # None
                              => p = q

\* Knowledge is replaced, never lost: a record leaves active memory only in the step in
\* which its reviewed successor enters it.
ActiveIsReplaced ==
    [][\A i \in Active \ Active' :
          \E j \in Active' \ Active : records'[j].supersedes = i]_vars

\* The files of durable memory fit each other, whatever review or revalidation stopped
\* between two of them: memory can be listed, superseded records are what was reviewed, and
\* decisions were carried out, with the exception that ReviewIsKept names.
MemoryInv == TypeOK /\ MemoryIsReadable /\ PredecessorIsReviewed /\ ReviewIsKept

\* Nothing is proposed twice: neither an identity by two callers, nor the outcome of a task
\* by a curator that repeats itself.
ProposedOnce == IdentityIsUnique /\ OneOutcomePerTask
=============================================================================
