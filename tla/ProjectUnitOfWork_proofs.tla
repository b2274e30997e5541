---------------------- MODULE ProjectUnitOfWork_proofs ----------------------
(* Machine-checked proofs about ProjectUnitOfWork: the stores agree, what is committed is
   kept, and no units of work wait for each other in a circle.  EventStream begins where a
   unit of work has committed its events: what a console shows of them is gapless and never
   goes back. *)
EXTENDS ProjectUnitOfWork, EventStream, FiniteSetTheorems, TLAPS

(* The invariant. *)

Busy(s) == call[s] # Idle
Copy(s, r) == call[s].cache[r]

\* What the locks allow: only the lock of its own run, none of a run while it waits for the
\* lease of identities, and not the lease of memory with identities still to look for.
LocksOf(s) ==
    /\ \A r \in Run : stateLock[r] = s => Busy(s) /\ r = Target(s) /\ ~At(s, "lease")
    /\ identityLock = s => Busy(s) /\ ~At(s, "lease")
    /\ memoryLock = s => Busy(s) /\ call[s].at \notin {"lease", "relock", "scan"}
    /\ call[s].at \in {"relock", "scan"} => identityLock = s

\* A unit of work that has, or will take again, the lock of its run has read it, and
\* commits what it has read; what it is to scan or list is there.
WorkOf(s) ==
    Busy(s) =>
        /\ call[s].dirty =>
               IF call[s].at \in {"lease", "relock"} THEN call[s].keeps
                                                     ELSE stateLock[Target(s)] = s
        /\ stateLock[Target(s)] = s => Target(s) \in Cached(s)
        /\ call[s].at \in {"lease", "relock"} /\ call[s].keeps => Target(s) \in Cached(s)
        /\ At(s, "relock") => call[s].keeps
        /\ call[s].at \in {"index", "listed", "memory", "done"} =>
               Target(s) \in Cached(s) /\ Copy(s, Target(s)).generation # 0
        /\ call[s].at \in {"scan", "listed"} => call[s].todo \subseteq Committed
        /\ call[s].at \in {"lease", "relock", "scan"} => call[s].identity \in Identity

\* A copy is of the generation it says, or older than what is committed now; only the lease
\* lets it have identities that are not committed.
CopyOf(s, r) ==
    /\ Copy(s, r).generation = 0 => r = Target(s) /\ capsule[r] = Reserved
    /\ Copy(s, r).generation # 0 =>
           r \in Committed /\ Copy(s, r).generation <= capsule[r].generation
    /\ Copy(s, r).generation # 0 /\ Copy(s, r).generation = capsule[r].generation =>
           capsule[r].identities \subseteq Copy(s, r).identities
    /\ r # Target(s) \/ identityLock # s \/ At(s, "relock") =>
           \A i \in Copy(s, r).identities :
               Copy(s, r).generation # 0 /\ i \in capsule[r].identities

CopiesOf(s) == Busy(s) => \A r \in Cached(s) : CopyOf(s, r)

\* While a unit of work has the lease, what it has seen of the identities of other runs, and
\* what it has still to see, is all there is.
LeaseOf(s) ==
    Busy(s) /\ identityLock = s /\ call[s].at \in {"open", "scan"} =>
        \A q \in Committed \ {Target(s)} :
            /\ q \in Cached(s) => Copy(s, q).identities = capsule[q].identities
            /\ q \notin Cached(s) => q \in call[s].todo \/ capsule[q].identities = {}
            /\ Target(s) \in Cached(s) =>
                   Copy(s, Target(s)).identities \intersect capsule[q].identities = {}

Creates(s) == Busy(s) /\ Target(s) \in Cached(s) /\ Copy(s, Target(s)).generation = 0

\* A directory is reserved by one unit of work.
OneCreator == \A s, t \in Session : Creates(s) /\ Creates(t) /\ Target(s) = Target(t) => s = t

Types ==
    /\ capsule \in [Run -> Aggregate \union {Absent, Reserved}]
    /\ \A r \in Committed : capsule[r].generation # 0
    /\ index \in SUBSET Committed
    /\ memory \in [Run -> 0..MaxGeneration]
    /\ call \in [Session -> Call \union {Idle}]
    /\ stateLock \in [Run -> Session \union {None}]
    /\ identityLock \in Session \union {None} /\ memoryLock \in Session \union {None}

SessionInv(s) == LocksOf(s) /\ WorkOf(s) /\ CopiesOf(s) /\ LeaseOf(s)

IInv ==
    /\ Types /\ IdentityHasOneRun /\ MemoryFollowsTasks /\ OneCreator
    /\ \A s \in Session : SessionInv(s)

-----------------------------------------------------------------------------
(* What the types say of a unit of work and a run. *)

\* A unit of work that is not idle has a run, copies and a place in its call.
LEMMA BusyIs ==
  ASSUME Types, NEW s \in Session
  PROVE  /\ Busy(s) => /\ call[s] \in Call /\ call[s].at \in Places /\ Target(s) \in Run
                       /\ call[s].cache \in [Run -> Aggregate \union {None}]
                       /\ Cached(s) \subseteq Run
                       /\ call[s].todo \in SUBSET Run
                       /\ call[s].dirty \in BOOLEAN /\ call[s].keeps \in BOOLEAN
                       /\ call[s].identity \in Identity \union {None}
         /\ ~Busy(s) <=> At(s, "idle")
         /\ Idle \notin Call
BY DEF Types, Busy, Call, Idle, Places, Target, Cached, At

\* A copy, and a committed run, have a generation and identities.
LEMMA CopyIs ==
  ASSUME Types, NEW s \in Session, Busy(s), NEW r \in Cached(s)
  PROVE  /\ r \in Run /\ Copy(s, r) \in Aggregate
         /\ Copy(s, r).generation \in 0..MaxGeneration
         /\ Copy(s, r).identities \in SUBSET Identity
<1>1. call[s].cache \in [Run -> Aggregate \union {None}] /\ r \in Run /\ call[s].cache[r] # None
  BY BusyIs DEF Cached
<1> QED
  BY <1>1 DEF Copy, Aggregate

\* What is on disk of a committed run.
LEMMA CommittedIs ==
  ASSUME Types, NEW r \in Committed
  PROVE  /\ r \in Run /\ capsule[r] \in Aggregate
         /\ capsule[r].generation \in 1..MaxGeneration
         /\ capsule[r].identities \in SUBSET Identity
         /\ capsule[r] # Absent /\ capsule[r] # Reserved
<1>1. r \in Run /\ capsule[r] \notin {Absent, Reserved}
  BY DEF Committed
<1>2. capsule[r] \in Aggregate /\ capsule[r].generation # 0
  BY <1>1 DEF Types
<1> QED
  BY <1>1, <1>2, UnitOfWorkAssumption DEF Aggregate

\* The index is only taken when it lists what is committed.
LEMMA EntriesAre ==
  ASSUME Types
  PROVE  Entries = Committed /\ Committed \subseteq Directories /\ Committed \subseteq Run
BY DEF Types, Entries, Committed, Directories

-----------------------------------------------------------------------------
(* A unit of work that a step leaves alone. *)

\* The step of s neither changes the call of t nor takes or gives back its locks.
Untouched(s) ==
    \A t \in Session \ {s} :
        /\ call'[t] = call[t]
        /\ \A r \in Run : stateLock'[r] = t <=> stateLock[r] = t
        /\ identityLock' = t <=> identityLock = t
        /\ memoryLock' = t <=> memoryLock = t

\* Runs grow by commits only.
Grown ==
    \A r \in Committed :
        /\ r \in Committed'
        /\ \/ capsule'[r] = capsule[r]
           \/ /\ capsule'[r].generation \in Nat
              /\ capsule'[r].generation > capsule[r].generation
              /\ capsule[r].identities \subseteq capsule'[r].identities

\* Without the lease no identity is committed that was not.
NoneNew ==
    /\ \A q \in Committed : capsule'[q].identities = capsule[q].identities
    /\ \A q \in Committed' \ Committed : capsule'[q].identities = {}

\* Locks, and what is staged under them, are as they were for everybody else.
LEMMA OtherLocks ==
  ASSUME NEW s \in Session, NEW t \in Session \ {s}, Untouched(s), LocksOf(t)
  PROVE  LocksOf(t)'
BY DEF Untouched, LocksOf, Busy, Target, At

\* Runs that were committed stay so: what another has to do remains possible.
LEMMA OtherWork ==
  ASSUME Types, NEW s \in Session, NEW t \in Session \ {s}, Untouched(s), Grown, WorkOf(t)
  PROVE  WorkOf(t)'
<1>1. Busy(t) => Target(t) \in Run
  BY BusyIs
<1>2. Committed \subseteq Committed'
  BY DEF Grown
<1>3. /\ Busy(t)' = Busy(t) /\ call'[t] = call[t] /\ Target(t)' = Target(t)
      /\ Cached(t)' = Cached(t)
      /\ Busy(t) => (stateLock'[Target(t)] = t <=> stateLock[Target(t)] = t)
  BY <1>1 DEF Untouched, Busy, Target, Cached
<1> QED
  BY <1>2, <1>3 DEF WorkOf, At, Copy

\* Copies others have read stay true of what they were read from, or become older.
LEMMA OtherCopies ==
  ASSUME Types, NEW s \in Session, NEW t \in Session \ {s}, Untouched(s), Grown, CopiesOf(t),
         Creates(t) => capsule'[Target(t)] = capsule[Target(t)]
  PROVE  CopiesOf(t)'
<1>1. /\ Busy(t)' = Busy(t) /\ call'[t] = call[t] /\ Target(t)' = Target(t)
      /\ Cached(t)' = Cached(t) /\ (identityLock' = t <=> identityLock = t)
  BY DEF Untouched, Busy, Target, Cached
<1> SUFFICES ASSUME Busy(t), NEW r \in Cached(t) PROVE CopyOf(t, r)'
  BY <1>1 DEF CopiesOf
<1>2. CopyOf(t, r) /\ Copy(t, r)' = Copy(t, r) /\ At(t, "relock")' = At(t, "relock")
  BY <1>1 DEF CopiesOf, Copy, At
<1>3. CASE Copy(t, r).generation = 0
  <2>1. r = Target(t) /\ capsule[r] = Reserved /\ capsule'[r] = capsule[r]
    BY <1>2, <1>3 DEF CopyOf, Creates
  <2> QED
    BY <1>1, <1>2, <1>3, <2>1 DEF CopyOf
<1>4. CASE Copy(t, r).generation # 0
  <2>1. r \in Committed /\ Copy(t, r).generation <= capsule[r].generation /\ r \in Committed'
    BY <1>2, <1>4 DEF CopyOf, Grown
  <2>2. Copy(t, r).generation \in Nat /\ capsule[r].generation \in Nat
    BY <2>1, CopyIs, CommittedIs, UnitOfWorkAssumption
  <2>3. CASE capsule'[r] = capsule[r]
    BY <1>1, <1>2, <2>1, <2>3 DEF CopyOf
  <2>4. CASE /\ capsule'[r].generation \in Nat
             /\ capsule'[r].generation > capsule[r].generation
             /\ capsule[r].identities \subseteq capsule'[r].identities
    <3>1. Copy(t, r).generation < capsule'[r].generation
      BY <2>1, <2>2, <2>4
    <3>2. Copy(t, r).generation <= capsule'[r].generation
          /\ Copy(t, r).generation # capsule'[r].generation
      BY <3>1, <2>1, <2>2, <2>4
    <3> QED
      BY <1>1, <1>2, <1>4, <2>1, <2>4, <3>2 DEF CopyOf
  <2> QED
    BY <2>1, <2>3, <2>4 DEF Grown
<1> QED
  BY <1>3, <1>4

\* The holder of the lease misses nothing that others commit without it.
LEMMA OtherLease ==
  ASSUME Types, NEW s \in Session, NEW t \in Session \ {s}, Untouched(s), LeaseOf(t),
         CopiesOf(t), identityLock = t => NoneNew
  PROVE  LeaseOf(t)'
<1>1. /\ Busy(t)' = Busy(t) /\ call'[t] = call[t] /\ Target(t)' = Target(t)
      /\ Cached(t)' = Cached(t) /\ (identityLock' = t <=> identityLock = t)
  BY DEF Untouched, Busy, Target, Cached
<1> SUFFICES ASSUME Busy(t), identityLock = t, call[t].at \in {"open", "scan"},
                    NEW q \in Committed' \ {Target(t)}
             PROVE  /\ q \in Cached(t) => Copy(t, q).identities = capsule'[q].identities
                    /\ q \notin Cached(t) => q \in call[t].todo \/ capsule'[q].identities = {}
                    /\ Target(t) \in Cached(t) =>
                          Copy(t, Target(t)).identities \intersect capsule'[q].identities = {}
  BY <1>1 DEF LeaseOf, Copy
<1>2. CASE q \in Committed
  BY <1>2 DEF LeaseOf, NoneNew
<1>3. CASE q \notin Committed
  <2>1. capsule'[q].identities = {}
    BY <1>3 DEF NoneNew
  <2>2. q \notin Cached(t)
    BY <1>3 DEF CopiesOf, CopyOf
  <2> QED
    BY <2>1, <2>2
<1> QED
  BY <1>2, <1>3

\* All others, by what the step does to the runs.
LEMMA OthersKept ==
  ASSUME IInv, NEW s \in Session, Untouched(s), Grown,
         \A t \in Session \ {s} : /\ Creates(t) => capsule'[Target(t)] = capsule[Target(t)]
                                  /\ identityLock = t => NoneNew
  PROVE  \A t \in Session \ {s} : SessionInv(t)'
BY OtherLocks, OtherWork, OtherCopies, OtherLease DEF IInv, SessionInv

\* A step that changes no run.
LEMMA NothingCommitted ==
  ASSUME capsule' = capsule
  PROVE  Grown /\ NoneNew /\ Committed' = Committed /\ Directories' = Directories
BY DEF Grown, NoneNew, Committed, Directories

\* No second creator of the same run appears.
LEMMA CreatorStays ==
  ASSUME IInv, NEW s \in Session, Untouched(s),
         Creates(s)' => \A t \in Session \ {s} : Creates(t) => Target(t) # Target(s)'
  PROVE  OneCreator'
<1>1. \A t \in Session \ {s} : Creates(t)' = Creates(t) /\ Target(t)' = Target(t)
  BY DEF Untouched, Creates, Busy, Target, Cached, Copy
<1> QED
  BY <1>1 DEF IInv, OneCreator

\* A step that writes nothing to disk keeps the invariant when it keeps its own session's.
LEMMA OwnStep ==
  ASSUME IInv, NEW s \in Session, UNCHANGED <<capsule, index, memory>>, Untouched(s),
         NEW c \in Call, call' = [call EXCEPT ![s] = c],
         stateLock' \in [Run -> Session \union {None}],
         identityLock' \in Session \union {None}, memoryLock' \in Session \union {None},
         SessionInv(s)',
         Creates(s)' => Creates(s) /\ Target(s)' = Target(s)
  PROVE  IInv'
<1>1. \A t \in Session \ {s} : SessionInv(t)'
  BY NothingCommitted, OthersKept
<1>2. Types'
  BY NothingCommitted DEF IInv, Types
<1>3. IdentityHasOneRun' /\ MemoryFollowsTasks'
  BY DEF IInv, IdentityHasOneRun, MemoryFollowsTasks, Committed
<1>4. OneCreator'
  <2>1. Creates(s) => \A t \in Session \ {s} : Creates(t) => Target(t) # Target(s)
    BY DEF IInv, OneCreator
  <2> QED
    BY <2>1, CreatorStays
<1> QED
  BY <1>1, <1>2, <1>3, <1>4 DEF IInv

\* What a call that is under way has of the invariant.
LEMMA Here ==
  ASSUME IInv, NEW s \in Session, call[s].at # "idle"
  PROVE  /\ Types /\ Busy(s) /\ SessionInv(s)
         /\ call[s] \in Call /\ Target(s) \in Run /\ Cached(s) \subseteq Run
         /\ call[s].cache \in [Run -> Aggregate \union {None}]
         /\ call[s].todo \in SUBSET Run
         /\ call \in [Session -> Call \union {Idle}]
         /\ stateLock \in [Run -> Session \union {None}]
         /\ identityLock \in Session \union {None} /\ memoryLock \in Session \union {None}
         /\ s # None
BY BusyIs, UnitOfWorkAssumption DEF IInv, Busy, Idle, Types

-----------------------------------------------------------------------------
(* Steps that write nothing to disk. *)

\* A unit of work begins with no lock and nothing read.
LEMMA BeginInv == ASSUME IInv, NEW s \in Session, NEW r \in Run, Begin(s, r) PROVE IInv'
<1> DEFINE c == [at |-> "open", run |-> r, cache |-> [q \in Run |-> None], dirty |-> FALSE,
                 keeps |-> FALSE, todo |-> {}, identity |-> None]
<1>1. /\ call[s] = Idle /\ call' = [call EXCEPT ![s] = c]
      /\ UNCHANGED <<capsule, index, memory, stateLock, identityLock, memoryLock>>
  BY DEF Begin, Set, OnlyCalls, locks
<1>2. c \in Call
  BY DEF Call, Places
<1>3. Types /\ SessionInv(s) /\ ~Busy(s)
  BY <1>1 DEF IInv, Busy
<1>4. Untouched(s) /\ call'[s] = c
  BY <1>1, <1>3 DEF Untouched, Types
<1>a. /\ c.cache = [q \in Run |-> None] /\ c.run = r /\ c.at = "open"
      /\ c.dirty = FALSE /\ c # Idle
  BY <1>2, <1>3, BusyIs
<1> HIDE DEF c
<1>5. Cached(s)' = {} /\ Target(s)' = r /\ Busy(s)'
  BY <1>4, <1>a DEF Cached, Target, Busy
<1>6. (\A q \in Run : stateLock[q] # s) /\ identityLock # s /\ memoryLock # s
  BY <1>3 DEF SessionInv, LocksOf
<1>7. SessionInv(s)'
  BY <1>1, <1>4, <1>a, <1>5, <1>6 DEF SessionInv, LocksOf, WorkOf, CopiesOf, LeaseOf, At
<1>8. ~Creates(s)'
  BY <1>5 DEF Creates
<1> QED
  BY <1>1, <1>2, <1>3, <1>4, <1>7, <1>8, OwnStep DEF Types

\* A copy of what is committed is what CopyOf says.
LEMMA FreshCopy ==
  ASSUME IInv, NEW s \in Session, NEW r \in Committed,
         capsule' = capsule, call'[s].cache[r] = capsule[r]
  PROVE  CopyOf(s, r)'
<1>1. capsule[r].generation \in Nat /\ capsule[r].generation # 0
  BY CommittedIs, UnitOfWorkAssumption DEF IInv
<1> QED
  BY <1>1, NothingCommitted DEF CopyOf, Copy

\* A call that gets a copy of a run.
LEMMA NewCopy ==
  ASSUME Types, NEW s \in Session, Busy(s), NEW r \in Run, NEW v \in Aggregate,
         call'[s] \in Call, call'[s].run = call[s].run,
         call'[s].cache = [call[s].cache EXCEPT ![r] = v]
  PROVE  /\ Busy(s)' /\ Target(s)' = Target(s) /\ Cached(s)' = Cached(s) \union {r}
         /\ Copy(s, r)' = v /\ call'[s].cache[r] = v
         /\ \A q \in Run \ {r} : Copy(s, q)' = Copy(s, q)
<1>1. call'[s] # Idle /\ v # None
  BY BusyIs, MarksAssumption
<1>2. call[s].cache \in [Run -> Aggregate \union {None}]
  BY BusyIs
<1>3. call'[s].cache[r] = v /\ \A q \in Run \ {r} : call'[s].cache[q] = call[s].cache[q]
  BY <1>2
<1> QED
  BY <1>1, <1>3 DEF Busy, Target, Cached, Copy

\* Reading a committed run changes nothing else of the call.
LEMMA ReadOne ==
  ASSUME IInv, NEW s \in Session, call[s].at \in {"open", "scan"}, NEW r \in Committed,
         UNCHANGED <<capsule, locks>>, NEW c \in Call,
         call' = [call EXCEPT ![s] = c], c.cache = [call[s].cache EXCEPT ![r] = capsule[r]],
         c.run = call[s].run, c.at = call[s].at, c.dirty = call[s].dirty,
         c.keeps = call[s].keeps, c.identity = call[s].identity,
         c.todo \in {call[s].todo, call[s].todo \ {r}}
  PROVE  /\ SessionInv(s)' /\ Untouched(s)
         /\ Creates(s)' => Creates(s) /\ Target(s)' = Target(s)
<1>1. /\ Types /\ Busy(s) /\ SessionInv(s) /\ Target(s) \in Run /\ Cached(s) \subseteq Run
      /\ IdentityHasOneRun
  BY Here DEF IInv
<1>2. /\ r \in Run /\ capsule[r] \in Aggregate /\ capsule[r].generation # 0
  BY <1>1, CommittedIs
<1>3. /\ call'[s] = c /\ (\A t \in Session \ {s} : call'[t] = call[t])
      /\ Busy(s)' /\ Target(s)' = Target(s) /\ Cached(s)' = Cached(s) \union {r}
      /\ Copy(s, r)' = capsule[r] /\ call'[s].cache[r] = capsule[r]
      /\ \A q \in Run \ {r} : Copy(s, q)' = Copy(s, q)
  <2> DEFINE v == capsule[r]
  <2>0. call'[s] = c /\ (\A t \in Session \ {s} : call'[t] = call[t])
    BY <1>1 DEF Types
  <2>1. /\ v \in Aggregate /\ call'[s].cache = [call[s].cache EXCEPT ![r] = v] /\ r \in Run
        /\ call'[s] \in Call /\ call'[s].run = call[s].run
    BY <1>2, <2>0
  <2> HIDE DEF v
  <2>2. /\ Busy(s)' /\ Target(s)' = Target(s) /\ Cached(s)' = Cached(s) \union {r}
        /\ Copy(s, r)' = v /\ call'[s].cache[r] = v
        /\ \A q \in Run \ {r} : Copy(s, q)' = Copy(s, q)
    BY <1>1, <2>1, NewCopy
  <2> QED
    BY <2>0, <2>2 DEF v
<1>4. Committed' = Committed /\ CopyOf(s, r)'
  <2>1. capsule' = capsule
    OBVIOUS
  <2> QED
    BY <1>3, <2>1, FreshCopy, NothingCommitted
<1>5. LocksOf(s)'
  BY <1>1, <1>3 DEF SessionInv, LocksOf, At, locks
<1>6. WorkOf(s)'
  BY <1>1, <1>2, <1>3, <1>4 DEF SessionInv, WorkOf, At, locks
<1>7. CopiesOf(s)'
  <2> SUFFICES ASSUME NEW q \in Cached(s), q # r PROVE CopyOf(s, q)'
    BY <1>3, <1>4 DEF CopiesOf
  <2> QED
    BY <1>1, <1>3, <1>4 DEF SessionInv, CopiesOf, CopyOf, At, locks
<1>8. LeaseOf(s)'
  <2> SUFFICES ASSUME identityLock = s, NEW q \in Committed \ {Target(s)}
               PROVE  /\ q \in Cached(s) \union {r} => Copy(s, q)'.identities = capsule[q].identities
                      /\ q \notin Cached(s) \union {r} =>
                            q \in c.todo \/ capsule[q].identities = {}
                      /\ Target(s) \in Cached(s) \union {r} =>
                            Copy(s, Target(s))'.identities \intersect capsule[q].identities = {}
    BY <1>3, <1>4 DEF LeaseOf, locks, Copy
  <2>1. /\ q \in Cached(s) => Copy(s, q).identities = capsule[q].identities
        /\ q \notin Cached(s) => q \in call[s].todo \/ capsule[q].identities = {}
        /\ Target(s) \in Cached(s) =>
              Copy(s, Target(s)).identities \intersect capsule[q].identities = {}
    BY <1>1 DEF SessionInv, LeaseOf
  <2>2. q \in Run
    BY DEF Committed
  <2>3. q \in Cached(s) \union {r} => Copy(s, q)'.identities = capsule[q].identities
    BY <1>3, <2>1, <2>2
  <2>4. q \notin Cached(s) \union {r} => q \in c.todo \/ capsule[q].identities = {}
    BY <2>1
  <2>5. Target(s) \in Cached(s) \union {r} =>
            Copy(s, Target(s))'.identities \intersect capsule[q].identities = {}
    BY <1>1, <1>3, <2>1 DEF IdentityHasOneRun
  <2> QED
    BY <2>3, <2>4, <2>5
<1>9. Creates(s)' => Creates(s)
  BY <1>1, <1>2, <1>3 DEF Creates
<1> QED
  BY <1>3, <1>5, <1>6, <1>7, <1>8, <1>9 DEF SessionInv, Untouched, locks

\* A run that is read for its own sake may be the target or another.
LEMMA ReadInv == ASSUME IInv, NEW s \in Session, NEW r \in Run, Read(s, r) PROVE IInv'
<1> DEFINE c == [call[s] EXCEPT !.cache = [call[s].cache EXCEPT ![r] = capsule[r]]]
<1>1. /\ call[s].at = "open" /\ r \in Committed
      /\ call' = [call EXCEPT ![s].cache[r] = capsule[r]]
      /\ UNCHANGED <<capsule, index, memory, locks>>
  BY DEF Read, At, OnlyCalls
<1>2. /\ Types /\ call[s] \in Call /\ call[s].cache \in [Run -> Aggregate \union {None}]
      /\ capsule[r] \in Aggregate
  BY <1>1, Here, CommittedIs
<1>3. call' = [call EXCEPT ![s] = c] /\ c \in Call
  BY <1>1, <1>2 DEF Call
<1>4. /\ c.cache = [call[s].cache EXCEPT ![r] = capsule[r]] /\ c.run = call[s].run
      /\ c.at = call[s].at /\ c.dirty = call[s].dirty /\ c.keeps = call[s].keeps
      /\ c.todo = call[s].todo /\ c.identity = call[s].identity
  BY <1>2 DEF Call
<1> HIDE DEF c
<1>5. /\ SessionInv(s)' /\ Untouched(s)
      /\ Creates(s)' => Creates(s) /\ Target(s)' = Target(s)
  BY <1>1, <1>3, <1>4, ReadOne
<1> QED
  BY <1>1, <1>2, <1>3, <1>5, OwnStep DEF Types, locks

\* The scan for identities reads a run and ticks it off.
LEMMA ScanOneInv == ASSUME IInv, NEW s \in Session, NEW r \in Run, ScanOne(s, r) PROVE IInv'
<1> DEFINE c == [call[s] EXCEPT !.cache = [call[s].cache EXCEPT ![r] = capsule[r]],
                                !.todo = call[s].todo \ {r}]
<1>1. /\ call[s].at = "scan" /\ r \in call[s].todo
      /\ call' = [call EXCEPT ![s].cache[r] = capsule[r], ![s].todo = @ \ {r}]
      /\ UNCHANGED <<capsule, index, memory, locks>>
  BY DEF ScanOne, At, OnlyCalls
<1>a. r \in Committed
  BY <1>1, Here DEF SessionInv, WorkOf
<1>2. /\ Types /\ call[s] \in Call /\ call[s].cache \in [Run -> Aggregate \union {None}]
      /\ capsule[r] \in Aggregate /\ call[s].todo \in SUBSET Run
  BY <1>1, <1>a, Here, CommittedIs
<1>3. call' = [call EXCEPT ![s] = c] /\ c \in Call
  BY <1>1, <1>2 DEF Call
<1>4. /\ c.cache = [call[s].cache EXCEPT ![r] = capsule[r]] /\ c.run = call[s].run
      /\ c.at = call[s].at /\ c.dirty = call[s].dirty /\ c.keeps = call[s].keeps
      /\ c.todo = call[s].todo \ {r} /\ c.identity = call[s].identity
  BY <1>2 DEF Call
<1> HIDE DEF c
<1>5. /\ SessionInv(s)' /\ Untouched(s)
      /\ Creates(s)' => Creates(s) /\ Target(s)' = Target(s)
  BY <1>1, <1>a, <1>3, <1>4, ReadOne
<1> QED
  BY <1>1, <1>2, <1>3, <1>5, OwnStep DEF Types, locks

\* A call that keeps its copies.
LEMMA SameCopies ==
  ASSUME IInv, NEW s \in Session, call[s].at # "idle", capsule' = capsule,
         call'[s] \in Call, call'[s].run = call[s].run, call'[s].cache = call[s].cache,
         identityLock' # s \/ call'[s].at = "relock" =>
             identityLock # s \/ call[s].at = "relock"
  PROVE  /\ CopiesOf(s)' /\ Busy(s)' /\ Target(s)' = Target(s) /\ Cached(s)' = Cached(s)
         /\ \A r \in Run : Copy(s, r)' = Copy(s, r)
         /\ Creates(s)' => Creates(s)
<1>1. Busy(s) /\ Types /\ CopiesOf(s)
  BY Here DEF SessionInv
<1>2. Busy(s)' /\ Target(s)' = Target(s) /\ Cached(s)' = Cached(s)
  BY <1>1, BusyIs DEF Busy, Target, Cached
<1>3. \A r \in Run : Copy(s, r)' = Copy(s, r)
  BY DEF Copy
<1>4. Committed' = Committed
  BY NothingCommitted
<1>5. Cached(s) \subseteq Run
  BY <1>1, BusyIs
<1>6. CopiesOf(s)'
  BY <1>1, <1>2, <1>3, <1>4, <1>5 DEF CopiesOf, CopyOf, At
<1> QED
  BY <1>1, <1>2, <1>3, <1>5, <1>6 DEF Creates

\* The lease of memory is taken with the run's lock in hand, when nothing is left to scan.
LEMMA UseMemoryInv == ASSUME IInv, NEW s \in Session, UseMemory(s) PROVE IInv'
<1>1. /\ call[s].at = "open" /\ memoryLock = None /\ memoryLock' = s
      /\ UNCHANGED <<capsule, index, memory, call, stateLock, identityLock>>
  BY DEF UseMemory, At
<1>2. /\ Types /\ Busy(s) /\ SessionInv(s) /\ call[s] \in Call
      /\ call \in [Session -> Call \union {Idle}] /\ call' = [call EXCEPT ![s] = call[s]]
  BY <1>1, Here
<1>3. Untouched(s)
  BY <1>1, UnitOfWorkAssumption DEF Untouched
<1>4. /\ CopiesOf(s)' /\ Busy(s)' /\ Target(s)' = Target(s) /\ Cached(s)' = Cached(s)
      /\ Creates(s)' => Creates(s)
  BY <1>1, <1>2, SameCopies
<1>5. LocksOf(s)' /\ WorkOf(s)' /\ LeaseOf(s)'
  BY <1>1, <1>2, <1>4, NothingCommitted DEF SessionInv, LocksOf, WorkOf, LeaseOf, At, Copy
<1>6. SessionInv(s)'
  BY <1>4, <1>5 DEF SessionInv
<1> QED
  BY <1>1, <1>2, <1>3, <1>4, <1>6, OwnStep DEF Types

\* What is listed for the index is committed.
LEMMA ListTasksInv == ASSUME IInv, NEW s \in Session, ListTasks(s) PROVE IInv'
<1> DEFINE c == [call[s] EXCEPT !.at = "listed", !.todo = Committed]
<1>1. /\ call[s].at = "index" /\ call' = [call EXCEPT ![s].at = "listed", ![s].todo = Committed]
      /\ UNCHANGED <<capsule, index, memory, stateLock, identityLock, memoryLock>>
  BY DEF ListTasks, At, OnlyCalls, locks
<1>2. /\ Types /\ Busy(s) /\ SessionInv(s) /\ call[s] \in Call
      /\ call \in [Session -> Call \union {Idle}]
  BY <1>1, Here
<1>3. call' = [call EXCEPT ![s] = c] /\ c \in Call
  BY <1>1, <1>2 DEF Call, Places, Committed
<1>4. /\ c.at = "listed" /\ c.todo = Committed /\ c.run = call[s].run /\ c.cache = call[s].cache
      /\ c.dirty = call[s].dirty /\ c.keeps = call[s].keeps
  BY <1>2 DEF Call
<1> HIDE DEF c
<1>5. call'[s] = c /\ Untouched(s)
  BY <1>1, <1>2, <1>3 DEF Untouched
<1>6. /\ CopiesOf(s)' /\ Busy(s)' /\ Target(s)' = Target(s) /\ Cached(s)' = Cached(s)
      /\ \A r \in Run : Copy(s, r)' = Copy(s, r)
      /\ Creates(s)' => Creates(s)
  BY <1>1, <1>3, <1>4, <1>5, SameCopies
<1>7. LocksOf(s)' /\ WorkOf(s)' /\ LeaseOf(s)'
  BY <1>1, <1>2, <1>4, <1>5, <1>6, NothingCommitted, BusyIs
  DEF SessionInv, LocksOf, WorkOf, LeaseOf, At
<1>8. SessionInv(s)'
  BY <1>6, <1>7 DEF SessionInv
<1> QED
  BY <1>1, <1>2, <1>3, <1>5, <1>6, <1>8, OwnStep DEF Types

\* The locks of runs go before the lease of identities is waited for.
LEMMA AskIdentityInv ==
  ASSUME IInv, NEW s \in Session, NEW i \in Identity, AskIdentity(s, i)
  PROVE  IInv'
<1>1. /\ call[s].at = "open" /\ memoryLock # s
      /\ UNCHANGED <<capsule, index, memory, identityLock, memoryLock>>
  BY DEF AskIdentity, At
<1>2. /\ Types /\ Busy(s) /\ SessionInv(s) /\ call[s] \in Call /\ Target(s) \in Run
      /\ call \in [Session -> Call \union {Idle}]
      /\ stateLock \in [Run -> Session \union {None}]
  BY <1>1, Here
<1>3. CASE identityLock = s
  <2> DEFINE c == [call[s] EXCEPT !.at = "scan", !.todo = Entries \ Cached(s), !.identity = i]
  <2>1. call' = [call EXCEPT ![s] = c] /\ stateLock' = stateLock
    BY <1>3 DEF AskIdentity, Set
  <2>2. Entries \ Cached(s) \subseteq Committed /\ Committed \subseteq Run /\ Entries = Committed
    BY <1>2, EntriesAre
  <2>3. c \in Call
    BY <1>2, <2>2 DEF Call, Places
  <2>4. /\ c.at = "scan" /\ c.todo = Entries \ Cached(s) /\ c.run = call[s].run
        /\ c.cache = call[s].cache /\ c.dirty = call[s].dirty /\ c.keeps = call[s].keeps
        /\ c.identity = i
    BY <1>2 DEF Call
  <2> HIDE DEF c
  <2>5. call'[s] = c /\ Untouched(s)
    BY <1>1, <1>2, <2>1 DEF Untouched
  <2>6. /\ CopiesOf(s)' /\ Busy(s)' /\ Target(s)' = Target(s) /\ Cached(s)' = Cached(s)
        /\ \A r \in Run : Copy(s, r)' = Copy(s, r)
        /\ Creates(s)' => Creates(s)
    BY <1>1, <1>3, <2>3, <2>4, <2>5, SameCopies
  <2>7. LocksOf(s)' /\ WorkOf(s)'
    BY <1>1, <1>2, <1>3, <2>1, <2>2, <2>4, <2>5, <2>6, NothingCommitted
    DEF SessionInv, LocksOf, WorkOf, At
  <2>8. LeaseOf(s)'
    BY <1>1, <1>2, <1>3, <2>2, <2>4, <2>5, <2>6, NothingCommitted DEF SessionInv, LeaseOf
  <2>9. SessionInv(s)'
    BY <2>6, <2>7, <2>8 DEF SessionInv
  <2> QED
    BY <1>1, <1>2, <2>1, <2>3, <2>5, <2>6, <2>9, OwnStep DEF Types
<1>4. CASE identityLock # s
  <2> DEFINE c == [call[s] EXCEPT !.at = "lease", !.identity = i, !.keeps = Held(s) # {}]
  <2>1. call' = [call EXCEPT ![s] = c] /\ stateLock' = Without(s)
    BY <1>4 DEF AskIdentity, Set
  <2>2. c \in Call
    BY <1>2 DEF Call, Places
  <2>3. /\ c.at = "lease" /\ c.run = call[s].run /\ c.cache = call[s].cache
        /\ c.dirty = call[s].dirty /\ c.keeps = (Held(s) # {}) /\ c.identity = i
    BY <1>2 DEF Call
  <2> HIDE DEF c
  <2>4. /\ stateLock' \in [Run -> Session \union {None}]
        /\ \A r \in Run : stateLock'[r] # s
        /\ \A t \in Session \ {s}, r \in Run : stateLock'[r] = t <=> stateLock[r] = t
    BY <1>2, <2>1, UnitOfWorkAssumption DEF Without
  <2>5. call'[s] = c /\ Untouched(s)
    BY <1>1, <1>2, <2>1, <2>4 DEF Untouched
  <2>6. /\ CopiesOf(s)' /\ Busy(s)' /\ Target(s)' = Target(s) /\ Cached(s)' = Cached(s)
        /\ \A r \in Run : Copy(s, r)' = Copy(s, r)
        /\ Creates(s)' => Creates(s)
    BY <1>1, <1>4, <2>2, <2>3, <2>5, SameCopies
  <2>7. LocksOf(s)'
    BY <1>1, <1>2, <1>4, <2>3, <2>4, <2>5 DEF SessionInv, LocksOf, At
  <2>8. Held(s) # {} => stateLock[Target(s)] = s
    BY <1>2 DEF Held, SessionInv, LocksOf
  <2>9. stateLock[Target(s)] = s => Held(s) # {}
    BY <1>2 DEF Held
  <2>10. WorkOf(s)'
    BY <1>1, <1>2, <2>3, <2>4, <2>5, <2>6, <2>8, <2>9 DEF SessionInv, WorkOf, At
  <2>11. LeaseOf(s)'
    BY <2>3, <2>5 DEF LeaseOf
  <2>12. SessionInv(s)'
    BY <2>6, <2>7, <2>10, <2>11 DEF SessionInv
  <2> QED
    BY <1>1, <1>2, <2>1, <2>2, <2>4, <2>5, <2>6, <2>12, OwnStep DEF Types
<1> QED
  BY <1>3, <1>4

\* The run whose lock is kept over the wait for the lease.
Kept(s) == IF call[s].keeps THEN {Target(s)} ELSE {}

\* What is left of a call when the runs are discovered again under the lease.
LEMMA DiscoveryIs ==
  ASSUME Types, NEW s \in Session, Busy(s)
  PROVE  /\ Discovery(s) \in Call
         /\ Discovery(s).at = "scan" /\ Discovery(s).run = call[s].run
         /\ Discovery(s).todo = Committed \ Kept(s)
         /\ Discovery(s).dirty = call[s].dirty /\ Discovery(s).keeps = call[s].keeps
         /\ Discovery(s).identity = call[s].identity
         /\ Discovery(s).cache = [r \in Run |-> IF r \in Kept(s) THEN call[s].cache[r] ELSE None]
<1>1. /\ call[s] \in Call /\ call[s].cache \in [Run -> Aggregate \union {None}]
      /\ Entries = Committed /\ Committed \subseteq Run
  BY BusyIs, EntriesAre
<1> DEFINE m == [r \in Run |-> IF r \in Kept(s) THEN call[s].cache[r] ELSE None]
           d == [call[s] EXCEPT !.at = "scan", !.todo = Committed \ Kept(s), !.cache = m]
<1>2. Discovery(s) = d
  BY <1>1 DEF Discovery, Kept
<1>3. m \in [Run -> Aggregate \union {None}]
  BY <1>1
<1> HIDE DEF m
<1>4. d \in Call
  BY <1>1, <1>3 DEF Call, Places
<1>5. /\ d.at = "scan" /\ d.run = call[s].run /\ d.todo = Committed \ Kept(s)
      /\ d.dirty = call[s].dirty /\ d.keeps = call[s].keeps /\ d.cache = m
      /\ d.identity = call[s].identity
  BY <1>1 DEF Call
<1> QED
  BY <1>2, <1>4, <1>5 DEF m

\* The scan begins with the lease, and with nothing read but the run whose lock is kept.
LEMMA ScanBegins ==
  ASSUME IInv, NEW s \in Session, call[s].at \in {"lease", "relock"},
         UNCHANGED <<capsule, index, memory, memoryLock>>,
         identityLock' = s, identityLock \in {s, None}, call' = [call EXCEPT ![s] = Discovery(s)],
         \/ ~call[s].keeps /\ At(s, "lease") /\ stateLock' = stateLock
         \/ /\ call[s].keeps /\ At(s, "relock")
            /\ stateLock[Target(s)] \in {None, s} /\ stateLock' = With(s, Target(s))
  PROVE  IInv'
<1> DEFINE kept == Kept(s)
           d == Discovery(s)
<1>1. /\ Types /\ Busy(s) /\ SessionInv(s) /\ call[s] \in Call /\ Target(s) \in Run
      /\ call \in [Session -> Call \union {Idle}] /\ Cached(s) \subseteq Run
      /\ stateLock \in [Run -> Session \union {None}] /\ s # None
      /\ IdentityHasOneRun
  BY Here DEF IInv
<1>2. /\ d \in Call /\ d.at = "scan" /\ d.run = call[s].run /\ d.todo = Committed \ kept
      /\ d.dirty = call[s].dirty /\ d.keeps = call[s].keeps /\ d.identity = call[s].identity
      /\ d.cache = [r \in Run |-> IF r \in kept THEN call[s].cache[r] ELSE None]
  BY <1>1, DiscoveryIs
<1>a. kept = (IF call[s].keeps THEN {Target(s)} ELSE {}) /\ kept \subseteq Run
  BY <1>1 DEF Kept
<1>3. call' = [call EXCEPT ![s] = d]
  OBVIOUS
<1> HIDE DEF d, kept
<1>4. call'[s] = d /\ \A t \in Session \ {s} : call'[t] = call[t]
  BY <1>1, <1>3
<1>5. /\ stateLock' \in [Run -> Session \union {None}]
      /\ \A r \in Run : stateLock'[r] = s => r = Target(s) /\ call[s].keeps
      /\ call[s].keeps => stateLock'[Target(s)] = s
      /\ \A t \in Session \ {s}, r \in Run : stateLock'[r] = t <=> stateLock[r] = t
  <2>1. \A r \in Run : stateLock[r] = s => r = Target(s) /\ ~At(s, "lease")
    BY <1>1 DEF SessionInv, LocksOf
  <2>2. CASE ~call[s].keeps /\ At(s, "lease") /\ stateLock' = stateLock
    BY <1>1, <2>1, <2>2
  <2>3. CASE /\ call[s].keeps /\ At(s, "relock")
             /\ stateLock[Target(s)] \in {None, s} /\ stateLock' = With(s, Target(s))
    BY <1>1, <2>1, <2>3, UnitOfWorkAssumption DEF With
  <2> QED
    BY <2>2, <2>3
<1>6. Untouched(s)
  BY <1>1, <1>4, <1>5, UnitOfWorkAssumption DEF Untouched
<1>7. /\ Busy(s)' /\ Target(s)' = Target(s) /\ Cached(s)' = Cached(s) \intersect kept
      /\ \A r \in kept : Copy(s, r)' = Copy(s, r)
  <2>1. d # Idle
    BY <1>1, <1>2, BusyIs
  <2> QED
    BY <1>1, <1>2, <1>a, <1>4, <2>1 DEF Busy, Target, Cached, Copy
<1>8. Committed' = Committed
  BY NothingCommitted
<1>9. LocksOf(s)'
  BY <1>1, <1>2, <1>4, <1>5, <1>7 DEF SessionInv, LocksOf, At
<1>10. WorkOf(s)'
  <2>1. /\ call[s].dirty \/ call[s].keeps => call[s].keeps /\ Target(s) \in Cached(s)
        /\ call[s].identity \in Identity
    BY <1>1 DEF SessionInv, WorkOf
  <2> QED
    BY <1>1, <1>2, <1>a, <1>4, <1>5, <1>7, <1>8, <2>1 DEF WorkOf, At
<1>11. CopiesOf(s)'
  <2> SUFFICES ASSUME NEW r \in Cached(s), r \in kept PROVE CopyOf(s, r)'
    BY <1>7 DEF CopiesOf
  <2>1. r = Target(s) /\ CopyOf(s, r)
    BY <1>1, <1>a DEF SessionInv, CopiesOf
  <2> QED
    BY <1>2, <1>4, <1>7, <1>8, <2>1 DEF CopyOf, At
<1>12. LeaseOf(s)'
  <2> SUFFICES ASSUME NEW q \in Committed \ {Target(s)}
               PROVE  /\ q \notin Cached(s)' /\ q \in d.todo
                      /\ Target(s) \in Cached(s)' =>
                            Copy(s, Target(s))'.identities \intersect capsule[q].identities = {}
    BY <1>4, <1>7, <1>8 DEF LeaseOf
  <2>1. q \notin Cached(s)' /\ q \in d.todo
    BY <1>2, <1>a, <1>7
  <2>2. ASSUME Target(s) \in Cached(s)'
        PROVE  Copy(s, Target(s))'.identities \intersect capsule[q].identities = {}
    <3>1. Target(s) \in Cached(s) /\ Target(s) \in kept /\ At(s, "relock")
      BY <1>a, <1>7, <2>2
    <3>2. CopyOf(s, Target(s))
      BY <1>1, <3>1 DEF SessionInv, CopiesOf
    <3>3. \A i \in Copy(s, Target(s)).identities :
              Target(s) \in Committed /\ i \in capsule[Target(s)].identities
      BY <3>1, <3>2 DEF CopyOf
    <3> QED
      BY <1>1, <1>7, <3>1, <3>3 DEF IdentityHasOneRun
  <2> QED
    BY <2>1, <2>2
<1>13. SessionInv(s)'
  BY <1>9, <1>10, <1>11, <1>12 DEF SessionInv
<1>14. Creates(s)' => Creates(s)
  BY <1>1, <1>7 DEF Creates
<1> QED
  BY <1>1, <1>2, <1>3, <1>5, <1>6, <1>7, <1>13, <1>14, OwnStep DEF Types

\* With the lease the scan starts afresh, or the run's lock is taken again first.
LEMMA TakeLeaseInv == ASSUME IInv, NEW s \in Session, TakeLease(s) PROVE IInv'
<1>1. /\ call[s].at = "lease" /\ At(s, "lease") /\ identityLock = None /\ identityLock' = s
      /\ UNCHANGED <<capsule, index, memory, stateLock, memoryLock>>
  BY DEF TakeLease, At
<1>2. CASE ~call[s].keeps
  <2>1. call' = [call EXCEPT ![s] = Discovery(s)]
    BY <1>2 DEF TakeLease, Set
  <2> QED
    BY <1>1, <1>2, <2>1, ScanBegins
<1>3. CASE call[s].keeps
  <2> DEFINE c == [call[s] EXCEPT !.at = "relock"]
  <2>1. /\ Types /\ Busy(s) /\ SessionInv(s) /\ call[s] \in Call
        /\ call \in [Session -> Call \union {Idle}] /\ s # None
    BY <1>1, Here
  <2>2. call' = [call EXCEPT ![s] = c]
    BY <1>3 DEF TakeLease, Set
  <2>3. /\ c \in Call /\ c.at = "relock" /\ c.run = call[s].run /\ c.cache = call[s].cache
        /\ c.dirty = call[s].dirty /\ c.keeps = call[s].keeps /\ c.identity = call[s].identity
    BY <2>1 DEF Call, Places
  <2> HIDE DEF c
  <2>4. call'[s] = c /\ Untouched(s)
    BY <1>1, <2>1, <2>2, UnitOfWorkAssumption DEF Untouched
  <2>5. /\ CopiesOf(s)' /\ Busy(s)' /\ Target(s)' = Target(s) /\ Cached(s)' = Cached(s)
        /\ \A r \in Run : Copy(s, r)' = Copy(s, r)
        /\ Creates(s)' => Creates(s)
    BY <1>1, <2>1, <2>3, <2>4, SameCopies
  <2>6. LocksOf(s)' /\ WorkOf(s)' /\ LeaseOf(s)'
    BY <1>1, <1>3, <2>1, <2>3, <2>4, <2>5, NothingCommitted
    DEF SessionInv, LocksOf, WorkOf, LeaseOf, At
  <2>7. SessionInv(s)'
    BY <2>5, <2>6 DEF SessionInv
  <2> QED
    BY <1>1, <2>1, <2>2, <2>3, <2>4, <2>5, <2>7, OwnStep DEF Types
<1> QED
  BY <1>2, <1>3

\* A run that changed while the lease was waited for is not locked again.
LEMMA RelockInv == ASSUME IInv, NEW s \in Session, Relock(s) PROVE IInv'
<1>1. /\ call[s].at = "relock" /\ At(s, "relock") /\ stateLock[Target(s)] \in {None, s}
      /\ stateLock' = With(s, Target(s)) /\ call' = [call EXCEPT ![s] = Discovery(s)]
      /\ UNCHANGED <<capsule, index, memory, identityLock, memoryLock>>
  BY DEF Relock, At, Set
<1>2. call[s].keeps /\ identityLock = s
  BY <1>1, Here DEF SessionInv, WorkOf, LocksOf
<1> QED
  BY <1>1, <1>2, ScanBegins

\* Changing a run takes its lock.
LEMMA Locking ==
  ASSUME IInv, NEW s \in Session, call[s].at # "idle", ~At(s, "lease"),
         stateLock[Target(s)] \in {None, s}, stateLock' = With(s, Target(s)),
         UNCHANGED <<identityLock, memoryLock>>,
         \A t \in Session \ {s} : call'[t] = call[t]
  PROVE  /\ Untouched(s) /\ stateLock' \in [Run -> Session \union {None}]
         /\ stateLock'[Target(s)] = s
         /\ \A r \in Run : stateLock'[r] = s => r = Target(s)
<1>1. /\ SessionInv(s) /\ Target(s) \in Run /\ stateLock \in [Run -> Session \union {None}]
  BY Here
<1>2. /\ stateLock' \in [Run -> Session \union {None}] /\ stateLock'[Target(s)] = s
      /\ \A r \in Run : stateLock'[r] = s => r = Target(s)
  BY <1>1 DEF With, SessionInv, LocksOf
<1>3. \A t \in Session \ {s}, r \in Run : stateLock'[r] = t <=> stateLock[r] = t
  BY <1>1, UnitOfWorkAssumption DEF With
<1> QED
  BY <1>2, <1>3 DEF Untouched

\* A run is changed with its lock and a copy that is current.
LEMMA EditInv == ASSUME IInv, NEW s \in Session, Edit(s) PROVE IInv'
<1>4. PICK r \in Run : r = Target(s)
  BY Here DEF Edit, At
<1> DEFINE v == IF r \in Cached(s) THEN call[s].cache[r] ELSE capsule[r]
           c == [call[s] EXCEPT !.cache = [call[s].cache EXCEPT ![r] = v], !.dirty = TRUE]
<1>1. /\ call[s].at = "open" /\ memoryLock # s /\ r \in Committed
      /\ stateLock[r] \in {None, s} /\ stateLock' = With(s, r)
      /\ call' = [call EXCEPT ![s].cache[r] = v, ![s].dirty = TRUE]
      /\ UNCHANGED <<capsule, index, memory, identityLock, memoryLock>>
  BY <1>4 DEF Edit, At
<1>2. /\ Types /\ Busy(s) /\ SessionInv(s) /\ call[s] \in Call /\ r \in Run
      /\ call[s].cache \in [Run -> Aggregate \union {None}] /\ Cached(s) \subseteq Run
      /\ call \in [Session -> Call \union {Idle}] /\ IdentityHasOneRun
  BY <1>1, Here DEF IInv
<1>3. v \in Aggregate /\ (r \in Cached(s) => v = Copy(s, r)) /\ (r \notin Cached(s) => v = capsule[r])
  BY <1>1, <1>2, CopyIs, CommittedIs DEF Copy
<1> HIDE DEF v
<1>5. /\ call' = [call EXCEPT ![s] = c] /\ c \in Call
  BY <1>1, <1>2, <1>3 DEF Call
<1>6. /\ c.cache = [call[s].cache EXCEPT ![r] = v] /\ c.run = call[s].run
      /\ c.at = "open" /\ c.keeps = call[s].keeps /\ c.todo = call[s].todo
  BY <1>1, <1>2 DEF Call
<1> HIDE DEF c
<1>7. call'[s] = c /\ \A t \in Session \ {s} : call'[t] = call[t]
  BY <1>2, <1>5
<1>8. /\ Busy(s)' /\ Target(s)' = Target(s) /\ Cached(s)' = Cached(s) \union {r}
      /\ Copy(s, r)' = v /\ call'[s].cache[r] = v
      /\ \A q \in Run \ {r} : Copy(s, q)' = Copy(s, q)
  BY <1>2, <1>3, <1>5, <1>6, <1>7, NewCopy
<1>9. /\ Untouched(s) /\ stateLock' \in [Run -> Session \union {None}]
      /\ stateLock'[r] = s /\ \A q \in Run : stateLock'[q] = s => q = r
  BY <1>1, <1>4, <1>7, Locking DEF At
<1>10. Committed' = Committed
  BY <1>1, NothingCommitted
<1>11. LocksOf(s)'
  BY <1>1, <1>2, <1>4, <1>6, <1>7, <1>8, <1>9 DEF SessionInv, LocksOf, At
<1>12. WorkOf(s)'
  BY <1>4, <1>6, <1>7, <1>8, <1>9 DEF WorkOf, At
<1>13. CopiesOf(s)'
  <2>1. ASSUME NEW q \in Cached(s) PROVE CopyOf(s, q)'
    <3>1. CopyOf(s, q) /\ Copy(s, q)' = Copy(s, q)
      BY <1>2, <1>3, <1>8 DEF SessionInv, CopiesOf
    <3> QED
      BY <1>1, <1>6, <1>7, <1>8, <1>10, <3>1 DEF CopyOf, At
  <2>2. r \notin Cached(s) => CopyOf(s, r)'
    BY <1>1, <1>3, <1>8, FreshCopy
  <2> QED
    BY <1>8, <2>1, <2>2 DEF CopiesOf
<1>14. LeaseOf(s)'
  <2> SUFFICES ASSUME identityLock = s, NEW q \in Committed \ {r}
               PROVE  /\ q \in Cached(s) => Copy(s, q)'.identities = capsule[q].identities
                      /\ q \notin Cached(s) => q \in c.todo \/ capsule[q].identities = {}
                      /\ v.identities \intersect capsule[q].identities = {}
    BY <1>1, <1>4, <1>7, <1>8, <1>10 DEF LeaseOf
  <2>1. /\ q \in Cached(s) => Copy(s, q).identities = capsule[q].identities
        /\ q \notin Cached(s) => q \in call[s].todo \/ capsule[q].identities = {}
        /\ r \in Cached(s) => Copy(s, r).identities \intersect capsule[q].identities = {}
    BY <1>1, <1>2, <1>4 DEF SessionInv, LeaseOf
  <2>2. r \notin Cached(s) => v.identities \intersect capsule[q].identities = {}
    BY <1>1, <1>2, <1>3 DEF IdentityHasOneRun
  <2>3. q \in Run \ {r}
    BY DEF Committed
  <2> QED
    BY <1>3, <1>6, <1>8, <2>1, <2>2, <2>3
<1>15. Creates(s)' => Creates(s)
  BY <1>1, <1>2, <1>3, <1>4, <1>8, CommittedIs DEF Creates
<1>16. SessionInv(s)'
  BY <1>11, <1>12, <1>13, <1>14 DEF SessionInv
<1> QED
  BY <1>1, <1>2, <1>5, <1>8, <1>9, <1>15, <1>16, OwnStep DEF Types

\* An identity that the scan did not find in another run is in none.
LEMMA SaveInv == ASSUME IInv, NEW s \in Session, Save(s) PROVE IInv'
<1>0. PICK r \in Run : r = Target(s)
  BY Here DEF Save, At
<1> DEFINE i == call[s].identity
           v == [call[s].cache[r] EXCEPT !.identities = @ \union {i}]
           c == [call[s] EXCEPT !.at = "open", !.dirty = TRUE,
                                !.cache = [call[s].cache EXCEPT ![r] = v]]
<1>1. /\ call[s].at = "scan" /\ call[s].todo = {} /\ ~Owned(s, i) /\ r \in Cached(s)
      /\ stateLock[r] \in {None, s} /\ stateLock' = With(s, r)
      /\ call' = [call EXCEPT ![s].at = "open", ![s].dirty = TRUE,
                              ![s].cache[r].identities = @ \union {i}]
      /\ UNCHANGED <<capsule, index, memory, identityLock, memoryLock>>
  BY <1>0 DEF Save, At
<1>2. /\ Types /\ Busy(s) /\ SessionInv(s) /\ call[s] \in Call /\ r \in Run
      /\ call[s].cache \in [Run -> Aggregate \union {None}] /\ Cached(s) \subseteq Run
      /\ call \in [Session -> Call \union {Idle}] /\ IdentityHasOneRun
      /\ identityLock = s
  BY <1>1, Here DEF IInv, SessionInv, LocksOf
<1>3. i \in Identity
  BY <1>1, <1>2 DEF SessionInv, WorkOf
<1>4. /\ Copy(s, r) \in Aggregate /\ Copy(s, r) = call[s].cache[r]
  BY <1>1, <1>2, CopyIs DEF Copy
<1>5. /\ v \in Aggregate /\ v.generation = Copy(s, r).generation
      /\ v.identities = Copy(s, r).identities \union {i}
  BY <1>3, <1>4 DEF Aggregate
<1>6. /\ call' = [call EXCEPT ![s] = c] /\ r = Target(s)
  BY <1>0, <1>1, <1>2
<1> HIDE DEF v, i
<1>7. c \in Call
  BY <1>2, <1>5 DEF Call, Places
<1>8. /\ c.cache = [call[s].cache EXCEPT ![r] = v] /\ c.run = call[s].run
      /\ c.at = "open" /\ c.keeps = call[s].keeps /\ c.todo = call[s].todo
  BY <1>2 DEF Call
<1> HIDE DEF c
<1>9. call'[s] = c /\ \A t \in Session \ {s} : call'[t] = call[t]
  BY <1>2, <1>6
<1>10. /\ Busy(s)' /\ Target(s)' = Target(s) /\ Cached(s)' = Cached(s) \union {r}
       /\ Copy(s, r)' = v /\ call'[s].cache[r] = v
       /\ \A q \in Run \ {r} : Copy(s, q)' = Copy(s, q)
  BY <1>2, <1>5, <1>7, <1>8, <1>9, NewCopy
<1>11. /\ Untouched(s) /\ stateLock' \in [Run -> Session \union {None}]
       /\ stateLock'[r] = s /\ \A q \in Run : stateLock'[q] = s => q = r
  BY <1>1, <1>6, <1>9, Locking DEF At
<1>12. Committed' = Committed
  BY <1>1, NothingCommitted
<1>13. LocksOf(s)'
  BY <1>1, <1>2, <1>6, <1>8, <1>9, <1>10, <1>11 DEF SessionInv, LocksOf, At
<1>14. WorkOf(s)'
  BY <1>6, <1>8, <1>9, <1>10, <1>11 DEF WorkOf, At
<1>15. CopiesOf(s)'
  <2>1. ASSUME NEW q \in Cached(s), q # r PROVE CopyOf(s, q)'
    <3>1. CopyOf(s, q) /\ Copy(s, q)' = Copy(s, q)
      BY <1>2, <1>10, <2>1 DEF SessionInv, CopiesOf
    <3> QED
      BY <1>1, <1>6, <1>10, <1>12, <2>1, <3>1 DEF CopyOf
  <2>2. CopyOf(s, r)'
    <3>1. CopyOf(s, r)
      BY <1>1, <1>2 DEF SessionInv, CopiesOf
    <3> QED
      BY <1>1, <1>2, <1>5, <1>6, <1>8, <1>9, <1>10, <1>12, <3>1 DEF CopyOf, At
  <2> QED
    BY <1>1, <1>10, <2>1, <2>2 DEF CopiesOf
<1>16. LeaseOf(s)'
  <2> SUFFICES ASSUME NEW q \in Committed \ {r}
               PROVE  /\ q \in Cached(s) => Copy(s, q)'.identities = capsule[q].identities
                      /\ q \notin Cached(s) => q \in c.todo \/ capsule[q].identities = {}
                      /\ v.identities \intersect capsule[q].identities = {}
    BY <1>1, <1>6, <1>9, <1>10, <1>12 DEF LeaseOf
  <2>1. /\ q \in Cached(s) => Copy(s, q).identities = capsule[q].identities
        /\ q \notin Cached(s) => capsule[q].identities = {}
        /\ Copy(s, r).identities \intersect capsule[q].identities = {}
    BY <1>1, <1>2, <1>6 DEF SessionInv, LeaseOf
  <2>2. i \notin capsule[q].identities
    BY <1>1, <1>6, <2>1 DEF Owned, Copy
  <2>3. q \in Run \ {r}
    BY DEF Committed
  <2> QED
    BY <1>5, <1>10, <2>1, <2>2, <2>3
<1>17. Creates(s)' => Creates(s)
  BY <1>1, <1>5, <1>2, <1>6, <1>10 DEF Creates
<1>18. SessionInv(s)'
  BY <1>13, <1>14, <1>15, <1>16 DEF SessionInv
<1> QED
  BY <1>1, <1>2, <1>6, <1>7, <1>10, <1>11, <1>17, <1>18, OwnStep DEF Types

-----------------------------------------------------------------------------
(* The index, memory, and the end of a call. *)

\* After a commit the call goes on from place to place with what it has committed.
LEMMA AfterCommit ==
  ASSUME IInv, NEW s \in Session, call[s].at \in {"index", "listed", "memory"},
         capsule' = capsule, UNCHANGED locks,
         index' \in SUBSET Committed, memory' \in [Run -> 0..MaxGeneration], MemoryFollowsTasks',
         NEW c \in Call, call' = [call EXCEPT ![s] = c],
         c.at \in {"memory", "done"}, c.run = call[s].run, c.cache = call[s].cache,
         c.dirty = call[s].dirty
  PROVE  IInv'
<1>1. /\ Types /\ Busy(s) /\ SessionInv(s) /\ call \in [Session -> Call \union {Idle}]
      /\ Target(s) \in Run
  BY Here
<1>2. call'[s] = c /\ \A t \in Session \ {s} : call'[t] = call[t]
  BY <1>1
<1>3. UNCHANGED <<stateLock, identityLock, memoryLock>>
  BY DEF locks
<1>4. Untouched(s)
  BY <1>2, <1>3 DEF Untouched
<1>5. /\ CopiesOf(s)' /\ Busy(s)' /\ Target(s)' = Target(s) /\ Cached(s)' = Cached(s)
      /\ \A r \in Run : Copy(s, r)' = Copy(s, r)
      /\ Creates(s)' => Creates(s)
  BY <1>2, <1>3, SameCopies
<1>6. LocksOf(s)' /\ WorkOf(s)' /\ LeaseOf(s)'
  BY <1>1, <1>2, <1>3, <1>5, NothingCommitted DEF SessionInv, LocksOf, WorkOf, LeaseOf, At
<1>7. SessionInv(s)'
  BY <1>5, <1>6 DEF SessionInv
<1>8. \A t \in Session \ {s} : SessionInv(t)'
  BY <1>4, NothingCommitted, OthersKept
<1>9. Types'
  BY <1>1, <1>3, NothingCommitted DEF Types
<1>10. IdentityHasOneRun'
  BY NothingCommitted DEF IInv, IdentityHasOneRun
<1>11. OneCreator'
  <2>1. Creates(s) => \A t \in Session \ {s} : Creates(t) => Target(t) # Target(s)
    BY DEF IInv, OneCreator
  <2> QED
    BY <1>4, <1>5, <2>1, CreatorStays
<1> QED
  BY <1>7, <1>8, <1>9, <1>10, <1>11 DEF IInv

\* The index written is of runs committed when they were listed, and still committed.
LEMMA WriteIndexInv == ASSUME IInv, NEW s \in Session, WriteIndex(s) PROVE IInv'
<1> DEFINE c == [call[s] EXCEPT !.at = "memory", !.todo = {}]
<1>1. /\ call[s].at = "listed" /\ index' = call[s].todo
      /\ call' = [call EXCEPT ![s].at = "memory", ![s].todo = {}]
      /\ UNCHANGED <<capsule, memory, locks>>
  BY DEF WriteIndex, At
<1>2. /\ Types /\ Busy(s) /\ SessionInv(s) /\ call[s] \in Call
      /\ call \in [Session -> Call \union {Idle}]
  BY <1>1, Here
<1>3. call' = [call EXCEPT ![s] = c]
  BY <1>1, <1>2
<1>4. /\ c \in Call /\ c.at = "memory" /\ c.run = call[s].run /\ c.cache = call[s].cache
      /\ c.dirty = call[s].dirty
  BY <1>2 DEF Call, Places
<1> HIDE DEF c
<1>5. index' \in SUBSET Committed
  BY <1>1, <1>2 DEF SessionInv, WorkOf
<1>6. memory' \in [Run -> 0..MaxGeneration] /\ MemoryFollowsTasks'
  BY <1>1, NothingCommitted DEF IInv, Types, MemoryFollowsTasks
<1>7. UNCHANGED locks /\ capsule' = capsule /\ call[s].at \in {"index", "listed", "memory"}
      /\ c.at \in {"memory", "done"}
  BY <1>1, <1>4
<1> QED
  BY <1>3, <1>4, <1>5, <1>6, <1>7, AfterCommit

\* Memory follows the capsule that the same unit of work committed.
LEMMA CommitMemoryInv == ASSUME IInv, NEW s \in Session, CommitMemory(s) PROVE IInv'
<1> DEFINE c == [call[s] EXCEPT !.at = "done"]
           r == Target(s)
<1>1. /\ call[s].at = "memory" /\ memory' = IF memoryLock = s THEN MemoryOf(s) ELSE memory
      /\ call' = [call EXCEPT ![s].at = "done"]
      /\ UNCHANGED <<capsule, index, locks>>
  BY DEF CommitMemory, At
<1>2. /\ Types /\ Busy(s) /\ SessionInv(s) /\ call[s] \in Call /\ r \in Run
      /\ call \in [Session -> Call \union {Idle}]
  BY <1>1, Here
<1>3. call' = [call EXCEPT ![s] = c]
  BY <1>1, <1>2
<1>4. /\ c \in Call /\ c.at = "done" /\ c.run = call[s].run /\ c.cache = call[s].cache
      /\ c.dirty = call[s].dirty
  BY <1>2 DEF Call, Places
<1> HIDE DEF c
<1>5. /\ r \in Cached(s) /\ Copy(s, r).generation # 0 /\ CopyOf(s, r)
  BY <1>1, <1>2 DEF SessionInv, WorkOf, CopiesOf
<1>6. /\ Copy(s, r).generation \in 0..MaxGeneration /\ r \in Committed
      /\ Copy(s, r).generation <= capsule[r].generation
  BY <1>2, <1>5, CopyIs DEF CopyOf
<1>7. memory' \in [Run -> 0..MaxGeneration] /\ MemoryFollowsTasks'
  <2>1. \/ memory' = memory
        \/ memory' = [memory EXCEPT ![r] = Copy(s, r).generation]
    BY <1>1 DEF MemoryOf, Copy
  <2>2. memory \in [Run -> 0..MaxGeneration] /\ Committed' = Committed /\ capsule' = capsule
    BY <1>1, <1>2, NothingCommitted DEF Types
  <2> HIDE DEF r
  <2> QED
    BY <1>6, <2>1, <2>2 DEF IInv, MemoryFollowsTasks
<1>8. index' \in SUBSET Committed
  BY <1>1, <1>2 DEF Types
<1>9. UNCHANGED locks /\ capsule' = capsule /\ call[s].at \in {"index", "listed", "memory"}
      /\ c.at \in {"memory", "done"}
  BY <1>1, <1>4
<1> QED
  BY <1>3, <1>4, <1>7, <1>8, <1>9, AfterCommit

-----------------------------------------------------------------------------
(* Steps that change the directories. *)

\* What is left to show of them.
LEMMA DiskStep ==
  ASSUME IInv, NEW s \in Session, Untouched(s), Grown,
         \A t \in Session \ {s} : /\ Creates(t) => capsule'[Target(t)] = capsule[Target(t)]
                                  /\ identityLock = t => NoneNew,
         Types', IdentityHasOneRun', MemoryFollowsTasks', SessionInv(s)',
         Creates(s)' => \A t \in Session \ {s} : Creates(t) => Target(t) # Target(s)'
  PROVE  IInv'
<1>1. \A t \in Session \ {s} : SessionInv(t)'
  BY OthersKept
<1>2. OneCreator'
  BY CreatorStays
<1> QED
  BY <1>1, <1>2 DEF IInv

\* A reserved directory is read by its creator only.
LEMMA ReservedIsOwn ==
  ASSUME IInv, NEW s \in Session, Busy(s), Target(s) \in Cached(s),
         capsule[Target(s)] = Reserved
  PROVE  Creates(s)
BY DEF IInv, SessionInv, CopiesOf, CopyOf, Creates, Committed

\* A call ends, at any place, and gives back its locks.
LEMMA ReleaseInv ==
  ASSUME IInv, NEW s \in Session, Busy(s), Release(s),
         capsule' \in [Run -> Aggregate \union {Absent, Reserved}],
         \A r \in Run : \/ capsule'[r] = capsule[r]
                        \/ /\ capsule[r] = Reserved /\ capsule'[r] = Absent
                           /\ r = Target(s) /\ r \in Cached(s)
  PROVE  IInv'
<1>1. /\ Types /\ call' = [call EXCEPT ![s] = Idle] /\ stateLock' = Without(s)
      /\ identityLock' = (IF identityLock = s THEN None ELSE identityLock)
      /\ memoryLock' = (IF memoryLock = s THEN None ELSE memoryLock)
      /\ UNCHANGED <<index, memory>> /\ s # None
  BY UnitOfWorkAssumption DEF IInv, Release, Set
<1>2. call'[s] = Idle /\ call' \in [Session -> Call \union {Idle}] /\ ~Busy(s)'
      /\ \A t \in Session \ {s} : call'[t] = call[t]
  BY <1>1 DEF Types, Busy
<1>3. /\ stateLock' \in [Run -> Session \union {None}]
      /\ identityLock' \in Session \union {None} /\ memoryLock' \in Session \union {None}
      /\ (\A r \in Run : stateLock'[r] # s) /\ identityLock' # s /\ memoryLock' # s
      /\ \A t \in Session \ {s} :
            /\ \A r \in Run : stateLock'[r] = t <=> stateLock[r] = t
            /\ identityLock' = t <=> identityLock = t
            /\ memoryLock' = t <=> memoryLock = t
  BY <1>1, UnitOfWorkAssumption DEF Types, Without
<1>4. Untouched(s)
  BY <1>2, <1>3 DEF Untouched
<1>5. Committed' = Committed /\ \A r \in Committed : capsule'[r] = capsule[r]
  <2>1. \A r \in Run : r \in Committed <=> capsule[r] \notin {Absent, Reserved}
    BY DEF Committed
  <2>2. \A r \in Run : r \in Committed' <=> capsule'[r] \notin {Absent, Reserved}
    BY DEF Committed
  <2>3. Committed \subseteq Run /\ Committed' \subseteq Run
    BY DEF Committed
  <2> QED
    BY <2>1, <2>2, <2>3
<1>6. Grown /\ NoneNew
  BY <1>5 DEF Grown, NoneNew
<1>7. ASSUME NEW t \in Session \ {s}, Creates(t)
      PROVE  capsule'[Target(t)] = capsule[Target(t)]
  <2>1. Target(t) \in Run
    BY <1>1, <1>7, BusyIs DEF Creates
  <2>2. capsule[Target(t)] = Reserved /\ Target(t) = Target(s) /\ Target(s) \in Cached(s)
           => FALSE
    BY <1>7, ReservedIsOwn DEF IInv, OneCreator
  <2> QED
    BY <2>1, <2>2
<1>8. SessionInv(s)'
  BY <1>2, <1>3 DEF SessionInv, LocksOf, WorkOf, CopiesOf, LeaseOf, Idle, At
<1>9. Types'
  BY <1>1, <1>2, <1>3, <1>5 DEF Types
<1>10. IdentityHasOneRun' /\ MemoryFollowsTasks'
  BY <1>1, <1>5 DEF IInv, IdentityHasOneRun, MemoryFollowsTasks
<1>11. ~Creates(s)'
  BY <1>2 DEF Creates
<1> QED
  BY <1>4, <1>6, <1>7, <1>8, <1>9, <1>10, <1>11, DiskStep

\* Closing takes away only what this unit of work reserved; a crash leaves all as it is.
LEMMA EndInv == ASSUME IInv, NEW s \in Session, Close(s) \/ Crash(s) PROVE IInv'
<1>1. Busy(s) /\ Release(s) /\ Types
  BY DEF Close, Crash, Busy, IInv
<1>2. CASE Crash(s)
  <2>1. capsule' = capsule
    BY <1>2 DEF Crash
  <2> QED
    BY <1>1, <2>1, ReleaseInv DEF Types
<1>3. CASE Close(s)
  <2>1. capsule' = [r \in Run |->
                      IF capsule[r] = Reserved /\ r = Target(s) /\ r \in Cached(s) THEN Absent
                                                                           ELSE capsule[r]]
    BY <1>3 DEF Close
  <2> QED
    BY <1>1, <2>1, ReleaseInv DEF Types
<1> QED
  BY <1>2, <1>3

\* Whoever has the lock of a run has found a directory there.
LEMMA LockedIsThere ==
  ASSUME IInv, NEW r \in Run, capsule[r] = Absent
  PROVE  stateLock[r] = None
<1> SUFFICES ASSUME NEW t \in Session, stateLock[r] = t PROVE FALSE
  BY DEF IInv, Types
<1>1. Busy(t) /\ r = Target(t) /\ r \in Cached(t)
  BY DEF IInv, SessionInv, LocksOf, WorkOf
<1>2. CopyOf(t, r)
  BY <1>1 DEF IInv, SessionInv, CopiesOf
<1>3. capsule[r] = Reserved \/ r \in Committed
  BY <1>2 DEF CopyOf
<1> QED
  BY <1>3, UnitOfWorkAssumption DEF Committed

\* A reserved directory has one creator and nothing that a scan would find.
LEMMA CreateInv == ASSUME IInv, NEW s \in Session, Create(s) PROVE IInv'
<1>0. PICK r \in Run : r = Target(s)
  BY Here DEF Create, At
<1> DEFINE v == Created(0)
           c == [call[s] EXCEPT !.cache = [call[s].cache EXCEPT ![r] = v], !.dirty = TRUE]
<1>1. /\ call[s].at = "open" /\ memoryLock # s /\ capsule[r] = Absent
      /\ capsule' = [capsule EXCEPT ![r] = Reserved] /\ stateLock' = With(s, r)
      /\ call' = [call EXCEPT ![s].cache[r] = v, ![s].dirty = TRUE]
      /\ UNCHANGED <<index, memory, identityLock, memoryLock>>
  BY <1>0 DEF Create, At
<1>2. /\ Types /\ Busy(s) /\ SessionInv(s) /\ call[s] \in Call
      /\ call[s].cache \in [Run -> Aggregate \union {None}] /\ Cached(s) \subseteq Run
      /\ call \in [Session -> Call \union {Idle}] /\ IdentityHasOneRun
  BY <1>1, Here DEF IInv
<1>3. v \in Aggregate /\ v.generation = 0 /\ v.identities = {}
  BY UnitOfWorkAssumption DEF Created, Aggregate
<1> HIDE DEF v
<1>4. call' = [call EXCEPT ![s] = c] /\ c \in Call
  BY <1>1, <1>2, <1>3 DEF Call
<1>5. /\ c.cache = [call[s].cache EXCEPT ![r] = v] /\ c.run = call[s].run
      /\ c.at = "open" /\ c.keeps = call[s].keeps /\ c.todo = call[s].todo
  BY <1>1, <1>2 DEF Call
<1> HIDE DEF c
<1>6. call'[s] = c /\ \A t \in Session \ {s} : call'[t] = call[t]
  BY <1>2, <1>4
<1>7. /\ Busy(s)' /\ Target(s)' = Target(s) /\ Cached(s)' = Cached(s) \union {r}
      /\ Copy(s, r)' = v /\ \A q \in Run \ {r} : Copy(s, q)' = Copy(s, q)
  BY <1>2, <1>3, <1>4, <1>5, <1>6, NewCopy
<1>8. /\ Untouched(s) /\ stateLock' \in [Run -> Session \union {None}]
      /\ stateLock'[r] = s /\ \A q \in Run : stateLock'[q] = s => q = r
  BY <1>0, <1>1, <1>6, Locking, LockedIsThere DEF At
<1>9. /\ capsule'[r] = Reserved /\ \A q \in Run \ {r} : capsule'[q] = capsule[q]
      /\ capsule' \in [Run -> Aggregate \union {Absent, Reserved}]
  BY <1>1, <1>2 DEF Types
<1>10. Committed' = Committed /\ r \notin Committed
       /\ \A q \in Committed : capsule'[q] = capsule[q] /\ q \in Run /\ q # r
  BY <1>1, <1>9 DEF Committed
<1>11. Grown /\ NoneNew
  BY <1>10 DEF Grown, NoneNew
<1>12. \A t \in Session \ {s} : Creates(t) => Target(t) # r /\ Target(t) \in Run
  <2> SUFFICES ASSUME NEW t \in Session \ {s}, Creates(t)
               PROVE  Target(t) # r /\ Target(t) \in Run
    OBVIOUS
  <2>1. CopyOf(t, Target(t)) /\ Target(t) \in Run
    BY <1>2, BusyIs DEF Creates, IInv, SessionInv, CopiesOf
  <2>2. capsule[Target(t)] = Reserved
    BY <2>1 DEF CopyOf, Creates
  <2> QED
    BY <1>1, <2>1, <2>2, UnitOfWorkAssumption
<1>13. LocksOf(s)'
  BY <1>0, <1>1, <1>2, <1>5, <1>6, <1>7, <1>8 DEF SessionInv, LocksOf, At
<1>14. WorkOf(s)'
  BY <1>0, <1>5, <1>6, <1>7, <1>8 DEF WorkOf, At
<1>15. CopiesOf(s)'
  <2>1. ASSUME NEW q \in Cached(s), q # r PROVE CopyOf(s, q)'
    <3>1. CopyOf(s, q) /\ Copy(s, q)' = Copy(s, q) /\ capsule'[q] = capsule[q]
      BY <1>2, <1>7, <1>9, <2>1 DEF SessionInv, CopiesOf
    <3> QED
      BY <1>0, <1>1, <1>5, <1>6, <1>7, <1>10, <2>1, <3>1 DEF CopyOf, At
  <2>2. CopyOf(s, r)'
    BY <1>0, <1>3, <1>7, <1>9 DEF CopyOf
  <2> QED
    BY <1>7, <2>1, <2>2 DEF CopiesOf
<1>16. LeaseOf(s)'
  <2> SUFFICES ASSUME identityLock = s, NEW q \in Committed
               PROVE  /\ q \in Cached(s) => Copy(s, q)'.identities = capsule[q].identities
                      /\ q \notin Cached(s) => q \in c.todo \/ capsule[q].identities = {}
                      /\ v.identities \intersect capsule[q].identities = {}
    BY <1>0, <1>1, <1>6, <1>7, <1>10 DEF LeaseOf
  <2>1. /\ q \in Cached(s) => Copy(s, q).identities = capsule[q].identities
        /\ q \notin Cached(s) => q \in call[s].todo \/ capsule[q].identities = {}
    BY <1>0, <1>1, <1>2, <1>10 DEF SessionInv, LeaseOf
  <2> QED
    BY <1>3, <1>5, <1>7, <1>10, <2>1
<1>17. SessionInv(s)'
  BY <1>13, <1>14, <1>15, <1>16 DEF SessionInv
<1>18. Types'
  <2>1. call' \in [Session -> Call \union {Idle}]
    BY <1>2, <1>4
  <2>2. index' \in SUBSET Committed' /\ \A q \in Committed' : capsule'[q].generation # 0
    BY <1>1, <1>2, <1>10 DEF Types
  <2> QED
    BY <1>1, <1>2, <1>8, <1>9, <2>1, <2>2 DEF Types
<1>19. IdentityHasOneRun' /\ MemoryFollowsTasks'
  BY <1>1, <1>10 DEF IInv, IdentityHasOneRun, MemoryFollowsTasks
<1>20. \A t \in Session \ {s} : Creates(t) => capsule'[Target(t)] = capsule[Target(t)]
  BY <1>9, <1>12
<1> QED
  BY <1>0, <1>7, <1>8, <1>11, <1>12, <1>17, <1>18, <1>19, <1>20, DiskStep

\* What a commit writes, and what it leaves.
LEMMA CommitIs ==
  ASSUME IInv, NEW s \in Session, NEW r \in Run, r = Target(s), Commit(s)
  PROVE  /\ call[s].at = "open" /\ r \in Cached(s) /\ stateLock[r] = s
         /\ capsule'[r] \in Aggregate
         /\ capsule'[r].generation = Copy(s, r).generation + 1
         /\ capsule'[r].identities = Copy(s, r).identities
         /\ \A q \in Run \ {r} : capsule'[q] = capsule[q]
         /\ capsule' \in [Run -> Aggregate \union {Absent, Reserved}]
         /\ call' = [call EXCEPT ![s] = [call[s] EXCEPT !.at = "index", !.dirty = FALSE,
                        !.cache = [call[s].cache EXCEPT ![r] = capsule'[r]]]]
         /\ UNCHANGED <<index, memory, stateLock, identityLock, memoryLock>>
         /\ \/ r \in Committed /\ Copy(s, r).generation = capsule[r].generation
               /\ capsule[r].identities \subseteq capsule'[r].identities
            \/ Creates(s) /\ r \notin Committed
         /\ identityLock # s =>
               capsule'[r].identities \subseteq IF r \in Committed THEN capsule[r].identities
                                                                    ELSE {}
<1> DEFINE next == [call[s].cache[r] EXCEPT !.generation = @ + 1]
<1>1. /\ call[s].at = "open" /\ call[s].dirty /\ next.generation <= MaxGeneration
      /\ Current(s, r) /\ capsule' = [capsule EXCEPT ![r] = next]
      /\ call' = [call EXCEPT ![s] = [call[s] EXCEPT !.at = "index", !.cache[r] = next,
                                                     !.dirty = FALSE]]
      /\ UNCHANGED <<index, memory, stateLock, identityLock, memoryLock>>
  BY DEF Commit, At, Set, locks
<1>2. /\ Types /\ Busy(s) /\ SessionInv(s) /\ call[s] \in Call
      /\ call[s].cache \in [Run -> Aggregate \union {None}]
  BY <1>1, Here
<1>3. stateLock[r] = s /\ r \in Cached(s)
  BY <1>1, <1>2 DEF SessionInv, WorkOf
<1>4. /\ Copy(s, r) \in Aggregate /\ Copy(s, r) = call[s].cache[r]
      /\ Copy(s, r).generation \in Nat
  BY <1>2, <1>3, CopyIs DEF Copy
<1>5. next.generation = Copy(s, r).generation + 1 /\ next.identities = Copy(s, r).identities
  BY <1>4 DEF Aggregate
<1>6. next \in Aggregate
  BY <1>1, <1>4, <1>5, UnitOfWorkAssumption DEF Aggregate
<1> HIDE DEF next
<1>7. /\ capsule'[r] = next /\ \A q \in Run \ {r} : capsule'[q] = capsule[q]
      /\ capsule' \in [Run -> Aggregate \union {Absent, Reserved}]
  BY <1>1, <1>2, <1>6 DEF Types
<1>c. call' = [call EXCEPT ![s] = [call[s] EXCEPT !.at = "index", !.dirty = FALSE,
                   !.cache = [call[s].cache EXCEPT ![r] = capsule'[r]]]]
  BY <1>1, <1>2, <1>7 DEF Call
<1>8. CopyOf(s, r)
  BY <1>2, <1>3 DEF SessionInv, CopiesOf
<1>9. CASE Copy(s, r).generation = 0
  <2>1. Creates(s) /\ capsule[r] = Reserved /\ r \notin Committed
    BY <1>2, <1>3, <1>8, <1>9 DEF CopyOf, Creates, Committed
  <2> QED
    <3>1. identityLock # s => capsule'[r].identities = {}
      BY <1>5, <1>7, <1>8, <1>9 DEF CopyOf
    <3> QED
      BY <1>1, <1>3, <1>5, <1>6, <1>7, <1>c, <2>1, <3>1
<1>10. CASE Copy(s, r).generation # 0
  <2>1. r \in Committed /\ Copy(s, r).generation = capsule[r].generation
    BY <1>1, <1>4, <1>8, <1>10 DEF CopyOf, Current
  <2> QED
    <3>1. capsule[r].identities \subseteq capsule'[r].identities
      BY <1>5, <1>7, <1>8, <1>10, <2>1 DEF CopyOf
    <3>2. identityLock # s => capsule'[r].identities \subseteq capsule[r].identities
      BY <1>5, <1>7, <1>8, <2>1 DEF CopyOf
    <3> QED
      BY <1>1, <1>3, <1>5, <1>6, <1>7, <1>c, <2>1, <3>1, <3>2
<1> QED
  BY <1>9, <1>10

\* A commit adds one generation, and only identities that the lease has cleared.
LEMMA CommitInv == ASSUME IInv, NEW s \in Session, Commit(s) PROVE IInv'
<1>0. PICK r \in Run : r = Target(s)
  BY Here DEF Commit, At
<1>1. /\ call[s].at = "open" /\ r \in Cached(s) /\ stateLock[r] = s
      /\ capsule'[r] \in Aggregate
      /\ capsule'[r].generation = Copy(s, r).generation + 1
      /\ capsule'[r].identities = Copy(s, r).identities
      /\ \A q \in Run \ {r} : capsule'[q] = capsule[q]
      /\ capsule' \in [Run -> Aggregate \union {Absent, Reserved}]
      /\ call' = [call EXCEPT ![s] = [call[s] EXCEPT !.at = "index", !.dirty = FALSE,
                     !.cache = [call[s].cache EXCEPT ![r] = capsule'[r]]]]
      /\ UNCHANGED <<index, memory, stateLock, identityLock, memoryLock>>
      /\ \/ r \in Committed /\ Copy(s, r).generation = capsule[r].generation
            /\ capsule[r].identities \subseteq capsule'[r].identities
         \/ Creates(s) /\ r \notin Committed
      /\ identityLock # s =>
            capsule'[r].identities \subseteq IF r \in Committed THEN capsule[r].identities
                                                                 ELSE {}
  BY <1>0, CommitIs
<1>2. /\ Types /\ Busy(s) /\ SessionInv(s) /\ call[s] \in Call
      /\ call[s].cache \in [Run -> Aggregate \union {None}] /\ Cached(s) \subseteq Run
      /\ call \in [Session -> Call \union {Idle}] /\ IdentityHasOneRun /\ MemoryFollowsTasks
      /\ OneCreator
  BY <1>1, Here DEF IInv
<1>3. PICK w \in Aggregate : w = capsule'[r]
  BY <1>1
<1>4. /\ Copy(s, r).generation \in Nat /\ w.generation \in Nat /\ w.generation # 0
      /\ w.generation = Copy(s, r).generation + 1
  BY <1>1, <1>2, <1>3, CopyIs
<1> DEFINE c == [call[s] EXCEPT !.at = "index", !.dirty = FALSE,
                                !.cache = [call[s].cache EXCEPT ![r] = w]]
<1>5. call' = [call EXCEPT ![s] = c]
  BY <1>1, <1>3
<1>6. /\ c \in Call /\ c.cache = [call[s].cache EXCEPT ![r] = w] /\ c.run = call[s].run
      /\ c.at = "index" /\ c.dirty = FALSE
  BY <1>2 DEF Call, Places
<1> HIDE DEF c
<1>7. call'[s] = c /\ \A t \in Session \ {s} : call'[t] = call[t]
  BY <1>2, <1>5
<1>8. /\ Busy(s)' /\ Target(s)' = Target(s) /\ Cached(s)' = Cached(s) \union {r}
      /\ Copy(s, r)' = w /\ \A q \in Run \ {r} : Copy(s, q)' = Copy(s, q)
  BY <1>2, <1>6, <1>7, NewCopy
<1>9. Untouched(s)
  BY <1>1, <1>7 DEF Untouched
<1>10. Committed' = Committed \union {r} /\ Committed \subseteq Run
  <2>1. w \notin {Absent, Reserved}
    BY MarksAssumption
  <2> QED
    BY <1>1, <1>3, <2>1 DEF Committed
<1>11. Grown
  <2> SUFFICES ASSUME NEW q \in Committed
               PROVE  \/ capsule'[q] = capsule[q]
                      \/ /\ capsule'[q].generation \in Nat
                         /\ capsule'[q].generation > capsule[q].generation
                         /\ capsule[q].identities \subseteq capsule'[q].identities
    BY <1>10 DEF Grown
  <2>1. CASE q = r
    BY <1>1, <1>3, <1>4, <2>1
  <2>2. CASE q # r
    BY <1>1, <1>10, <2>2
  <2> QED
    BY <2>1, <2>2
<1>12. ASSUME NEW t \in Session \ {s}, identityLock = t PROVE NoneNew
  <2>1. capsule'[r].identities \subseteq IF r \in Committed THEN capsule[r].identities ELSE {}
    BY <1>1, <1>12
  <2>2. r \in Committed => capsule'[r].identities = capsule[r].identities
    BY <1>1, <2>1
  <2>3. r \notin Committed => capsule'[r].identities = {}
    BY <2>1
  <2> QED
    BY <1>1, <1>10, <2>2, <2>3 DEF NoneNew
<1>13. \A t \in Session \ {s} : Creates(t) => capsule'[Target(t)] = capsule[Target(t)]
  <2> SUFFICES ASSUME NEW t \in Session \ {s}, Creates(t)
               PROVE  capsule'[Target(t)] = capsule[Target(t)]
    OBVIOUS
  <2>1. Target(t) \in Run /\ CopyOf(t, Target(t))
    BY <1>2, BusyIs DEF Creates, IInv, SessionInv, CopiesOf
  <2>2. Target(t) \notin Committed
    BY <2>1 DEF CopyOf, Creates, Committed
  <2>3. Target(t) # r
    BY <1>0, <1>1, <1>2, <2>2 DEF OneCreator
  <2> QED
    BY <1>1, <2>1, <2>3
<1>14. LocksOf(s)'
  BY <1>0, <1>1, <1>2, <1>6, <1>7, <1>8 DEF SessionInv, LocksOf, At
<1>15. WorkOf(s)'
  BY <1>0, <1>1, <1>4, <1>6, <1>7, <1>8 DEF WorkOf, At
<1>16. CopiesOf(s)'
  <2>1. ASSUME NEW q \in Cached(s), q # r PROVE CopyOf(s, q)'
    <3>1. CopyOf(s, q) /\ Copy(s, q)' = Copy(s, q) /\ capsule'[q] = capsule[q]
          /\ (q \in Committed <=> q \in Committed')
      BY <1>1, <1>2, <1>8, <1>10, <2>1 DEF SessionInv, CopiesOf
    <3> QED
      BY <1>0, <1>1, <1>6, <1>7, <1>8, <2>1, <3>1 DEF CopyOf, At
  <2>2. CopyOf(s, r)'
    BY <1>3, <1>4, <1>8, <1>10 DEF CopyOf
  <2> QED
    BY <1>1, <1>8, <2>1, <2>2 DEF CopiesOf
<1>17. LeaseOf(s)'
  BY <1>6, <1>7 DEF LeaseOf
<1>18. SessionInv(s)'
  BY <1>14, <1>15, <1>16, <1>17 DEF SessionInv
<1>19. Types'
  <2>1. call' \in [Session -> Call \union {Idle}]
    BY <1>2, <1>5, <1>6
  <2>2. index' \in SUBSET Committed' /\ \A q \in Committed' : capsule'[q].generation # 0
    BY <1>1, <1>2, <1>3, <1>4, <1>10 DEF Types
  <2> QED
    BY <1>1, <1>2, <2>1, <2>2 DEF Types
<1>20. IdentityHasOneRun'
  <2>1. ASSUME NEW q \in Committed, q # r PROVE w.identities \intersect capsule[q].identities = {}
    <3>1. CASE identityLock = s
      BY <1>0, <1>1, <1>2, <1>3, <2>1, <3>1 DEF SessionInv, LeaseOf
    <3>2. CASE identityLock # s
      <4>1. w.identities \subseteq IF r \in Committed THEN capsule[r].identities ELSE {}
        BY <1>1, <1>3, <3>2
      <4> QED
        BY <1>2, <2>1, <4>1 DEF IdentityHasOneRun
    <3> QED
      BY <3>1, <3>2
  <2>2. ASSUME NEW p \in Committed', NEW q \in Committed', p # q
        PROVE  capsule'[p].identities \intersect capsule'[q].identities = {}
    <3>1. CASE p = r
      BY <1>1, <1>3, <1>10, <2>1, <2>2, <3>1
    <3>2. CASE q = r
      BY <1>1, <1>3, <1>10, <2>1, <2>2, <3>2
    <3>3. CASE p # r /\ q # r
      BY <1>1, <1>2, <1>10, <2>2, <3>3 DEF IdentityHasOneRun
    <3> QED
      BY <3>1, <3>2, <3>3
  <2> QED
    BY <2>2 DEF IdentityHasOneRun
<1>21. MemoryFollowsTasks'
  <2> SUFFICES ASSUME NEW q \in Run, memory[q] > 0
               PROVE  q \in Committed' /\ memory[q] <= capsule'[q].generation
    BY <1>1 DEF MemoryFollowsTasks
  <2>1. q \in Committed /\ memory[q] <= capsule[q].generation
    BY <1>2 DEF MemoryFollowsTasks
  <2>2. capsule[q].generation \in Nat /\ memory[q] \in Nat
    BY <1>2, <2>1, CommittedIs, UnitOfWorkAssumption DEF Types
  <2>3. CASE q = r
    BY <1>1, <1>3, <1>4, <1>10, <2>1, <2>2, <2>3
  <2>4. CASE q # r
    BY <1>1, <1>10, <2>1, <2>4
  <2> QED
    BY <2>3, <2>4
<1>22. ~Creates(s)'
  BY <1>0, <1>4, <1>8 DEF Creates
<1> QED
  BY <1>9, <1>11, <1>12, <1>13, <1>18, <1>19, <1>20, <1>21, <1>22, DiskStep

-----------------------------------------------------------------------------
(* The theorems. *)

\* At first no unit of work is open and no run has an identity.
LEMMA InitInv == Init => IInv
<1> SUFFICES ASSUME Init PROVE IInv
  OBVIOUS
<1>1. /\ capsule \in [Run -> {Absent, Created(1)}] /\ index = {} /\ memory = [r \in Run |-> 0]
      /\ call = [s \in Session |-> Idle] /\ stateLock = [r \in Run |-> None]
      /\ identityLock = None /\ memoryLock = None
  BY DEF Init
<1>2. /\ Created(1) \in Aggregate /\ Created(1).generation = 1 /\ Created(1).identities = {}
  BY UnitOfWorkAssumption DEF Created, Aggregate
<1>3. \A r \in Committed : capsule[r] = Created(1)
  BY <1>1 DEF Committed
<1>4. Types
  BY <1>1, <1>2, <1>3, UnitOfWorkAssumption DEF Types
<1>5. IdentityHasOneRun /\ MemoryFollowsTasks
  BY <1>1, <1>2, <1>3 DEF IdentityHasOneRun, MemoryFollowsTasks
<1>6. \A s \in Session : ~Busy(s) /\ call[s].at = "idle"
  BY <1>1 DEF Busy, Idle
<1>7. OneCreator
  BY <1>6 DEF OneCreator, Creates
<1>8. \A s \in Session : SessionInv(s)
  BY <1>1, <1>6, UnitOfWorkAssumption DEF SessionInv, LocksOf, WorkOf, CopiesOf, LeaseOf
<1> QED
  BY <1>4, <1>5, <1>7, <1>8 DEF IInv

\* Every step keeps the invariant.
LEMMA NextInv == IInv /\ [Next]_vars => IInv'
<1> SUFFICES ASSUME IInv, [Next]_vars PROVE IInv'
  OBVIOUS
<1>1. CASE UNCHANGED vars
  BY <1>1 DEF vars, locks, IInv, Types, IdentityHasOneRun, MemoryFollowsTasks, OneCreator,
              SessionInv, LocksOf, WorkOf, CopiesOf, CopyOf, LeaseOf, Creates, Busy, Copy,
              Committed, Target, Cached, At
<1>2. CASE Next
  <2>1. PICK s \in Session :
            \/ \E r \in Run : Begin(s, r) \/ Read(s, r) \/ ScanOne(s, r)
            \/ \E i \in Identity : AskIdentity(s, i)
            \/ Create(s) \/ Edit(s) \/ UseMemory(s)
            \/ TakeLease(s) \/ Relock(s) \/ Save(s)
            \/ Commit(s) \/ ListTasks(s) \/ WriteIndex(s) \/ CommitMemory(s)
            \/ Close(s) \/ Crash(s)
    BY <1>2 DEF Next
  <2>2. CASE \E r \in Run : Begin(s, r) \/ Read(s, r) \/ ScanOne(s, r)
    BY <2>2, BeginInv, ReadInv, ScanOneInv
  <2>3. CASE \E i \in Identity : AskIdentity(s, i)
    BY <2>3, AskIdentityInv
  <2>4. CASE Create(s) \/ Edit(s) \/ UseMemory(s)
    BY <2>4, CreateInv, EditInv, UseMemoryInv
  <2>5. CASE TakeLease(s) \/ Relock(s) \/ Save(s)
    BY <2>5, TakeLeaseInv, RelockInv, SaveInv
  <2>6. CASE Commit(s) \/ ListTasks(s) \/ WriteIndex(s) \/ CommitMemory(s)
    BY <2>6, CommitInv, ListTasksInv, WriteIndexInv, CommitMemoryInv
  <2>7. CASE Close(s) \/ Crash(s)
    BY <2>7, EndInv
  <2> QED
    BY <2>1, <2>2, <2>3, <2>4, <2>5, <2>6, <2>7
<1> QED
  BY <1>1, <1>2

\* The inductive invariant of the units of work.
THEOREM UnitOfWorkInvariant == Spec => []IInv
  BY InitInv, NextInv, PTL DEF Spec

\* However many units of work, of any processes, change, create and commit runs with lists
\* and documents read earlier, and wherever they stop: an identity is in one run, memory
\* refers to what is durable, and staged work has its lock.
THEOREM StoresAlwaysAgree == Spec => []StoresAgree
<1>1. IInv => StoresAgree
  <2> SUFFICES ASSUME IInv PROVE StoresAgree
    OBVIOUS
  <2>1. TypeOK
    <3>1. ASSUME NEW s \in Session, call[s] # Idle, call[s].dirty,
                 call[s].at \notin {"lease", "relock"}
          PROVE  Target(s) \in Held(s)
      <4>1. Target(s) \in Run /\ stateLock[Target(s)] = s
        BY <3>1, BusyIs DEF IInv, SessionInv, WorkOf, Busy
      <4> QED
        BY <4>1 DEF Held
    <3> QED
      BY <3>1 DEF IInv, Types, TypeOK
  <2> QED
    BY <2>1 DEF IInv, StoresAgree
<1> QED
  BY <1>1, UnitOfWorkInvariant, PTL

\* What is committed to a run stays: a unit of work with an older copy cannot commit it.
THEOREM IdentitiesStay == Spec => IdentitiesAreKept
<1>1. IInv /\ [Next]_vars =>
        [\A r \in Committed : /\ capsule'[r] \notin {Absent, Reserved}
                              /\ capsule[r].identities \subseteq capsule'[r].identities]_vars
  <2> SUFFICES ASSUME IInv, Next, NEW r \in Committed
               PROVE  /\ capsule'[r] \notin {Absent, Reserved}
                      /\ capsule[r].identities \subseteq capsule'[r].identities
    OBVIOUS
  <2>0. r \in Run /\ capsule[r] \notin {Absent, Reserved}
    BY DEF Committed
  <2>1. CASE capsule' = capsule
    BY <2>0, <2>1
  <2>2. ASSUME NEW s \in Session, Create(s) PROVE capsule'[r] = capsule[r]
    BY <2>0, <2>2 DEF Create, IInv, Types
  <2>3. ASSUME NEW s \in Session, Close(s) PROVE capsule'[r] = capsule[r]
    BY <2>0, <2>3 DEF Close
  <2>4. ASSUME NEW s \in Session, Commit(s)
        PROVE  /\ capsule'[r] \notin {Absent, Reserved}
               /\ capsule[r].identities \subseteq capsule'[r].identities
    <3>1. PICK q \in Run : q = Target(s)
      BY <2>4, Here DEF Commit, At
    <3>2. /\ capsule'[q] \in Aggregate /\ \A p \in Run \ {q} : capsule'[p] = capsule[p]
          /\ q \in Committed => capsule[q].identities \subseteq capsule'[q].identities
      BY <2>4, <3>1, CommitIs
    <3> QED
      BY <2>0, <3>2, MarksAssumption
  <2>5. (\E s \in Session : Create(s) \/ Close(s) \/ Commit(s)) \/ capsule' = capsule
    BY DEF Next, Begin, Read, ScanOne, AskIdentity, Edit, UseMemory, TakeLease, Relock, Save,
           ListTasks, WriteIndex, CommitMemory, Crash, OnlyCalls
  <2> QED
    BY <2>0, <2>1, <2>2, <2>3, <2>4, <2>5
<1> QED
  BY <1>1, UnitOfWorkInvariant, PTL DEF Spec, IdentitiesAreKept

\* Whose locks a unit of work may wait for, by where it is.
LEMMA BlockersAre ==
  ASSUME IInv, NEW s \in Session
  PROVE  /\ call[s].at \in {"idle", "index", "listed", "memory", "done"} => Blockers(s) = {}
         /\ At(s, "lease") => Blockers(s) \subseteq {identityLock}
         /\ call[s].at \in {"relock", "scan"} =>
                \A t \in Blockers(s) : t # s /\ \E r \in Run : stateLock[r] = t
         /\ At(s, "open") =>
                \A t \in Blockers(s) : t # s /\ t \in {memoryLock, stateLock[Target(s)]}
         /\ call[s].at \in Places \union {"idle"}
         /\ call[s].at # "idle" => Target(s) \in Run
<1>1. /\ call[s].at \in Places \union {"idle"}
      /\ call[s].at # "idle" => Target(s) \in Run /\ call[s].todo \in SUBSET Run
  BY BusyIs DEF IInv, At
<1>2. call[s].at \in {"idle", "index", "listed", "memory", "done"} => Blockers(s) = {}
  BY DEF Blockers, At
<1>3. At(s, "lease") => Blockers(s) \subseteq {identityLock}
  BY DEF Blockers, At
<1>4. call[s].at \in {"relock", "scan"} =>
          \A t \in Blockers(s) : t # s /\ \E r \in Run : stateLock[r] = t
  BY <1>1 DEF Blockers, At
<1>5. At(s, "open") =>
          \A t \in Blockers(s) : t # s /\ t \in {memoryLock, stateLock[Target(s)]}
  BY DEF Blockers, At
<1> QED
  BY <1>1, <1>2, <1>3, <1>4, <1>5

\* Who has the lock of a run is at work on it; who is on the way to look for an identity
\* has the lease, and nobody waits for the lease with a lock in hand.
LEMMA SomebodyGoesOn ==
  ASSUME IInv, NEW S \in SUBSET Session, S # {}
  PROVE  \E s \in S : Blockers(s) \intersect S = {}
<1>1. ASSUME NEW s \in Session
      PROVE  /\ \A r \in Run : stateLock[r] = s =>
                    /\ r = Target(s) /\ call[s].at # "lease" /\ call[s].at # "idle"
             /\ identityLock = s => call[s].at # "lease"
             /\ memoryLock = s => call[s].at \notin {"lease", "relock", "scan"}
             /\ call[s].at \in {"relock", "scan"} => identityLock = s
  BY BusyIs DEF IInv, SessionInv, LocksOf, At
<1>2. CASE \E s \in S : call[s].at \in {"idle", "index", "listed", "memory", "done"}
  BY <1>2, BlockersAre
<1>3. CASE \A s \in S : call[s].at \in {"open", "lease", "relock", "scan"}
  <2>1. CASE \E s \in S : memoryLock = s
    <3>1. PICK s \in S : memoryLock = s
      BY <2>1
    <3>2. At(s, "open")
      BY <1>1, <1>3, <3>1 DEF At
    <3>3. Blockers(s) = {}
      BY <3>1, <3>2 DEF Blockers, At
    <3> QED
      BY <3>3
  <2>2. CASE \E s \in S : At(s, "open") /\ stateLock[Target(s)] = s /\ memoryLock \notin S
    <3>1. PICK s \in S : At(s, "open") /\ stateLock[Target(s)] = s /\ memoryLock \notin S
      BY <2>2
    <3> QED
      BY <3>1, BlockersAre
  <2>3. CASE /\ memoryLock \notin S
             /\ \A s \in S : At(s, "open") => stateLock[Target(s)] # s
    <3>1. ASSUME NEW t \in S, NEW r \in Run, stateLock[r] = t
          PROVE  call[t].at \in {"relock", "scan"} /\ identityLock = t
      BY <1>1, <1>3, <2>3, <3>1 DEF At
    <3>2. CASE \E s \in S : call[s].at \in {"relock", "scan"}
      <4>1. PICK s \in S : call[s].at \in {"relock", "scan"}
        BY <3>2
      <4>2. identityLock = s
        BY <1>1, <4>1
      <4> QED
        BY <3>1, <4>1, <4>2, BlockersAre
    <3>3. CASE \E s \in S : At(s, "open") /\ \A t \in S : call[t].at \notin {"relock", "scan"}
      <4>1. PICK s \in S : At(s, "open")
        BY <3>3
      <4>2. Target(s) \in Run /\ stateLock[Target(s)] \notin S
        BY <3>1, <3>3, <4>1, BlockersAre DEF At
      <4> QED
        BY <2>3, <4>1, <4>2, BlockersAre
    <3>4. CASE \A s \in S : At(s, "lease")
      <4>1. identityLock \notin S
        BY <1>1, <3>4 DEF At
      <4> QED
        BY <3>4, <4>1, BlockersAre
    <3>5. \A s \in S : \/ call[s].at \in {"relock", "scan"} \/ At(s, "open") \/ At(s, "lease")
      BY <1>3 DEF At
    <3> QED
      BY <3>2, <3>3, <3>4, <3>5
  <2> QED
    BY <2>1, <2>2, <2>3
<1> QED
  <2>1. \A s \in Session : call[s].at \in Places \union {"idle"}
    BY BlockersAre
  <2> QED
    BY <1>2, <1>3, <2>1 DEF Places

\* However many units of work use runs, identities and memory together, in every set of them
\* there is one that waits for no other of the set: they are never all stuck.
THEOREM NobodyWaitsInACircle == Spec => []NoCircularWait
<1>1. IInv => NoCircularWait
  BY SomebodyGoesOn DEF NoCircularWait
<1> QED
  BY <1>1, UnitOfWorkInvariant, PTL

-----------------------------------------------------------------------------
(* The event stream: what a console shows of a history. *)

StreamEvents == [subject : OfRun \union Attempts, status : {d.status : d \in Drafts}, at : Times]
Messages == [type : {"events"}, events : SUBSET (1..Len(log))]
            \union [type : {"snapshot"}, cursor : 0..Len(log)]

IsWork(r) ==
    /\ r \in [at : {"idle", "staging", "committed", "publishing"}, events : Seq(StreamEvents),
             executions : {r.executions}, pending : Seq(1..Len(log))]
    /\ r.at = "staging" => Len(log) + Len(r.events) <= MaxEvents
WriterOf(p) == IsWork(uow[p]) /\ (lock = p <=> uow[p].at # "idle")

WorkTypes ==
    /\ setting \in Settings
    /\ log \in Seq(StreamEvents) /\ Len(log) <= MaxEvents
    /\ lock \in Processes \union {Nothing}
    /\ uow = [p \in Processes |-> uow[p]]
    /\ \A p \in Processes : WriterOf(p)

ServerTypes ==
    /\ bus \in [subscribed : BOOLEAN, callbacks : Seq(Nat), queue : Seq(Nat)]
    /\ Len(bus.queue) <= QueueSize
    /\ stream \in [at : {"closed", "subscribe", "snapshot", "replay", "report", "wait"},
                   cursor : 0..Len(log), state : 0..Len(log)]
    /\ channel \in Seq(Messages)
    /\ console \in [at : {"offline", "history", "connect", "open"}, cursor : 0..Len(log),
                    seen : 0..Len(log), shown : SUBSET (1..Len(log)),
                    pending : SUBSET (1..Len(log)), base : 0..Len(log)]

\* The console has the event, or it is on its way before the first messages are done with.
Comes(n, upTo) ==
    \/ n \in console.pending
    \/ \E j \in 1..upTo : channel[j].type = "events" /\ n \in channel[j].events

\* What the server is done with: all up to its cursor, or up to the state it has to report.
Sent == IF stream.at = "report" THEN stream.state ELSE stream.cursor

ConsoleFits ==
    /\ console.at # "offline" => console.cursor = console.seen
    /\ console.at = "connect" => console.pending = {}
    /\ console.at \in {"connect", "open"} => console.base <= console.seen
    /\ console.at = "open" => \A n \in console.pending : n > console.cursor
    /\ ShownIsGapless /\ Cardinality(console.shown) <= Window

\* The messages under way go on from what the console has.
ChannelFits ==
    /\ channel # <<>> => console.at = "open"
    /\ \A i \in DOMAIN channel :
         /\ channel[i].type = "events" => \A n \in channel[i].events : n > console.cursor
         /\ channel[i].type = "snapshot" =>
              /\ channel[i].cursor >= console.cursor
              /\ \A n \in console.cursor + 1..channel[i].cursor : Comes(n, i)
              /\ \A j \in i + 1..Len(channel) :
                   /\ channel[j].type = "snapshot" => channel[j].cursor >= channel[i].cursor
                   /\ channel[j].type = "events" =>
                        \A n \in channel[j].events : n > channel[i].cursor

\* The server goes on from what it has sent.
StreamFits ==
    stream.at # "closed" =>
        /\ console.at = "open"
        /\ stream.cursor >= console.cursor
        /\ stream.at \in {"replay", "report"} => stream.state >= stream.cursor
        /\ \A i \in DOMAIN channel :
             channel[i].type = "snapshot" => channel[i].cursor <= stream.cursor
        /\ \A n \in console.cursor + 1..Sent : Comes(n, Len(channel))

ViewFits == ConsoleFits /\ ChannelFits /\ StreamFits
StreamIInv == WorkTypes /\ ServerTypes /\ ViewFits

\* The later of two instants.
LEMMA LaterOfTwo ==
  ASSUME NEW a \in Int, NEW b \in Int
  PROVE  Max({a, b}) \in {a, b} /\ Max({a, b}) >= a /\ Max({a, b}) >= b
<1>1. \E x \in {a, b} : \A y \in {a, b} : x >= y
  OBVIOUS
<1> QED
  BY <1>1 DEF Max

\* The earlier of two numbers.
LEMMA LesserOfTwo ==
  ASSUME NEW a \in Int, NEW b \in Int
  PROVE  Min({a, b}) = IF a <= b THEN a ELSE b
<1>1. \E x \in {a, b} : \A y \in {a, b} : x <= y
  OBVIOUS
<1>2. Min({a, b}) \in {a, b} /\ Min({a, b}) <= a /\ Min({a, b}) <= b
  BY <1>1 DEF Min
<1> QED
  BY <1>2

\* Of a gapless range a merge keeps the latest.
LEMMA MergeKeepsLatest ==
  ASSUME NEW current, NEW incoming, NEW cursor \in Nat, NEW lo \in Nat, lo <= cursor,
         current \union {n \in incoming : n <= cursor} = lo + 1..cursor
  PROVE  Merge(current, incoming, cursor) = {n \in lo + 1..cursor : n > cursor - Window}
<1>1. ASSUME NEW n \in lo + 1..cursor
      PROVE  Cardinality({k \in lo + 1..cursor : k > n}) = cursor - n
  <2> DEFINE later == {k \in lo + 1..cursor : k > n}
             from == n + 1
  <2>1. later = from..cursor /\ from \in Int /\ cursor \in Int /\ n \in Int /\ n <= cursor
    OBVIOUS
  <2> HIDE DEF later
  <2>2. from = n + 1
    OBVIOUS
  <2> HIDE DEF from
  <2>3. Cardinality(later) = IF from > cursor THEN 0 ELSE cursor - from + 1
    BY <2>1, FS_Interval
  <2>4. (IF from > cursor THEN 0 ELSE cursor - from + 1) = cursor - n
    BY <2>1, <2>2
  <2> QED
    BY <2>3, <2>4 DEF later
<1>2. Merge(current, incoming, cursor)
        = {n \in lo + 1..cursor : Cardinality({k \in lo + 1..cursor : k > n}) < Window}
  BY DEF Merge
<1>3. \A n \in lo + 1..cursor : cursor - n < Window <=> n > cursor - Window
  BY StreamAssumption
<1> QED
  BY <1>1, <1>2, <1>3

\* A shorter merge is of the same events.
LEMMA MergeIsOfBoth ==
  ASSUME NEW current, NEW incoming, NEW cursor
  PROVE  Merge(current, incoming, cursor) \subseteq current \union incoming
BY DEF Merge

-----------------------------------------------------------------------------
(* The units of work. *)

GoesOnWith(p, r) ==
    /\ uow' = [uow EXCEPT ![p] = r]
    /\ lock' = IF r.at = "idle" THEN Nothing ELSE p

\* A writer, by what it keeps and who has the lock.
LEMMA WorkMoves ==
  ASSUME WorkTypes, NEW p \in Processes, NEW r, lock \in {Nothing, p},
         UNCHANGED <<setting, log>>, GoesOnWith(p, r),
         IsWork(r)
  PROVE  WorkTypes'
<1>1. Nothing \notin Processes
  BY StreamAssumption DEF Processes
<1>2. /\ StreamEvents' = StreamEvents /\ MaxEvents' = MaxEvents
  BY DEF StreamEvents, MaxEvents, Drafts, Times
<1>3. /\ uow'[p] = r /\ \A q \in Processes \ {p} : uow'[q] = uow[q]
      /\ lock' = IF r.at = "idle" THEN Nothing ELSE p
  BY DEF WorkTypes, GoesOnWith
<1>4. uow' = [q \in Processes |-> uow'[q]]
  BY DEF WorkTypes, GoesOnWith
<1>5. WriterOf(p)'
  BY <1>1, <1>2, <1>3 DEF WriterOf, IsWork
<1>6. ASSUME NEW q \in Processes \ {p} PROVE WriterOf(q)'
  <2>1. WriterOf(q) /\ lock # q /\ lock' # q
    BY <1>1, <1>3 DEF WorkTypes
  <2> QED
    BY <1>2, <1>3, <2>1 DEF WriterOf, IsWork
<1>7. lock' \in Processes \union {Nothing}
  BY <1>3
<1> QED
  BY <1>2, <1>4, <1>5, <1>6, <1>7 DEF WorkTypes

\* Nothing is held and nothing kept by a writer that has ended.
LEMMA EndsWork ==
  ASSUME WorkTypes, NEW p \in Processes, lock = p, EndWork(p), UNCHANGED <<setting, log>>
  PROVE  WorkTypes'
<1>1. IsWork(NoWork) /\ NoWork.at = "idle"
  BY DEF NoWork, IsWork
<1>2. lock \in {Nothing, p} /\ GoesOnWith(p, NoWork)
  BY <1>1 DEF EndWork, GoesOnWith
<1> QED
  BY <1>1, <1>2, WorkMoves

\* A view of the same messages by the same console, with the server as it was or gone.
LEMMA ViewStays ==
  ASSUME ViewFits, UNCHANGED <<channel, console>>, stream' = stream \/ stream' = NoStream
  PROVE  ViewFits'
<1>1. ConsoleFits'
  BY DEF ViewFits, ConsoleFits, ShownIsGapless
<1>2. \A n, k : Comes(n, k)' <=> Comes(n, k)
  BY DEF Comes
<1>3. ChannelFits'
  BY <1>2 DEF ViewFits, ChannelFits
<1>4. StreamFits'
  BY <1>2 DEF ViewFits, StreamFits, NoStream, Sent
<1> QED
  BY <1>1, <1>3, <1>4 DEF ViewFits

\* What the server keeps is of a history that has not changed.
LEMMA ServerStays ==
  ASSUME ServerTypes, UNCHANGED <<log, channel, console>>, stream' = stream \/ stream' = NoStream,
         bus' \in [subscribed : BOOLEAN, callbacks : Seq(Nat), queue : Seq(Nat)],
         Len(bus'.queue) <= QueueSize, Len(log) \in Nat
  PROVE  ServerTypes'
<1>1. Messages' = Messages
  BY DEF Messages
<1>2. NoStream \in [at : {"closed", "subscribe", "snapshot", "replay", "report", "wait"},
                    cursor : 0..Len(log), state : 0..Len(log)]
  BY DEF NoStream
<1> QED
  BY <1>1, <1>2 DEF ServerTypes

\* A stamp is one of the instants.
LEMMA StampIs ==
  ASSUME WorkTypes, NEW before \in Seq(StreamEvents), NEW at \in Times
  PROVE  Stamp(before, at) \in Times
<1>1. Times \subseteq Int
  BY StreamAssumption DEF WorkTypes, Times
<1>2. CASE before = <<>>
  BY <1>2 DEF Stamp
<1>3. CASE before # <<>>
  <2>1. before[Len(before)] \in StreamEvents
    BY <1>3
  <2>2. before[Len(before)].at \in Times
    BY <2>1 DEF StreamEvents
  <2>3. Max({before[Len(before)].at, at}) \in {before[Len(before)].at, at}
    BY <1>1, <2>2, LaterOfTwo
  <2> QED
    BY <1>3, <2>2, <2>3 DEF Stamp
<1> QED
  BY <1>2, <1>3

\* A unit of work with staged events.
LEMMA StagedWork ==
  ASSUME NEW e, NEW k
  PROVE  [NoWork EXCEPT !.at = "staging", !.events = e, !.executions = k]
           = [at |-> "staging", events |-> e, executions |-> k, pending |-> <<>>]
<1> DEFINE a == [NoWork EXCEPT !.at = "staging", !.events = e, !.executions = k]
<1>1. a \in [at : {"staging"}, events : {e}, executions : {k}, pending : {<<>>}]
  BY DEF NoWork
<1> HIDE DEF a
<1>2. a = [at |-> "staging", events |-> e, executions |-> k, pending |-> <<>>]
  BY <1>1
<1> QED
  BY <1>2 DEF a

\* An event is staged.
LEMMA StageKeeps ==
  ASSUME StreamIInv, NEW p \in Processes, Stage(p)
  PROVE  StreamIInv'
<1> DEFINE attempts == IF lock = p THEN uow[p].executions ELSE executions
           before == log \o uow[p].events
           eventOf(d, t) == [subject |-> d.subject, status |-> d.status, at |-> Stamp(before, t)]
           keptOf(d, t) ==
             IF d.subject \notin Attempts THEN attempts
             ELSE [attempts EXCEPT ![d.subject] =
                     [status |-> d.status,
                      timing |-> Timing(Append(before, eventOf(d, t)), d.subject, t)]]
<1>1. WorkTypes /\ ServerTypes /\ ViewFits /\ WriterOf(p)
  BY DEF StreamIInv, WorkTypes
<1>2. PICK draft \in Drafts, at \in Times :
        uow' = [uow EXCEPT ![p] =
                  [NoWork EXCEPT !.at = "staging",
                                 !.events = Append(uow[p].events, eventOf(draft, at)),
                                 !.executions = keptOf(draft, at)]]
  BY DEF Stage
<1> DEFINE event == eventOf(draft, at)
           kept == keptOf(draft, at)
           r == [at |-> "staging", events |-> Append(uow[p].events, event),
                 executions |-> kept, pending |-> <<>>]
<1>3. uow' = [uow EXCEPT ![p] = r]
  <2> HIDE DEF event, kept, eventOf, keptOf
  <2>1. [NoWork EXCEPT !.at = "staging", !.events = Append(uow[p].events, event),
                       !.executions = kept] = r
    BY StagedWork
  <2> HIDE DEF r
  <2> QED
    BY <1>2, <2>1 DEF event, kept
<1>4. /\ uow[p].events \in Seq(StreamEvents) /\ log \in Seq(StreamEvents)
      /\ Len(log) \in Nat /\ Len(uow[p].events) \in Nat /\ MaxEvents \in Nat
  BY <1>1, StreamAssumption DEF WriterOf, IsWork, WorkTypes, MaxEvents
<1>5. Stamp(before, at) \in Times
  <2>1. before \in Seq(StreamEvents)
    BY <1>4
  <2> HIDE DEF before
  <2> QED
    BY <1>1, <2>1, StampIs
<1>6. draft.subject \in OfRun \union Attempts
  BY <1>1, StreamAssumption DEF WorkTypes, Drafts, Attempts
<1>7. event \in StreamEvents
  <2> HIDE DEF before
  <2> QED
    BY <1>5, <1>6 DEF StreamEvents
<1>8. /\ Len(log) + Len(uow[p].events) < MaxEvents /\ lock \in {Nothing, p} /\ lock' = p
      /\ UNCHANGED <<setting, log, bus, stream, channel, console>>
  BY DEF Stage, OnlyWork, saved, server
<1> HIDE DEF kept, event, keptOf, eventOf
<1>9. /\ Append(uow[p].events, event) \in Seq(StreamEvents)
      /\ Len(Append(uow[p].events, event)) = Len(uow[p].events) + 1
  BY <1>4, <1>7
<1>10. /\ IsWork(r)
       /\ GoesOnWith(p, r)
  BY <1>3, <1>4, <1>8, <1>9 DEF IsWork, GoesOnWith
<1> HIDE DEF r
<1>11. WorkTypes'
  BY <1>1, <1>8, <1>10, WorkMoves
<1>12. ServerTypes'
  BY <1>1, <1>4, <1>8, ServerStays DEF ServerTypes
<1>13. ViewFits'
  BY <1>1, <1>8, ViewStays
<1> QED
  BY <1>11, <1>12, <1>13 DEF StreamIInv

\* A writer gives up, or announces nothing.
LEMMA EndingKeeps ==
  ASSUME StreamIInv, NEW p \in Processes, Abort(p) \/ MemoryFails(p)
  PROVE  StreamIInv'
<1>1. WorkTypes /\ ServerTypes /\ ViewFits /\ WriterOf(p) /\ Len(log) \in Nat
  BY DEF StreamIInv, WorkTypes
<1>2. /\ uow[p].at # "idle" /\ EndWork(p)
      /\ UNCHANGED <<setting, log, bus, stream, channel, console>>
  BY DEF Abort, MemoryFails, OnlyWork, saved, server
<1>3. lock = p
  BY <1>1, <1>2 DEF WriterOf
<1>4. WorkTypes'
  BY <1>1, <1>2, <1>3, EndsWork
<1> QED
  BY <1>1, <1>2, <1>4, ServerStays, ViewStays DEF StreamIInv, ServerTypes

\* A sequence of some is a sequence of more.
LEMMA SeqOfMore ==
  ASSUME NEW S, NEW T, S \subseteq T, NEW t \in Seq(S)
  PROVE  t \in Seq(T)
OBVIOUS

\* A longer history has all that the server and the console have.
LEMMA ServerGrows ==
  ASSUME ServerTypes, Len(log) \in Nat, Len(log') \in Nat, Len(log) <= Len(log'),
         UNCHANGED <<bus, stream, channel, console>>
  PROVE  ServerTypes'
<1>1. 0..Len(log) \subseteq 0..Len(log') /\ 1..Len(log) \subseteq 1..Len(log')
  OBVIOUS
<1>2. Messages \subseteq Messages'
  BY <1>1 DEF Messages
<1>3. channel \in Seq(Messages')
  BY <1>2 DEF ServerTypes
<1>4. stream \in [at : {"closed", "subscribe", "snapshot", "replay", "report", "wait"},
                  cursor : 0..Len(log'), state : 0..Len(log')]
  BY <1>1 DEF ServerTypes
<1>5. console \in [at : {"offline", "history", "connect", "open"}, cursor : 0..Len(log'),
                   seen : 0..Len(log'), shown : SUBSET (1..Len(log')),
                   pending : SUBSET (1..Len(log')), base : 0..Len(log')]
  <2>1. SUBSET (1..Len(log)) \subseteq SUBSET (1..Len(log'))
    BY <1>1
  <2> QED
    BY <1>1, <2>1 DEF ServerTypes
<1> QED
  BY <1>3, <1>4, <1>5 DEF ServerTypes

\* A capsule is committed.
LEMMA CommitCapsuleKeeps ==
  ASSUME StreamIInv, NEW p \in Processes, CommitCapsule(p)
  PROVE  StreamIInv'
<1>1. WorkTypes /\ ServerTypes /\ ViewFits /\ WriterOf(p)
  BY DEF StreamIInv, WorkTypes
<1> DEFINE pending == [i \in DOMAIN uow[p].events |-> Len(log) + i]
           r == [NoWork EXCEPT !.at = "committed", !.pending = pending]
<1>2. /\ uow[p].at = "staging" /\ log' = log \o uow[p].events
      /\ uow' = [uow EXCEPT ![p] = r]
      /\ UNCHANGED <<setting, lock, bus, stream, channel, console>>
  BY DEF CommitCapsule, OnlyWork, server
<1>3. /\ uow[p].events \in Seq(StreamEvents) /\ log \in Seq(StreamEvents)
      /\ Len(log) \in Nat /\ Len(uow[p].events) \in Nat
      /\ Len(log) + Len(uow[p].events) <= MaxEvents /\ lock = p
  BY <1>1, <1>2 DEF WriterOf, IsWork, WorkTypes
<1>4. StreamEvents' = StreamEvents /\ MaxEvents' = MaxEvents
  BY <1>2 DEF StreamEvents, MaxEvents, Drafts, Times
<1>5. log' \in Seq(StreamEvents) /\ Len(log') = Len(log) + Len(uow[p].events)
  BY <1>2, <1>3
<1>6. pending \in Seq(1..Len(log'))
  <2>1. \A i \in 1..Len(uow[p].events) : Len(log) + i \in 1..Len(log')
    BY <1>3, <1>5
  <2>2. DOMAIN uow[p].events = 1..Len(uow[p].events)
    BY <1>3
  <2>3. pending \in [1..Len(uow[p].events) -> 1..Len(log')]
    BY <2>1, <2>2
  <2> HIDE DEF pending
  <2> QED
    BY <1>3, <2>3
<1> HIDE DEF pending
<1>7. r \in [at : {"committed"}, events : {<<>>}, executions : {<<>>}, pending : {pending}]
  BY DEF NoWork
<1> HIDE DEF r
<1>8. /\ r.at = "committed" /\ r.executions = <<>>
      /\ r \in [at : {"idle", "staging", "committed", "publishing"}, events : Seq(StreamEvents),
                executions : {<<>>}, pending : Seq(1..Len(log'))]
  <2>1. <<>> \in Seq(StreamEvents)
    OBVIOUS
  <2> QED
    BY <1>6, <1>7, <2>1
<1>9. uow'[p] = r /\ \A q \in Processes \ {p} : uow'[q] = uow[q]
  BY <1>1, <1>2 DEF WorkTypes
<1>10. uow' = [q \in Processes |-> uow'[q]]
  BY <1>1, <1>2 DEF WorkTypes
<1>11. WriterOf(p)'
  BY <1>2, <1>3, <1>4, <1>8, <1>9 DEF WriterOf, IsWork
<1>12. ASSUME NEW q \in Processes \ {p} PROVE WriterOf(q)'
  <2>1. WriterOf(q) /\ lock # q /\ uow[q].at = "idle"
    BY <1>1, <1>3 DEF WorkTypes, WriterOf
  <2>2. uow[q].pending \in Seq(1..Len(log'))
    <3>1. uow[q].pending \in Seq(1..Len(log))
      BY <2>1 DEF WriterOf, IsWork
    <3>2. 1..Len(log) \subseteq 1..Len(log')
      BY <1>3, <1>5
    <3> QED
      BY <3>1, <3>2, SeqOfMore
  <2> QED
    BY <1>2, <1>4, <1>9, <2>1, <2>2 DEF WriterOf, IsWork
<1>13. WorkTypes'
  BY <1>1, <1>2, <1>3, <1>4, <1>5, <1>10, <1>11, <1>12 DEF WorkTypes
<1>14. ServerTypes'
  <2>1. Len(log') \in Nat /\ Len(log) <= Len(log')
    BY <1>3, <1>5
  <2> QED
    BY <1>1, <1>2, <1>3, <2>1, ServerGrows
<1> QED
  BY <1>1, <1>2, <1>13, <1>14, ViewStays DEF StreamIInv

\* An event is announced, or the writer is done.
LEMMA PublishKeeps ==
  ASSUME StreamIInv, NEW p \in Processes, Publish(p)
  PROVE  StreamIInv'
<1>1. WorkTypes /\ ServerTypes /\ ViewFits /\ WriterOf(p) /\ Len(log) \in Nat
  BY DEF StreamIInv, WorkTypes
<1>2. /\ uow[p].at \in {"committed", "publishing"}
      /\ UNCHANGED <<setting, log, stream, channel, console>>
  BY DEF Publish, saved
<1>3. lock = p
  BY <1>1, <1>2 DEF WriterOf
<1>4. CASE uow[p].pending = <<>>
  <2>1. EndWork(p) /\ bus' = bus
    BY <1>4 DEF Publish
  <2>2. WorkTypes'
    BY <1>1, <1>2, <1>3, <2>1, EndsWork
  <2> QED
    BY <1>1, <1>2, <2>1, <2>2, ServerStays, ViewStays DEF StreamIInv, ServerTypes
<1>5. CASE uow[p].pending # <<>>
  <2> DEFINE r == [uow[p] EXCEPT !.at = "publishing", !.pending = Tail(@)]
  <2>1. /\ uow' = [uow EXCEPT ![p] = r] /\ lock' = lock
        /\ bus' = IF p = "api" /\ bus.subscribed
                  THEN [bus EXCEPT !.callbacks = Append(@, Head(uow[p].pending))] ELSE bus
    BY <1>1, <1>5 DEF Publish, WorkTypes
  <2>2. /\ uow[p] \in [at : {"idle", "staging", "committed", "publishing"},
                       events : Seq(StreamEvents), executions : {uow[p].executions},
                       pending : Seq(1..Len(log))]
        /\ Tail(uow[p].pending) \in Seq(1..Len(log)) /\ Head(uow[p].pending) \in Nat
    <3>1. /\ uow[p] \in [at : {"idle", "staging", "committed", "publishing"},
                         events : Seq(StreamEvents), executions : {uow[p].executions},
                         pending : Seq(1..Len(log))]
      BY <1>1 DEF WriterOf, IsWork
    <3> DEFINE t == uow[p].pending
               S == 1..Len(log)
    <3>2. t \in Seq(S) /\ t # <<>> /\ S \subseteq Nat
      BY <1>1, <1>5, <3>1
    <3> HIDE DEF t, S
    <3>3. Tail(t) \in Seq(S) /\ Head(t) \in S
      BY <3>2
    <3> QED
      BY <3>1, <3>2, <3>3 DEF t, S
  <2>3. r \in [at : {"publishing"}, events : Seq(StreamEvents),
               executions : {uow[p].executions}, pending : Seq(1..Len(log))]
    BY <2>2
  <2> HIDE DEF r
  <2>4. IsWork(r) /\ r.at = "publishing"
    BY <2>3 DEF IsWork
  <2>5. GoesOnWith(p, r)
    BY <1>3, <2>1, <2>4 DEF GoesOnWith
  <2>6. WorkTypes'
    BY <1>1, <1>2, <1>3, <2>4, <2>5, WorkMoves
  <2>7. /\ bus' \in [subscribed : BOOLEAN, callbacks : Seq(Nat), queue : Seq(Nat)]
        /\ bus'.queue = bus.queue
    <3>1. bus \in [subscribed : BOOLEAN, callbacks : Seq(Nat), queue : Seq(Nat)]
      BY <1>1 DEF ServerTypes
    <3> DEFINE c == Append(bus.callbacks, Head(uow[p].pending))
    <3>2. c \in Seq(Nat)
      BY <2>2, <3>1
    <3>3. bus' = bus \/ bus' = [bus EXCEPT !.callbacks = c]
      BY <2>1
    <3> HIDE DEF c
    <3> QED
      BY <3>1, <3>2, <3>3
  <2>8. ServerTypes'
    BY <1>1, <1>2, <2>7, ServerStays DEF ServerTypes
  <2> QED
    BY <1>1, <1>2, <2>6, <2>8, ViewStays DEF StreamIInv
<1> QED
  BY <1>4, <1>5

\* What the writers keep is of a history that has not changed.
LEMMA WorkStays ==
  ASSUME WorkTypes, UNCHANGED <<setting, log, uow, lock>>
  PROVE  WorkTypes'
<1>1. StreamEvents' = StreamEvents /\ MaxEvents' = MaxEvents
  BY DEF StreamEvents, MaxEvents, Drafts, Times
<1>2. \A p \in Processes : WriterOf(p)'
  BY <1>1 DEF WorkTypes, WriterOf, IsWork
<1> QED
  BY <1>1, <1>2 DEF WorkTypes

\* Nobody has subscribed.
LEMMA NobodySubscribed ==
  ASSUME NEW s \in BOOLEAN
  PROVE  LET b == [NoBus EXCEPT !.subscribed = s] IN
         /\ b \in [subscribed : BOOLEAN, callbacks : Seq(Nat), queue : Seq(Nat)]
         /\ NoBus \in [subscribed : BOOLEAN, callbacks : Seq(Nat), queue : Seq(Nat)]
         /\ Len(b.queue) <= QueueSize /\ Len(NoBus.queue) <= QueueSize
<1> DEFINE b == [NoBus EXCEPT !.subscribed = s]
<1>1. <<>> \in Seq(Nat) /\ Len(<<>>) <= QueueSize
  BY StreamAssumption
<1>2. /\ b \in [subscribed : {s}, callbacks : {<<>>}, queue : {<<>>}]
      /\ NoBus \in [subscribed : {FALSE}, callbacks : {<<>>}, queue : {<<>>}]
  BY DEF NoBus
<1> HIDE DEF b
<1>3. /\ b \in [subscribed : BOOLEAN, callbacks : Seq(Nat), queue : Seq(Nat)]
      /\ NoBus \in [subscribed : BOOLEAN, callbacks : Seq(Nat), queue : Seq(Nat)]
      /\ b.queue = <<>> /\ NoBus.queue = <<>>
  BY <1>1, <1>2
<1> QED
  BY <1>1, <1>3 DEF b

\* A process ends.
LEMMA EndProcessKeepsView ==
  ASSUME StreamIInv, NEW p \in Processes, EndProcess(p)
  PROVE  StreamIInv'
<1>1. WorkTypes /\ ServerTypes /\ ViewFits /\ Len(log) \in Nat
  BY DEF StreamIInv, WorkTypes
<1>2. /\ UNCHANGED <<setting, log, channel, console>>
      /\ \/ bus' = NoBus /\ stream' = NoStream
         \/ UNCHANGED <<bus, stream>>
  BY DEF EndProcess, saved, server
<1>3. WorkTypes'
  <2>1. CASE lock = p
    <3>1. EndWork(p)
      BY <2>1 DEF EndProcess
    <3> QED
      BY <1>1, <1>2, <2>1, <3>1, EndsWork
  <2>2. CASE lock # p
    <3>1. UNCHANGED <<uow, lock>>
      BY <2>2 DEF EndProcess
    <3> QED
      BY <1>1, <1>2, <3>1, WorkStays
  <2> QED
    BY <2>1, <2>2
<1>4. /\ bus' \in [subscribed : BOOLEAN, callbacks : Seq(Nat), queue : Seq(Nat)]
      /\ Len(bus'.queue) <= QueueSize
  BY <1>1, <1>2, NobodySubscribed DEF ServerTypes
<1> QED
  BY <1>1, <1>2, <1>3, <1>4, ServerStays, ViewStays DEF StreamIInv

-----------------------------------------------------------------------------
(* The server. *)

\* A notification is offered.
LEMMA OfferKeeps ==
  ASSUME StreamIInv, Offer
  PROVE  StreamIInv'
<1>1. WorkTypes /\ ServerTypes /\ ViewFits /\ Len(log) \in Nat
  BY DEF StreamIInv, WorkTypes
<1> DEFINE room == IF Len(bus.queue) < QueueSize THEN bus.queue ELSE Tail(bus.queue)
           queue == Append(room, Head(bus.callbacks))
<1>2. /\ bus.callbacks # <<>>
      /\ bus' = [bus EXCEPT !.callbacks = Tail(@), !.queue = queue]
      /\ UNCHANGED <<setting, log, uow, lock, stream, channel, console>>
  BY DEF Offer, OnlyServer, saved
<1>3. /\ bus \in [subscribed : BOOLEAN, callbacks : Seq(Nat), queue : Seq(Nat)]
      /\ Len(bus.queue) <= QueueSize /\ QueueSize \in Nat /\ QueueSize > 0
  BY <1>1, StreamAssumption DEF ServerTypes
<1>4. Head(bus.callbacks) \in Nat /\ Tail(bus.callbacks) \in Seq(Nat)
  BY <1>2, <1>3
<1>5. room \in Seq(Nat) /\ Len(room) + 1 <= QueueSize
  <2>1. CASE Len(bus.queue) < QueueSize
    BY <1>3, <2>1
  <2>2. CASE Len(bus.queue) = QueueSize
    <3>1. bus.queue \in Seq(Nat) /\ bus.queue # <<>>
      BY <1>3, <2>2
    <3> QED
      BY <1>3, <2>2, <3>1
  <2> QED
    BY <1>3, <2>1, <2>2
<1> HIDE DEF room
<1>6. queue \in Seq(Nat) /\ Len(queue) <= QueueSize
  BY <1>4, <1>5
<1> HIDE DEF queue
<1>7. /\ bus' \in [subscribed : BOOLEAN, callbacks : Seq(Nat), queue : Seq(Nat)]
      /\ bus'.queue = queue
  BY <1>2, <1>3, <1>4, <1>6
<1>8. ServerTypes'
  BY <1>1, <1>2, <1>6, <1>7, ServerStays
<1> QED
  BY <1>1, <1>2, <1>8, WorkStays, ViewStays DEF StreamIInv

StreamPlaces == {"closed", "subscribe", "snapshot", "replay", "report", "wait"}

\* A server at another place, with the same sent.
LEMMA ServerGoesOn ==
  ASSUME ViewFits, UNCHANGED <<channel, console>>, stream.at # "closed",
         stream'.cursor = stream.cursor, Sent' = Sent,
         stream'.at \in {"replay", "report"} => stream'.state >= stream'.cursor
  PROVE  ViewFits'
<1>1. ConsoleFits'
  BY DEF ViewFits, ConsoleFits, ShownIsGapless
<1>2. \A n, k : Comes(n, k)' <=> Comes(n, k)
  BY DEF Comes
<1>3. ChannelFits'
  BY <1>2 DEF ViewFits, ChannelFits
<1>4. StreamFits'
  BY <1>2 DEF ViewFits, StreamFits
<1> QED
  BY <1>1, <1>3, <1>4 DEF ViewFits

\* The server's step has types.
LEMMA ServerSteps ==
  ASSUME StreamIInv, OnlyServer, channel' = channel,
         bus' \in [subscribed : BOOLEAN, callbacks : Seq(Nat), queue : Seq(Nat)],
         Len(bus'.queue) <= QueueSize,
         stream' \in [at : StreamPlaces, cursor : 0..Len(log), state : 0..Len(log)]
  PROVE  WorkTypes' /\ ServerTypes'
<1>1. WorkTypes /\ ServerTypes
  BY DEF StreamIInv
<1>2. UNCHANGED <<setting, log, uow, lock, console>>
  BY DEF OnlyServer, saved
<1>3. Messages' = Messages
  BY <1>2 DEF Messages
<1> QED
  BY <1>1, <1>2, <1>3, WorkStays DEF ServerTypes, StreamPlaces

\* The server subscribes before it looks.
LEMMA SubscribeKeeps ==
  ASSUME StreamIInv, Subscribe
  PROVE  StreamIInv'
<1>1. /\ stream \in [at : StreamPlaces, cursor : 0..Len(log), state : 0..Len(log)]
      /\ ViewFits
  BY DEF StreamIInv, ServerTypes, StreamPlaces
<1>2. /\ stream.at = "subscribe" /\ stream' = [stream EXCEPT !.at = "snapshot"]
      /\ bus' = [NoBus EXCEPT !.subscribed = TRUE] /\ OnlyServer /\ channel' = channel
  BY DEF Subscribe
<1>3. /\ stream' \in [at : StreamPlaces, cursor : 0..Len(log), state : 0..Len(log)]
      /\ stream'.at = "snapshot" /\ stream'.cursor = stream.cursor
  BY <1>1, <1>2 DEF StreamPlaces
<1>4. /\ bus' \in [subscribed : BOOLEAN, callbacks : Seq(Nat), queue : Seq(Nat)]
      /\ Len(bus'.queue) <= QueueSize
  BY <1>2, NobodySubscribed
<1>5. Sent' = Sent
  BY <1>2, <1>3 DEF Sent
<1> QED
  BY <1>1, <1>2, <1>3, <1>4, <1>5, ServerSteps, ServerGoesOn DEF StreamIInv, OnlyServer

\* A snapshot is of the whole history.
LEMMA SnapshotIs ==
  ASSUME NEW n, Snapshot(n)
  PROVE  lock = Nothing /\ n = Len(log)
BY DEF Snapshot, HistoryLocked

\* The server looks at the history.
LEMMA TakeSnapshotKeeps ==
  ASSUME StreamIInv, TakeSnapshot
  PROVE  StreamIInv'
<1>1. /\ stream \in [at : StreamPlaces, cursor : 0..Len(log), state : 0..Len(log)]
      /\ bus \in [subscribed : BOOLEAN, callbacks : Seq(Nat), queue : Seq(Nat)]
      /\ Len(bus.queue) <= QueueSize
      /\ ViewFits /\ Len(log) \in Nat
  BY DEF StreamIInv, ServerTypes, WorkTypes, StreamPlaces
<1>2. /\ stream.at = "snapshot" /\ OnlyServer /\ channel' = channel
      /\ \/ stream' = NoStream /\ bus' = NoBus
         \/ /\ stream' = [stream EXCEPT !.at = "replay", !.state = Len(log)]
            /\ stream.cursor <= Len(log) /\ bus' = bus
  <2>1. PICK n \in 0..MaxEvents :
          /\ Snapshot(n)
          /\ IF stream.cursor > n THEN stream' = NoStream /\ bus' = NoBus
             ELSE stream' = [stream EXCEPT !.at = "replay", !.state = n] /\ UNCHANGED bus
    BY DEF TakeSnapshot
  <2>2. n = Len(log)
    BY <2>1, SnapshotIs
  <2> QED
    BY <1>1, <2>1, <2>2 DEF TakeSnapshot
<1>3. CASE stream' = NoStream /\ bus' = NoBus
  <2>1. NoStream \in [at : StreamPlaces, cursor : 0..Len(log), state : 0..Len(log)]
    BY <1>1 DEF NoStream, StreamPlaces
  <2> QED
    BY <1>1, <1>2, <1>3, <2>1, NobodySubscribed, ServerSteps, ViewStays DEF StreamIInv, OnlyServer
<1>4. CASE /\ stream' = [stream EXCEPT !.at = "replay", !.state = Len(log)]
           /\ stream.cursor <= Len(log) /\ bus' = bus
  <2>1. /\ stream' \in [at : StreamPlaces, cursor : 0..Len(log), state : 0..Len(log)]
        /\ stream'.at = "replay" /\ stream'.cursor = stream.cursor /\ stream'.state = Len(log)
    <3> DEFINE n == Len(log)
    <3>1. /\ n \in 0..n /\ stream' = [stream EXCEPT !.at = "replay", !.state = n]
          /\ stream \in [at : StreamPlaces, cursor : 0..n, state : 0..n]
      BY <1>1, <1>4
    <3> HIDE DEF n
    <3>2. /\ stream' \in [at : StreamPlaces, cursor : 0..n, state : 0..n]
          /\ stream'.at = "replay" /\ stream'.cursor = stream.cursor /\ stream'.state = n
      BY <3>1 DEF StreamPlaces
    <3> QED
      BY <3>2 DEF n
  <2>2. Sent' = Sent
    BY <1>2, <2>1 DEF Sent
  <2> QED
    BY <1>1, <1>2, <1>4, <2>1, <2>2, ServerSteps, ServerGoesOn DEF StreamIInv, OnlyServer
<1> QED
  BY <1>2, <1>3, <1>4

\* The server goes on, on a notification or without one.
LEMMA WaitEnds ==
  ASSUME StreamIInv, Receive \/ Wake
  PROVE  StreamIInv'
<1>1. /\ stream \in [at : StreamPlaces, cursor : 0..Len(log), state : 0..Len(log)]
      /\ bus \in [subscribed : BOOLEAN, callbacks : Seq(Nat), queue : Seq(Nat)]
      /\ Len(bus.queue) <= QueueSize /\ ViewFits
  BY DEF StreamIInv, ServerTypes, StreamPlaces
<1>2. /\ stream.at = "wait" /\ stream' = [stream EXCEPT !.at = "snapshot"]
      /\ OnlyServer /\ channel' = channel
      /\ \/ bus' = bus
         \/ bus.queue # <<>> /\ bus' = [bus EXCEPT !.queue = Tail(bus.queue)]
  BY DEF Receive, Wake
<1>3. /\ stream' \in [at : StreamPlaces, cursor : 0..Len(log), state : 0..Len(log)]
      /\ stream'.at = "snapshot" /\ stream'.cursor = stream.cursor
  BY <1>1, <1>2 DEF StreamPlaces
<1>4. /\ bus' \in [subscribed : BOOLEAN, callbacks : Seq(Nat), queue : Seq(Nat)]
      /\ Len(bus'.queue) <= QueueSize
  <2>1. CASE bus' = bus
    BY <1>1, <2>1
  <2>2. CASE bus.queue # <<>> /\ bus' = [bus EXCEPT !.queue = Tail(bus.queue)]
    <3> DEFINE t == Tail(bus.queue)
    <3>1. t \in Seq(Nat) /\ Len(t) <= QueueSize
      BY <1>1, <2>2, StreamAssumption
    <3> HIDE DEF t
    <3>2. bus' = [bus EXCEPT !.queue = t]
      BY <2>2 DEF t
    <3> QED
      BY <1>1, <3>1, <3>2
  <2> QED
    BY <1>2, <2>1, <2>2
<1>5. Sent' = Sent
  BY <1>2, <1>3 DEF Sent
<1> QED
  BY <1>1, <1>2, <1>3, <1>4, <1>5, ServerSteps, ServerGoesOn DEF StreamIInv, OnlyServer

\* A message is sent after the others.
LEMMA Sending ==
  ASSUME channel \in Seq(Messages), NEW m \in Messages, Send(m), console' = console
  PROVE  /\ channel' \in Seq(Messages) /\ Len(channel') = Len(channel) + 1
         /\ Len(channel) \in Nat /\ channel' # <<>>
         /\ DOMAIN channel = 1..Len(channel) /\ DOMAIN channel' = 1..Len(channel) + 1
         /\ \A i \in DOMAIN channel : channel'[i] = channel[i]
         /\ channel'[Len(channel) + 1] = m
         /\ \A n : \A k \in 0..Len(channel) : Comes(n, k)' <=> Comes(n, k)
         /\ \A n, k : k = Len(channel) + 1 =>
              /\ m.type = "events" /\ n \in m.events => Comes(n, k)'
              /\ Comes(n, Len(channel)) => Comes(n, k)'
<1>1. channel' = Append(channel, m)
  BY DEF Send
<1>2. /\ channel' \in Seq(Messages) /\ Len(channel') = Len(channel) + 1
      /\ Len(channel) \in Nat /\ channel' # <<>>
      /\ DOMAIN channel = 1..Len(channel) /\ DOMAIN channel' = 1..Len(channel) + 1
      /\ \A i \in DOMAIN channel : channel'[i] = channel[i]
      /\ channel'[Len(channel) + 1] = m
  BY <1>1
<1>3. \A n : \A k \in 0..Len(channel) : Comes(n, k)' <=> Comes(n, k)
  BY <1>2 DEF Comes
<1>4. ASSUME NEW n, NEW k, k = Len(channel) + 1
      PROVE  /\ m.type = "events" /\ n \in m.events => Comes(n, k)'
             /\ Comes(n, Len(channel)) => Comes(n, k)'
  BY <1>2, <1>4 DEF Comes
<1> QED
  BY <1>2, <1>3, <1>4

\* The server sends what it has missed.
LEMMA ReplayKeeps ==
  ASSUME StreamIInv, Replay
  PROVE  StreamIInv'
<1> DEFINE batch == Missed(stream.cursor, stream.state)
           m == [type |-> "events", events |-> batch]
<1>1. /\ stream \in [at : StreamPlaces, cursor : 0..Len(log), state : 0..Len(log)]
      /\ bus \in [subscribed : BOOLEAN, callbacks : Seq(Nat), queue : Seq(Nat)]
      /\ Len(bus.queue) <= QueueSize
      /\ ViewFits /\ Len(log) \in Nat /\ channel \in Seq(Messages)
      /\ console.cursor \in Nat
  BY DEF StreamIInv, ServerTypes, WorkTypes, StreamPlaces
<1>2. /\ stream.at = "replay" /\ OnlyServer /\ bus' = bus
      /\ stream' = [stream EXCEPT !.at = "report"]
      /\ IF batch = {} THEN channel' = channel ELSE Send(m)
  BY DEF Replay
<1>3. /\ stream' \in [at : StreamPlaces, cursor : 0..Len(log), state : 0..Len(log)]
      /\ stream'.at = "report" /\ stream'.cursor = stream.cursor /\ stream'.state = stream.state
  BY <1>1, <1>2 DEF StreamPlaces
<1>4. stream.state >= stream.cursor /\ console.at = "open" /\ stream.cursor >= console.cursor
  BY <1>1, <1>2 DEF ViewFits, StreamFits
<1>5. Sent = stream.cursor /\ Sent' = stream.state
  BY <1>2, <1>3 DEF Sent
<1>6. /\ \A n : n \in batch <=> n \in Int /\ stream.cursor < n /\ n <= stream.state
      /\ batch \subseteq 1..Len(log)
  BY <1>1 DEF Missed
<1>7. CASE batch = {}
  <2>1. Sent' = Sent
    <3>1. stream.state \in Int /\ stream.cursor \in Int
      BY <1>1
    <3>2. ~ (stream.cursor < stream.state)
      BY <1>6, <1>7, <3>1
    <3> QED
      BY <1>4, <1>5, <3>1, <3>2
  <2> QED
    BY <1>1, <1>2, <1>3, <1>4, <1>7, <2>1, ServerSteps, ServerGoesOn DEF StreamIInv, OnlyServer
<1>8. CASE batch # {}
  <2> HIDE DEF batch
  <2>1. m \in Messages
    BY <1>6 DEF Messages
  <2>2. m.type = "events" /\ m.events = batch
    OBVIOUS
  <2> HIDE DEF m
  <2>3. Send(m) /\ UNCHANGED <<setting, log, uow, lock, console>>
    BY <1>2, <1>8 DEF OnlyServer, saved
  <2>k. PICK k \in Nat : k = Len(channel)
    BY <1>1
  <2>4. /\ channel' \in Seq(Messages) /\ Len(channel') = k + 1 /\ k \in Nat
        /\ DOMAIN channel = 1..k /\ DOMAIN channel' = 1..k + 1
        /\ \A i \in 1..k : channel'[i] = channel[i]
        /\ channel'[k + 1] = m
        /\ \A n : \A i \in 0..k : Comes(n, i)' <=> Comes(n, i)
        /\ \A n \in batch : Comes(n, k + 1)'
        /\ \A n : Comes(n, k) => Comes(n, k + 1)'
    BY <1>1, <2>k, <2>1, <2>2, <2>3, Sending
  <2>5. WorkTypes' /\ ServerTypes'
    <3>1. Messages' = Messages
      BY <2>3 DEF Messages
    <3> QED
      BY <1>1, <1>2, <1>3, <2>3, <2>4, <3>1, WorkStays DEF StreamIInv, ServerTypes, StreamPlaces
  <2>6. ConsoleFits'
    BY <1>1, <2>3 DEF ViewFits, ConsoleFits, ShownIsGapless
  <2>7. /\ \A i \in 1..k :
             channel[i].type = "events" => \A n \in channel[i].events : n > console.cursor
        /\ \A i \in 1..k : channel[i].type = "snapshot" =>
             /\ channel[i].cursor >= console.cursor /\ channel[i].cursor <= stream.cursor
             /\ \A n \in console.cursor + 1..channel[i].cursor : Comes(n, i)
             /\ \A j \in i + 1..k :
                  /\ channel[j].type = "snapshot" => channel[j].cursor >= channel[i].cursor
                  /\ channel[j].type = "events" => \A n \in channel[j].events : n > channel[i].cursor
        /\ \A n \in console.cursor + 1..stream.cursor : Comes(n, k)
    BY <1>1, <2>k, <1>2, <1>5, <2>4 DEF ViewFits, ChannelFits, StreamFits
  <2>8. \A n \in batch : n \in Int /\ n > stream.cursor /\ n > console.cursor
    BY <1>1, <1>4, <1>6
  <2>9. ChannelFits'
    <3>1. \A i \in 1..k + 1 : channel'[i].type = "events" =>
            \A n \in channel'[i].events : n > console.cursor
      BY <2>2, <2>4, <2>7, <2>8
    <3>2. ASSUME NEW i \in 1..k + 1, channel'[i].type = "snapshot"
          PROVE  /\ channel'[i].cursor >= console.cursor
                 /\ \A n \in console.cursor + 1..channel'[i].cursor : Comes(n, i)'
                 /\ \A j \in i + 1..k + 1 :
                      /\ channel'[j].type = "snapshot" => channel'[j].cursor >= channel'[i].cursor
                      /\ channel'[j].type = "events" =>
                           \A n \in channel'[j].events : n > channel'[i].cursor
      <4>1. i \in 1..k /\ channel'[i] = channel[i] /\ channel[i].type = "snapshot"
        BY <2>2, <2>4, <3>2
      <4>2. channel[i].cursor \in Nat
        BY <1>1, <2>4, <4>1 DEF Messages
      <4>3. \A n \in batch : n > channel[i].cursor
        BY <1>1, <2>7, <2>8, <4>1, <4>2
      <4>4. \A n \in console.cursor + 1..channel'[i].cursor : Comes(n, i)'
        BY <2>4, <2>7, <4>1
      <4>5. ASSUME NEW j \in i + 1..k + 1
            PROVE  /\ channel'[j].type = "snapshot" => channel'[j].cursor >= channel'[i].cursor
                   /\ channel'[j].type = "events" =>
                        \A n \in channel'[j].events : n > channel'[i].cursor
        BY <2>2, <2>4, <2>7, <4>1, <4>3
      <4> QED
        BY <2>7, <4>1, <4>4, <4>5
    <3>3. /\ console' = console /\ console.at = "open"
          /\ DOMAIN channel' = 1..k + 1 /\ Len(channel') = k + 1
      BY <1>4, <2>3, <2>4
    <3> QED
      BY <3>1, <3>2, <3>3 DEF ChannelFits
  <2>10. StreamFits'
    <3>1. \A n \in console.cursor + 1..stream.state : Comes(n, k + 1)'
      BY <1>1, <1>6, <2>4, <2>7
    <3>2. \A i \in 1..k + 1 : channel'[i].type = "snapshot" => channel'[i].cursor <= stream.cursor
      BY <2>2, <2>4, <2>7
    <3>3. /\ console' = console /\ console.at = "open"
          /\ DOMAIN channel' = 1..k + 1 /\ Len(channel') = k + 1
      BY <1>4, <2>3, <2>4
    <3> QED
      BY <1>3, <1>4, <1>5, <3>1, <3>2, <3>3 DEF StreamFits
  <2> QED
    BY <2>5, <2>6, <2>9, <2>10 DEF StreamIInv, ViewFits
<1> QED
  BY <1>7, <1>8

\* The server reports the state that it has sent.
LEMMA ReportKeeps ==
  ASSUME StreamIInv, Report
  PROVE  StreamIInv'
<1> DEFINE m == [type |-> "snapshot", cursor |-> stream.state]
<1>1. /\ stream \in [at : StreamPlaces, cursor : 0..Len(log), state : 0..Len(log)]
      /\ bus \in [subscribed : BOOLEAN, callbacks : Seq(Nat), queue : Seq(Nat)]
      /\ Len(bus.queue) <= QueueSize
      /\ ViewFits /\ Len(log) \in Nat /\ channel \in Seq(Messages)
      /\ console.cursor \in Nat
  BY DEF StreamIInv, ServerTypes, WorkTypes, StreamPlaces
<1>2. /\ stream.at = "report" /\ OnlyServer /\ bus' = bus
      /\ stream' = [stream EXCEPT !.at = "wait", !.cursor = stream.state]
      /\ Send(m) /\ UNCHANGED <<setting, log, uow, lock, console>>
  BY DEF Report, OnlyServer, saved
<1>3. /\ stream' \in [at : StreamPlaces, cursor : 0..Len(log), state : 0..Len(log)]
      /\ stream'.at = "wait" /\ stream'.cursor = stream.state
  BY <1>1, <1>2 DEF StreamPlaces
<1>4. stream.state >= stream.cursor /\ console.at = "open" /\ stream.cursor >= console.cursor
  BY <1>1, <1>2 DEF ViewFits, StreamFits
<1>5. Sent = stream.state /\ Sent' = stream.state /\ stream.state \in Nat /\ stream.cursor \in Nat
  BY <1>1, <1>2, <1>3 DEF Sent
<1>6. m \in Messages
  BY <1>1 DEF Messages
<1>7. m.type = "snapshot" /\ m.cursor = stream.state
  OBVIOUS
<1> HIDE DEF m
<1>k. PICK k \in Nat : k = Len(channel)
  BY <1>1
<1>8. /\ channel' \in Seq(Messages) /\ Len(channel') = k + 1 /\ k \in Nat
      /\ DOMAIN channel = 1..k /\ DOMAIN channel' = 1..k + 1
      /\ \A i \in 1..k : channel'[i] = channel[i]
      /\ channel'[k + 1] = m
      /\ \A n : \A i \in 0..k : Comes(n, i)' <=> Comes(n, i)
      /\ \A n : Comes(n, k) => Comes(n, k + 1)'
  BY <1>1, <1>k, <1>2, <1>6, Sending
<1>9. WorkTypes' /\ ServerTypes'
  <2>1. Messages' = Messages
    BY <1>2 DEF Messages
  <2> QED
    BY <1>1, <1>2, <1>3, <1>8, <2>1, WorkStays DEF StreamIInv, ServerTypes, StreamPlaces
<1>10. ConsoleFits'
  BY <1>1, <1>2 DEF ViewFits, ConsoleFits, ShownIsGapless
<1>11. /\ \A i \in 1..k :
            channel[i].type = "events" => \A n \in channel[i].events : n > console.cursor
       /\ \A i \in 1..k : channel[i].type = "snapshot" =>
            /\ channel[i].cursor >= console.cursor /\ channel[i].cursor <= stream.cursor
            /\ \A n \in console.cursor + 1..channel[i].cursor : Comes(n, i)
            /\ \A j \in i + 1..k :
                 /\ channel[j].type = "snapshot" => channel[j].cursor >= channel[i].cursor
                 /\ channel[j].type = "events" => \A n \in channel[j].events : n > channel[i].cursor
       /\ \A n \in console.cursor + 1..stream.state : Comes(n, k)
  BY <1>1, <1>k, <1>2, <1>5, <1>8 DEF ViewFits, ChannelFits, StreamFits
<1>12. ASSUME NEW i \in 1..k, channel[i].type = "snapshot"
       PROVE  channel[i].cursor \in Nat /\ channel[i].cursor <= stream.state
  <2>1. channel[i].cursor \in Nat
    BY <1>1, <1>8, <1>12 DEF Messages
  <2>2. channel[i].cursor <= stream.cursor
    BY <1>11, <1>12
  <2> QED
    BY <1>4, <1>5, <2>1, <2>2
<1>13. ChannelFits'
  <2>1. \A i \in 1..k + 1 : channel'[i].type = "events" =>
          \A n \in channel'[i].events : n > console.cursor
    BY <1>7, <1>8, <1>11
  <2>2. ASSUME NEW i \in 1..k + 1, channel'[i].type = "snapshot"
        PROVE  /\ channel'[i].cursor >= console.cursor
               /\ \A n \in console.cursor + 1..channel'[i].cursor : Comes(n, i)'
               /\ \A j \in i + 1..k + 1 :
                    /\ channel'[j].type = "snapshot" => channel'[j].cursor >= channel'[i].cursor
                    /\ channel'[j].type = "events" =>
                         \A n \in channel'[j].events : n > channel'[i].cursor
    <3>1. CASE i = k + 1
      <4>1. channel'[i].cursor = stream.state
        BY <1>7, <1>8, <3>1
      <4>2. \A n \in console.cursor + 1..stream.state : Comes(n, k + 1)'
        BY <1>8, <1>11
      <4>3. \A j \in i + 1..k + 1 : FALSE
        BY <1>8, <3>1
      <4>4. stream.state >= console.cursor
        BY <1>1, <1>4, <1>5
      <4>5. \A n \in console.cursor + 1..channel'[i].cursor : Comes(n, i)'
        BY <3>1, <4>1, <4>2
      <4> QED
        BY <4>1, <4>3, <4>4, <4>5
    <3>2. CASE i \in 1..k
      <4>1. channel'[i] = channel[i] /\ channel[i].type = "snapshot"
        BY <1>8, <2>2, <3>2
      <4>2. \A n \in console.cursor + 1..channel'[i].cursor : Comes(n, i)'
        BY <1>8, <1>11, <3>2, <4>1
      <4>3. ASSUME NEW j \in i + 1..k + 1
            PROVE  /\ channel'[j].type = "snapshot" => channel'[j].cursor >= channel'[i].cursor
                   /\ channel'[j].type = "events" =>
                        \A n \in channel'[j].events : n > channel'[i].cursor
        <5>1. CASE j = k + 1
          BY <1>5, <1>7, <1>8, <1>12, <3>2, <4>1, <5>1
        <5>2. CASE j \in i + 1..k
          BY <1>8, <1>11, <3>2, <4>1, <5>2
        <5> QED
          BY <1>8, <5>1, <5>2
      <4> QED
        BY <1>11, <3>2, <4>1, <4>2, <4>3
    <3> QED
      BY <1>8, <3>1, <3>2
  <2> QED
    BY <1>2, <1>4, <1>8, <2>1, <2>2 DEF ChannelFits
<1>14. StreamFits'
  <2>1. \A n \in console.cursor + 1..stream.state : Comes(n, k + 1)'
    BY <1>8, <1>11
  <2>2. ASSUME NEW i \in 1..k + 1, channel'[i].type = "snapshot"
        PROVE  channel'[i].cursor <= stream.state
    <3>1. CASE i = k + 1
      BY <1>5, <1>7, <1>8, <3>1
    <3>2. CASE i \in 1..k
      BY <1>8, <1>12, <2>2, <3>2
    <3> QED
      BY <1>8, <3>1, <3>2
  <2>3. stream.state >= console.cursor
    BY <1>1, <1>4, <1>5
  <2>4. /\ console' = console /\ console.at = "open"
        /\ DOMAIN channel' = 1..k + 1 /\ Len(channel') = k + 1
    BY <1>2, <1>4, <1>8
  <2> QED
    BY <1>3, <1>5, <2>1, <2>2, <2>3, <2>4 DEF StreamFits
<1> QED
  BY <1>9, <1>10, <1>13, <1>14 DEF StreamIInv, ViewFits

-----------------------------------------------------------------------------
(* The console. *)

ConsoleStates == [at : {"offline", "history", "connect", "open"}, cursor : 0..Len(log),
                  seen : 0..Len(log), shown : SUBSET (1..Len(log)),
                  pending : SUBSET (1..Len(log)), base : 0..Len(log)]

\* A step of the console has types.
LEMMA ConsoleSteps ==
  ASSUME StreamIInv, UNCHANGED <<setting, log, uow, lock>>,
         bus' = bus \/ bus' = NoBus, channel' \in Seq(Messages), console' \in ConsoleStates,
         stream' \in [at : StreamPlaces, cursor : 0..Len(log), state : 0..Len(log)]
  PROVE  WorkTypes' /\ ServerTypes'
<1>1. WorkTypes /\ ServerTypes /\ Messages' = Messages
  BY DEF StreamIInv, Messages
<1>2. /\ bus' \in [subscribed : BOOLEAN, callbacks : Seq(Nat), queue : Seq(Nat)]
      /\ Len(bus'.queue) <= QueueSize
  BY <1>1, NobodySubscribed DEF ServerTypes
<1> QED
  BY <1>1, <1>2, WorkStays DEF ServerTypes, StreamPlaces, ConsoleStates

\* What the console and the server know of each other is of types.
LEMMA ConsoleIs ==
  ASSUME StreamIInv
  PROVE  /\ Len(log) \in Nat /\ console \in ConsoleStates /\ channel \in Seq(Messages)
         /\ stream \in [at : StreamPlaces, cursor : 0..Len(log), state : 0..Len(log)]
         /\ ConsoleFits /\ ChannelFits /\ StreamFits /\ Window \in Nat
         /\ console.at # "open" => channel = <<>> /\ stream.at = "closed"
         /\ console.seen \in Nat /\ console.seen <= Len(log)
<1>1. /\ Len(log) \in Nat /\ console \in ConsoleStates /\ channel \in Seq(Messages)
      /\ stream \in [at : StreamPlaces, cursor : 0..Len(log), state : 0..Len(log)]
      /\ ConsoleFits /\ ChannelFits /\ StreamFits
  BY DEF StreamIInv, WorkTypes, ServerTypes, StreamPlaces, ConsoleStates, ViewFits
<1>2. console.at # "open" => channel = <<>> /\ stream.at = "closed"
  BY <1>1 DEF ChannelFits, StreamFits
<1>3. console.seen \in Nat /\ console.seen <= Len(log)
  BY <1>1 DEF ConsoleStates
<1> QED
  BY <1>1, <1>2, <1>3, StreamAssumption

\* A console without a connection.
LEMMA NoConnection ==
  ASSUME channel' = <<>>, stream'.at = "closed"
  PROVE  ChannelFits' /\ StreamFits'
BY DEF ChannelFits, StreamFits

\* The console fetches the state of the run.
LEMMA FetchKeeps ==
  ASSUME StreamIInv, Fetch
  PROVE  StreamIInv' /\ console'.seen >= console.seen
<1>1. /\ Len(log) \in Nat /\ console \in ConsoleStates /\ channel \in Seq(Messages)
      /\ stream \in [at : StreamPlaces, cursor : 0..Len(log), state : 0..Len(log)]
      /\ console.at # "open" => channel = <<>> /\ stream.at = "closed"
      /\ console.seen \in Nat /\ console.seen <= Len(log) /\ ConsoleFits
  BY ConsoleIs
<1>2. PICK n \in 0..MaxEvents :
        Snapshot(n) /\ console' = [console EXCEPT !.at = "history", !.seen = n, !.cursor = n]
  BY DEF Fetch
<1>3. /\ console.at = "offline" /\ UNCHANGED <<setting, log, uow, lock, bus, stream, channel>>
  BY DEF Fetch, OnlyConsole, saved
<1>4. n = Len(log) /\ n \in 0..Len(log)
  BY <1>1, <1>2, SnapshotIs
<1>5. /\ console' \in ConsoleStates /\ console'.at = "history"
      /\ console'.seen = n /\ console'.cursor = n /\ console'.shown = console.shown
  BY <1>1, <1>2, <1>4 DEF ConsoleStates
<1>6. WorkTypes' /\ ServerTypes'
  BY <1>1, <1>3, <1>5, ConsoleSteps
<1>7. ConsoleFits'
  BY <1>1, <1>5 DEF ConsoleFits, ShownIsGapless
<1>8. channel' = <<>> /\ stream'.at = "closed"
  BY <1>1, <1>3
<1> QED
  BY <1>1, <1>4, <1>5, <1>6, <1>7, <1>8, NoConnection DEF StreamIInv, ViewFits

\* A console shows no more than its window of a gapless range.
LEMMA ShownFitsWindow ==
  ASSUME NEW base \in Nat, NEW seen \in Nat, Window \in Nat
  PROVE  Cardinality({n \in base + 1..seen : n > seen - Window}) <= Window
<1> DEFINE lo == IF base >= seen - Window THEN base + 1 ELSE seen - Window + 1
<1>1. lo \in Int /\ {n \in base + 1..seen : n > seen - Window} = lo..seen
  OBVIOUS
<1>2. lo >= seen - Window + 1
  OBVIOUS
<1> HIDE DEF lo
<1>3. Cardinality(lo..seen) = IF lo > seen THEN 0 ELSE seen - lo + 1
  BY <1>1, FS_Interval
<1>4. (IF lo > seen THEN 0 ELSE seen - lo + 1) <= Window
  BY <1>1, <1>2
<1>5. Cardinality(lo..seen) <= Window
  BY <1>3, <1>4
<1> QED
  BY <1>1, <1>5

\* The last page of the history is what a console shows at first.
LEMMA LastPage ==
  ASSUME NEW seen \in Nat, NEW len \in Nat, seen <= len, Window \in Nat
  PROVE  LET after == Max({0, seen - Window})
             history == after + 1..Min({after + Window, len})
         IN Merge({}, history, seen) = {n \in 1..seen : n > seen - Window}
<1> DEFINE after == Max({0, seen - Window})
           last == Min({after + Window, len})
<1>1. after = IF seen - Window >= 0 THEN seen - Window ELSE 0
  <2> DEFINE d == seen - Window
  <2>1. d \in Int
    OBVIOUS
  <2> HIDE DEF d
  <2>2. Max({0, d}) \in {0, d} /\ Max({0, d}) >= 0 /\ Max({0, d}) >= d
    BY <2>1, LaterOfTwo
  <2>3. Max({0, d}) = IF d >= 0 THEN d ELSE 0
    BY <2>1, <2>2
  <2> QED
    BY <2>3 DEF d
<1>2. after \in Nat /\ after <= seen /\ after >= seen - Window
  BY <1>1
<1> HIDE DEF after
<1>3. last = IF after + Window <= len THEN after + Window ELSE len
  BY <1>2, LesserOfTwo
<1>4. last \in Nat /\ last >= seen
  BY <1>2, <1>3
<1> HIDE DEF last
<1>5. {} \union {n \in after + 1..last : n <= seen} = after + 1..seen
  BY <1>2, <1>4
<1>6. Merge({}, after + 1..last, seen) = {n \in after + 1..seen : n > seen - Window}
  <2> DEFINE page == after + 1..last
             none == {}
  <2>1. none \union {n \in page : n <= seen} = after + 1..seen
    BY <1>5
  <2> HIDE DEF page, none
  <2>2. Merge(none, page, seen) = {n \in after + 1..seen : n > seen - Window}
    BY <1>2, <2>1, MergeKeepsLatest
  <2> QED
    BY <2>2 DEF page, none
<1>7. {n \in after + 1..seen : n > seen - Window} = {n \in 1..seen : n > seen - Window}
  BY <1>1, <1>2 DEF after
<1> QED
  BY <1>6, <1>7 DEF after, last

\* The console loads the history, or does without.
LEMMA FetchHistoryKeeps ==
  ASSUME StreamIInv, FetchHistory
  PROVE  StreamIInv' /\ console'.seen >= console.seen
<1>1. /\ Len(log) \in Nat /\ console \in ConsoleStates /\ channel \in Seq(Messages)
      /\ stream \in [at : StreamPlaces, cursor : 0..Len(log), state : 0..Len(log)]
      /\ console.at # "open" => channel = <<>> /\ stream.at = "closed"
      /\ console.seen \in Nat /\ console.seen <= Len(log) /\ Window \in Nat /\ ConsoleFits
  BY ConsoleIs
<1>2. /\ console.at = "history" /\ UNCHANGED <<setting, log, uow, lock, bus, stream, channel>>
  BY DEF FetchHistory, saved, server
<1>3. console.cursor = console.seen
  BY <1>1, <1>2 DEF ConsoleFits
<1> DEFINE after == Max({0, console.seen - Window})
           history == after + 1..Min({after + Window, Len(log)})
           shown == Merge({}, history, console.seen)
<1>4. \/ console' = [console EXCEPT !.at = "connect", !.pending = {}, !.base = 0, !.shown = shown]
      \/ console' = [console EXCEPT !.at = "connect", !.pending = {}, !.shown = {},
                                    !.base = console.seen]
  BY DEF FetchHistory
<1>5. shown = {n \in 1..console.seen : n > console.seen - Window}
  BY <1>1, LastPage
<1> HIDE DEF shown
<1>6. /\ console' \in ConsoleStates /\ console'.at = "connect"
      /\ console'.seen = console.seen /\ console'.cursor = console.cursor /\ console'.pending = {}
      /\ \/ console'.base = 0 /\ console'.shown = shown
         \/ console'.base = console.seen /\ console'.shown = {}
  <2>1. shown \in SUBSET (1..Len(log))
    BY <1>1, <1>5
  <2>2. 0 \in 0..Len(log) /\ {} \in SUBSET (1..Len(log)) /\ console.seen \in 0..Len(log)
    BY <1>1
  <2> QED
    BY <1>1, <1>4, <2>1, <2>2 DEF ConsoleStates
<1>7. WorkTypes' /\ ServerTypes'
  BY <1>1, <1>2, <1>6, ConsoleSteps
<1>8. ConsoleFits'
  <2>1. console'.base <= console'.seen
    BY <1>1, <1>6
  <2>2. console'.shown = {n \in console'.base + 1..console'.seen : n > console'.seen - Window}
    <3>1. CASE console'.base = 0 /\ console'.shown = shown
      BY <1>5, <1>6, <3>1
    <3>2. CASE console'.base = console.seen /\ console'.shown = {}
      <4>1. \A n \in console.seen + 1..console.seen : FALSE
        BY <1>1
      <4> QED
        BY <1>6, <3>2, <4>1
    <3> QED
      BY <1>6, <3>1, <3>2
  <2>3. Cardinality(console'.shown) <= Window
    <3>1. console'.base \in Nat /\ console'.seen \in Nat
      BY <1>1, <1>6
    <3>2. Cardinality({n \in console'.base + 1..console'.seen : n > console'.seen - Window})
            <= Window
      BY <1>1, <3>1, ShownFitsWindow
    <3> QED
      BY <2>2, <3>2
  <2> QED
    BY <1>3, <1>6, <2>1, <2>2, <2>3 DEF ConsoleFits, ShownIsGapless
<1>9. channel' = <<>> /\ stream'.at = "closed"
  BY <1>1, <1>2
<1> QED
  BY <1>1, <1>6, <1>7, <1>8, <1>9, NoConnection DEF StreamIInv, ViewFits

\* The console connects.
LEMMA OpenKeepsView ==
  ASSUME StreamIInv, Open
  PROVE  StreamIInv' /\ console'.seen >= console.seen
<1>1. /\ Len(log) \in Nat /\ console \in ConsoleStates
      /\ console.seen \in Nat /\ ConsoleFits
  BY ConsoleIs
<1>2. /\ console.at = "connect" /\ UNCHANGED <<setting, log, uow, lock, bus>> /\ channel' = <<>>
      /\ console' = [console EXCEPT !.at = "open"]
      /\ stream' = [at |-> "subscribe", cursor |-> console.cursor, state |-> 0]
  BY DEF Open, OnlyConsole, saved
<1>3. /\ console' \in ConsoleStates /\ console'.at = "open"
      /\ console'.seen = console.seen /\ console'.cursor = console.cursor
      /\ console'.pending = console.pending /\ console'.shown = console.shown
      /\ console'.base = console.base
  BY <1>1, <1>2 DEF ConsoleStates
<1>4. /\ stream' \in [at : StreamPlaces, cursor : 0..Len(log), state : 0..Len(log)]
      /\ console.cursor \in Nat
  BY <1>1, <1>2 DEF ConsoleStates, StreamPlaces
<1>5. WorkTypes' /\ ServerTypes'
  <2>1. channel' \in Seq(Messages)
    BY <1>2
  <2> QED
    BY <1>2, <1>3, <1>4, <2>1, ConsoleSteps
<1>6. ConsoleFits'
  BY <1>1, <1>2, <1>3 DEF ConsoleFits, ShownIsGapless
<1>7. ChannelFits'
  BY <1>2 DEF ChannelFits
<1>8. StreamFits'
  BY <1>2, <1>3, <1>4 DEF StreamFits, Sent
<1> QED
  BY <1>1, <1>3, <1>5, <1>6, <1>7, <1>8 DEF StreamIInv, ViewFits

\* The connection is lost.
LEMMA HangupKeeps ==
  ASSUME StreamIInv, Hangup
  PROVE  StreamIInv' /\ console'.seen >= console.seen
<1>1. /\ Len(log) \in Nat /\ console \in ConsoleStates
      /\ console.seen \in Nat /\ ConsoleFits
  BY ConsoleIs
<1>2. /\ UNCHANGED <<setting, log, uow, lock>> /\ channel' = <<>> /\ bus' = NoBus
      /\ console' = [console EXCEPT !.at = "offline"] /\ stream' = NoStream
  BY DEF Hangup, saved
<1>3. /\ console' \in ConsoleStates /\ console'.at = "offline" /\ console'.seen = console.seen
      /\ console'.shown = console.shown
  BY <1>1, <1>2 DEF ConsoleStates
<1>4. /\ stream' \in [at : StreamPlaces, cursor : 0..Len(log), state : 0..Len(log)]
      /\ stream'.at = "closed"
  BY <1>1, <1>2 DEF NoStream, StreamPlaces
<1>5. WorkTypes' /\ ServerTypes'
  <2>1. channel' \in Seq(Messages)
    BY <1>2
  <2> QED
    BY <1>2, <1>3, <1>4, <2>1, ConsoleSteps
<1>6. ConsoleFits'
  BY <1>1, <1>3 DEF ConsoleFits, ShownIsGapless
<1> QED
  BY <1>1, <1>2, <1>3, <1>4, <1>5, <1>6, NoConnection DEF StreamIInv, ViewFits

\* After its first message the console goes on with the others.
LEMMA NextMessage ==
  ASSUME StreamIInv, channel # <<>>, channel' = Tail(channel), stream' = stream,
         console'.at = "open", console.cursor <= console'.cursor, console'.cursor \in Nat,
         \A n, i : /\ n > console'.cursor /\ i \in Nat /\ i + 1 <= Len(channel)
                    /\ Comes(n, i + 1)
                   => Comes(n, i)',
         \A i \in 2..Len(channel) :
           /\ channel[i].type = "events" => \A n \in channel[i].events : n > console'.cursor
           /\ channel[i].type = "snapshot" => channel[i].cursor >= console'.cursor,
         stream.at # "closed" => stream.cursor >= console'.cursor
  PROVE  ChannelFits' /\ StreamFits'
<1>1. /\ channel \in Seq(Messages) /\ ChannelFits /\ StreamFits /\ console.cursor \in Nat
      /\ stream \in [at : StreamPlaces, cursor : 0..Len(log), state : 0..Len(log)]
  BY ConsoleIs DEF ConsoleStates
<1>2. PICK k \in Nat : k + 1 = Len(channel)
  <2>1. Len(channel) \in Nat /\ Len(channel) > 0
    BY <1>1
  <2>2. Len(channel) - 1 \in Nat /\ (Len(channel) - 1) + 1 = Len(channel)
    BY <2>1
  <2> QED
    BY <2>2
<1>3. /\ DOMAIN channel = 1..k + 1 /\ DOMAIN channel' = 1..k /\ Len(channel') = k
      /\ \A i \in 1..k : channel'[i] = channel[i + 1] /\ i + 1 \in 2..k + 1
  BY <1>1, <1>2
<1>4. \A i \in 1..k : channel'[i].type = "events" =>
        \A n \in channel'[i].events : n > console'.cursor
  BY <1>2, <1>3
<1>5. ASSUME NEW i \in 1..k, channel'[i].type = "snapshot"
      PROVE  /\ channel'[i].cursor >= console'.cursor
             /\ \A n \in console'.cursor + 1..channel'[i].cursor : Comes(n, i)'
             /\ \A j \in i + 1..k :
                  /\ channel'[j].type = "snapshot" => channel'[j].cursor >= channel'[i].cursor
                  /\ channel'[j].type = "events" =>
                       \A n \in channel'[j].events : n > channel'[i].cursor
  <2>1. /\ channel'[i] = channel[i + 1] /\ i + 1 \in 2..k + 1 /\ i + 1 \in DOMAIN channel
        /\ channel[i + 1].type = "snapshot" /\ i \in Nat
    BY <1>3, <1>5
  <2>2. channel[i + 1].cursor \in Nat
    BY <1>1, <2>1 DEF Messages
  <2>3. /\ \A n \in console.cursor + 1..channel[i + 1].cursor : Comes(n, i + 1)
        /\ \A j \in (i + 1) + 1..k + 1 :
             /\ channel[j].type = "snapshot" => channel[j].cursor >= channel[i + 1].cursor
             /\ channel[j].type = "events" => \A n \in channel[j].events : n > channel[i + 1].cursor
    BY <1>1, <1>2, <2>1 DEF ChannelFits
  <2>4. ASSUME NEW n \in console'.cursor + 1..channel'[i].cursor
        PROVE  Comes(n, i)'
    <3> DEFINE from == console.cursor
               to == console'.cursor
               last == channel[i + 1].cursor
    <3>1. /\ from \in Nat /\ to \in Nat /\ last \in Nat /\ from <= to
          /\ channel'[i].cursor = last /\ n \in to + 1..last
      BY <1>1, <2>1, <2>2
    <3> HIDE DEF from, to, last
    <3>2. n \in from + 1..last /\ n > to
      BY <3>1
    <3> QED
      BY <2>1, <2>3, <3>2 DEF from, to, last
  <2>5. ASSUME NEW j \in i + 1..k
        PROVE  /\ channel'[j].type = "snapshot" => channel'[j].cursor >= channel'[i].cursor
               /\ channel'[j].type = "events" =>
                    \A n \in channel'[j].events : n > channel'[i].cursor
    <3>1. j + 1 \in (i + 1) + 1..k + 1 /\ j \in 1..k /\ channel'[j] = channel[j + 1]
      BY <1>2, <1>3
    <3> QED
      BY <2>1, <2>3, <3>1
  <2>6. channel'[i].cursor >= console'.cursor
    BY <1>2, <2>1
  <2> QED
    BY <2>4, <2>5, <2>6
<1>6. ChannelFits'
  BY <1>3, <1>4, <1>5 DEF ChannelFits
<1>7. StreamFits'
  <2>1. SUFFICES ASSUME stream.at # "closed" PROVE StreamFits'
    BY DEF StreamFits
  <2>2. /\ stream.at \in {"replay", "report"} => stream.state >= stream.cursor
        /\ \A i \in 1..k + 1 : channel[i].type = "snapshot" => channel[i].cursor <= stream.cursor
        /\ \A n \in console.cursor + 1..Sent : Comes(n, k + 1)
    BY <1>1, <1>2, <1>3, <2>1 DEF StreamFits
  <2>3. Sent \in Nat /\ Sent' = Sent
    BY <1>1 DEF Sent
  <2>4. ASSUME NEW n \in console'.cursor + 1..Sent
        PROVE  Comes(n, k)'
    <3>1. n \in console.cursor + 1..Sent /\ n > console'.cursor
      BY <1>1, <2>3
    <3> QED
      BY <1>2, <2>2, <3>1
  <2>5. \A i \in 1..k : channel'[i].type = "snapshot" => channel'[i].cursor <= stream.cursor
    BY <1>3, <2>2
  <2>6. \A n \in console'.cursor + 1..Sent : Comes(n, k)'
    BY <2>4
  <2> QED
    BY <1>3, <2>2, <2>3, <2>5, <2>6 DEF StreamFits
<1> QED
  BY <1>6, <1>7

\* A console that has all up to a later event shows the latest of them.
LEMMA ShowsTheLatest ==
  ASSUME NEW base \in Nat, NEW seen \in Nat, NEW cursor \in Nat, NEW pending,
         base <= seen, seen <= cursor, Window \in Nat,
         \A n \in pending : n \in Nat /\ n > seen,
         \A n \in seen + 1..cursor : n \in pending
  PROVE  Merge({n \in base + 1..seen : n > seen - Window}, Take(pending, cursor), cursor)
           = {n \in base + 1..cursor : n > cursor - Window}
<1> DEFINE shown == {n \in base + 1..seen : n > seen - Window}
           taken == Take(pending, cursor)
           lo == IF base >= seen - Window THEN base ELSE seen - Window
<1>1. lo \in Nat /\ lo <= cursor /\ lo >= base /\ lo <= seen /\ lo >= seen - Window
  OBVIOUS
<1>2. shown = lo + 1..seen
  OBVIOUS
<1>3. \A n : n \in taken /\ n <= cursor <=> n \in seen + 1..cursor
  BY DEF Take
<1> HIDE DEF taken, shown
<1>4. \A n : n \in lo + 1..cursor <=> n \in lo + 1..seen \/ n \in seen + 1..cursor
  BY <1>1
<1>5. {n \in lo + 1..cursor : n > cursor - Window} = {n \in base + 1..cursor : n > cursor - Window}
  <2>1. ASSUME NEW n \in base + 1..cursor, n > cursor - Window
        PROVE  n \in lo + 1..cursor
    BY <2>1
  <2>2. lo + 1..cursor \subseteq base + 1..cursor
    BY <1>1
  <2> QED
    BY <2>1, <2>2
<1> HIDE DEF lo
<1>6. shown \union {n \in taken : n <= cursor} = lo + 1..cursor
  BY <1>2, <1>3, <1>4
<1>7. Merge(shown, taken, cursor) = {n \in lo + 1..cursor : n > cursor - Window}
  BY <1>1, <1>6, MergeKeepsLatest
<1> QED
  BY <1>5, <1>7 DEF shown, taken

\* A message arrives.
LEMMA MessageKeeps ==
  ASSUME StreamIInv, Message
  PROVE  StreamIInv' /\ console'.seen >= console.seen
<1> DEFINE m == Head(channel)
<1>1. /\ Len(log) \in Nat /\ console \in ConsoleStates /\ channel \in Seq(Messages)
      /\ stream \in [at : StreamPlaces, cursor : 0..Len(log), state : 0..Len(log)]
      /\ ConsoleFits /\ ChannelFits /\ StreamFits /\ Window \in Nat
      /\ console.seen \in Nat /\ console.seen <= Len(log)
  BY ConsoleIs
<1>2. /\ console.at = "open" /\ channel # <<>> /\ channel' = Tail(channel) /\ stream' = stream
      /\ UNCHANGED <<setting, log, uow, lock, bus>>
  BY DEF Message, OnlyConsole, saved
<1>3. /\ m \in Messages /\ m = channel[1] /\ channel' \in Seq(Messages)
      /\ 1 \in DOMAIN channel /\ Len(channel) \in Nat /\ DOMAIN channel = 1..Len(channel)
  BY <1>1, <1>2
<1>4. /\ console.cursor \in Nat /\ console.base \in Nat /\ console.cursor = console.seen
      /\ console.base <= console.seen
      /\ console.shown = {n \in console.base + 1..console.seen : n > console.seen - Window}
      /\ \A n \in console.pending : n \in Nat /\ n > console.cursor
  BY <1>1, <1>2 DEF ConsoleFits, ShownIsGapless, ConsoleStates
<1>5. \A n, i : /\ i \in Nat /\ i + 1 <= Len(channel) /\ Comes(n, i + 1)
                /\ ~ (m.type = "events" /\ n \in m.events)
                => n \in console.pending \/ \E j \in 1..i : /\ channel'[j].type = "events"
                                                            /\ n \in channel'[j].events
  <2>1. SUFFICES ASSUME NEW n, NEW i \in Nat, i + 1 <= Len(channel), Comes(n, i + 1),
                        n \notin console.pending, ~ (m.type = "events" /\ n \in m.events)
                 PROVE  \E j \in 1..i : channel'[j].type = "events" /\ n \in channel'[j].events
    OBVIOUS
  <2>2. PICK j \in 1..i + 1 : channel[j].type = "events" /\ n \in channel[j].events
    BY <2>1 DEF Comes
  <2>3. j # 1
    BY <1>3, <2>1, <2>2
  <2>4. j - 1 \in 1..i /\ (j - 1) + 1 = j /\ j \in 1..Len(channel)
    BY <1>3, <2>1, <2>2, <2>3
  <2>5. channel'[j - 1] = channel[j]
    BY <1>1, <1>2, <1>3, <2>3, <2>4
  <2> QED
    BY <2>2, <2>4, <2>5
<1>6. \A i \in 2..Len(channel) : i \in DOMAIN channel /\ i \in 1 + 1..Len(channel)
  BY <1>3
<1>7. CASE m.type = "events" /\ console' = [console EXCEPT !.pending = @ \union m.events]
  <2>1. m.events \subseteq 1..Len(log) /\ \A n \in m.events : n > console.cursor
    BY <1>1, <1>3, <1>7 DEF ChannelFits, Messages
  <2>2. /\ console' \in ConsoleStates /\ console'.at = "open"
        /\ console'.cursor = console.cursor /\ console'.seen = console.seen
        /\ console'.base = console.base /\ console'.shown = console.shown
        /\ console'.pending = console.pending \union m.events
    <3>1. console.pending \union m.events \in SUBSET (1..Len(log))
      BY <1>1, <2>1 DEF ConsoleStates
    <3> HIDE DEF m
    <3> QED
      BY <1>1, <1>2, <1>7, <3>1 DEF ConsoleStates
  <2>3. WorkTypes' /\ ServerTypes'
    BY <1>1, <1>2, <1>3, <2>2, ConsoleSteps
  <2>4. ConsoleFits'
    BY <1>1, <1>4, <2>1, <2>2 DEF ConsoleFits, ShownIsGapless
  <2>5. \A n, i : /\ n > console'.cursor /\ i \in Nat /\ i + 1 <= Len(channel)
                  /\ Comes(n, i + 1)
                 => Comes(n, i)'
    <3> HIDE DEF m
    <3> QED
      BY <1>5, <2>2 DEF Comes
  <2>6. \A i \in 2..Len(channel) :
          /\ channel[i].type = "events" => \A n \in channel[i].events : n > console'.cursor
          /\ channel[i].type = "snapshot" => channel[i].cursor >= console'.cursor
    BY <1>1, <1>6, <2>2 DEF ChannelFits
  <2>7. stream.at # "closed" => stream.cursor >= console'.cursor
    BY <1>1, <2>2 DEF StreamFits
  <2>8. ChannelFits' /\ StreamFits'
    BY <1>2, <1>4, <2>2, <2>5, <2>6, <2>7, NextMessage
  <2>9. console'.seen >= console.seen
    BY <1>1, <2>2
  <2> QED
    BY <2>3, <2>4, <2>8, <2>9 DEF StreamIInv, ViewFits
<1>8. CASE /\ m.type = "snapshot" /\ m.cursor >= console.cursor
           /\ console' = [console EXCEPT
                            !.cursor = m.cursor, !.seen = m.cursor,
                            !.pending = @ \ Take(@, m.cursor),
                            !.shown = Merge(@, Take(console.pending, m.cursor), m.cursor)]
  <2> DEFINE shown == Merge(console.shown, Take(console.pending, m.cursor), m.cursor)
  <2>1. m.cursor \in 0..Len(log) /\ m.cursor \in Nat
    BY <1>1, <1>3, <1>8 DEF Messages
  <2>2. /\ \A n \in console.cursor + 1..m.cursor : Comes(n, 1)
        /\ \A j \in 1 + 1..Len(channel) :
             /\ channel[j].type = "snapshot" => channel[j].cursor >= m.cursor
             /\ channel[j].type = "events" => \A n \in channel[j].events : n > m.cursor
    BY <1>1, <1>3, <1>8 DEF ChannelFits
  <2>3. \A n \in console.cursor + 1..m.cursor : n \in console.pending
    BY <1>3, <1>8, <2>2 DEF Comes
  <2>4. shown = {n \in console.base + 1..m.cursor : n > m.cursor - Window}
    <3> DEFINE cursor == m.cursor
               pending == console.pending
               base == console.base
               seen == console.seen
    <3>1. /\ base \in Nat /\ seen \in Nat /\ cursor \in Nat /\ Window \in Nat
          /\ base <= seen /\ seen <= cursor
          /\ \A n \in pending : n \in Nat /\ n > seen
          /\ \A n \in seen + 1..cursor : n \in pending
      BY <1>1, <1>4, <1>8, <2>1, <2>3
    <3>2. console.shown = {n \in base + 1..seen : n > seen - Window}
      BY <1>4
    <3> HIDE DEF cursor, pending, base, seen
    <3>3. Merge({n \in base + 1..seen : n > seen - Window}, Take(pending, cursor), cursor)
            = {n \in base + 1..cursor : n > cursor - Window}
      BY <3>1, ShowsTheLatest
    <3> QED
      BY <3>2, <3>3 DEF cursor, pending, base
  <2>5. shown \in SUBSET (1..Len(log))
    <3>1. shown \subseteq console.shown \union Take(console.pending, m.cursor)
      BY MergeIsOfBoth
    <3>2. console.shown \subseteq 1..Len(log) /\ console.pending \subseteq 1..Len(log)
      BY <1>1 DEF ConsoleStates
    <3>3. Take(console.pending, m.cursor) \subseteq console.pending
      BY DEF Take
    <3> HIDE DEF shown, m
    <3>4. shown \subseteq 1..Len(log)
      BY <3>1, <3>2, <3>3
    <3> QED
      BY <3>4
  <2> HIDE DEF shown
  <2>6. /\ console' \in ConsoleStates /\ console'.at = "open"
        /\ console'.cursor = m.cursor /\ console'.seen = m.cursor
        /\ console'.base = console.base /\ console'.shown = shown
        /\ console'.pending = {n \in console.pending : ~ n <= m.cursor}
    <3>1. console.pending \ Take(console.pending, m.cursor)
            = {n \in console.pending : ~ n <= m.cursor}
      BY DEF Take
    <3>2. {n \in console.pending : ~ n <= m.cursor} \in SUBSET (1..Len(log))
      BY <1>1 DEF ConsoleStates
    <3>3. console' = [console EXCEPT
                        !.cursor = m.cursor, !.seen = m.cursor,
                        !.pending = {n \in console.pending : ~ n <= m.cursor},
                        !.shown = shown]
      BY <1>8, <3>1 DEF shown
    <3> DEFINE cursor == m.cursor
               later == {n \in console.pending : ~ n <= m.cursor}
    <3>4. /\ cursor \in 0..Len(log) /\ later \in SUBSET (1..Len(log))
          /\ console' = [console EXCEPT !.cursor = cursor, !.seen = cursor,
                                        !.pending = later, !.shown = shown]
      BY <2>1, <3>2, <3>3
    <3> HIDE DEF cursor, later
    <3>5. /\ console' \in ConsoleStates /\ console'.at = "open"
          /\ console'.cursor = cursor /\ console'.seen = cursor
          /\ console'.base = console.base /\ console'.shown = shown
          /\ console'.pending = later
      BY <1>1, <1>2, <2>5, <3>4 DEF ConsoleStates
    <3> QED
      BY <3>5 DEF cursor, later
  <2>7. WorkTypes' /\ ServerTypes'
    BY <1>1, <1>2, <1>3, <2>6, ConsoleSteps
  <2>8. \A n \in console'.pending : n \in Nat /\ n > m.cursor
    BY <1>4, <2>1, <2>6
  <2>9. ConsoleFits'
    <3>1. console'.base <= console'.seen
      <4> HIDE DEF m
      <4> QED
        BY <1>4, <1>8, <2>1, <2>6
    <3>2. ShownIsGapless'
      BY <2>4, <2>6 DEF ShownIsGapless
    <3>3. Cardinality(console'.shown) <= Window
      BY <1>1, <1>4, <2>1, <2>4, <2>6, ShownFitsWindow
    <3> QED
      BY <2>6, <2>8, <3>1, <3>2, <3>3 DEF ConsoleFits
  <2>10. \A n, i : /\ n > console'.cursor /\ i \in Nat /\ i + 1 <= Len(channel)
                   /\ Comes(n, i + 1)
                  => Comes(n, i)'
    <3>1. SUFFICES ASSUME NEW n, NEW i \in Nat, n > console'.cursor, i + 1 <= Len(channel),
                          Comes(n, i + 1)
                   PROVE  Comes(n, i)'
      OBVIOUS
    <3>2. \/ n \in console.pending
          \/ \E j \in 1..i : channel'[j].type = "events" /\ n \in channel'[j].events
      BY <1>5, <1>8, <3>1
    <3>3. n \in console.pending => n \in console'.pending
      BY <1>4, <2>1, <2>6, <3>1
    <3> QED
      BY <3>2, <3>3 DEF Comes
  <2>11. \A i \in 2..Len(channel) :
           /\ channel[i].type = "events" => \A n \in channel[i].events : n > console'.cursor
           /\ channel[i].type = "snapshot" => channel[i].cursor >= console'.cursor
    BY <1>6, <2>2, <2>6
  <2>12. stream.at # "closed" => stream.cursor >= console'.cursor
    BY <1>1, <1>3, <1>8, <2>6 DEF StreamFits
  <2>13. ChannelFits' /\ StreamFits'
    BY <1>2, <1>4, <1>8, <2>1, <2>6, <2>10, <2>11, <2>12, NextMessage
  <2>14. console'.seen >= console.seen
    BY <1>4, <1>8, <2>6
  <2> QED
    BY <2>7, <2>9, <2>13, <2>14 DEF StreamIInv, ViewFits
<1>9. CASE m.type = "snapshot" /\ m.cursor < console.cursor
  <2>1. m.cursor >= console.cursor /\ m.cursor \in Nat
    BY <1>1, <1>3, <1>9 DEF ChannelFits, Messages
  <2> QED
    BY <1>4, <1>9, <2>1
<1> QED
  BY <1>7, <1>8, <1>9 DEF Message

\* In the beginning there is nothing to see.
LEMMA StreamBegins ==
  ASSUME StreamInit
  PROVE  StreamIInv
<1>1. MaxEvents \in Nat
  BY StreamAssumption DEF StreamInit, MaxEvents
<1>2. \A p \in Processes : Nothing # p
  BY StreamAssumption DEF Processes
<1>3. IsWork(NoWork) /\ NoWork.at = "idle"
  BY DEF NoWork, IsWork
<1>4. WorkTypes
  <2>1. /\ uow = [p \in Processes |-> uow[p]] /\ \A p \in Processes : uow[p] = NoWork
        /\ lock = Nothing /\ log = <<>> /\ setting \in Settings
    BY DEF StreamInit
  <2>2. ASSUME NEW p \in Processes PROVE WriterOf(p)
    BY <1>2, <1>3, <2>1 DEF WriterOf
  <2> QED
    BY <1>1, <2>1, <2>2 DEF WorkTypes
<1>5. ServerTypes
  <2>1. /\ NoBus \in [subscribed : BOOLEAN, callbacks : Seq(Nat), queue : Seq(Nat)]
        /\ Len(NoBus.queue) <= QueueSize
    BY NobodySubscribed
  <2>2. Len(log) = 0 /\ 0 \in 0..Len(log)
    BY DEF StreamInit
  <2>3. stream \in [at : {"closed", "subscribe", "snapshot", "replay", "report", "wait"},
                    cursor : 0..Len(log), state : 0..Len(log)]
    BY <2>2 DEF StreamInit, NoStream
  <2>4. console \in [at : {"offline", "history", "connect", "open"}, cursor : 0..Len(log),
                     seen : 0..Len(log), shown : SUBSET (1..Len(log)),
                     pending : SUBSET (1..Len(log)), base : 0..Len(log)]
    <3>1. {} \in SUBSET (1..Len(log))
      OBVIOUS
    <3> QED
      BY <2>2, <3>1 DEF StreamInit
  <2>5. channel \in Seq(Messages)
    BY DEF StreamInit
  <2> QED
    BY <2>1, <2>3, <2>4, <2>5 DEF StreamInit, ServerTypes
<1>6. ViewFits
  <2>1. console.at = "offline" /\ console.cursor = 0 /\ console.seen = 0
    BY DEF StreamInit
  <2>2. channel = <<>> /\ stream.at = "closed"
    BY DEF StreamInit, NoStream
  <2>3. Cardinality(console.shown) <= Window
    BY StreamAssumption, FS_EmptySet DEF StreamInit
  <2> QED
    BY <2>1, <2>2, <2>3 DEF ViewFits, ConsoleFits, ShownIsGapless, ChannelFits, StreamFits
<1> QED
  BY <1>4, <1>5, <1>6 DEF StreamIInv

\* A step of a writer or of the server leaves the console as it was.
LEMMA OnlyWatchMovesTheView ==
  ASSUME (\E p \in Processes : Write(p)) \/ Serve
  PROVE  console' = console
<1>1. CASE \E p \in Processes : Write(p)
  BY <1>1 DEF Write, Stage, Abort, CommitCapsule, MemoryFails, Publish, EndProcess, OnlyWork
<1>2. CASE Serve
  BY <1>2 DEF Serve, Offer, Subscribe, TakeSnapshot, Replay, Report, Receive, Wake, OnlyServer
<1> QED
  BY <1>1, <1>2

\* Every step keeps the invariant, and none takes the console back.
LEMMA StreamSteps ==
  ASSUME StreamIInv, [StreamNext]_streamVars
  PROVE  StreamIInv' /\ console'.seen >= console.seen
<1>1. /\ console.seen \in Nat /\ Len(log) \in Nat /\ WorkTypes /\ ServerTypes /\ ViewFits
  BY ConsoleIs DEF StreamIInv
<1>2. CASE \E p \in Processes : Write(p)
  <2>1. PICK p \in Processes : Write(p)
    BY <1>2
  <2>2. StreamIInv'
    <3>1. CASE Stage(p)
      BY <3>1, StageKeeps
    <3>2. CASE Abort(p) \/ MemoryFails(p)
      BY <3>2, EndingKeeps
    <3>3. CASE CommitCapsule(p)
      BY <3>3, CommitCapsuleKeeps
    <3>4. CASE Publish(p)
      BY <3>4, PublishKeeps
    <3>5. CASE EndProcess(p)
      BY <3>5, EndProcessKeepsView
    <3> QED
      BY <2>1, <3>1, <3>2, <3>3, <3>4, <3>5 DEF Write
  <2> QED
    BY <1>1, <1>2, <2>2, OnlyWatchMovesTheView
<1>3. CASE Serve
  <2>1. StreamIInv'
    <3>1. CASE Offer
      BY <3>1, OfferKeeps
    <3>2. CASE Subscribe
      BY <3>2, SubscribeKeeps
    <3>3. CASE TakeSnapshot
      BY <3>3, TakeSnapshotKeeps
    <3>4. CASE Replay
      BY <3>4, ReplayKeeps
    <3>5. CASE Report
      BY <3>5, ReportKeeps
    <3>6. CASE Receive \/ Wake
      BY <3>6, WaitEnds
    <3> QED
      BY <1>3, <3>1, <3>2, <3>3, <3>4, <3>5, <3>6 DEF Serve
  <2> QED
    BY <1>1, <1>3, <2>1, OnlyWatchMovesTheView
<1>4. CASE Watch
  <2>1. CASE Fetch
    BY <2>1, FetchKeeps
  <2>2. CASE FetchHistory
    BY <2>2, FetchHistoryKeeps
  <2>3. CASE Open
    BY <2>3, OpenKeepsView
  <2>4. CASE Message
    BY <2>4, MessageKeeps
  <2>5. CASE Drop \/ Disconnected
    BY <2>5, HangupKeeps DEF Drop, Disconnected
  <2> QED
    BY <1>4, <2>1, <2>2, <2>3, <2>4, <2>5 DEF Watch
<1>5. CASE UNCHANGED streamVars
  <2>1. UNCHANGED <<setting, log, uow, lock, bus, stream, channel, console>>
    BY <1>5 DEF streamVars, saved, server
  <2>2. WorkTypes'
    BY <1>1, <2>1, WorkStays
  <2>3. ServerTypes'
    BY <1>1, <2>1, ServerStays DEF ServerTypes
  <2>4. ViewFits'
    BY <1>1, <2>1, ViewStays
  <2> QED
    BY <1>1, <2>1, <2>2, <2>3, <2>4 DEF StreamIInv
<1> QED
  BY <1>2, <1>3, <1>4, <1>5 DEF StreamNext

\* The invariant says all that the runs check of the types.
LEMMA StreamIsTyped ==
  ASSUME StreamIInv
  PROVE  StreamTypeOK
<1>1. /\ WorkTypes /\ ServerTypes /\ Cardinality(console.shown) <= Window
  BY DEF StreamIInv, ViewFits, ConsoleFits
<1>2. \A i \in DOMAIN log : log[i].subject \in OfRun \union Attempts /\ log[i].at \in Times
  <2>1. \A i \in DOMAIN log : log[i] \in StreamEvents
    BY <1>1 DEF WorkTypes
  <2> QED
    BY <2>1 DEF StreamEvents
<1>3. ASSUME NEW p \in Processes
      PROVE  /\ uow[p].at \in {"idle", "staging", "committed", "publishing"}
             /\ \A i \in DOMAIN uow[p].pending : uow[p].pending[i] \in DOMAIN log
  <2>1. uow[p].at \in {"idle", "staging", "committed", "publishing"}
    BY <1>1 DEF WorkTypes, WriterOf, IsWork
  <2>2. uow[p].pending \in Seq(1..Len(log)) /\ DOMAIN log = 1..Len(log)
    BY <1>1 DEF WorkTypes, WriterOf, IsWork
  <2> QED
    BY <2>1, <2>2
<1>4. lock = Nothing \/ uow[lock].at # "idle"
  BY <1>1 DEF WorkTypes, WriterOf
<1>5. 1..Len(log) \subseteq Numbers
  <2>1. Len(log) \in Nat /\ Len(log) <= MaxEvents /\ MaxEvents \in Nat
    BY <1>1, StreamAssumption DEF WorkTypes, MaxEvents
  <2> QED
    BY <2>1 DEF Numbers
<1>6. /\ stream.at \in {"closed", "subscribe", "snapshot", "replay", "report", "wait"}
      /\ console.at \in {"offline", "history", "connect", "open"}
      /\ console.shown \subseteq 1..Len(log) /\ console.pending \subseteq 1..Len(log)
      /\ Len(bus.queue) <= QueueSize /\ setting \in Settings
  BY <1>1 DEF ServerTypes, WorkTypes
<1>7. console.shown \subseteq Numbers /\ console.pending \subseteq Numbers
  BY <1>5, <1>6
<1> QED
  BY <1>1, <1>2, <1>3, <1>4, <1>6, <1>7 DEF StreamTypeOK

\* The invariant of the event stream: messages under way go on from what the console has,
\* and the server goes on from what it has sent.
THEOREM StreamInvariant == StreamSpec => []StreamIInv
<1>1. StreamInit => StreamIInv
  BY StreamBegins
<1>2. StreamIInv /\ [StreamNext]_streamVars => StreamIInv'
  BY StreamSteps
<1> QED
  BY <1>1, <1>2, PTL DEF StreamSpec

\* What a connected console shows is the latest of a history, and gapless, whatever becomes
\* of the notifications, the connections and the processes (event_bus.py, web.py).
THEOREM ConsoleIsTrue == StreamSpec => []ConsoleInv
<1>1. StreamIInv => ConsoleInv
  BY StreamIsTyped DEF StreamIInv, ViewFits, ConsoleFits, ConsoleInv
<1> QED
  BY <1>1, StreamInvariant, PTL

\* What a console shows never goes back to an older history, nor ahead of the committed one.
THEOREM ViewGoesForward == StreamSpec => ViewNeverGoesBack
<1>1. ASSUME StreamIInv, [StreamNext]_streamVars
      PROVE  [/\ console'.seen >= console.seen
              /\ console'.seen <= Len(log')]_streamVars
  <2>1. StreamIInv' /\ console'.seen >= console.seen
    BY <1>1, StreamSteps
  <2>2. Len(log') \in Nat /\ console'.seen \in 0..Len(log')
    BY <2>1 DEF StreamIInv, WorkTypes, ServerTypes
  <2> QED
    BY <2>1, <2>2
<1> QED
  BY <1>1, StreamInvariant, PTL DEF StreamSpec, ViewNeverGoesBack
=============================================================================
