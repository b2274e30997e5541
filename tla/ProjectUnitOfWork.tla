-------------------------- MODULE ProjectUnitOfWork --------------------------
(***************************************************************************)
(* Units of work over all the Task Capsules of a project: finding a run,   *)
(* changing one, checking that an identity belongs to no other, creating   *)
(* one, and committing to the capsule, the task index and the memory of    *)
(* sources, which have no transaction in common.  CapsuleStore shows that  *)
(* what is one step here, the commit of one capsule, is atomic.            *)
(***************************************************************************)
EXTENDS Naturals

CONSTANTS
    Session,        \* open units of work, of threads that do not share a lock
    Run,
    Identity,       \* of tool calls, reviews, artifacts, ... : unique in the project
    MaxGeneration,  \* bound: how often a capsule is committed
    Absent, Reserved,   \* of a directory: not there, or there with nothing in it
    None

ASSUME UnitOfWorkAssumption ==
    /\ MaxGeneration \in Nat \ {0}
    /\ None \notin Session \union Identity
    /\ Absent # Reserved

VARIABLES
    capsule,        \* the directory of each run, and what it holds
    index,          \* runs listed in tasks/index.json
    memory,         \* generation of each run that the memory of sources refers to
    call,           \* the state of each unit of work
    stateLock, identityLock, memoryLock

locks == <<stateLock, identityLock, memoryLock>>
vars == <<capsule, index, memory, call, locks>>

\* Documents of a run as far as they matter here; generation 0 is not yet committed.
Aggregate == [generation : 0..MaxGeneration, identities : SUBSET Identity]
Created(n) == [generation |-> n, identities |-> {}]

ASSUME MarksAssumption == \A mark \in {Absent, Reserved, None} : mark \notin Aggregate

Idle == [at |-> "idle"]

Init ==
    /\ capsule \in [Run -> {Absent, Created(1)}]
    /\ index = {}
    /\ memory = [r \in Run |-> 0]
    /\ call = [s \in Session |-> Idle]
    /\ stateLock = [r \in Run |-> None]
    /\ identityLock = None
    /\ memoryLock = None

-----------------------------------------------------------------------------
(* Finding capsules, and what a unit of work has of them. *)

Directories == {r \in Run : capsule[r] # Absent}
Committed == {r \in Run : capsule[r] \notin {Absent, Reserved}}

\* Variant: the index is taken as it is.
IndexAsItIs == index

\* _index_entries: the index counts if it lists every directory.
Entries == IF index = Directories THEN index ELSE Committed

At(s, place) == call[s].at = place
Target(s) == call[s].run
Held(s) == {r \in Run : stateLock[r] = s}
Cached(s) == {r \in Run : call[s].cache[r] # None}

\* Variant: the generation is not compared.
CurrentAssumed(s, r) == TRUE

\* What the unit of work has read of a run is still what is on disk.
Current(s, r) ==
    call[s].cache[r].generation # 0 => call[s].cache[r].generation = capsule[r].generation

Set(s, c) == call' = [call EXCEPT ![s] = c]
With(s, r) == [stateLock EXCEPT ![r] = s]
Without(s) == [r \in Run |-> IF stateLock[r] = s THEN None ELSE stateLock[r]]
OnlyCalls == UNCHANGED <<capsule, index, memory, locks>>

-----------------------------------------------------------------------------
(* Reading, creating and changing a run. *)

Begin(s, r) ==
    /\ call[s] = Idle
    /\ Set(s, [at |-> "open", run |-> r, cache |-> [q \in Run |-> None], dirty |-> FALSE,
               keeps |-> FALSE, todo |-> {}, identity |-> None])
    /\ OnlyCalls

\* load_capsule: the lock is given back as soon as the capsule is read.  No run is
\* looked up by a unit of work that has another's lock: what services look up with
\* it belongs to the run they changed, which iter_capsules finds first.
Read(s, r) ==
    /\ At(s, "open") /\ Held(s) = {} /\ memoryLock # s
    /\ r \in Committed \ Cached(s)
    /\ stateLock[r] = None
    /\ call' = [call EXCEPT ![s].cache[r] = capsule[r]]
    /\ OnlyCalls

\* create_capsule, reserve_capsule: nobody can find the run before it is committed.
Create(s) ==
    /\ At(s, "open") /\ memoryLock # s
    /\ capsule[Target(s)] = Absent
    /\ capsule' = [capsule EXCEPT ![Target(s)] = Reserved]
    /\ stateLock' = With(s, Target(s))
    /\ call' = [call EXCEPT ![s].cache[Target(s)] = Created(0), ![s].dirty = TRUE]
    /\ UNCHANGED <<index, memory, identityLock, memoryLock>>

\* load_capsule(for_update=True) and a change of the run that needs no identity.
Edit(s) ==
    LET r == Target(s)
        c == IF r \in Cached(s) THEN call[s].cache[r] ELSE capsule[r] IN
    /\ At(s, "open") /\ memoryLock # s
    /\ r \in Committed
    /\ stateLock[r] \in {None, s}
    /\ (r \in Cached(s) => Current(s, r))
    /\ stateLock' = With(s, r)
    /\ call' = [call EXCEPT ![s].cache[r] = c, ![s].dirty = TRUE]
    /\ UNCHANGED <<capsule, index, memory, identityLock, memoryLock>>

\* uow.memory and its first write; nothing is staged in a run afterwards.
UseMemory(s) ==
    /\ At(s, "open") /\ Held(s) # {}
    /\ memoryLock = None
    /\ memoryLock' = s
    /\ UNCHANGED <<capsule, index, memory, call, stateLock, identityLock>>

-----------------------------------------------------------------------------
(* An identity: of what is in no run but the target. *)

\* What is discovered again under the lease: all but the run whose lock is kept.
Discovery(s) ==
    LET kept == IF call[s].keeps THEN {Target(s)} ELSE {} IN
    [call[s] EXCEPT !.at = "scan", !.todo = Entries \ kept,
                    !.cache = [r \in Run |-> IF r \in kept THEN @[r] ELSE None]]

\* Variant: the lease is waited for with the run's lock in hand.
AskIdentityLocked(s, i) ==
    /\ At(s, "open") /\ memoryLock # s
    /\ Set(s, [call[s] EXCEPT !.at = IF identityLock = s THEN "scan" ELSE "lease",
                              !.todo = Entries \ Cached(s),
                              !.identity = i, !.keeps = Held(s) # {}])
    /\ OnlyCalls

\* lock_auxiliary_identities: the locks of runs are given back before the wait.
AskIdentity(s, i) ==
    /\ At(s, "open") /\ memoryLock # s
    /\ \/ /\ identityLock = s
          /\ Set(s, [call[s] EXCEPT !.at = "scan", !.todo = Entries \ Cached(s),
                                    !.identity = i])
          /\ UNCHANGED stateLock
       \/ /\ identityLock # s
          /\ Set(s, [call[s] EXCEPT !.at = "lease", !.identity = i,
                                    !.keeps = Held(s) # {}])
          /\ stateLock' = Without(s)
    /\ UNCHANGED <<capsule, index, memory, identityLock, memoryLock>>

TakeLease(s) ==
    /\ At(s, "lease")
    /\ identityLock = None
    /\ identityLock' = s
    /\ Set(s, IF call[s].keeps THEN [call[s] EXCEPT !.at = "relock"] ELSE Discovery(s))
    /\ UNCHANGED <<capsule, index, memory, stateLock, memoryLock>>

Relock(s) ==
    /\ At(s, "relock")
    /\ stateLock[Target(s)] \in {None, s}
    /\ Current(s, Target(s))
    /\ stateLock' = With(s, Target(s))
    /\ Set(s, Discovery(s))
    /\ UNCHANGED <<capsule, index, memory, identityLock, memoryLock>>

\* iter_capsules.
ScanOne(s, r) ==
    /\ At(s, "scan") /\ r \in call[s].todo
    /\ stateLock[r] \in {None, s}
    /\ call' = [call EXCEPT ![s].cache[r] = capsule[r], ![s].todo = @ \ {r}]
    /\ OnlyCalls

Owned(s, i) == \E r \in Cached(s) \ {Target(s)} : i \in call[s].cache[r].identities

\* _ensure_upsert_owner and what is stored: only a new identity, or the run's own.
Save(s) ==
    LET r == Target(s) IN
    /\ At(s, "scan") /\ call[s].todo = {}
    /\ ~ Owned(s, call[s].identity)
    /\ r \in Cached(s)
    /\ stateLock[r] \in {None, s}
    /\ Current(s, r)
    /\ stateLock' = With(s, r)
    /\ call' = [call EXCEPT ![s].at = "open", ![s].dirty = TRUE,
                            ![s].cache[r].identities = @ \union {call[s].identity}]
    /\ UNCHANGED <<capsule, index, memory, identityLock, memoryLock>>

-----------------------------------------------------------------------------
(* Commit: the capsule, then the index, then memory. *)

\* What memory would say of the run, once or before that is committed.
MemoryOf(s) == [memory EXCEPT ![Target(s)] = call[s].cache[Target(s)].generation]

Commit(s) ==
    LET r == Target(s)
        next == [call[s].cache[r] EXCEPT !.generation = @ + 1] IN
    /\ At(s, "open") /\ call[s].dirty
    /\ next.generation <= MaxGeneration
    /\ Current(s, r)
    /\ capsule' = [capsule EXCEPT ![r] = next]
    /\ Set(s, [call[s] EXCEPT !.at = "index", !.cache[r] = next, !.dirty = FALSE])
    /\ UNCHANGED <<index, memory, locks>>

\* read_index: the capsules are listed before the lock of the index is taken.
ListTasks(s) ==
    /\ At(s, "index")
    /\ call' = [call EXCEPT ![s].at = "listed", ![s].todo = Committed]
    /\ OnlyCalls

WriteIndex(s) ==
    /\ At(s, "listed")
    /\ index' = call[s].todo
    /\ call' = [call EXCEPT ![s].at = "memory", ![s].todo = {}]
    /\ UNCHANGED <<capsule, memory, locks>>

CommitMemory(s) ==
    /\ At(s, "memory")
    /\ memory' = IF memoryLock = s THEN MemoryOf(s) ELSE memory
    /\ call' = [call EXCEPT ![s].at = "done"]
    /\ UNCHANGED <<capsule, index, locks>>

Release(s) ==
    /\ Set(s, Idle)
    /\ stateLock' = Without(s)
    /\ identityLock' = IF identityLock = s THEN None ELSE identityLock
    /\ memoryLock' = IF memoryLock = s THEN None ELSE memoryLock
    /\ UNCHANGED <<index, memory>>

\* close, after a commit or with nothing to commit, and after any conflict or error:
\* what was reserved is removed.
Close(s) ==
    /\ call[s] # Idle
    /\ capsule' = [r \in Run |->
           IF capsule[r] = Reserved /\ r = Target(s) /\ r \in Cached(s) THEN Absent
                                                                       ELSE capsule[r]]
    /\ Release(s)

\* The process ends at any place; the operating system gives back its locks.
Crash(s) ==
    /\ call[s] # Idle
    /\ Release(s)
    /\ UNCHANGED capsule

Next ==
    \E s \in Session :
        \/ \E r \in Run : Begin(s, r) \/ Read(s, r) \/ ScanOne(s, r)
        \/ \E i \in Identity : AskIdentity(s, i)
        \/ Create(s) \/ Edit(s) \/ UseMemory(s)
        \/ TakeLease(s) \/ Relock(s) \/ Save(s)
        \/ Commit(s) \/ ListTasks(s) \/ WriteIndex(s) \/ CommitMemory(s)
        \/ Close(s) \/ Crash(s)

Spec == Init /\ [][Next]_vars

-----------------------------------------------------------------------------
(* Properties. *)

Places == {"open", "lease", "relock", "scan", "index", "listed", "memory", "done"}

Call == [at : Places, run : Run, cache : [Run -> Aggregate \union {None}], dirty : BOOLEAN,
         keeps : BOOLEAN, todo : SUBSET Run, identity : Identity \union {None}]

\* Types, and what the locks are for: a unit of work that has staged a change has the
\* lock of its run unless it waits for the lease of identities, and a directory that
\* is reserved but empty is never listed (task_store.py:436, 515).
TypeOK ==
    /\ capsule \in [Run -> Aggregate \union {Absent, Reserved}]
    /\ index \in SUBSET Committed
    /\ memory \in [Run -> 0..MaxGeneration]
    /\ call \in [Session -> Call \union {Idle}]
    /\ stateLock \in [Run -> Session \union {None}]
    /\ identityLock \in Session \union {None} /\ memoryLock \in Session \union {None}
    /\ \A s \in Session :
           call[s] # Idle /\ call[s].dirty /\ call[s].at \notin {"lease", "relock"} =>
               Target(s) \in Held(s)

\* An identity is in one run, although it is looked for in an index that may be out of
\* date, in documents read earlier, and while other runs are created and changed
\* (auxiliary_stores.py: "identity already exists"; task_store.py:515).
IdentityHasOneRun ==
    \A r, q \in Committed : r # q => capsule[r].identities \intersect capsule[q].identities = {}

\* What is committed to a run is in it for good: no unit of work commits over what
\* another one committed since it read the run (task_store.py:759, 1352).
IdentitiesAreKept ==
    [][\A r \in Committed :
           /\ capsule'[r] \notin {Absent, Reserved}
           /\ capsule[r].identities \subseteq capsule'[r].identities]_vars

\* Memory never refers to a commit of a task that is not durable, whatever is
\* interrupted (unit_of_work.py:31).
MemoryFollowsTasks ==
    \A r \in Run :
        memory[r] > 0 => r \in Committed /\ memory[r] <= capsule[r].generation

\* The units of work whose locks s may have to wait for at its next step.
Blockers(s) ==
    LET owners(R) == {stateLock[r] : r \in R}
        next ==
            IF At(s, "idle") THEN {}
            ELSE IF At(s, "lease") THEN {identityLock}
            ELSE IF At(s, "relock") THEN owners({Target(s)})
            ELSE IF At(s, "scan") THEN owners(call[s].todo \union {Target(s)})
            ELSE IF At(s, "open") THEN
                {memoryLock} \union (IF memoryLock = s THEN {} ELSE owners({Target(s)}))
            ELSE {} IN
    next \ {s, None}

\* However runs, identities and memory are used together, there is always someone who
\* need not wait: no set of units of work waits for one another (task_store.py:515,
\* unit_of_work.py:52).
NoCircularWait ==
    \A S \in (SUBSET Session) \ {{}} : \E s \in S : Blockers(s) \intersect S = {}

\* Three stores without a common transaction agree: an identity is in one run, and memory
\* refers to what is durable, after every crash and interleaving of commits.
StoresAgree == TypeOK /\ IdentityHasOneRun /\ MemoryFollowsTasks
=============================================================================
