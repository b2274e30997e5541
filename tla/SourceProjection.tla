-------------------------- MODULE SourceProjection --------------------------
(***************************************************************************)
(* The projection of the sources that memory is searched in: one record    *)
(* per file and one of the whole, the inventory of the files, and the      *)
(* snapshot that says which commit they describe.  A refresh brings them   *)
(* from one commit to another under a lock; its files are replaced one     *)
(* after the other, and it can be interrupted between any two.             *)
(***************************************************************************)
EXTENDS Naturals, Repository

CONSTANTS
    Version,        \* of the indexer and the embeddings, part of the fingerprint
    Overview,       \* the path of the record of the whole, "."
    Missing,        \* the inventory of a cache that has none
    MaxCheckouts, MaxFaults,    \* bounds: moves of HEAD; interruptions, losses
    Lost            \* see torn

ASSUME SourceAssumption ==
    /\ Overview \notin Path
    /\ MaxCheckouts \in Nat /\ MaxFaults \in Nat

VARIABLES
    gone,           \* commits no longer in the repository; they do not come back
    disk,           \* active records, snapshot and inventory
    lock,           \* of the source projection
    torn,           \* None, or the refresh whose interrupted writes, or whose records
                    \* without inventory, are still in the files; Lost if no later
                    \* refresh is sure to replace them
    checkouts, faults   \* counted for their bounds

counts == <<checkouts, faults>>
vars == <<head, gone, disk, lock, call, torn, counts>>

\* Identities of records: it is enough to tell that of a path from the one it replaces.
Ids == {0, 1}
Records == [id : Ids, path : Path \union {Overview}, hash : Content \union Commit,
            version : Version]
Snapshots == [commit : Commit, version : Version]
Empty == [active |-> {}, snapshot |-> None, files |-> Missing]

\* The marks are told from what they stand beside.
ASSUME MarkAssumption ==
    /\ None \notin Commit \union Snapshots
    /\ Missing \notin Files
    /\ Lost \notin Snapshots \union {None}

Init ==
    /\ head \in Commit
    /\ gone = {}
    /\ disk = Empty
    /\ lock = None
    /\ call = [p \in Process |-> Idle]
    /\ torn = None
    /\ checkouts = 0 /\ faults = 0

-----------------------------------------------------------------------------
(* Reading the projection. *)

\* _load: without the inventory the snapshots do not count.
Load(d) ==
    [active   |-> d.active,
     snapshot |-> IF d.files = Missing THEN None ELSE d.snapshot,
     files    |-> IF d.files = Missing THEN NoFiles ELSE d.files,
     retired  |-> {}]

At(p, place) == call[p].at = place

-----------------------------------------------------------------------------
(* A refresh: what it makes of the records and the inventory. *)

Indexed(c, p) == IF Tree[c][p] \in Indexable THEN Tree[c][p] ELSE None
Inventoried(files) == {p \in Path : files[p] # None}

Rebuild(mem, v) ==
    /\ mem.snapshot # None
    /\ mem.snapshot.version # v \/ mem.snapshot.commit \in gone

\* Variant: a rebuild looks at what is tracked now only.
PathsOfTracked(mem, h, rebuild) ==
    IF mem.snapshot = None \/ rebuild THEN Tracked(h)
    ELSE {p \in Path : Tree[mem.snapshot.commit][p] # Tree[h][p]}

PathsOf(mem, h, rebuild) ==
    IF mem.snapshot = None THEN Tracked(h)
    ELSE IF rebuild THEN Tracked(h) \union Inventoried(mem.files)
    ELSE {p \in Path : Tree[mem.snapshot.commit][p] # Tree[h][p]}

\* remove_file and save_file.
Inventory(files, h, dropped, changed) ==
    [p \in Path |-> IF p \in dropped THEN None
                    ELSE IF p \in changed THEN Indexed(h, p) ELSE files[p]]

\* refresh, for each path: invalidate_path and remove_file of what is gone, add_item,
\* invalidate_path and save_file of what changed; then the overview and the snapshot.
Scanned(mem, h, v, rebuild) ==
    LET paths == PathsOf(mem, h, rebuild)
        dropped == {p \in paths : Indexed(h, p) = None}
        changed == {p \in paths \ dropped : rebuild \/ mem.files[p] # Indexed(h, p)}
        new == changed \union {Overview}
        id == [p \in new |-> IF \E r \in mem.active : r.path = p /\ r.id = 0 THEN 1 ELSE 0]
        kept == {r \in mem.active : r.path \notin new \union dropped} IN
    [active   |-> kept \union {[id |-> id[p], path |-> p, version |-> v,
                                hash |-> IF p = Overview THEN h ELSE Indexed(h, p)] : p \in new},
     retired  |-> mem.active \ kept,
     snapshot |-> [commit |-> h, version |-> v],
     files    |-> Inventory(mem.files, h, dropped, changed)]

-----------------------------------------------------------------------------
(* Steps of a refresh. *)

\* The repository of a unit of work reads the projection as it is constructed.
Open(p, v) ==
    /\ call[p] = Idle
    /\ lock = None
    /\ Set(p, [at |-> "open", version |-> v, head |-> None, mem |-> Load(disk)])
    /\ UNCHANGED <<head, gone, disk, lock, torn, counts>>

\* Variant: what was read at construction is taken for what is there.
LockWithoutReload(p) ==
    /\ At(p, "open")
    /\ lock = None
    /\ lock' = p
    /\ Set(p, [call[p] EXCEPT !.at = "locked", !.head = head])
    /\ UNCHANGED <<head, gone, disk, torn, counts>>

\* lock_project, _prepare_write; then HEAD is resolved.
Lock(p) ==
    /\ At(p, "open")
    /\ lock = None
    /\ lock' = p
    /\ Set(p, [call[p] EXCEPT !.at = "locked", !.head = head, !.mem = Load(disk)])
    /\ UNCHANGED <<head, gone, disk, torn, counts>>

UpToDate(p) == call[p].mem.snapshot = [commit |-> call[p].head, version |-> call[p].version]

Done(p) == Set(p, Idle) /\ lock' = None

Reuse(p) ==
    /\ At(p, "locked") /\ UpToDate(p)
    /\ Done(p)
    /\ UNCHANGED <<head, gone, disk, torn, counts>>

Scan(p) ==
    LET c == call[p]
        rebuild == Rebuild(c.mem, c.version) IN
    /\ At(p, "locked") /\ ~ UpToDate(p)
    /\ Set(p, [c EXCEPT !.at = "scanned", !.mem = Scanned(c.mem, c.head, c.version, rebuild)])
    /\ UNCHANGED <<head, gone, disk, lock, torn, counts>>

\* HEAD is compared with what it was, before anything is written.
Check(p) ==
    /\ At(p, "scanned") /\ head = call[p].head
    /\ Set(p, [call[p] EXCEPT !.at = "records"])
    /\ UNCHANGED <<head, gone, disk, lock, torn, counts>>

\* A conflict, a git command that fails, an invalid embedding: rollback and close.
Fail(p) ==
    /\ call[p].at \in {"open", "locked", "scanned"}
    /\ Set(p, Idle)
    /\ lock' = IF lock = p THEN None ELSE lock
    /\ UNCHANGED <<head, gone, disk, torn, counts>>

Retiring(p) == disk.active \intersect call[p].mem.retired
Adding(p) == call[p].mem.active \ disk.active
Unlinking(p) == disk.active \ (call[p].mem.active \union Retiring(p))

\* commit: one file after the other, those that were there first, in the order they
\* were read and made; what is not expected is unlinked last.
WriteRecord(p) ==
    /\ At(p, "records")
    /\ \/ \E r \in Retiring(p) : disk' = [disk EXCEPT !.active = @ \ {r}]
       \/ /\ Retiring(p) = {}
          /\ \E r \in Adding(p) : disk' = [disk EXCEPT !.active = @ \union {r}]
       \/ /\ Retiring(p) = {} /\ Adding(p) = {}
          /\ \E r \in Unlinking(p) : disk' = [disk EXCEPT !.active = @ \ {r}]
    /\ UNCHANGED <<head, gone, lock, call, torn, counts>>

WriteSnapshot(p) ==
    /\ At(p, "records") /\ disk.active = call[p].mem.active
    /\ disk' = [disk EXCEPT !.snapshot = call[p].mem.snapshot]
    /\ Set(p, [call[p] EXCEPT !.at = "inventory"])
    /\ UNCHANGED <<head, gone, lock, torn, counts>>

\* A refresh to the same commit by the same indexer replaces what an earlier one left.
WriteInventory(p) ==
    /\ At(p, "inventory")
    /\ disk' = [disk EXCEPT !.files = call[p].mem.files]
    /\ torn' = IF torn \in {None, call[p].mem.snapshot} THEN None ELSE Lost
    /\ Done(p)
    /\ UNCHANGED <<head, gone, counts>>

-----------------------------------------------------------------------------
(* Interruptions, and the world around. *)

Fault ==
    /\ faults < MaxFaults
    /\ faults' = faults + 1
    /\ UNCHANGED checkouts

\* The process ends in the middle of the commit, or one of its writes fails.
Interrupt(p) ==
    /\ call[p].at \in {"records", "inventory"}
    /\ torn' = IF \/ torn \notin {None, call[p].mem.snapshot}
                  \/ At(p, "inventory") /\ disk.files # Missing
               THEN Lost ELSE call[p].mem.snapshot
    /\ Fault
    /\ Done(p)
    /\ UNCHANGED <<head, gone, disk>>

Checkout(c) ==
    /\ c \notin gone \union {head}
    /\ checkouts < MaxCheckouts
    /\ checkouts' = checkouts + 1
    /\ head' = c
    /\ UNCHANGED <<gone, disk, lock, call, torn, faults>>

\* A commit that no branch has any more is collected; not one that is being read.
Collect(c) ==
    /\ c \notin gone \union {head}
    /\ \A p \in Process : call[p] # Idle => call[p].head # c
    /\ gone' = gone \union {c}
    /\ Fault
    /\ UNCHANGED <<head, disk, lock, call, torn>>

DeleteCache ==
    /\ lock = None /\ disk # Empty
    /\ disk' = Empty
    /\ torn' = None
    /\ Fault
    /\ UNCHANGED <<head, gone, lock, call>>

\* Without the inventory a refresh to another commit does not see the records of files that
\* are gone there.
DeleteInventory ==
    /\ lock = None /\ disk.files # Missing
    /\ disk' = [disk EXCEPT !.files = Missing]
    /\ torn' = IF torn \in {None, disk.snapshot} THEN disk.snapshot ELSE Lost
    /\ Fault
    /\ UNCHANGED <<head, gone, lock, call>>

Next ==
    \/ \E p \in Process :
           \/ \E v \in Version : Open(p, v)
           \/ Lock(p) \/ Reuse(p) \/ Scan(p) \/ Check(p) \/ Fail(p)
           \/ WriteRecord(p) \/ WriteSnapshot(p) \/ WriteInventory(p) \/ Interrupt(p)
    \/ \E c \in Commit : Checkout(c) \/ Collect(c)
    \/ DeleteCache
    \/ DeleteInventory

Spec == Init /\ [][Next]_vars

-----------------------------------------------------------------------------
(* Properties. *)

\* Types; who is past the lock owns it.
TypeOK ==
    /\ head \in Commit \ gone /\ gone \subseteq Commit
    /\ disk.active \subseteq Records
    /\ disk.snapshot \in Snapshots \union {None}
    /\ disk.files \in Files \union {Missing}
    /\ lock \in Process \union {None}
    /\ \A p \in Process :
           /\ call[p].at \in {"idle", "open", "locked", "scanned", "records", "inventory"}
           /\ call[p] # Idle =>
                  /\ call[p].version \in Version
                  /\ call[p].head \in Commit \union {None}
                  /\ call[p].mem.active \subseteq Records
                  /\ call[p].mem.retired \subseteq Records
                  /\ call[p].mem.snapshot \in Snapshots \union {None}
                  /\ call[p].mem.files \in Files
           /\ (lock = p) = (call[p].at \in {"locked", "scanned", "records", "inventory"})
    /\ torn \in Snapshots \union {None, Lost}

\* A path is never described twice in the files, in whatever order refreshes overlap
\* and wherever one is interrupted: search would serve a summary of old source beside
\* the new one (memory/service.py:222, memory_store.py:523).
OneRecordPerPath ==
    \A r, q \in disk.active : r.path = q.path => r = q

\* What the active records say, path by path, is what the indexed commit has.
Describes(active, s) ==
    {[path |-> r.path, hash |-> r.hash, version |-> r.version] : r \in active} \subseteq
        {[path |-> p, hash |-> Indexed(s.commit, p), version |-> v] :
             p \in Path, v \in Version}
        \union {[path |-> Overview, hash |-> s.commit, version |-> s.version]}

Covers(active, s) ==
    \A p \in Path : Indexed(s.commit, p) # None =>
        \E r \in active : r.path = p /\ r.hash = Indexed(s.commit, p)

Trusted == IF lock = None /\ torn = None THEN Load(disk).snapshot ELSE None

\* When a snapshot is trusted, the records are those of its commit: nothing of another
\* commit is found and nothing of it is missed, after every sequence of checkouts,
\* failed refreshes, changes of the indexer and losses of the cache, and after an
\* interrupted commit or the loss of the inventory once that refresh was repeated
\* (memory/service.py:124).
FreshIsCurrent ==
    Trusted # None => Describes(disk.active, Trusted) /\ Covers(disk.active, Trusted)

\* All of a rebuild is of the version it was made for; later refreshes by the same
\* indexer keep it so (memory/service.py:146).
OneIndexerVersion ==
    Trusted # None => \A r \in disk.active : r.version = Trusted.version

\* The inventory, which decides what the next refresh may skip, is that of the same
\* commit (memory/service.py:184).
InventoryIsCurrent ==
    Trusted # None => disk.files = [p \in Path |-> Indexed(Trusted.commit, p)]

\* The files of the projection can be read at any time: each path has one record.
ProjectionInv == TypeOK /\ OneRecordPerPath

\* A snapshot that is trusted is right: records and inventory are those of its commit, made
\* by one indexer, so that search finds nothing old and misses nothing new.
SnapshotIsTrue == FreshIsCurrent /\ OneIndexerVersion /\ InventoryIsCurrent
=============================================================================
