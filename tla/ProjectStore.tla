----------------------------- MODULE ProjectStore -----------------------------
(***************************************************************************)
(* The project store of a repository: its manifest, its identity, the      *)
(* configuration and the .gitignore rendered from it.  Processes create    *)
(* it, open it, migrate a manifest of schema 1 and record what the index   *)
(* was built from, each under a lock of its own; a process may die between *)
(* any two writes.  What a process still has to do is a sequence of steps, *)
(* to which a call adds the steps of what it calls.                        *)
(***************************************************************************)
EXTENDS Integers, Sequences

CONSTANTS
    Processes,
    MaxOperations,  \* bound: operations begun
    MaxEdits,       \* bound: edits of config.yaml
    MaxHead,        \* bound: commits of the repository
    MaxCrashes,
    None

Locks == {"bootstrap", "identity", "migration", "manifest"}
Operations == {"initialize", "open", "index"}
Ids == Nat \ {0}

ASSUME ProjectStoreAssumption ==
    /\ {MaxOperations, MaxEdits, MaxHead, MaxCrashes} \subseteq Nat
    /\ MaxHead > 0

Manifests == [schema : {1, 2}, id : Ids, commit : 0..MaxHead]
ASSUME StoreMarkAssumption == None \notin Processes \union Ids \union Manifests

VARIABLES
    manifest,           \* None, or [schema, id, commit]
    identity,           \* project/identity.yaml: None, or an id
    config, gitignore,  \* the version of the configuration; that it was rendered from
    documents,          \* project/*.yaml, and by which process's look at the repository
    backups,            \* backups/manifest.schema-1.*
    holder,             \* who has each lock
    head,               \* HEAD of the repository
    w,                  \* the processes
    drawn,              \* ids uuid4 has returned so far
    recorded,           \* history: the commit a creation or an index last recorded
    original,           \* history: the manifest the store began with
    operations, crashes

store == <<manifest, identity, config, gitignore, documents, backups, recorded>>
history == <<original, drawn>>
storeVars == <<store, holder, head, w, history, operations, crashes>>

Missing == -1
Idle == [todo |-> <<>>, found |-> None, mine |-> None, seen |-> Missing, old |-> None,
         commit |-> 0, returned |-> None]

\* A repository without a store, or one with a store of schema 1.
StoreInit ==
    /\ original \in {None} \union [schema : {1}, id : {1}, commit : {0}]
    /\ manifest = original
    /\ identity = IF original = None THEN None ELSE original.id
    /\ config = Missing
    /\ gitignore = Missing
    /\ documents = None
    /\ backups = {}
    /\ holder = [l \in Locks |-> None]
    /\ head = 1
    /\ w = [p \in Processes |-> Idle]
    /\ drawn = IF original = None THEN 0 ELSE 1
    /\ recorded = 0
    /\ operations = 0
    /\ crashes = 0

-----------------------------------------------------------------------------
(* Steps and calls. *)

Do(step) == [do |-> step, with |-> "store"]
Take(lock) == [do |-> "take", with |-> lock]
Give(lock) == [do |-> "give", with |-> lock]

At(p, step) == w[p].todo # <<>> /\ Head(w[p].todo).do = step
Lock(p) == Head(w[p].todo).with

\* The step is done; `more' comes before what was to follow.
Then(p, more) == [w[p] EXCEPT !.todo = more \o Tail(@)]
Continue(p, next) == w' = [w EXCEPT ![p] = next]
Released(p) == [l \in Locks |-> IF holder[l] = p THEN None ELSE holder[l]]

\* An exception: what the process holds is given back.
Fail(p) == Continue(p, Idle) /\ holder' = Released(p)

OnlyProcess == UNCHANGED <<store, head, history, operations, crashes>>
Reads == OnlyProcess /\ UNCHANGED holder
Writes == UNCHANGED <<holder, head, history, operations, crashes>>

Sync == <<Do("config"), Do("sync"), Do("gitignore")>>

Bootstrap == <<Take("bootstrap"), Do("manifest")>> \o Sync \o <<Give("bootstrap")>>

Publish == Sync \o <<Do("publish")>>
Migrate == <<Take("migration"), Do("migrate")>>
Upgrade == <<Do("backup")>> \o Sync \o <<Do("upgrade"), Give("migration")>>

\* Variant: the lock of the manifest is not given back.
RecordForGood == <<Do("head"), Take("manifest"), Do("reread"), Do("record")>>

Record == <<Do("head"), Take("manifest"), Do("reread"), Do("record"), Give("manifest")>>
Describe == Bootstrap \o <<Do("verify"), Do("documents")>> \o Record
Reserve == <<Take("identity"), Do("load"), Do("reserve")>>

Steps(operation) ==
    CASE operation = "initialize" -> <<Do("open"), Do("load"), Do("lookup")>>
      [] operation = "open" -> <<Do("open"), Do("load"), Do("return")>>
      [] operation = "index" -> <<Do("open")>> \o Record

Begin(p, operation) ==
    /\ w[p].todo = <<>>
    /\ operations < MaxOperations
    /\ operations' = operations + 1
    /\ Continue(p, [Idle EXCEPT !.todo = Steps(operation)])
    /\ UNCHANGED <<store, holder, head, history, crashes>>

TakeLock(p) ==
    /\ At(p, "take")
    /\ holder[Lock(p)] = None
    /\ holder' = [holder EXCEPT ![Lock(p)] = p]
    /\ Continue(p, Then(p, <<>>))
    /\ OnlyProcess

GiveLock(p) ==
    /\ At(p, "give")
    /\ holder' = [holder EXCEPT ![Lock(p)] = None]
    /\ Continue(p, Then(p, <<>>))
    /\ OnlyProcess

-----------------------------------------------------------------------------
(* The layout of the store. *)

Current == manifest # None /\ manifest.schema = 2
Old == manifest # None /\ manifest.schema = 1

\* ensure_current_schema, where a store is opened and where a bootstrap finds a manifest.
Ensure(p) == Then(p, IF Old THEN Migrate ELSE <<>>)

Open(p) == At(p, "open") /\ Continue(p, Ensure(p)) /\ Reads

\* migrate_manifest looks again under its lock.
MigrateManifest(p) ==
    /\ At(p, "migrate")
    /\ Continue(p, IF Old THEN [Then(p, Upgrade) EXCEPT !.old = manifest]
                   ELSE Then(p, <<Give("migration")>>))
    /\ Reads

Backup(p) ==
    /\ At(p, "backup")
    /\ backups' = backups \union {manifest}
    /\ Continue(p, Then(p, <<>>))
    /\ UNCHANGED <<manifest, identity, config, gitignore, documents, recorded>>
    /\ Writes

UpgradeManifest(p) ==
    /\ At(p, "upgrade")
    /\ manifest' = [w[p].old EXCEPT !.schema = 2]
    /\ Continue(p, Then(p, <<>>))
    /\ UNCHANGED <<identity, config, gitignore, documents, backups, recorded>>
    /\ Writes

\* bootstrap_project_store, with the lock: a store that has a manifest is only brought up
\* to date; in one that has none the manifest is written last, with the commit of then.
FindManifest(p) ==
    /\ At(p, "manifest")
    /\ Continue(p, IF manifest = None THEN [Then(p, Publish) EXCEPT !.commit = head]
                   ELSE Ensure(p))
    /\ Reads

DefaultConfig(p) ==
    /\ At(p, "config")
    /\ config' = IF config = Missing THEN 0 ELSE config
    /\ Continue(p, Then(p, <<>>))
    /\ UNCHANGED <<manifest, identity, gitignore, documents, backups, recorded>>
    /\ Writes

\* _sync_store_gitignore: reads the configuration, then writes what it renders.
ReadConfig(p) ==
    /\ At(p, "sync")
    /\ Continue(p, [Then(p, <<>>) EXCEPT !.seen = config])
    /\ Reads

WriteGitignore(p) ==
    /\ At(p, "gitignore")
    /\ gitignore' = w[p].seen
    /\ Continue(p, [Then(p, <<>>) EXCEPT !.seen = Missing])
    /\ UNCHANGED <<manifest, identity, config, documents, backups, recorded>>
    /\ Writes

PublishManifest(p) ==
    /\ At(p, "publish")
    /\ manifest' = [schema |-> 2, id |-> w[p].mine, commit |-> w[p].commit]
    /\ recorded' = w[p].commit
    /\ Continue(p, [Then(p, <<>>) EXCEPT !.commit = 0])
    /\ UNCHANGED <<identity, config, gitignore, documents, backups>>
    /\ Writes

-----------------------------------------------------------------------------
(* The identity of the project. *)

\* _load_project: an identity without a manifest is what an interrupted initialization
\* left, and is completed.
Load(p) ==
    /\ At(p, "load")
    /\ Continue(p, IF identity = None THEN [Then(p, <<>>) EXCEPT !.found = None]
                   ELSE [Then(p, (IF manifest = None THEN Bootstrap ELSE <<>>)
                                 \o <<Do("match")>>)
                         EXCEPT !.found = identity,
                                !.mine = IF manifest = None THEN identity ELSE @])
    /\ Reads

Match(p) ==
    /\ At(p, "match")
    /\ OnlyProcess
    /\ IF Current /\ manifest.id = w[p].found
       THEN Continue(p, Then(p, <<>>)) /\ UNCHANGED holder
       ELSE Fail(p)

\* ProjectService.initialize: an existing project is returned; a new one is added, unless
\* another process has added one since.
Found(p) == w[p].found # None
ReturnFound(p) == [Then(p, Describe) EXCEPT !.mine = w[p].found, !.returned = w[p].found]

Lookup(p) ==
    /\ At(p, "lookup")
    /\ Continue(p, IF Found(p) THEN ReturnFound(p) ELSE Then(p, <<Do("load"), Do("add")>>))
    /\ Reads

Add(p) ==
    /\ At(p, "add")
    /\ UNCHANGED <<store, holder, head, original, operations, crashes>>
    /\ IF Found(p) THEN Continue(p, Then(p, <<Do("load"), Do("again")>>)) /\ UNCHANGED drawn
       ELSE /\ drawn' = drawn + 1
            /\ Continue(p, [Then(p, Reserve) EXCEPT !.mine = drawn + 1])

\* Variant: the identity another process wrote is written over.
ReserveAnyway(p) ==
    /\ At(p, "reserve")
    /\ identity' = w[p].mine
    /\ Continue(p, [Then(p, Bootstrap \o <<Give("identity")>> \o Describe)
                    EXCEPT !.returned = w[p].mine])
    /\ UNCHANGED <<manifest, config, gitignore, documents, backups, recorded>>
    /\ Writes

\* _commit_project: the identity is written first, under its lock, and then the store.
ReserveIdentity(p) ==
    /\ At(p, "reserve")
    /\ Writes
    /\ IF Found(p)
       THEN /\ Continue(p, Then(p, <<Give("identity"), Do("load"), Do("again")>>))
            /\ UNCHANGED store
       ELSE /\ identity' = w[p].mine
            /\ Continue(p, [Then(p, Bootstrap \o <<Give("identity")>> \o Describe)
                            EXCEPT !.returned = w[p].mine])
            /\ UNCHANGED <<manifest, config, gitignore, documents, backups, recorded>>

Again(p) ==
    /\ At(p, "again")
    /\ OnlyProcess
    /\ IF Found(p) THEN Continue(p, ReturnFound(p)) /\ UNCHANGED holder ELSE Fail(p)

Return(p) ==
    /\ At(p, "return")
    /\ Continue(p, [Then(p, <<>>) EXCEPT !.returned = w[p].found])
    /\ Reads

-----------------------------------------------------------------------------
(* What the store says of the repository: ProjectBootstrapService, and the index. *)

Verify(p) ==
    /\ At(p, "verify")
    /\ OnlyProcess
    /\ IF Current /\ manifest.id = w[p].mine
       THEN Continue(p, Then(p, <<>>)) /\ UNCHANGED holder
       ELSE Fail(p)

\* Variant: the documents are written whenever the project is initialized.
WriteAgain(p) ==
    /\ At(p, "documents")
    /\ documents' = [commit |-> head]
    /\ Continue(p, Then(p, <<>>))
    /\ UNCHANGED <<manifest, identity, config, gitignore, backups, recorded>>
    /\ Writes

\* _write_once: documents are the project's to edit, and are not written again.
WriteDocuments(p) ==
    /\ At(p, "documents")
    /\ documents' = IF documents = None THEN [commit |-> head] ELSE documents
    /\ Continue(p, Then(p, <<>>))
    /\ UNCHANGED <<manifest, identity, config, gitignore, backups, recorded>>
    /\ Writes

ReadHead(p) ==
    /\ At(p, "head")
    /\ Continue(p, [Then(p, <<>>) EXCEPT !.commit = head])
    /\ Reads

\* update_graph_cursor and _record_index_state: the manifest is read and replaced.
Reread(p) ==
    /\ At(p, "reread")
    /\ OnlyProcess
    /\ IF ~ Current THEN Fail(p)
       ELSE Continue(p, [Then(p, <<>>) EXCEPT !.old = manifest]) /\ UNCHANGED holder

RecordIndex(p) ==
    /\ At(p, "record")
    /\ manifest' = [w[p].old EXCEPT !.commit = w[p].commit]
    /\ recorded' = w[p].commit
    /\ Continue(p, Then(p, <<>>))
    /\ UNCHANGED <<identity, config, gitignore, documents, backups>>
    /\ Writes

-----------------------------------------------------------------------------
EndProcess(p) ==
    /\ w[p].todo # <<>>
    /\ crashes < MaxCrashes
    /\ crashes' = crashes + 1
    /\ Fail(p)
    /\ UNCHANGED <<store, head, history, operations>>

Edit ==
    /\ config \in 0..MaxEdits - 1
    /\ config' = config + 1
    /\ UNCHANGED <<manifest, identity, gitignore, documents, backups, recorded>>
    /\ UNCHANGED <<holder, head, w, history, operations, crashes>>

CommitHead ==
    /\ head < MaxHead
    /\ head' = head + 1
    /\ UNCHANGED <<store, holder, w, history, operations, crashes>>

Step(p) ==
    \/ TakeLock(p) \/ GiveLock(p) \/ Open(p) \/ MigrateManifest(p) \/ Backup(p)
    \/ UpgradeManifest(p) \/ FindManifest(p) \/ DefaultConfig(p) \/ ReadConfig(p)
    \/ WriteGitignore(p) \/ PublishManifest(p) \/ Load(p) \/ Match(p) \/ Lookup(p) \/ Add(p)
    \/ ReserveIdentity(p) \/ Again(p) \/ Return(p) \/ Verify(p) \/ WriteDocuments(p)
    \/ ReadHead(p) \/ Reread(p) \/ RecordIndex(p)

StoreNext ==
    \/ \E p \in Processes : Step(p) \/ EndProcess(p) \/ \E o \in Operations : Begin(p, o)
    \/ Edit \/ CommitHead

\* A process goes on with what it has begun, and takes a lock that stays free.
StoreFairness == \A p \in Processes : WF_storeVars(Step(p))
StoreSpec == StoreInit /\ [][StoreNext]_storeVars /\ StoreFairness

-----------------------------------------------------------------------------
(* Properties. *)

StoreTypeOK ==
    /\ manifest \in {None} \union Manifests
    /\ identity \in {None} \union Ids
    /\ config \in Missing..MaxEdits /\ gitignore \in Missing..MaxEdits
    /\ \A b \in backups : b.schema \in {1, 2}
    /\ holder \in [Locks -> Processes \union {None}]

\* task_store.py: "Project identity does not match the manifest".  However many processes
\* initialize the repository at once, and wherever one dies, identity and manifest name
\* the same project, and every process that was given a project was given that one.
OneProject ==
    /\ identity # None /\ manifest # None => manifest.id = identity
    /\ \A p \in Processes : w[p].returned \in {None, identity}

\* The identity of a project and the documents a person may since have edited are written
\* once, and what another process has written is never replaced.
ProjectIsKept ==
    [][/\ identity # None => identity' = identity
       /\ documents # None => documents' = documents]_storeVars

\* layout.py: "its presence marks a completed bootstrap".  A manifest of schema 2 is there
\* only beside a configuration and a .gitignore, in a created and in a migrated store.
ManifestMarksBootstrap == Current => config # Missing /\ gitignore # Missing

\* A migrated manifest is a migration of the original one, which is in backups/.
OriginalIsKept == original # None /\ Current => original \in backups

\* The commit the manifest names is the one last recorded, by the index or, before there is
\* one, at its creation: neither a migration that was decided on before nor a bootstrap that
\* runs beside it sets it back.
IndexIsNotForgotten == Current => manifest.commit = recorded

\* The .gitignore follows the configuration: no process replaces it by one rendered from
\* an older configuration than it was rendered from.
GitignoreNeverGoesBack == [][gitignore' >= gitignore]_storeVars

\* Every operation ends, though locks are taken while others are held.
OperationsEnd == \A p \in Processes : []<>(w[p].todo = <<>>)

\* The store is one project's and whole, whoever created, migrated or indexed it at once and
\* wherever one of them died.
StoreInv ==
    StoreTypeOK /\ OneProject /\ ManifestMarksBootstrap /\ OriginalIsKept /\ IndexIsNotForgotten

\* No process undoes the work of another: identity and documents are written once, and a
\* .gitignore never follows an older configuration.
NothingIsUndone == ProjectIsKept /\ GitignoreNeverGoesBack
=============================================================================
