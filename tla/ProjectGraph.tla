---------------------------- MODULE ProjectGraph ----------------------------
(***************************************************************************)
(* The derived graph of a repository and the index built from it.  Several *)
(* processes refresh, rebuild, load and search while files are edited,     *)
(* committed and checked out under them; any of them may stop between two  *)
(* of its writes.  A graph is abstracted to the content it was parsed from *)
(* for each path, from which its edges follow (GraphAssembly); a digest of *)
(* a file to the file.                                                     *)
(***************************************************************************)
EXTENDS GraphAssembly

CONSTANTS
    Source,         \* what each content is parsed into
    Start,          \* the commit checked out at the start
    MaxChanges      \* bound: how often the work tree or HEAD changes

ASSUME GraphAssumption ==
    /\ Start \in Commit
    /\ MaxChanges \in Nat

VARIABLES
    work,           \* the files of the work tree
    clock,          \* how often the two have changed
    graph,          \* memory/graph/graph.json
    manifest,       \* memory/graph/manifest.json
    cursor,         \* the indexed commit in the manifest of the project
    cache,          \* cache/parser: what was parsed for each content hash
    index,          \* the artifacts and the manifest of the index
    graphLock, indexLock

world == <<work, head, clock>>
stored == <<graph, manifest, cursor, cache>>
graphVars == <<world, stored, index, call, graphLock, indexLock>>

Artifacts == {"terms", "manifest"}
Manifests == [head : Commit, dirty : SUBSET Path, hashes : Files, digest : Files,
              quiet : BOOLEAN]

\* The mark is told from a manifest.
ASSUME GraphMarkAssumption == None \notin Manifests

\* A store that has been created at the first commit: its manifest names that commit already.
GraphInit ==
    /\ work = Tree[Start]
    /\ head = Start
    /\ clock = 0
    /\ graph = None
    /\ manifest = None
    /\ cursor = Start
    /\ cache = [c \in Content |-> None]
    /\ index = [a \in Artifacts |-> None]
    /\ call = [p \in Process |-> Idle]
    /\ graphLock = None
    /\ indexLock = None

-----------------------------------------------------------------------------
(* What is read. *)

Visible(files) == [p \in Path |-> IF files[p] \in Indexable THEN files[p] ELSE None]
ChangedPaths == {p \in Path : work[p] # Tree[head][p]}

\* A manifest counts only with the graph it was written for.
Pair(m, g) ==
    IF m = None \/ g = None THEN None
    ELSE IF m.digest # g THEN None ELSE [manifest |-> m, graph |-> g]

\* Variant: a graph of uncommitted files is fresh again once they are clean.
FreshWhenClean(pair) == pair # None /\ pair.manifest.head = head /\ ChangedPaths = {}

Fresh(pair) ==
    /\ pair # None
    /\ pair.manifest.head = head
    /\ pair.manifest.dirty = {}
    /\ ChangedPaths = {}

\* Paths are read in a fixed order.
First(todo) == CHOOSE path \in todo : TRUE

Goto(p, place) == call' = [call EXCEPT ![p].at = place]

\* The edges of a graph are those assembled from what its files are parsed into.
SourcesOf(files) == [path \in Path |-> IF files[path] = None THEN None ELSE Source[files[path]]]
Assembled ==
    [files \in [Path -> Indexable \union {None}] |-> Edges(SourcesOf(files))]

-----------------------------------------------------------------------------
(* Refreshing and rebuilding the graph, under its lock. *)

\* Variant: the lock of the index is not waited for.
BeginRebuildAnyway(p) ==
    /\ call[p] = Idle
    /\ indexLock' = p
    /\ Set(p, [at |-> "status"])
    /\ UNCHANGED <<world, stored, index, graphLock>>

BeginRebuild(p) ==
    /\ call[p] = Idle
    /\ indexLock = None
    /\ indexLock' = p
    /\ Set(p, [at |-> "status"])
    /\ UNCHANGED <<world, stored, index, graphLock>>

\* The lock is taken, the stored pair loaded and the status of the work tree asked for.
\* A refresh ends here when everything is clean and of the commit the graph is of.
Status(p) ==
    LET pair == Pair(manifest, graph)
        force == call[p] # Idle
        c == [at |-> "read", force |-> force, prev |-> pair, head |-> head,
              dirty |-> ChangedPaths, todo |-> Tracked(head) \union ChangedPaths,
              hashes |-> NoFiles, parsed |-> NoFiles, since |-> clock, quiet |-> FALSE]
    IN  /\ call[p] = Idle \/ call[p].at = "status"
        /\ graphLock = None
        /\ graphLock' = p
        /\ Set(p, IF ~force /\ Fresh(pair) THEN [c EXCEPT !.at = "finish", !.parsed = pair.graph,
                                                      !.quiet = pair.manifest.quiet]
                  ELSE c)
        /\ UNCHANGED <<world, stored, index, indexLock>>

ReadSource(p) ==
    LET c == call[p]
        path == First(c.todo)
    IN  /\ c.at = "read" /\ c.todo # {}
        /\ Set(p, [c EXCEPT !.hashes[path] = Visible(work)[path], !.todo = @ \ {path},
                            !.quiet = c.since = clock])
        /\ UNCHANGED <<world, stored, index, graphLock, indexLock>>

Unchanged(c) == ~c.force /\ c.prev # None /\ c.prev.manifest.hashes = c.hashes

\* No content differs: the graph stays, its manifest follows HEAD.
KeepGraph(p) ==
    LET c == call[p]
    IN  /\ c.at = "read" /\ c.todo = {} /\ Unchanged(c)
        /\ manifest' = [c.prev.manifest EXCEPT !.head = c.head, !.dirty = c.dirty,
                                               !.quiet = c.quiet]
        /\ Set(p, [c EXCEPT !.at = "finish", !.parsed = c.prev.graph])
        /\ UNCHANGED <<world, graph, cursor, cache, index, graphLock, indexLock>>

BeginParse(p) ==
    LET c == call[p]
    IN  /\ c.at = "read" /\ c.todo = {} /\ ~Unchanged(c)
        /\ Set(p, [c EXCEPT !.at = "parse", !.todo = {q \in Path : c.hashes[q] # None}])
        /\ UNCHANGED <<world, stored, index, graphLock, indexLock>>

ReadCache(p) ==
    LET c == call[p]
        path == First(c.todo)
    IN  /\ c.at = "parse" /\ c.todo # {}
        /\ cache[c.hashes[path]] # None
        /\ Set(p, [c EXCEPT !.parsed[path] = cache[c.hashes[path]], !.todo = @ \ {path}])
        /\ UNCHANGED <<world, stored, index, graphLock, indexLock>>

\* The file is read again; other content than was hashed ends the refresh (Stop).
Parse(p) ==
    LET c == call[p]
        path == First(c.todo)
    IN  /\ c.at = "parse" /\ c.todo # {}
        /\ cache[c.hashes[path]] = None
        /\ work[path] = c.hashes[path]
        /\ cache' = [cache EXCEPT ![c.hashes[path]] = work[path]]
        /\ Set(p, [c EXCEPT !.parsed[path] = work[path], !.todo = @ \ {path}])
        /\ UNCHANGED <<world, graph, manifest, cursor, index, graphLock, indexLock>>

WriteGraph(p) ==
    /\ call[p].at = "parse" /\ call[p].todo = {}
    /\ graph' = call[p].parsed
    /\ Goto(p, "manifest")
    /\ UNCHANGED <<world, manifest, cursor, cache, index, graphLock, indexLock>>

WriteManifest(p) ==
    LET c == call[p]
    IN  /\ c.at = "manifest"
        /\ manifest' = [head |-> c.head, dirty |-> c.dirty, hashes |-> c.hashes,
                        digest |-> c.parsed, quiet |-> c.quiet]
        /\ Goto(p, "finish")
        /\ UNCHANGED <<world, graph, cursor, cache, index, graphLock, indexLock>>

\* update_graph_cursor, whichever way the graph was obtained.
Finish(p) ==
    LET c == call[p]
    IN  /\ c.at = "finish"
        /\ cursor' = c.head
        /\ graphLock' = None
        /\ Set(p, IF c.force THEN [c EXCEPT !.at = "terms"] ELSE [at |-> "returned"])
        /\ UNCHANGED <<world, graph, manifest, cache, index, indexLock>>

-----------------------------------------------------------------------------
(* The index, under a lock of its own; five artifacts, here one, then their manifest. *)

Built(c) == [graph |-> c.parsed, since |-> c.since]

WriteTerms(p) ==
    /\ call[p].at = "terms"
    /\ index' = [index EXCEPT !["terms"] = Built(call[p])]
    /\ Goto(p, "index")
    /\ UNCHANGED <<world, stored, graphLock, indexLock>>

WriteIndex(p) ==
    /\ call[p].at = "index"
    /\ index' = [index EXCEPT !["manifest"] = Built(call[p])]
    /\ indexLock' = None
    /\ Set(p, Idle)
    /\ UNCHANGED <<world, stored, graphLock>>

-----------------------------------------------------------------------------
(* Loading without a lock: the manifest is read, then the graph. *)

LoadManifest(p) ==
    /\ call[p] = Idle
    /\ manifest # None /\ graph # None
    /\ Set(p, [at |-> "load", manifest |-> manifest])
    /\ UNCHANGED <<world, stored, index, graphLock, indexLock>>

LoadGraph(p) ==
    /\ call[p].at = "load"
    /\ Set(p, [at |-> "loaded", pair |-> Pair(call[p].manifest, graph)])
    /\ UNCHANGED <<world, stored, index, graphLock, indexLock>>

Return(p) ==
    /\ call[p].at \in {"loaded", "returned"}
    /\ Set(p, Idle)
    /\ UNCHANGED <<world, stored, index, graphLock, indexLock>>

\* An error, a conflict with an edit, or the death of the process.
Stop(p) ==
    /\ call[p] # Idle
    /\ Set(p, Idle)
    /\ graphLock' = IF graphLock = p THEN None ELSE graphLock
    /\ indexLock' = IF indexLock = p THEN None ELSE indexLock
    /\ UNCHANGED <<world, stored, index>>

-----------------------------------------------------------------------------
(* The repository. *)

Edit(path, content) ==
    /\ work[path] # content
    /\ work' = [work EXCEPT ![path] = content]
    /\ UNCHANGED head

GitCommit(c) ==
    /\ Tree[c] = work /\ Tree[head] # work
    /\ head' = c
    /\ UNCHANGED work

CheckoutWork(c) ==
    /\ head' = c /\ work' = Tree[c]
    /\ head # c \/ work # Tree[c]

RepositoryChanges ==
    /\ clock < MaxChanges
    /\ clock' = clock + 1
    /\ \/ \E path \in Path, content \in Content \union {None} : Edit(path, content)
       \/ \E c \in Commit : GitCommit(c) \/ CheckoutWork(c)
    /\ UNCHANGED <<stored, index, call, graphLock, indexLock>>

\* Derived data may be removed at any time nobody writes it.
RemoveGraph ==
    /\ graphLock = None
    /\ graph # None
    /\ graph' = None
    /\ cache' = [c \in Content |-> None]
    /\ UNCHANGED <<world, manifest, cursor, index, call, graphLock, indexLock>>

GraphNext ==
    \/ \E p \in Process :
        \/ BeginRebuild(p) \/ Status(p) \/ KeepGraph(p) \/ BeginParse(p)
        \/ ReadSource(p) \/ ReadCache(p) \/ Parse(p)
        \/ WriteGraph(p) \/ WriteManifest(p) \/ Finish(p)
        \/ WriteTerms(p) \/ WriteIndex(p)
        \/ LoadManifest(p) \/ LoadGraph(p) \/ Return(p) \/ Stop(p)
    \/ RepositoryChanges
    \/ RemoveGraph

GraphSpec == GraphInit /\ [][GraphNext]_graphVars

-----------------------------------------------------------------------------
(* Properties. *)

GraphTypeOK ==
    /\ work \in Files
    /\ head \in Commit
    /\ clock \in 0..MaxChanges
    /\ graph \in Files \union {None}
    /\ manifest \in Manifests \union {None}
    /\ cursor \in Commit
    /\ cache \in [Content -> Content \union {None}]
    /\ graphLock \in Process \union {None}
    /\ indexLock \in Process \union {None}

\* Whatever stopped between the graph and its manifest, and whenever a reader without the
\* lock came by: a pair that is accepted is one graph with the hashes it was parsed from.
AcceptedGraphsAreWhole ==
    LET Whole(pair) == pair # None => pair.graph = pair.manifest.hashes
    IN  /\ Whole(Pair(manifest, graph))
        /\ \A p \in Process : call[p].at = "loaded" => Whole(call[p].pair)

\* A refresh returns the work tree, however little of it was read again, unless files
\* changed under it or under the refresh that recorded the graph it reuses.
RefreshIsCurrent ==
    \A p \in Process :
        (call[p].at = "finish" /\ call[p].quiet /\ call[p].since = clock)
            => call[p].parsed = Visible(work)

\* When a refresh returns, the manifest of the project names the commit of the graph on
\* disk, also when an earlier refresh stopped between the two.
CursorFollowsGraph ==
    [][\A p \in Process :
          (call[p].at = "finish" /\ call'[p].at \in {"returned", "terms"})
              => manifest' # None /\ cursor' = manifest'.head]_graphVars

\* The index never goes back to an older repository than it has shown.
IndexNeverGoesBack ==
    [][\A a \in Artifacts : index[a] # None /\ index'[a] # None
                                => index[a].since <= index'[a].since]_graphVars

\* Every call of a graph that is written reaches, if it is said to reach anything, what
\* the name stands for in Python, in whichever file that is defined: nothing that a local
\* name hides, and of a class around the caller nothing but what the body of the class
\* imports, which the code takes for visible in its methods and Python does not.
CallsAreBound ==
    [][graph' # graph /\ graph' # None
          => CallsAreSound(SourcesOf(graph'), Assembled[graph'], SeenByCode)]_graphVars

\* "A class namespace is not an enclosing lexical scope for methods": no call of the graph
\* on disk is bound by a class, neither by what its body defines nor by what it imports.
MethodsIgnoreTheirClass ==
    graph # None => CallsAreSound(SourcesOf(graph), Assembled[graph], SeenByPython)

\* A graph that is used can be relied on: it is whole, whoever wrote it and wherever it
\* stopped, and one that a refresh returns is of the work tree.
GraphInv == GraphTypeOK /\ AcceptedGraphsAreWhole /\ RefreshIsCurrent

\* What is derived from the repository goes forward with it: a refresh leaves the cursor at
\* the commit of its graph, and a rebuild never replaces a newer index by an older one.
GraphGoesForward == CursorFollowsGraph /\ IndexNeverGoesBack
=============================================================================
