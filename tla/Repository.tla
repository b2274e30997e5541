----------------------------- MODULE Repository -----------------------------
(***************************************************************************)
(* A git repository: the files of its commits, the commit that is checked  *)
(* out, and the processes that derive from it what is searched in.         *)
(* SourceProjection and ProjectGraph are two things that are derived.      *)
(***************************************************************************)
CONSTANTS
    Process,
    Path, Content, Commit,
    Tree,           \* what each commit has at each path: a content or None
    Indexable,      \* contents that are taken up: with a summary for the projection,
                    \* neither too large nor binary for the graph
    None

ASSUME RepositoryAssumption ==
    /\ Tree \in [Commit -> [Path -> Content \union {None}]]
    /\ Indexable \subseteq Content
    /\ None \notin Content \union Process

VARIABLES
    head,           \* the commit that is checked out, with its branch
    call            \* what each process is doing

Files == [Path -> Content \union {None}]
NoFiles == [p \in Path |-> None]
Tracked(c) == {p \in Path : Tree[c][p] # None}

Idle == [at |-> "idle"]
Set(p, c) == call' = [call EXCEPT ![p] = c]
=============================================================================
