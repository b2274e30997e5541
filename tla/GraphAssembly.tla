---------------------------- MODULE GraphAssembly ----------------------------
(***************************************************************************)
(* The graph assembled from the parsed sources of a repository: the        *)
(* definitions of each module, the modules it imports, the tests of a      *)
(* module, and for every call the definition it is inferred to reach.      *)
(* Qualified names are sequences of names; the empty one is the module's   *)
(* own scope.  A parsed source has                                         *)
(*   symbols  [name, class, bound, calls, bases]                           *)
(*   imports  [owner, level, module, names, local, imported]               *)
(*   calls    what the module itself calls                                 *)
(*   whole    whether everything in it was extracted, and from Python      *)
(***************************************************************************)
EXTENDS Integers, Sequences, FiniteSetsExt, Repository

CONSTANTS
    ModuleName,     \* the module each path is of
    Packages,       \* paths that are the __init__ of their package
    Tests           \* paths of tests

Parsed(sources) == {p \in Path : sources[p] # None}
Scope(name, k) == SubSeq(name, 1, k)
Outer(name) == Scope(name, Len(name) - 1)

Symbol(path, name) == [kind |-> "symbol", path |-> path, name |-> name]
Module(path) == [kind |-> "module", path |-> path, name |-> ModuleName[path]]
File(path) == [kind |-> "file", path |-> path, name |-> <<>>]
Suite(path) == [kind |-> "suite", path |-> path, name |-> <<>>]
External(name) == [kind |-> "external", path |-> None, name |-> name]
Reference(path, owner, name) ==
    [kind |-> "reference", path |-> path, name |-> name, owner |-> owner]

\* qualified_symbols: what has a qualified name, in whichever file it is defined.
Named(sources, name) ==
    UNION {{Symbol(p, s.name) :
                s \in {d \in sources[p].symbols : ModuleName[p] \o d.name = name}} :
           p \in Parsed(sources)}

Found(sources, name) ==
    IF Named(sources, name) = {} THEN None
    ELSE CHOOSE symbol \in Named(sources, name) : TRUE

ModulesNamed(sources, name) == {p \in Parsed(sources) : ModuleName[p] = name}

\* _resolve_import: a relative import starts at the package of its module.
ResolveImport(path, item, names) ==
    IF item.level = 0 THEN item.module
    ELSE LET own == ModuleName[path]
             package == IF path \in Packages THEN own ELSE Outer(own)
             from == Scope(package, Max({0, Len(package) - (item.level - 1)}))
         IN from \o (IF item.module # <<>> THEN item.module
                     ELSE IF names # <<>> THEN <<names[1]>> ELSE <<>>)

\* What the name an import binds stands for.
Binding(path, item) ==
    IF item.names = <<>> THEN <<item.imported>>
    ELSE ResolveImport(path, item, <<>>) \o <<item.imported>>

\* Variant: a method sees the other names of its class.
ClassesToo(source, name) == TRUE

\* A class is no enclosing scope of its methods.
Lexical(source, name) ==
    ~ \E s \in source.symbols : s.name = name /\ s.class

\* _resolve_symbol: a member of the own class; nothing that a local name hides; then the
\* imports and the definitions of each scope, from the inside out.
Resolve(sources, path, owner, ref) ==
    LET source == sources[path]
        first == ref[1]
        here == ModuleName[path]
        member == here \o Outer(owner) \o Tail(ref)
        own == /\ owner # <<>> /\ Len(ref) = 2 /\ first \in {"self", "cls"}
               /\ \E s \in source.symbols : s.class /\ s.name = Outer(owner)
               /\ Named(sources, member) # {}
        hidden == \E s \in source.symbols, k \in 1..Len(owner) :
                     s.name = Scope(owner, k) /\ first \in s.bound
        search[k \in 0..Len(owner)] ==
            LET imports == {i \in source.imports : i.owner = Scope(owner, k) /\ i.local = first}
                local == Found(sources, here \o Scope(owner, k) \o ref)
            IN IF imports # {}
               THEN Found(sources, Binding(path, CHOOSE i \in imports : TRUE) \o Tail(ref))
               ELSE IF Lexical(source, Scope(owner, k)) /\ local # None THEN local
               ELSE IF k = 0 THEN None ELSE search[k - 1]
    IN IF ~source.whole THEN None
       ELSE IF own THEN Found(sources, member)
       ELSE IF hidden THEN None
       ELSE search[Len(owner)]

Node(path, owner) == IF owner = <<>> THEN Module(path) ELSE Symbol(path, owner)

\* _add_expression_edge: what is not resolved stays an occurrence of its own.
Expression(sources, path, owner, ref, relation) ==
    LET target == Resolve(sources, path, owner, ref)
    IN [from |-> Node(path, owner), relation |-> relation, ref |-> ref,
        inferred |-> target # None,
        to |-> IF target = None THEN Reference(path, owner, ref) ELSE target]

Edge(from, relation, to) ==
    [from |-> from, relation |-> relation, ref |-> <<>>, inferred |-> relation = "tests",
     to |-> to]

Definitions(sources, path) ==
    {Edge(File(path), "defines", Module(path))}
        \union {Edge(Node(path, Outer(s.name)), "defines", Symbol(path, s.name)) :
                  s \in sources[path].symbols}
        \union {Edge(File(path), "defines", Suite(path)) : p \in Tests \intersect {path}}

\* An import of a module of the repository, and what a test thereby tests.
Imports(sources, path) ==
    UNION {LET name == ResolveImport(path, i, i.names)
               local == ModulesNamed(sources, name)
           IN IF local = {} THEN {Edge(Node(path, i.owner), "imports", External(name))}
              ELSE UNION {{Edge(Node(path, i.owner), "imports", Module(p))}
                            \union {Edge(Suite(path), "tests", Module(p)) :
                                      q \in (Tests \intersect {path}) \ {p}} : p \in local} :
           i \in sources[path].imports}

CallsOf(sources, path, owner, refs) ==
    {Expression(sources, path, owner, ref, "calls") : ref \in refs}

Calls(sources, path) ==
    CallsOf(sources, path, <<>>, sources[path].calls)
        \union UNION {CallsOf(sources, path, s.name, s.calls) :
                        s \in sources[path].symbols}

Bases(sources, path) ==
    UNION {{Expression(sources, path, s.name, ref, "extends") : ref \in s.bases} :
             s \in sources[path].symbols}

\* _assemble: the edges of a file depend on every file it refers to.
EdgesOf(sources, path) ==
    Definitions(sources, path) \union Imports(sources, path)
        \union Calls(sources, path) \union Bases(sources, path)
Edges(sources) == UNION {EdgesOf(sources, p) : p \in Parsed(sources)}

-----------------------------------------------------------------------------
(* Which definition Python reaches, for a call in a function or in the module: the name    *)
(* belongs to the innermost scope that binds it, of those that the call sees.              *)

Binds(source, scope, first) ==
    \/ \E s \in source.symbols : s.name = scope /\ first \in s.bound
    \/ \E s \in source.symbols : s.name = Append(scope, first)
    \/ \E i \in source.imports : i.owner = scope /\ i.local = first

\* In Python a function sees no class around it.
SeenByPython(source, owner, first) ==
    {k \in 0..Len(owner) : ~ \E s \in source.symbols : s.class /\ s.name = Scope(owner, k)}

\* The code looks into a class for what its body imports, and for nothing else.
SeenByCode(source, owner, first) ==
    SeenByPython(source, owner, first)
        \union {k \in 0..Len(owner) :
                  \E i \in source.imports : i.owner = Scope(owner, k) /\ i.local = first}

Reaches(sources, path, owner, ref, symbol, seen) ==
    LET source == sources[path]
        binding == {k \in seen : Binds(source, Scope(owner, k), ref[1])}
        scope == Scope(owner, Max(binding))
        full == ModuleName[symbol.path] \o symbol.name
    IN /\ binding # {}
       /\ \A s \in source.symbols : s.name = scope => ref[1] \notin s.bound
       /\ \/ full = ModuleName[path] \o scope \o ref
          \/ \E i \in source.imports : /\ i.owner = scope /\ i.local = ref[1]
                                       /\ full = Binding(path, i) \o Tail(ref)

IsMember(path, owner, ref, symbol) ==
    /\ ref[1] \in {"self", "cls"}
    /\ symbol = Symbol(path, Outer(owner) \o Tail(ref))

CallsAreSound(sources, edges, Seen(_, _, _)) ==
    \A e \in edges :
        e.relation = "calls" /\ e.inferred =>
            LET path == e.from.path
                owner == IF e.from.kind = "module" THEN <<>> ELSE e.from.name
            IN \/ IsMember(path, owner, e.ref, e.to)
               \/ Reaches(sources, path, owner, e.ref, e.to,
                          Seen(sources[path], owner, e.ref[1]))
=============================================================================
