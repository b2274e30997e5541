--------------------------- MODULE MCProjectGraph ---------------------------
(* Two paths, two contents that can be indexed and one that cannot, and two commits. *)
(* The first path is a test in a package, the second the __init__ of the package.    *)
EXTENDS ProjectGraph, TLC

CONSTANTS p1, p2, a, b, x, y, big, c1, c2

MCTree == c1 :> (a :> x @@ b :> None) @@ c2 :> (a :> y @@ b :> x)
MCModuleName == a :> <<"pkg", "a">> @@ b :> <<"pkg">>

Definition(name, class, bound, calls) ==
    [name |-> name, class |-> class, bound |-> bound, calls |-> calls, bases |-> {}]
FromImport(owner, level, module, local) ==
    [owner |-> owner, level |-> level, module |-> module, names |-> <<local>>,
     local |-> local, imported |-> local]

\* from . import g; import pkg.a
\* class D: from . import n; def h(self): self.m(); h(); n()
\* class C(D): def m(self): self.n(); n(); g(); h()
\*             def n(self): h = ...; h()
\* def h(): g(); C(); h.i(); def i(): i(); g()
\* h(); C(); pkg.a.g()
MCx == [whole |-> TRUE,
        imports |-> {FromImport(<<>>, 1, <<>>, "g"), FromImport(<<"D">>, 1, <<>>, "n"),
                     [owner |-> <<>>, level |-> 0, module |-> <<"pkg", "a">>, names |-> <<>>,
                      local |-> "pkg", imported |-> "pkg"]},
        calls |-> {<<"h">>, <<"C">>, <<"pkg", "a", "g">>},
        symbols |-> {[Definition(<<"C">>, TRUE, {}, {}) EXCEPT !.bases = {<<"D">>}],
                     Definition(<<"C", "m">>, FALSE, {"self"},
                                {<<"self", "n">>, <<"n">>, <<"g">>, <<"h">>}),
                     Definition(<<"C", "n">>, FALSE, {"self", "h"}, {<<"h">>}),
                     Definition(<<"h">>, FALSE, {}, {<<"g">>, <<"C">>, <<"h", "i">>}),
                     Definition(<<"h", "i">>, FALSE, {}, {<<"i">>, <<"g">>}),
                     Definition(<<"D">>, TRUE, {}, {}),
                     Definition(<<"D", "h">>, FALSE, {"self"},
                                {<<"self", "m">>, <<"h">>, <<"n">>})}]

\* def g(): from pkg.a import h; h(); self.h()
\* def n(): g = ...; g(); n()
\* g(); h()
MCy == [whole |-> TRUE,
        imports |-> {FromImport(<<"g">>, 0, <<"pkg", "a">>, "h")},
        calls |-> {<<"g">>, <<"h">>},
        symbols |-> {Definition(<<"g">>, FALSE, {}, {<<"h">>, <<"self", "h">>}),
                     Definition(<<"n">>, FALSE, {"g"}, {<<"g">>, <<"n">>})}]

MCSource == x :> MCx @@ y :> MCy @@ big :> None
MCSymmetry == Permutations(Process)
=============================================================================
