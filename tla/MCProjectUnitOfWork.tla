----------------------- MODULE MCProjectUnitOfWork -----------------------
(* Units of work of independent processes over a small project. *)
EXTENDS ProjectUnitOfWork, TLC

Symmetry == Permutations(Session) \union Permutations(Run)

=============================================================================
