------------------------- MODULE MCSourceProjection -------------------------
(* Commits of one file, beside the record of the whole: its content comes, *)
(* changes, cannot be indexed, goes and returns.                           *)
EXTENDS SourceProjection, TLC

CONSTANTS a, x, y, big, c1, c2, c3, c4

Of(c) == CASE c = c1 -> x [] c = c2 -> y [] c = c3 -> big [] c = c4 -> None
MCTree == [c \in Commit |-> [p \in {a} |-> Of(c)]]

Symmetry == Permutations(Process)

=============================================================================
