--------------------------- MODULE MCCuratedMemory ---------------------------
(* Two callers, three records and three proposals, one task. *)
EXTENDS CuratedMemory, TLC

CONSTANTS s1, s2, m1, m2, m3, p1, p2, p3, t1

MCSymmetry == Permutations(Session) \union Permutations(Id) \union Permutations(Proposal)
=============================================================================
