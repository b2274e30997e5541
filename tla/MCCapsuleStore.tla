--------------------------- MODULE MCCapsuleStore ---------------------------
(* Small instances of CapsuleStore: two coroutines of one service process and
   a second process (a CLI command) sharing a capsule. *)
EXTENDS CapsuleStore, TLC

CONSTANTS t1, t2, s1, s2, s3, main, other, service, command

MCThreadOf == (s1 :> main) @@ (s2 :> main) @@ (s3 :> other)
MCProcessOf == (main :> service) @@ (other :> command)

\* Commands differ only by their key.
TxSymmetry == Permutations(Tx)
=============================================================================
