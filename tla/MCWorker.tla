------------------------------ MODULE MCWorker ------------------------------
(* A worker that has a command to run and, in the same turn, a file to write. *)
EXTENDS Worker

Batch == {<<"command", "write">>}
=============================================================================
