------------------------------ MODULE Threads ------------------------------
(***************************************************************************)
(* The threads and processes that share the lock files of a repository:    *)
(* the FileLock of a store, and the one that the ControllerLease of a run  *)
(* is built on.                                                            *)
(***************************************************************************)
CONSTANTS
    Thread, Process,
    ProcessOf,      \* the process of each thread
    None            \* no thread, no process, no session
=============================================================================
