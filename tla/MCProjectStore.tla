--------------------------- MODULE MCProjectStore ---------------------------
(* Two processes over a repository without a store, or with one of schema 1. *)
EXTENDS ProjectStore
=============================================================================
