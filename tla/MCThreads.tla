----------------------------- MODULE MCThreads ------------------------------
(* A small instance of BackendThreads: one long call and a shorter one. *)
EXTENDS BackendThreads

MCMaxTokens == <<3, 2>>
=============================================================================
