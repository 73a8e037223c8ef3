----------------------------- MODULE MCMtlsClient -----------------------------
(* MtlsClient for TLC: requests are interchangeable. *)
EXTENDS MtlsClient, TLC

Symmetry == Permutations(Requests)
===============================================================================
