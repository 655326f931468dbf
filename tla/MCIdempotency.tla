---------------------------- MODULE MCIdempotency ----------------------------
(***************************************************************************)
(* Idempotency on small instances for TLC.  Rows of different keys never   *)
(* meet, so one key is enough.                                             *)
(***************************************************************************)
EXTENDS Idempotency, TLC

Symmetry == Permutations(Calls) \cup Permutations(Payloads) \cup Permutations(Errors)
=============================================================================
