------------------------------ MODULE MCLedger ------------------------------
(***************************************************************************)
(* Ledger for TLC.  Goroutines, bucket infos and object contents are       *)
(* interchangeable; bucket and object names and addresses are ordered.     *)
(***************************************************************************)
EXTENDS Ledger, TLC

Symmetry == Permutations(Procs) \cup Permutations(Infos) \cup Permutations(Datas)
=============================================================================
