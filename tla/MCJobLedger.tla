----------------------------- MODULE MCJobLedger -----------------------------
(***************************************************************************)
(* JobLedger on small instances.  Runs, and watches, are interchangeable.  *)
(***************************************************************************)
EXTENDS JobLedger, TLC

LedgerSymmetry == Permutations(Runs) \cup Permutations(Watches)
==============================================================================
