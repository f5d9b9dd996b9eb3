-------------------------- MODULE MCIndexCollector --------------------------
(* A main checkout and one linked worktree, an index run and an            *)
(* enhancement worker of other processes.                                  *)
EXTENDS IndexCollector, TLC

CONSTANTS main, tree, indexing, enhancing

TwoIndexes == {main, tree}
TreeReadsMain == tree :> main
RunLocks == (indexing :> "index.lock") @@ (enhancing :> "enhancement.lock")

Budget(roots, runs, requests, faults) ==
    [roots |-> roots, runs |-> runs, requests |-> requests, faults |-> faults]

(* Roots that come back, one run or two and requests that meet a pass, passes *)
(* that die and markers that cannot be written or removed.                    *)
Mixed == {Budget(2, 1, 0, 0), Budget(1, 1, 1, 0), Budget(1, 2, 0, 0),
          Budget(2, 0, 1, 1), Budget(3, 0, 0, 1)}

(* A root that goes twice, and a second run that makes the directory anew. *)
Twice == {Budget(3, 2, 0, 0)}
=============================================================================
