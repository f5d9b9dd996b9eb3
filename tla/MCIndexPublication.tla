-------------------------- MODULE MCIndexPublication --------------------------
(* Small instances of IndexPublication for TLC.                            *)
EXTENDS IndexPublication, TLC

Budget(faults, removals, upgrades, adds) ==
    [faults |-> faults, removals |-> removals, upgrades |-> upgrades, adds |-> adds]

\* A fault while a run recovers from another; an index that is removed, and
\* built anew, once or twice; metadata written during or between runs.
Disturbed == {Budget(2, 0, 0, 0), Budget(0, 2, 0, 0), Budget(0, 0, 0, 1)}

\* One disturbance of each kind that runs must recover from.
OneOfEach == {Budget(1, 0, 0, 0), Budget(0, 1, 0, 0), Budget(0, 0, 1, 0),
              Budget(0, 0, 0, 1)}

\* The histories behind two disagreements described in the README.
AddDuringRun == {Budget(0, 0, 0, 1)}
KilledRemoval == {Budget(2, 1, 0, 0)}

Symmetry == Permutations(Indexers)
===============================================================================
