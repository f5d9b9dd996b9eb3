-------------------------- MODULE MCWorktreeOverlay --------------------------
(***************************************************************************)
(* WorktreeOverlay on small instances.                                     *)
(***************************************************************************)
EXTENDS WorktreeOverlay, TLC

CONSTANTS p, q, a, b

Two(cp, cq) == p :> cp @@ q :> cq

Budget(trees, bases, baseEdits, treeEdits, moves, touches, commits, faults, removals) ==
    [base |-> bases, tree |-> trees, baseEdits |-> baseEdits, treeEdits |-> treeEdits,
     moves |-> moves, touches |-> touches, commits |-> commits, faults |-> faults,
     removals |-> removals]

\* A fault while both checkouts change; commits; deletions; a rewritten
\* .git/index; a base index that is removed and built again; a file of the base
\* that moves away and back during a run; edits while .git/index is rewritten, and
\* a move and a commit around it.
Ordinary ==
    { Budget({Two(a, b)}, {Two(a, None)}, 1, 1, 0, 0, 0, 1, 0),
      Budget({Two(a, None)}, {Two(a, b), Two(b, None)}, 1, 1, 0, 0, 1, 0, 0),
      Budget({Two(None, a)}, {Two(a, a)}, 0, 2, 1, 0, 0, 0, 0),
      Budget({Two(a, a)}, {Two(a, b)}, 0, 1, 0, 1, 0, 0, 1),
      Budget({Two(a, None)}, {Two(a, None)}, 2, 0, 0, 0, 0, 0, 1) }

Moved == { Budget({Two(a, None)}, {Two(a, None)}, 0, 1, 2, 0, 0, 0, 0) }
Rewritten == { Budget({Two(a, None)}, {Two(a, None)}, 1, 1, 0, 1, 0, 0, 0),
               Budget({Two(a, None)}, {Two(a, None)}, 0, 0, 2, 1, 1, 0, 0) }

All == Ordinary \cup Moved \cup Rewritten
===============================================================================
