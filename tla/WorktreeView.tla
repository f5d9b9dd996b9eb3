------------------------------ MODULE WorktreeView ------------------------------
(***************************************************************************)
(* What a search of a Git worktree promises its user, whatever stores it   *)
(* is answered from.  The worktree is read by index runs; between two      *)
(* completed runs a search may be behind, but every path it shows has a    *)
(* content that this path of this worktree has had since the last          *)
(* completed run began to read it.  It never shows another checkout.       *)
(***************************************************************************)
CONSTANTS
    Paths,
    Contents,
    None      \* a path without a file, and a refused search

VARIABLES
    tree,     \* the content of each path of the worktree, None if absent
    since,    \* the contents each path has had since the last completed run
    fresh,    \* ... and since the run in progress began to read
    view      \* what a search would show now, or None if it is refused

viewVars == <<tree, since, fresh, view>>

Behind(known) == {None} \cup {v \in [Paths -> Contents \cup {None}] :
                                 \A p \in Paths : v[p] \in known[p]}

Now(contents) == [p \in Paths |-> {contents[p]}]

Init ==
    /\ tree \in [Paths -> Contents \cup {None}]
    /\ since = [p \in Paths |-> {}]
    /\ fresh = Now(tree)
    /\ view = None

\* The user writes, replaces or deletes a file.
Write ==
    \E p \in Paths, c \in Contents \cup {None} :
        /\ tree' = [tree EXCEPT ![p] = c]
        /\ since' = [since EXCEPT ![p] = @ \cup {c}]
        /\ fresh' = [fresh EXCEPT ![p] = @ \cup {c}]

\* A run begins to read the worktree.
Begin == fresh' = Now(tree) /\ UNCHANGED <<tree, since>>

\* A run completes: what was there before it began is forgotten.
Complete == since' = fresh /\ UNCHANGED <<tree, fresh>>

\* A run finds nothing to do.
Confirm == fresh' = Now(tree) /\ since' = fresh' /\ UNCHANGED tree

\* Only what a search would show changes.
Elsewhere == UNCHANGED <<tree, since, fresh>>

Next == (Write \/ Begin \/ Complete \/ Confirm \/ Elsewhere) /\ view' \in Behind(since')

Spec == Init /\ [][Next]_viewVars
================================================================================
