-------------------------- MODULE MCIndexRequests --------------------------
(***************************************************************************)
(* Bounds for model checking IndexRequests.                                *)
(***************************************************************************)
EXTENDS IndexRequests, TLC

Budget(edits, updates, fails, aborts, unwatched, starts) ==
    [edits |-> edits, updates |-> updates, fails |-> fails, aborts |-> aborts,
     unwatched |-> unwatched, starts |-> starts]

\* An edit races the scans, and with it one of: an update of the watcher, a
\* scan that fails, a leader that is aborted, a watcher that cannot be
\* registered, a StartIndex among the Index requests; or an update fails.
Ordinary == {Budget(1, 1, 0, 0, 0, 0), Budget(1, 0, 1, 0, 0, 0),
             Budget(0, 0, 0, 1, 0, 1), Budget(0, 0, 0, 0, 1, 0),
             Budget(1, 0, 0, 0, 0, 1), Budget(0, 1, 1, 0, 0, 0)}

Healthy == {Budget(1, 1, 0, 0, 0, 0)}

\* An edit races the scans, one of which fails.
FailedWalk == {Budget(1, 0, 1, 0, 0, 0)}

\* Two pairs of options that differ in the watch only, so that neither kind
\* of request follows the other and the ignore option plays no part.
WatchOptions == {[watch |-> w, skip |-> FALSE] : w \in BOOLEAN}

\* Two pairs of options that differ in both switches.
TwoOptions == {[watch |-> FALSE, skip |-> FALSE], [watch |-> TRUE, skip |-> TRUE]}
=============================================================================
