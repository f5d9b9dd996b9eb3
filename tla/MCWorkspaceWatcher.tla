------------------------- MODULE MCWorkspaceWatcher -------------------------
(***************************************************************************)
(* Bounds for model checking WorkspaceWatcher.                             *)
(***************************************************************************)
EXTENDS WorkspaceWatcher, TLC

Quiet == [edits |-> 0, rules |-> 0, overflows |-> 0, vanishes |-> 0, fails |-> 0,
          regfails |-> 0, requests |-> 0, asks |-> 0]

\* Edits and ignore files racing the worker, with a failed update, a lost
\* queue, or a request that refreshes the filter; a root that goes, with or
\* without coming back; explicit requests that register, satisfy or stop the
\* watcher.  The rules that are there at first hide any of the files.
Ordinary ==
    {[Quiet EXCEPT !.edits = 1, !.rules = 1, !.fails = 1],
     [Quiet EXCEPT !.edits = 1, !.rules = 1, !.overflows = 1],
     [Quiet EXCEPT !.edits = 1, !.rules = 1, !.requests = 1],
     [Quiet EXCEPT !.edits = 2, !.overflows = 1],
     [Quiet EXCEPT !.vanishes = 1, !.regfails = 1, !.asks = 1],
     [Quiet EXCEPT !.edits = 1, !.vanishes = 1, !.fails = 1],
     [Quiet EXCEPT !.edits = 1, !.requests = 2, !.asks = 1]}

\* An ignore file changes while a filter is built or refreshed.
StaleFilter == {[Quiet EXCEPT !.edits = 1, !.rules = 1],
                [Quiet EXCEPT !.edits = 1, !.rules = 1, !.requests = 1]}

Stopping == {[Quiet EXCEPT !.requests = 1]}
=============================================================================
