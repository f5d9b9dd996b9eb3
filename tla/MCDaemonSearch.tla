--------------------------- MODULE MCDaemonSearch ---------------------------
(***************************************************************************)
(* Bounds for model checking DaemonSearch.                                 *)
(***************************************************************************)
EXTENDS DaemonSearch, TLC

Quiet == [named |-> 0, anonymous |-> 0, cancels |-> 0, disconnects |-> 0,
          deadlines |-> 0, failures |-> 0, repairs |-> 0, runs |-> 0, externals |-> 0,
          kinds |-> {"hybrid"}]

\* The registry alone, its one place and two ids contended; the caches with
\* each way of moving the index; cancelled searches among cached ones; and the
\* kinds of request that keep no results.
Ordinary ==
    {[Quiet EXCEPT !.named = 3, !.cancels = 2],
     [Quiet EXCEPT !.anonymous = 3, !.runs = 1],
     [Quiet EXCEPT !.anonymous = 3, !.externals = 1],
     [Quiet EXCEPT !.anonymous = 2, !.repairs = 1, !.externals = 1],
     [Quiet EXCEPT !.anonymous = 2, !.disconnects = 1, !.deadlines = 1],
     [Quiet EXCEPT !.anonymous = 2, !.failures = 1, !.externals = 1,
                   !.kinds = {"hybrid", "literal"}],
     [Quiet EXCEPT !.named = 1, !.anonymous = 1, !.cancels = 1, !.deadlines = 1,
                   !.externals = 1, !.kinds = {"regex", "pack"}]}
=============================================================================
