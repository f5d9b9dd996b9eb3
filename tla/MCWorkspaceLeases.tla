--------------------------- MODULE MCWorkspaceLeases ---------------------------
(* Small instances of WorkspaceLeases for TLC.                             *)
EXTENDS WorkspaceLeases

CONSTANTS tracked, all, r1, r2, r3

Ask(kind, mode, needs, cancellable) ==
    [kind |-> kind, mode |-> mode, needs |-> needs, must |-> {},
     cancellable |-> cancellable, then |-> "done"]

Load(n, a, b, c) ==
    [asked |-> [r \in Requests |-> IF r = r1 THEN a ELSE IF r = r2 THEN b ELSE c],
     retries |-> n]

\* Searches of both modes and a mutation, or three searches, on one workspace.
Crowds ==
    {Load(0, Ask("search", tracked, {1}, TRUE), Ask("search", all, {1}, TRUE),
             Ask(k, all, {1}, FALSE)) : k \in {"index", "remove"}}
    \cup {Load(0, Ask("search", tracked, {1}, TRUE), Ask("search", all, {1}, FALSE),
                  Ask("search", tracked, {1}, FALSE))}

\* Two requests for the same two workspaces, one of which may start over.
Pairs ==
    {Load(1, Ask("search", tracked, {1, 2}, TRUE), Ask(k, all, {1, 2}, FALSE), NoJob) :
        k \in {"search", "index"}}

CrowdsAndPairs == Crowds \cup Pairs
================================================================================
