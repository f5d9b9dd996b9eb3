-------------------------- MODULE MCVectorEnhancement --------------------------
(* Small instances of VectorEnhancement for TLC.                           *)
EXTENDS VectorEnhancement

CONSTANTS v, w

\* Two workers against a run and a fault, or a run and a change of model; one
\* worker against two runs; one worker, a run, two faults (a worker that dies inside
\* a reset, a removal that fails) and a model that is changed and changed back; a
\* build without the neural feature.
Mixed ==
    {[workers |-> {v, w}, neural |-> TRUE, runs |-> 1, faults |-> 1, config |-> 0],
     [workers |-> {v, w}, neural |-> TRUE, runs |-> 1, faults |-> 0, config |-> 1],
     [workers |-> {v}, neural |-> TRUE, runs |-> 2, faults |-> 0, config |-> 0],
     [workers |-> {v}, neural |-> TRUE, runs |-> 1, faults |-> 2, config |-> 2],
     [workers |-> {v, w}, neural |-> FALSE, runs |-> 1, faults |-> 0, config |-> 0]}

\* Enough for a model to be changed and changed back.
ThereAndBack ==
    {[workers |-> {v}, neural |-> TRUE, runs |-> 1, faults |-> 2, config |-> 2]}
================================================================================
