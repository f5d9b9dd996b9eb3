-------------------------- MODULE MCSearchPipeline --------------------------
(* Three files with five chunks.  The ranking of the text, of the paths and  *)
(* of the two vector sources all differ, have ties, and in posting order the *)
(* larger key of a tie comes first.  Boosted, the definition 2 overtakes the *)
(* best match, 5, and the definition 1 draws level with what is not one.     *)
EXTENDS SearchPipeline

MCFiles == {"lib", "util", "doc"}
MCChunksOf == [lib |-> {1, 2, 3}, util |-> {4}, doc |-> {5}]
MCKinds == {"own", "base", "edited", "deleted", "ignored", "outside", "purged"}
MCDocOrder == <<5, 4, 3, 2, 1>>
MCTextScore == <<1, 2, 2, 2, 3>>
MCPathScore == <<1, 1, 1, 2, 1>>
MCVectorScore == [hash |-> <<2, 1, 3, 2, 3>>, neural |-> <<3, 1, 1, 2, 2>>]
MCHasVector == [hash |-> {1, 2, 3, 4, 5}, neural |-> {1, 3, 5}]
MCBooleanMatch == {1, 3, 4, 5}
MCRelaxedMatch == {1, 2, 3, 4, 5}
MCHoldsLiteral == {1, 4}
MCDefines == [exact |-> {2, 4}, inferred |-> {3, 4}, alias |-> {1, 5}]
MCDefinitionKind == {1, 2}
MCVanished == {{}, {"util"}}

Ask(query, skip, filters, residual, exactPath, neural, limit) ==
    [query |-> query, skip |-> skip, filters |-> filters, residual |-> residual,
     exactPath |-> exactPath, neural |-> neural, limit |-> limit]
MCRequests ==
    {Ask("broken", FALSE, FALSE, FALSE, TRUE, FALSE, 1)} \cup
    {Ask("prompt", TRUE, FALSE, FALSE, FALSE, TRUE, n) : n \in {1, 2}} \cup
    {Ask("plain", FALSE, FALSE, FALSE, TRUE, TRUE, n) : n \in {1, 2}} \cup
    {Ask("plain", FALSE, TRUE, r, ~r, r, n) : r \in BOOLEAN, n \in {1, 2}} \cup
    {Ask("boolean", FALSE, f, f, ~f, TRUE, n) : f \in BOOLEAN, n \in {1, 2}}
=============================================================================
