---------------------------- MODULE MCSelection ----------------------------
(* A vehicle in view, one that runs two journeys out of view, and one that *)
(* is gone before it is selected.                                          *)
EXTENDS Selection

CONSTANTS a, b, c

MCRuns == a :> {1} @@ b :> {1, 2} @@ c :> {}
=============================================================================
