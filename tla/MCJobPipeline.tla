--------------------------- MODULE MCJobPipeline ---------------------------
(* JobPipeline on small instances: the constants' values are in the .cfg    *)
(* files; workers are interchangeable, and so are replay requests.          *)
EXTENDS JobPipeline, TLC

Symmetry == Permutations(Workers) \cup Permutations(Requests)
=============================================================================
