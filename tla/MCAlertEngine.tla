--------------------------- MODULE MCAlertEngine ---------------------------
(* AlertEngine on small instances: the constants' values are in the .cfg    *)
(* files; workers are interchangeable, and so are rivals and rules.         *)
EXTENDS AlertEngine, TLC

Symmetry ==
    Permutations(Workers) \cup Permutations(Rivals) \cup Permutations(Rules)
=============================================================================
