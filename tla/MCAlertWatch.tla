---------------------------- MODULE MCAlertWatch ----------------------------
(* AlertWatch on small instances: the constants' values are in the .cfg     *)
(* files; workers are interchangeable, and so are rivals and rules.         *)
EXTENDS AlertWatch, TLC

Symmetry ==
    Permutations(Workers) \cup Permutations(Rivals) \cup Permutations(Rules)
=============================================================================
