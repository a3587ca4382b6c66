----------------------------- MODULE MCRegistry -----------------------------
(* Registry on small instances.  Two pages; one of them is also typed with  *)
(* a tracking query, and with its host in capitals.                         *)
EXTENDS Registry, TLC

MCUrls ==
    {[page |-> "a", tracked |-> FALSE, plain |-> TRUE],
     [page |-> "a", tracked |-> TRUE,  plain |-> FALSE],
     [page |-> "b", tracked |-> FALSE, plain |-> TRUE]}

Symmetry == Permutations(Browsers) \cup Permutations(Emails)
=============================================================================
