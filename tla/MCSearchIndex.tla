--------------------------- MODULE MCSearchIndex ---------------------------
(* For TLC: names of each kind are interchangeable. *)
EXTENDS SearchIndex, TLC

MCSymmetry == Permutations(Jobs) \cup Permutations(Requests)
              \cup Permutations(Entities) \cup Permutations(Texts)
============================================================================
