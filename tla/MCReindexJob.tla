--------------------------- MODULE MCReindexJob ---------------------------
(* Two jobs, two entities of two types, for TLC. *)
EXTENDS ReindexJob, TLC

CONSTANTS j1, j2, e1, e2

MCTypeOf == (e1 :> 1) @@ (e2 :> 2)

MCOneType == [e \in Entities |-> 1]

MCSymmetry == Permutations(Jobs)
============================================================================
