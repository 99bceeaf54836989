--------------------------- MODULE MCAccountRegistry ---------------------------
(* AccountRegistry on small instances; the bounds are in the configurations. *)
EXTENDS AccountRegistry, TLC

\* Ids are drawn at random, so they are interchangeable: sound for the
\* safety run.
Symmetry == Permutations(Ids)
=============================================================================
