----------------------------- MODULE MCDraftQueue -----------------------------
(* DraftQueue on small instances; the bounds are in the configurations. *)
EXTENDS DraftQueue, TLC

\* Draft identifiers are interchangeable: sound for the safety runs.
Symmetry == Permutations(Drafts)
=============================================================================
