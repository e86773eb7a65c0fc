---------------------------- MODULE MCEntityStore ----------------------------
(* EntityStore on a few UUIDs, which are interchangeable. *)
EXTENDS EntityStore, TLC

Symmetry == Permutations(Ids)
=============================================================================
