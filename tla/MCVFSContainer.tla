--------------------------- MODULE MCVFSContainer ---------------------------
(* Instances of VFSContainer for TLC. *)
EXTENDS VFSContainer, TLC

CONSTANTS k1, k2, a, b, long

OneKey == {k1}
TwoKeys == {k1, k2}
MCNames == {a, b, long}
MCLongNames == {long}
OneSize == {1}

\* Handles, file ids and content versions are interchangeable in every
\* definition and property.
Symmetric == Permutations(Handles) \cup Permutations(FileIds) \cup Permutations(Vers)
=============================================================================
