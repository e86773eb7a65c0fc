--------------------------- MODULE MCCoreProfile ---------------------------
(* Instances of CoreProfile for TLC. *)
EXTENDS CoreProfile, TLC

\* Paths, passphrases and record contents are interchangeable in every
\* definition and property; ids are not (RocksDB sorts them).
Symmetric == Permutations(Paths) \cup Permutations(Keys) \cup Permutations(Rests)
=============================================================================
