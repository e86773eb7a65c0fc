------------------------------- MODULE Tables -------------------------------
(***************************************************************************)
(* Tables put together from parts.  @@ of module TLC joins two, but the    *)
(* provers have no definition of it.                                       *)
(***************************************************************************)

\* The rows of all the tables; no two have a row of the same name.
Joined(tables) ==
  [row \in UNION {DOMAIN t : t \in tables} |-> (CHOOSE t \in tables : row \in DOMAIN t)[row]]
=============================================================================
