---- MODULE MCFrontEnds ----
(* An instance of FrontEnds with two personas. *)
EXTENDS FrontEnds
CONSTANTS p1, p2
====
