--------------------------- MODULE MCHttpService ---------------------------
(* HttpService on small instances. *)
EXTENDS HttpService, TLC

Symmetry == Permutations(Conns) \cup Permutations(Workers)
=============================================================================
