------------------------------ MODULE MCSession ------------------------------
(* Small instances of Session for TLC. *)
EXTENDS Session, TLC

CONSTANTS c1, c2, c3, p1, p2, p3, n1, n2, n3

(* n1 and n2 are ordinary characters of one account. *)
Symmetry ==
  Permutations({c1, c2, c3}) \cup Permutations({p1, p2}) \cup Permutations({n1, n2})
=============================================================================
