------------------------------- MODULE MCLink -------------------------------
(* Small instances of Link. *)
EXTENDS Link

Symmetry == Permutations(Conns) \cup Permutations(Tunnels) \cup Permutations(Creds)
=============================================================================
