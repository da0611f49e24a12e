----------------------------- MODULE MCSessions -----------------------------
(* Small instances of Sessions: e1 is p2's, the other datagrams are p1's.    *)
EXTENDS Sessions

CONSTANTS p1, p2, d1, d2, e1

MCFrom == [d \in Datagrams |-> IF d = e1 THEN p2 ELSE p1]
=============================================================================
