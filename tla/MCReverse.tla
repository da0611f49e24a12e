----------------------------- MODULE MCReverse ------------------------------
(* Small instances of Reverse: t1 and t2 are tenants of B, t3 is refused. *)
EXTENDS Reverse, TLC

CONSTANTS t1, t2, t3, l1, l2, l3

MCListensOf == t1 :> {l1} @@ t2 :> {l2}

\* One tenant, for the runs with fairness.
MCOneTenant == t1 :> {l1}

Symmetry == Permutations(Conns) \cup Permutations(Streams)

\* What is left of a connection both ends are done with is written before it is
\* read, and `made` is read by ServedByCurrent only.
Seen ==
  <<token, policy, cached, driver, conn, restarts, streamVars,
    [c \in Conns |-> IF Unused(c) THEN <<>>
                     ELSE <<aSide[c], bSide[c], lost[c], reg[c], sent[c], client[c], listener[c]>>]>>
=============================================================================
