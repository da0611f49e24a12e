------------------------------ MODULE MCExpose ------------------------------
(* Small instances of Expose: a client limited to one tunnel (k1), a revoked *)
(* one (k2), and an unlimited one with an open policy (k3).                  *)
EXTENDS Expose, TLC

CONSTANTS c1, c2, s1, s2, k1, k2, k3, t1, t2, t3, a1, a2

MCTokenOf == k1 :> t1 @@ k2 :> t2 @@ k3 :> t3
MCAllowPorts == k1 :> {1} @@ k2 :> {} @@ k3 :> {}
MCAllowNets == k1 :> {a1} @@ k2 :> {} @@ k3 :> {}
MCClientLimit == k1 :> 1 @@ k2 :> 1 @@ k3 :> 0

Header1(t, p, kind, register) ==
  [token |-> t, port |-> p, kind |-> kind, register |-> register]

\* Headers of each outcome: a good one of each live client over TCP, of k3 over
\* UDP, a port outside the policy, a revoked token, registers good and bad.
MCRequests ==
  {Header1(t1, 1, "tcp", FALSE), Header1(t1, 2, "tcp", FALSE),
   Header1(t2, 1, "tcp", FALSE), Header1(t1, 1, "udp", FALSE), Header1(t3, 1, "udp", FALSE),
   Header1(t1, 1, "tcp", TRUE), Header1(t2, 1, "tcp", TRUE)}
=============================================================================
