----------------------------- MODULE MCMappings -----------------------------
(* Instances of Mappings for TLC *)
EXTENDS Mappings, TLC

CONSTANTS l1, h1, h2, h3, h4, h5, p1, p2

Symmetric == Permutations(Handles) \cup Permutations(Requests)
Busy == {<<l1, "udp">>}
None == {}

\* The record of a handle nothing refers to any more is never read.
Seen ==
  <<table, [h \in Handles |-> IF Unused(h) THEN NoRecord ELSE mapping[h]],
    task, socket, session, foreign, file, pc, job, stale, behind, spoiled, unstarted>>
=============================================================================
