----------------------------- MODULE Admission ------------------------------
(***************************************************************************)
(* What a limit on concurrent tunnels promises, whatever implements it: a  *)
(* task enters its pool when the pool has room, is turned away when it is  *)
(* full and only then, is never both, and leaves once.  Expose implements  *)
(* it twice, with a semaphore for each connection and one for each client. *)
(***************************************************************************)
EXTENDS Naturals, FiniteSets

CONSTANTS
  Tasks,
  Pools,
  Limit,    \* of each pool; 0 means none
  NoPool

VARIABLES
  at,       \* where each task is
  pool      \* the pool it asked to enter

vars == <<at, pool>>

Places == {"outside", "inside", "turned", "left"}

Inside(p) == {t \in Tasks : at[t] = "inside" /\ pool[t] = p}

Full(p) == Limit[p] > 0 /\ Cardinality(Inside(p)) >= Limit[p]

Init == at = [t \in Tasks |-> "outside"] /\ pool = [t \in Tasks |-> NoPool]

Asks(t, p, place) ==
  /\ at[t] = "outside"
  /\ at' = [at EXCEPT ![t] = place]
  /\ pool' = [pool EXCEPT ![t] = p]

Enter(t, p) == ~Full(p) /\ Asks(t, p, "inside")

TurnAway(t, p) == Full(p) /\ Asks(t, p, "turned")

Leave(t) ==
  /\ at[t] = "inside"
  /\ at' = [at EXCEPT ![t] = "left"]
  /\ UNCHANGED pool

Next ==
  \E t \in Tasks : Leave(t) \/ \E p \in Pools : Enter(t, p) \/ TurnAway(t, p)

Spec == Init /\ [][Next]_vars
=============================================================================
