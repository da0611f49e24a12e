---------------------------- MODULE ExposeProofs ----------------------------
(***************************************************************************)
(* Safety of the exposing side for every number of connections, streams    *)
(* and clients.  The inductive invariant IInv adds to the properties what  *)
(* ties a task's stage to the data it holds.                               *)
(***************************************************************************)
EXTENDS Expose, TLAPS, FiniteSetTheorems

\* The accept queue of a connection holds its own streams, each once, and they
\* are not being served yet.
QueueInv ==
  \A c \in Conns : \A i \in 1..Len(queue[c]) :
    /\ queue[c][i] \in Streams
    /\ stage[queue[c][i]] = "queued"
    /\ owner[queue[c][i]] = c
    /\ \A j \in 1..Len(queue[c]) : queue[c][i] = queue[c][j] => i = j

\* A task that is being served has read a header; it has a client exactly from
\* its authentication on.
TaskInv ==
  \A s \in Streams :
    /\ stage[s] \in Serving => req[s] \in Requests
    /\ stage[s] \in {"unopened", "queued", "reading", "spawned"} => tenant[s] = NoClient
    /\ stage[s] \in {"resolving", "dialling", "accepting"} \cup Relaying => tenant[s] \in Clients
    /\ tenant[s] # NoClient => /\ req[s] \in Requests
                               /\ tenant[s] \in Authenticated(req[s].token)

\* What is left to dial, and what was dialled, is allowed.
DialInv ==
  \A s \in Streams :
    /\ todo[s] # {} =>
         tenant[s] # NoClient /\ todo[s] \subseteq Allowed(tenant[s], req[s].port, Addrs)
    /\ dialled[s] # NoAddr =>
         tenant[s] # NoClient /\ dialled[s] \in Allowed(tenant[s], req[s].port, Addrs)
    /\ stage[s] \in {"unopened", "queued", "reading", "spawned", "resolving"} =>
         todo[s] = {} /\ dialled[s] = NoAddr

IInv == /\ TypeOK /\ QueueInv /\ TaskInv /\ DialInv
        /\ PermitsConserved /\ CountersExact

\* The steps of a relay short of its end.
Pauses(s) == TargetStalls(s) \/ TargetReads(s) \/ HalfCloses(s)

LEMMA PauseEffect ==
  ASSUME TypeOK, NEW s \in Streams, Pauses(s)
  PROVE  /\ stage[s] \in Relaying /\ stage'[s] \in Relaying
         /\ stage' \in [Streams -> Stages]
         /\ \A x \in Streams \ {s} : stage'[x] = stage[x]
         /\ UNCHANGED <<link, queue, loop, free, quota, owner>>
         /\ UNCHANGED <<req, tenant, todo, late, dialled, metrics, audit>>
<1>1. Relaying \subseteq Stages
  BY DEF Relaying, Stages, Serving
<1>2. PICK st \in Relaying : stage[s] \in Relaying /\ stage' = [stage EXCEPT ![s] = st]
  BY DEF Pauses, TargetStalls, TargetReads, HalfCloses, Relaying
<1>3. /\ UNCHANGED <<link, queue, loop, free, quota, owner>>
      /\ UNCHANGED <<req, tenant, todo, late, dialled, metrics, audit>>
  BY DEF Pauses, TargetStalls, TargetReads, HalfCloses, loopVars, taskVars
<1>. QED  BY <1>1, <1>2, <1>3 DEF TypeOK

-----------------------------------------------------------------------------
(* Counting *)

\* Two sets of streams that agree except on s differ in size by s alone.
LEMMA FlipCount ==
  ASSUME NEW A \in SUBSET Streams, NEW B \in SUBSET Streams, NEW s \in Streams,
         A \ {s} = B \ {s}
  PROVE  /\ Cardinality(A) \in Nat /\ Cardinality(B) \in Nat
         /\ s \in A /\ s \notin B => Cardinality(A) = Cardinality(B) + 1
         /\ s \notin A /\ s \in B => Cardinality(B) = Cardinality(A) + 1
         /\ (s \in A <=> s \in B) => A = B
<1>1. IsFiniteSet(A) /\ IsFiniteSet(B)
  BY ConstantAssumption, FS_Subset
<1>2. Cardinality(A) \in Nat /\ Cardinality(B) \in Nat
  BY <1>1, FS_CardinalityType
<1>3. CASE s \in A /\ s \notin B
  <2>1. B = A \ {s}
    BY <1>3
  <2>2. Cardinality(A \ {s}) = Cardinality(A) - 1
    BY <1>1, <1>3, FS_RemoveElement
  <2>. QED  BY <2>1, <2>2, <1>2, <1>3
<1>4. CASE s \notin A /\ s \in B
  <2>1. A = B \ {s}
    BY <1>4
  <2>2. Cardinality(B \ {s}) = Cardinality(B) - 1
    BY <1>1, <1>4, FS_RemoveElement
  <2>. QED  BY <2>1, <2>2, <1>2, <1>4
<1>5. CASE s \in A <=> s \in B
  <2>1. A = B
    BY <1>5
  <2>. QED  BY <2>1, <1>2, <1>5
<1>. QED  BY <1>3, <1>4, <1>5

\* A step that touches stage and tenant of one stream only moves that stream
\* in or out of each counted set.
LEMMA StepCounts ==
  ASSUME TypeOK, NEW s \in Streams, owner' = owner,
         \A x \in Streams \ {s} : stage'[x] = stage[x] /\ tenant'[x] = tenant[x]
  PROVE  /\ \A c \in Conns : ServedOn(c) \ {s} = ServedOn(c)' \ {s}
         /\ \A k \in Clients : ServedFor(k) \ {s} = ServedFor(k)' \ {s}
         /\ \A S : InStage(S) \ {s} = InStage(S)' \ {s}
         /\ \A c \in Conns : ServedOn(c) \in SUBSET Streams /\ ServedOn(c)' \in SUBSET Streams
         /\ \A k \in Clients : ServedFor(k) \in SUBSET Streams /\ ServedFor(k)' \in SUBSET Streams
         /\ \A S : InStage(S) \in SUBSET Streams /\ InStage(S)' \in SUBSET Streams
BY DEF ServedOn, ServedFor, HoldsClient, InStage

-----------------------------------------------------------------------------
(* Type correctness *)

LEMMA CountType ==
  ASSUME TypeOK, NEW counter \in Counters, Count(counter)
  PROVE  metrics' \in [Counters -> Nat]
BY DEF TypeOK, Count

LEMMA FailType ==
  ASSUME TypeOK, NEW s \in Streams, NEW cause \in Counters, Fail(s, cause)
  PROVE  /\ metrics' \in [Counters -> Nat]
         /\ stage' = [stage EXCEPT ![s] = "refusing"]
         /\ stage' \in [Streams -> Stages]
<1>1. metrics' \in [Counters -> Nat]
  <2>1. /\ "tunnels_failed" \in Counters
        /\ metrics[cause] + 1 \in Nat /\ metrics["tunnels_failed"] + 1 \in Nat
    BY DEF TypeOK, Counters
  <2>2. [metrics EXCEPT ![cause] = @ + 1] \in [Counters -> Nat]
    BY <2>1 DEF TypeOK
  <2>. QED  BY <2>1, <2>2 DEF TypeOK, Fail
<1>2. "refusing" \in Stages
  BY DEF Stages, Serving
<1>. QED  BY <1>1, <1>2 DEF TypeOK, Fail

LEMMA ReleaseType ==
  ASSUME TypeOK, NEW s \in Streams, ReleasePermits(s)
  PROVE  free' \in [Conns -> Nat] /\ quota' \in [Clients -> Nat]
BY DEF TypeOK, ReleasePermits, HoldsClient

LEMMA TypeStep == TypeOK /\ [Next]_vars => TypeOK'
<1> SUFFICES ASSUME TypeOK, [Next]_vars  PROVE TypeOK'
  OBVIOUS
<1> USE ConstantAssumption DEF loopVars, taskVars
<1>0. /\ \A st \in {"queued", "reading", "spawned", "resolving", "dialling",
                    "accepting", "refusing", "open", "stalled", "draining"} \cup Final : st \in Stages
      /\ Final = {"dropped", "unreadable", "registered", "refused", "abandoned", "ended"}
  BY DEF Stages, Serving, Final
<1>a. /\ {"handshake_denied", "over_limit", "target_denied", "dial_failed", "dial_timeout",
          "tunnels_opened", "tunnels_active"} \subseteq Counters
      /\ {"denied_token", "over_limit", "denied_target", "dial_failed", "dial_timeout",
          "ok"} \subseteq Results
  BY DEF Counters, Results
<1>1. CASE UNCHANGED vars
  BY <1>1 DEF vars, TypeOK
<1>2. ASSUME NEW c \in Conns, Accept(c)  PROVE TypeOK'
  BY <1>2 DEF Accept, TypeOK
<1>3. ASSUME NEW c \in Conns, LoseConnection(c)  PROVE TypeOK'
  BY <1>3 DEF LoseConnection, TypeOK
<1>4. ASSUME NEW c \in Conns, AcceptBi(c)  PROVE TypeOK'
  <2>1. Head(queue[c]) \in Streams /\ Tail(queue[c]) \in Seq(Streams)
    BY <1>4 DEF AcceptBi, TypeOK
  <2>. QED  BY <1>0, <1>4, <2>1 DEF AcceptBi, TypeOK
<1>5. ASSUME NEW c \in Conns, LoopEnds(c)  PROVE TypeOK'
  BY <1>5 DEF LoopEnds, TypeOK
<1>6. ASSUME NEW s \in Streams, OpenStream(s)  PROVE TypeOK'
  BY <1>0, <1>6 DEF OpenStream, TypeOK
<1>7. ASSUME NEW s \in Streams, HeaderUnreadable(s)  PROVE TypeOK'
  BY <1>0, <1>7 DEF HeaderUnreadable, TypeOK
<1>8. ASSUME NEW s \in Streams, HandleRegister(s)  PROVE TypeOK'
  <2>1. metrics' \in [Counters -> Nat]
    BY <1>8, <1>a, CountType DEF HandleRegister, TypeOK
  <2>. QED  BY <1>0, <1>8, <2>1 DEF HandleRegister, TypeOK
<1>9. ASSUME NEW s \in Streams, SpawnOrDrop(s)  PROVE TypeOK'
  <2>1. metrics' \in [Counters -> Nat]
    BY <1>9, <1>a, CountType DEF SpawnOrDrop, TypeOK
  <2>2. free' \in [Conns -> Nat]
    BY <1>9 DEF SpawnOrDrop, ConnPermit, TypeOK
  <2>3. stage' \in [Streams -> Stages]
    BY <1>9, <1>0 DEF SpawnOrDrop, TypeOK
  <2>4. req' \in [Streams -> Requests \cup {NoRequest}] /\ loop' \in [Conns -> Streams \cup {NoStream}]
    BY <1>9 DEF SpawnOrDrop, TypeOK
  <2>. QED  BY <1>9, <2>1, <2>2, <2>3, <2>4 DEF SpawnOrDrop, TypeOK
<1>10. ASSUME NEW s \in Streams, DenyToken(s)  PROVE TypeOK'
  BY <1>a, <1>10, FailType DEF DenyToken, Record, TypeOK
<1>11. ASSUME NEW s \in Streams, Authenticate(s)  PROVE TypeOK'
  <2>1. PICK k \in Authenticated(req[s].token) :
          \/ /\ ClientPermit(k)
             /\ quota' = IF ClientLimit[k] > 0
                         THEN [quota EXCEPT ![k] = @ - 1] ELSE quota
             /\ tenant' = [tenant EXCEPT ![s] = k]
             /\ stage' = [stage EXCEPT ![s] = "resolving"]
             /\ UNCHANGED <<metrics, audit>>
          \/ /\ ~ClientPermit(k)
             /\ Fail(s, "over_limit")
             /\ Record(s, "over_limit")
             /\ UNCHANGED <<quota, tenant>>
    BY <1>11 DEF Authenticate
  <2>2. k \in Clients
    BY DEF Authenticated
  <2>3. metrics' \in [Counters -> Nat] /\ stage' \in [Streams -> Stages]
    BY <1>0, <1>a, <2>1, FailType DEF TypeOK
  <2>4. quota' \in [Clients -> Nat]
    <3>1. quota \in [Clients -> Nat] /\ quota[k] \in Nat /\ ClientLimit[k] \in Nat
      BY <2>2 DEF TypeOK
    <3>2. ClientPermit(k) /\ ClientLimit[k] > 0 => quota[k] - 1 \in Nat
      BY <3>1 DEF ClientPermit
    <3>. QED  BY <2>1, <2>2, <3>1, <3>2
  <2>5. tenant' \in [Streams -> Clients \cup {NoClient}]
    BY <2>1, <2>2 DEF TypeOK
  <2>6. audit' \in [Streams -> Results \cup {"none"}]
    BY <1>a, <2>1 DEF TypeOK, Record
  <2>. QED  BY <1>11, <2>3, <2>4, <2>5, <2>6 DEF Authenticate, TypeOK
<1>12. ASSUME NEW s \in Streams, ResolveAllowed(s)  PROVE TypeOK'
  <2>1. metrics' \in [Counters -> Nat] /\ stage' \in [Streams -> Stages]
    BY <1>0, <1>a, <1>12, FailType DEF ResolveAllowed, TypeOK
  <2>2. audit' \in [Streams -> Results \cup {"none"}]
    BY <1>a, <1>12 DEF ResolveAllowed, Record, TypeOK
  <2>3. todo' \in [Streams -> SUBSET Addrs]
    <3>1. \/ todo' = todo
          \/ \E found \in SUBSET Addrs :
               todo' = [todo EXCEPT ![s] = Allowed(tenant[s], req[s].port, found)]
      BY <1>12 DEF ResolveAllowed
    <3>2. ASSUME NEW found \in SUBSET Addrs,
                 todo' = [todo EXCEPT ![s] = Allowed(tenant[s], req[s].port, found)]
          PROVE  todo' \in [Streams -> SUBSET Addrs]
      <4>1. Allowed(tenant[s], req[s].port, found) \in SUBSET Addrs
        BY DEF Allowed
      <4>. QED  BY <3>2, <4>1 DEF TypeOK
    <3>. QED  BY <3>1, <3>2 DEF TypeOK
  <2>. QED  BY <1>12, <2>1, <2>2, <2>3 DEF ResolveAllowed, TypeOK
<1>13. ASSUME NEW s \in Streams, DialSucceeds(s)  PROVE TypeOK'
  BY <1>0, <1>13 DEF DialSucceeds, TypeOK
<1>14. ASSUME NEW s \in Streams, TcpDialFails(s)  PROVE TypeOK'
  <2>1. metrics' \in [Counters -> Nat] /\ stage' \in [Streams -> Stages]
    BY <1>0, <1>a, <1>14, FailType DEF TcpDialFails, TypeOK
  <2>2. todo' \in [Streams -> SUBSET Addrs]
    BY <1>14 DEF TcpDialFails, TypeOK
  <2>3. late' \in [Streams -> BOOLEAN]
    BY <1>14 DEF TcpDialFails, TypeOK
  <2>4. audit' \in [Streams -> Results \cup {"none"}]
    <3>1. \/ audit' = audit
          \/ \E cause \in {"dial_timeout", "dial_failed"} : Record(s, cause)
      BY <1>14 DEF TcpDialFails
    <3>2. audit \in [Streams -> Results \cup {"none"}] /\ {"dial_timeout", "dial_failed"} \subseteq Results
      BY DEF TypeOK, Results
    <3>. QED  BY <3>1, <3>2 DEF Record
  <2>. QED  BY <1>14, <2>1, <2>2, <2>3, <2>4 DEF TcpDialFails, TypeOK
<1>15. ASSUME NEW s \in Streams, UdpDialFails(s)  PROVE TypeOK'
  BY <1>a, <1>15, FailType DEF UdpDialFails, TypeOK
<1>16. ASSUME NEW s \in Streams, WriteOk(s)  PROVE TypeOK'
  <2>1. /\ "tunnels_opened" \in Counters /\ "tunnels_active" \in Counters
        /\ metrics["tunnels_opened"] + 1 \in Nat /\ metrics["tunnels_active"] + 1 \in Nat
    BY <1>a DEF TypeOK
  <2>2. [metrics EXCEPT !["tunnels_opened"] = @ + 1] \in [Counters -> Nat]
    BY <2>1 DEF TypeOK
  <2>3. metrics' \in [Counters -> Nat]
    BY <2>1, <2>2, <1>16 DEF WriteOk, TypeOK
  <2>. QED  BY <1>0, <1>a, <1>16, <2>3 DEF WriteOk, Record, TypeOK
<1>17. ASSUME NEW s \in Streams, WriteOkFails(s)  PROVE TypeOK'
  BY <1>0, <1>17, ReleaseType DEF WriteOkFails, TypeOK
<1>18. ASSUME NEW s \in Streams, WriteErr(s)  PROVE TypeOK'
  BY <1>0, <1>18, ReleaseType DEF WriteErr, TypeOK
<1>19. ASSUME NEW s \in Streams, TunnelEnds(s)  PROVE TypeOK'
  <2>1. metrics' \in [Counters -> Nat]
    BY <1>a, <1>19 DEF TunnelEnds, TypeOK
  <2>. QED  BY <1>0, <1>19, <2>1, ReleaseType DEF TunnelEnds, TypeOK
<1>20. ASSUME NEW s \in Streams, Pauses(s)  PROVE TypeOK'
  <2>. HIDE DEF loopVars, taskVars
  <2>. QED  BY <1>20, PauseEffect DEF TypeOK
<1>. QED
  BY <1>1, <1>2, <1>3, <1>4, <1>5, <1>6, <1>7, <1>8, <1>9, <1>10, <1>11, <1>12,
     <1>13, <1>14, <1>15, <1>16, <1>17, <1>18, <1>19, <1>20
  DEF Next, Loop, Header, Serve, Relay, Pauses

-----------------------------------------------------------------------------
(* Permits *)

\* How the number of tasks on a connection and of tasks of a client changes
\* when one stream moves.
LEMMA StepCards ==
  ASSUME TypeOK, NEW s \in Streams, owner' = owner,
         \A x \in Streams \ {s} : stage'[x] = stage[x] /\ tenant'[x] = tenant[x]
  PROVE  /\ \A c \in Conns :
              /\ Cardinality(ServedOn(c)) \in Nat /\ Cardinality(ServedOn(c)') \in Nat
              /\ s \in ServedOn(c) /\ s \notin ServedOn(c)' =>
                   Cardinality(ServedOn(c)) = Cardinality(ServedOn(c)') + 1
              /\ s \notin ServedOn(c) /\ s \in ServedOn(c)' =>
                   Cardinality(ServedOn(c)') = Cardinality(ServedOn(c)) + 1
              /\ (s \in ServedOn(c) <=> s \in ServedOn(c)') =>
                   Cardinality(ServedOn(c)') = Cardinality(ServedOn(c))
         /\ \A k \in Clients :
              /\ Cardinality(ServedFor(k)) \in Nat /\ Cardinality(ServedFor(k)') \in Nat
              /\ s \in ServedFor(k) /\ s \notin ServedFor(k)' =>
                   Cardinality(ServedFor(k)) = Cardinality(ServedFor(k)') + 1
              /\ s \notin ServedFor(k) /\ s \in ServedFor(k)' =>
                   Cardinality(ServedFor(k)') = Cardinality(ServedFor(k)) + 1
              /\ (s \in ServedFor(k) <=> s \in ServedFor(k)') =>
                   Cardinality(ServedFor(k)') = Cardinality(ServedFor(k))
<1>1. ASSUME NEW c \in Conns
      PROVE  /\ ServedOn(c) \in SUBSET Streams /\ ServedOn(c)' \in SUBSET Streams
             /\ ServedOn(c) \ {s} = ServedOn(c)' \ {s}
  BY StepCounts
<1>2. ASSUME NEW k \in Clients
      PROVE  /\ ServedFor(k) \in SUBSET Streams /\ ServedFor(k)' \in SUBSET Streams
             /\ ServedFor(k) \ {s} = ServedFor(k)' \ {s}
  BY StepCounts
<1>3. ASSUME NEW A \in SUBSET Streams, NEW B \in SUBSET Streams, A \ {s} = B \ {s}
      PROVE  /\ Cardinality(A) \in Nat /\ Cardinality(B) \in Nat
             /\ s \in A /\ s \notin B => Cardinality(A) = Cardinality(B) + 1
             /\ s \notin A /\ s \in B => Cardinality(B) = Cardinality(A) + 1
             /\ (s \in A <=> s \in B) => Cardinality(A) = Cardinality(B)
  BY <1>3, FlipCount
<1>. QED  BY <1>1, <1>2, <1>3

\* A step inside or outside the served stages that keeps the semaphores.
LEMMA PermitsKept ==
  ASSUME TypeOK, PermitsConserved, NEW s \in Streams,
         UNCHANGED <<owner, tenant, free, quota>>,
         \A x \in Streams \ {s} : stage'[x] = stage[x],
         stage[s] \in Serving <=> stage'[s] \in Serving
  PROVE  PermitsConserved'
<1>1. \A c \in Conns : Cardinality(ServedOn(c)') = Cardinality(ServedOn(c))
  <2>1. \A c \in Conns : s \in ServedOn(c) <=> s \in ServedOn(c)'
    BY DEF ServedOn
  <2>. QED  BY <2>1, StepCards
<1>2. \A k \in Clients : Cardinality(ServedFor(k)') = Cardinality(ServedFor(k))
  <2>1. \A k \in Clients : s \in ServedFor(k) <=> s \in ServedFor(k)'
    BY DEF ServedFor, HoldsClient
  <2>. QED  BY <2>1, StepCards
<1>. QED  BY <1>1, <1>2 DEF PermitsConserved

\* The end of a task gives back what it held.
LEMMA PermitsReleased ==
  ASSUME TypeOK, PermitsConserved, NEW s \in Streams, ReleasePermits(s),
         UNCHANGED <<owner, tenant>>,
         \A x \in Streams \ {s} : stage'[x] = stage[x],
         stage[s] \in Serving, stage'[s] \notin Serving
  PROVE  PermitsConserved'
<1>1. ASSUME NEW c \in Conns, ConnLimit > 0
      PROVE  free'[c] + Cardinality(ServedOn(c)') = ConnLimit
  <2>1. free[c] \in Nat /\ owner[s] \in Conns
    BY DEF TypeOK
  <2>2. free[c] + Cardinality(ServedOn(c)) = ConnLimit
    BY <1>1 DEF PermitsConserved
  <2>3. CASE owner[s] = c
    <3>1. s \in ServedOn(c) /\ s \notin ServedOn(c)'
      BY <2>3 DEF ServedOn
    <3>2. Cardinality(ServedOn(c)) = Cardinality(ServedOn(c)') + 1
          /\ Cardinality(ServedOn(c)') \in Nat
      BY <3>1, StepCards
    <3>3. free'[c] = free[c] + 1
      BY <1>1, <2>3 DEF ReleasePermits, TypeOK
    <3>. QED  BY <2>1, <2>2, <3>2, <3>3
  <2>4. CASE owner[s] # c
    <3>1. s \notin ServedOn(c) /\ s \notin ServedOn(c)'
      BY <2>4 DEF ServedOn
    <3>2. Cardinality(ServedOn(c)) = Cardinality(ServedOn(c)')
      BY <3>1, StepCards
    <3>3. free'[c] = free[c]
      BY <1>1, <2>4 DEF ReleasePermits, TypeOK
    <3>. QED  BY <2>2, <3>2, <3>3
  <2>. QED  BY <2>3, <2>4
<1>2. ASSUME NEW k \in Clients, ClientLimit[k] > 0
      PROVE  quota'[k] + Cardinality(ServedFor(k)') = ClientLimit[k]
  <2>1. quota[k] \in Nat /\ ClientLimit[k] \in Nat
    BY ConstantAssumption DEF TypeOK
  <2>2. quota[k] + Cardinality(ServedFor(k)) = ClientLimit[k]
    BY <1>2 DEF PermitsConserved
  <2>3. CASE tenant[s] = k
    <3>0. HoldsClient(s)
      BY <2>3, ConstantAssumption DEF HoldsClient
    <3>1. s \in ServedFor(k) /\ s \notin ServedFor(k)'
      BY <2>3, <3>0 DEF ServedFor, HoldsClient
    <3>2. Cardinality(ServedFor(k)) = Cardinality(ServedFor(k)') + 1
          /\ Cardinality(ServedFor(k)') \in Nat
      BY <3>1, StepCards
    <3>3. quota'[k] = quota[k] + 1
      BY <1>2, <2>3, <3>0 DEF ReleasePermits, TypeOK
    <3>. QED  BY <2>1, <2>2, <3>2, <3>3
  <2>4. CASE tenant[s] # k
    <3>1. s \notin ServedFor(k) /\ s \notin ServedFor(k)'
      BY <2>4 DEF ServedFor
    <3>2. Cardinality(ServedFor(k)) = Cardinality(ServedFor(k)')
      BY <3>1, StepCards
    <3>3. quota'[k] = quota[k]
      BY <1>2, <2>4 DEF ReleasePermits, HoldsClient, TypeOK
    <3>. QED  BY <2>2, <3>2, <3>3
  <2>. QED  BY <2>3, <2>4
<1>. QED  BY <1>1, <1>2 DEF PermitsConserved

LEMMA PermitsSpawn ==
  ASSUME TypeOK, TaskInv, PermitsConserved, NEW s \in Streams, SpawnOrDrop(s)
  PROVE  PermitsConserved'
<1> USE DEF loopVars, taskVars
<1>1. /\ UNCHANGED <<owner, tenant, quota>>
      /\ \A x \in Streams \ {s} : stage'[x] = stage[x] /\ tenant'[x] = tenant[x]
      /\ stage[s] = "reading" /\ tenant[s] = NoClient
      /\ stage'[s] \in {"spawned", "dropped"}
  BY DEF SpawnOrDrop, TypeOK, TaskInv
<1>2. CASE stage'[s] = "dropped"
  <2>1. UNCHANGED free
    BY <1>2 DEF SpawnOrDrop, TypeOK
  <2>2. stage[s] \notin Serving /\ stage'[s] \notin Serving
    BY <1>1, <1>2 DEF Serving
  <2>. QED  BY <1>1, <2>1, <2>2, PermitsKept
<1>3. CASE stage'[s] = "spawned"
  <2>1. ConnLimit > 0 => free[owner[s]] > 0 /\ free' = [free EXCEPT ![owner[s]] = @ - 1]
    BY <1>3, ConstantAssumption DEF SpawnOrDrop, ConnPermit, TypeOK
  <2>2. stage[s] \notin Serving /\ stage'[s] \in Serving
    BY <1>1, <1>3 DEF Serving
  <2>3. ASSUME NEW c \in Conns, ConnLimit > 0
        PROVE  free'[c] + Cardinality(ServedOn(c)') = ConnLimit
    <3>1. free[c] \in Nat /\ owner[s] \in Conns
      BY DEF TypeOK
    <3>2. free[c] + Cardinality(ServedOn(c)) = ConnLimit
      BY <2>3 DEF PermitsConserved
    <3>3. CASE owner[s] = c
      <4>1. s \notin ServedOn(c) /\ s \in ServedOn(c)'
        BY <1>1, <2>2, <3>3 DEF ServedOn
      <4>2. Cardinality(ServedOn(c)') = Cardinality(ServedOn(c)) + 1
            /\ Cardinality(ServedOn(c)) \in Nat
        BY <1>1, <4>1, StepCards
      <4>3. free'[c] = free[c] - 1
        BY <2>1, <2>3, <3>3 DEF TypeOK
      <4>. QED  BY <3>1, <3>2, <4>2, <4>3
    <3>4. CASE owner[s] # c
      <4>1. s \notin ServedOn(c) /\ s \notin ServedOn(c)'
        BY <1>1, <3>4 DEF ServedOn
      <4>2. Cardinality(ServedOn(c)') = Cardinality(ServedOn(c))
        BY <1>1, <4>1, StepCards
      <4>3. free'[c] = free[c]
        BY <2>1, <2>3, <3>4 DEF TypeOK
      <4>. QED  BY <3>2, <4>2, <4>3
    <3>. QED  BY <3>3, <3>4
  <2>4. \A k \in Clients : Cardinality(ServedFor(k)') = Cardinality(ServedFor(k))
    <3>1. \A k \in Clients : s \notin ServedFor(k) /\ s \notin ServedFor(k)'
      BY <1>1 DEF ServedFor, HoldsClient
    <3>. QED  BY <1>1, <3>1, StepCards
  <2>. QED  BY <1>1, <2>3, <2>4 DEF PermitsConserved
<1>. QED  BY <1>1, <1>2, <1>3

LEMMA PermitsAuthenticate ==
  ASSUME TypeOK, TaskInv, PermitsConserved, NEW s \in Streams, Authenticate(s)
  PROVE  PermitsConserved'
<1> USE DEF loopVars, taskVars
<1>1. PICK k \in Authenticated(req[s].token) :
        \/ /\ ClientPermit(k)
           /\ quota' = IF ClientLimit[k] > 0
                       THEN [quota EXCEPT ![k] = @ - 1] ELSE quota
           /\ tenant' = [tenant EXCEPT ![s] = k]
           /\ stage' = [stage EXCEPT ![s] = "resolving"]
        \/ /\ stage' = [stage EXCEPT ![s] = "refusing"]
           /\ UNCHANGED <<quota, tenant>>
  BY DEF Authenticate, Fail
<1>2. k \in Clients /\ k # NoClient
  BY ConstantAssumption DEF Authenticated
<1>3. /\ UNCHANGED <<owner, free>>
      /\ stage[s] = "spawned" /\ stage[s] \in Serving /\ tenant[s] = NoClient
      /\ \A x \in Streams \ {s} : stage'[x] = stage[x] /\ tenant'[x] = tenant[x]
  BY <1>1 DEF Authenticate, TypeOK, TaskInv, Serving
<1>4. CASE stage' = [stage EXCEPT ![s] = "refusing"] /\ UNCHANGED <<quota, tenant>>
  <2>1. stage'[s] \in Serving
    BY <1>4 DEF TypeOK, Serving
  <2>. QED  BY <1>3, <1>4, <2>1, PermitsKept
<1>5. CASE /\ ClientPermit(k)
           /\ quota' = IF ClientLimit[k] > 0
                       THEN [quota EXCEPT ![k] = @ - 1] ELSE quota
           /\ tenant' = [tenant EXCEPT ![s] = k]
           /\ stage' = [stage EXCEPT ![s] = "resolving"]
  <2>1. stage'[s] \in Serving /\ tenant'[s] = k
    BY <1>5 DEF TypeOK, Serving
  <2>2. \A c \in Conns : Cardinality(ServedOn(c)') = Cardinality(ServedOn(c))
    <3>1. \A c \in Conns : s \in ServedOn(c) <=> s \in ServedOn(c)'
      BY <1>3, <2>1 DEF ServedOn
    <3>. QED  BY <1>3, <3>1, StepCards
  <2>3. ASSUME NEW l \in Clients, ClientLimit[l] > 0
        PROVE  quota'[l] + Cardinality(ServedFor(l)') = ClientLimit[l]
    <3>1. quota[l] \in Nat /\ ClientLimit[l] \in Nat
      BY ConstantAssumption DEF TypeOK
    <3>2. quota[l] + Cardinality(ServedFor(l)) = ClientLimit[l]
      BY <2>3 DEF PermitsConserved
    <3>3. CASE l = k
      <4>1. s \notin ServedFor(l) /\ s \in ServedFor(l)'
        BY <1>2, <1>3, <2>1, <3>3 DEF ServedFor, HoldsClient
      <4>2. Cardinality(ServedFor(l)') = Cardinality(ServedFor(l)) + 1
            /\ Cardinality(ServedFor(l)) \in Nat
        BY <1>3, <4>1, StepCards
      <4>3. quota'[l] = quota[l] - 1
        BY <1>5, <2>3, <3>3 DEF TypeOK
      <4>. QED  BY <3>1, <3>2, <4>2, <4>3
    <3>4. CASE l # k
      <4>1. s \notin ServedFor(l) /\ s \notin ServedFor(l)'
        BY <1>2, <1>3, <2>1, <3>4 DEF ServedFor, HoldsClient
      <4>2. Cardinality(ServedFor(l)') = Cardinality(ServedFor(l))
        BY <1>3, <4>1, StepCards
      <4>3. quota'[l] = quota[l]
        BY <1>2, <1>5, <3>4 DEF TypeOK
      <4>. QED  BY <3>2, <4>2, <4>3
    <3>. QED  BY <3>3, <3>4
  <2>. QED  BY <1>3, <2>2, <2>3 DEF PermitsConserved
<1>. QED  BY <1>1, <1>4, <1>5

-----------------------------------------------------------------------------
(* Counters *)

LEMMA StageCards ==
  ASSUME TypeOK, NEW s \in Streams, NEW S,
         \A x \in Streams \ {s} : stage'[x] = stage[x]
  PROVE  /\ Cardinality(InStage(S)) \in Nat /\ Cardinality(InStage(S)') \in Nat
         /\ stage[s] \in S /\ stage'[s] \notin S =>
              Cardinality(InStage(S)) = Cardinality(InStage(S)') + 1
         /\ stage[s] \notin S /\ stage'[s] \in S =>
              Cardinality(InStage(S)') = Cardinality(InStage(S)) + 1
         /\ (stage[s] \in S <=> stage'[s] \in S) =>
              Cardinality(InStage(S)') = Cardinality(InStage(S))
<1>1. /\ InStage(S) \in SUBSET Streams /\ InStage(S)' \in SUBSET Streams
      /\ InStage(S) \ {s} = InStage(S)' \ {s}
      /\ s \in InStage(S) <=> stage[s] \in S
      /\ s \in InStage(S)' <=> stage'[s] \in S
  BY DEF InStage
<1>2. ASSUME NEW A \in SUBSET Streams, NEW B \in SUBSET Streams, A \ {s} = B \ {s}
      PROVE  /\ Cardinality(A) \in Nat /\ Cardinality(B) \in Nat
             /\ s \in A /\ s \notin B => Cardinality(A) = Cardinality(B) + 1
             /\ s \notin A /\ s \in B => Cardinality(B) = Cardinality(A) + 1
             /\ (s \in A <=> s \in B) => Cardinality(A) = Cardinality(B)
  BY <1>2, FlipCount
<1>. QED  BY <1>1, <1>2

\* A step between stages no counter is about, leaving the three counters alone.
LEMMA CountersKept ==
  ASSUME TypeOK, CountersExact, NEW s \in Streams,
         \A x \in Streams \ {s} : stage'[x] = stage[x],
         \A x \in {"tunnels_active", "tunnels_opened", "tunnels_failed"} :
           metrics'[x] = metrics[x],
         \A S \in {Relaying, Relaying \cup {"ended"}, {"refusing", "refused"}} :
           stage[s] \in S <=> stage'[s] \in S
  PROVE  CountersExact'
BY StageCards DEF CountersExact, GaugeExact, FailuresExact

LEMMA CountersFail ==
  ASSUME TypeOK, CountersExact, NEW s \in Streams,
         stage[s] \in {"spawned", "resolving", "dialling"},
         NEW cause \in {"handshake_denied", "over_limit", "target_denied",
                        "dial_failed", "dial_timeout"},
         Fail(s, cause)
  PROVE  CountersExact'
<1>1. \A x \in Streams \ {s} : stage'[x] = stage[x]
  BY DEF Fail, TypeOK
<1>2. stage'[s] = "refusing"
  BY DEF Fail, TypeOK
<1>3. /\ metrics'["tunnels_active"] = metrics["tunnels_active"]
      /\ metrics'["tunnels_opened"] = metrics["tunnels_opened"]
      /\ metrics'["tunnels_failed"] = metrics["tunnels_failed"] + 1
  BY DEF Fail, TypeOK, Counters
<1>4. /\ Cardinality(InStage(Relaying)') = Cardinality(InStage(Relaying))
      /\ Cardinality(InStage(Relaying \cup {"ended"})') = Cardinality(InStage(Relaying \cup {"ended"}))
      /\ Cardinality(InStage({"refusing", "refused"})')
           = Cardinality(InStage({"refusing", "refused"})) + 1
  BY <1>1, <1>2, StageCards DEF Relaying
<1>. QED  BY <1>3, <1>4 DEF CountersExact, GaugeExact, FailuresExact

LEMMA CountersOpen ==
  ASSUME TypeOK, CountersExact, NEW s \in Streams, WriteOk(s)
  PROVE  CountersExact'
<1>1. /\ \A x \in Streams \ {s} : stage'[x] = stage[x]
      /\ stage[s] = "accepting" /\ stage'[s] = "open"
  BY DEF WriteOk, TypeOK
<1>2. /\ metrics'["tunnels_active"] = metrics["tunnels_active"] + 1
      /\ metrics'["tunnels_opened"] = metrics["tunnels_opened"] + 1
      /\ metrics'["tunnels_failed"] = metrics["tunnels_failed"]
  BY DEF WriteOk, TypeOK, Counters
<1>3. /\ Cardinality(InStage(Relaying)') = Cardinality(InStage(Relaying)) + 1
      /\ Cardinality(InStage(Relaying \cup {"ended"})') = Cardinality(InStage(Relaying \cup {"ended"})) + 1
      /\ Cardinality(InStage({"refusing", "refused"})') = Cardinality(InStage({"refusing", "refused"}))
  BY <1>1, StageCards DEF Relaying
<1>. QED  BY <1>2, <1>3 DEF CountersExact, GaugeExact, FailuresExact

\* The gauge is at least 1 while s is open, so the saturating decrement is exact.
LEMMA CountersClose ==
  ASSUME TypeOK, CountersExact, NEW s \in Streams, TunnelEnds(s)
  PROVE  CountersExact'
<1>1. /\ \A x \in Streams \ {s} : stage'[x] = stage[x]
      /\ stage[s] \in Relaying /\ stage'[s] = "ended"
  BY DEF TunnelEnds, TypeOK
<1>3. /\ Cardinality(InStage(Relaying)) = Cardinality(InStage(Relaying)') + 1
      /\ Cardinality(InStage(Relaying)') \in Nat
      /\ Cardinality(InStage(Relaying \cup {"ended"})') = Cardinality(InStage(Relaying \cup {"ended"}))
      /\ Cardinality(InStage({"refusing", "refused"})') = Cardinality(InStage({"refusing", "refused"}))
  BY <1>1, StageCards DEF Relaying
<1>4. metrics["tunnels_active"] > 0
  BY <1>3 DEF CountersExact, GaugeExact
<1>2. /\ metrics'["tunnels_active"] = metrics["tunnels_active"] - 1
      /\ metrics'["tunnels_opened"] = metrics["tunnels_opened"]
      /\ metrics'["tunnels_failed"] = metrics["tunnels_failed"]
  BY <1>4 DEF TunnelEnds, TypeOK, Counters
<1>. QED  BY <1>2, <1>3 DEF CountersExact, GaugeExact, FailuresExact

-----------------------------------------------------------------------------
(* Queues and task data *)

\* A step of a stream that is not queued leaves the queues as they were.
LEMMA QueueKept ==
  ASSUME QueueInv, NEW s \in Streams, UNCHANGED <<queue, owner>>,
         stage[s] # "queued",
         \A x \in Streams \ {s} : stage'[x] = stage[x]
  PROVE  QueueInv'
BY DEF QueueInv

\* What an append leaves and adds.
LEMMA AppendFacts ==
  ASSUME NEW S, NEW q \in Seq(S), NEW e \in S
  PROVE  /\ Len(Append(q, e)) = Len(q) + 1 /\ Len(q) \in Nat
         /\ Append(q, e)[Len(q) + 1] = e
         /\ \A j \in 1..Len(q) : Append(q, e)[j] = q[j]
  OBVIOUS

LEMMA QueueOpened ==
  ASSUME TypeOK, QueueInv, NEW s \in Streams, OpenStream(s)
  PROVE  QueueInv'
<1>1. /\ owner' = owner /\ owner[s] \in Conns
      /\ stage[s] = "unopened" /\ stage'[s] = "queued"
      /\ \A x \in Streams \ {s} : stage'[x] = stage[x]
      /\ \A c \in Conns : queue[c] \in Seq(Streams)
      /\ \A c \in Conns : queue'[c] = IF c = owner[s] THEN Append(queue[c], s) ELSE queue[c]
  BY DEF OpenStream, TypeOK
<1>2. \A c \in Conns : \A i \in 1..Len(queue[c]) : queue[c][i] # s
  BY <1>1 DEF QueueInv
<1>3. ASSUME NEW c \in Conns, NEW i \in 1..Len(queue'[c])
      PROVE  /\ queue'[c][i] \in Streams
             /\ stage'[queue'[c][i]] = "queued"
             /\ owner'[queue'[c][i]] = c
             /\ \A j \in 1..Len(queue'[c]) : queue'[c][i] = queue'[c][j] => i = j
  <2>1. CASE c # owner[s]
    BY <1>1, <1>2, <1>3, <2>1 DEF QueueInv
  <2>2. CASE c = owner[s]
    <3>1. /\ Len(queue'[c]) = Len(queue[c]) + 1 /\ Len(queue[c]) \in Nat
          /\ queue'[c][Len(queue[c]) + 1] = s
          /\ \A j \in 1..Len(queue[c]) : queue'[c][j] = queue[c][j]
      <4>1. queue[c] \in Seq(Streams) /\ queue'[c] = Append(queue[c], s)
        BY <1>1, <2>2
      <4>. QED  BY <4>1, AppendFacts
    <3>2. CASE i \in 1..Len(queue[c])
      <4>1. /\ queue'[c][i] = queue[c][i] /\ queue[c][i] \in Streams \ {s}
            /\ stage[queue[c][i]] = "queued" /\ owner[queue[c][i]] = c
            /\ \A j \in 1..Len(queue[c]) : queue[c][i] = queue[c][j] => i = j
        BY <1>2, <3>1, <3>2 DEF QueueInv
      <4>2. \A j \in 1..Len(queue'[c]) : j \in 1..Len(queue[c]) \/ queue'[c][j] = s
        BY <3>1
      <4>. QED  BY <1>1, <3>1, <4>1, <4>2
    <3>3. CASE i = Len(queue[c]) + 1
      <4>1. queue'[c][i] = s
        BY <3>1, <3>3
      <4>2. \A j \in 1..Len(queue'[c]) : queue'[c][j] = s => j = i
        BY <1>2, <3>1, <3>3
      <4>. QED  BY <1>1, <2>2, <4>1, <4>2
    <3>. QED  BY <3>1, <3>2, <3>3
  <2>. QED  BY <2>1, <2>2
<1>. QED  BY <1>3 DEF QueueInv

LEMMA QueueAccepted ==
  ASSUME TypeOK, QueueInv, NEW c \in Conns, AcceptBi(c)
  PROVE  /\ QueueInv'
         /\ Head(queue[c]) \in Streams /\ stage[Head(queue[c])] = "queued"
<1>1. /\ queue[c] \in Seq(Streams) /\ queue[c] # <<>>
      /\ owner' = owner
      /\ stage' = [stage EXCEPT ![Head(queue[c])] = "reading"]
      /\ \A d \in Conns : queue'[d] = IF d = c THEN Tail(queue[c]) ELSE queue[d]
  BY DEF AcceptBi, TypeOK
<1>2. /\ Head(queue[c]) = queue[c][1] /\ Len(queue[c]) \in Nat /\ 1 \in 1..Len(queue[c])
      /\ Len(Tail(queue[c])) = Len(queue[c]) - 1
      /\ \A i \in 1..Len(Tail(queue[c])) : Tail(queue[c])[i] = queue[c][i + 1]
  BY <1>1
<1>3. /\ Head(queue[c]) \in Streams /\ stage[Head(queue[c])] = "queued"
      /\ owner[Head(queue[c])] = c
  BY <1>2 DEF QueueInv
<1>4. ASSUME NEW d \in Conns, NEW i \in 1..Len(queue'[d])
      PROVE  /\ queue'[d][i] \in Streams
             /\ stage'[queue'[d][i]] = "queued"
             /\ owner'[queue'[d][i]] = d
             /\ \A j \in 1..Len(queue'[d]) : queue'[d][i] = queue'[d][j] => i = j
  <2>1. CASE d # c
    <3>1. queue'[d] = queue[d]
      BY <1>1, <2>1
    <3>2. queue[d][i] \in Streams /\ queue[d][i] # Head(queue[c])
      BY <1>3, <1>4, <2>1, <3>1 DEF QueueInv
    <3>3. stage'[queue[d][i]] = stage[queue[d][i]]
      BY <1>1, <3>2 DEF TypeOK
    <3>. QED  BY <1>1, <1>4, <3>1, <3>2, <3>3 DEF QueueInv
  <2>2. CASE d = c
    <3>1. /\ i \in Nat /\ i + 1 \in 1..Len(queue[c]) /\ i + 1 # 1
          /\ queue'[d][i] = queue[c][i + 1]
      <4>1. queue'[d] = Tail(queue[c])
        BY <1>1, <2>2
      <4>2. i \in 1..(Len(queue[c]) - 1)
        BY <1>2, <1>4, <4>1
      <4>. QED  BY <1>2, <4>1, <4>2
    <3>2. queue[c][i + 1] \in Streams /\ queue[c][i + 1] # Head(queue[c])
      BY <1>2, <3>1 DEF QueueInv
    <3>3. stage'[queue[c][i + 1]] = stage[queue[c][i + 1]]
      BY <1>1, <3>2 DEF TypeOK
    <3>4. stage'[queue'[d][i]] = "queued" /\ owner'[queue'[d][i]] = d
      BY <1>1, <2>2, <3>1, <3>3 DEF QueueInv
    <3>5. ASSUME NEW j \in 1..Len(queue'[d]), queue'[d][i] = queue'[d][j]
          PROVE  i = j
      <4>1. j \in Nat /\ j + 1 \in 1..Len(queue[c]) /\ queue'[d][j] = queue[c][j + 1]
        <5>1. queue'[d] = Tail(queue[c])
          BY <1>1, <2>2
        <5>2. j \in 1..(Len(queue[c]) - 1)
          BY <1>2, <3>5, <5>1
        <5>. QED  BY <1>2, <5>1, <5>2
      <4>2. i + 1 = j + 1
        <5>1. queue[c][i + 1] = queue[c][j + 1]
          BY <3>1, <3>5, <4>1
        <5>. QED  BY <3>1, <4>1, <5>1 DEF QueueInv
      <4>. QED  BY <3>1, <4>1, <4>2
    <3>. QED  BY <3>1, <3>2, <3>4, <3>5
  <2>. QED  BY <2>1, <2>2
<1>. QED  BY <1>3, <1>4 DEF QueueInv

DataInv == TaskInv /\ DialInv

\* What has to be shown for the one stream a step moves.
TaskOf(s) ==
  /\ stage[s] \in Serving => req[s] \in Requests
  /\ stage[s] \in {"unopened", "queued", "reading", "spawned"} => tenant[s] = NoClient
  /\ stage[s] \in {"resolving", "dialling", "accepting"} \cup Relaying => tenant[s] \in Clients
  /\ tenant[s] # NoClient => /\ req[s] \in Requests
                             /\ tenant[s] \in Authenticated(req[s].token)
  /\ todo[s] # {} =>
       tenant[s] # NoClient /\ todo[s] \subseteq Allowed(tenant[s], req[s].port, Addrs)
  /\ dialled[s] # NoAddr =>
       tenant[s] # NoClient /\ dialled[s] \in Allowed(tenant[s], req[s].port, Addrs)
  /\ stage[s] \in {"unopened", "queued", "reading", "spawned", "resolving"} =>
       todo[s] = {} /\ dialled[s] = NoAddr

LEMMA DataOf == DataInv => \A s \in Streams : TaskOf(s)
BY DEF DataInv, TaskInv, DialInv, TaskOf

LEMMA DataKept ==
  ASSUME DataInv, NEW s \in Streams, TaskOf(s)',
         \A x \in Streams \ {s} : /\ stage'[x] = stage[x] /\ tenant'[x] = tenant[x]
                                   /\ req'[x] = req[x] /\ todo'[x] = todo[x]
                                   /\ dialled'[x] = dialled[x]
  PROVE  DataInv'
<1> SUFFICES ASSUME NEW x \in Streams  PROVE TaskOf(x)'
  BY DEF DataInv, TaskInv, DialInv, TaskOf
<1>1. CASE x = s
  BY <1>1
<1>2. CASE x # s
  BY <1>2, DataOf DEF TaskOf
<1>. QED  BY <1>1, <1>2

-----------------------------------------------------------------------------
(* The inductive step, one action at a time *)

LEMMA QueueAcceptedStep ==
  ASSUME IInv, NEW c \in Conns, AcceptBi(c)
  PROVE  QueueInv' /\ DataInv' /\ PermitsConserved' /\ CountersExact'
<1>0. QueueInv' /\ Head(queue[c]) \in Streams /\ stage[Head(queue[c])] = "queued"
  BY QueueAccepted DEF IInv
<1>1. PICK s \in Streams : s = Head(queue[c]) /\ stage[s] = "queued"
  BY <1>0
<1>2. /\ stage'[s] = "reading"
      /\ \A x \in Streams \ {s} : stage'[x] = stage[x]
      /\ UNCHANGED <<owner, tenant, req, todo, dialled, free, quota, metrics>>
  BY <1>1 DEF AcceptBi, IInv, TypeOK, taskVars
<1>3. DataInv'
  <2>1. TaskOf(s)
    BY <1>1, DataOf DEF IInv, DataInv
  <2>2. TaskOf(s)'
    BY <1>1, <1>2, <2>1 DEF TaskOf, Serving, Relaying
  <2>. QED  BY <1>1, <1>2, <2>2, DataKept DEF IInv, DataInv
<1>4. PermitsConserved'
  BY <1>1, <1>2, PermitsKept DEF IInv, Serving
<1>5. CountersExact'
  BY <1>1, <1>2, CountersKept DEF IInv, Relaying
<1>. QED  BY <1>0, <1>3, <1>4, <1>5

LEMMA OpenStep ==
  ASSUME IInv, NEW s \in Streams, OpenStream(s)
  PROVE  QueueInv' /\ DataInv' /\ PermitsConserved' /\ CountersExact'
<1>1. /\ stage[s] = "unopened" /\ stage'[s] = "queued"
      /\ \A x \in Streams \ {s} : stage'[x] = stage[x]
      /\ UNCHANGED <<owner, tenant, req, todo, dialled, free, quota, metrics>>
  BY DEF OpenStream, IInv, TypeOK, taskVars
<1>2. DataInv'
  <2>1. TaskOf(s)
    BY DataOf DEF IInv, DataInv
  <2>2. TaskOf(s)'
    BY <1>1, <2>1 DEF TaskOf, Serving, Relaying
  <2>. QED  BY <1>1, <2>2, DataKept DEF IInv, DataInv
<1>3. PermitsConserved'
  BY <1>1, PermitsKept DEF IInv, Serving
<1>4. CountersExact'
  BY <1>1, CountersKept DEF IInv, Relaying
<1>. QED  BY <1>2, <1>3, <1>4, QueueOpened DEF IInv

\* The header is read: three outcomes.
LEMMA HeaderStep ==
  ASSUME IInv, NEW s \in Streams, Header(s)
  PROVE  QueueInv' /\ DataInv' /\ PermitsConserved' /\ CountersExact'
<1>1. /\ stage[s] = "reading"
      /\ stage'[s] \in {"unreadable", "registered", "spawned", "dropped"}
      /\ stage'[s] = "spawned" => req'[s] \in Requests
      /\ \A x \in Streams \ {s} : stage'[x] = stage[x] /\ req'[x] = req[x]
      /\ UNCHANGED <<queue, owner, tenant, todo, dialled, quota>>
  BY DEF Header, HeaderUnreadable, HandleRegister, SpawnOrDrop, IInv, TypeOK, taskVars
<1>2. QueueInv'
  BY <1>1, QueueKept DEF IInv
<1>3. DataInv'
  <2>1. TaskOf(s)
    BY DataOf DEF IInv, DataInv
  <2>2. TaskOf(s)'
    BY <1>1, <2>1 DEF TaskOf, Serving, Relaying
  <2>. QED  BY <1>1, <2>2, DataKept DEF IInv, DataInv
<1>4. PermitsConserved'
  <2>1. CASE SpawnOrDrop(s)
    BY <2>1, PermitsSpawn DEF IInv
  <2>2. CASE HeaderUnreadable(s) \/ HandleRegister(s)
    <3>1. free' = free /\ stage'[s] \in {"unreadable", "registered"}
      BY <2>2 DEF HeaderUnreadable, HandleRegister, IInv, TypeOK
    <3>. QED  BY <1>1, <3>1, PermitsKept DEF IInv, Serving
  <2>. QED  BY <2>1, <2>2 DEF Header
<1>5. CountersExact'
  <2>1. \A x \in {"tunnels_active", "tunnels_opened", "tunnels_failed"} :
          metrics'[x] = metrics[x]
    BY DEF Header, HeaderUnreadable, HandleRegister, SpawnOrDrop, Count, IInv, TypeOK, Counters
  <2>. QED  BY <1>1, <2>1, CountersKept DEF IInv, Relaying
<1>. QED  BY <1>2, <1>3, <1>4, <1>5

\* A task that fails goes on to write its status.
LEMMA FailStep ==
  ASSUME IInv, NEW s \in Streams,
         stage[s] \in {"spawned", "resolving", "dialling"},
         NEW cause \in {"handshake_denied", "over_limit", "target_denied",
                        "dial_failed", "dial_timeout"},
         Fail(s, cause),
         UNCHANGED <<queue, owner, tenant, req, dialled, free, quota>>,
         \A x \in Streams \ {s} : todo'[x] = todo[x],
         todo'[s] \subseteq todo[s]
  PROVE  QueueInv' /\ DataInv' /\ PermitsConserved' /\ CountersExact'
<1>1. /\ stage'[s] = "refusing"
      /\ \A x \in Streams \ {s} : stage'[x] = stage[x]
  BY DEF Fail, IInv, TypeOK
<1>2. QueueInv'
  BY <1>1, QueueKept DEF IInv
<1>3. DataInv'
  <2>1. TaskOf(s)
    BY DataOf DEF IInv, DataInv
  <2>2. TaskOf(s)'
    BY <1>1, <2>1 DEF TaskOf, Serving, Relaying
  <2>. QED  BY <1>1, <2>2, DataKept DEF IInv, DataInv
<1>4. PermitsConserved'
  BY <1>1, PermitsKept DEF IInv, Serving
<1>5. CountersExact'
  BY CountersFail DEF IInv
<1>. QED  BY <1>2, <1>3, <1>4, <1>5

LEMMA AuthenticateStep ==
  ASSUME IInv, NEW s \in Streams, Authenticate(s)
  PROVE  QueueInv' /\ DataInv' /\ PermitsConserved' /\ CountersExact'
<1> USE DEF loopVars, taskVars
<1>1. PICK k \in Authenticated(req[s].token) :
        \/ /\ tenant' = [tenant EXCEPT ![s] = k]
           /\ stage' = [stage EXCEPT ![s] = "resolving"]
           /\ UNCHANGED metrics
        \/ /\ Fail(s, "over_limit")
           /\ UNCHANGED <<quota, tenant>>
  BY DEF Authenticate
<1>2. /\ stage[s] = "spawned"
      /\ UNCHANGED <<queue, owner, req, todo, dialled, free>>
  BY DEF Authenticate
<1>3. CASE Fail(s, "over_limit") /\ UNCHANGED <<quota, tenant>>
  <2>1. "over_limit" \in {"handshake_denied", "over_limit", "target_denied",
                          "dial_failed", "dial_timeout"}
    OBVIOUS
  <2>. QED  BY <1>2, <1>3, <2>1, FailStep
<1>4. CASE /\ tenant' = [tenant EXCEPT ![s] = k]
           /\ stage' = [stage EXCEPT ![s] = "resolving"]
           /\ UNCHANGED metrics
  <2>1. /\ stage'[s] = "resolving" /\ tenant'[s] = k
        /\ \A x \in Streams \ {s} : stage'[x] = stage[x] /\ tenant'[x] = tenant[x]
    BY <1>4 DEF IInv, TypeOK
  <2>2. k \in Clients /\ k # NoClient
    BY ConstantAssumption DEF Authenticated
  <2>3. QueueInv'
    BY <1>2, <2>1, QueueKept DEF IInv
  <2>4. DataInv'
    <3>1. TaskOf(s)
      BY DataOf DEF IInv, DataInv
    <3>2. Authenticated(req[s].token)' = Authenticated(req[s].token)
      BY <1>2 DEF Authenticated
    <3>3. TaskOf(s)'
      BY <1>2, <2>1, <2>2, <3>1, <3>2 DEF TaskOf, Serving
    <3>. QED  BY <1>2, <2>1, <3>3, DataKept DEF IInv, DataInv
  <2>5. PermitsConserved'
    BY PermitsAuthenticate DEF IInv
  <2>6. CountersExact'
    BY <1>2, <1>4, <2>1, CountersKept DEF IInv, Relaying
  <2>. QED  BY <2>3, <2>4, <2>5, <2>6
<1>. QED  BY <1>1, <1>3, <1>4

\* The filter works on the answer found, so what it keeps is allowed.
LEMMA ResolveStep ==
  ASSUME IInv, NEW s \in Streams, ResolveAllowed(s)
  PROVE  QueueInv' /\ DataInv' /\ PermitsConserved' /\ CountersExact'
<1> USE DEF loopVars, taskVars
<1>1. PICK found \in SUBSET Addrs :
        LET allowed == Allowed(tenant[s], req[s].port, found) IN
        \/ /\ todo' = [todo EXCEPT ![s] = allowed]
           /\ stage' = [stage EXCEPT ![s] = "dialling"]
           /\ UNCHANGED metrics
        \/ /\ Fail(s, "target_denied")
           /\ UNCHANGED todo
  BY DEF ResolveAllowed
<1>2. /\ stage[s] = "resolving"
      /\ UNCHANGED <<queue, owner, req, tenant, dialled, free, quota>>
  BY DEF ResolveAllowed
<1>3. CASE Fail(s, "target_denied") /\ UNCHANGED todo
  BY <1>2, <1>3, FailStep
<1>4. CASE /\ todo' = [todo EXCEPT ![s] = Allowed(tenant[s], req[s].port, found)]
           /\ stage' = [stage EXCEPT ![s] = "dialling"]
           /\ UNCHANGED metrics
  <2>1. /\ stage'[s] = "dialling" /\ todo'[s] = Allowed(tenant[s], req[s].port, found)
        /\ \A x \in Streams \ {s} : stage'[x] = stage[x] /\ todo'[x] = todo[x]
    BY <1>4 DEF IInv, TypeOK
  <2>2. QueueInv'
    BY <1>2, <2>1, QueueKept DEF IInv
  <2>3. DataInv'
    <3>1. TaskOf(s)
      BY DataOf DEF IInv, DataInv
    <3>2. todo'[s] \subseteq Allowed(tenant[s], req[s].port, Addrs)
      BY <2>1 DEF Allowed
    <3>3. tenant[s] \in Clients /\ tenant[s] # NoClient
      BY <1>2, <3>1, ConstantAssumption DEF TaskOf
    <3>4. Allowed(tenant[s], req[s].port, Addrs)' = Allowed(tenant[s], req[s].port, Addrs)
          /\ Authenticated(req[s].token)' = Authenticated(req[s].token)
      BY <1>2
    <3>5. TaskOf(s)'
      BY <1>2, <2>1, <3>1, <3>2, <3>3, <3>4 DEF TaskOf, Serving
    <3>. QED  BY <1>2, <2>1, <3>5, DataKept DEF IInv, DataInv
  <2>4. PermitsConserved'
    BY <1>2, <2>1, PermitsKept DEF IInv, Serving
  <2>5. CountersExact'
    BY <1>2, <1>4, <2>1, CountersKept DEF IInv, Relaying
  <2>. QED  BY <2>2, <2>3, <2>4, <2>5
<1>. QED  BY <1>1, <1>3, <1>4

\* Only an address that is still to be dialled can be connected to.
LEMMA DialStep ==
  ASSUME IInv, NEW s \in Streams, DialSucceeds(s)
  PROVE  QueueInv' /\ DataInv' /\ PermitsConserved' /\ CountersExact'
<1> USE DEF loopVars, taskVars
<1>1. PICK a \in todo[s] : dialled' = [dialled EXCEPT ![s] = a]
  BY DEF DialSucceeds
<1>2. /\ stage[s] = "dialling" /\ stage'[s] = "accepting" /\ dialled'[s] = a
      /\ \A x \in Streams \ {s} : stage'[x] = stage[x] /\ dialled'[x] = dialled[x]
      /\ UNCHANGED <<queue, owner, req, tenant, todo, free, quota, metrics>>
  BY <1>1 DEF DialSucceeds, IInv, TypeOK
<1>3. QueueInv'
  BY <1>2, QueueKept DEF IInv
<1>4. DataInv'
  <2>1. TaskOf(s)
    BY DataOf DEF IInv, DataInv
  <2>2. tenant[s] # NoClient /\ a \in Allowed(tenant[s], req[s].port, Addrs)
    BY <1>1, <2>1 DEF TaskOf
  <2>3. TaskOf(s)'
    BY <1>2, <2>1, <2>2 DEF TaskOf, Serving
  <2>. QED  BY <1>2, <2>3, DataKept DEF IInv, DataInv
<1>5. PermitsConserved'
  BY <1>2, PermitsKept DEF IInv, Serving
<1>6. CountersExact'
  BY <1>2, CountersKept DEF IInv, Relaying
<1>. QED  BY <1>3, <1>4, <1>5, <1>6

LEMMA TcpFailStep ==
  ASSUME IInv, NEW s \in Streams, TcpDialFails(s)
  PROVE  QueueInv' /\ DataInv' /\ PermitsConserved' /\ CountersExact'
<1> USE DEF loopVars, taskVars
<1>1. PICK a \in todo[s] :
        /\ todo' = [todo EXCEPT ![s] = @ \ {a}]
        /\ \/ UNCHANGED <<stage, metrics>>
           \/ \E cause \in {"dial_timeout", "dial_failed"} : Fail(s, cause)
  BY DEF TcpDialFails
<1>2. /\ stage[s] = "dialling"
      /\ \A x \in Streams \ {s} : todo'[x] = todo[x]
      /\ todo'[s] \subseteq todo[s]
      /\ UNCHANGED <<queue, owner, req, tenant, dialled, free, quota>>
  BY <1>1 DEF TcpDialFails, IInv, TypeOK
<1>3. CASE \E cause \in {"dial_timeout", "dial_failed"} : Fail(s, cause)
  BY <1>2, <1>3, FailStep
<1>4. CASE UNCHANGED <<stage, metrics>>
  <2>1. DataInv'
    <3>1. TaskOf(s)
      BY DataOf DEF IInv, DataInv
    <3>2. TaskOf(s)'
      BY <1>2, <1>4, <3>1 DEF TaskOf, Serving
    <3>. QED  BY <1>2, <1>4, <3>2, DataKept DEF IInv, DataInv
  <2>2. QueueInv'
    BY <1>2, <1>4, QueueKept DEF IInv
  <2>3. PermitsConserved'
    BY <1>2, <1>4, PermitsKept DEF IInv
  <2>4. CountersExact'
    BY <1>4, <1>2, CountersKept DEF IInv
  <2>. QED  BY <2>1, <2>2, <2>3, <2>4
<1>. QED  BY <1>1, <1>3, <1>4

LEMMA OpenTunnelStep ==
  ASSUME IInv, NEW s \in Streams, WriteOk(s)
  PROVE  QueueInv' /\ DataInv' /\ PermitsConserved' /\ CountersExact'
<1>1. /\ stage[s] = "accepting" /\ stage'[s] = "open"
      /\ \A x \in Streams \ {s} : stage'[x] = stage[x]
      /\ UNCHANGED <<queue, owner, req, tenant, todo, dialled, free, quota>>
  BY DEF WriteOk, IInv, TypeOK, loopVars, taskVars
<1>2. QueueInv'
  BY <1>1, QueueKept DEF IInv
<1>3. DataInv'
  <2>1. TaskOf(s)
    BY DataOf DEF IInv, DataInv
  <2>2. TaskOf(s)'
    BY <1>1, <2>1 DEF TaskOf, Serving
  <2>. QED  BY <1>1, <2>2, DataKept DEF IInv, DataInv
<1>4. PermitsConserved'
  BY <1>1, PermitsKept DEF IInv, Serving
<1>. QED  BY <1>2, <1>3, <1>4, CountersOpen DEF IInv

\* The three ways a task ends.
LEMMA EndStep ==
  ASSUME IInv, NEW s \in Streams, WriteOkFails(s) \/ WriteErr(s) \/ TunnelEnds(s)
  PROVE  QueueInv' /\ DataInv' /\ PermitsConserved' /\ CountersExact'
<1>1. /\ \/ stage[s] = "accepting" /\ stage'[s] = "abandoned" /\ metrics' = metrics
         \/ stage[s] = "refusing" /\ stage'[s] = "refused" /\ metrics' = metrics
         \/ stage[s] \in Relaying /\ stage'[s] = "ended" /\ TunnelEnds(s)
      /\ \A x \in Streams \ {s} : stage'[x] = stage[x]
      /\ ReleasePermits(s)
      /\ UNCHANGED <<queue, owner, req, tenant, todo, dialled>>
  BY DEF WriteOkFails, WriteErr, TunnelEnds, IInv, TypeOK, loopVars, taskVars
<1>2. QueueInv'
  BY <1>1, QueueKept DEF IInv, Relaying
<1>3. DataInv'
  <2>1. TaskOf(s)
    BY DataOf DEF IInv, DataInv
  <2>2. TaskOf(s)'
    BY <1>1, <2>1 DEF TaskOf, Serving, Relaying
  <2>. QED  BY <1>1, <2>2, DataKept DEF IInv, DataInv
<1>4. PermitsConserved'
  <2>1. stage[s] \in Serving /\ stage'[s] \notin Serving
    BY <1>1 DEF Serving, Relaying
  <2>. QED  BY <1>1, <2>1, PermitsReleased DEF IInv
<1>5. CountersExact'
  <2>1. CASE TunnelEnds(s)
    BY <2>1, CountersClose DEF IInv
  <2>2. CASE metrics' = metrics /\ stage[s] \in {"accepting", "refusing"}
    BY <1>1, <2>2, CountersKept DEF IInv, Relaying
  <2>. QED  BY <1>1, <2>1, <2>2
<1>. QED  BY <1>2, <1>3, <1>4, <1>5

\* A relay that starts or stops waiting for its target stays one.
LEMMA PauseStep ==
  ASSUME IInv, NEW s \in Streams, Pauses(s)
  PROVE  QueueInv' /\ DataInv' /\ PermitsConserved' /\ CountersExact'
<1>1. /\ stage[s] \in Relaying /\ stage'[s] \in Relaying
      /\ \A x \in Streams \ {s} : stage'[x] = stage[x]
      /\ UNCHANGED <<queue, owner, req, tenant, todo, dialled, free, quota, metrics>>
  BY PauseEffect DEF IInv
<1>2. QueueInv'
  BY <1>1, QueueKept DEF IInv, Relaying
<1>3. DataInv'
  <2>1. TaskOf(s)
    BY DataOf DEF IInv, DataInv
  <2>2. TaskOf(s)'
    BY <1>1, <2>1 DEF TaskOf, Serving, Relaying
  <2>. QED  BY <1>1, <2>2, DataKept DEF IInv, DataInv
<1>4. PermitsConserved'
  BY <1>1, PermitsKept DEF IInv, Serving, Relaying
<1>5. CountersExact'
  BY <1>1, CountersKept DEF IInv, Relaying
<1>. QED  BY <1>2, <1>3, <1>4, <1>5

LEMMA InitIInv == Init => IInv
<1> SUFFICES ASSUME Init  PROVE IInv
  OBVIOUS
<1>1. TypeOK
  BY ConstantAssumption DEF Init, TypeOK, Stages, Counters, Serving
<1>2. \A c \in Conns : queue[c] = <<>>
  BY DEF Init
<1>3. QueueInv
  BY <1>2 DEF QueueInv
<1>4. DataInv
  BY DEF Init, DataInv, TaskInv, DialInv, Serving, Relaying
<1>5. /\ \A c \in Conns : ServedOn(c) = {}
      /\ \A k \in Clients : ServedFor(k) = {}
      /\ \A S \in {Relaying, Relaying \cup {"ended"}, {"refusing", "refused"}} : InStage(S) = {}
  BY DEF Init, ServedOn, ServedFor, HoldsClient, InStage, Serving, Relaying
<1>6. PermitsConserved
  <2>1. Cardinality({}) = 0
    BY FS_EmptySet
  <2>2. ConnLimit \in Nat /\ ClientLimit \in [Clients -> Nat]
    BY ConstantAssumption
  <2>3. quota = ClientLimit /\ \A c \in Conns : free[c] = ConnLimit
    BY DEF Init
  <2>4. ASSUME NEW c \in Conns  PROVE free[c] + Cardinality(ServedOn(c)) = ConnLimit
    <3>1. Cardinality(ServedOn(c)) = 0 /\ free[c] = ConnLimit
      BY <1>5, <2>1, <2>3
    <3>. QED  BY <2>2, <3>1
  <2>5. ASSUME NEW k \in Clients  PROVE quota[k] + Cardinality(ServedFor(k)) = ClientLimit[k]
    <3>1. Cardinality(ServedFor(k)) = 0 /\ quota[k] = ClientLimit[k]
      BY <1>5, <2>1, <2>3
    <3>2. ClientLimit[k] \in Nat
      BY <2>2
    <3>. QED  BY <3>1, <3>2
  <2>. QED  BY <2>4, <2>5 DEF PermitsConserved
<1>7. CountersExact
  BY <1>5, FS_EmptySet DEF CountersExact, GaugeExact, FailuresExact, Init, Counters
<1>. QED  BY <1>1, <1>3, <1>4, <1>6, <1>7 DEF IInv, DataInv

LEMMA NextIInv == IInv /\ [Next]_vars => IInv'
<1> SUFFICES ASSUME IInv, [Next]_vars  PROVE IInv'
  OBVIOUS
<1>0. TypeOK'
  BY TypeStep DEF IInv
<1> SUFFICES QueueInv' /\ DataInv' /\ PermitsConserved' /\ CountersExact'
  BY <1>0 DEF IInv, DataInv
<1>1. CASE UNCHANGED <<queue, free, quota, stage, owner, taskVars, metrics>>
  BY <1>1 DEF IInv, QueueInv, DataInv, TaskInv, DialInv, PermitsConserved, CountersExact,
     GaugeExact, FailuresExact, ServedOn, ServedFor, HoldsClient, InStage, taskVars
<1>2. CASE UNCHANGED vars
  BY <1>1, <1>2 DEF vars, loopVars
<1>3. ASSUME NEW c \in Conns, Accept(c) \/ LoseConnection(c) \/ LoopEnds(c)
      PROVE  QueueInv' /\ DataInv' /\ PermitsConserved' /\ CountersExact'
  BY <1>1, <1>3 DEF Accept, LoseConnection, LoopEnds
<1>4. ASSUME NEW s \in Streams, DenyToken(s)
      PROVE  QueueInv' /\ DataInv' /\ PermitsConserved' /\ CountersExact'
  BY <1>4, FailStep DEF DenyToken, loopVars, taskVars
<1>5. ASSUME NEW s \in Streams, UdpDialFails(s)
      PROVE  QueueInv' /\ DataInv' /\ PermitsConserved' /\ CountersExact'
  BY <1>5, FailStep DEF UdpDialFails, loopVars, taskVars
<1>. QED
  BY <1>2, <1>3, <1>4, <1>5, QueueAcceptedStep, OpenStep, HeaderStep, AuthenticateStep,
     ResolveStep, DialStep, TcpFailStep, OpenTunnelStep, EndStep, PauseStep
  DEF Next, Loop, Serve, Relay, Pauses

-----------------------------------------------------------------------------
(* Theorems *)

\* The inductive invariant holds for every instance.
LEMMA Inductive == Spec => []IInv
BY InitIInv, NextIInv, PTL DEF Spec

\* Every variable keeps its type (counters never go negative).
THEOREM TypeCorrect == Spec => []TypeOK
<1>1. IInv => TypeOK
  BY DEF IInv
<1>. QED  BY <1>1, Inductive, PTL

\* No permit is leaked or returned twice on any path of the accept loop and of
\* serve_forward.
THEOREM PermitsAreConserved == Spec => []PermitsConserved
<1>1. IInv => PermitsConserved
  BY DEF IInv
<1>. QED  BY <1>1, Inductive, PTL

\* max_streams_per_conn and max_streams are never exceeded.
THEOREM LimitsHold == Spec => []LimitsRespected
<1>1. IInv => LimitsRespected
  <2>1. \A c \in Conns : Cardinality(ServedOn(c)) \in Nat
    BY ConstantAssumption, FS_Subset, FS_CardinalityType DEF ServedOn
  <2>2. \A k \in Clients : Cardinality(ServedFor(k)) \in Nat
    BY ConstantAssumption, FS_Subset, FS_CardinalityType DEF ServedFor
  <2>. QED  BY <2>1, <2>2, ConstantAssumption
            DEF IInv, PermitsConserved, LimitsRespected, TypeOK
<1>. QED  BY <1>1, Inductive, PTL

\* The gauge and the counters of tunnels are exact on every interleaving.
THEOREM CountersAreExact == Spec => []CountersExact
<1>1. IInv => CountersExact
  BY DEF IInv
<1>. QED  BY <1>1, Inductive, PTL

\* No address outside the policy of an authenticated client is connected to.
THEOREM DialsAreAllowed == Spec => []DialAllowed
<1>1. IInv => DialAllowed
  BY DEF IInv, TaskInv, DialInv, DialAllowed, Allowed
<1>. QED  BY <1>1, Inductive, PTL

\* A stream is dropped only by the accept loop that finds no permit left.
LEMMA DroppedByLoop ==
  ASSUME IInv, [Next]_vars, NEW s \in Streams,
         stage[s] = "reading", stage'[s] = "dropped"
  PROVE  ~ConnPermit(s)
<1> USE DEF Fail, Count, Record
<1>1. TypeOK
  BY DEF IInv
<1>2. CASE UNCHANGED vars
  BY <1>2 DEF vars
<1>3. ASSUME NEW c \in Conns, Accept(c) \/ LoseConnection(c) \/ LoopEnds(c) \/ AcceptBi(c)
      PROVE  ~ConnPermit(s)
  BY <1>1, <1>3 DEF Accept, LoseConnection, LoopEnds, AcceptBi, TypeOK
<1>4. ASSUME NEW t \in Streams,
             OpenStream(t) \/ HeaderUnreadable(t) \/ HandleRegister(t) \/ SpawnOrDrop(t)
      PROVE  ~ConnPermit(s)
  BY <1>1, <1>4 DEF OpenStream, HeaderUnreadable, HandleRegister, SpawnOrDrop, TypeOK
<1>5. ASSUME NEW t \in Streams, Serve(t) \/ TunnelEnds(t)
      PROVE  ~ConnPermit(s)
  <2>1. stage[t] # "reading" /\ \A x \in Streams \ {t} : stage'[x] = stage[x]
    BY <1>1, <1>5 DEF Serve, TunnelEnds, DenyToken, Authenticate, ResolveAllowed, DialSucceeds,
       TcpDialFails, UdpDialFails, WriteOk, WriteOkFails, WriteErr, TypeOK, Relaying
  <2>. QED  BY <2>1
<1>6. ASSUME NEW t \in Streams, Pauses(t)  PROVE ~ConnPermit(s)
  BY <1>1, <1>6, PauseEffect DEF Relaying
<1>. QED  BY <1>2, <1>3, <1>4, <1>5, <1>6 DEF Next, Loop, Header, Relay, Pauses

\* An over_limit record is written only by a task that finds no permit of its
\* client left.
LEMMA RefusedByClient ==
  ASSUME IInv, [Next]_vars, NEW s \in Streams,
         audit[s] # "over_limit", audit'[s] = "over_limit"
  PROVE  \E k \in Authenticated(req[s].token) : ~ClientPermit(k)
<1> DEFINE Goal == \E k \in Authenticated(req[s].token) : ~ClientPermit(k)
<1> USE DEF Fail, Count, Record
<1>1. TypeOK
  BY DEF IInv
<1>2. CASE UNCHANGED audit
  BY <1>2
<1>3. ASSUME NEW t \in Streams, Authenticate(t)  PROVE Goal
  <2>1. PICK k \in Authenticated(req[t].token) : ~ClientPermit(k) \/ UNCHANGED audit
    BY <1>3 DEF Authenticate
  <2>2. \A x \in Streams \ {t} : audit'[x] = audit[x]
    BY <1>1, <1>3 DEF Authenticate, TypeOK
  <2>. QED  BY <2>1, <2>2
<1>4. ASSUME NEW t \in Streams,
             DenyToken(t) \/ ResolveAllowed(t) \/ TcpDialFails(t) \/ WriteOk(t)
      PROVE  Goal
  <2>1. UNCHANGED audit \/ \E result \in Results \ {"over_limit"} :
                             audit' = [audit EXCEPT ![t] = result]
    BY <1>4 DEF DenyToken, ResolveAllowed, TcpDialFails, WriteOk, Results
  <2>. QED  BY <1>1, <2>1 DEF TypeOK
<1>. QED
  BY <1>2, <1>3, <1>4 DEF Next, Loop, Header, Serve, vars, Accept, LoseConnection, LoopEnds,
     AcceptBi, OpenStream, HeaderUnreadable, HandleRegister, SpawnOrDrop, DialSucceeds,
     UdpDialFails, WriteOkFails, WriteErr, Relay, TargetStalls, TargetReads, HalfCloses, TunnelEnds

\* A refusal for a limit is issued only while that many tunnels are in service.
THEOREM RefusalsAreJustified == Spec => RefusalsJustified
<1>1. ASSUME IInv, [Next]_vars, NEW s \in Streams,
             stage[s] = "reading", stage'[s] = "dropped"
      PROVE  Cardinality(ServedOn(owner[s])) = ConnLimit
  <2>1. ~ConnPermit(s)
    BY <1>1, DroppedByLoop
  <2>2. owner[s] \in Conns /\ free[owner[s]] \in Nat
    BY <1>1 DEF IInv, TypeOK
  <2>3. Cardinality(ServedOn(owner[s])) \in Nat
    BY ConstantAssumption, FS_Subset, FS_CardinalityType DEF ServedOn
  <2>. QED  BY <1>1, <2>1, <2>2, <2>3, ConstantAssumption
            DEF IInv, PermitsConserved, ConnPermit
<1>2. ASSUME IInv, [Next]_vars, NEW s \in Streams,
             audit[s] # "over_limit", audit'[s] = "over_limit"
      PROVE  \E k \in Authenticated(req[s].token) :
               Cardinality(ServedFor(k)) = ClientLimit[k]
  <2>1. PICK k \in Authenticated(req[s].token) : ~ClientPermit(k)
    BY <1>2, RefusedByClient
  <2>2. k \in Clients /\ quota[k] \in Nat
    BY <1>2, <2>1 DEF Authenticated, IInv, TypeOK
  <2>3. Cardinality(ServedFor(k)) \in Nat
    BY ConstantAssumption, FS_Subset, FS_CardinalityType DEF ServedFor
  <2>4. Cardinality(ServedFor(k)) = ClientLimit[k]
    BY <1>2, <2>1, <2>2, <2>3, ConstantAssumption
    DEF IInv, PermitsConserved, ClientPermit
  <2>. QED  BY <2>1, <2>4
<1>3. IInv /\ [Next]_vars =>
        [\A s \in Streams :
          /\ stage[s] = "reading" /\ stage'[s] = "dropped" =>
               Cardinality(ServedOn(owner[s])) = ConnLimit
          /\ audit[s] # "over_limit" /\ audit'[s] = "over_limit" =>
               \E k \in Authenticated(req[s].token) :
                 Cardinality(ServedFor(k)) = ClientLimit[k]]_vars
  BY <1>1, <1>2
<1>. QED  BY <1>3, Inductive, PTL DEF Spec, RefusalsJustified

-----------------------------------------------------------------------------
(* Refinement: both limits implement Admission *)

\* Of a stream whose task has not authenticated, no refusal is on record.
AuditInv ==
  \A s \in Streams :
    stage[s] \in {"unopened", "queued", "reading", "spawned"} => audit[s] # "over_limit"

LEMMA InitAuditInv == Init => AuditInv
BY DEF Init, AuditInv

LEMMA NextAuditInv == IInv /\ AuditInv /\ [Next]_vars => AuditInv'
<1> SUFFICES ASSUME IInv, AuditInv, [Next]_vars  PROVE AuditInv'
  OBVIOUS
<1>0. TypeOK
  BY DEF IInv
<1> USE <1>0 DEF AuditInv, TypeOK, Fail, Count, Record
<1>1. CASE UNCHANGED vars
  BY <1>1 DEF vars
<1>2. ASSUME NEW c \in Conns, Accept(c) \/ LoseConnection(c) \/ Loop(c)  PROVE AuditInv'
  <2>1. CASE AcceptBi(c)
    <3>1. Head(queue[c]) \in Streams /\ stage[Head(queue[c])] = "queued"
      BY <2>1, QueueAccepted DEF IInv
    <3>. QED  BY <2>1, <3>1 DEF AcceptBi
  <2>2. CASE UNCHANGED <<stage, audit>>
    BY <2>2
  <2>. QED  BY <1>2, <2>1, <2>2 DEF Accept, LoseConnection, Loop, LoopEnds
<1>3. ASSUME NEW s \in Streams, OpenStream(s) \/ Header(s)  PROVE AuditInv'
  BY <1>3 DEF OpenStream, Header, HeaderUnreadable, HandleRegister, SpawnOrDrop
<1>4. ASSUME NEW s \in Streams, Serve(s) \/ TunnelEnds(s)  PROVE AuditInv'
  <2>1. /\ stage'[s] \notin {"unopened", "queued", "reading", "spawned"}
        /\ \A x \in Streams \ {s} : stage'[x] = stage[x] /\ audit'[x] = audit[x]
    <3>1. CASE DenyToken(s) \/ Authenticate(s) \/ UdpDialFails(s)
      BY <3>1 DEF DenyToken, Authenticate, UdpDialFails
    <3>2. CASE ResolveAllowed(s) \/ DialSucceeds(s)
      BY <3>2 DEF ResolveAllowed, DialSucceeds
    <3>3. CASE TcpDialFails(s)
      BY <3>3 DEF TcpDialFails
    <3>4. CASE WriteOk(s) \/ WriteOkFails(s) \/ WriteErr(s) \/ TunnelEnds(s)
      BY <3>4 DEF WriteOk, WriteOkFails, WriteErr, TunnelEnds
    <3>. QED  BY <1>4, <3>1, <3>2, <3>3, <3>4 DEF Serve
  <2>. QED  BY <2>1
<1>5. ASSUME NEW s \in Streams, Pauses(s)  PROVE AuditInv'
  BY <1>5, PauseEffect DEF Relaying
<1>. QED  BY <1>1, <1>2, <1>3, <1>4, <1>5 DEF Next, Relay, Pauses

LEMMA InsideIsServed ==
  /\ \A c \in Conns : OfConns!Inside(c) = ServedOn(c)
  /\ \A k \in Clients : OfClients!Inside(k) = ServedFor(k)
<1>1. \A c \in Conns : OfConns!Inside(c) = ServedOn(c)
  <2>1. ASSUME NEW s \in Streams
        PROVE  /\ ConnAt[s] = "inside" <=> stage[s] \in Serving
               /\ stage[s] \in Serving => ConnPool[s] = owner[s]
    BY DEF ConnAt, ConnPool, PlaceOnConn
  <2>. QED  BY <2>1 DEF OfConns!Inside, ServedOn
<1>2. \A k \in Clients : OfClients!Inside(k) = ServedFor(k)
  <2>1. ASSUME NEW k \in Clients, NEW s \in Streams
        PROVE  ClientAt[s] = "inside" /\ ClientPool[s] = k <=> HoldsClient(s) /\ tenant[s] = k
    <3>1. ClientAt[s] = "inside" <=> HoldsClient(s)
      BY DEF ClientAt, PlaceAtClient, HoldsClient
    <3>2. HoldsClient(s) => ClientPool[s] = tenant[s]
      BY DEF ClientPool, PoolAtClient, HoldsClient
    <3>. QED  BY <3>1, <3>2
  <2>. QED  BY <2>1 DEF OfClients!Inside, ServedFor
<1>. QED  BY <1>1, <1>2

\* A semaphore without a permit is a full pool.
LEMMA FullWhenNoPermit ==
  ASSUME IInv
  PROVE  /\ \A s \in Streams : ConnPermit(s) <=> ~OfConns!Full(owner[s])
         /\ \A k \in Clients : ClientPermit(k) <=> ~OfClients!Full(k)
<1>1. ASSUME NEW s \in Streams  PROVE ConnPermit(s) <=> ~OfConns!Full(owner[s])
  <2>1. owner[s] \in Conns /\ free[owner[s]] \in Nat
    BY DEF IInv, TypeOK
  <2>2. Cardinality(ServedOn(owner[s])) \in Nat
    BY ConstantAssumption, FS_Subset, FS_CardinalityType DEF ServedOn
  <2>3. OfConns!Inside(owner[s]) = ServedOn(owner[s]) /\ ConnLimits[owner[s]] = ConnLimit
    BY <2>1, InsideIsServed DEF ConnLimits
  <2>4. ConnLimit > 0 => free[owner[s]] + Cardinality(ServedOn(owner[s])) = ConnLimit
    BY <2>1 DEF IInv, PermitsConserved
  <2>. QED  BY <2>1, <2>2, <2>3, <2>4, ConstantAssumption DEF ConnPermit, OfConns!Full, OfConns!Cardinality, Cardinality
<1>2. ASSUME NEW k \in Clients  PROVE ClientPermit(k) <=> ~OfClients!Full(k)
  <2>1. quota[k] \in Nat /\ ClientLimit[k] \in Nat
    BY ConstantAssumption DEF IInv, TypeOK
  <2>2. Cardinality(ServedFor(k)) \in Nat
    BY ConstantAssumption, FS_Subset, FS_CardinalityType DEF ServedFor
  <2>3. OfClients!Inside(k) = ServedFor(k)
    BY InsideIsServed
  <2>4. ClientLimit[k] > 0 => quota[k] + Cardinality(ServedFor(k)) = ClientLimit[k]
    BY DEF IInv, PermitsConserved
  <2>. QED  BY <2>1, <2>2, <2>3, <2>4 DEF ClientPermit, OfClients!Full, OfClients!Cardinality, Cardinality
<1>. QED  BY <1>1, <1>2

\* A step that moves one stream at its connection's semaphore, if any.
LEMMA ConnMoves ==
  ASSUME IInv, NEW s \in Streams, owner' = owner,
         \A x \in Streams \ {s} : stage'[x] = stage[x],
         \/ PlaceOnConn(s)' = PlaceOnConn(s)
         \/ PlaceOnConn(s) = "outside" /\ PlaceOnConn(s)' = "inside" /\ ConnPermit(s)
         \/ PlaceOnConn(s) = "outside" /\ PlaceOnConn(s)' = "turned" /\ ~ConnPermit(s)
         \/ PlaceOnConn(s) = "inside" /\ PlaceOnConn(s)' = "left"
  PROVE  [OfConns!Next]_(OfConns!vars)
<1>1. /\ ConnAt' = [ConnAt EXCEPT ![s] = PlaceOnConn(s)']
      /\ ConnPool' = [ConnPool EXCEPT ![s] = IF PlaceOnConn(s)' = "outside"
                                             THEN NoClient ELSE owner[s]]
      /\ ConnAt[s] = PlaceOnConn(s)
      /\ ConnPool[s] = IF PlaceOnConn(s) = "outside" THEN NoClient ELSE owner[s]
  <2>1. \A x \in Streams \ {s} : PlaceOnConn(x)' = PlaceOnConn(x)
    BY DEF PlaceOnConn
  <2>. QED  BY <2>1 DEF ConnAt, ConnPool
<1>2. owner[s] \in Conns /\ (ConnPermit(s) <=> ~OfConns!Full(owner[s]))
  BY FullWhenNoPermit DEF IInv, TypeOK
<1>3. CASE PlaceOnConn(s)' = PlaceOnConn(s)
  <2>1. ConnAt' = ConnAt /\ ConnPool' = ConnPool
    BY <1>1, <1>3 DEF ConnAt, ConnPool
  <2>. QED  BY <2>1 DEF OfConns!vars
<1>4. CASE PlaceOnConn(s) = "outside" /\ PlaceOnConn(s)' = "inside" /\ ConnPermit(s)
  <2>1. OfConns!Enter(s, owner[s])
    BY <1>1, <1>2, <1>4 DEF OfConns!Enter, OfConns!Asks
  <2>. QED  BY <2>1, <1>2 DEF OfConns!Next
<1>5. CASE PlaceOnConn(s) = "outside" /\ PlaceOnConn(s)' = "turned" /\ ~ConnPermit(s)
  <2>1. OfConns!TurnAway(s, owner[s])
    BY <1>1, <1>2, <1>5 DEF OfConns!TurnAway, OfConns!Asks
  <2>. QED  BY <2>1, <1>2 DEF OfConns!Next
<1>6. CASE PlaceOnConn(s) = "inside" /\ PlaceOnConn(s)' = "left"
  <2>1. ConnPool' = ConnPool
    BY <1>1, <1>6 DEF ConnPool
  <2>2. OfConns!Leave(s)
    BY <1>1, <1>6, <2>1 DEF OfConns!Leave
  <2>. QED  BY <2>2 DEF OfConns!Next
<1>. QED  BY <1>3, <1>4, <1>5, <1>6

\* A step that moves one stream at its client's semaphore, if any.
LEMMA ClientMoves ==
  ASSUME IInv, NEW s \in Streams,
         \A x \in Streams \ {s} : PlaceAtClient(x)' = PlaceAtClient(x)
                                /\ PoolAtClient(x)' = PoolAtClient(x),
         \/ PlaceAtClient(s)' = PlaceAtClient(s) /\ PoolAtClient(s)' = PoolAtClient(s)
         \/ \E k \in Clients :
              /\ PlaceAtClient(s) = "outside" /\ PoolAtClient(s)' = k
              /\ \/ PlaceAtClient(s)' = "inside" /\ ClientPermit(k)
                 \/ PlaceAtClient(s)' = "turned" /\ ~ClientPermit(k)
         \/ /\ PlaceAtClient(s) = "inside" /\ PlaceAtClient(s)' = "left"
            /\ PoolAtClient(s)' = PoolAtClient(s)
  PROVE  [OfClients!Next]_(OfClients!vars)
<1>1. /\ ClientAt' = [ClientAt EXCEPT ![s] = PlaceAtClient(s)']
      /\ ClientPool' = [ClientPool EXCEPT ![s] = PoolAtClient(s)']
      /\ ClientAt[s] = PlaceAtClient(s) /\ ClientPool[s] = PoolAtClient(s)
  BY DEF ClientAt, ClientPool
<1>2. CASE PlaceAtClient(s)' = PlaceAtClient(s) /\ PoolAtClient(s)' = PoolAtClient(s)
  <2>1. ClientAt' = ClientAt /\ ClientPool' = ClientPool
    BY <1>1, <1>2 DEF ClientAt, ClientPool
  <2>. QED  BY <2>1 DEF OfClients!vars
<1>3. ASSUME NEW k \in Clients, PlaceAtClient(s) = "outside", PoolAtClient(s)' = k,
             PlaceAtClient(s)' = "inside", ClientPermit(k)
      PROVE  OfClients!Next
  <2>1. OfClients!Enter(s, k)
    BY <1>1, <1>3, FullWhenNoPermit DEF OfClients!Enter, OfClients!Asks
  <2>. QED  BY <2>1 DEF OfClients!Next
<1>4. ASSUME NEW k \in Clients, PlaceAtClient(s) = "outside", PoolAtClient(s)' = k,
             PlaceAtClient(s)' = "turned", ~ClientPermit(k)
      PROVE  OfClients!Next
  <2>1. OfClients!TurnAway(s, k)
    BY <1>1, <1>4, FullWhenNoPermit DEF OfClients!TurnAway, OfClients!Asks
  <2>. QED  BY <2>1 DEF OfClients!Next
<1>5. CASE /\ PlaceAtClient(s) = "inside" /\ PlaceAtClient(s)' = "left"
           /\ PoolAtClient(s)' = PoolAtClient(s)
  <2>1. ClientPool' = ClientPool
    BY <1>1, <1>5 DEF ClientPool
  <2>2. OfClients!Leave(s)
    BY <1>1, <1>5, <2>1 DEF OfClients!Leave
  <2>. QED  BY <2>2 DEF OfClients!Next
<1>. QED  BY <1>2, <1>3, <1>4, <1>5

LEMMA ConnStep == IInv /\ [Next]_vars => [OfConns!Next]_(OfConns!vars)
<1> SUFFICES ASSUME IInv, [Next]_vars  PROVE [OfConns!Next]_(OfConns!vars)
  OBVIOUS
<1> DEFINE Goal == [OfConns!Next]_(OfConns!vars)
<1>1. TypeOK
  BY DEF IInv
<1>2. CASE UNCHANGED <<stage, owner>>
  BY <1>2 DEF OfConns!vars, ConnAt, ConnPool, PlaceOnConn
<1>3. ASSUME NEW c \in Conns, AcceptBi(c)  PROVE Goal
  <2>1. PICK s \in Streams : s = Head(queue[c]) /\ stage[s] = "queued"
    BY <1>1, <1>3, QueueAccepted DEF IInv
  <2>2. /\ owner' = owner /\ \A x \in Streams \ {s} : stage'[x] = stage[x]
        /\ stage'[s] = "reading"
    BY <1>1, <1>3, <2>1 DEF AcceptBi, TypeOK
  <2>3. PlaceOnConn(s)' = PlaceOnConn(s)
    BY <2>1, <2>2 DEF PlaceOnConn, Serving
  <2>. QED  BY <2>2, <2>3, ConnMoves
<1>4. ASSUME NEW s \in Streams,
             OpenStream(s) \/ HeaderUnreadable(s) \/ HandleRegister(s)
      PROVE  Goal
  <2>1. /\ owner' = owner /\ \A x \in Streams \ {s} : stage'[x] = stage[x]
        /\ stage[s] \in {"unopened", "reading"}
        /\ stage'[s] \in {"queued", "unreadable", "registered"}
    BY <1>1, <1>4 DEF OpenStream, HeaderUnreadable, HandleRegister, TypeOK
  <2>2. PlaceOnConn(s)' = PlaceOnConn(s)
    BY <2>1 DEF PlaceOnConn, Serving
  <2>. QED  BY <2>1, <2>2, ConnMoves
<1>5. ASSUME NEW s \in Streams, SpawnOrDrop(s)  PROVE Goal
  <2>1. /\ owner' = owner /\ \A x \in Streams \ {s} : stage'[x] = stage[x]
        /\ stage[s] = "reading"
        /\ \/ stage'[s] = "spawned" /\ ConnPermit(s)
           \/ stage'[s] = "dropped" /\ ~ConnPermit(s)
    BY <1>1, <1>5 DEF SpawnOrDrop, TypeOK
  <2>2. /\ PlaceOnConn(s) = "outside"
        /\ \/ PlaceOnConn(s)' = "inside" /\ ConnPermit(s)
           \/ PlaceOnConn(s)' = "turned" /\ ~ConnPermit(s)
    BY <2>1 DEF PlaceOnConn, Serving
  <2>. QED  BY <2>1, <2>2, ConnMoves
<1>6. ASSUME NEW s \in Streams,
             DenyToken(s) \/ Authenticate(s) \/ ResolveAllowed(s) \/ DialSucceeds(s)
             \/ TcpDialFails(s) \/ UdpDialFails(s) \/ WriteOk(s)
      PROVE  Goal
  <2>1. /\ owner' = owner /\ \A x \in Streams \ {s} : stage'[x] = stage[x]
        /\ stage[s] \in Serving /\ stage'[s] \in Serving
    <3> USE <1>1 DEF TypeOK, Fail, Serving
    <3>1. CASE DenyToken(s) \/ Authenticate(s) \/ UdpDialFails(s)
      BY <3>1 DEF DenyToken, Authenticate, UdpDialFails
    <3>2. CASE ResolveAllowed(s) \/ DialSucceeds(s) \/ WriteOk(s)
      BY <3>2 DEF ResolveAllowed, DialSucceeds, WriteOk
    <3>3. CASE TcpDialFails(s)
      BY <3>3 DEF TcpDialFails
    <3>. QED  BY <1>6, <3>1, <3>2, <3>3
  <2>2. PlaceOnConn(s)' = PlaceOnConn(s)
    BY <2>1 DEF PlaceOnConn
  <2>. QED  BY <2>1, <2>2, ConnMoves
<1>7. ASSUME NEW s \in Streams, WriteOkFails(s) \/ WriteErr(s) \/ TunnelEnds(s)
      PROVE  Goal
  <2>1. /\ owner' = owner /\ \A x \in Streams \ {s} : stage'[x] = stage[x]
        /\ stage[s] \in Serving /\ stage'[s] \in {"refused", "abandoned", "ended"}
    BY <1>1, <1>7 DEF WriteOkFails, WriteErr, TunnelEnds, TypeOK, Serving, Relaying
  <2>2. PlaceOnConn(s) = "inside" /\ PlaceOnConn(s)' = "left"
    BY <2>1 DEF PlaceOnConn, Serving
  <2>. QED  BY <2>1, <2>2, ConnMoves
<1>8. ASSUME NEW s \in Streams, Pauses(s)  PROVE Goal
  <2>1. /\ owner' = owner /\ \A x \in Streams \ {s} : stage'[x] = stage[x]
        /\ stage[s] \in Relaying /\ stage'[s] \in Relaying
    BY <1>1, <1>8, PauseEffect
  <2>2. PlaceOnConn(s)' = PlaceOnConn(s)
    BY <2>1 DEF PlaceOnConn, Serving, Relaying
  <2>. QED  BY <2>1, <2>2, ConnMoves
<1>. QED
  BY <1>2, <1>3, <1>4, <1>5, <1>6, <1>7, <1>8
  DEF Next, Loop, Header, Serve, Relay, Pauses, vars, Accept, LoseConnection, LoopEnds

LEMMA ClientStep == IInv /\ AuditInv /\ [Next]_vars => [OfClients!Next]_(OfClients!vars)
<1> SUFFICES ASSUME IInv, AuditInv, [Next]_vars  PROVE [OfClients!Next]_(OfClients!vars)
  OBVIOUS
<1> DEFINE Goal == [OfClients!Next]_(OfClients!vars)
           Others(s) == \A x \in Streams \ {s} : /\ stage'[x] = stage[x] /\ tenant'[x] = tenant[x]
                                                /\ req'[x] = req[x] /\ audit'[x] = audit[x]
           Same(x) == PlaceAtClient(x)' = PlaceAtClient(x) /\ PoolAtClient(x)' = PoolAtClient(x)
<1>1. TypeOK
  BY DEF IInv
<1>2. ASSUME NEW s \in Streams, Others(s)  PROVE \A x \in Streams \ {s} : Same(x)
  <2>1. ASSUME NEW x \in Streams \ {s}  PROVE PlaceAtClient(x)' = PlaceAtClient(x)
    BY <1>2 DEF PlaceAtClient
  <2>2. ASSUME NEW x \in Streams \ {s}  PROVE PoolAtClient(x)' = PoolAtClient(x)
    BY <1>2 DEF PoolAtClient
  <2>. QED  BY <2>1, <2>2
<1>3. ASSUME NEW s \in Streams, Others(s), Same(s)  PROVE Goal
  BY <1>2, <1>3, ClientMoves
<1>4. CASE UNCHANGED <<stage, tenant, req, audit>>
  BY <1>4 DEF OfClients!vars, ClientAt, ClientPool, PlaceAtClient, PoolAtClient
\* A stream that has not authenticated stays outside.
<1>5. ASSUME NEW s \in Streams, Others(s), tenant[s] = NoClient, UNCHANGED tenant,
             audit[s] # "over_limit", audit'[s] # "over_limit"
      PROVE  Goal
  <2>1. Same(s)
    BY <1>5 DEF PlaceAtClient, PoolAtClient
  <2>. QED  BY <1>3, <1>5, <2>1
\* One that has stays with its client, inside or not.
<1>6. ASSUME NEW s \in Streams, Others(s), tenant[s] # NoClient, tenant'[s] = tenant[s],
             stage[s] \in Serving
      PROVE  Goal
  <2>1. /\ PlaceAtClient(s) = "inside" /\ PlaceAtClient(s)' \in {"inside", "left"}
        /\ PoolAtClient(s)' = PoolAtClient(s)
    BY <1>6 DEF PlaceAtClient, PoolAtClient
  <2>. QED  BY <1>2, <1>3, <1>6, <2>1, ClientMoves
\* One that was refused stays refused.
<1>7. ASSUME NEW s \in Streams, Others(s), tenant[s] = NoClient, UNCHANGED <<tenant, req, audit>>
      PROVE  Goal
  <2>1. Same(s)
    BY <1>7 DEF PlaceAtClient, PoolAtClient
  <2>. QED  BY <1>3, <1>7, <2>1
<1>8. ASSUME NEW c \in Conns, AcceptBi(c)  PROVE Goal
  <2>1. PICK s \in Streams : s = Head(queue[c]) /\ stage[s] = "queued"
    BY <1>1, <1>8, QueueAccepted DEF IInv
  <2>2. Others(s) /\ UNCHANGED <<tenant, req, audit>>
    BY <1>1, <1>8, <2>1 DEF AcceptBi, taskVars, TypeOK
  <2>3. tenant[s] = NoClient
    BY <2>1 DEF IInv, TaskInv
  <2>. QED  BY <1>7, <2>2, <2>3
<1>9. ASSUME NEW s \in Streams, OpenStream(s) \/ Header(s)  PROVE Goal
  <2>1. stage[s] \in {"unopened", "reading"} /\ UNCHANGED <<tenant, audit>>
    BY <1>9 DEF OpenStream, Header, HeaderUnreadable, HandleRegister, SpawnOrDrop, taskVars
  <2>2. Others(s)
    <3> USE <1>1 DEF TypeOK, taskVars
    <3>1. CASE OpenStream(s) \/ HeaderUnreadable(s)
      BY <3>1 DEF OpenStream, HeaderUnreadable
    <3>2. CASE HandleRegister(s)
      BY <3>2 DEF HandleRegister
    <3>3. CASE SpawnOrDrop(s)
      BY <3>3 DEF SpawnOrDrop
    <3>. QED  BY <1>9, <3>1, <3>2, <3>3 DEF Header
  <2>3. tenant[s] = NoClient /\ audit[s] # "over_limit"
    BY <2>1 DEF AuditInv, IInv, TaskInv
  <2>. QED  BY <1>5, <2>1, <2>2, <2>3
<1>10. ASSUME NEW s \in Streams, DenyToken(s)  PROVE Goal
  <2>1. Others(s) /\ stage[s] = "spawned" /\ UNCHANGED tenant /\ audit'[s] = "denied_token"
    BY <1>1, <1>10 DEF DenyToken, Fail, Record, taskVars, TypeOK
  <2>2. tenant[s] = NoClient /\ audit[s] # "over_limit"
    BY <2>1 DEF AuditInv, IInv, TaskInv
  <2>. QED  BY <1>5, <2>1, <2>2
<1>11. ASSUME NEW s \in Streams, Authenticate(s)  PROVE Goal
  <2>1. /\ Others(s) /\ stage[s] = "spawned" /\ UNCHANGED req
        /\ tenant[s] = NoClient /\ audit[s] # "over_limit"
    <3>1. Others(s)
      BY <1>1, <1>11 DEF Authenticate, Fail, Record, TypeOK
    <3>2. stage[s] = "spawned" /\ UNCHANGED req
      BY <1>11 DEF Authenticate
    <3>. QED  BY <3>1, <3>2 DEF AuditInv, IInv, TaskInv
  <2>2. PlaceAtClient(s) = "outside"
    BY <2>1 DEF PlaceAtClient
  <2>3. PICK k \in Authenticated(req[s].token) :
          \/ /\ ClientPermit(k) /\ tenant' = [tenant EXCEPT ![s] = k]
             /\ stage' = [stage EXCEPT ![s] = "resolving"]
          \/ /\ ~ClientPermit(k) /\ Fail(s, "over_limit") /\ Record(s, "over_limit")
             /\ UNCHANGED tenant
    BY <1>11 DEF Authenticate
  <2>4. /\ k \in Clients /\ k # NoClient
        /\ TenantOf(req[s].token) = k
    <3>1. \A l \in Clients : l \in Authenticated(req[s].token) <=> l = k
      BY <2>3, ConstantAssumption DEF Authenticated
    <3>. QED  BY <2>3, <3>1, ConstantAssumption DEF Authenticated, TenantOf
  <2>5. CASE /\ ClientPermit(k) /\ tenant' = [tenant EXCEPT ![s] = k]
             /\ stage' = [stage EXCEPT ![s] = "resolving"]
    <3>1. tenant'[s] = k /\ stage'[s] = "resolving"
      BY <1>1, <2>5 DEF TypeOK
    <3>2. PlaceAtClient(s)' = "inside" /\ PoolAtClient(s)' = k
      BY <2>4, <3>1 DEF PlaceAtClient, PoolAtClient, Serving
    <3>. QED  BY <1>2, <2>1, <2>2, <2>4, <2>5, <3>2, ClientMoves
  <2>6. CASE ~ClientPermit(k) /\ Record(s, "over_limit") /\ UNCHANGED tenant
    <3>1. tenant'[s] = NoClient /\ audit'[s] = "over_limit" /\ req'[s] = req[s]
      BY <1>1, <2>1, <2>6 DEF TypeOK, Record
    <3>2. PlaceAtClient(s)' = "turned" /\ PoolAtClient(s)' = k
      BY <2>4, <3>1 DEF PlaceAtClient, PoolAtClient
    <3>. QED  BY <1>2, <2>1, <2>2, <2>4, <2>6, <3>2, ClientMoves
  <2>. QED  BY <2>3, <2>5, <2>6
<1>12. ASSUME NEW s \in Streams,
              ResolveAllowed(s) \/ DialSucceeds(s) \/ TcpDialFails(s) \/ UdpDialFails(s)
              \/ WriteOk(s) \/ WriteOkFails(s) \/ TunnelEnds(s)
       PROVE  Goal
  <2> USE <1>1 DEF TypeOK, Fail, Record, taskVars
  <2>1. /\ Others(s) /\ UNCHANGED tenant
        /\ stage[s] \in {"resolving", "dialling", "accepting"} \cup Relaying
    <3>1. CASE ResolveAllowed(s) \/ DialSucceeds(s) \/ UdpDialFails(s)
      BY <3>1 DEF ResolveAllowed, DialSucceeds, UdpDialFails
    <3>2. CASE TcpDialFails(s)
      BY <3>2 DEF TcpDialFails
    <3>3. CASE WriteOk(s) \/ WriteOkFails(s) \/ TunnelEnds(s)
      BY <3>3 DEF WriteOk, WriteOkFails, TunnelEnds
    <3>. QED  BY <1>12, <3>1, <3>2, <3>3
  <2>2. tenant[s] # NoClient /\ stage[s] \in Serving
    BY <2>1, ConstantAssumption DEF IInv, TaskInv, Serving, Relaying
  <2>. QED  BY <1>6, <2>1, <2>2
<1>13. ASSUME NEW s \in Streams, WriteErr(s)  PROVE Goal
  <2>1. Others(s) /\ UNCHANGED <<tenant, req, audit>> /\ stage[s] \in Serving
    BY <1>1, <1>13 DEF WriteErr, TypeOK, taskVars, Serving
  <2>. QED  BY <1>6, <1>7, <2>1
<1>14. ASSUME NEW s \in Streams, Pauses(s)  PROVE Goal
  <2>1. Others(s) /\ UNCHANGED tenant /\ stage[s] \in Relaying
    BY <1>1, <1>14, PauseEffect
  <2>2. tenant[s] # NoClient /\ stage[s] \in Serving
    BY <2>1, ConstantAssumption DEF IInv, TaskInv, Serving, Relaying
  <2>. QED  BY <1>6, <2>1, <2>2
<1>. QED
  BY <1>4, <1>8, <1>9, <1>10, <1>11, <1>12, <1>13, <1>14
  DEF Next, Loop, Serve, Relay, Pauses, vars, taskVars, Accept, LoseConnection, LoopEnds

\* The accept loop and serve_forward implement Admission, for connections and
\* for clients: no limit is exceeded, no stream is refused while there is room,
\* and a stream enters and leaves each pool at most once, on every path.
THEOREM ImplementsAdmission == Spec => Admits
<1>1. Init => OfConns!Init
  BY ConstantAssumption DEF Init, OfConns!Init, ConnAt, ConnPool, PlaceOnConn, Serving
<1>2. Init => OfClients!Init
  BY DEF Init, OfClients!Init, ClientAt, ClientPool, PlaceAtClient, PoolAtClient
<1>3. Spec => [](IInv /\ AuditInv)
  <2>1. Spec => []IInv
    BY Inductive
  <2>. QED  BY <2>1, InitAuditInv, NextAuditInv, PTL DEF Spec
<1>4. Spec => OfConns!Spec
  BY <1>1, <1>3, ConnStep, PTL DEF Spec, OfConns!Spec
<1>5. Spec => OfClients!Spec
  BY <1>2, <1>3, ClientStep, PTL DEF Spec, OfClients!Spec
<1>. QED  BY <1>4, <1>5 DEF Admits
=============================================================================
