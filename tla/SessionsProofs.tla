--------------------------- MODULE SessionsProofs ---------------------------
(***************************************************************************)
(* Safety of a mapping's connections and UDP sessions for any sources,     *)
(* datagrams, tasks, limits and channel capacity.                          *)
(***************************************************************************)
EXTENDS Sessions, TLAPS, FiniteSetTheorems, SequenceTheorems

LoopType ==
  /\ limit \in Limits /\ kind \in {"stream", "datagram"} /\ mode \in Modes /\ cancelled \in BOOLEAN
  /\ loop \in {"recv", "send", "admit", "off"}
  /\ hand \in Hand \cup {NoHand}
  /\ loop \in {"send", "admit"} <=> hand # NoHand
  /\ entry \in [Peers -> Slots \cup {NoSlot}]

TaskType ==
  /\ pc \in [Slots -> {"free", "spawned", "peeking", "opening", "open", "closing"}]
  /\ peer \in [Slots -> Peers \cup {NoPeer}]
  /\ queue \in [Slots -> Seq(Datagrams)]
  /\ half \in [Slots -> SUBSET {"up", "down", "far"}]

\* Only an open tunnel has halves, and who no longer receives has nothing queued.
StageInv ==
  \A s \in Slots :
    /\ half[s] # {} => pc[s] = "open"
    /\ ~Receives(s) /\ pc[s] # "peeking" => queue[s] = <<>>

RoomInv == \A s \in Slots : Len(queue[s]) <= Capacity

CountInv == counted = {s \in Slots : pc[s] \notin {"free", "spawned"}}

\* A TCP or HTTP listener has no datagrams and no map of sessions.
KindInv == kind = "stream" => hand = NoHand /\ \A p \in Peers : entry[p] = NoSlot

\* The session a datagram is for is of its source, or over; its slot is not used
\* again while the listener refers to it.
HandInv ==
  loop = "send" =>
    hand.to \in Slots /\ (pc[hand.to] # "free" => peer[hand.to] = From[hand.d])

IInv ==
  /\ LoopType /\ TaskType
  /\ StageInv /\ RoomInv /\ CountInv /\ KindInv /\ HandInv
  /\ StreamLimit /\ EntriesLive /\ DeliveredOnce

\* A task ends its tunnel: a connection's, or a session's that has its entry to remove.
EndsStep(s) == pc[s] \in {"peeking", "opening", "open"} /\ Ends(s)

HalfStep(s) == \E h \in {"up", "down", "far"} : HalfEnds(s, h)

LoopStep ==
  /\ \/ LoopOff
     \/ Cancel
     \/ \E m \in Modes : Edit(m)
     \/ UNCHANGED vars

\* The steps, one disjunct each.
LEMMA NextSteps ==
  ASSUME [Next]_vars
  PROVE  \/ \E p \in Peers : AcceptConn(p)
         \/ \E d \in Datagrams : Receive(d)
         \/ Deliver \/ DeliverFails \/ Admit \/ LoopStep
         \/ \E s \in Slots :
              Run(s) \/ HeadRead(s) \/ Opens(s) \/ UpForwards(s) \/ EndsStep(s) \/ HalfStep(s) \/ Forget(s)
  BY DEF Next, LoopStep, LoopStops, LoopFails, HeadFails, OpenFails, Finish, Fails, Cut, EndsStep,
         HalfStep, UpEnds, FarFollows, FarFails, DownFollows, DownEnds

-----------------------------------------------------------------------------
(* Channels *)

Within(q) == {q[i] : i \in DOMAIN q}

Once(q) == \A i, j \in DOMAIN q : q[i] = q[j] => i = j

LEMMA Empty == Within(<<>>) = {} /\ Once(<<>>) /\ <<>> \in Seq(Datagrams) /\ Len(<<>>) = 0
<1>1. <<>> \in Seq(Datagrams) /\ Len(<<>>) = 0
  BY EmptySeq
<1>2. DOMAIN <<>> = {}
  OBVIOUS
<1> QED
  BY <1>1, <1>2 DEF Within, Once

LEMMA Single ==
  ASSUME NEW d \in Datagrams
  PROVE  Within(<<d>>) = {d} /\ Once(<<d>>) /\ <<d>> \in Seq(Datagrams) /\ Len(<<d>>) = 1
<1>1. <<d>> \in Seq(Datagrams) /\ Len(<<d>>) = 1 /\ DOMAIN <<d>> = {1} /\ <<d>>[1] = d
  OBVIOUS
<1> QED
  BY <1>1 DEF Within, Once

\* A datagram is added at the end.
LEMMA Appended ==
  ASSUME NEW q \in Seq(Datagrams), NEW d \in Datagrams
  PROVE  /\ Append(q, d) \in Seq(Datagrams) /\ Len(Append(q, d)) = Len(q) + 1
         /\ Within(Append(q, d)) = Within(q) \cup {d}
         /\ Once(q) /\ d \notin Within(q) => Once(Append(q, d))
<1> DEFINE r == Append(q, d)
<1>1. r \in Seq(Datagrams) /\ Len(r) = Len(q) + 1 /\ Len(q) \in Nat
      /\ (\A i \in 1..Len(q) : r[i] = q[i]) /\ r[Len(q) + 1] = d
  BY AppendProperties, LenProperties
<1>2. DOMAIN q = 1..Len(q) /\ DOMAIN r = 1..(Len(q) + 1)
  BY <1>1, LenProperties
<1> HIDE DEF r
<1>3. \A i \in DOMAIN r : (i \in DOMAIN q /\ r[i] = q[i]) \/ (i = Len(q) + 1 /\ r[i] = d)
  BY <1>1, <1>2
<1>4. DOMAIN q \subseteq DOMAIN r /\ Len(q) + 1 \in DOMAIN r
  BY <1>1, <1>2
<1>5. Within(r) = Within(q) \cup {d}
  BY <1>1, <1>2, <1>3, <1>4 DEF Within
<1>6. ASSUME Once(q), d \notin Within(q) PROVE Once(r)
  <2>1. \A i \in DOMAIN q : q[i] # d
    BY <1>6 DEF Within
  <2> QED
    BY <1>3, <1>6, <2>1 DEF Once
<1> QED
  BY <1>1, <1>5, <1>6 DEF r

\* The first datagram is taken out.
LEMMA Taken ==
  ASSUME NEW q \in Seq(Datagrams), q # <<>>
  PROVE  /\ Tail(q) \in Seq(Datagrams) /\ Len(Tail(q)) <= Len(q)
         /\ Within(Tail(q)) \subseteq Within(q)
         /\ Once(q) => Once(Tail(q))
<1> DEFINE r == Tail(q)
<1>1. r \in Seq(Datagrams) /\ Len(r) = Len(q) - 1 /\ Len(q) \in Nat /\ Len(r) \in Nat
      /\ \A i \in 1..Len(r) : r[i] = q[i + 1]
  BY HeadTailProperties, LenProperties
<1>2. DOMAIN q = 1..Len(q) /\ DOMAIN r = 1..Len(r)
  BY <1>1, LenProperties
<1> HIDE DEF r
<1>3. \A i \in DOMAIN r : i \in Nat /\ i + 1 \in DOMAIN q /\ r[i] = q[i + 1]
  BY <1>1, <1>2
<1>4. Within(r) \subseteq Within(q)
  BY <1>3 DEF Within
<1>5. ASSUME Once(q), NEW i \in DOMAIN r, NEW j \in DOMAIN r, r[i] = r[j] PROVE i = j
  <2>1. i + 1 = j + 1
    BY <1>3, <1>5 DEF Once
  <2> QED
    BY <1>3, <2>1
<1> QED
  BY <1>1, <1>4, <1>5 DEF r, Once

-----------------------------------------------------------------------------
(* Fresh tasks *)

LEMMA FreshIsUnused ==
  ASSUME Unused # {}
  PROVE  Fresh \in Slots /\ pc[Fresh] = "free" /\ ~Referred(Fresh)
<1>1. \E s \in Slots : s \in Unused
  BY DEF Unused
<1>2. Fresh \in Unused
  BY <1>1 DEF Fresh
<1> QED
  BY <1>2 DEF Unused

\* What a fresh task is given, and that nothing led to it.
LEMMA Spawned ==
  ASSUME TaskType, Unused # {}, NEW p \in Peers, NEW ds \in Seq(Datagrams), Spawn(Fresh, p, ds)
  PROVE  /\ TaskType'
         /\ Fresh \in Slots /\ pc[Fresh] = "free" /\ ~Referred(Fresh)
         /\ pc'[Fresh] = "spawned" /\ peer'[Fresh] = p /\ queue'[Fresh] = ds
         /\ \A s \in Slots \ {Fresh} :
              pc'[s] = pc[s] /\ peer'[s] = peer[s] /\ queue'[s] = queue[s]
         /\ UNCHANGED <<half, counted>>
<1>1. Fresh \in Slots /\ pc[Fresh] = "free" /\ ~Referred(Fresh)
  BY FreshIsUnused
<1> QED
  BY <1>1 DEF Spawn, TaskType

-----------------------------------------------------------------------------
(* Types *)

LEMMA InitHolds == Init => IInv
<1> SUFFICES ASSUME Init PROVE IInv
  OBVIOUS
<1>1. LoopType /\ KindInv /\ HandInv
  BY SessionsAssumption DEF Init, LoopType, KindInv, HandInv
<1>2. TaskType /\ StageInv /\ RoomInv /\ CountInv
  BY Empty, SessionsAssumption DEF Init, TaskType, StageInv, RoomInv, CountInv
<1>3. Live = {} /\ Cardinality({}) = 0
  BY FS_EmptySet DEF Init, Live
<1>4. StreamLimit
  BY <1>1, <1>3, SessionsAssumption DEF StreamLimit, LoopType
<1>5. EntriesLive /\ DeliveredOnce
  BY DEF Init, EntriesLive, DeliveredOnce, Contents
<1> QED
  BY <1>1, <1>2, <1>4, <1>5 DEF IInv

LEMMA LoopTypeKept ==
  ASSUME IInv, [Next]_vars
  PROVE  LoopType'
<1> USE DEF IInv, LoopType
<1>1. ASSUME NEW p \in Peers, AcceptConn(p) PROVE LoopType'
  BY <1>1 DEF AcceptConn, listenerVars
<1>2. ASSUME NEW d \in Datagrams, Receive(d) PROVE LoopType'
  <2>1. entry[From[d]] \in Slots \cup {NoSlot}
    BY SessionsAssumption
  <2>2. hand' \in Hand /\ hand' # NoHand
    BY <1>2, <2>1, SessionsAssumption DEF Receive, Hand
  <2> QED
    BY <1>2, <2>2 DEF Receive
<1>3. CASE Deliver \/ DeliverFails
  BY <1>3 DEF Deliver, DeliverFails
<1>4. CASE Admit
  <2>1. entry' \in [Peers -> Slots \cup {NoSlot}]
    BY <1>4, FreshIsUnused DEF Admit
  <2> QED
    BY <1>4, <2>1 DEF Admit
<1>5. CASE LoopStep
  BY <1>5 DEF LoopStep, LoopOff, Cancel, Edit, vars, listenerVars
<1>6. ASSUME NEW s \in Slots,
             Run(s) \/ HeadRead(s) \/ Opens(s) \/ UpForwards(s) \/ EndsStep(s) \/ HalfStep(s)
      PROVE  LoopType'
  BY <1>6 DEF Run, HeadRead, Opens, UpForwards, EndsStep, Ends, HalfStep, HalfEnds, listenerVars
<1>7. ASSUME NEW s \in Slots, Forget(s) PROVE LoopType'
  BY <1>7 DEF Forget, Ended
<1> QED
  BY <1>1, <1>2, <1>3, <1>4, <1>5, <1>6, <1>7, NextSteps

\* The session a datagram is for, and where a new one starts.
LEMMA HandFacts ==
  ASSUME LoopType, hand # NoHand
  PROVE  hand.d \in Datagrams /\ From[hand.d] \in Peers /\ hand.to \in Slots \cup {NoSlot}
  BY SessionsAssumption DEF LoopType, Hand

\* A session that is admitted starts with the datagram in hand.
LEMMA Admitted ==
  ASSUME LoopType, TaskType, Admit
  PROVE  \/ UNCHANGED <<entry, taskVars>>
         \/ /\ Unused # {} /\ entry' = [entry EXCEPT ![From[hand.d]] = Fresh]
            /\ Spawn(Fresh, From[hand.d], <<hand.d>>)
            /\ hand # NoHand /\ hand.d \in Datagrams /\ From[hand.d] \in Peers
            /\ <<hand.d>> \in Seq(Datagrams)
  BY HandFacts, Single DEF Admit, LoopType

LEMMA TaskTypeKept ==
  ASSUME IInv, [Next]_vars
  PROVE  TaskType'
<1> USE DEF IInv
<1>1. ASSUME NEW p \in Peers, AcceptConn(p) PROVE TaskType'
  BY <1>1, Empty, Spawned DEF AcceptConn
<1>2. CASE (\E d \in Datagrams : Receive(d)) \/ DeliverFails \/ LoopStep
  BY <1>2 DEF Receive, DeliverFails, LoopStep, LoopOff, Cancel, Edit, vars, taskVars, TaskType
<1>3. CASE Deliver
  <2>1. hand.d \in Datagrams /\ hand.to \in Slots
    BY <1>3, HandFacts DEF Deliver, LoopType, HandInv
  <2>2. Append(queue[hand.to], hand.d) \in Seq(Datagrams)
    BY <2>1, Appended DEF TaskType
  <2> QED
    BY <1>3, <2>1, <2>2 DEF Deliver, TaskType
<1>4. CASE Admit
  <2>1. CASE UNCHANGED <<entry, taskVars>>
    BY <2>1 DEF taskVars, TaskType
  <2> QED
    BY <1>4, <2>1, Admitted, Spawned
<1>5. ASSUME NEW s \in Slots, UpForwards(s) PROVE TaskType'
  BY <1>5, Taken DEF UpForwards, TaskType
<1>6. ASSUME NEW s \in Slots, EndsStep(s) PROVE TaskType'
  BY <1>6, Empty DEF EndsStep, Ends, TaskType
<1>7. ASSUME NEW s \in Slots, Run(s) \/ HeadRead(s) \/ Forget(s) PROVE TaskType'
  BY <1>7 DEF Run, HeadRead, Forget, Ended, TaskType
<1>8. ASSUME NEW s \in Slots, Opens(s) PROVE TaskType'
  BY <1>8 DEF Opens, TaskType
<1>9. ASSUME NEW s \in Slots, HalfStep(s) PROVE TaskType'
  BY <1>9 DEF HalfStep, HalfEnds, TaskType
<1> QED
  BY <1>1, <1>2, <1>3, <1>4, <1>5, <1>6, <1>7, <1>8, <1>9, NextSteps

-----------------------------------------------------------------------------
(* Tasks and their channels *)

TaskInv == StageInv /\ RoomInv /\ CountInv

LEMMA SpawnKeepsTasks ==
  ASSUME TaskType, TaskInv, Unused # {}, NEW p \in Peers, NEW ds \in Seq(Datagrams),
         Len(ds) <= Capacity, Spawn(Fresh, p, ds)
  PROVE  TaskInv'
<1>1. /\ Fresh \in Slots /\ pc[Fresh] = "free" /\ pc'[Fresh] = "spawned" /\ queue'[Fresh] = ds
      /\ \A s \in Slots \ {Fresh} : pc'[s] = pc[s] /\ queue'[s] = queue[s]
      /\ UNCHANGED <<half, counted>>
  BY Spawned
<1>2. StageInv'
  BY <1>1 DEF TaskInv, StageInv, Receives
<1>3. RoomInv'
  BY <1>1 DEF TaskInv, RoomInv
<1>4. CountInv'
  BY <1>1 DEF TaskInv, CountInv
<1> QED
  BY <1>2, <1>3, <1>4 DEF TaskInv

LEMMA TaskInvKept ==
  ASSUME IInv, [Next]_vars
  PROVE  TaskInv'
<1>0. TaskInv /\ TaskType /\ LoopType
  BY DEF IInv, TaskInv
<1>1. ASSUME NEW p \in Peers, AcceptConn(p) PROVE TaskInv'
  <2>1. 0 <= Capacity
    BY SessionsAssumption
  <2> QED
    BY <1>0, <1>1, <2>1, Empty, SpawnKeepsTasks DEF AcceptConn
<1>2. CASE (\E d \in Datagrams : Receive(d)) \/ DeliverFails \/ LoopStep
  BY <1>0, <1>2 DEF Receive, DeliverFails, LoopStep, LoopOff, Cancel, Edit, vars, taskVars,
                    TaskInv, StageInv, RoomInv, CountInv, Receives
<1>3. CASE Deliver
  <2>1. /\ hand.d \in Datagrams /\ hand.to \in Slots /\ Receives(hand.to)
        /\ Len(queue[hand.to]) < Capacity /\ queue[hand.to] \in Seq(Datagrams)
    BY <1>3, HandFacts DEF Deliver, LoopType, HandInv, IInv, TaskType
  <2>2. Len(Append(queue[hand.to], hand.d)) <= Capacity
    BY <2>1, Appended, LenProperties, SessionsAssumption
  <2>3. /\ queue'[hand.to] = Append(queue[hand.to], hand.d)
        /\ \A s \in Slots \ {hand.to} : queue'[s] = queue[s]
        /\ UNCHANGED <<pc, half, counted>>
    BY <1>0, <1>3, <2>1 DEF Deliver, TaskType
  <2> QED
    BY <1>0, <2>1, <2>2, <2>3 DEF TaskInv, StageInv, RoomInv, CountInv, Receives
<1>4. CASE Admit
  <2>1. CASE UNCHANGED <<entry, taskVars>>
    BY <1>0, <2>1 DEF taskVars, TaskInv, StageInv, RoomInv, CountInv, Receives
  <2>2. CASE /\ Unused # {} /\ Spawn(Fresh, From[hand.d], <<hand.d>>)
             /\ hand.d \in Datagrams /\ From[hand.d] \in Peers /\ <<hand.d>> \in Seq(Datagrams)
    <3>1. Len(<<hand.d>>) <= Capacity
      BY <2>2, Single, SessionsAssumption
    <3> QED
      BY <1>0, <2>2, <3>1, SpawnKeepsTasks
  <2> QED
    BY <1>0, <1>4, <2>1, <2>2, Admitted
<1>5. ASSUME NEW s \in Slots, UpForwards(s) PROVE TaskInv'
  <2>1. /\ Len(queue'[s]) <= Len(queue[s]) /\ Len(queue[s]) \in Nat /\ Len(queue'[s]) \in Nat
        /\ \A t \in Slots \ {s} : queue'[t] = queue[t]
        /\ UNCHANGED <<pc, half, counted>>
        /\ queue[s] # <<>>
    BY <1>0, <1>5, Taken, LenProperties DEF UpForwards, TaskType
  <2>2. StageInv'
    BY <1>0, <2>1 DEF TaskInv, StageInv, Receives
  <2>3. RoomInv'
    BY <1>0, <2>1, SessionsAssumption DEF TaskInv, RoomInv
  <2> QED
    BY <1>0, <2>1, <2>2, <2>3 DEF TaskInv, CountInv
<1>6. ASSUME NEW s \in Slots, EndsStep(s) PROVE TaskInv'
  <2>1. /\ half'[s] = {} /\ queue'[s] = <<>>
        /\ pc[s] \notin {"free", "spawned"} /\ pc'[s] \in {"free", "closing"}
        /\ \A t \in Slots \ {s} : pc'[t] = pc[t] /\ queue'[t] = queue[t] /\ half'[t] = half[t]
    BY <1>0, <1>6 DEF EndsStep, Ends, TaskType
  <2>2. counted' = IF pc'[s] = "free" THEN counted \ {s} ELSE counted
    BY <1>0, <1>6 DEF EndsStep, Ends, TaskType
  <2>3. StageInv' /\ CountInv'
    BY <1>0, <2>1, <2>2 DEF TaskInv, StageInv, CountInv, Receives
  <2>4. RoomInv'
    BY <1>0, <2>1, Empty, SessionsAssumption DEF TaskInv, RoomInv
  <2> QED
    BY <2>3, <2>4 DEF TaskInv
<1>7. ASSUME NEW s \in Slots, Run(s) \/ HeadRead(s) \/ Opens(s) PROVE TaskInv'
  <2>1. /\ pc[s] \in {"spawned", "peeking", "opening"} /\ pc'[s] \in {"peeking", "opening", "open"}
        /\ pc'[s] # "open" => half' = half
        /\ \A t \in Slots \ {s} : pc'[t] = pc[t] /\ half'[t] = half[t]
        /\ UNCHANGED queue /\ counted' = counted \cup {s}
    BY <1>0, <1>7 DEF Run, HeadRead, Opens, TaskType, TaskInv, CountInv
  <2> QED
    BY <1>0, <2>1 DEF TaskInv, StageInv, RoomInv, CountInv, Receives
<1>8. ASSUME NEW s \in Slots, HalfStep(s) PROVE TaskInv'
  BY <1>0, <1>8 DEF HalfStep, HalfEnds, TaskType, TaskInv, StageInv, RoomInv, CountInv, Receives
<1>9. ASSUME NEW s \in Slots, Forget(s) PROVE TaskInv'
  BY <1>0, <1>9 DEF Forget, Ended, TaskType, TaskInv, StageInv, RoomInv, CountInv, Receives
<1> QED
  BY <1>1, <1>2, <1>3, <1>4, <1>5, <1>6, <1>7, <1>8, <1>9, NextSteps

-----------------------------------------------------------------------------
(* The map of sessions, and the session a datagram is for *)

\* What is said of a task something refers to.
MapInv == KindInv /\ HandInv /\ EntriesLive

\* A fresh task is nobody's.
LEMMA SpawnKeepsMap ==
  ASSUME TaskType, LoopType, MapInv, Unused # {}, NEW p \in Peers, NEW ds \in Seq(Datagrams),
         Spawn(Fresh, p, ds)
  PROVE  /\ \A q \in Peers : entry[q] # NoSlot => pc'[entry[q]] # "free" /\ peer'[entry[q]] = q
         /\ loop = "send" => /\ hand.to \in Slots
                             /\ pc'[hand.to] # "free" => peer'[hand.to] = From[hand.d]
<1>1. /\ ~Referred(Fresh) /\ Fresh \in Slots
      /\ \A s \in Slots \ {Fresh} : pc'[s] = pc[s] /\ peer'[s] = peer[s]
  BY Spawned
<1>2. \A q \in Peers : entry[q] # Fresh /\ entry[q] \in Slots \cup {NoSlot}
  BY <1>1 DEF Referred, LoopType
<1>3. loop = "send" => hand # NoHand /\ hand.to # Fresh
  BY <1>1 DEF Referred, LoopType
<1> QED
  BY <1>1, <1>2, <1>3 DEF MapInv, HandInv, EntriesLive

LEMMA MapInvKept ==
  ASSUME IInv, [Next]_vars
  PROVE  MapInv'
<1>0. MapInv /\ TaskType /\ LoopType /\ TaskInv
  BY DEF IInv, MapInv, TaskInv
<1>1. ASSUME NEW p \in Peers, AcceptConn(p) PROVE MapInv'
  <2>1. /\ \A q \in Peers : entry[q] # NoSlot => pc'[entry[q]] # "free" /\ peer'[entry[q]] = q
        /\ loop = "send" => /\ hand.to \in Slots
                            /\ pc'[hand.to] # "free" => peer'[hand.to] = From[hand.d]
    BY <1>0, <1>1, Empty, SpawnKeepsMap DEF AcceptConn
  <2> QED
    BY <1>0, <1>1, <2>1 DEF AcceptConn, listenerVars, MapInv, KindInv, HandInv, EntriesLive
<1>2. ASSUME NEW d \in Datagrams, Receive(d) PROVE MapInv'
  <2>1. From[d] \in Peers /\ entry[From[d]] \in Slots \cup {NoSlot}
    BY <1>0, SessionsAssumption DEF LoopType
  <2>2. hand'.d = d /\ hand'.to = entry[From[d]] /\ UNCHANGED <<kind, entry, pc, peer>>
        /\ kind = "datagram" /\ (loop' = "send" => entry[From[d]] # NoSlot)
    BY <1>2 DEF Receive, taskVars
  <2> QED
    BY <1>0, <2>1, <2>2 DEF MapInv, KindInv, HandInv, EntriesLive
<1>3. CASE Deliver \/ DeliverFails
  BY <1>0, <1>3 DEF Deliver, DeliverFails, taskVars, MapInv, KindInv, HandInv, EntriesLive, LoopType
<1>4. CASE Admit
  <2>1. hand # NoHand /\ kind # "stream" /\ kind' = kind /\ loop' = "recv"
    BY <1>0, <1>4 DEF Admit, LoopType, MapInv, KindInv
  <2>2. CASE UNCHANGED <<entry, taskVars>>
    BY <1>0, <2>1, <2>2 DEF taskVars, MapInv, KindInv, HandInv, EntriesLive
  <2>3. CASE /\ Unused # {} /\ entry' = [entry EXCEPT ![From[hand.d]] = Fresh]
             /\ Spawn(Fresh, From[hand.d], <<hand.d>>)
             /\ From[hand.d] \in Peers /\ <<hand.d>> \in Seq(Datagrams)
    <3>1. \A q \in Peers : entry[q] # NoSlot => pc'[entry[q]] # "free" /\ peer'[entry[q]] = q
      BY <1>0, <2>3, SpawnKeepsMap
    <3>2. pc'[Fresh] = "spawned" /\ peer'[Fresh] = From[hand.d]
      BY <1>0, <2>3, Spawned
    <3> QED
      BY <1>0, <2>1, <2>3, <3>1, <3>2 DEF LoopType, MapInv, KindInv, HandInv, EntriesLive
  <2> QED
    BY <1>0, <1>4, <2>2, <2>3, Admitted
<1>5. CASE LoopStep
  BY <1>0, <1>5 DEF LoopStep, LoopOff, Cancel, Edit, vars, listenerVars, taskVars, MapInv, KindInv,
                    HandInv, EntriesLive
<1>6. ASSUME NEW s \in Slots, EndsStep(s) PROVE MapInv'
  <2>1. /\ UNCHANGED <<kind, loop, hand, entry>>
        /\ \A t \in Slots \ {s} : pc'[t] = pc[t] /\ peer'[t] = peer[t]
        /\ pc[s] # "free"
    BY <1>0, <1>6 DEF EndsStep, Ends, listenerVars, TaskType
  <2>2. CASE kind = "stream"
    BY <1>0, <2>1, <2>2 DEF MapInv, KindInv, HandInv, EntriesLive, LoopType
  <2>3. CASE kind = "datagram"
    <3>1. pc'[s] = "closing" /\ UNCHANGED peer
      BY <1>0, <1>6, <2>3 DEF EndsStep, Ends, TaskType
    <3> QED
      BY <1>0, <2>1, <2>3, <3>1 DEF MapInv, KindInv, HandInv, EntriesLive, LoopType
  <2> QED
    BY <1>0, <2>2, <2>3 DEF LoopType
<1>7. ASSUME NEW s \in Slots, Run(s) \/ HeadRead(s) \/ Opens(s) PROVE MapInv'
  <2>1. /\ UNCHANGED <<kind, loop, hand, entry, peer>>
        /\ \A t \in Slots \ {s} : pc'[t] = pc[t]
        /\ pc[s] # "free" /\ pc'[s] # "free"
    BY <1>0, <1>7 DEF Run, HeadRead, Opens, listenerVars, TaskType
  <2> QED
    BY <1>0, <2>1 DEF MapInv, KindInv, HandInv, EntriesLive, LoopType
<1>8. ASSUME NEW s \in Slots, UpForwards(s) \/ HalfStep(s) PROVE MapInv'
  BY <1>0, <1>8 DEF UpForwards, HalfStep, HalfEnds, listenerVars, MapInv, KindInv, HandInv, EntriesLive
<1>9. ASSUME NEW s \in Slots, Forget(s) PROVE MapInv'
  <2>1. /\ UNCHANGED <<kind, loop, hand>> /\ pc'[s] = "free"
        /\ entry' = [entry EXCEPT ![peer[s]] = NoSlot]
        /\ \A t \in Slots \ {s} : pc'[t] = pc[t] /\ peer'[t] = peer[t]
    BY <1>0, <1>9 DEF Forget, Ended, TaskType
  <2>2. \A p \in Peers : entry'[p] \in {NoSlot, entry[p]} /\ (entry[p] = s => entry'[p] = NoSlot)
    BY <1>0, <2>1, SessionsAssumption DEF LoopType, MapInv, EntriesLive
  <2> QED
    BY <1>0, <2>1, <2>2 DEF MapInv, KindInv, HandInv, EntriesLive, LoopType
<1> QED
  BY <1>1, <1>2, <1>3, <1>4, <1>5, <1>6, <1>7, <1>8, <1>9, NextSteps

-----------------------------------------------------------------------------
(* The limit of a TCP or HTTP mapping *)

LEMMA LiveFinite == IsFiniteSet(Live) /\ Cardinality(Live) \in Nat
  BY SessionsAssumption, FS_Subset, FS_CardinalityType DEF Live

LEMMA FewerLive ==
  ASSUME StreamLimit, LoopType, UNCHANGED <<kind, limit>>, Live' \subseteq Live
  PROVE  StreamLimit'
<1>1. Cardinality(Live') <= Cardinality(Live) /\ Cardinality(Live') \in Nat
  BY LiveFinite, FS_Subset, FS_CardinalityType
<1> QED
  BY <1>1, LiveFinite, SessionsAssumption DEF StreamLimit, LoopType

LEMMA StreamLimitKept ==
  ASSUME IInv, [Next]_vars
  PROVE  StreamLimit'
<1>0. StreamLimit /\ LoopType /\ TaskType /\ KindInv
  BY DEF IInv
<1>1. ASSUME NEW p \in Peers, AcceptConn(p) PROVE StreamLimit'
  <2>1. /\ Fresh \in Slots /\ pc[Fresh] = "free" /\ pc'[Fresh] = "spawned"
        /\ \A s \in Slots \ {Fresh} : pc'[s] = pc[s]
    BY <1>0, <1>1, Empty, Spawned DEF AcceptConn
  <2>2. Live' = Live \cup {Fresh} /\ Fresh \notin Live
    BY <2>1 DEF Live
  <2>3. Cardinality(Live') = Cardinality(Live) + 1
    BY <2>2, LiveFinite, FS_AddElement
  <2> QED
    BY <1>0, <1>1, <2>3, LiveFinite, SessionsAssumption
       DEF AcceptConn, HasPermit, listenerVars, StreamLimit, LoopType
<1>2. CASE Admit
  BY <1>0, <1>2 DEF Admit, LoopType, KindInv, StreamLimit
<1>3. CASE (\E d \in Datagrams : Receive(d)) \/ Deliver \/ DeliverFails \/ LoopStep
  <2>1. UNCHANGED <<pc, kind, limit>>
    BY <1>3 DEF Receive, Deliver, DeliverFails, LoopStep, LoopOff, Cancel, Edit, vars, listenerVars,
                taskVars
  <2> QED
    BY <1>0, <2>1, FewerLive DEF Live
<1>4. ASSUME NEW s \in Slots, Run(s) \/ HeadRead(s) \/ Opens(s) \/ EndsStep(s) \/ Forget(s)
      PROVE  StreamLimit'
  <2>1. pc[s] # "free" /\ (\A t \in Slots \ {s} : pc'[t] = pc[t]) /\ UNCHANGED <<kind, limit>>
    BY <1>0, <1>4 DEF Run, HeadRead, Opens, EndsStep, Ends, Forget, Ended, listenerVars, TaskType
  <2> QED
    BY <1>0, <2>1, FewerLive DEF Live
<1>5. ASSUME NEW s \in Slots, UpForwards(s) \/ HalfStep(s) PROVE StreamLimit'
  <2>1. UNCHANGED <<pc, kind, limit>>
    BY <1>5 DEF UpForwards, HalfStep, HalfEnds, listenerVars
  <2> QED
    BY <1>0, <2>1, FewerLive DEF Live
<1> QED
  BY <1>1, <1>2, <1>3, <1>4, <1>5, NextSteps

-----------------------------------------------------------------------------
(* Where a datagram is *)

\* DeliveredOnce, by the channels' contents.
LEMMA OnceByContents ==
  DeliveredOnce <=>
    \A s \in Slots :
      /\ Once(queue[s]) /\ Contents(s) = Within(queue[s])
      /\ \A d \in Contents(s) : From[d] = peer[s]
      /\ \A t \in Slots \ {s} : Contents(s) \cap Contents(t) = {}
      /\ hand # NoHand => hand.d \notin Contents(s)
  BY DEF DeliveredOnce, Once, Contents, Within

\* Steps after which no channel has more, nor the listener.
LEMMA NoneAdded ==
  ASSUME DeliveredOnce, hand' \in {hand, NoHand},
         \A s \in Slots : /\ Once(queue[s]) => Once(queue'[s])
                          /\ Within(queue'[s]) \subseteq Within(queue[s])
                          /\ peer'[s] = peer[s] \/ queue'[s] = <<>>
  PROVE  DeliveredOnce'
<1>1. \A s \in Slots : Contents(s) = Within(queue[s]) /\ Contents(s)' = Within(queue'[s])
  BY DEF Contents, Within
<1>2. \A s \in Slots : queue'[s] = <<>> => Contents(s)' = {}
  BY <1>1, Empty
<1>3. \A s \in Slots : Once(queue'[s]) /\ Contents(s)' \subseteq Contents(s)
  BY <1>1, OnceByContents
<1>4. \A s \in Slots : \A d \in Contents(s)' : From[d] = peer'[s]
  BY <1>2, <1>3 DEF DeliveredOnce
<1>5. \A s \in Slots : \A t \in Slots \ {s} : Contents(s)' \cap Contents(t)' = {}
  BY <1>3 DEF DeliveredOnce
<1>6. \A s \in Slots : hand' # NoHand => hand'.d \notin Contents(s)'
  BY <1>3 DEF DeliveredOnce
<1> QED
  BY <1>3, <1>4, <1>5, <1>6 DEF DeliveredOnce, Once

\* What the listener has in hand is put into the channel of a session of its source.
LEMMA HandMoves ==
  ASSUME DeliveredOnce, hand # NoHand, hand' = NoHand, NEW s \in Slots,
         Once(queue'[s]), Within(queue'[s]) \subseteq Contents(s) \cup {hand.d},
         From[hand.d] = peer'[s], peer'[s] = peer[s] \/ Contents(s) = {},
         \A t \in Slots \ {s} : queue'[t] = queue[t] /\ peer'[t] = peer[t]
  PROVE  DeliveredOnce'
<1>1. \A t \in Slots : Contents(t)' = Within(queue'[t]) /\ Contents(t) = Within(queue[t])
  BY DEF Contents, Within
<1>2. \A t \in Slots \ {s} : Contents(t)' = Contents(t)
  BY <1>1
<1>3. Contents(s)' \subseteq Contents(s) \cup {hand.d}
  BY <1>1
<1>4. \A t \in Slots : Once(queue'[t])
  BY OnceByContents
<1>5. \A t \in Slots : \A d \in Contents(t)' : From[d] = peer'[t]
  BY <1>2, <1>3 DEF DeliveredOnce
<1>6. \A t \in Slots : \A u \in Slots \ {t} : Contents(t)' \cap Contents(u)' = {}
  BY <1>2, <1>3 DEF DeliveredOnce
<1> QED
  BY <1>4, <1>5, <1>6 DEF DeliveredOnce, Once

LEMMA DeliveredOnceKept ==
  ASSUME IInv, [Next]_vars
  PROVE  DeliveredOnce'
<1>0. DeliveredOnce /\ LoopType /\ TaskType /\ StageInv /\ HandInv
  BY DEF IInv
<1>1. ASSUME NEW p \in Peers, AcceptConn(p) PROVE DeliveredOnce'
  <2>1. /\ Fresh \in Slots /\ queue'[Fresh] = <<>> /\ hand' = hand
        /\ \A s \in Slots \ {Fresh} : peer'[s] = peer[s] /\ queue'[s] = queue[s]
    BY <1>0, <1>1, Empty, Spawned DEF AcceptConn, listenerVars
  <2> QED
    BY <1>0, <2>1, Empty, NoneAdded
<1>2. ASSUME NEW d \in Datagrams, Receive(d) PROVE DeliveredOnce'
  <2>1. /\ \A s \in Slots : d \notin Contents(s)
        /\ hand'.d = d /\ UNCHANGED <<queue, peer>>
    BY <1>2 DEF Receive, taskVars
  <2> QED
    BY <1>0, <2>1 DEF DeliveredOnce, Contents
<1>3. CASE Deliver
  <2> DEFINE s == hand.to
  <2>1. /\ hand # NoHand /\ hand.d \in Datagrams /\ s \in Slots /\ Receives(s)
        /\ queue[s] \in Seq(Datagrams)
    BY <1>0, <1>3, HandFacts DEF Deliver, LoopType, HandInv, TaskType
  <2>2. /\ queue'[s] = Append(queue[s], hand.d) /\ UNCHANGED peer /\ hand' = NoHand
        /\ \A t \in Slots \ {s} : queue'[t] = queue[t]
    BY <1>0, <1>3, <2>1 DEF Deliver, TaskType
  <2>3. From[hand.d] = peer'[s]
    BY <1>0, <1>3, <2>1, <2>2 DEF Deliver, HandInv, Receives
  <2>4. hand.d \notin Contents(s) /\ Once(queue[s]) /\ Contents(s) = Within(queue[s])
    BY <1>0, <2>1, OnceByContents
  <2> HIDE DEF s
  <2>5. Once(queue'[s]) /\ Within(queue'[s]) \subseteq Contents(s) \cup {hand.d}
    BY <2>1, <2>2, <2>4, Appended
  <2> QED
    BY <1>0, <2>1, <2>2, <2>3, <2>5, HandMoves
<1>4. CASE Admit
  <2>1. hand # NoHand /\ hand' = NoHand
    BY <1>0, <1>4 DEF Admit, LoopType
  <2>2. CASE UNCHANGED <<entry, taskVars>>
    BY <1>0, <2>1, <2>2, NoneAdded DEF taskVars
  <2>3. CASE /\ Unused # {} /\ Spawn(Fresh, From[hand.d], <<hand.d>>)
             /\ hand.d \in Datagrams /\ From[hand.d] \in Peers /\ <<hand.d>> \in Seq(Datagrams)
    <3>1. /\ Fresh \in Slots /\ pc[Fresh] = "free"
          /\ peer'[Fresh] = From[hand.d] /\ queue'[Fresh] = <<hand.d>>
          /\ \A s \in Slots \ {Fresh} : peer'[s] = peer[s] /\ queue'[s] = queue[s]
      BY <1>0, <2>3, Spawned
    <3>2. Contents(Fresh) = {}
      BY <1>0, <3>1, Empty DEF StageInv, Receives, Contents, Within
    <3>3. Once(queue'[Fresh]) /\ Within(queue'[Fresh]) = {hand.d}
      BY <2>3, <3>1, Single
    <3> QED
      BY <1>0, <2>1, <3>1, <3>2, <3>3, HandMoves
  <2> QED
    BY <1>0, <1>4, <2>2, <2>3, Admitted
<1>5. CASE DeliverFails \/ LoopStep
  <2>1. UNCHANGED <<queue, peer>> /\ hand' \in {hand, NoHand}
    BY <1>5 DEF DeliverFails, LoopStep, LoopOff, Cancel, Edit, vars, listenerVars, taskVars
  <2> QED
    BY <1>0, <2>1, NoneAdded
<1>6. ASSUME NEW s \in Slots, UpForwards(s) PROVE DeliveredOnce'
  <2>1. /\ queue'[s] = Tail(queue[s]) /\ queue[s] # <<>> /\ queue[s] \in Seq(Datagrams)
        /\ \A t \in Slots \ {s} : queue'[t] = queue[t]
        /\ UNCHANGED <<peer, hand>>
    BY <1>0, <1>6 DEF UpForwards, TaskType, listenerVars
  <2>2. (Once(queue[s]) => Once(queue'[s])) /\ Within(queue'[s]) \subseteq Within(queue[s])
    BY <2>1, Taken
  <2> QED
    BY <1>0, <2>1, <2>2, NoneAdded
<1>7. ASSUME NEW s \in Slots, EndsStep(s) PROVE DeliveredOnce'
  <2>1. /\ queue'[s] = <<>> /\ UNCHANGED hand
        /\ \A t \in Slots \ {s} : queue'[t] = queue[t] /\ peer'[t] = peer[t]
    BY <1>0, <1>7 DEF EndsStep, Ends, TaskType, listenerVars
  <2> QED
    BY <1>0, <2>1, Empty, NoneAdded
<1>8. ASSUME NEW s \in Slots, Forget(s) PROVE DeliveredOnce'
  <2>1. /\ queue[s] = <<>> /\ UNCHANGED <<queue, hand>>
        /\ \A t \in Slots \ {s} : peer'[t] = peer[t]
    BY <1>0, <1>8 DEF Forget, Ended, TaskType, StageInv, Receives
  <2> QED
    BY <1>0, <2>1, NoneAdded
<1>9. ASSUME NEW s \in Slots, Run(s) \/ HeadRead(s) \/ Opens(s) \/ HalfStep(s) PROVE DeliveredOnce'
  <2>1. UNCHANGED <<queue, peer, hand>>
    BY <1>9 DEF Run, HeadRead, Opens, HalfStep, HalfEnds, listenerVars
  <2> QED
    BY <1>0, <2>1, NoneAdded
<1> QED
  BY <1>1, <1>2, <1>3, <1>4, <1>5, <1>6, <1>7, <1>8, <1>9, NextSteps

-----------------------------------------------------------------------------
LEMMA StepHolds == IInv /\ [Next]_vars => IInv'
  BY LoopTypeKept, TaskTypeKept, TaskInvKept, MapInvKept, StreamLimitKept, DeliveredOnceKept
     DEF IInv, TaskInv, MapInv

LEMMA IInvHolds == Spec => []IInv
  BY InitHolds, StepHolds, PTL DEF Spec

\* Every variable keeps its type; active_conns and the table of connections hold
\* exactly the tasks that have begun and not ended, whichever way they end, and no
\* channel holds more than its capacity.
THEOREM SessionsTypeCorrect == Spec => []TypeOK
<1>1. IInv => TypeOK
  BY DEF IInv, LoopType, TaskType, StageInv, RoomInv, CountInv, TypeOK
<1> QED
  BY <1>1, IInvHolds, PTL

\* A TCP or HTTP mapping never serves more connections than its limit: the permit
\* is taken before the task is spawned, and kept until it ends.
THEOREM StreamLimitIsKept == Spec => []StreamLimit
<1>1. IInv => StreamLimit
  BY DEF IInv
<1> QED
  BY <1>1, IInvHolds, PTL

\* The map of sessions leads from a source to a session of its that has not ended,
\* though a session removes its source's entry whichever session it leads to.
THEOREM EntriesAreLive == Spec => []EntriesLive
<1>1. IInv => EntriesLive
  BY DEF IInv
<1> QED
  BY <1>1, IInvHolds, PTL

\* A datagram is in one channel once, or in the listener's hand, and only a session
\* of its own source has it, though the listener keeps it for a second attempt.
THEOREM DatagramsAreDeliveredOnce == Spec => []DeliveredOnce
<1>1. IInv => DeliveredOnce
  BY DEF IInv
<1> QED
  BY <1>1, IInvHolds, PTL
=============================================================================
