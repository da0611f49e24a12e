--------------------------- MODULE ReverseProofs ----------------------------
(***************************************************************************)
(* Safety of the reverse mappings for every number of connections,         *)
(* streams, tenants and listeners.                                         *)
(***************************************************************************)
EXTENDS Reverse, TLAPS, FiniteSetTheorems

\* A register stream without its answer yet, or answered OK, is the driver's,
\* which waits for the answer or has it.
RegisterInv ==
  \A c \in Conns : aSide[c] = "up" /\ reg[c] \in {"sent", "ok"} =>
    conn = c /\ driver \in {"waiting", "accepting"}

\* Before B answered OK it knows no client of the connection and listens for none;
\* afterwards its listeners are that client's.
ListenerInv ==
  /\ \A c \in Conns : reg[c] # "ok" =>
       client[c] = NoToken /\ \A l \in Listens : listener[c][l] = "none"
  /\ \A c \in Conns, l \in Listens : listener[c][l] # "none" =>
       client[c] \in Valid /\ l \in ListensOf[client[c]]

\* A name no stream has is not known at A either.
NameInv ==
  \A s \in Streams : bStage[s] = "none" => aStage[s] = "none" /\ via[s] = NoConn

\* An open policy allows what is open, and a copy of one what A is about to dial.
PolicyInv ==
  \A s \in Streams :
    /\ policy = "open" => ~denied[s]
    /\ aStage[s] = "checking" /\ snap[s] = "open" => ~denied[s]

IInv == /\ TypeOK /\ RegisterInv /\ ListenerInv /\ NameInv /\ PolicyInv
        /\ GaugesExact /\ Isolation /\ DenyAll

\* The steps, one disjunct each.
LEMMA NextSteps ==
  ASSUME Next
  PROVE  \/ Invalidate \/ SetCreds \/ SetReverse \/ RestartA
         \/ DriverGets \/ SendRegister \/ Registered \/ DriverStartsAgain
         \/ \E c \in Conns :
              \/ LosePath(c) \/ ANotices(c) \/ BNotices(c) \/ HandleRegister(c) \/ BLoopEnds(c)
              \/ \E l \in Listens : Bind(c, l) \/ ListenerCancelled(c, l) \/ ListenerFails(c, l)
         \/ \E s \in Streams :
              \/ LocalConnects(s) \/ AcceptStream(s) \/ StreamRefused(s) \/ StreamAccepted(s)
              \/ StreamOpens(s) \/ AStreamEnds(s) \/ BStreamEnds(s) \/ Forget(s)
  BY DEF Next, Driver, Listener, Stream, StreamOver

-----------------------------------------------------------------------------
(* Types *)

\* The two ends of a connection.
NetType ==
  /\ aSide \in [Conns -> {"free", "up", "closed"}]
  /\ bSide \in [Conns -> {"free", "up", "closed", "ended"}]
  /\ lost \in [Conns -> BOOLEAN]

DriverType ==
  /\ token \in Tokens
  /\ policy \in {"off", "empty", "open"}
  /\ cached \in Conns \cup {NoConn} /\ conn \in Conns \cup {NoConn}
  /\ made \in [Conns -> Tokens \cup {NoToken}]
  /\ driver \in {"sleep", "got", "waiting", "accepting"}
  /\ (driver = "sleep") = (conn = NoConn)
  /\ restarts \in 0..MaxRestarts

RegisterType ==
  /\ reg \in [Conns -> {"none", "sent", "ok", "err"}]
  /\ sent \in [Conns -> Tokens \cup {NoToken}]
  /\ client \in [Conns -> Valid \cup {NoToken}]
  /\ listener \in [Conns -> [Listens -> {"none", "spawned", "listening", "exited"}]]

StreamType ==
  /\ aStage \in [Streams -> {"none", "checking", "relay", "over"}]
  /\ bStage \in [Streams -> {"none", "opening", "relay", "over"}]
  /\ answer \in [Streams -> {"none", "ok", "err"}]
  /\ via \in [Streams -> Conns \cup {NoConn}]
  /\ at \in [Streams -> Listens \cup {NoListen}]
  /\ snap \in [Streams -> {"off", "empty", "open"}]
  /\ denied \in [Streams -> BOOLEAN]
  /\ aActive \in Nat /\ bActive \in Nat

LEMMA CloseUnheldType ==
  ASSUME NetType, CloseUnheld
  PROVE  /\ aSide' \in [Conns -> {"free", "up", "closed"}]
         /\ \A c \in Conns : aSide'[c] = "up" => aSide[c] = "up"
  BY DEF NetType, CloseUnheld

LEMMA TypeParts == TypeOK <=> NetType /\ DriverType /\ RegisterType /\ StreamType
  BY DEF TypeOK, NetType, DriverType, RegisterType, StreamType

LEMMA NetStep ==
  ASSUME NetType, Next
  PROVE  NetType'
<1> USE DEF NetType, netVars
<1>1. CASE Invalidate \/ SetCreds \/ DriverStartsAgain
  BY <1>1, CloseUnheldType DEF Invalidate, SetCreds, DriverStartsAgain
<1>2. CASE SetReverse \/ RestartA \/ DriverGets \/ SendRegister \/ Registered
  BY <1>2 DEF SetReverse, RestartA, DriverGets, SendRegister, Registered
<1>3. ASSUME NEW c \in Conns,
             \/ LosePath(c) \/ ANotices(c) \/ BNotices(c) \/ HandleRegister(c) \/ BLoopEnds(c)
             \/ \E l \in Listens : Bind(c, l) \/ ListenerCancelled(c, l) \/ ListenerFails(c, l)
      PROVE  NetType'
  BY <1>3 DEF LosePath, ANotices, BNotices, HandleRegister, BLoopEnds, Bind,
      ListenerCancelled, ListenerFails
<1>4. ASSUME NEW s \in Streams, StreamRefused(s) \/ AStreamEnds(s)
      PROVE  NetType'
  BY <1>4, CloseUnheldType DEF StreamRefused, AStreamEnds, AEnds
<1>5. ASSUME NEW s \in Streams,
             \/ LocalConnects(s) \/ AcceptStream(s) \/ StreamAccepted(s)
             \/ StreamOpens(s) \/ BStreamEnds(s) \/ Forget(s)
      PROVE  NetType'
  BY <1>5 DEF LocalConnects, AcceptStream, StreamAccepted, StreamOpens, BStreamEnds, Forget
<1> QED
  BY <1>1, <1>2, <1>3, <1>4, <1>5, NextSteps

LEMMA DriverStep ==
  ASSUME DriverType, Next
  PROVE  DriverType'
<1> USE ReverseAssumption DEF DriverType, driverVars
<1>1. CASE Invalidate \/ SetCreds \/ DriverStartsAgain \/ SetReverse \/ RestartA
  BY <1>1 DEF Invalidate, SetCreds, DriverStartsAgain, SetReverse, RestartA
<1>2. CASE DriverGets
  BY <1>2 DEF DriverGets, CacheAlive
<1>3. CASE SendRegister \/ Registered
  BY <1>3 DEF SendRegister, Registered
<1>4. ASSUME NEW c \in Conns,
             \/ LosePath(c) \/ ANotices(c) \/ BNotices(c) \/ HandleRegister(c) \/ BLoopEnds(c)
             \/ \E l \in Listens : Bind(c, l) \/ ListenerCancelled(c, l) \/ ListenerFails(c, l)
      PROVE  DriverType'
  BY <1>4 DEF LosePath, ANotices, BNotices, HandleRegister, BLoopEnds, Bind,
      ListenerCancelled, ListenerFails
<1>5. ASSUME NEW s \in Streams,
             \/ LocalConnects(s) \/ AcceptStream(s) \/ StreamRefused(s) \/ StreamAccepted(s)
             \/ StreamOpens(s) \/ AStreamEnds(s) \/ BStreamEnds(s) \/ Forget(s)
      PROVE  DriverType'
  BY <1>5 DEF LocalConnects, AcceptStream, StreamRefused, StreamAccepted, StreamOpens,
              AStreamEnds, AEnds, BStreamEnds, Forget
<1> QED
  BY <1>1, <1>2, <1>3, <1>4, <1>5, NextSteps

LEMMA RegisterStep ==
  ASSUME RegisterType, DriverType, Next
  PROVE  RegisterType'
<1>0. ASSUME UNCHANGED regVars
      PROVE  RegisterType'
  BY <1>0 DEF regVars, RegisterType
<1>1. CASE \/ Invalidate \/ SetCreds \/ DriverStartsAgain \/ SetReverse \/ RestartA \/ Registered
           \/ \E c \in Conns : LosePath(c) \/ ANotices(c) \/ BNotices(c) \/ BLoopEnds(c)
  <2>1. UNCHANGED regVars
    BY <1>1 DEF Invalidate, SetCreds, DriverStartsAgain, SetReverse, RestartA, Registered,
                LosePath, ANotices, BNotices, BLoopEnds, regVars
  <2> QED
    BY <2>1, <1>0
<1>2. CASE DriverGets
  <2>1. CASE UNCHANGED regVars
    BY <2>1, <1>0
  <2>2. CASE ~CacheAlive
    <3>1. PICK c \in Conns :
            /\ reg' = [reg EXCEPT ![c] = "none"]
            /\ sent' = [sent EXCEPT ![c] = NoToken]
            /\ client' = [client EXCEPT ![c] = NoToken]
            /\ listener' = [listener EXCEPT ![c] = [l \in Listens |-> "none"]]
      BY <1>2, <2>2 DEF DriverGets
    <3> DEFINE quiet == [l \in Listens |-> "none"]
    <3>2. quiet \in [Listens -> {"none", "spawned", "listening", "exited"}]
      OBVIOUS
    <3>3. listener' = [listener EXCEPT ![c] = quiet]
      BY <3>1
    <3> HIDE DEF quiet
    <3> QED
      BY <3>1, <3>2, <3>3 DEF RegisterType
  <2> QED
    BY <1>2, <2>1, <2>2 DEF DriverGets
<1>3. CASE SendRegister
  BY <1>3 DEF SendRegister, RegisterType, DriverType
<1>4. ASSUME NEW c \in Conns, HandleRegister(c)
      PROVE  RegisterType'
  <2>1. CASE /\ sent[c] \in Valid
             /\ reg' = [reg EXCEPT ![c] = "ok"]
             /\ client' = [client EXCEPT ![c] = sent[c]]
             /\ listener' = [listener EXCEPT ![c] =
                   [l \in Listens |-> IF l \in ListensOf[sent[c]] THEN "spawned" ELSE @[l]]]
    <3>1. client' \in [Conns -> Valid \cup {NoToken}]
      BY <2>1 DEF RegisterType
    <3>2. listener' \in [Conns -> [Listens -> {"none", "spawned", "listening", "exited"}]]
      BY <2>1 DEF RegisterType
    <3> QED
      BY <1>4, <2>1, <3>1, <3>2 DEF HandleRegister, RegisterType
  <2>2. CASE reg' = [reg EXCEPT ![c] = "err"] /\ UNCHANGED <<client, listener>>
    BY <1>4, <2>2 DEF HandleRegister, RegisterType
  <2> QED
    BY <1>4, <2>1, <2>2 DEF HandleRegister
<1>5. ASSUME NEW c \in Conns, NEW l \in Listens,
             Bind(c, l) \/ ListenerCancelled(c, l) \/ ListenerFails(c, l)
      PROVE  RegisterType'
  <2>1. PICK x \in {"exited", "listening"} : listener' = [listener EXCEPT ![c][l] = x]
    BY <1>5 DEF Bind,
      ListenerCancelled, ListenerFails
  <2>2. listener' \in [Conns -> [Listens -> {"none", "spawned", "listening", "exited"}]]
    BY <2>1 DEF RegisterType
  <2> QED
    BY <1>5, <2>2 DEF Bind, ListenerCancelled, ListenerFails, RegisterType
<1>6. ASSUME NEW s \in Streams,
             \/ LocalConnects(s) \/ AcceptStream(s) \/ StreamRefused(s) \/ StreamAccepted(s)
             \/ StreamOpens(s) \/ AStreamEnds(s) \/ BStreamEnds(s) \/ Forget(s)
      PROVE  RegisterType'
  <2>1. UNCHANGED regVars
    BY <1>6 DEF LocalConnects, AcceptStream, StreamRefused, StreamAccepted, StreamOpens,
                AStreamEnds, AEnds, BStreamEnds, Forget, regVars
  <2> QED
    BY <2>1, <1>0
<1> QED
  BY <1>1, <1>2, <1>3, <1>4, <1>5, <1>6, NextSteps

\* Steps of the driver, the network and B's accept loop leave the streams.
LEMMA StreamsLeft ==
  ASSUME \/ Invalidate \/ SetCreds \/ DriverStartsAgain \/ DriverGets \/ SendRegister
         \/ Registered
         \/ \E c \in Conns :
              \/ LosePath(c) \/ ANotices(c) \/ BNotices(c) \/ HandleRegister(c) \/ BLoopEnds(c)
              \/ \E l \in Listens : Bind(c, l) \/ ListenerCancelled(c, l) \/ ListenerFails(c, l)
  PROVE  UNCHANGED streamVars
  BY DEF Invalidate, SetCreds, DriverStartsAgain, DriverGets, SendRegister, Registered,
         LosePath, ANotices, BNotices, HandleRegister, BLoopEnds, Bind, ListenerCancelled, ListenerFails,
         streamVars

LEMMA StreamStep ==
  ASSUME StreamType, DriverType, Next
  PROVE  StreamType'
<1>1. ASSUME UNCHANGED streamVars
      PROVE  StreamType'
  BY <1>1 DEF streamVars, StreamType
<1>2. CASE SetReverse
  <2>1. denied' \in [Streams -> BOOLEAN]
    BY <1>2 DEF SetReverse
  <2> QED
    BY <1>2, <2>1 DEF SetReverse, StreamType
<1>a. CASE RestartA
  BY <1>a DEF RestartA, StreamType
<1>3. ASSUME NEW s \in Streams, LocalConnects(s)
      PROVE  StreamType'
  BY <1>3 DEF LocalConnects, StreamType
<1>4. ASSUME NEW s \in Streams, AcceptStream(s)
      PROVE  StreamType'
  <2>1. policy \in {"off", "empty", "open"}
    BY DEF DriverType
  <2> QED
    BY <1>4, <2>1 DEF AcceptStream, StreamType
<1>5. ASSUME NEW s \in Streams, Forget(s)
      PROVE  StreamType'
  BY <1>5 DEF Forget, StreamType
<1>6. ASSUME NEW s \in Streams, StreamRefused(s) \/ AStreamEnds(s)
      PROVE  StreamType'
  <2>1. aActive' \in Nat
    BY <1>6 DEF StreamRefused, AStreamEnds, StreamType
  <2>2. answer' \in [Streams -> {"none", "ok", "err"}]
    BY <1>6 DEF StreamRefused, AStreamEnds, StreamType
  <2> QED
    BY <1>6, <2>1, <2>2 DEF StreamRefused, AStreamEnds, AEnds, StreamType
<1>7. ASSUME NEW s \in Streams, StreamAccepted(s) \/ StreamOpens(s) \/ BStreamEnds(s)
      PROVE  StreamType'
  BY <1>7 DEF StreamAccepted, StreamOpens, BStreamEnds, StreamType
<1> QED
  BY <1>1, <1>2, <1>a, <1>3, <1>4, <1>5, <1>6, <1>7, NextSteps, StreamsLeft

LEMMA TypeStep ==
  ASSUME TypeOK, Next
  PROVE  TypeOK'
<1>1. NetType' /\ DriverType' /\ RegisterType' /\ StreamType'
  BY TypeParts, NetStep, DriverStep, RegisterStep, StreamStep
<1> QED
  BY <1>1, TypeParts, PTL

-----------------------------------------------------------------------------
(* Registration *)

\* No connection comes up again, and no register stream is answered or sent.
LEMMA RegisterKept ==
  ASSUME RegisterInv, UNCHANGED <<reg, conn, driver>>,
         \A c \in Conns : aSide'[c] = "up" => aSide[c] = "up"
  PROVE  RegisterInv'
  BY DEF RegisterInv

LEMMA RegisterInvStep ==
  ASSUME TypeOK, RegisterInv, Next
  PROVE  RegisterInv'
<1> USE TypeParts
<1>1. CASE Invalidate \/ SetCreds
  <2>1. UNCHANGED <<reg, conn, driver>> /\ CloseUnheld
    BY <1>1 DEF Invalidate, SetCreds, regVars
  <2> QED
    BY <2>1, CloseUnheldType, RegisterKept
<1>2. CASE SetReverse
  BY <1>2, RegisterKept DEF SetReverse, regVars, netVars
<1>3. CASE RestartA
  <2>1. \A c \in Conns : aSide'[c] # "up"
    BY <1>3 DEF RestartA
  <2> QED
    BY <2>1 DEF RegisterInv
<1>4. CASE DriverGets
  <2>1. driver = "sleep"
    BY <1>4 DEF DriverGets
  <2>2. \A c \in Conns : ~(aSide[c] = "up" /\ reg[c] \in {"sent", "ok"})
    BY <2>1 DEF RegisterInv
  <2>3. \A c \in Conns : \/ aSide'[c] = aSide[c] /\ reg'[c] = reg[c]
                         \/ reg'[c] = "none"
    BY <1>4 DEF DriverGets, netVars, regVars, TypeOK
  <2> QED
    BY <2>2, <2>3 DEF RegisterInv
<1>5. CASE SendRegister
  <2>1. driver = "got" /\ driver' = "waiting" /\ conn' = conn /\ aSide' = aSide
    BY <1>5 DEF SendRegister, netVars
  <2>2. \A c \in Conns : ~(aSide[c] = "up" /\ reg[c] \in {"sent", "ok"})
    BY <2>1 DEF RegisterInv
  <2>3. \A c \in Conns : c # conn => reg'[c] = reg[c]
    BY <1>5 DEF SendRegister, TypeOK
  <2> QED
    BY <2>1, <2>2, <2>3 DEF RegisterInv
<1>6. CASE Registered
  BY <1>6 DEF Registered, RegisterInv, netVars, regVars
<1>7. CASE DriverStartsAgain
  <2>1. CloseUnheld /\ reg' = reg
    BY <1>7 DEF DriverStartsAgain, regVars
  <2>2. \A c \in Conns : ~(aSide[c] = "up" /\ reg[c] \in {"sent", "ok"})
    BY <1>7 DEF DriverStartsAgain, DriverFails, RegisterInv
  <2> QED
    BY <2>1, <2>2, CloseUnheldType DEF RegisterInv
<1>8. ASSUME NEW c \in Conns, HandleRegister(c)
      PROVE  RegisterInv'
  <2>1. /\ reg[c] = "sent" /\ \A d \in Conns : d # c => reg'[d] = reg[d]
        /\ UNCHANGED <<aSide, conn, driver>>
    BY <1>8 DEF HandleRegister, TypeOK, netVars, driverVars
  <2> QED
    BY <2>1 DEF RegisterInv
<1>9. ASSUME NEW c \in Conns,
             \/ LosePath(c) \/ ANotices(c) \/ BNotices(c) \/ BLoopEnds(c)
             \/ \E l \in Listens : Bind(c, l) \/ ListenerCancelled(c, l) \/ ListenerFails(c, l)
      PROVE  RegisterInv'
  <2>1. UNCHANGED <<reg, conn, driver>> /\ \A d \in Conns : aSide'[d] = "up" => aSide[d] = "up"
    BY <1>9 DEF LosePath, ANotices, BNotices, BLoopEnds, Bind, ListenerCancelled, ListenerFails, regVars,
                driverVars, netVars, TypeOK
  <2> QED
    BY <2>1, RegisterKept
<1>10. ASSUME NEW s \in Streams, StreamRefused(s) \/ AStreamEnds(s)
       PROVE  RegisterInv'
  <2>1. UNCHANGED <<reg, conn, driver>> /\ CloseUnheld
    BY <1>10 DEF StreamRefused, AStreamEnds, AEnds, regVars, driverVars
  <2> QED
    BY <2>1, CloseUnheldType, RegisterKept
<1>11. ASSUME NEW s \in Streams,
              \/ LocalConnects(s) \/ AcceptStream(s) \/ StreamAccepted(s)
              \/ StreamOpens(s) \/ BStreamEnds(s) \/ Forget(s)
       PROVE  RegisterInv'
  <2>1. UNCHANGED <<reg, conn, driver, aSide>>
    BY <1>11 DEF LocalConnects, AcceptStream, StreamAccepted, StreamOpens, BStreamEnds, Forget,
                 regVars, driverVars, netVars
  <2> QED
    BY <2>1, RegisterKept
<1> QED
  BY <1>1, <1>2, <1>3, <1>4, <1>5, <1>6, <1>7, <1>8, <1>9, <1>10, <1>11, NextSteps

-----------------------------------------------------------------------------
(* Listeners and the streams they start *)

\* Steps of A's users and streams leave what B keeps of a registration.
LEMMA RegistersLeft ==
  ASSUME \/ Invalidate \/ SetCreds \/ SetReverse \/ RestartA \/ DriverStartsAgain \/ Registered
         \/ \E c \in Conns : LosePath(c) \/ ANotices(c) \/ BNotices(c) \/ BLoopEnds(c)
         \/ \E s \in Streams :
              \/ LocalConnects(s) \/ AcceptStream(s) \/ StreamRefused(s) \/ StreamAccepted(s)
              \/ StreamOpens(s) \/ AStreamEnds(s) \/ BStreamEnds(s) \/ Forget(s)
  PROVE  UNCHANGED regVars
  BY DEF Invalidate, SetCreds, DriverStartsAgain, SetReverse, RestartA, Registered,
         LosePath, ANotices, BNotices, BLoopEnds, LocalConnects, AcceptStream, StreamRefused,
         StreamAccepted, StreamOpens, AStreamEnds, AEnds, BStreamEnds, Forget, regVars

\* A stream's connection and listener are those it was opened with.
LEMMA OriginKept ==
  ASSUME StreamType, Next, NEW s \in Streams
  PROVE  \/ via'[s] = via[s] /\ at'[s] = at[s]
         \/ via'[s] = NoConn
         \/ \E c \in Conns, l \in Listens :
              listener[c][l] = "listening" /\ via'[s] = c /\ at'[s] = l /\ UNCHANGED regVars
<1>1. CASE UNCHANGED <<via, at>>
  BY <1>1
<1>2. ASSUME NEW x \in Streams, LocalConnects(x)
      PROVE  \/ via'[s] = via[s] /\ at'[s] = at[s]
             \/ \E c \in Conns, l \in Listens :
                  listener[c][l] = "listening" /\ via'[s] = c /\ at'[s] = l
  BY <1>2 DEF LocalConnects, StreamType
<1>3. ASSUME NEW x \in Streams, Forget(x)
      PROVE  \/ via'[s] = via[s] /\ at'[s] = at[s]
             \/ via'[s] = NoConn
  BY <1>3 DEF Forget, StreamType
<1>4. SetReverse \/ RestartA => UNCHANGED <<via, at>>
  BY DEF SetReverse, RestartA
<1>5. (\E x \in Streams : \/ AcceptStream(x) \/ StreamRefused(x) \/ StreamAccepted(x)
                          \/ StreamOpens(x) \/ AStreamEnds(x) \/ BStreamEnds(x)) =>
        UNCHANGED <<via, at>>
  BY DEF AcceptStream, StreamRefused, StreamAccepted, StreamOpens, AStreamEnds, AEnds, BStreamEnds
<1>6. UNCHANGED streamVars => UNCHANGED <<via, at>>
  BY DEF streamVars
<1> QED
  BY <1>1, <1>2, <1>3, <1>4, <1>5, <1>6, NextSteps, StreamsLeft, RegistersLeft

LEMMA ListenerStep ==
  ASSUME TypeOK, RegisterInv, ListenerInv, Isolation, Next
  PROVE  ListenerInv' /\ Isolation'
<1> DEFINE Served(s) == client[via[s]] \in Valid /\ at[s] \in ListensOf[client[via[s]]]
           Alone == \A c, d \in Conns, l \in Listens :
                      listener[c][l] = "listening" /\ listener[d][l] = "listening" => c = d
<1>a. RegisterType /\ DriverType /\ StreamType /\ NoToken \notin Valid /\ NoConn \notin Conns
  BY TypeParts, ReverseAssumption
<1>b. \A s \in Streams : via[s] \in Conns => Served(s)
  BY <1>a DEF Isolation
<1>c. ASSUME ListenerInv', Alone',
             \A c \in Conns : client'[c] = client[c] \/ \A s \in Streams : via[s] # c
      PROVE  Isolation'
  <2>1. ASSUME NEW s \in Streams, via'[s] # NoConn
        PROVE  Served(s)'
    <3>1. CASE via'[s] = via[s] /\ at'[s] = at[s]
      <4>1. via[s] \in Conns /\ client'[via[s]] = client[via[s]]
        BY <1>a, <1>c, <2>1, <3>1 DEF StreamType
      <4> QED
        BY <1>b, <3>1, <4>1
    <3>2. CASE \E c \in Conns, l \in Listens :
                 listener[c][l] = "listening" /\ via'[s] = c /\ at'[s] = l /\ UNCHANGED regVars
      BY <1>c, <3>2 DEF ListenerInv, regVars
    <3> QED
      BY <1>a, <2>1, <3>1, <3>2, OriginKept
  <2> QED
    BY <1>c, <2>1 DEF Isolation
<1>1. CASE UNCHANGED regVars
  <2>1. ListenerInv' /\ Alone'
    BY <1>1 DEF ListenerInv, Isolation, regVars
  <2> QED
    BY <1>1, <1>c, <2>1 DEF regVars
<1>2. CASE DriverGets /\ ~CacheAlive
  <2>1. PICK c \in Conns :
          /\ Unused(c)
          /\ reg' = [reg EXCEPT ![c] = "none"]
          /\ client' = [client EXCEPT ![c] = NoToken]
          /\ listener' = [listener EXCEPT ![c] = [l \in Listens |-> "none"]]
    BY <1>2 DEF DriverGets
  <2>2. /\ reg'[c] = "none" /\ client'[c] = NoToken /\ \A l \in Listens : listener'[c][l] = "none"
        /\ \A d \in Conns \ {c} :
             reg'[d] = reg[d] /\ client'[d] = client[d] /\ listener'[d] = listener[d]
    BY <1>a, <2>1 DEF RegisterType
  <2>3. ListenerInv'
    BY <2>2 DEF ListenerInv
  <2>4. Alone'
    BY <2>2 DEF Isolation
  <2> QED
    BY <1>c, <2>1, <2>2, <2>3, <2>4 DEF Unused
<1>3. CASE SendRegister
  <2>1. conn \in Conns /\ reg[conn] # "ok"
    BY <1>3, <1>a DEF SendRegister, DriverType, RegisterInv
  <2>2. /\ UNCHANGED <<client, listener>>
        /\ \A c \in Conns : c # conn => reg'[c] = reg[c]
    BY <1>3, <1>a DEF SendRegister, RegisterType
  <2>3. ListenerInv' /\ Alone'
    BY <2>1, <2>2 DEF ListenerInv, Isolation
  <2> QED
    BY <1>c, <2>2, <2>3
<1>4. ASSUME NEW c \in Conns, HandleRegister(c)
      PROVE  ListenerInv' /\ Isolation'
  <2>1. client[c] = NoToken /\ \A l \in Listens : listener[c][l] = "none"
    BY <1>4 DEF HandleRegister, ListenerInv
  <2>2. \A s \in Streams : via[s] # c
    BY <1>a, <1>b, <2>1
  <2>3. CASE /\ sent[c] \in Valid
             /\ reg' = [reg EXCEPT ![c] = "ok"]
             /\ client' = [client EXCEPT ![c] = sent[c]]
             /\ listener' = [listener EXCEPT ![c] =
                   [l \in Listens |-> IF l \in ListensOf[sent[c]] THEN "spawned" ELSE @[l]]]
    <3>1. /\ reg'[c] = "ok" /\ client'[c] = sent[c]
          /\ \A l \in Listens : listener'[c][l] = IF l \in ListensOf[sent[c]] THEN "spawned" ELSE "none"
          /\ \A d \in Conns \ {c} :
               reg'[d] = reg[d] /\ client'[d] = client[d] /\ listener'[d] = listener[d]
      BY <1>a, <2>1, <2>3 DEF RegisterType
    <3>2. ListenerInv'
      BY <2>3, <3>1 DEF ListenerInv
    <3>3. Alone'
      BY <3>1 DEF Isolation
    <3> QED
      BY <1>c, <2>2, <3>1, <3>2, <3>3
  <2>4. CASE reg' = [reg EXCEPT ![c] = "err"] /\ UNCHANGED <<client, listener>>
    <3>1. ListenerInv' /\ Alone'
      BY <1>a, <2>1, <2>4 DEF ListenerInv, Isolation, RegisterType
    <3> QED
      BY <1>c, <2>4, <3>1
  <2> QED
    BY <1>4, <2>3, <2>4 DEF HandleRegister
<1>5. ASSUME NEW c \in Conns, NEW l \in Listens,
             Bind(c, l) \/ ListenerCancelled(c, l) \/ ListenerFails(c, l)
      PROVE  ListenerInv' /\ Isolation'
  <2>1. /\ listener[c][l] # "none" /\ UNCHANGED <<reg, client>>
        /\ \A d \in Conns, k \in Listens :
             ~(d = c /\ k = l) => listener'[d][k] = listener[d][k]
    BY <1>5, <1>a DEF Bind, ListenerCancelled, ListenerFails, RegisterType
  <2>2. listener'[c][l] = "listening" => ~HeldPort(l)
    BY <1>5, <1>a DEF Bind, ListenerCancelled, ListenerFails, RegisterType
  <2>3. ListenerInv'
    BY <2>1 DEF ListenerInv
  <2>4. Alone'
    BY <2>1, <2>2 DEF Isolation, HeldPort
  <2> QED
    BY <1>c, <2>1, <2>3, <2>4
<1>6. DriverGets => UNCHANGED regVars \/ ~CacheAlive
  BY DEF DriverGets
<1> QED
  BY <1>1, <1>2, <1>3, <1>4, <1>5, <1>6, NextSteps, RegistersLeft

-----------------------------------------------------------------------------
(* The policy *)

LEMMA PolicyStep ==
  ASSUME TypeOK, NameInv, PolicyInv, DenyAll, Next
  PROVE  NameInv' /\ PolicyInv' /\ DenyAll'
<1>a. DriverType /\ StreamType /\ NoConn \notin Conns
  BY TypeParts, ReverseAssumption
<1> USE DEF NameInv, PolicyInv, DenyAll
<1>1. CASE UNCHANGED <<streamVars, policy>>
  BY <1>1 DEF streamVars
<1>2. CASE SetReverse
  BY <1>2, <1>a DEF SetReverse, StreamType
<1>3. CASE RestartA
  BY <1>3, <1>a DEF RestartA, StreamType
<1>4. ASSUME NEW s \in Streams, LocalConnects(s)
      PROVE  NameInv' /\ PolicyInv' /\ DenyAll'
  <2>1. /\ bStage[s] = "none" /\ bStage'[s] = "opening" /\ denied'[s] = (policy # "open")
        /\ UNCHANGED <<aStage, snap, policy>>
        /\ \A x \in Streams \ {s} :
             bStage'[x] = bStage[x] /\ denied'[x] = denied[x] /\ via'[x] = via[x]
    BY <1>4, <1>a DEF LocalConnects, StreamType, driverVars
  <2> QED
    BY <2>1
<1>5. ASSUME NEW s \in Streams, AcceptStream(s)
      PROVE  NameInv' /\ PolicyInv' /\ DenyAll'
  <2>1. bStage[s] # "none"
    BY <1>5, <1>a DEF AcceptStream, DriverType
  <2>2. /\ aStage'[s] = "checking" /\ snap'[s] = policy
        /\ UNCHANGED <<bStage, via, denied, policy>>
        /\ \A x \in Streams \ {s} : aStage'[x] = aStage[x] /\ snap'[x] = snap[x]
    BY <1>5, <1>a DEF AcceptStream, StreamType, driverVars
  <2> QED
    BY <2>1, <2>2
<1>6. ASSUME NEW s \in Streams, StreamRefused(s) \/ AStreamEnds(s)
      PROVE  NameInv' /\ PolicyInv' /\ DenyAll'
  <2>1. /\ aStage[s] # "none" /\ aStage'[s] = "over" /\ denied'[s] = FALSE
        /\ UNCHANGED <<bStage, via, policy>>
        /\ \A x \in Streams \ {s} :
             aStage'[x] = aStage[x] /\ snap'[x] = snap[x] /\ denied'[x] = denied[x]
    BY <1>6, <1>a DEF StreamRefused, AStreamEnds, AEnds, StreamType, driverVars
  <2> QED
    BY <2>1
<1>7. ASSUME NEW s \in Streams, StreamAccepted(s)
      PROVE  NameInv' /\ PolicyInv' /\ DenyAll'
  <2>1. /\ aStage[s] = "checking" /\ snap[s] = "open" /\ aStage'[s] = "relay"
        /\ UNCHANGED <<bStage, via, snap, denied, policy>>
        /\ \A x \in Streams \ {s} : aStage'[x] = aStage[x]
    BY <1>7, <1>a DEF StreamAccepted, Allows, StreamType, driverVars
  <2> QED
    BY <2>1
<1>8. ASSUME NEW s \in Streams, StreamOpens(s) \/ BStreamEnds(s)
      PROVE  NameInv' /\ PolicyInv' /\ DenyAll'
  <2>1. /\ bStage[s] # "none"
        /\ UNCHANGED <<aStage, via, snap, denied, policy>>
        /\ \A x \in Streams \ {s} : bStage'[x] = bStage[x]
    BY <1>8, <1>a DEF StreamOpens, BStreamEnds, StreamType, driverVars
  <2>2. bStage'[s] # "none"
    BY <1>8, <1>a DEF StreamOpens, BStreamEnds, StreamType
  <2> QED
    BY <2>1, <2>2
<1>9. ASSUME NEW s \in Streams, Forget(s)
      PROVE  NameInv' /\ PolicyInv' /\ DenyAll'
  <2>1. /\ aStage'[s] = "none" /\ via'[s] = NoConn /\ denied'[s] = FALSE
        /\ policy' = policy
        /\ \A x \in Streams \ {s} :
             /\ aStage'[x] = aStage[x] /\ bStage'[x] = bStage[x] /\ via'[x] = via[x]
             /\ snap'[x] = snap[x] /\ denied'[x] = denied[x]
    BY <1>9, <1>a DEF Forget, StreamType, driverVars
  <2> QED
    BY <2>1
<1>10. \/ Invalidate \/ SetCreds \/ DriverStartsAgain \/ DriverGets \/ SendRegister
       \/ Registered
       \/ \E c \in Conns :
            \/ LosePath(c) \/ ANotices(c) \/ BNotices(c) \/ HandleRegister(c) \/ BLoopEnds(c)
            \/ \E l \in Listens : Bind(c, l) \/ ListenerCancelled(c, l) \/ ListenerFails(c, l)
       => policy' = policy
  BY DEF Invalidate, SetCreds, DriverStartsAgain, DriverGets, SendRegister, Registered,
         LosePath, ANotices, BNotices, HandleRegister, BLoopEnds, Bind, ListenerCancelled, ListenerFails,
         driverVars
<1> QED
  BY <1>1, <1>2, <1>3, <1>4, <1>5, <1>6, <1>7, <1>8, <1>9, <1>10, NextSteps, StreamsLeft

-----------------------------------------------------------------------------
(* The gauges *)

RelayedByA == {s \in Streams : aStage[s] = "relay"}

RelayedByB == {s \in Streams : bStage[s] = "relay"}

LEMMA StreamsCounted ==
  ASSUME NEW A \in SUBSET Streams, NEW s \in Streams
  PROVE  /\ Cardinality(A) \in Nat
         /\ s \in A => Cardinality(A) > 0 /\ Cardinality(A \ {s}) = Cardinality(A) - 1
         /\ s \notin A => Cardinality(A \cup {s}) = Cardinality(A) + 1
<1>1. IsFiniteSet(A)
  BY ReverseAssumption, FS_Subset
<1>2. Cardinality(A) \in Nat
  BY <1>1, FS_CardinalityType
<1>3. ASSUME s \in A
      PROVE  Cardinality(A) > 0 /\ Cardinality(A \ {s}) = Cardinality(A) - 1
  <2>1. Cardinality(A \ {s}) = Cardinality(A) - 1
    BY <1>1, <1>3, FS_RemoveElement
  <2>2. Cardinality(A) # 0
    BY <1>1, <1>3, FS_EmptySet
  <2> QED
    BY <1>2, <2>1, <2>2
<1>4. s \notin A => Cardinality(A \cup {s}) = Cardinality(A) + 1
  BY <1>1, FS_AddElement
<1> QED
  BY <1>2, <1>3, <1>4

LEMMA GaugesStep ==
  ASSUME TypeOK, GaugesExact, Next
  PROVE  GaugesExact'
<1>a. StreamType /\ aActive = Cardinality(RelayedByA) /\ bActive = Cardinality(RelayedByB)
  BY TypeParts DEF GaugesExact, RelayedByA, RelayedByB
<1>b. SUFFICES aActive' = Cardinality(RelayedByA') /\ bActive' = Cardinality(RelayedByB')
  BY DEF GaugesExact, RelayedByA, RelayedByB
<1>c. UNCHANGED <<aStage, aActive>> => aActive' = Cardinality(RelayedByA')
  BY <1>a DEF RelayedByA
<1>d. UNCHANGED <<bStage, bActive>> => bActive' = Cardinality(RelayedByB')
  BY <1>a DEF RelayedByB
<1>1. CASE UNCHANGED streamVars \/ SetReverse
  BY <1>1, <1>c, <1>d DEF streamVars, SetReverse
<1>2. CASE RestartA
  <2>1. RelayedByA' = {} /\ aActive' = 0
    BY <1>2, <1>a DEF RestartA, RelayedByA, StreamType
  <2> QED
    BY <1>2, <1>d, <2>1, FS_EmptySet DEF RestartA
<1>3. ASSUME NEW s \in Streams, LocalConnects(s) \/ Forget(s)
      PROVE  aActive' = Cardinality(RelayedByA') /\ bActive' = Cardinality(RelayedByB')
  <2>1. RelayedByA' = RelayedByA
    BY <1>3, <1>a DEF LocalConnects, Forget, RelayedByA, StreamType
  <2>2. RelayedByB' = RelayedByB
    BY <1>3, <1>a DEF LocalConnects, Forget, RelayedByB, StreamType
  <2> QED
    BY <1>3, <1>a, <2>1, <2>2 DEF LocalConnects, Forget
<1>4. ASSUME NEW s \in Streams, AcceptStream(s) \/ StreamRefused(s)
      PROVE  aActive' = Cardinality(RelayedByA') /\ bActive' = Cardinality(RelayedByB')
  <2>1. RelayedByA' = RelayedByA
    BY <1>4, <1>a DEF AcceptStream, StreamRefused, AEnds, RelayedByA, StreamType
  <2> QED
    BY <1>4, <1>a, <1>d, <2>1 DEF AcceptStream, StreamRefused, AEnds
<1>5. ASSUME NEW s \in Streams, StreamAccepted(s)
      PROVE  aActive' = Cardinality(RelayedByA') /\ bActive' = Cardinality(RelayedByB')
  <2>1. s \notin RelayedByA /\ RelayedByA' = RelayedByA \cup {s} /\ RelayedByA \in SUBSET Streams
    BY <1>5, <1>a DEF StreamAccepted, RelayedByA, StreamType
  <2>2. Cardinality(RelayedByA') = Cardinality(RelayedByA) + 1
    BY <2>1, StreamsCounted
  <2> QED
    BY <1>5, <1>a, <1>d, <2>2 DEF StreamAccepted
<1>6. ASSUME NEW s \in Streams, AStreamEnds(s)
      PROVE  aActive' = Cardinality(RelayedByA') /\ bActive' = Cardinality(RelayedByB')
  <2>1. s \in RelayedByA /\ RelayedByA' = RelayedByA \ {s} /\ RelayedByA \in SUBSET Streams
    BY <1>6, <1>a DEF AStreamEnds, AEnds, RelayedByA, StreamType
  <2>2. /\ Cardinality(RelayedByA') = Cardinality(RelayedByA) - 1
        /\ Cardinality(RelayedByA) > 0
    BY <2>1, StreamsCounted
  <2> QED
    BY <1>6, <1>a, <1>d, <2>2 DEF AStreamEnds, AEnds
<1>7. ASSUME NEW s \in Streams, StreamOpens(s)
      PROVE  aActive' = Cardinality(RelayedByA') /\ bActive' = Cardinality(RelayedByB')
  <2>1. s \notin RelayedByB /\ RelayedByB' = RelayedByB \cup {s} /\ RelayedByB \in SUBSET Streams
    BY <1>7, <1>a DEF StreamOpens, RelayedByB, StreamType
  <2>2. Cardinality(RelayedByB') = Cardinality(RelayedByB) + 1
    BY <2>1, StreamsCounted
  <2> QED
    BY <1>7, <1>a, <1>c, <2>2 DEF StreamOpens
<1>8. ASSUME NEW s \in Streams, BStreamEnds(s)
      PROVE  aActive' = Cardinality(RelayedByA') /\ bActive' = Cardinality(RelayedByB')
  <2>1. RelayedByB \in SUBSET Streams
    BY DEF RelayedByB
  <2>2. CASE bStage[s] = "relay"
    <3>1. s \in RelayedByB /\ RelayedByB' = RelayedByB \ {s}
      BY <1>8, <1>a, <2>2 DEF BStreamEnds, RelayedByB, StreamType
    <3>2. /\ Cardinality(RelayedByB') = Cardinality(RelayedByB) - 1
          /\ Cardinality(RelayedByB) > 0
      BY <2>1, <3>1, StreamsCounted
    <3> QED
      BY <1>8, <1>a, <1>c, <2>2, <3>2 DEF BStreamEnds
  <2>3. CASE bStage[s] # "relay"
    <3>1. RelayedByB' = RelayedByB
      BY <1>8, <1>a, <2>3 DEF BStreamEnds, RelayedByB, StreamType
    <3> QED
      BY <1>8, <1>a, <1>c, <2>3, <3>1 DEF BStreamEnds
  <2> QED
    BY <2>2, <2>3
<1> QED
  BY <1>1, <1>2, <1>3, <1>4, <1>5, <1>6, <1>7, <1>8, NextSteps, StreamsLeft

-----------------------------------------------------------------------------
LEMMA InitHolds == Init => IInv
<1> SUFFICES ASSUME Init PROVE IInv
  OBVIOUS
<1> USE ReverseAssumption DEF Init
<1>1. TypeOK
  BY DEF TypeOK
<1>2. RegisterInv /\ ListenerInv /\ NameInv /\ PolicyInv /\ Isolation /\ DenyAll
  BY DEF RegisterInv, ListenerInv, NameInv, PolicyInv, Isolation, DenyAll
<1>3. GaugesExact
  <2>1. /\ {s \in Streams : aStage[s] = "relay"} = {}
        /\ {s \in Streams : bStage[s] = "relay"} = {}
    OBVIOUS
  <2> QED
    BY <2>1, FS_EmptySet DEF GaugesExact
<1> QED
  BY <1>1, <1>2, <1>3 DEF IInv

LEMMA StepHolds ==
  ASSUME IInv, [Next]_vars
  PROVE  IInv'
<1>1. CASE Next
  BY <1>1, TypeStep, RegisterInvStep, ListenerStep, PolicyStep, GaugesStep DEF IInv
<1>2. CASE UNCHANGED vars
  <2> USE <1>2 DEF IInv, vars, driverVars, netVars, regVars, streamVars
  <2>1. TypeOK'
    BY DEF TypeOK
  <2>2. RegisterInv' /\ ListenerInv' /\ NameInv' /\ PolicyInv'
    BY DEF RegisterInv, ListenerInv, NameInv, PolicyInv
  <2>3. GaugesExact' /\ Isolation' /\ DenyAll'
    BY DEF GaugesExact, Isolation, DenyAll
  <2> QED
    BY <2>1, <2>2, <2>3
<1> QED
  BY <1>1, <1>2

LEMMA InvariantHolds == Spec => []IInv
  BY InitHolds, StepHolds, PTL DEF Spec

\* Every variable keeps its type, and the driver has a handle of a connection
\* exactly when it does not sleep.
THEOREM ReverseTypeCorrect == Spec => []TypeOK
<1>1. IInv => TypeOK
  BY DEF IInv
<1> QED
  BY <1>1, InvariantHolds, PTL

\* A's and B's tunnels_active count the reverse tunnels that are open, over lost
\* connections, refused streams and restarts of A.
THEOREM GaugesAreExact == Spec => []GaugesExact
<1>1. IInv => GaugesExact
  BY DEF IInv
<1> QED
  BY <1>1, InvariantHolds, PTL

\* However credentials change and registrations are retried, a stream comes from
\* a listener of the tenant its connection is registered for, and no address is
\* listened on for two connections.
THEOREM TenantsAreIsolated == Spec => []Isolation
<1>1. IInv => Isolation
  BY DEF IInv
<1> QED
  BY <1>1, InvariantHolds, PTL

\* A never relays a reverse stream its policy refused throughout the stream's
\* life.
THEOREM DeniedIsRefused == Spec => []DenyAll
<1>1. IInv => DenyAll
  BY DEF IInv
<1> QED
  BY <1>1, InvariantHolds, PTL
=============================================================================
