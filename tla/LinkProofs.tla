----------------------------- MODULE LinkProofs -----------------------------
(***************************************************************************)
(* Safety of Link for every number of tunnels, credentials and requests.   *)
(***************************************************************************)
EXTENDS Link, TLAPS, SequenceTheorems

\* A task that reads the target or connects has the connection's mutex.
HolderInv == \A p \in Getters : pc[p] \in {"target", "connecting"} => HasConn(p)

\* What is cached, or being connected, is for the current credential, unless a
\* set_creds is about to drop it.
SwitchInv ==
  \/ Switching
  \/ /\ cached # NoConn => made[cached] = creds
     /\ \A p \in Getters : pc[p] = "connecting" => target[p] = creds

\* A tunnel that saw no set_creds has a token and a connection that match.
CleanInv ==
  \A p \in Tunnels : clean[p] =>
    /\ ~Switching
    /\ token[p] = creds
    /\ held[p] # NoConn => made[held[p]] = creds

\* A tunnel has a connection once get returned one, and after its failure that
\* connection is not the cached one.
HeldInv ==
  \A p \in Tunnels :
    /\ pc[p] \in {"idle", "token", "relay"} => attempt[p] = 0
    /\ pc[p] = "open" => held[p] \in Conns
    /\ attempt[p] = 0 /\ pc[p] \in {"idle", "token", "get", "target", "connecting"} =>
         held[p] = NoConn
    /\ pc[p] = "clear" \/ (attempt[p] = 1 /\ pc[p] \in GetSteps) =>
         held[p] = NoConn \/ held[p] # cached

IInv == TypeOK /\ HolderInv /\ SwitchInv /\ CleanInv /\ HeldInv

-----------------------------------------------------------------------------
(* Types *)

\* Leaving the credential's lock shortens its queue.
LEMMA LeaveCredsType ==
  ASSUME TypeOK, NEW e, LeaveCreds(e)
  PROVE  credsQ' \in Seq(Procs \X {"read", "nested", "write"})
<1> DEFINE E == Procs \X {"read", "nested", "write"}
<1>1. PICK i \in DOMAIN credsQ : credsQ' = RemoveAt(credsQ, i)
  BY DEF LeaveCreds
<1>2. credsQ \in Seq(E) /\ i \in 1..Len(credsQ) /\ Len(credsQ) \in Nat
  BY DEF TypeOK
<1>3. SubSeq(credsQ, 1, i - 1) \in Seq(E) /\ SubSeq(credsQ, i + 1, Len(credsQ)) \in Seq(E)
  BY <1>2
<1>. QED  BY <1>1, <1>3 DEF RemoveAt

\* What a failed attempt, and a finished task, leave behind.
LEMMA NextAttemptType ==
  ASSUME TypeOK, NEW p \in Getters, NextAttempt(p) \/ Return(p)
  PROVE  /\ pc' \in [Procs -> Steps]
         /\ held' \in [Tunnels -> Conns \cup {NoConn}]
         /\ attempt' \in [Tunnels -> {0, 1}]
         /\ token' \in [Tunnels -> Creds \cup {NoCred}]
         /\ clean' \in [Tunnels -> BOOLEAN]
         /\ made' \in [Conns -> Creds \cup {NoCred}]
         /\ state' \in [Conns -> {"free", "up", "lost", "closed"}]
<1> USE DEF TypeOK, Getters, Procs, Steps, GetSteps
<1>1. CASE Return(p)
  BY <1>1 DEF Return, DropUnused
<1>2. CASE p \in Tunnels /\ attempt[p] = 0 /\ ~Return(p)
  BY <1>2 DEF NextAttempt
<1>. QED  BY <1>1, <1>2 DEF NextAttempt

LEMMA WaitType ==
  ASSUME TypeOK, NEW p \in Procs
  PROVE  /\ Append(connQ, p) \in Seq(Procs)
         /\ Append(credsQ, <<p, "nested">>) \in Seq(Procs \X {"read", "nested", "write"})
BY DEF TypeOK

LEMMA LeaveConnFailedType ==
  ASSUME TypeOK, NEW p \in Procs, HasConn(p), LeaveConnFailed(p) \/ LeaveConn
  PROVE  connQ' \in Seq(Procs)
<1>1. connQ \in Seq(Procs) /\ connQ # <<>>
  BY DEF TypeOK, HasConn
<1>2. Tail(connQ) \in Seq(Procs)
  BY <1>1
<1>3. Append(Tail(connQ), p) \in Seq(Procs)
  BY <1>2
<1>. QED  BY <1>2, <1>3 DEF LeaveConnFailed, LeaveConn

LEMMA TypeStep == TypeOK /\ HolderInv /\ [Next]_vars => TypeOK'
<1> SUFFICES ASSUME TypeOK, HolderInv, [Next]_vars  PROVE TypeOK'
  OBVIOUS
<1> USE LinkAssumption, LeaveCredsType
    DEF TypeOK, shared, locks, locals, Getters, Procs, Steps, TunnelSteps, GetSteps,
        InvalidateSteps, WatchSteps, ViewSteps
<1>1. CASE NetChange
  BY <1>1 DEF NetChange
<1>2. ASSUME NEW c \in Conns, LoseConnection(c)  PROVE TypeOK'
  BY <1>2 DEF LoseConnection
<1>3. ASSUME NEW c \in Conns, DetectLoss(c)  PROVE TypeOK'
  BY <1>3 DEF DetectLoss
<1>4. ASSUME NEW p \in Tunnels, Begin(p)  PROVE TypeOK'
  BY <1>4 DEF Begin, WaitCreds
<1>5. ASSUME NEW p \in Tunnels, ReadToken(p)  PROVE TypeOK'
  BY <1>5 DEF ReadToken, WaitConn
<1>6. ASSUME NEW p \in Tunnels, TunnelOpens(p)  PROVE TypeOK'
  BY <1>6 DEF TunnelOpens
<1>7. ASSUME NEW p \in Tunnels, OpenFails(p)  PROVE TypeOK'
  BY <1>7 DEF OpenFails, WaitConn
<1>8. ASSUME NEW p \in Tunnels, TunnelEnds(p)  PROVE TypeOK'
  BY <1>8 DEF TunnelEnds, Return, DropUnused
<1>9. ASSUME NEW p \in Getters, GetCached(p)  PROVE TypeOK'
  BY <1>9, LeaveConnFailedType DEF GetCached, DropUnused, Use, Alive
<1>10. ASSUME NEW p \in Getters, GetNeedsTarget(p)  PROVE TypeOK'
  BY <1>10 DEF GetNeedsTarget, WaitCreds
<1>11. ASSUME NEW p \in Getters, ReadTarget(p)  PROVE TypeOK'
  BY <1>11 DEF ReadTarget, TargetNow
<1>12. ASSUME NEW p \in Getters, NotConfigured(p)  PROVE TypeOK'
  BY <1>12, NextAttemptType, LeaveConnFailedType DEF NotConfigured, HolderInv
<1>13. ASSUME NEW p \in Getters, Connected(p)  PROVE TypeOK'
  <2>1. PICK c \in Conns :
          /\ cached' = c
          /\ Use(p, c)
          /\ made' = [x \in Conns |->
                       IF x = c THEN target[p] ELSE IF InUse(x)' THEN made[x] ELSE NoCred]
          /\ state' = [x \in Conns |->
                        IF x = c THEN "up" ELSE IF InUse(x)' THEN state[x] ELSE "free"]
    BY <1>13 DEF Connected
  <2>2. made' \in [Conns -> Creds \cup {NoCred}]
    BY <2>1
  <2>3. state' \in [Conns -> {"free", "up", "lost", "closed"}]
    BY <2>1
  <2>4. held' \in [Tunnels -> Conns \cup {NoConn}] /\ pc' \in [Procs -> Steps]
    BY <2>1 DEF Use
  <2>5. connQ' \in Seq(Procs)
    BY <1>13, LeaveConnFailedType DEF Connected, HolderInv
  <2>. QED  BY <1>13, <2>1, <2>2, <2>3, <2>4, <2>5 DEF Connected
<1>14. ASSUME NEW p \in Getters, ConnectFails(p)  PROVE TypeOK'
  BY <1>14, NextAttemptType, LeaveConnFailedType DEF ConnectFails, HolderInv
<1>15. ASSUME NEW p \in Procs, InvalidateConn(p)  PROVE TypeOK'
  BY <1>15, LeaveConnFailedType DEF InvalidateConn, DropUnused
<1>16. ASSUME NEW p \in Procs, InvalidateSince(p)  PROVE TypeOK'
  <2>1. CASE p \in Tunnels
    <3>1. connQ' = Append(connQ, p) \/ connQ' = connQ
      BY <1>16, <2>1 DEF InvalidateSince, WaitConn
    <3>2. connQ \in Seq(Procs) /\ Append(connQ, p) \in Seq(Procs)
      BY WaitType
    <3>3. connQ' \in Seq(Procs)
      BY <3>1, <3>2
    <3>. QED  BY <1>16, <2>1, <3>3, NextAttemptType DEF InvalidateSince
  <2>2. CASE p \notin Tunnels
    BY <1>16, <2>2 DEF InvalidateSince
  <2>. QED  BY <2>1, <2>2
<1>17. ASSUME NEW w \in Watchdogs, WatchdogWakes(w)  PROVE TypeOK'
  BY <1>17 DEF WatchdogWakes, WaitCreds
<1>18. ASSUME NEW w \in Watchdogs, WatchdogConfigured(w)  PROVE TypeOK'
  <2>1. credsQ' \in Seq(Procs \X {"read", "nested", "write"})
    BY <1>18 DEF WatchdogConfigured
  <2>2. pc' \in [Procs -> Steps]
    BY <1>18 DEF WatchdogConfigured
  <2>3. connQ' = Append(connQ, w) \/ connQ' = connQ
    BY <1>18 DEF WatchdogConfigured, WaitConn
  <2>4. connQ \in Seq(Procs) /\ Append(connQ, w) \in Seq(Procs)
    BY WaitType
  <2>5. connQ' \in Seq(Procs)
    BY <2>3, <2>4
  <2>. QED  BY <1>18, <2>1, <2>2, <2>5 DEF WatchdogConfigured
<1>19. ASSUME NEW w \in Watchdogs, WatchdogAlive(w)  PROVE TypeOK'
  BY <1>19, LeaveConnFailedType DEF WatchdogAlive
<1>20. ASSUME NEW w \in Watchdogs, WatchdogBackedOff(w)  PROVE TypeOK'
  BY <1>20 DEF WatchdogBackedOff, WaitConn
<1>21. ASSUME NEW s \in Setters, SetCreds(s)  PROVE TypeOK'
  BY <1>21 DEF SetCreds, WaitCreds
<1>22. ASSUME NEW s \in Setters, WriteCreds(s)  PROVE TypeOK'
  BY <1>22 DEF WriteCreds, WaitConn
<1>23. ASSUME NEW v \in Viewers, StatusBegins(v)  PROVE TypeOK'
  BY <1>23 DEF StatusBegins, WaitCreds
<1>24. ASSUME NEW v \in Viewers, StatusReads(v)  PROVE TypeOK'
  BY <1>24 DEF StatusReads, WaitConn
<1>25. ASSUME NEW v \in Viewers, StatusAlive(v)  PROVE TypeOK'
  <2>a. Append(credsQ, <<v, "nested">>) \in Seq(Procs \X {"read", "nested", "write"})
    BY WaitType
  <2>1. credsQ' \in Seq(Procs \X {"read", "nested", "write"})
    BY <1>25, <2>a, LeaveCredsType DEF StatusAlive, WaitCreds
  <2>2. pc' \in [Procs -> Steps]
    BY <1>25 DEF StatusAlive
  <2>3. connQ' \in Seq(Procs)
    BY <1>25, LeaveConnFailedType DEF StatusAlive
  <2>. QED  BY <1>25, <2>1, <2>2, <2>3 DEF StatusAlive
<1>26. ASSUME NEW v \in Viewers, StatusIps(v)  PROVE TypeOK'
  BY <1>26 DEF StatusIps, WaitConn
<1>27. ASSUME NEW v \in Viewers, StatusEnds(v)  PROVE TypeOK'
  BY <1>27, LeaveConnFailedType DEF StatusEnds
<1>28. CASE UNCHANGED vars
  BY <1>28 DEF vars
<1>. QED
  BY <1>1, <1>2, <1>3, <1>4, <1>5, <1>6, <1>7, <1>8, <1>9, <1>10, <1>11, <1>12, <1>13, <1>14, <1>15, <1>16, <1>17, <1>18, <1>19, <1>20, <1>21, <1>22, <1>23, <1>24, <1>25, <1>26, <1>27, <1>28
  DEF Next, OpenTunnel, Get, Invalidate, Watch, View, Procs, Getters
-----------------------------------------------------------------------------
(* The mutex *)

\* The holder stays at the head when others queue behind it.
LEMMA HolderKept ==
  ASSUME TypeOK, HolderInv, NEW p \in Procs,
         connQ' = connQ \/ connQ' = Append(connQ, p),
         \A q \in Getters : pc'[q] \in {"target", "connecting"} =>
                              pc[q] \in {"target", "connecting"} \/ HasConn(q)
  PROVE  HolderInv'
<1> SUFFICES ASSUME NEW q \in Getters, HasConn(q)  PROVE HasConn(q)'
  BY DEF HolderInv
<1>1. connQ \in Seq(Procs) /\ connQ # <<>>
  BY DEF TypeOK, HasConn
<1>2. Append(connQ, p) # <<>> /\ Head(Append(connQ, p)) = Head(connQ)
  BY <1>1
<1>. QED  BY <1>2 DEF HasConn

\* Only the holder leaves, and it does not go on inside get.
LEMMA HolderLeft ==
  ASSUME TypeOK, HolderInv, NEW p \in Procs, HasConn(p),
         \A q \in Procs \ {p} : pc'[q] = pc[q],
         pc'[p] \notin {"target", "connecting"}
  PROVE  HolderInv'
BY DEF HolderInv, HasConn, Procs

LEMMA HolderStep == TypeOK /\ HolderInv /\ [Next]_vars => HolderInv'
<1> SUFFICES ASSUME TypeOK, HolderInv, [Next]_vars  PROVE HolderInv'
  OBVIOUS
<1> USE DEF TypeOK, Getters, Procs
<1>1. CASE NetChange
  BY <1>1 DEF NetChange, HolderInv, HasConn, locks
<1>2. ASSUME NEW c \in Conns, LoseConnection(c) \/ DetectLoss(c)
      PROVE  HolderInv'
  BY <1>2
  DEF LoseConnection, DetectLoss, HolderInv, HasConn, locks
<1>3. ASSUME NEW p \in Tunnels, Begin(p) \/ ReadToken(p) \/ TunnelOpens(p) \/ OpenFails(p)
      PROVE  HolderInv'
  BY <1>3, HolderKept
  DEF Begin, ReadToken, TunnelOpens, OpenFails, WaitConn, WaitCreds, locks
<1>4. ASSUME NEW p \in Tunnels, TunnelEnds(p)
      PROVE  HolderInv'
  BY <1>4, HolderKept
  DEF TunnelEnds, locks, Return
<1>5. ASSUME NEW p \in Getters, GetCached(p) \/ Connected(p)
      PROVE  HolderInv'
  BY <1>5, HolderLeft
  DEF GetCached, Connected, Use, HolderInv
<1>6. ASSUME NEW p \in Getters, NotConfigured(p) \/ ConnectFails(p)
      PROVE  HolderInv'
  <2>1. CASE NotConfigured(p)
    BY <1>6, <2>1, HolderLeft DEF NotConfigured, HolderInv, NextAttempt, Return
  <2>2. CASE ConnectFails(p)
    BY <1>6, <2>2, HolderLeft DEF ConnectFails, HolderInv, NextAttempt, Return
  <2>. QED  BY <1>6, <2>1, <2>2
<1>7. ASSUME NEW p \in Getters, GetNeedsTarget(p) \/ ReadTarget(p)
      PROVE  HolderInv'
  BY <1>7, HolderKept
  DEF GetNeedsTarget, ReadTarget, WaitCreds
<1>8. ASSUME NEW p \in Procs, InvalidateConn(p)
      PROVE  HolderInv'
  BY <1>8, HolderLeft
  DEF InvalidateConn
<1>9. ASSUME NEW p \in Procs, InvalidateSince(p)
      PROVE  HolderInv'
  BY <1>9, HolderKept
  DEF InvalidateSince, NextAttempt, Return, WaitConn
<1>10. ASSUME NEW w \in Watchdogs, WatchdogWakes(w) \/ WatchdogConfigured(w) \/ WatchdogBackedOff(w)
      PROVE  HolderInv'
  BY <1>10, HolderKept
  DEF WatchdogWakes, WatchdogConfigured, WatchdogBackedOff, WaitConn, WaitCreds
<1>11. ASSUME NEW w \in Watchdogs, WatchdogAlive(w)
      PROVE  HolderInv'
  BY <1>11, HolderLeft
  DEF WatchdogAlive
<1>12. ASSUME NEW s \in Setters, SetCreds(s) \/ WriteCreds(s)
      PROVE  HolderInv'
  BY <1>12, HolderKept
  DEF SetCreds, WriteCreds, WaitConn, WaitCreds
<1>13. ASSUME NEW v \in Viewers, StatusBegins(v) \/ StatusReads(v) \/ StatusIps(v)
      PROVE  HolderInv'
  BY <1>13, HolderKept
  DEF StatusBegins, StatusReads, StatusIps, WaitConn, WaitCreds
<1>14. ASSUME NEW v \in Viewers, StatusAlive(v) \/ StatusEnds(v)
      PROVE  HolderInv'
  BY <1>14, HolderLeft
  DEF StatusAlive, StatusEnds
<1>15. CASE UNCHANGED vars
  BY <1>15 DEF vars, locks, HolderInv, HasConn
<1>. QED
  BY <1>1, <1>2, <1>3, <1>4, <1>5, <1>6, <1>7, <1>8, <1>9, <1>10, <1>11, <1>12, <1>13, <1>14, <1>15
  DEF Next, OpenTunnel, Get, Invalidate, Watch, View, Procs, Getters
-----------------------------------------------------------------------------
(* The credential of the cached connection *)

\* A connection somebody still has a handle of stays what it was.
LEMMA MadeKept ==
  ASSUME DropUnused, NEW c \in Conns, InUse(c)'
  PROVE  made'[c] = made[c]
BY DEF DropUnused

LEMMA SwitchStep == IInv /\ [Next]_vars => SwitchInv'
<1> SUFFICES ASSUME IInv, [Next]_vars  PROVE SwitchInv'
  OBVIOUS
<1> USE LinkAssumption DEF IInv, TypeOK, SwitchInv, Switching, Getters, Procs, shared, locals
<1>1. CASE NetChange
  BY <1>1 DEF NetChange
<1>2. ASSUME NEW c \in Conns, LoseConnection(c) \/ DetectLoss(c)
      PROVE  SwitchInv'
  BY <1>2
  DEF LoseConnection, DetectLoss
<1>3. ASSUME NEW p \in Tunnels, Begin(p) \/ ReadToken(p) \/ TunnelOpens(p) \/ OpenFails(p)
      PROVE  SwitchInv'
  BY <1>3
  DEF Begin, ReadToken, TunnelOpens, OpenFails
<1>4. ASSUME NEW p \in Tunnels, TunnelEnds(p)
      PROVE  SwitchInv'
  BY <1>4, MadeKept
  DEF TunnelEnds, Return, InUse
<1>5. ASSUME NEW p \in Getters, GetCached(p)
      PROVE  SwitchInv'
  BY <1>5, MadeKept
  DEF GetCached, Use, InUse
<1>6. ASSUME NEW p \in Getters, Connected(p)
      PROVE  SwitchInv'
  BY <1>6
  DEF Connected, Use
<1>7. ASSUME NEW p \in Getters, NotConfigured(p) \/ ConnectFails(p)
      PROVE  SwitchInv'
  BY <1>7, MadeKept
  DEF NotConfigured, ConnectFails, NextAttempt, Return, InUse
<1>8. ASSUME NEW p \in Getters, GetNeedsTarget(p) \/ ReadTarget(p)
      PROVE  SwitchInv'
  BY <1>8
  DEF GetNeedsTarget, ReadTarget, TargetNow
<1>9. ASSUME NEW p \in Procs, InvalidateConn(p)
      PROVE  SwitchInv'
  BY <1>9
  DEF InvalidateConn, HolderInv, HasConn
<1>10. ASSUME NEW p \in Procs, InvalidateSince(p)
      PROVE  SwitchInv'
  BY <1>10, MadeKept
  DEF InvalidateSince, NextAttempt, Return, InUse
<1>11. ASSUME NEW w \in Watchdogs, WatchdogWakes(w) \/ WatchdogConfigured(w) \/ WatchdogAlive(w) \/ WatchdogBackedOff(w)
      PROVE  SwitchInv'
  BY <1>11
  DEF WatchdogWakes, WatchdogConfigured, WatchdogAlive, WatchdogBackedOff
<1>12. ASSUME NEW s \in Setters, SetCreds(s) \/ WriteCreds(s)
      PROVE  SwitchInv'
  BY <1>12
  DEF SetCreds, WriteCreds
<1>13. ASSUME NEW v \in Viewers, StatusBegins(v) \/ StatusReads(v) \/ StatusAlive(v) \/ StatusIps(v) \/ StatusEnds(v)
      PROVE  SwitchInv'
  BY <1>13
  DEF StatusBegins, StatusReads, StatusAlive, StatusIps, StatusEnds
<1>14. CASE UNCHANGED vars
  BY <1>14 DEF vars
<1>. QED
  BY <1>1, <1>2, <1>3, <1>4, <1>5, <1>6, <1>7, <1>8, <1>9, <1>10, <1>11, <1>12, <1>13, <1>14
  DEF Next, OpenTunnel, Get, Invalidate, Watch, View, Procs, Getters

\* A failed attempt, or the end of the task, only forgets.
LEMMA CleanAttempt ==
  ASSUME IInv, NEW p \in Getters, NextAttempt(p) \/ Return(p), UNCHANGED <<creds, cached>>
  PROVE  CleanInv'
<1> USE LinkAssumption DEF IInv, TypeOK, CleanInv, Switching, Getters, Procs
<1>1. CASE Return(p)
  BY <1>1, MadeKept DEF Return, InUse
<1>2. CASE p \in Tunnels /\ attempt[p] = 0 /\ ~Return(p)
  BY <1>2 DEF NextAttempt
<1>. QED  BY <1>1, <1>2 DEF NextAttempt

LEMMA CleanStep == IInv /\ [Next]_vars => CleanInv'
<1> SUFFICES ASSUME IInv, [Next]_vars  PROVE CleanInv'
  OBVIOUS
<1> USE LinkAssumption DEF IInv, TypeOK, CleanInv, Switching, Getters, Procs, shared, locals
<1>1. CASE NetChange
  BY <1>1 DEF NetChange
<1>2. ASSUME NEW c \in Conns, LoseConnection(c) \/ DetectLoss(c)
      PROVE  CleanInv'
  BY <1>2
  DEF LoseConnection, DetectLoss
<1>3. ASSUME NEW p \in Tunnels, Begin(p) \/ ReadToken(p) \/ TunnelOpens(p) \/ OpenFails(p)
      PROVE  CleanInv'
  <2>1. CASE ReadToken(p)
    <3>1. held[p] = NoConn
      BY <2>1 DEF ReadToken, HeldInv
    <3>. QED  BY <2>1, <3>1 DEF ReadToken
  <2>2. CASE ~ReadToken(p)
    BY <1>3, <2>2 DEF Begin, TunnelOpens, OpenFails
  <2>. QED  BY <2>1, <2>2
<1>4. ASSUME NEW p \in Tunnels, TunnelEnds(p)
      PROVE  CleanInv'
  BY <1>4, MadeKept
  DEF TunnelEnds, Return, InUse
<1>5. ASSUME NEW p \in Getters, GetCached(p)
      PROVE  CleanInv'
  BY <1>5, MadeKept
  DEF GetCached, Use, InUse, SwitchInv
<1>6. ASSUME NEW p \in Getters, Connected(p)
      PROVE  CleanInv'
  BY <1>6
  DEF Connected, Use, SwitchInv, InUse
<1>7. ASSUME NEW p \in Getters, NotConfigured(p) \/ ConnectFails(p)
      PROVE  CleanInv'
  BY <1>7, CleanAttempt DEF NotConfigured, ConnectFails
<1>8. ASSUME NEW p \in Getters, GetNeedsTarget(p) \/ ReadTarget(p)
      PROVE  CleanInv'
  BY <1>8
  DEF GetNeedsTarget, ReadTarget
<1>9. ASSUME NEW p \in Procs, InvalidateConn(p)
      PROVE  CleanInv'
  BY <1>9, MadeKept
  DEF InvalidateConn, InUse
<1>10. ASSUME NEW p \in Procs, InvalidateSince(p)
      PROVE  CleanInv'
  <2>1. CASE p \in Tunnels
    BY <1>10, <2>1, CleanAttempt DEF InvalidateSince
  <2>2. CASE p \notin Tunnels
    BY <1>10, <2>2 DEF InvalidateSince
  <2>. QED  BY <2>1, <2>2
<1>11. ASSUME NEW w \in Watchdogs, WatchdogWakes(w) \/ WatchdogConfigured(w) \/ WatchdogAlive(w) \/ WatchdogBackedOff(w)
      PROVE  CleanInv'
  BY <1>11
  DEF WatchdogWakes, WatchdogConfigured, WatchdogAlive, WatchdogBackedOff
<1>12. ASSUME NEW s \in Setters, SetCreds(s) \/ WriteCreds(s)
      PROVE  CleanInv'
  BY <1>12
  DEF SetCreds, WriteCreds
<1>13. ASSUME NEW v \in Viewers, StatusBegins(v) \/ StatusReads(v) \/ StatusAlive(v) \/ StatusIps(v) \/ StatusEnds(v)
      PROVE  CleanInv'
  BY <1>13
  DEF StatusBegins, StatusReads, StatusAlive, StatusIps, StatusEnds
<1>14. CASE UNCHANGED vars
  BY <1>14 DEF vars
<1>. QED
  BY <1>1, <1>2, <1>3, <1>4, <1>5, <1>6, <1>7, <1>8, <1>9, <1>10, <1>11, <1>12, <1>13, <1>14
  DEF Next, OpenTunnel, Get, Invalidate, Watch, View, Procs, Getters

LEMMA HeldStep == IInv /\ [Next]_vars => HeldInv'
<1> SUFFICES ASSUME IInv, [Next]_vars  PROVE HeldInv'
  OBVIOUS
<1> USE LinkAssumption DEF IInv, TypeOK, HeldInv, Getters, Procs, GetSteps, shared, locals
<1>1. CASE NetChange
  BY <1>1 DEF NetChange
<1>2. ASSUME NEW c \in Conns, LoseConnection(c) \/ DetectLoss(c)
      PROVE  HeldInv'
  BY <1>2
  DEF LoseConnection, DetectLoss
<1>3. ASSUME NEW p \in Tunnels, Begin(p) \/ ReadToken(p) \/ TunnelOpens(p) \/ OpenFails(p)
      PROVE  HeldInv'
  BY <1>3
  DEF Begin, ReadToken, TunnelOpens, OpenFails
<1>4. ASSUME NEW p \in Tunnels, TunnelEnds(p)
      PROVE  HeldInv'
  BY <1>4
  DEF TunnelEnds, Return
<1>5. ASSUME NEW p \in Getters, GetCached(p)
      PROVE  HeldInv'
  BY <1>5
  DEF GetCached, Use, Alive
<1>6. ASSUME NEW p \in Getters, Connected(p)
      PROVE  HeldInv'
  BY <1>6
  DEF Connected, Use
<1>7. ASSUME NEW p \in Getters, NotConfigured(p) \/ ConnectFails(p)
      PROVE  HeldInv'
  BY <1>7
  DEF NotConfigured, ConnectFails, NextAttempt, Return
<1>8. ASSUME NEW p \in Getters, GetNeedsTarget(p) \/ ReadTarget(p)
      PROVE  HeldInv'
  BY <1>8
  DEF GetNeedsTarget, ReadTarget
<1>9. ASSUME NEW p \in Procs, InvalidateConn(p)
      PROVE  HeldInv'
  BY <1>9
  DEF InvalidateConn
<1>10. ASSUME NEW p \in Procs, InvalidateSince(p)
      PROVE  HeldInv'
  BY <1>10
  DEF InvalidateSince, NextAttempt, Return
<1>11. ASSUME NEW w \in Watchdogs, WatchdogWakes(w) \/ WatchdogConfigured(w) \/ WatchdogAlive(w) \/ WatchdogBackedOff(w)
      PROVE  HeldInv'
  BY <1>11
  DEF WatchdogWakes, WatchdogConfigured, WatchdogAlive, WatchdogBackedOff
<1>12. ASSUME NEW s \in Setters, SetCreds(s) \/ WriteCreds(s)
      PROVE  HeldInv'
  BY <1>12
  DEF SetCreds, WriteCreds
<1>13. ASSUME NEW v \in Viewers, StatusBegins(v) \/ StatusReads(v) \/ StatusAlive(v) \/ StatusIps(v) \/ StatusEnds(v)
      PROVE  HeldInv'
  BY <1>13
  DEF StatusBegins, StatusReads, StatusAlive, StatusIps, StatusEnds
<1>14. CASE UNCHANGED vars
  BY <1>14 DEF vars
<1>. QED
  BY <1>1, <1>2, <1>3, <1>4, <1>5, <1>6, <1>7, <1>8, <1>9, <1>10, <1>11, <1>12, <1>13, <1>14
  DEF Next, OpenTunnel, Get, Invalidate, Watch, View, Procs, Getters

LEMMA InitIInv == Init => IInv
<1> SUFFICES ASSUME Init  PROVE IInv
  OBVIOUS
<1>1. TypeOK
  <2>1. connQ \in Seq(Procs) /\ credsQ \in Seq(Procs \X {"read", "nested", "write"})
    BY DEF Init
  <2>2. pc \in [Procs -> Steps]
    BY DEF Init, Steps
  <2>. QED  BY <2>1, <2>2 DEF Init, TypeOK
<1>2. \A p \in Procs : pc[p] = "idle"
  BY DEF Init
<1>3. HolderInv /\ SwitchInv /\ CleanInv /\ HeldInv
  BY <1>2 DEF Init, HolderInv, SwitchInv, CleanInv, HeldInv, GetSteps, Getters, Procs
<1>. QED  BY <1>1, <1>3 DEF IInv

LEMMA Inductive == Spec => []IInv
<1>1. IInv /\ [Next]_vars => IInv'
  BY TypeStep, HolderStep, SwitchStep, CleanStep, HeldStep DEF IInv
<1>. QED  BY InitIInv, <1>1, PTL DEF Spec

-----------------------------------------------------------------------------
(* Theorems *)

\* Every variable keeps its type; a tunnel makes at most two attempts.
THEOREM LinkTypeCorrect == Spec => []TypeOK
<1>1. IInv => TypeOK
  BY DEF IInv
<1>. QED  BY <1>1, Inductive, PTL

\* However connects, invalidations and credential changes interleave, what get
\* hands out once set_creds has returned is for the credential it set.
THEOREM CachedIsForCreds == Spec => []CachedForCreds
<1>1. IInv => CachedForCreds
  BY DEF IInv, SwitchInv, CachedForCreds
<1>. QED  BY <1>1, Inductive, PTL

\* A tunnel that no set_creds overlaps sends its token to the peer it is for.
THEOREM TokensMatchPeers == Spec => []TokenMatchesPeer
<1>1. IInv => TokenMatchesPeer
  BY LinkAssumption DEF IInv, CleanInv, HeldInv, TokenMatchesPeer
<1>. QED  BY <1>1, Inductive, PTL

\* Inside get, a tunnel goes on to open its stream only with what get returned.
LEMMA OpensByGet ==
  ASSUME TypeOK, [Next]_vars, NEW t \in Tunnels, pc[t] \in GetSteps, pc'[t] = "open"
  PROVE  GetCached(t) \/ Connected(t)
<1> DEFINE Goal == GetCached(t) \/ Connected(t)
<1> USE LinkAssumption DEF TypeOK, Getters, Procs, GetSteps, shared, locals
<1>1. CASE NetChange
  BY <1>1 DEF NetChange
<1>2. ASSUME NEW c \in Conns, LoseConnection(c) \/ DetectLoss(c)
      PROVE  Goal
  BY <1>2
  DEF LoseConnection, DetectLoss
<1>3. ASSUME NEW p \in Tunnels, Begin(p) \/ ReadToken(p) \/ TunnelOpens(p) \/ OpenFails(p)
      PROVE  Goal
  BY <1>3
  DEF Begin, ReadToken, TunnelOpens, OpenFails
<1>4. ASSUME NEW p \in Tunnels, TunnelEnds(p)
      PROVE  Goal
  BY <1>4
  DEF TunnelEnds, Return
<1>5. ASSUME NEW p \in Getters, GetCached(p) \/ Connected(p)
      PROVE  Goal
  <2>1. pc' = [pc EXCEPT ![p] = "open"] \/ pc' = [pc EXCEPT ![p] = "idle"]
    BY <1>5 DEF GetCached, Connected, Use
  <2>2. p = t
    BY <2>1
  <2>. QED  BY <1>5, <2>2
<1>6. ASSUME NEW p \in Getters, NotConfigured(p) \/ ConnectFails(p)
      PROVE  Goal
  <2>1. CASE NotConfigured(p)
    BY <1>6, <2>1 DEF NotConfigured, NextAttempt, Return
  <2>2. CASE ConnectFails(p)
    BY <1>6, <2>2 DEF ConnectFails, NextAttempt, Return
  <2>. QED  BY <1>6, <2>1, <2>2
<1>7. ASSUME NEW p \in Getters, GetNeedsTarget(p) \/ ReadTarget(p)
      PROVE  Goal
  BY <1>7
  DEF GetNeedsTarget, ReadTarget
<1>8. ASSUME NEW p \in Procs, InvalidateConn(p)
      PROVE  Goal
  BY <1>8
  DEF InvalidateConn
<1>9. ASSUME NEW p \in Procs, InvalidateSince(p)
      PROVE  Goal
  BY <1>9
  DEF InvalidateSince, NextAttempt, Return
<1>10. ASSUME NEW w \in Watchdogs, WatchdogWakes(w) \/ WatchdogConfigured(w) \/ WatchdogAlive(w) \/ WatchdogBackedOff(w)
      PROVE  Goal
  BY <1>10
  DEF WatchdogWakes, WatchdogConfigured, WatchdogAlive, WatchdogBackedOff
<1>11. ASSUME NEW s \in Setters, SetCreds(s) \/ WriteCreds(s)
      PROVE  Goal
  BY <1>11
  DEF SetCreds, WriteCreds
<1>12. ASSUME NEW v \in Viewers, StatusBegins(v) \/ StatusReads(v) \/ StatusAlive(v) \/ StatusIps(v) \/ StatusEnds(v)
      PROVE  Goal
  BY <1>12
  DEF StatusBegins, StatusReads, StatusAlive, StatusIps, StatusEnds
<1>13. CASE UNCHANGED vars
  BY <1>13 DEF vars
<1>. QED
  BY <1>1, <1>2, <1>3, <1>4, <1>5, <1>6, <1>7, <1>8, <1>9, <1>10, <1>11, <1>12, <1>13
  DEF Next, OpenTunnel, Get, Invalidate, Watch, View, Procs, Getters

\* A retry never uses the connection its first attempt failed on.
THEOREM RetriesGoElsewhere == Spec => RetryElsewhere
<1>1. ASSUME IInv, [Next]_vars, NEW p \in Tunnels,
             pc[p] \in GetSteps, attempt[p] = 1, pc'[p] = "open"
      PROVE  held'[p] # held[p]
  <2> USE DEF IInv, TypeOK, Getters, Procs, GetSteps
  <2>1. CASE GetCached(p)
    BY <1>1, <2>1, LinkAssumption DEF GetCached, Use, Alive, HeldInv
  <2>2. CASE Connected(p)
    BY <1>1, <2>2 DEF Connected, Use
  <2>. QED  BY <1>1, <2>1, <2>2, OpensByGet
<1>2. IInv /\ [Next]_vars =>
        [\A p \in Tunnels :
           pc[p] \in GetSteps /\ attempt[p] = 1 /\ pc'[p] = "open" => held'[p] # held[p]]_vars
  BY <1>1
<1>. QED  BY <1>2, Inductive, PTL DEF Spec, RetryElsewhere
=============================================================================
