------------------------------ MODULE Reverse -------------------------------
(***************************************************************************)
(* Reverse mappings: the driver of the accessing side (A, src/src/         *)
(* access.rs) registers on the shared connection, the exposing side (B,    *)
(* src/src/expose.rs) binds the listeners of the client it authenticated,  *)
(* and every local connection B accepts becomes a stream that A checks,    *)
(* dials and relays (serve_reverse_stream of src/src/tunnel.rs).           *)
(*                                                                         *)
(* The two ends of a connection learn of its loss at different moments     *)
(* (the 15 s idle timeout of each), and A may restart meanwhile.  A        *)
(* listener's port belongs to B's host, not to the connection.             *)
(*                                                                         *)
(* Abstracted: time, the forward tunnels and the locks of the link (they   *)
(* only show as an invalidated cache), target addresses (the policy allows *)
(* the target or does not).                                                *)
(***************************************************************************)
EXTENDS Naturals, FiniteSets

CONSTANTS
  Conns,       \* connections, reused once both ends are done with them
  Tokens,      \* tokens A may be given
  Listens,     \* listen addresses, unique in B's configuration
  ListensOf,   \* the listeners of the client each token authenticates; a token
               \* outside the domain is refused
  Streams,     \* connections from B's intranet
  MaxRestarts, \* restarts of A
  NoConn, NoToken, NoListen

Valid == DOMAIN ListensOf

ASSUME ReverseAssumption ==
  /\ Valid \subseteq Tokens
  /\ ListensOf \in [Valid -> SUBSET Listens]
  /\ \A t, u \in Valid : t # u => ListensOf[t] \cap ListensOf[u] = {}
  /\ IsFiniteSet(Streams) /\ MaxRestarts \in Nat
  /\ NoConn \notin Conns /\ NoToken \notin Tokens /\ NoListen \notin Listens

VARIABLES
  token,     \* the credential A has
  policy,    \* A's reverse policy: off, empty (enabled, nothing allowed), open
  cached,    \* the connection in A's link
  made,      \* the token A had when a connection was made
  aSide,     \* a connection as A sees it
  bSide,     \* and as B does; ended: its accept loop returned
  lost,      \* its path is dead
  driver,    \* the reverse driver: sleep, got, waiting, accepting
  conn,      \* the driver's handle
  reg,       \* a connection's register stream: none, sent, ok, err
  sent,      \* the token in it, until B has handled it
  client,    \* the token B authenticated a connection with
  listener,  \* run_reverse_listener of a connection and a listen address
  aStage,    \* a reverse stream at A
  bStage,    \* and at B
  answer,    \* the status A wrote on it
  via,       \* its connection
  at,        \* the listener it came from
  snap,      \* the policy A read when it took the stream
  denied,    \* no policy that allows its target since it was opened (history)
  aActive, bActive,  \* tunnels_active of A and of B
  restarts

driverVars == <<token, policy, cached, made, driver, conn, restarts>>
netVars == <<aSide, bSide, lost>>
regVars == <<reg, sent, client, listener>>
streamVars == <<aStage, bStage, answer, via, at, snap, denied, aActive, bActive>>
vars == <<driverVars, netVars, regVars, streamVars>>

-----------------------------------------------------------------------------
Init ==
  /\ token \in Tokens
  /\ policy = "open"
  /\ cached = NoConn
  /\ made = [c \in Conns |-> NoToken]
  /\ aSide = [c \in Conns |-> "free"]
  /\ bSide = [c \in Conns |-> "free"]
  /\ lost = [c \in Conns |-> FALSE]
  /\ driver = "sleep" /\ conn = NoConn
  /\ reg = [c \in Conns |-> "none"]
  /\ sent = [c \in Conns |-> NoToken]
  /\ client = [c \in Conns |-> NoToken]
  /\ listener = [c \in Conns |-> [l \in Listens |-> "none"]]
  /\ aStage = [s \in Streams |-> "none"]
  /\ bStage = [s \in Streams |-> "none"]
  /\ answer = [s \in Streams |-> "none"]
  /\ via = [s \in Streams |-> NoConn]
  /\ at = [s \in Streams |-> NoListen]
  /\ snap = [s \in Streams |-> "off"]
  /\ denied = [s \in Streams |-> FALSE]
  /\ aActive = 0 /\ bActive = 0
  /\ restarts = 0

-----------------------------------------------------------------------------
(* Handles *)

\* A's handles of a connection; dropping the last one closes it.
HeldByA(c) ==
  c = cached \/ c = conn \/ \E s \in Streams : via[s] = c /\ aStage[s] \in {"checking", "relay"}

CloseUnheld ==
  aSide' = [c \in Conns |-> IF aSide[c] = "up" /\ ~HeldByA(c)' THEN "closed" ELSE aSide[c]]

\* A connection's id may be used again.
Unused(c) ==
  /\ aSide[c] \in {"free", "closed"} /\ bSide[c] \in {"free", "ended"}
  /\ \A l \in Listens : listener[c][l] \in {"none", "exited"}
  /\ \A s \in Streams : via[s] # c
  /\ c # cached /\ c # conn

HeldPort(l) == \E c \in Conns : listener[c][l] = "listening"

-----------------------------------------------------------------------------
(* The network, and A's users *)

LosePath(c) ==
  /\ aSide[c] = "up" /\ ~lost[c]
  /\ lost' = [lost EXCEPT ![c] = TRUE]
  /\ UNCHANGED <<driverVars, aSide, bSide, regVars, streamVars>>

ANotices(c) ==
  /\ aSide[c] = "up" /\ lost[c]
  /\ aSide' = [aSide EXCEPT ![c] = "closed"]
  /\ UNCHANGED <<driverVars, bSide, lost, regVars, streamVars>>

BNotices(c) ==
  /\ bSide[c] = "up" /\ (lost[c] \/ aSide[c] = "closed")
  /\ bSide' = [bSide EXCEPT ![c] = "closed"]
  /\ UNCHANGED <<driverVars, aSide, lost, regVars, streamVars>>

\* Some tunnel's failed handshake invalidated the link.
Invalidate ==
  /\ cached # NoConn
  /\ cached' = NoConn
  /\ UNCHANGED <<token, policy, made, driver, conn, restarts>>
  /\ UNCHANGED <<bSide, lost, regVars, streamVars>>
  /\ CloseUnheld

\* set_creds: the new credential, and the cached connection dropped.
SetCreds ==
  /\ token' \in Tokens \ {token}
  /\ cached' = NoConn
  /\ UNCHANGED <<policy, made, driver, conn, restarts>>
  /\ UNCHANGED <<bSide, lost, regVars, streamVars>>
  /\ CloseUnheld

SetReverse ==
  /\ policy' \in {"off", "empty", "open"} \ {policy}
  /\ denied' = [s \in Streams |-> denied[s] /\ policy' # "open"]
  /\ UNCHANGED <<token, cached, made, driver, conn, restarts, netVars, regVars>>
  /\ UNCHANGED <<aStage, bStage, answer, via, at, snap, aActive, bActive>>

\* The process dies and is started again: its ends of the connections are gone
\* without a word to B.
RestartA ==
  /\ restarts < MaxRestarts
  /\ restarts' = restarts + 1
  /\ cached' = NoConn
  /\ aSide' = [c \in Conns |-> IF aSide[c] = "up" THEN "closed" ELSE aSide[c]]
  /\ driver' = "sleep" /\ conn' = NoConn
  /\ aStage' = [s \in Streams |-> IF aStage[s] = "none" THEN "none" ELSE "over"]
  /\ aActive' = 0
  /\ UNCHANGED <<token, policy, made, bSide, lost, regVars>>
  /\ UNCHANGED <<bStage, answer, via, at, snap, denied, bActive>>

-----------------------------------------------------------------------------
(* A's driver *)

CacheAlive == cached # NoConn /\ aSide[cached] = "up"

\* Link::get of the driver: the cached connection, or a new one.  When the
\* connect fails the driver sleeps on.
DriverGets ==
  /\ driver = "sleep"
  /\ policy # "off"
  /\ driver' = "got"
  /\ \/ /\ CacheAlive
        /\ conn' = cached
        /\ UNCHANGED <<cached, made, netVars, regVars>>
     \/ /\ ~CacheAlive
        /\ \E c \in Conns :
             /\ Unused(c)
             /\ cached' = c /\ conn' = c
             /\ made' = [made EXCEPT ![c] = token]
             /\ aSide' = [aSide EXCEPT ![c] = "up"]
             /\ bSide' = [bSide EXCEPT ![c] = "up"]
             /\ lost' = [lost EXCEPT ![c] = FALSE]
             /\ reg' = [reg EXCEPT ![c] = "none"]
             /\ sent' = [sent EXCEPT ![c] = NoToken]
             /\ client' = [client EXCEPT ![c] = NoToken]
             /\ listener' = [listener EXCEPT ![c] = [l \in Listens |-> "none"]]
  /\ UNCHANGED <<token, policy, restarts, streamVars>>

\* The token is read after the connection was got.
SendRegister ==
  /\ driver = "got" /\ aSide[conn] = "up"
  /\ reg' = [reg EXCEPT ![conn] = IF lost[conn] THEN "none" ELSE "sent"]
  /\ sent' = [sent EXCEPT ![conn] = IF lost[conn] THEN NoToken ELSE token]
  /\ driver' = "waiting"
  /\ UNCHANGED <<token, policy, cached, made, conn, restarts, netVars>>
  /\ UNCHANGED <<client, listener, streamVars>>

Registered ==
  /\ driver = "waiting" /\ aSide[conn] = "up" /\ ~lost[conn]
  /\ reg[conn] = "ok"
  /\ driver' = "accepting"
  /\ UNCHANGED <<token, policy, cached, made, conn, restarts, netVars, regVars, streamVars>>

DriverFails ==
  /\ driver \in {"got", "waiting", "accepting"}
  /\ aSide[conn] # "up" \/ (driver = "waiting" /\ reg[conn] = "err")

\* Slip: accept_bi fails and the driver's task is over.
DriverQuits ==
  /\ DriverFails
  /\ driver' = "over" /\ conn' = NoConn
  /\ UNCHANGED <<token, policy, cached, made, restarts>>
  /\ UNCHANGED <<bSide, lost, regVars, streamVars>>
  /\ CloseUnheld

\* Refused by B, or the connection is gone (open, write, status and accept_bi
\* fail): drop the handle and start again.
DriverStartsAgain ==
  /\ DriverFails
  /\ driver' = "sleep" /\ conn' = NoConn
  /\ UNCHANGED <<token, policy, cached, made, restarts>>
  /\ UNCHANGED <<bSide, lost, regVars, streamVars>>
  /\ CloseUnheld

Driver == DriverGets \/ SendRegister \/ Registered \/ DriverStartsAgain

-----------------------------------------------------------------------------
(* B: the accept loop and its listeners *)

\* Slip: the listeners of every client are started.
HandleRegisterAll(c) ==
  /\ bSide[c] \in {"up", "closed"} /\ reg[c] = "sent"
  /\ sent[c] \in Valid
  /\ reg' = [reg EXCEPT ![c] = "ok"]
  /\ client' = [client EXCEPT ![c] = sent[c]]
  /\ listener' = [listener EXCEPT ![c] = [l \in Listens |-> "spawned"]]
  /\ sent' = [sent EXCEPT ![c] = NoToken]
  /\ UNCHANGED <<driverVars, netVars, streamVars>>

\* Authenticate; without listeners for the client refuse; else answer OK and
\* only then start one task per listener.
HandleRegister(c) ==
  /\ bSide[c] \in {"up", "closed"} /\ reg[c] = "sent"
  /\ \/ /\ sent[c] \in Valid
        /\ ListensOf[sent[c]] # {}
        /\ reg' = [reg EXCEPT ![c] = "ok"]
        /\ client' = [client EXCEPT ![c] = sent[c]]
        /\ listener' = [listener EXCEPT ![c] =
                          [l \in Listens |-> IF l \in ListensOf[sent[c]] THEN "spawned" ELSE @[l]]]
     \/ /\ sent[c] \in Valid => ListensOf[sent[c]] = {}
        /\ reg' = [reg EXCEPT ![c] = "err"]
        /\ UNCHANGED <<client, listener>>
  /\ sent' = [sent EXCEPT ![c] = NoToken]
  /\ UNCHANGED <<driverVars, netVars, streamVars>>

\* The task binds its address, or ends for good when the address is taken.
Bind(c, l) ==
  /\ listener[c][l] = "spawned"
  /\ listener' = [listener EXCEPT ![c][l] = IF HeldPort(l) THEN "exited" ELSE "listening"]
  /\ UNCHANGED <<driverVars, netVars, reg, sent, client, streamVars>>

\* Slip: the handler returns without cancelling its listeners.
BLoopEndsKeeping(c) ==
  /\ bSide[c] = "closed" /\ reg[c] # "sent"
  /\ bSide' = [bSide EXCEPT ![c] = "free"]
  /\ UNCHANGED <<driverVars, aSide, lost, regVars, streamVars>>

\* accept_bi fails once the streams that arrived are taken: cancel the listeners.
BLoopEnds(c) ==
  /\ bSide[c] = "closed" /\ reg[c] # "sent"
  /\ bSide' = [bSide EXCEPT ![c] = "ended"]
  /\ UNCHANGED <<driverVars, aSide, lost, regVars, streamVars>>

ListenerCancelled(c, l) ==
  /\ listener[c][l] = "listening" /\ bSide[c] = "ended"
  /\ listener' = [listener EXCEPT ![c][l] = "exited"]
  /\ UNCHANGED <<driverVars, netVars, reg, sent, client, streamVars>>

\* accept fails while the connection is up (or is ending): the task returns, and
\* nothing starts another.  The streams it opened go on.
ListenerFails(c, l) ==
  /\ listener[c][l] = "listening"
  /\ listener' = [listener EXCEPT ![c][l] = "exited"]
  /\ UNCHANGED <<driverVars, netVars, reg, sent, client, streamVars>>

Listener(c, l) == Bind(c, l) \/ ListenerCancelled(c, l)

-----------------------------------------------------------------------------
(* A reverse stream *)

\* A connection from B's intranet, and the stream opened for it; when the
\* connection is no longer up open_bi fails and nothing is left of it.
LocalConnects(s) ==
  /\ bStage[s] = "none"
  /\ \E c \in Conns, l \in Listens :
       /\ listener[c][l] = "listening"
       /\ bSide[c] = "up"
       /\ via' = [via EXCEPT ![s] = c]
       /\ at' = [at EXCEPT ![s] = l]
  /\ bStage' = [bStage EXCEPT ![s] = "opening"]
  /\ denied' = [denied EXCEPT ![s] = policy # "open"]
  /\ UNCHANGED <<driverVars, netVars, regVars, aStage, answer, snap, aActive, bActive>>

\* The driver takes the stream and reads the policy for it.
AcceptStream(s) ==
  /\ driver = "accepting" /\ via[s] = conn
  /\ aSide[conn] = "up" /\ ~lost[conn] /\ aStage[s] = "none"
  /\ aStage' = [aStage EXCEPT ![s] = "checking"]
  /\ snap' = [snap EXCEPT ![s] = policy]
  /\ UNCHANGED <<driverVars, netVars, regVars>>
  /\ UNCHANGED <<bStage, answer, via, at, denied, aActive, bActive>>

\* A's task ends; its handle of the connection goes with it.
AEnds(s) ==
  /\ aStage' = [aStage EXCEPT ![s] = "over"]
  /\ UNCHANGED <<driverVars, bSide, lost, regVars>>
  /\ snap' = [snap EXCEPT ![s] = "off"]
  /\ denied' = [denied EXCEPT ![s] = FALSE]
  /\ UNCHANGED <<bStage, via, at, bActive>>
  /\ CloseUnheld

\* Slip: an enabled policy with an empty list allows everything.
AllowsEmpty(p) == p # "off"

\* deny-all: off, or with a list left empty, it refuses every target.
Allows(p) == p = "open"

\* The target is refused, or every dial of it failed, or the stream is broken.
StreamRefused(s) ==
  /\ aStage[s] = "checking"
  /\ answer' = [answer EXCEPT ![s] = "err"]
  /\ UNCHANGED aActive
  /\ AEnds(s)

StreamAccepted(s) ==
  /\ aStage[s] = "checking"
  /\ Allows(snap[s])
  /\ aSide[via[s]] = "up"
  /\ aStage' = [aStage EXCEPT ![s] = "relay"]
  /\ answer' = [answer EXCEPT ![s] = "ok"]
  /\ aActive' = aActive + 1
  /\ UNCHANGED <<driverVars, netVars, regVars, bStage, via, at, snap, denied, bActive>>

\* Slip: the gauge is left alone when the connection is gone.
AStreamEndsUncounted(s) ==
  /\ aStage[s] = "relay"
  /\ aActive' = IF aSide[via[s]] = "up" /\ aActive > 0 THEN aActive - 1 ELSE aActive
  /\ UNCHANGED answer
  /\ AEnds(s)

\* Both ways are finished, or one failed.
AStreamEnds(s) ==
  /\ aStage[s] = "relay"
  /\ aActive' = IF aActive > 0 THEN aActive - 1 ELSE 0
  /\ UNCHANGED answer
  /\ AEnds(s)

\* B reads OK.
StreamOpens(s) ==
  /\ bStage[s] = "opening" /\ answer[s] = "ok"
  /\ bSide[via[s]] = "up"
  /\ bStage' = [bStage EXCEPT ![s] = "relay"]
  /\ bActive' = bActive + 1
  /\ UNCHANGED <<driverVars, netVars, regVars>>
  /\ UNCHANGED <<aStage, answer, via, at, snap, denied, aActive>>

\* Slip: a tunnel that never opened is closed too.
BStreamEndsUnopened(s) ==
  /\ \/ bStage[s] = "relay"
     \/ bStage[s] = "opening" /\ (bSide[via[s]] # "up" \/ answer[s] = "err")
  /\ bStage' = [bStage EXCEPT ![s] = "over"]
  /\ bActive' = bActive - 1
  /\ UNCHANGED <<driverVars, netVars, regVars>>
  /\ UNCHANGED <<aStage, answer, via, at, snap, denied, aActive>>

\* B's task returns: refused, the connection is gone, cancelled, or done.
BStreamEnds(s) ==
  /\ \/ bStage[s] = "relay"
     \/ bStage[s] = "opening" /\ (bSide[via[s]] # "up" \/ answer[s] = "err")
  /\ bStage' = [bStage EXCEPT ![s] = "over"]
  /\ bActive' = IF bStage[s] = "relay" /\ bActive > 0 THEN bActive - 1 ELSE bActive
  /\ UNCHANGED <<driverVars, netVars, regVars>>
  /\ UNCHANGED <<aStage, answer, via, at, snap, denied, aActive>>

\* Nothing is left of a stream; its name may be used for another.
Forget(s) ==
  /\ bStage[s] = "over"
  /\ \/ aStage[s] = "over"
     \/ aStage[s] = "none" /\ (aSide[via[s]] # "up" \/ lost[via[s]])
  /\ aStage' = [aStage EXCEPT ![s] = "none"]
  /\ bStage' = [bStage EXCEPT ![s] = "none"]
  /\ answer' = [answer EXCEPT ![s] = "none"]
  /\ via' = [via EXCEPT ![s] = NoConn]
  /\ at' = [at EXCEPT ![s] = NoListen]
  /\ snap' = [snap EXCEPT ![s] = "off"]
  /\ denied' = [denied EXCEPT ![s] = FALSE]
  /\ UNCHANGED <<driverVars, netVars, regVars, aActive, bActive>>

-----------------------------------------------------------------------------
Stream(s) ==
  \/ AcceptStream(s) \/ StreamRefused(s) \/ StreamAccepted(s) \/ StreamOpens(s)

StreamOver(s) == AStreamEnds(s) \/ BStreamEnds(s) \/ Forget(s)

Next ==
  \/ Invalidate \/ SetCreds \/ SetReverse \/ RestartA \/ Driver
  \/ \E c \in Conns :
       \/ LosePath(c) \/ ANotices(c) \/ BNotices(c) \/ HandleRegister(c) \/ BLoopEnds(c)
       \/ \E l \in Listens : Listener(c, l) \/ ListenerFails(c, l)
  \/ \E s \in Streams : LocalConnects(s) \/ Stream(s) \/ StreamOver(s)

Spec == Init /\ [][Next]_vars

\* The driver loops and some connect succeeds, dials end, both ends notice a dead
\* path, and B's tasks are scheduled.  A relay of B ends when its connection's
\* loop has, which cancels it; one of A may wait for its target for ever.
RelayCut(s) ==
  \/ BStreamEnds(s) /\ bSide[via[s]] = "ended"
  \/ Forget(s)

Fairness ==
  /\ WF_vars(Driver)
  /\ \A c \in Conns :
       /\ WF_vars(ANotices(c)) /\ WF_vars(BNotices(c))
       /\ WF_vars(HandleRegister(c)) /\ WF_vars(BLoopEnds(c))
       /\ \A l \in Listens : WF_vars(Listener(c, l))
  /\ \A s \in Streams : WF_vars(Stream(s)) /\ WF_vars(RelayCut(s))

FairSpec == Spec /\ Fairness

-----------------------------------------------------------------------------
(* Properties *)

TypeOK ==
  /\ token \in Tokens
  /\ policy \in {"off", "empty", "open"}
  /\ {cached, conn} \subseteq Conns \cup {NoConn}
  /\ made \in [Conns -> Tokens \cup {NoToken}]
  /\ aSide \in [Conns -> {"free", "up", "closed"}]
  /\ bSide \in [Conns -> {"free", "up", "closed", "ended"}]
  /\ lost \in [Conns -> BOOLEAN]
  /\ driver \in {"sleep", "got", "waiting", "accepting"}
  /\ (driver = "sleep") = (conn = NoConn)
  /\ reg \in [Conns -> {"none", "sent", "ok", "err"}]
  /\ sent \in [Conns -> Tokens \cup {NoToken}]
  /\ client \in [Conns -> Valid \cup {NoToken}]
  /\ listener \in [Conns -> [Listens -> {"none", "spawned", "listening", "exited"}]]
  /\ aStage \in [Streams -> {"none", "checking", "relay", "over"}]
  /\ bStage \in [Streams -> {"none", "opening", "relay", "over"}]
  /\ answer \in [Streams -> {"none", "ok", "err"}]
  /\ via \in [Streams -> Conns \cup {NoConn}]
  /\ at \in [Streams -> Listens \cup {NoListen}]
  /\ snap \in [Streams -> {"off", "empty", "open"}]
  /\ denied \in [Streams -> BOOLEAN]
  /\ aActive \in Nat /\ bActive \in Nat
  /\ restarts \in 0..MaxRestarts

\* Both gauges count the reverse tunnels that are open, whichever end closes
\* first, whatever is lost, and over restarts of A (metrics.tunnel_open and
\* tunnel_close in expose.rs and tunnel.rs).
GaugesExact ==
  /\ aActive = Cardinality({s \in Streams : aStage[s] = "relay"})
  /\ bActive = Cardinality({s \in Streams : bStage[s] = "relay"})

\* A tenant's A only ever gets connections from the listeners configured for the
\* tenant its connection was authenticated as, and a listener belongs to one
\* connection at a time, although credentials change between the connect, the
\* register stream and the streams that follow.
Isolation ==
  /\ \A s \in Streams : via[s] # NoConn =>
       client[via[s]] \in Valid /\ at[s] \in ListensOf[client[via[s]]]
  /\ \A c, d \in Conns, l \in Listens :
       listener[c][l] = "listening" /\ listener[d][l] = "listening" => c = d

\* A relays a reverse stream only if its policy allowed it at some moment after
\* the stream was opened: a policy that was closed meanwhile is not outlived by
\* the registration or by an earlier stream's copy.
DenyAll == \A s \in Streams : aStage[s] = "relay" => ~denied[s]

\* Once B knows a connection is gone, its listeners give their ports back, the
\* one that had not even bound yet included.
PortsReleased ==
  \A c \in Conns : bSide[c] = "closed" ~>
    \A l \in Listens : listener[c][l] \notin {"spawned", "listening"}

\* Reverse mappings on, a credential B accepts and has listeners for, and no path
\* dead.
Favourable ==
  /\ policy # "off"
  /\ token \in Valid /\ ListensOf[token] # {}
  /\ \A c \in Conns : aSide[c] = "up" => ~lost[c]

\* When the circumstances stay favourable the driver ends up registered and
\* accepting, whatever went wrong before: lost connections, refusals, a policy switched off.
DriverReregisters == <>[]Favourable => <>[](driver = "accepting")

\* access.rs:4851: the driver starts over when its connection is gone, so in
\* these circumstances B listens for it.
ListenersComeBack ==
  <>[]Favourable => <>(\E c \in Conns, l \in Listens : c = conn /\ listener[c][l] = "listening")

\* access.rs:114: set_creds cuts the current connection, so the driver does not
\* go on serving the B (or tenant) of a credential that was replaced.
ServedByCurrent ==
  \A t \in Tokens : <>[](token = t) => <>[](driver = "accepting" => made[conn] = t)
=============================================================================
