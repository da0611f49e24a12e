------------------------------- MODULE Expose -------------------------------
(***************************************************************************)
(* The exposing side (B) of PowerMap: the accept loop of every client      *)
(* connection and the forward tunnels it spawns (src/src/expose.rs and the *)
(* serve_* functions of src/src/tunnel.rs).                                *)
(*                                                                         *)
(* A connection's loop takes the streams its peer opened one at a time, in *)
(* stream order, and waits for the open header of each.  A forward stream  *)
(* takes a permit of the connection and is served by a task of its own:    *)
(* authenticate, take a permit of the client, resolve and filter the       *)
(* target, dial, answer, relay.  The steps of a task are cut where the     *)
(* code awaits; what happens between two awaits is one action.             *)
(*                                                                         *)
(* Abstracted: DNS (an arbitrary set of addresses), bytes (of a relay is   *)
(* kept which end its upward direction waits for), the reverse listeners a *)
(* register stream starts.                                                 *)
(***************************************************************************)
EXTENDS Naturals, FiniteSets, Sequences

CONSTANTS
  Conns,        \* connection instances; each is accepted at most once
  Streams,      \* bidirectional streams the peers may open
  Clients,      \* the configured tenants (id)
  Tokens,       \* tokens a header may carry
  Ports,        \* target ports
  Addrs,        \* addresses a DNS answer may contain
  TokenOf,      \* the token of each client
  Revoked,      \* the clients marked revoked
  AllowPorts,   \* allow_ports of each client; {} allows every port
  AllowNets,    \* the addresses inside allow_networks; {} allows every one
  ConnLimit,    \* max_streams_per_conn; 0 means no semaphore
  ClientLimit,  \* max_streams of each client; 0 means no semaphore
  Requests,     \* the headers the peers send
  NoClient, NoStream, NoAddr

Kinds == {"tcp", "udp"}

Request == [token: Tokens, port: Ports, kind: Kinds, register: BOOLEAN]

NoRequest == [kind |-> "none"]

\* BConfig::validate refuses two clients with one token.
ASSUME ConstantAssumption ==
  /\ IsFiniteSet(Streams)
  /\ TokenOf \in [Clients -> Tokens]
  /\ \A k, l \in Clients : TokenOf[k] = TokenOf[l] => k = l
  /\ Revoked \in SUBSET Clients
  /\ AllowPorts \in [Clients -> SUBSET Ports]
  /\ AllowNets \in [Clients -> SUBSET Addrs]
  /\ ConnLimit \in Nat
  /\ ClientLimit \in [Clients -> Nat]
  /\ Requests \in SUBSET Request
  /\ NoClient \notin Clients
  /\ NoStream \notin Streams
  /\ NoAddr \notin Addrs

VARIABLES
  link,     \* each connection: not yet accepted, live, lost, or loop ended
  queue,    \* streams opened by the peer that the loop has not accepted yet
  loop,     \* the stream whose header the loop is waiting for
  free,     \* permits left in the connection's semaphore
  quota,    \* permits left in the client's semaphore
  stage,    \* where each stream is
  owner,    \* the connection a stream was opened on
  req,      \* the header read from a stream
  tenant,   \* the client whose permit and policy the task holds
  todo,     \* allowed addresses not dialled yet
  late,     \* a dial of this task has timed out
  dialled,  \* the address the task connected to
  metrics,  \* the process-wide counters
  audit     \* the audit result recorded for a stream

loopVars == <<link, queue, loop>>
taskVars == <<req, tenant, todo, late, dialled>>
vars == <<loopVars, free, quota, stage, owner, taskVars, metrics, audit>>

Counters == {"tunnels_opened", "tunnels_active", "tunnels_failed",
             "handshake_denied", "target_denied", "over_limit",
             "dial_failed", "dial_timeout"}

\* Stages in which the task that holds the connection's permit is running.
Serving == {"spawned", "resolving", "dialling", "accepting", "refusing",
            "open", "stalled", "draining"}

\* Stages of a relay.  "open": `up` waits for the stream, and sees it fail.
\* "stalled": `up` waits for the target to read.  "draining": `up` is over, the
\* client having closed its half, and `down` waits for the target to speak.
Relaying == {"open", "stalled", "draining"}

\* Final stages: dropped at the connection's limit, header unreadable, register
\* stream answered, refused with a status, the OK status could not be written,
\* tunnel ended.
Final == {"dropped", "unreadable", "registered", "refused", "abandoned", "ended"}

Stages == {"unopened", "queued", "reading"} \cup Serving \cup Final

Results == {"ok", "denied_token", "denied_target", "over_limit",
            "dial_failed", "dial_timeout"}

-----------------------------------------------------------------------------
(* Authentication and policy *)

\* The clients a token authenticates; at most one, since tokens are distinct.
Authenticated(token) ==
  {k \in Clients : k \notin Revoked /\ TokenOf[k] = token}

PortAllowed(k, port) == AllowPorts[k] = {} \/ port \in AllowPorts[k]

\* Slip: the networks are not consulted.
AllowedPortOnly(k, port, found) == {a \in found : PortAllowed(k, port)}

\* What resolve_allowed keeps of a DNS answer.
Allowed(k, port, found) ==
  {a \in found : PortAllowed(k, port) /\ (AllowNets[k] = {} \/ a \in AllowNets[k])}

-----------------------------------------------------------------------------
(* Permits *)

HoldsClient(s) ==
  tenant[s] # NoClient /\ stage[s] \in Serving

\* try_acquire_owned on the connection's and on the client's semaphore.
\* Slip: an off-by-one in the first.
ConnPermitOffByOne(s) == ConnLimit = 0 \/ free[owner[s]] >= 0

ConnPermit(s) == ConnLimit = 0 \/ free[owner[s]] > 0

ClientPermit(k) == ClientLimit[k] = 0 \/ quota[k] > 0

\* Slip: the client's permit is leaked.
ReleaseConnOnly(s) ==
  /\ free' = IF ConnLimit > 0
             THEN [free EXCEPT ![owner[s]] = @ + 1] ELSE free
  /\ UNCHANGED quota

\* Both guards are dropped when the task returns.
ReleasePermits(s) ==
  /\ free' = IF ConnLimit > 0
             THEN [free EXCEPT ![owner[s]] = @ + 1] ELSE free
  /\ quota' = IF HoldsClient(s) /\ ClientLimit[tenant[s]] > 0
              THEN [quota EXCEPT ![tenant[s]] = @ + 1] ELSE quota

Count(counter) == metrics' = [metrics EXCEPT ![counter] = @ + 1]

\* A failure of the tunnel: two counters, the task goes on to write its status.
Fail(s, cause) ==
  /\ metrics' = [metrics EXCEPT ![cause] = @ + 1, !["tunnels_failed"] = @ + 1]
  /\ stage' = [stage EXCEPT ![s] = "refusing"]

Record(s, result) == audit' = [audit EXCEPT ![s] = result]

-----------------------------------------------------------------------------
Init ==
  /\ link = [c \in Conns |-> "none"]
  /\ queue = [c \in Conns |-> <<>>]
  /\ loop = [c \in Conns |-> NoStream]
  /\ free = [c \in Conns |-> ConnLimit]
  /\ quota = ClientLimit
  /\ stage = [s \in Streams |-> "unopened"]
  /\ owner \in [Streams -> Conns]
  /\ req = [s \in Streams |-> NoRequest]
  /\ tenant = [s \in Streams |-> NoClient]
  /\ todo = [s \in Streams |-> {}]
  /\ late = [s \in Streams |-> FALSE]
  /\ dialled = [s \in Streams |-> NoAddr]
  /\ metrics = [x \in Counters |-> 0]
  /\ audit = [s \in Streams |-> "none"]

-----------------------------------------------------------------------------
(* The peer and the transport *)

Accept(c) ==
  /\ link[c] = "none"
  /\ link' = [link EXCEPT ![c] = "live"]
  /\ UNCHANGED <<queue, loop, free, quota, stage, owner, taskVars, metrics, audit>>

OpenStream(s) ==
  /\ stage[s] = "unopened"
  /\ link[owner[s]] = "live"
  /\ stage' = [stage EXCEPT ![s] = "queued"]
  /\ queue' = [queue EXCEPT ![owner[s]] = Append(@, s)]
  /\ UNCHANGED <<link, loop, free, quota, owner, taskVars, metrics, audit>>

\* Idle timeout, a peer that closes, or a peer that dies.
LoseConnection(c) ==
  /\ link[c] = "live"
  /\ link' = [link EXCEPT ![c] = "lost"]
  /\ UNCHANGED <<queue, loop, free, quota, stage, owner, taskVars, metrics, audit>>

-----------------------------------------------------------------------------
(* The accept loop of a connection *)

\* accept_bi still hands out the streams that arrived before the loss.
AcceptBi(c) ==
  /\ link[c] \in {"live", "lost"}
  /\ loop[c] = NoStream
  /\ queue[c] # <<>>
  /\ loop' = [loop EXCEPT ![c] = Head(queue[c])]
  /\ queue' = [queue EXCEPT ![c] = Tail(@)]
  /\ stage' = [stage EXCEPT ![Head(queue[c])] = "reading"]
  /\ UNCHANGED <<link, free, quota, owner, taskVars, metrics, audit>>

LoopEnds(c) ==
  /\ link[c] = "lost"
  /\ loop[c] = NoStream
  /\ queue[c] = <<>>
  /\ link' = [link EXCEPT ![c] = "closed"]
  /\ UNCHANGED <<queue, loop, free, quota, stage, owner, taskVars, metrics, audit>>

\* Slip: the handler returns instead of going on with the next stream.
HeaderUnreadableStops(s) ==
  /\ stage[s] = "reading"
  /\ link' = [link EXCEPT ![owner[s]] = "closed"]
  /\ loop' = [loop EXCEPT ![owner[s]] = NoStream]
  /\ stage' = [stage EXCEPT ![s] = "unreadable"]
  /\ UNCHANGED <<queue, free, quota, owner, taskVars, metrics, audit>>

\* The stream is reset, malformed or cut off before its header is complete.
HeaderUnreadable(s) ==
  /\ stage[s] = "reading"
  /\ loop' = [loop EXCEPT ![owner[s]] = NoStream]
  /\ stage' = [stage EXCEPT ![s] = "unreadable"]
  /\ UNCHANGED <<link, queue, free, quota, owner, taskVars, metrics, audit>>

\* handle_register runs inside the loop; a bad token is counted, not audited.
HandleRegister(s) ==
  /\ stage[s] = "reading"
  /\ \E r \in Requests :
       /\ r.register
       /\ req' = [req EXCEPT ![s] = r]
       /\ IF Authenticated(r.token) = {} THEN Count("handshake_denied")
                                         ELSE UNCHANGED metrics
  /\ loop' = [loop EXCEPT ![owner[s]] = NoStream]
  /\ stage' = [stage EXCEPT ![s] = "registered"]
  /\ UNCHANGED <<link, queue, free, quota, owner, tenant, todo, late, dialled, audit>>

\* A forward header: take a permit of the connection and spawn the task, or
\* drop the stream when there is none.
SpawnOrDrop(s) ==
  /\ stage[s] = "reading"
  /\ \E r \in Requests : ~r.register /\ req' = [req EXCEPT ![s] = r]
  /\ loop' = [loop EXCEPT ![owner[s]] = NoStream]
  /\ \/ /\ ConnPermit(s)
        /\ free' = IF ConnLimit > 0
                   THEN [free EXCEPT ![owner[s]] = @ - 1] ELSE free
        /\ stage' = [stage EXCEPT ![s] = "spawned"]
        /\ UNCHANGED metrics
     \/ /\ ~ConnPermit(s)
        /\ stage' = [stage EXCEPT ![s] = "dropped"]
        /\ Count("over_limit")
        /\ UNCHANGED free
  /\ UNCHANGED <<link, queue, quota, owner, tenant, todo, late, dialled, audit>>

-----------------------------------------------------------------------------
(* serve_forward *)

\* Unknown or revoked token.
DenyToken(s) ==
  /\ stage[s] = "spawned"
  /\ Authenticated(req[s].token) = {}
  /\ Fail(s, "handshake_denied")
  /\ Record(s, "denied_token")
  /\ UNCHANGED <<loopVars, free, quota, owner, taskVars>>

\* Authenticated: take a permit of the client or be refused.
Authenticate(s) ==
  /\ stage[s] = "spawned"
  /\ \E k \in Authenticated(req[s].token) :
       \/ /\ ClientPermit(k)
          /\ quota' = IF ClientLimit[k] > 0
                      THEN [quota EXCEPT ![k] = @ - 1] ELSE quota
          /\ tenant' = [tenant EXCEPT ![s] = k]
          /\ stage' = [stage EXCEPT ![s] = "resolving"]
          /\ UNCHANGED <<metrics, audit>>
       \/ /\ ~ClientPermit(k)
          /\ Fail(s, "over_limit")
          /\ Record(s, "over_limit")
          /\ UNCHANGED <<quota, tenant>>
  /\ UNCHANGED <<loopVars, free, owner, req, todo, late, dialled>>

\* One DNS lookup; the answer found is filtered by the client's policy.  An
\* answer with nothing allowed (or none at all) is a denied target.
ResolveAllowed(s) ==
  /\ stage[s] = "resolving"
  /\ \E found \in SUBSET Addrs :
       LET allowed == Allowed(tenant[s], req[s].port, found) IN
       \/ /\ allowed # {}
          /\ todo' = [todo EXCEPT ![s] = allowed]
          /\ stage' = [stage EXCEPT ![s] = "dialling"]
          /\ UNCHANGED <<metrics, audit>>
       \/ /\ allowed = {}
          /\ Fail(s, "target_denied")
          /\ Record(s, "denied_target")
          /\ UNCHANGED todo
  /\ UNCHANGED <<loopVars, free, quota, owner, req, tenant, late, dialled>>

\* connect succeeded on one of the addresses still to be tried.
DialSucceeds(s) ==
  /\ stage[s] = "dialling"
  /\ \E a \in todo[s] : dialled' = [dialled EXCEPT ![s] = a]
  /\ stage' = [stage EXCEPT ![s] = "accepting"]
  /\ UNCHANGED <<loopVars, free, quota, owner, req, tenant, todo, late, metrics, audit>>

\* serve_tcp: one address fails or times out; after the last one the tunnel
\* fails, as a timeout when any of its dials timed out.
TcpDialFails(s) ==
  /\ stage[s] = "dialling"
  /\ req[s].kind = "tcp"
  /\ \E a \in todo[s], timeout \in BOOLEAN :
       /\ todo' = [todo EXCEPT ![s] = @ \ {a}]
       /\ late' = [late EXCEPT ![s] = @ \/ timeout]
       /\ \/ /\ todo[s] # {a}
             /\ UNCHANGED <<stage, metrics, audit>>
          \/ /\ todo[s] = {a}
             /\ LET cause == IF late[s] \/ timeout THEN "dial_timeout" ELSE "dial_failed"
                IN  Fail(s, cause) /\ Record(s, cause)
  /\ UNCHANGED <<loopVars, free, quota, owner, req, tenant, dialled>>

\* serve_udp: only the first address is tried, and its failure is not audited.
UdpDialFails(s) ==
  /\ stage[s] = "dialling"
  /\ req[s].kind = "udp"
  /\ Fail(s, "dial_failed")
  /\ UNCHANGED <<loopVars, free, quota, owner, taskVars, audit>>

\* write_status(OK) went out: the tunnel is open.
WriteOk(s) ==
  /\ stage[s] = "accepting"
  /\ link[owner[s]] = "live"
  /\ stage' = [stage EXCEPT ![s] = "open"]
  /\ metrics' = [metrics EXCEPT !["tunnels_opened"] = @ + 1, !["tunnels_active"] = @ + 1]
  /\ Record(s, "ok")
  /\ UNCHANGED <<loopVars, free, quota, owner, taskVars>>

\* Slip: the failed task closes a tunnel it never counted as open.
WriteOkFailsCloses(s) ==
  /\ stage[s] = "accepting"
  /\ stage' = [stage EXCEPT ![s] = "abandoned"]
  /\ metrics' = [metrics EXCEPT !["tunnels_active"] = IF @ > 0 THEN @ - 1 ELSE 0]
  /\ ReleasePermits(s)
  /\ UNCHANGED <<loopVars, owner, taskVars, audit>>

\* write_status(OK) failed: the connection is gone or the peer stopped the
\* stream.  The task returns through `?`, counting nothing.
WriteOkFails(s) ==
  /\ stage[s] = "accepting"
  /\ stage' = [stage EXCEPT ![s] = "abandoned"]
  /\ ReleasePermits(s)
  /\ UNCHANGED <<loopVars, owner, taskVars, metrics, audit>>

\* write_status(ERR), whether or not it reaches the peer, ends the task.
WriteErr(s) ==
  /\ stage[s] = "refusing"
  /\ stage' = [stage EXCEPT ![s] = "refused"]
  /\ ReleasePermits(s)
  /\ UNCHANGED <<loopVars, owner, taskVars, metrics, audit>>

\* `up` has data for a TCP target that does not read: it waits in write_all and
\* looks at the stream no more.
TargetStalls(s) ==
  /\ stage[s] = "open"
  /\ req[s].kind = "tcp"
  /\ stage' = [stage EXCEPT ![s] = "stalled"]
  /\ UNCHANGED <<loopVars, free, quota, owner, taskVars, metrics, audit>>

TargetReads(s) ==
  /\ stage[s] = "stalled"
  /\ stage' = [stage EXCEPT ![s] = "open"]
  /\ UNCHANGED <<loopVars, free, quota, owner, taskVars, metrics, audit>>

\* The client's FIN (received before a loss, perhaps): `up` shuts the target's
\* write side and is over, while `down` goes on reading the target.  For UDP
\* the end of the stream ends the tunnel.
HalfCloses(s) ==
  /\ stage[s] = "open"
  /\ req[s].kind = "tcp"
  /\ stage' = [stage EXCEPT ![s] = "draining"]
  /\ UNCHANGED <<loopVars, free, quota, owner, taskVars, metrics, audit>>

\* Both directions finished or one failed (the target's doing from any of the
\* three stages); tunnel_close never takes the gauge below 0.
TunnelEnds(s) ==
  /\ stage[s] \in Relaying
  /\ stage' = [stage EXCEPT ![s] = "ended"]
  /\ metrics' = [metrics EXCEPT !["tunnels_active"] = IF @ > 0 THEN @ - 1 ELSE 0]
  /\ ReleasePermits(s)
  /\ UNCHANGED <<loopVars, owner, taskVars, audit>>

-----------------------------------------------------------------------------
Loop(c) == AcceptBi(c) \/ LoopEnds(c)

Header(s) == HeaderUnreadable(s) \/ HandleRegister(s) \/ SpawnOrDrop(s)

\* The steps of a tunnel task before it relays.
Serve(s) ==
  \/ DenyToken(s) \/ Authenticate(s) \/ ResolveAllowed(s)
  \/ DialSucceeds(s) \/ TcpDialFails(s) \/ UdpDialFails(s)
  \/ WriteOk(s) \/ WriteOkFails(s) \/ WriteErr(s)

Relay(s) == TargetStalls(s) \/ TargetReads(s) \/ HalfCloses(s) \/ TunnelEnds(s)

Next ==
  \/ \E c \in Conns : Accept(c) \/ LoseConnection(c) \/ Loop(c)
  \/ \E s \in Streams : OpenStream(s) \/ Header(s) \/ Serve(s) \/ Relay(s)

Spec == Init /\ [][Next]_vars

\* The runtime schedules every ready task.  A header arrives or its stream
\* fails, because the accessing side writes it right after opening the stream;
\* dials, lookups and writes end (dial timeout, resolver timeout, idle timeout).
\* A relay is only bound to end once its connection is gone and `up` reads the
\* stream (however often a target stalls it meanwhile: what had arrived before
\* the loss is finite).  A stalled or draining one waits for its target alone.
Fairness ==
  /\ \A c \in Conns : WF_vars(Loop(c))
  /\ \A s \in Streams :
       /\ WF_vars(Header(s))
       /\ WF_vars(Serve(s))
       /\ SF_vars(/\ link[owner[s]] \in {"lost", "closed"}
                  /\ stage[s] = "open"
                  /\ TunnelEnds(s))

FairSpec == Spec /\ Fairness

-----------------------------------------------------------------------------
(* Properties *)

TypeOK ==
  /\ link \in [Conns -> {"none", "live", "lost", "closed"}]
  /\ queue \in [Conns -> Seq(Streams)]
  /\ loop \in [Conns -> Streams \cup {NoStream}]
  /\ free \in [Conns -> Nat]
  /\ quota \in [Clients -> Nat]
  /\ stage \in [Streams -> Stages]
  /\ owner \in [Streams -> Conns]
  /\ req \in [Streams -> Requests \cup {NoRequest}]
  /\ tenant \in [Streams -> Clients \cup {NoClient}]
  /\ todo \in [Streams -> SUBSET Addrs]
  /\ late \in [Streams -> BOOLEAN]
  /\ dialled \in [Streams -> Addrs \cup {NoAddr}]
  /\ metrics \in [Counters -> Nat]
  /\ audit \in [Streams -> Results \cup {"none"}]

ServedOn(c) == {s \in Streams : stage[s] \in Serving /\ owner[s] = c}

ServedFor(k) == {s \in Streams : HoldsClient(s) /\ tenant[s] = k}

InStage(S) == {s \in Streams : stage[s] \in S}

\* However tasks, losses and reconnections interleave, a permit is either in
\* its semaphore or held by exactly one running task (the OwnedSemaphorePermit
\* guards of expose.rs and tunnel.rs are neither leaked nor returned twice).
PermitsConserved ==
  /\ ConnLimit > 0 =>
       \A c \in Conns : free[c] + Cardinality(ServedOn(c)) = ConnLimit
  /\ \A k \in Clients : ClientLimit[k] > 0 =>
       quota[k] + Cardinality(ServedFor(k)) = ClientLimit[k]

\* max_streams_per_conn bounds the tasks of one connection, and max_streams
\* bounds the tasks of one client over all its connections, the lost ones
\* included.
LimitsRespected ==
  /\ ConnLimit > 0 => \A c \in Conns : Cardinality(ServedOn(c)) <= ConnLimit
  /\ \A k \in Clients : ClientLimit[k] > 0 =>
       Cardinality(ServedFor(k)) <= ClientLimit[k]

\* A stream is turned away for a limit only when that many tunnels really are
\* in service at that moment: no permit is lost to a task that is gone.
RefusalsJustified ==
  [][\A s \in Streams :
       /\ stage[s] = "reading" /\ stage'[s] = "dropped" =>
            Cardinality(ServedOn(owner[s])) = ConnLimit
       /\ audit[s] # "over_limit" /\ audit'[s] = "over_limit" =>
            \E k \in Authenticated(req[s].token) :
              Cardinality(ServedFor(k)) = ClientLimit[k]]_vars

\* A stream in the eyes of its connection's semaphore.
PlaceOnConn(s) ==
  IF stage[s] \in Serving THEN "inside"
  ELSE IF stage[s] = "dropped" THEN "turned"
  ELSE IF stage[s] \in {"refused", "abandoned", "ended"} THEN "left"
  ELSE "outside"

\* A stream in the eyes of its client's semaphore.
PlaceAtClient(s) ==
  IF tenant[s] # NoClient THEN (IF stage[s] \in Serving THEN "inside" ELSE "left")
  ELSE IF audit[s] = "over_limit" THEN "turned"
  ELSE "outside"

TenantOf(token) == CHOOSE k \in Clients : k \in Authenticated(token)

PoolAtClient(s) ==
  IF tenant[s] # NoClient THEN tenant[s]
  ELSE IF audit[s] = "over_limit" THEN TenantOf(req[s].token)
  ELSE NoClient

ConnAt == [s \in Streams |-> PlaceOnConn(s)]

ConnPool == [s \in Streams |-> IF PlaceOnConn(s) = "outside" THEN NoClient ELSE owner[s]]

ClientAt == [s \in Streams |-> PlaceAtClient(s)]

ClientPool == [s \in Streams |-> PoolAtClient(s)]

ConnLimits == [c \in Conns |-> ConnLimit]

OfConns ==
  INSTANCE Admission WITH
    Tasks <- Streams, Pools <- Conns, Limit <- ConnLimits, NoPool <- NoClient,
    at <- ConnAt, pool <- ConnPool

OfClients ==
  INSTANCE Admission WITH
    Tasks <- Streams, Pools <- Clients, Limit <- ClientLimit, NoPool <- NoClient,
    at <- ClientAt, pool <- ClientPool

\* The accept loop and serve_forward implement Admission for connections and
\* for clients: both limits hold over every interleaving, a stream is turned
\* away only from a full pool, and a permit is given up exactly once.
Admits == OfConns!Spec /\ OfClients!Spec

\* The gauge tunnels_active is the number of tunnels that relay, and
\* tunnels_opened the number that ever were: no path closes a tunnel it did
\* not open, or leaves one counted.
GaugeExact ==
  /\ metrics["tunnels_active"] = Cardinality(InStage(Relaying))
  /\ metrics["tunnels_opened"] = Cardinality(InStage(Relaying \cup {"ended"}))

\* tunnels_failed counts each refused tunnel once, whatever refused it.
FailuresExact ==
  metrics["tunnels_failed"] = Cardinality(InStage({"refusing", "refused"}))

\* Whatever path a tunnel takes, metrics.rs counts it: gauge, openings, failures.
CountersExact == GaugeExact /\ FailuresExact

\* An address that was connected to passed the policy of the live client whose
\* token the header carried, although the DNS answer is arbitrary and the dial
\* happens several steps after the check (no second lookup).
DialAllowed ==
  \A s \in Streams : dialled[s] # NoAddr =>
    /\ tenant[s] \in Authenticated(req[s].token)
    /\ PortAllowed(tenant[s], req[s].port)
    /\ AllowNets[tenant[s]] = {} \/ dialled[s] \in AllowNets[tenant[s]]

\* Every stream a peer opened leaves the accept queue and is answered, dropped
\* or relayed, also when its connection is lost meanwhile: a bad header or a
\* refused stream never stops the loop behind it.
StreamsHandled ==
  \A s \in Streams : stage[s] = "queued" ~> stage[s] \in Final \cup Relaying

\* A relay that waits for its target alone.
WaitsForTarget(s) == stage[s] \in {"stalled", "draining"}

\* Once no connection is live any more, the only permits of a client that are
\* still out are those of relays its targets keep waiting: a client that
\* reconnects is not refused for dials, answers or relays of its dead
\* connections that have nobody left to wait for.
PermitsReturn ==
  <>[](\A c \in Conns : link[c] # "live") =>
    <>[](\A k \in Clients : ClientLimit[k] > 0 =>
           quota[k] + Cardinality({s \in ServedFor(k) : WaitsForTarget(s)}) = ClientLimit[k])

\* tunnel.rs:19 says a lost peer is noticed within 15 seconds: then every permit
\* of a client without a connection comes back.  It does not of a relay that
\* waits for its target, which no timeout of the code bounds.
AllPermitsReturn ==
  <>[](\A c \in Conns : link[c] # "live") => <>[](quota = ClientLimit)

\* metrics.rs:15 says tunnels_failed counts a failure at any stage after the
\* handshake header: every forward stream that was read and did not open.
EveryFailureCounted ==
  metrics["tunnels_failed"] >= Cardinality(InStage({"dropped", "refused", "abandoned"}))
=============================================================================
