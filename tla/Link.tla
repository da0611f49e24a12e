-------------------------------- MODULE Link --------------------------------
(***************************************************************************)
(* The connection the accessing side (A) shares between all its tunnels:   *)
(* Link and its users in src/src/access.rs.                                *)
(*                                                                         *)
(* Link keeps the credential behind a fair RwLock, the cached connection   *)
(* behind a fair Mutex held across a connect, and the moment it was        *)
(* established in an atomic outside both.  Tunnels (open_with_retry), the  *)
(* watchdog, handlers that set a credential and handlers that show the     *)
(* status use it concurrently; each is a process here, cut where it waits  *)
(* for a lock, for the network, or leaves a lock.                          *)
(*                                                                         *)
(* tokio grants both locks first come, first served, so each is the queue  *)
(* of its holders and waiters.  An access that neither waits inside nor is *)
(* observed from outside takes and leaves its lock in one step.            *)
(*                                                                         *)
(* Abstracted: time (backoff, the watchdog's period, dial timeouts), the   *)
(* contents of a tunnel, and the many reasons B refuses one.               *)
(***************************************************************************)
EXTENDS Naturals, SequencesExt

CONSTANTS
  Creds,       \* credentials (target and token) a user may paste
  Conns,       \* connections, reused once nothing refers to them
  Tunnels,     \* local connections that want a tunnel
  Watchdogs,   \* the watchdog task (at most one)
  Setters,     \* set_credential requests
  Viewers,     \* status requests
  NoCred, NoConn

Getters == Tunnels \cup Watchdogs
Procs == Getters \cup Setters \cup Viewers

ASSUME LinkAssumption ==
  /\ NoCred \notin Creds
  /\ NoConn \notin Conns
  /\ Getters \cap (Setters \cup Viewers) = {}
  /\ Setters \cap Viewers = {}
  /\ Tunnels \cap Watchdogs = {}

VARIABLES
  creds,      \* the current credential
  cached,     \* the connection Link holds
  since,      \* connected_since # 0
  made,       \* the credential a connection was made for
  state,      \* free, up, lost (A does not know yet), closed (close_reason set)
  connQ,      \* holder and waiters of the connection's mutex
  credsQ,     \* holders and waiters of the credential's lock: <<process, mode>>
  reachable,  \* a connect succeeds
  pc,
  held,       \* the connection of a tunnel's current, or else last, attempt
  target,     \* the credential a connect uses
  token,      \* the credential whose token a tunnel sends
  attempt,    \* failed attempts of a tunnel
  clean       \* no set_creds since the tunnel read its token, nor under way then

locks == <<connQ, credsQ>>
shared == <<creds, cached, since, made, state>>
locals == <<held, target, token, attempt, clean>>
vars == <<shared, locks, reachable, pc, locals>>

TunnelSteps == {"token", "open", "relay"}
GetSteps == {"get", "target", "connecting"}
InvalidateSteps == {"drop", "clear"}
WatchSteps == {"configured", "alive", "backoff"}
ViewSteps == {"view", "alive", "since", "ips", "peer"}

Steps == {"idle", "write"} \cup TunnelSteps \cup GetSteps \cup InvalidateSteps
           \cup WatchSteps \cup ViewSteps

-----------------------------------------------------------------------------
(* The locks *)

HasConn(p) == connQ # <<>> /\ Head(connQ) = p

WaitConn(p) == connQ' = Append(connQ, p)

LeaveConn == connQ' = Tail(connQ)

\* A reader enters when only readers are before it, a writer when nobody is.
HasCreds(e) ==
  \E i \in DOMAIN credsQ :
    /\ credsQ[i] = e
    /\ \A j \in 1..(i - 1) : credsQ[j][2] # "write" /\ e[2] # "write"

WaitCreds(e) == credsQ' = Append(credsQ, e)

LeaveCreds(e) ==
  \E i \in DOMAIN credsQ : credsQ[i] = e /\ credsQ' = RemoveAt(credsQ, i)

\* Dropping the last handle of a connection closes it; its id may be used again.
InUse(c) == c = cached \/ \E p \in Tunnels : held[p] = c

DropUnused ==
  /\ state' = [c \in Conns |-> IF InUse(c)' THEN state[c] ELSE "free"]
  /\ made' = [c \in Conns |-> IF InUse(c)' THEN made[c] ELSE NoCred]

\* Slip: liveness of the cached connection is not asked.
AliveWhenCached == cached # NoConn

\* is_alive: the cached connection has no close_reason.
Alive == cached # NoConn /\ state[cached] # "closed"

-----------------------------------------------------------------------------
Init ==
  /\ creds \in Creds \cup {NoCred}
  /\ cached = NoConn
  /\ since = FALSE
  /\ made = [c \in Conns |-> NoCred]
  /\ state = [c \in Conns |-> "free"]
  /\ connQ = <<>> /\ credsQ = <<>>
  /\ reachable = TRUE
  /\ pc = [p \in Procs |-> "idle"]
  /\ held = [p \in Tunnels |-> NoConn]
  /\ target = [p \in Getters |-> NoCred]
  /\ token = [p \in Tunnels |-> NoCred]
  /\ attempt = [p \in Tunnels |-> 0]
  /\ clean = [p \in Tunnels |-> FALSE]

-----------------------------------------------------------------------------
(* The network *)

NetChange ==
  /\ reachable' = ~reachable
  /\ UNCHANGED <<shared, locks, pc, locals>>

\* B dies, restarts or loses the path; A learns of it at the idle timeout.
LoseConnection(c) ==
  /\ state[c] = "up"
  /\ state' = [state EXCEPT ![c] = "lost"]
  /\ UNCHANGED <<creds, cached, since, made, locks, reachable, pc, locals>>

DetectLoss(c) ==
  /\ state[c] = "lost"
  /\ state' = [state EXCEPT ![c] = "closed"]
  /\ UNCHANGED <<creds, cached, since, made, locks, reachable, pc, locals>>

-----------------------------------------------------------------------------
(* Link::get *)

\* A tunnel goes on with its handle; the watchdog drops it.
Use(p, c) ==
  /\ held' = IF p \in Tunnels THEN [held EXCEPT ![p] = c] ELSE held
  /\ pc' = [pc EXCEPT ![p] = IF p \in Tunnels THEN "open" ELSE "idle"]

\* The task is done with the link.
Return(p) ==
  /\ pc' = [pc EXCEPT ![p] = "idle"]
  /\ held' = IF p \in Tunnels THEN [held EXCEPT ![p] = NoConn] ELSE held
  /\ attempt' = IF p \in Tunnels THEN [attempt EXCEPT ![p] = 0] ELSE attempt
  /\ token' = IF p \in Tunnels THEN [token EXCEPT ![p] = NoCred] ELSE token
  /\ clean' = IF p \in Tunnels THEN [clean EXCEPT ![p] = FALSE] ELSE clean
  /\ DropUnused

\* Slip: a failed attempt is not counted, so a tunnel tries for ever.
NextAttemptUncounted(p) ==
  IF p \in Tunnels
  THEN /\ pc' = [pc EXCEPT ![p] = "get"]
       /\ UNCHANGED <<held, token, attempt, clean, made, state>>
  ELSE Return(p)

\* A tunnel's attempt failed: get again at once, or give up after the second.
NextAttempt(p) ==
  IF p \in Tunnels /\ attempt[p] = 0
  THEN /\ pc' = [pc EXCEPT ![p] = "get"]
       /\ attempt' = [attempt EXCEPT ![p] = 1]
       /\ UNCHANGED <<held, token, clean, made, state>>
  ELSE Return(p)

\* Slip: the target is the one of the token, read before the lock was taken.
TargetOfToken(p) == IF p \in Tunnels THEN token[p] ELSE creds

\* The target is read inside the mutex.
TargetNow(p) == creds

\* The cached connection has no close_reason yet: hand out a handle.
GetCached(p) ==
  /\ pc[p] = "get" /\ HasConn(p)
  /\ Alive
  /\ UNCHANGED <<creds, cached, since, credsQ, reachable, target, token, attempt, clean>>
  /\ Use(p, cached)
  /\ DropUnused
  /\ LeaveConn

\* None, or a closed one: ask for the target, the mutex in hand.
GetNeedsTarget(p) ==
  /\ pc[p] = "get" /\ HasConn(p)
  /\ ~Alive
  /\ WaitCreds(<<p, "read">>)
  /\ pc' = [pc EXCEPT ![p] = "target"]
  /\ UNCHANGED <<shared, connQ, reachable, locals>>

ReadTarget(p) ==
  /\ pc[p] = "target" /\ HasCreds(<<p, "read">>)
  /\ creds # NoCred
  /\ target' = [target EXCEPT ![p] = TargetNow(p)]
  /\ LeaveCreds(<<p, "read">>)
  /\ pc' = [pc EXCEPT ![p] = "connecting"]
  /\ UNCHANGED <<shared, connQ, reachable, held, token, attempt, clean>>

\* Leaving get with an error releases the mutex; a second attempt queues again.
LeaveConnFailed(p) ==
  connQ' = IF p \in Tunnels /\ attempt[p] = 0 THEN Append(Tail(connQ), p) ELSE Tail(connQ)

NotConfigured(p) ==
  /\ pc[p] = "target" /\ HasCreds(<<p, "read">>)
  /\ creds = NoCred
  /\ LeaveCreds(<<p, "read">>)
  /\ LeaveConnFailed(p)
  /\ UNCHANGED <<creds, cached, since, reachable, target>>
  /\ NextAttempt(p)

\* connect succeeded: cache it, in place of a closed one, and set connected_since
\* before the mutex is left.
Connected(p) ==
  /\ pc[p] = "connecting"
  /\ reachable
  /\ \E c \in Conns :
       /\ \A q \in Tunnels : held[q] # c
       /\ cached' = c
       /\ Use(p, c)
       /\ made' = [x \in Conns |->
                    IF x = c THEN target[p] ELSE IF InUse(x)' THEN made[x] ELSE NoCred]
       /\ state' = [x \in Conns |->
                     IF x = c THEN "up" ELSE IF InUse(x)' THEN state[x] ELSE "free"]
  /\ target' = [target EXCEPT ![p] = NoCred]
  /\ since' = TRUE
  /\ LeaveConn
  /\ UNCHANGED <<creds, credsQ, reachable, token, attempt, clean>>

\* Slip: the failed connect keeps the mutex.
ConnectFailsHolding(p) ==
  /\ pc[p] = "connecting"
  /\ ~reachable
  /\ pc' = [pc EXCEPT ![p] = "idle"]
  /\ UNCHANGED <<shared, locks, reachable, locals>>

ConnectFails(p) ==
  /\ pc[p] = "connecting"
  /\ ~reachable
  /\ LeaveConnFailed(p)
  /\ target' = [target EXCEPT ![p] = NoCred]
  /\ UNCHANGED <<creds, cached, since, credsQ, reachable>>
  /\ NextAttempt(p)

Get(p) ==
  \/ GetCached(p) \/ GetNeedsTarget(p) \/ ReadTarget(p)
  \/ NotConfigured(p) \/ Connected(p) \/ ConnectFails(p)

-----------------------------------------------------------------------------
(* Link::invalidate *)

\* Slip: the handle stays in the cache.
InvalidateKeeps(p) ==
  /\ pc[p] = "drop" /\ HasConn(p)
  /\ LeaveConn
  /\ pc' = [pc EXCEPT ![p] = "clear"]
  /\ UNCHANGED <<shared, credsQ, reachable, locals>>

\* Whatever is cached by now is dropped, not only the one that failed.
InvalidateConn(p) ==
  /\ pc[p] = "drop" /\ HasConn(p)
  /\ cached' = NoConn
  /\ LeaveConn
  /\ pc' = [pc EXCEPT ![p] = "clear"]
  /\ UNCHANGED locals
  /\ DropUnused
  /\ UNCHANGED <<creds, since, credsQ, reachable>>

\* connected_since is cleared after the mutex was left.
InvalidateSince(p) ==
  /\ pc[p] = "clear"
  /\ since' = FALSE
  /\ UNCHANGED <<creds, cached, credsQ, reachable, target>>
  /\ IF p \in Tunnels
     THEN /\ NextAttempt(p)
          /\ IF attempt[p] = 0 THEN WaitConn(p) ELSE UNCHANGED connQ
     ELSE /\ pc' = [pc EXCEPT ![p] = "idle"]
          /\ UNCHANGED <<held, attempt, token, clean, made, state, connQ>>

Invalidate(p) == InvalidateConn(p) \/ InvalidateSince(p)

-----------------------------------------------------------------------------
(* Link::set_creds, called by set_credential and import_config *)

\* Is a credential written whose connection is not dropped yet?
Switching == \E s \in Setters : pc[s] = "drop"

SetCreds(s) ==
  /\ pc[s] = "idle"
  /\ WaitCreds(<<s, "write">>)
  /\ pc' = [pc EXCEPT ![s] = "write"]
  /\ UNCHANGED <<shared, connQ, reachable, locals>>

\* Slip: the connection is not dropped after the credential was written.
WriteCredsOnly(s) ==
  /\ pc[s] = "write" /\ HasCreds(<<s, "write">>)
  /\ \E c \in Creds : creds' = c
  /\ clean' = [p \in Tunnels |-> FALSE]
  /\ LeaveCreds(<<s, "write">>)
  /\ pc' = [pc EXCEPT ![s] = "idle"]
  /\ UNCHANGED <<cached, since, made, state, connQ, reachable, held, target, token,
                 attempt>>

WriteCreds(s) ==
  /\ pc[s] = "write" /\ HasCreds(<<s, "write">>)
  /\ \E c \in Creds : creds' = c
  /\ clean' = [p \in Tunnels |-> FALSE]
  /\ LeaveCreds(<<s, "write">>)
  /\ WaitConn(s)
  /\ pc' = [pc EXCEPT ![s] = "drop"]
  /\ UNCHANGED <<cached, since, made, state, reachable, held, target, token, attempt>>

-----------------------------------------------------------------------------
(* A tunnel: link.token(), then open_with_retry *)

Begin(p) ==
  /\ pc[p] = "idle"
  /\ WaitCreds(<<p, "read">>)
  /\ pc' = [pc EXCEPT ![p] = "token"]
  /\ UNCHANGED <<shared, connQ, reachable, locals>>

ReadToken(p) ==
  /\ pc[p] = "token" /\ HasCreds(<<p, "read">>)
  /\ token' = [token EXCEPT ![p] = creds]
  /\ clean' = [clean EXCEPT ![p] = ~Switching]
  /\ LeaveCreds(<<p, "read">>)
  /\ WaitConn(p)
  /\ pc' = [pc EXCEPT ![p] = "get"]
  /\ UNCHANGED <<shared, reachable, held, target, attempt>>

\* B answered OK.
TunnelOpens(p) ==
  /\ pc[p] = "open"
  /\ state[held[p]] = "up"
  /\ pc' = [pc EXCEPT ![p] = "relay"]
  /\ attempt' = [attempt EXCEPT ![p] = 0]
  /\ UNCHANGED <<shared, locks, reachable, held, target, token, clean>>

\* The stream broke, or B refused the tunnel: its token, its target, a limit.
\* Both invalidate the link.
OpenFails(p) ==
  /\ pc[p] = "open"
  /\ WaitConn(p)
  /\ pc' = [pc EXCEPT ![p] = "drop"]
  /\ UNCHANGED <<shared, credsQ, reachable, locals>>

TunnelEnds(p) ==
  /\ pc[p] = "relay"
  /\ UNCHANGED <<creds, cached, since, locks, reachable, target>>
  /\ Return(p)

-----------------------------------------------------------------------------
(* The watchdog: sleep, configured, is_alive, back off, get *)

WatchdogWakes(w) ==
  /\ pc[w] = "idle"
  /\ WaitCreds(<<w, "read">>)
  /\ pc' = [pc EXCEPT ![w] = "configured"]
  /\ UNCHANGED <<shared, connQ, reachable, locals>>

WatchdogConfigured(w) ==
  /\ pc[w] = "configured" /\ HasCreds(<<w, "read">>)
  /\ LeaveCreds(<<w, "read">>)
  /\ \/ /\ creds = NoCred
        /\ pc' = [pc EXCEPT ![w] = "idle"]
        /\ UNCHANGED connQ
     \/ /\ creds # NoCred
        /\ pc' = [pc EXCEPT ![w] = "alive"]
        /\ WaitConn(w)
  /\ UNCHANGED <<shared, reachable, locals>>

WatchdogAlive(w) ==
  /\ pc[w] = "alive" /\ HasConn(w)
  /\ LeaveConn
  /\ pc' = [pc EXCEPT ![w] = IF Alive THEN "idle" ELSE "backoff"]
  /\ UNCHANGED <<shared, credsQ, reachable, locals>>

WatchdogBackedOff(w) ==
  /\ pc[w] = "backoff"
  /\ WaitConn(w)
  /\ pc' = [pc EXCEPT ![w] = "get"]
  /\ UNCHANGED <<shared, credsQ, reachable, locals>>

Watch(w) ==
  WatchdogWakes(w) \/ WatchdogConfigured(w) \/ WatchdogAlive(w) \/ WatchdogBackedOff(w)

-----------------------------------------------------------------------------
(* GET /api/status: the read lock of the credential is held to its end *)

StatusBegins(v) ==
  /\ pc[v] = "idle"
  /\ WaitCreds(<<v, "read">>)
  /\ pc' = [pc EXCEPT ![v] = "view"]
  /\ UNCHANGED <<shared, connQ, reachable, locals>>

StatusReads(v) ==
  /\ pc[v] = "view" /\ HasCreds(<<v, "read">>)
  /\ WaitConn(v)
  /\ pc' = [pc EXCEPT ![v] = "alive"]
  /\ UNCHANGED <<shared, credsQ, reachable, locals>>

\* is_alive; connected_ips then reads the credential a second time.
StatusAlive(v) ==
  /\ pc[v] = "alive" /\ HasConn(v)
  /\ LeaveConn
  /\ \/ /\ Alive
        /\ WaitCreds(<<v, "nested">>)
        /\ pc' = [pc EXCEPT ![v] = "ips"]
     \/ /\ ~Alive
        /\ LeaveCreds(<<v, "read">>)
        /\ pc' = [pc EXCEPT ![v] = "idle"]
  /\ UNCHANGED <<shared, reachable, locals>>

StatusIps(v) ==
  /\ pc[v] = "ips" /\ HasCreds(<<v, "nested">>)
  /\ WaitConn(v)
  /\ pc' = [pc EXCEPT ![v] = "peer"]
  /\ LeaveCreds(<<v, "nested">>)
  /\ UNCHANGED <<shared, reachable, locals>>

StatusEnds(v) ==
  /\ pc[v] = "peer" /\ HasConn(v)
  /\ LeaveConn
  /\ LeaveCreds(<<v, "read">>)
  /\ pc' = [pc EXCEPT ![v] = "idle"]
  /\ UNCHANGED <<shared, reachable, locals>>

View(v) ==
  StatusReads(v) \/ StatusAlive(v) \/ StatusIps(v) \/ StatusEnds(v)

-----------------------------------------------------------------------------
OpenTunnel(p) ==
  ReadToken(p) \/ Get(p) \/ TunnelOpens(p) \/ OpenFails(p) \/ Invalidate(p)

Next ==
  \/ NetChange
  \/ \E c \in Conns : LoseConnection(c) \/ DetectLoss(c)
  \/ \E p \in Tunnels : Begin(p) \/ OpenTunnel(p) \/ TunnelEnds(p)
  \/ \E w \in Watchdogs : Watch(w) \/ Get(w)
  \/ \E s \in Setters : SetCreds(s) \/ WriteCreds(s) \/ Invalidate(s)
  \/ \E v \in Viewers : StatusBegins(v) \/ View(v)

Spec == Init /\ [][Next]_vars

\* Tasks that can run do; connects and handshakes end (QUIC's timeouts); a lost
\* connection is noticed (max_idle_timeout).  Users and the network owe nothing.
Fairness ==
  /\ \A c \in Conns : WF_vars(DetectLoss(c))
  /\ \A p \in Tunnels : WF_vars(OpenTunnel(p))
  /\ \A w \in Watchdogs : WF_vars(Watch(w) \/ Get(w))
  /\ \A s \in Setters : WF_vars(WriteCreds(s) \/ Invalidate(s))
  /\ \A v \in Viewers : WF_vars(View(v))

FairSpec == Spec /\ Fairness

-----------------------------------------------------------------------------
(* Properties *)

TypeOK ==
  /\ creds \in Creds \cup {NoCred}
  /\ cached \in Conns \cup {NoConn}
  /\ since \in BOOLEAN
  /\ made \in [Conns -> Creds \cup {NoCred}]
  /\ state \in [Conns -> {"free", "up", "lost", "closed"}]
  /\ connQ \in Seq(Procs)
  /\ credsQ \in Seq(Procs \X {"read", "nested", "write"})
  /\ reachable \in BOOLEAN
  /\ pc \in [Procs -> Steps]
  /\ held \in [Tunnels -> Conns \cup {NoConn}]
  /\ target \in [Getters -> Creds \cup {NoCred}]
  /\ token \in [Tunnels -> Creds \cup {NoCred}]
  /\ attempt \in [Tunnels -> {0, 1}]
  /\ clean \in [Tunnels -> BOOLEAN]

\* Once set_creds has returned, the link never hands out a connection made for
\* an earlier credential, although a connect that was under way with the old
\* target may finish and be cached after the new credential was written.
CachedForCreds ==
  cached # NoConn /\ made[cached] # creds => Switching

\* A tunnel that starts when no set_creds is under way, and sees none, sends its
\* token over a connection made for the same credential: token() and get() read
\* the credential at two moments with locks, retries and reconnects between.
TokenMatchesPeer ==
  \A p \in Tunnels :
    pc[p] = "open" /\ clean[p] => token[p] = creds /\ made[held[p]] = creds

\* The second attempt of open_with_retry never runs on the connection on which
\* the first one failed, whoever else reconnects or invalidates meanwhile.
RetryElsewhere ==
  [][\A p \in Tunnels :
       pc[p] \in GetSteps /\ attempt[p] = 1 /\ pc'[p] = "open" => held'[p] # held[p]]_vars

\* The watchdog reconnects: with a credential, and B reachable from some moment
\* on, the link is connected again and again, whatever breaks it.
Reconnects ==
  <>[](reachable /\ creds # NoCred) => []<>(Alive /\ state[cached] = "up")

\* A tunnel request is always answered: it opens or fails (access.rs's local
\* connection is not left hanging behind a lock).
TunnelsAnswered ==
  \A p \in Tunnels : pc[p] = "token" ~> pc[p] \in {"relay", "idle"}

\* access.rs:51: a credential set from the web page takes effect in place, with
\* no restart; so set_creds returns.
CredsTakeEffect ==
  \A s \in Setters : pc[s] = "write" ~> pc[s] = "idle"

\* access.rs:68: connected_since is 0 when not connected, else the moment of the
\* connection: with nobody inside invalidate, a live connection has a moment.
SinceMatchesConn ==
  Alive /\ (\A p \in Procs : pc[p] \notin InvalidateSteps) => since

\* access.rs:62: all tunnels of all mappings reuse one connection; only a broken
\* one is replaced.
OneConnection ==
  \A p, q \in Tunnels :
    /\ pc[p] = "relay" /\ pc[q] = "relay"
    /\ state[held[p]] = "up" /\ state[held[q]] = "up"
    /\ made[held[p]] = made[held[q]]
    => held[p] = held[q]
=============================================================================
