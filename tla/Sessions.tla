------------------------------ MODULE Sessions ------------------------------
(***************************************************************************)
(* The traffic of one port mapping of A (src/src/access.rs): the listener  *)
(* loop, the task of each connection or UDP session, and the relay of a    *)
(* UDP session on both sides (relay_udp of src/src/tunnel.rs at B).        *)
(*                                                                         *)
(* A TCP or HTTP listener spawns a task per connection under a semaphore.  *)
(* A UDP listener hands datagrams to the session of their source through a *)
(* bounded channel and finds the session in a map it shares with the       *)
(* sessions, each of which removes its source's entry when it ends.        *)
(*                                                                         *)
(* Abstracted: time (an idle timer may run out whenever nothing waits),    *)
(* targets, bytes, the metrics (see Expose and Domains), the link (see     *)
(* Link: opening a tunnel succeeds or fails), the two halves of B's relay  *)
(* (one "far" half, which select! ends as a whole).                        *)
(***************************************************************************)
EXTENDS Naturals, Sequences, FiniteSets

CONSTANTS
  Peers,       \* local sources
  Datagrams,   \* payloads, used again once they are nowhere in the program
  From,        \* the source of a datagram
  Slots,       \* task instances, reused once nothing refers to them
  Modes,       \* modes of the mapping: tcp, http, udp
  Limits,      \* values of max_conns_per_mapping; 0 means no limit
  Capacity,    \* of a session's channel (256)
  NoSlot, NoPeer, NoHand

\* A datagram the listener has in hand, and the session it is for.
Hand == [d: Datagrams, to: Slots \cup {NoSlot}]

ASSUME SessionsAssumption ==
  /\ From \in [Datagrams -> Peers]
  /\ IsFiniteSet(Slots)
  /\ Modes \subseteq {"tcp", "http", "udp"}
  /\ Limits \subseteq Nat /\ Capacity \in Nat \ {0}
  /\ NoSlot \notin Slots /\ NoPeer \notin Peers /\ NoHand \notin Hand

VARIABLES
  kind,       \* what the listener was started as: stream or datagram
  limit,      \* max_conns_per_mapping
  mode,       \* the mode in the mapping's record
  cancelled,  \* the mapping's CancellationToken
  loop,       \* the listener: recv, send, admit, off
  hand,       \* what the listener has in hand
  entry,      \* sessions: the session a source's datagrams go to
  pc, peer,   \* a task's stage and source
  queue,      \* a session's channel
  half,       \* the relay halves of a tunnel that still run
  counted     \* tasks in active_conns and the table of connections

listenerVars == <<kind, loop, hand, entry>>
taskVars == <<pc, peer, queue, half, counted>>
vars == <<limit, mode, cancelled, listenerVars, taskVars>>

Live == {s \in Slots : pc[s] # "free"}

\* The session has its end of the channel.
Receives(s) == pc[s] \in {"spawned", "opening", "open"}

Referred(s) == (\E p \in Peers : entry[p] = s) \/ (hand # NoHand /\ hand.to = s)

Contents(s) == {queue[s][i] : i \in DOMAIN queue[s]}

Unused == {s \in Slots : pc[s] = "free" /\ ~Referred(s)}

\* Task instances are alike: which one is used next does not matter.
Fresh == CHOOSE s \in Slots : s \in Unused

-----------------------------------------------------------------------------
Init ==
  /\ limit \in Limits
  /\ mode \in Modes
  /\ kind = IF mode = "udp" THEN "datagram" ELSE "stream"
  /\ cancelled = FALSE
  /\ loop = "recv"
  /\ hand = NoHand
  /\ entry = [p \in Peers |-> NoSlot]
  /\ pc = [s \in Slots |-> "free"]
  /\ peer = [s \in Slots |-> NoPeer]
  /\ queue = [s \in Slots |-> <<>>]
  /\ half = [s \in Slots |-> {}]
  /\ counted = {}

\* A task of p's is spawned, with its first datagrams.
Spawn(s, p, ds) ==
  /\ pc' = [pc EXCEPT ![s] = "spawned"]
  /\ peer' = [peer EXCEPT ![s] = p]
  /\ queue' = [queue EXCEPT ![s] = ds]
  /\ UNCHANGED <<half, counted>>

-----------------------------------------------------------------------------
(* The listener *)

\* Slip: the connections already counted are taken for those that hold a permit.
CountsPermit == limit = 0 \/ Cardinality(counted) < limit

\* conn_sem: the permit is taken by the listener and kept until the task ends.
HasPermit == limit = 0 \/ Cardinality(Live) < limit

\* Without a permit the connection is dropped and nothing else changes.
AcceptConn(p) ==
  /\ kind = "stream" /\ loop = "recv"
  /\ HasPermit
  /\ Unused # {} /\ Spawn(Fresh, p, <<>>)
  /\ UNCHANGED <<limit, mode, cancelled, listenerVars>>

\* recv_from, and the look-up of the source's session.
Receive(d) ==
  /\ kind = "datagram" /\ loop = "recv"
  /\ \A s \in Slots : d \notin Contents(s)
  /\ hand' = [d |-> d, to |-> entry[From[d]]]
  /\ loop' = IF entry[From[d]] = NoSlot THEN "admit" ELSE "send"
  /\ UNCHANGED <<limit, mode, cancelled, kind, entry, taskVars>>

\* Slip: a delivered datagram goes on to a session of its own.
DeliverTwice ==
  /\ loop = "send" /\ Receives(hand.to)
  /\ Len(queue[hand.to]) < Capacity
  /\ queue' = [queue EXCEPT ![hand.to] = Append(@, hand.d)]
  /\ loop' = "admit"
  /\ UNCHANGED <<limit, mode, cancelled, kind, hand, entry, pc, peer, half, counted>>

\* The listener waits here while the channel is full.
Deliver ==
  /\ loop = "send" /\ Receives(hand.to)
  /\ Len(queue[hand.to]) < Capacity
  /\ queue' = [queue EXCEPT ![hand.to] = Append(@, hand.d)]
  /\ loop' = "recv" /\ hand' = NoHand
  /\ UNCHANGED <<limit, mode, cancelled, kind, entry, pc, peer, half, counted>>

\* The session is over: a new one is made for the datagram.
DeliverFails ==
  /\ loop = "send" /\ ~Receives(hand.to)
  /\ loop' = "admit"
  /\ UNCHANGED <<limit, mode, cancelled, kind, hand, entry, taskVars>>

\* The limit is checked against the sessions that run already; the new one is
\* entered in the map before it is spawned.
Admit ==
  /\ loop = "admit"
  /\ loop' = "recv" /\ hand' = NoHand
  /\ \/ /\ limit > 0 /\ Cardinality(counted) >= limit
        /\ UNCHANGED <<entry, taskVars>>
     \/ /\ limit = 0 \/ Cardinality(counted) < limit
        /\ Unused # {}
        /\ entry' = [entry EXCEPT ![From[hand.d]] = Fresh]
        /\ Spawn(Fresh, From[hand.d], <<hand.d>>)
  /\ UNCHANGED <<limit, mode, cancelled, kind>>

\* remove, update, toggle, import or shutdown: the token is cancelled, and but
\* for shutdown the listener's task aborted.
Cancel ==
  /\ ~cancelled
  /\ cancelled' = TRUE
  /\ UNCHANGED <<limit, mode, listenerVars, taskVars>>

LoopOff ==
  /\ loop' = "off" /\ hand' = NoHand
  /\ UNCHANGED <<limit, mode, cancelled, kind, entry, taskVars>>

\* An aborted listener ends wherever it waits.
LoopStops == cancelled /\ loop # "off" /\ LoopOff

\* accept or recv_from failed: the listener ends, its tasks go on.
LoopFails == loop = "recv" /\ LoopOff

\* update with address and state unchanged: only the record is replaced.
Edit(m) ==
  /\ ~cancelled /\ m # mode
  /\ mode' = m
  /\ UNCHANGED <<limit, cancelled, listenerVars, taskVars>>

-----------------------------------------------------------------------------
(* The task of a connection or session *)

\* active_conns, register_conn and the ActiveGuard; then the record and the
\* token are read.  A gateway connection waits for its request's head before it
\* looks at the cancellation token.
Run(s) ==
  /\ pc[s] = "spawned"
  /\ pc' = [pc EXCEPT ![s] = IF kind = "stream" /\ mode = "http" THEN "peeking" ELSE "opening"]
  /\ counted' = counted \cup {s}
  /\ UNCHANGED <<limit, mode, cancelled, listenerVars, peer, queue, half>>

\* The client sent the head, its limit or the end of its side.
HeadRead(s) ==
  /\ pc[s] = "peeking"
  /\ pc' = [pc EXCEPT ![s] = "opening"]
  /\ UNCHANGED <<limit, mode, cancelled, listenerVars, peer, queue, half, counted>>

\* The tunnel is over: its halves and the session's end of the channel are
\* dropped.  A connection's task ends; a session still has its entry to remove.
Ends(s) ==
  /\ pc' = [pc EXCEPT ![s] = IF kind = "stream" THEN "free" ELSE "closing"]
  /\ counted' = IF kind = "stream" THEN counted \ {s} ELSE counted
  /\ peer' = IF kind = "stream" THEN [peer EXCEPT ![s] = NoPeer] ELSE peer
  /\ half' = [half EXCEPT ![s] = {}]
  /\ queue' = [queue EXCEPT ![s] = <<>>]
  /\ UNCHANGED <<limit, mode, cancelled, listenerVars>>

HeadFails(s) == pc[s] = "peeking" /\ Ends(s)

Opens(s) ==
  /\ pc[s] = "opening"
  /\ pc' = [pc EXCEPT ![s] = "open"]
  /\ half' = [half EXCEPT ![s] = IF kind = "stream" THEN {"up", "down"}
                                 ELSE {"up", "down", "far"}]
  /\ UNCHANGED <<limit, mode, cancelled, listenerVars, peer, queue, counted>>

OpenFails(s) == pc[s] = "opening" /\ Ends(s)

UpForwards(s) ==
  /\ "up" \in half[s] /\ queue[s] # <<>>
  /\ queue' = [queue EXCEPT ![s] = Tail(@)]
  /\ UNCHANGED <<limit, mode, cancelled, listenerVars, pc, peer, half, counted>>

HalfEnds(s, h) ==
  /\ h \in half[s]
  /\ half' = [half EXCEPT ![s] = @ \ {h}]
  /\ UNCHANGED <<limit, mode, cancelled, listenerVars, pc, peer, queue, counted>>

\* Nothing came for as long as the idle timer, or every sender is gone; the
\* client's end of file for a connection.  The stream is finished.
UpEnds(s) == queue[s] = <<>> /\ HalfEnds(s, "up")

\* Slip: B's relay waits for its other half as well.
FarFollowsNever(s) == FALSE /\ HalfEnds(s, "far")

\* B reads the end of the stream and ends the whole relay.
FarFollows(s) == "up" \notin half[s] /\ HalfEnds(s, "far")

\* B's socket failed, or the stream did.
FarFails(s) == "up" \in half[s] /\ HalfEnds(s, "far")

\* B's stream has ended.
DownFollows(s) == kind = "datagram" /\ "far" \notin half[s] /\ HalfEnds(s, "down")

\* Nothing came from B for as long as the idle timer; the target's end of file
\* for a connection.
DownEnds(s) == (kind = "datagram" => "far" \in half[s]) /\ HalfEnds(s, "down")

\* try_join!: both halves are over.
Finish(s) ==
  /\ pc[s] = "open" /\ half[s] \cap {"up", "down"} = {}
  /\ Ends(s)

\* A read or a write failed: try_join! drops the other half.
Fails(s) == pc[s] = "open" /\ Ends(s)

\* Slip: a tunnel that is open already does not watch the token.
CutOpening(s) == cancelled /\ pc[s] = "opening" /\ Ends(s)

\* select! on the child token.
Cut(s) == cancelled /\ pc[s] \in {"opening", "open"} /\ Ends(s)

\* Slip: the guard is dropped only by a session that was not cancelled.
EndedCounted(s) ==
  /\ pc' = [pc EXCEPT ![s] = "free"]
  /\ peer' = [peer EXCEPT ![s] = NoPeer]
  /\ counted' = IF cancelled THEN counted ELSE counted \ {s}
  /\ UNCHANGED <<limit, mode, cancelled, kind, loop, hand, queue, half>>

\* The task ends and drops its guard.
Ended(s) ==
  /\ pc' = [pc EXCEPT ![s] = "free"]
  /\ peer' = [peer EXCEPT ![s] = NoPeer]
  /\ counted' = counted \ {s}
  /\ UNCHANGED <<limit, mode, cancelled, kind, loop, hand, queue, half>>

\* Slip: a cancelled session leaves its entry.
ForgetUnlessCancelled(s) ==
  /\ pc[s] = "closing"
  /\ entry' = IF cancelled THEN entry ELSE [entry EXCEPT ![peer[s]] = NoSlot]
  /\ Ended(s)

\* The entry of the source is removed, whichever session it leads to.
Forget(s) ==
  /\ pc[s] = "closing"
  /\ entry' = [entry EXCEPT ![peer[s]] = NoSlot]
  /\ Ended(s)

-----------------------------------------------------------------------------
Next ==
  \/ \E p \in Peers : AcceptConn(p)
  \/ \E d \in Datagrams : Receive(d)
  \/ Deliver \/ DeliverFails \/ Admit
  \/ Cancel \/ LoopStops \/ LoopFails
  \/ \E m \in Modes : Edit(m)
  \/ \E s \in Slots :
       \/ Run(s) \/ HeadRead(s) \/ HeadFails(s)
       \/ Opens(s) \/ OpenFails(s)
       \/ UpForwards(s) \/ UpEnds(s) \/ FarFollows(s) \/ FarFails(s)
       \/ DownFollows(s) \/ DownEnds(s)
       \/ Finish(s) \/ Fails(s) \/ Cut(s) \/ Forget(s)

\* The runtime polls every task that can go on.  Nothing is assumed of what a
\* client sends, of the idle timers, or that a tunnel fails.
Fairness ==
  /\ WF_vars(Deliver \/ DeliverFails) /\ WF_vars(Admit) /\ WF_vars(LoopStops)
  /\ \A s \in Slots :
       /\ WF_vars(Run(s))
       /\ WF_vars(Opens(s) \/ OpenFails(s))
       /\ WF_vars(UpForwards(s)) /\ WF_vars(FarFollows(s)) /\ WF_vars(DownFollows(s))
       /\ WF_vars(Finish(s)) /\ WF_vars(Cut(s)) /\ WF_vars(Forget(s))

Spec == Init /\ [][Next]_vars

FairSpec == Spec /\ Fairness

-----------------------------------------------------------------------------
(* Properties *)

\* The type of every variable; active_conns and the table of connections hold
\* exactly the tasks that have begun and not ended, however they end.
TypeOK ==
  /\ limit \in Limits /\ kind \in {"stream", "datagram"} /\ mode \in Modes /\ cancelled \in BOOLEAN
  /\ loop \in {"recv", "send", "admit", "off"}
  /\ hand \in Hand \cup {NoHand}
  /\ loop \in {"send", "admit"} <=> hand # NoHand
  /\ entry \in [Peers -> Slots \cup {NoSlot}]
  /\ pc \in [Slots -> {"free", "spawned", "peeking", "opening", "open", "closing"}]
  /\ peer \in [Slots -> Peers \cup {NoPeer}]
  /\ \A s \in Slots :
       /\ queue[s] \in Seq(Datagrams) /\ Len(queue[s]) <= Capacity
       /\ half[s] \subseteq {"up", "down", "far"}
       /\ half[s] # {} => pc[s] = "open"
  /\ counted = {s \in Slots : pc[s] \notin {"free", "spawned"}}

\* A TCP or HTTP mapping never serves more connections than its limit, though a
\* connection is counted only once its task runs (access.rs: the limit of
\* concurrent connections of one mapping, 0 = none).
StreamLimit ==
  kind = "stream" /\ limit > 0 => Cardinality(Live) <= limit

\* The map of sessions never leads to a task that has ended: each session
\* removes its source's entry last, and is entered before it can end
\* (access.rs: removed from the table when over, for a later datagram to start
\* a new session).
EntriesLive ==
  \A p \in Peers : entry[p] # NoSlot => pc[entry[p]] # "free" /\ peer[entry[p]] = p

\* A datagram is in one place at most, though it is kept for a second attempt
\* when the session it was meant for turns out to be over; and only a session
\* of its own source ever has it.
DeliveredOnce ==
  /\ \A s \in Slots :
       /\ \A i, j \in DOMAIN queue[s] : queue[s][i] = queue[s][j] => i = j
       /\ \A d \in Contents(s) : From[d] = peer[s]
       /\ \A t \in Slots \ {s} : Contents(s) \cap Contents(t) = {}
       /\ hand # NoHand => hand.d \notin Contents(s)

\* A mapping that is removed gives its socket back and cuts its tunnels; only a
\* gateway connection whose client has not sent its head yet may stay.
Drained ==
  cancelled ~> loop = "off" /\ \A s \in Slots : pc[s] \in {"free", "peeking"}

\* A listener waiting for room in one session's channel goes on: the session
\* forwards, or ends and is replaced, even after its uplink has idled out.
LoopServes == loop = "send" ~> loop # "send"

-----------------------------------------------------------------------------
(* Properties that do not hold *)

\* max_conns_per_mapping limits the sessions of a UDP mapping too.
UdpLimit == kind = "datagram" /\ limit > 0 => Cardinality(counted) <= limit

\* One tunnel stream for each source (access.rs: each source reuses one stream).
OneStreamPerPeer ==
  kind = "datagram" =>
    \A s, t \in Slots : "up" \in half[s] \cap half[t] /\ peer[s] = peer[t] => s = t

\* A session that still carries datagrams up also carries them down (access.rs:
\* it is reclaimed when both directions have been silent).
NeverOneWay == \A s \in Slots : "up" \in half[s] /\ "far" \in half[s] => "down" \in half[s]

\* The mapping serves the mode its record shows.
ServedAsRecorded == loop # "off" => (kind = "datagram" <=> mode = "udp")

\* A removed mapping ends every connection.
AllDrained == cancelled ~> Live = {}
=============================================================================
