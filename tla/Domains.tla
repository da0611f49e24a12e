------------------------------ MODULE Domains ------------------------------
(***************************************************************************)
(* The domain mappings of the accessing side (A, src/src/access.rs): their *)
(* table, the one loopback HTTPS listener they share, the entries they own *)
(* in the hosts file (src/src/domain_hosts.rs), their records in the       *)
(* configuration file, and the TLS connections the listener hands to them. *)
(*                                                                         *)
(* Requests hold domain_lifecycle from their first step to their last, so  *)
(* one is in progress at a time; it is cut at each await, where the        *)
(* listener, the connections and the saves of other requests go on.  A     *)
(* start of the process restores the mappings through the same steps.      *)
(*                                                                         *)
(* Abstracted: names and ports (a mapping is its domain, remote port and   *)
(* state), the bytes of a ClientHello (any SNI, or none), the link (a      *)
(* tunnel opens or does not), other lines of the hosts file.  Connections  *)
(* are used once, which bounds a run.                                      *)
(***************************************************************************)
EXTENDS Naturals, FiniteSets

CONSTANTS
  Domains, Ports,
  Handles,     \* DomainMappingHandle instances, reused once nothing refers to them
  Conns,       \* local TLS connections
  MaxDomains,  \* domain_mapping_limit
  MaxPending,  \* MAX_PENDING_DOMAIN_HANDSHAKES
  ConnLimit,   \* max_conns_per_mapping
  MayRestart,  \* whether the process may stop and start again
  HostsFail,   \* whether reading or editing the hosts file may fail
  DiskFails,   \* whether writing the configuration file may fail
  MaxSaves,    \* saves of other requests that are between listing and write
  NoHandle, NoRecord, NoJob

Record == [port: Ports, enabled: BOOLEAN]

\* local_listener and hosts_managed of DomainMappingHandle, listener_active of
\* its Stats.
Handle == [port: Ports, enabled: BOOLEAN, listens: BOOLEAN, managed: BOOLEAN, active: BOOLEAN]

ASSUME DomainsAssumption ==
  /\ MaxDomains \in Nat \ {0} /\ MaxPending \in Nat /\ ConnLimit \in Nat
  /\ MaxSaves \in Nat
  /\ {MayRestart, HostsFail, DiskFails} \subseteq BOOLEAN
  /\ IsFiniteSet(Domains) /\ IsFiniteSet(Conns)
  /\ NoHandle \notin Handles
  /\ NoRecord \notin Record \cup Handle

VARIABLES
  table,     \* DomainInner.mappings: the handle of a domain
  handle,    \* what a handle holds
  listener,  \* DomainInner.listener: none, listening, or dead (its task ended)
  hosts,     \* domains with PowerMap's entry in the hosts file
  file,      \* the domain mappings in the configuration file
  listings,  \* what saves of other requests have listed and not written yet
  stage, job, \* where the request, or the start, in progress is
  conn,      \* a connection's stage
  via,       \* the handle it was dispatched to
  cancelled, \* connections whose listener was cancelled
  gauge,     \* Metrics.tunnels_active, as far as these tunnels go
  torn,      \* entries without a record since the last start (history)
  spoiled    \* the last write of the file failed, or was of an outdated listing,
             \* and left it other than the table (history)

ownVars == <<table, handle, listener, hosts>>
fileVars == <<file, listings, spoiled>>
opVars == <<stage, job>>
connVars == <<conn, via, cancelled, gauge>>
vars == <<ownVars, fileVars, opVars, connVars, torn>>

Stages == {"idle", "next", "start", "bind", "hosts", "insert", "clean", "unused",
           "failed", "retarget", "save"}

-----------------------------------------------------------------------------
Mapped == {d \in Domains : table[d] # NoHandle}

Image == [d \in Domains |->
           IF d \in Mapped
           THEN [port |-> handle[table[d]].port, enabled |-> handle[table[d]].enabled]
           ELSE NoRecord]

InHand(h) ==
  CASE stage = "insert" -> job.new = h
    [] stage = "clean" -> job.old = h
    [] OTHER -> FALSE

Unused(h) ==
  /\ ~InHand(h)
  /\ \A d \in Domains : table[d] # h
  /\ \A c \in Conns : via[c] # h

Restoring ==
  stage = "next" \/ (stage \notin {"idle", "save", "retarget"} /\ job.kind = "restore")

\* A mapping of the table takes connections from the shared listener.
Listened == \E d \in Mapped : handle[table[d]].listens

Goto(next, hand) == stage' = next /\ job' = hand

Init ==
  /\ table = [d \in Domains |-> NoHandle]
  /\ handle = [h \in Handles |-> NoRecord]
  /\ listener = "none"
  /\ hosts = {}
  /\ file = [d \in Domains |-> NoRecord] /\ listings = {} /\ spoiled = FALSE
  /\ stage = "idle" /\ job = NoJob
  /\ conn = [c \in Conns |-> "new"]
  /\ via = [c \in Conns |-> NoHandle]
  /\ cancelled = {}
  /\ gauge = 0
  /\ torn = {}

-----------------------------------------------------------------------------
(* The requests *)

CreateBegins ==
  /\ stage = "idle"
  /\ \E d \in Domains \ Mapped, r \in Record :
       /\ Cardinality(Mapped) < MaxDomains
       /\ Goto("start", [kind |-> "create", domain |-> d, record |-> r, todo |-> {}])
  /\ UNCHANGED <<ownVars, fileVars, connVars, torn>>

\* toggle, and an update that changes the state.
SwitchBegins ==
  /\ stage = "idle"
  /\ \E d \in Mapped, port \in Ports :
       Goto("start", [kind |-> "switch", domain |-> d, todo |-> {},
                      record |-> [port |-> port, enabled |-> ~handle[table[d]].enabled]])
  /\ UNCHANGED <<ownVars, fileVars, connVars, torn>>

RetargetBegins ==
  /\ stage = "idle"
  /\ \E d \in Mapped, port \in Ports : Goto("retarget", [domain |-> d, port |-> port])
  /\ UNCHANGED <<ownVars, fileVars, connVars, torn>>

\* The new port of an enabled mapping is tried first; the listener is untouched.
Retarget ==
  /\ stage = "retarget"
  /\ LET h == table[job.domain] IN
     \/ /\ handle' = [handle EXCEPT ![h].port = job.port]
        /\ Goto("save", NoJob)
     \/ /\ handle[h].enabled /\ handle[h].port # job.port
        /\ Goto("idle", NoJob)
        /\ UNCHANGED handle
  /\ UNCHANGED <<table, listener, hosts, fileVars, connVars, torn>>

RemoveBegins ==
  /\ stage = "idle"
  /\ \E d \in Mapped :
       /\ table' = [table EXCEPT ![d] = NoHandle]
       /\ Goto("clean", [kind |-> "remove", domain |-> d, old |-> table[d],
                         record |-> [port |-> handle[table[d]].port, enabled |-> FALSE]])
  /\ UNCHANGED <<handle, listener, hosts, fileVars, connVars, torn>>

-----------------------------------------------------------------------------
(* start_domain_mapping_owned *)

DisabledHandle(r, managed) ==
  [port |-> r.port, enabled |-> FALSE, listens |-> FALSE, managed |-> managed, active |-> FALSE]

\* A handle for the job, still to be inserted.
Made(h, contents) ==
  /\ Unused(h)
  /\ handle' = [handle EXCEPT ![h] = contents]
  /\ Goto("insert", [kind |-> job.kind, domain |-> job.domain, todo |-> job.todo,
                     record |-> job.record, new |-> h])

\* Disabled: only looks whether an entry is left; one it cannot look for counts.
StartDisabled ==
  /\ stage = "start" /\ ~job.record.enabled
  /\ \E h \in Handles, managed \in {job.domain \in hosts, HostsFail \/ job.domain \in hosts} :
       Made(h, DisabledHandle(job.record, managed))
  /\ UNCHANGED <<table, listener, hosts, fileVars, connVars, torn>>

\* No authority, or B cannot reach the domain.
StartRefused ==
  /\ stage = "start" /\ job.record.enabled
  /\ Goto("failed", job)
  /\ UNCHANGED <<ownVars, fileVars, connVars, torn>>

StartPreflighted ==
  /\ stage = "start" /\ job.record.enabled
  /\ Goto("bind", job)
  /\ UNCHANGED <<ownVars, fileVars, connVars, torn>>

\* Nobody but a recorded listener is bound here: a task that ended counts as one.
ListenerBinds ==
  /\ stage = "bind"
  /\ \/ listener = "none" /\ listener' = "listening" /\ Goto("hosts", job)
     \/ listener # "none" /\ Goto("hosts", job) /\ UNCHANGED listener
     \/ listener = "none" /\ Goto("failed", job) /\ UNCHANGED listener
  /\ UNCHANGED <<table, handle, hosts, fileVars, connVars, torn>>

HostsWritten ==
  /\ stage = "hosts"
  /\ hosts' = hosts \cup {job.domain}
  /\ torn' = torn \ {job.domain}
  /\ \E h \in Handles :
       Made(h, [port |-> job.record.port, enabled |-> TRUE, listens |-> TRUE,
                managed |-> TRUE, active |-> TRUE])
  /\ UNCHANGED <<table, listener, fileVars, connVars>>

\* stop_shared_domain_listener_if_unused: its connections are cancelled with it.
StopIfUnused ==
  IF Listened THEN UNCHANGED <<listener, cancelled>>
  ELSE /\ listener' = "none"
       /\ cancelled' = cancelled \cup {c \in Conns : conn[c] \notin {"new", "closed", "cut"}}

\* Slip: the listener bound for a mapping that failed is left.
HostsUnwritableKeeping ==
  /\ stage = "hosts" /\ HostsFail
  /\ Goto("failed", job)
  /\ UNCHANGED <<ownVars, fileVars, connVars, torn>>

HostsUnwritable ==
  /\ stage = "hosts" /\ HostsFail
  /\ StopIfUnused
  /\ Goto("failed", job)
  /\ UNCHANGED <<table, handle, hosts, fileVars, conn, via, gauge, torn>>

-----------------------------------------------------------------------------
(* What follows a start that succeeded, or failed *)

Insert ==
  /\ stage = "insert"
  /\ table' = [table EXCEPT ![job.domain] = job.new]
  /\ CASE job.kind = "create" -> Goto("save", NoJob)
       [] job.kind = "switch" ->
            Goto("clean", [kind |-> "switch", domain |-> job.domain, record |-> job.record,
                           old |-> table[job.domain]])
       [] job.kind = "restore" -> Goto("next", job.todo)
  /\ torn' = torn \ {job.domain}
  /\ UNCHANGED <<handle, listener, hosts, fileVars, connVars>>

\* Slip: the entry is removed whichever way the mapping is switched.
CleansAlways(kind, enabled) == TRUE

\* stop_domain_mapping's remove_hosts.
Cleans(kind, enabled) == kind = "remove" \/ ~enabled

Clean ==
  /\ stage = "clean"
  /\ LET done(failed) == Goto("unused", [kind |-> job.kind, domain |-> job.domain,
                                         record |-> job.record, failed |-> failed])
         cleans == Cleans(job.kind, job.record.enabled) IN
     \/ /\ hosts' = IF cleans THEN hosts \ {job.domain} ELSE hosts
        /\ done(FALSE)
     \/ HostsFail /\ cleans /\ done(TRUE) /\ UNCHANGED hosts
  /\ torn' = torn \cap hosts'
  /\ UNCHANGED <<table, handle, listener, fileVars, connVars>>

\* Slip: a mapping whose entry could not be removed is forgotten.
CleanedForgetting ==
  /\ stage = "unused"
  /\ StopIfUnused
  /\ Goto("save", NoJob)
  /\ UNCHANGED <<table, handle, hosts, fileVars, conn, via, gauge, torn>>

\* An entry that could not be removed stays on record with a disabled mapping.
Cleaned ==
  /\ stage = "unused"
  /\ StopIfUnused
  /\ \/ /\ ~job.failed
        /\ UNCHANGED <<table, handle>>
     \/ /\ job.failed /\ job.kind = "switch"
        /\ handle' = [handle EXCEPT ![table[job.domain]].managed = TRUE]
        /\ UNCHANGED table
     \/ /\ job.failed /\ job.kind = "remove"
        /\ \E h \in Handles :
             /\ Unused(h)
             /\ handle' = [handle EXCEPT ![h] = DisabledHandle(job.record, TRUE)]
             /\ table' = [table EXCEPT ![job.domain] = h]
  /\ Goto("save", NoJob)
  /\ UNCHANGED <<hosts, fileVars, conn, via, gauge, torn>>

\* Answered with the error; a mapping being restored stays, disabled.
Failed ==
  /\ stage = "failed"
  /\ \/ /\ job.kind # "restore"
        /\ Goto("idle", NoJob)
        /\ UNCHANGED <<table, handle>>
     \/ /\ job.kind = "restore"
        /\ \E h \in Handles, managed \in {job.domain \in hosts, ~HostsFail /\ job.domain \in hosts} :
             /\ Unused(h)
             /\ handle' = [handle EXCEPT ![h] = DisabledHandle(job.record, managed)]
             /\ table' = [table EXCEPT ![job.domain] = h]
        /\ Goto("next", job.todo)
  /\ UNCHANGED <<listener, hosts, fileVars, connVars, torn>>

\* Slip: the save leaves the records of domains that are no longer mapped.
SaveMerging ==
  /\ stage = "save"
  /\ \/ /\ file' = [d \in Domains |-> IF d \in Mapped THEN Image[d] ELSE file[d]]
        /\ spoiled' = FALSE
     \/ DiskFails /\ UNCHANGED file /\ spoiled' = (file # Image)
  /\ Goto("idle", NoJob)
  /\ UNCHANGED <<ownVars, listings, connVars, torn>>

\* save_config, with domain_lifecycle still held, so that the domains it lists
\* are those it writes.  An error is logged, and the request succeeds.
Save ==
  /\ stage = "save"
  /\ \/ file' = Image /\ spoiled' = FALSE
     \/ DiskFails /\ UNCHANGED file /\ spoiled' = (file # Image)
  /\ Goto("idle", NoJob)
  /\ UNCHANGED <<ownVars, listings, connVars, torn>>

\* Requests about anything else save the whole configuration too, without
\* domain_lifecycle: they list the domains, wait for other locks, and write.
ListElsewhere ==
  /\ ~Restoring /\ Cardinality(listings) < MaxSaves
  /\ listings' = listings \cup {Image}
  /\ UNCHANGED <<ownVars, file, spoiled, opVars, connVars, torn>>

SaveElsewhere ==
  /\ ~Restoring
  /\ \E l \in listings :
       /\ listings' = listings \ {l}
       /\ \/ file' = l /\ spoiled' = (l # Image)
          \/ DiskFails /\ UNCHANGED <<file, spoiled>>
  /\ UNCHANGED <<ownVars, opVars, connVars, torn>>

-----------------------------------------------------------------------------
(* A crash or a stop, and the next start *)

Restart ==
  /\ MayRestart
  /\ table' = [d \in Domains |-> NoHandle]
  /\ handle' = [h \in Handles |-> NoRecord]
  /\ listener' = "none"
  /\ Goto("next", {d \in Domains : file[d] # NoRecord})
  /\ conn' = [c \in Conns |-> IF conn[c] = "new" THEN "new" ELSE "closed"]
  /\ via' = [c \in Conns |-> NoHandle]
  /\ cancelled' = {}
  /\ gauge' = 0
  /\ torn' = {d \in hosts : file[d] = NoRecord}
  /\ listings' = {} /\ spoiled' = FALSE
  /\ UNCHANGED <<hosts, file>>

RestoreNext ==
  /\ stage = "next"
  /\ \/ \E d \in job :
          Goto("start", [kind |-> "restore", domain |-> d, record |-> file[d], todo |-> job \ {d}])
     \/ job = {} /\ Goto("idle", NoJob)
  /\ UNCHANGED <<ownVars, fileVars, connVars, torn>>

-----------------------------------------------------------------------------
(* The shared listener and its connections *)

\* accept failed: the task ends and tells the mappings of the table.
ListenerFails ==
  /\ listener = "listening"
  /\ listener' = "dead"
  /\ handle' = [h \in Handles |->
                 IF \E d \in Domains : table[d] = h
                 THEN [handle[h] EXCEPT !.active = FALSE] ELSE handle[h]]
  /\ UNCHANGED <<table, hosts, fileVars, opVars, connVars, torn>>

Pending == {c \in Conns : conn[c] = "pending"}

\* Connections of h that hold one of its permits.
Admitted(h) == {c \in Conns : via[c] = h /\ conn[c] \in {"opening", "relaying"}}

ConnAccepted(c) ==
  /\ listener = "listening" /\ conn[c] = "new"
  /\ conn' = [conn EXCEPT ![c] = IF Cardinality(Pending) < MaxPending THEN "pending" ELSE "closed"]
  /\ UNCHANGED <<ownVars, fileVars, opVars, via, cancelled, gauge, torn>>

\* No ClientHello in time, none with a domain, a domain not mapped, or cancelled.
ConnRefused(c) ==
  /\ conn[c] = "pending"
  /\ conn' = [conn EXCEPT ![c] = "closed"]
  /\ UNCHANGED <<ownVars, fileVars, opVars, via, cancelled, gauge, torn>>

ConnDispatched(c) ==
  /\ conn[c] = "pending"
  /\ \E d \in Mapped : via' = [via EXCEPT ![c] = table[d]]
  /\ conn' = [conn EXCEPT ![c] = "dispatched"]
  /\ UNCHANGED <<ownVars, fileVars, opVars, cancelled, gauge, torn>>

ConnAdmitted(c) ==
  /\ conn[c] = "dispatched"
  /\ LET h == via[c] IN
     IF handle[h].listens /\ (ConnLimit = 0 \/ Cardinality(Admitted(h)) < ConnLimit)
     THEN conn' = [conn EXCEPT ![c] = "opening"] /\ UNCHANGED via
     ELSE conn' = [conn EXCEPT ![c] = "closed"] /\ via' = [via EXCEPT ![c] = NoHandle]
  /\ UNCHANGED <<ownVars, fileVars, opVars, cancelled, gauge, torn>>

TunnelOpens(c) ==
  /\ conn[c] = "opening"
  /\ conn' = [conn EXCEPT ![c] = "relaying"]
  /\ gauge' = gauge + 1
  /\ UNCHANGED <<ownVars, fileVars, opVars, via, cancelled, torn>>

TunnelFails(c) ==
  /\ conn[c] = "opening"
  /\ conn' = [conn EXCEPT ![c] = "closed"]
  /\ via' = [via EXCEPT ![c] = NoHandle]
  /\ UNCHANGED <<ownVars, fileVars, opVars, cancelled, gauge, torn>>

TunnelEnds(c) ==
  /\ conn[c] = "relaying"
  /\ conn' = [conn EXCEPT ![c] = "closed"]
  /\ via' = [via EXCEPT ![c] = NoHandle]
  /\ gauge' = gauge - 1
  /\ UNCHANGED <<ownVars, fileVars, opVars, cancelled, torn>>

\* Slip: what is cut is taken from the gauge though it may not be open yet.
TunnelCutUncounting(c) ==
  /\ c \in cancelled /\ conn[c] \in {"opening", "relaying"}
  /\ conn' = [conn EXCEPT ![c] = "closed"]
  /\ via' = [via EXCEPT ![c] = NoHandle]
  /\ gauge' = gauge - 1
  /\ UNCHANGED <<ownVars, fileVars, opVars, cancelled, torn>>

\* select! drops the tunnel's future; the gauge keeps what it had opened.
TunnelCut(c) ==
  /\ c \in cancelled /\ conn[c] \in {"opening", "relaying"}
  /\ conn' = [conn EXCEPT ![c] = IF conn[c] = "relaying" THEN "cut" ELSE "closed"]
  /\ via' = [via EXCEPT ![c] = NoHandle]
  /\ UNCHANGED <<ownVars, fileVars, opVars, cancelled, gauge, torn>>

Next ==
  \/ CreateBegins \/ SwitchBegins \/ RetargetBegins \/ RemoveBegins
  \/ Retarget \/ StartDisabled \/ StartRefused \/ StartPreflighted
  \/ ListenerBinds \/ HostsWritten \/ HostsUnwritable
  \/ Insert \/ Clean \/ Cleaned \/ Failed \/ Save \/ ListElsewhere \/ SaveElsewhere
  \/ Restart \/ RestoreNext
  \/ ListenerFails
  \/ \E c \in Conns :
       \/ ConnAccepted(c) \/ ConnRefused(c) \/ ConnDispatched(c) \/ ConnAdmitted(c)
       \/ TunnelOpens(c) \/ TunnelFails(c) \/ TunnelEnds(c) \/ TunnelCut(c)

Spec == Init /\ [][Next]_vars

-----------------------------------------------------------------------------
(* Properties *)

\* The type of every variable; a mapping in the table has its contents, and the
\* gauge never runs below what it counts.
TypeOK ==
  /\ table \in [Domains -> Handles \cup {NoHandle}]
  /\ handle \in [Handles -> Handle \cup {NoRecord}]
  /\ listener \in {"none", "listening", "dead"}
  /\ hosts \subseteq Domains /\ torn \subseteq hosts
  /\ file \in [Domains -> Record \cup {NoRecord}]
  /\ listings \subseteq [Domains -> Record \cup {NoRecord}] /\ spoiled \in BOOLEAN
  /\ stage \in Stages
  /\ conn \in [Conns -> {"new", "pending", "dispatched", "opening", "relaying", "closed", "cut"}]
  /\ via \in [Conns -> Handles \cup {NoHandle}]
  /\ cancelled \subseteq Conns
  /\ gauge \in 0..Cardinality(Conns)
  /\ \A d \in Mapped : handle[table[d]] \in Handle
  /\ \A c \in Conns : via[c] # NoHandle <=> conn[c] \in {"dispatched", "opening", "relaying"}

\* The domain the request, or the start, in progress is about.
Busy ==
  CASE stage \in {"idle", "save"} -> {}
    [] stage = "next" -> job
    [] stage # "next" /\ Restoring -> {job.domain} \cup job.todo
    [] OTHER -> {job.domain}

\* Every entry in the hosts file is that of a mapping on record, through which
\* it can be removed, whatever step of a request failed; only a stop of the
\* process before the entry's record was in the file leaves one behind.
HostsTracked == hosts \subseteq Mapped \cup Busy \cup torn

\* A mapping that takes connections has its entry, and the listener is on record.
ServedWhole ==
  \A d \in Mapped : handle[table[d]].listens => d \in hosts /\ listener # "none"

ListenerReleased == stage \in {"idle", "save"} /\ ~Listened => listener = "none"

\* The shared listener and the entries are there for the mappings that take
\* connections and, between requests, the listener for nobody else: no request
\* takes either from a mapping that needs it, nor leaves the listener behind,
\* whichever step of it fails.
ServedExactly == ServedWhole /\ ListenerReleased

\* Recorded as it is, but that a mapping a start could not enable stays on
\* record as enabled.
RecordedAs(r, i) ==
  IF i = NoRecord THEN r = NoRecord
  ELSE r # NoRecord /\ r.port = i.port /\ (i.enabled => r.enabled)

\* Between requests the file has the mappings of the table, no more and no less,
\* with their ports and states, whichever step of a start or a clean-up failed:
\* only a write that failed, or of a listing a request had since outdated, leaves
\* it otherwise, until the next write or start.
RecordsKept == stage = "idle" /\ ~spoiled => \A d \in Domains : RecordedAs(file[d], Image[d])

-----------------------------------------------------------------------------
(* Properties that do not hold *)

\* Between requests the file has the mappings of the table
\* (config.rs: persisted, restored at the next start).
DomainsSaved == stage = "idle" => \A d \in Domains : RecordedAs(file[d], Image[d])

\* tunnels_active is the tunnels that relay now (metrics.rs).
GaugeActive == gauge = Cardinality({c \in Conns : conn[c] = "relaying"})

\* Between requests every tunnel is that of a mapping, or is being cut
\* (access.rs: removing a mapping drains its connections).
RemovedDrained ==
  stage = "idle" =>
    \A c \in Conns : conn[c] = "relaying" => c \in cancelled \/ \E d \in Mapped : via[c] = table[d]

\* Between requests no entry is without a mapping
\* (the design says a start detects the entries an unexpected exit left).
NoStaleEntry == stage = "idle" => hosts \subseteq Mapped

\* Between requests a mapping is shown as having an entry only if it has one
\* (access.rs: its hosts ownership must be tracked).
ManagedTrue == stage = "idle" => \A d \in Mapped : handle[table[d]].managed => d \in hosts

\* Between requests a mapping is shown as listening only while something listens.
ShownListening ==
  stage = "idle" => \A d \in Mapped :
    handle[table[d]].listens /\ handle[table[d]].active => listener = "listening"
=============================================================================
