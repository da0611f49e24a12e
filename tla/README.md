# PowerMap in TLA+

PowerMap is one binary with two roles. **expose** (called B in the source) runs
in an intranet and is an iroh/QUIC server: it authenticates tenants by token and
dials targets for them. **access** (called A) runs at the user's: it binds local
ports, offers a web page and an HTTP API, and carries every local connection as
a QUIC stream over one shared connection to B. This directory models the parts
of both that keep state across awaits, checks them with TLC on small instances,
and proves the most important safety properties with TLAPS for every instance.

`tlc -workers 2 -config X.cfg MCM` checks a run; `tlapm MProofs.tla` checks the
proofs of a component. `PROJECT.json` maps every definition to the lines of
source it models, and lists the hazards and the disagreements found.

## Inventory

| Component | Source | State | Operations | Hard about it |
|---|---|---|---|---|
| Accept loop and forward tunnels of B | `expose.rs` 78-139, `tunnel.rs` 79-247, 384-653 | two levels of semaphores, counters, audit, a task per stream | accept, header, authenticate, limit, resolve, dial, answer, relay | many exits of a task; losses in any step; a loop that everything waits behind |
| Shared link of A | `access.rs` 53-175, 651-693, 4427-4442, 4807-4846 | credential (fair RwLock), cached connection (fair Mutex), `connected_since` (atomic) | get, invalidate, set_creds, token, status, watchdog | locks held over awaits, retries, a credential that changes in the middle |
| Reverse mappings | `access.rs` 4849-4919, `expose.rs` 145-257, `tunnel.rs` 253-363 | A's driver and policy, B's listeners per connection, reverse streams | register, bind, accept, check, dial, relay, cancel | the two ends learn of a loss at different moments; A restarts; a port outlives a connection |
| Port mappings of A | `access.rs` 3531-4197, 4304-4358, 4512-4662, 4758-4778 | table of handles (Mutex), a task and socket per handle, the file | create, update, remove, toggle, toggle-all, import, stop, save, restore | two requests of any kind at once; binds that fail half-way; saves that overtake each other |
| Domain mappings of A | `access.rs` 2690-3331, 4780-4796, `domain_hosts.rs` | table, one shared listener, entries in the hosts file, records in the file | create, update, toggle, remove, restore, dispatch by SNI | four resources changed in sequence, each step may fail or be the last before a crash |
| Sessions: what one mapping serves | `access.rs` 316-427, 3634-4011, `tunnel.rs` 724-769 | map of UDP sessions by source, a channel for each, `active_conns`, the token | accept, datagram, admit, deliver, forward, idle, end, cancel | a session's end races its successor; one channel that is full stops the listener; two timers, one stream |
| Configuration store | `config.rs` 595-785, 891-989 | files on disk | load, validate, migrate, save | a crash between save and removal; legacy files; a form that grows |
| Self update and start | `update.rs` 79-563, `bin/powermap.rs` 22-100 | the binary, its backup, the variable that names it, the pending update | select, download, queue, replace, exec, gate, confirm, roll back | two renames and a crash between them; a rollback that must not repeat |
| Metrics, audit, wire protocol | `metrics.rs`, `tunnel.rs` 384-430, `proto.rs` | counters | count, record, frame | a counter left off by one exit |
| Wizard, runtime, diagnostics, web page | `bin/`, `runtime.rs`, `diagnostics*.rs`, `web/` | none of their own | prompts, services, reports | - |

How they meet. Tunnels of mappings, the domain listener, the watchdog, the
reverse driver, the status page and `set_credential` all use the one `Link`.
A tunnel is a stream that B's accept loop takes, so the two meet only through
the stream: its header, B's status byte and its end. `register` is a stream with
a flag, after which B opens streams towards A on the same connection.
Requests of the API meet in the tables' mutexes and in the one file, which each
of them writes whole. Domain requests hold `domain_lifecycle` throughout; port
mapping requests share nothing of the kind. A mapping's sessions meet its
requests in the handle: its token, its record, its gauge. An update meets
everything in the one shutdown that precedes its `exec`, and the configuration
in the start that follows.

What makes each correct:

- B: limits hold and permits come back; the address dialled is one the policy
  allows; counters mean what they say; no stream stops the loop.
- Link: a token only goes to the B it belongs to; after a change of credential no
  older connection is handed out; a retry is not made on what just failed;
  it reconnects; nothing waits for ever.
- Reverse: a tenant gets only its own listeners' connections; the policy of A
  is the last word; ports come back; the driver registers again.
- Mappings: an address has one handle and a handle one address; the limit; no
  listener without an owner; the file is the table; disabled means released.
- Sessions: a limit holds, no session leads nowhere, no datagram is lost to the
  wrong session or sent twice, a removed mapping ends what it serves, and one
  session cannot stop the others.
- Start and update: a working version and the user's settings are on disk at
  every moment; a start ends; a rollback is not rolled back.
- Domains: entry, listener, record and mapping belong together whatever fails;
  the listener is bound only while used.

## Plan

1. `Expose`, the only place where trust is decided, with proofs (done), and the
   promise of its limits, `Admission`, with the refinement proved (done).
2. `Link`, which everything in A goes through, with proofs (done).
3. `Reverse`, which joins A and B, with proofs (done).
4. `Mappings` and `Domains`, A's tables, files and listeners, with proofs (done),
   and what the first promises, `Table`, with the refinement proved (done).
5. `Sessions`, what a mapping serves, with proofs (done).
6. `ConfigFiles` and `Startup`, files and binaries over crashes (done, with
   proofs of `Startup`).
7. An abstract specification still worth stating: a *promise of the link* (a
   register holding the credential a connection is for, with switch and
   hand-out as its only operations) implemented by `Link`.
8. Safety that is still to be proved: that refinement; nothing else a run checks.

Modules take sets as CONSTANTS with one named ASSUME, declare no RECURSIVE
operator, and state invariants as conjunctions, so that the same module is
checked and proved. A module `MCx` only adds values of constants and symmetry.

## The modules

Conventions: one action per stretch of code between two awaits (or between taking
and leaving a mutex when nothing in between is observable); processes are
members of a set and `pc`, `stage` or `task` say where they are; variables
marked *history* are read by properties only. An operator whose comment starts
with "Slip" is a plausible mistake in the operator after it; no specification
uses it.

**Expose**. `link`/`queue`/`loop` are the connection, the streams opened but not
accepted and the stream whose header `accept` waits for. `free` and `quota` are
the permits of `TunnelHandler::accept`'s and `serve_forward`'s semaphores.
`stage` is the task; `SpawnOrDrop`, `DenyToken`, `Authenticate`,
`ResolveAllowed`, `DialSucceeds`, `TcpDialFails`, `UdpDialFails`, `WriteOk`,
`WriteOkFails` and `WriteErr` are its stretches until it relays. DNS is any set
of addresses, a connection may be lost in every step. A relay is open, stalled
(`TargetStalls`, `TargetReads`: `up` waits for the target to read) or draining
(`HalfCloses`: `up` is over, `down` waits for the target to speak) until
`TunnelEnds`; in the last two nothing of it looks at the stream, so the loss of
the connection does not reach it.

**Admission** is what a limit promises: a task enters a pool that has room, is
turned away from a full one and from no other, and leaves once. `Expose`
implements it twice (`Admits`): `OfConns` maps a task to its place behind the
connection's semaphore (`PlaceOnConn`), `OfClients` to its place behind the
tenant's (`PlaceAtClient`, `PoolAtClient`). No permit occurs in `Admission`;
that the semaphores' counts stand for tasks in service is what the refinement
shows.

**Link**. `connQ` and `credsQ` are the fair locks, as queues of holders and
waiters; tokio's RwLock lets no reader pass a waiting writer, which `HasCreds`
says. `WaitConn`, `GetCached`, `ReadTarget`, `Connected`, `ConnectFails` are
`Link::get`; `InvalidateConn`, `InvalidateSince` its two unprotected steps;
`WriteCreds` is `set_creds`. Tunnels run `open_with_retry`, the watchdog its
loop, viewers `status` with its nested read in `connected_ips`. A connection
lives as long as a handle to it does (`InUse`, `DropUnused`).

**Reverse**. `aSide` and `bSide` are the two ends' opinions of a connection, `lost`
the truth. `DriverGets`, `SendRegister`, `Registered`, `DriverFails`,
`AcceptStream` are A's driver; `HandleRegister`, `Bind`, `ListenerCancelled`,
`ListenerFails`, `LocalConnects` B's registration and `run_reverse_listener`; the stream actions
are `serve_reverse_stream` and its counterpart. The link is its cache only
(`Invalidate` stands for any tunnel that gave up on it).

**Mappings**. `table`, `mapping`, `task`, `socket` and `session` are
`Inner.mappings`, the record in a handle, its task, the bound port, and whether
a UDP session shares it. A request holds the mutex in one action; it is cut
around `create`'s bind (`CreateChecks`, `CreateStarts`, `CreateInserts`), at
every `stop_mapping` (`StopNext`, `Stopped`), between `toggle_all`'s items and
in `save_config` (`SaveLists`, `SaveReads`, `SaveWrites`). `SavesElse` is any
other request that saves: the mappings go into the file with what it changed.
`stale`, `behind`, `spoiled` and `unstarted` (history) say which listings a
change has outdated, whether the file is as the last change left the table,
whether its last write failed or was of such a listing, and what the last start
could not bind. `Restart` is a crash
in any state and the restore of the file. A table's size never exceeds
`max_mappings`, so neither does what a listing writes (`FileBound`, proved), and
the restore need not cut the file at the limit. `Swapped` is the import's commit,
which keeps the handle of an address that stays.

**Table** is what `Mappings` promises its user: one record of an address, changed at
once and whole (`Create`, `Remove`, `Update`, `Import`), a file that is the table
when it is current (`Save`), and a start that brings back nothing that was not
saved (`Restart`). It knows no handles, listeners, requests or locks. `Records` is
the mapping: what the handle of an address holds; `current` is `~behind`.

**Sessions**. One mapping's listener (`loop`, with a datagram in `hand`), the
tasks it spawned (`pc`, `peer`, a `queue` each), the table of sessions (`entry`)
and `counted`, the tasks `active_conns` knows. A mapping serves connections
(`AcceptConn`, `HeadRead`, `Opens`, `Fails`, `Ends`) or datagrams (`Receive`,
`Deliver`, `DeliverFails`, `Admit`). An open session has three halves: `up` and
`down` are the futures of `handle_udp_session`'s `try_join!`, each with its own
timer, and `far` is B's relay (`FarFollows`, `FarFails`). `Cut` is the
`select!` on the mapping's token, `Forget` the removal of the source's entry,
`Ended` the drop of `ActiveGuard`. `Edit` is an update in place.

**ConfigFiles** and **Startup**. `files` is the directory, `config` and `path` what
`load_config` returned. `Startup` steps a process through `main`, `run` and
`rollback_failed_start` in changes of one file, image or stage at a time:
`Loads`, `MigrateSaves`, `MigrateRemoves`, `SaveAndSpawn`, then the gate
(`Confirm`, `WorkerFails`), while `WebSets` changes what the access role uses in
memory and `WebSaves` writes what one of these requests had `listed`, or fails;
then `Drains` and `Exits`, or `BackUp`, `Swap` and
`Exec`, and after a failure `RollsBack`, `Restore`, `Reexec`. `env` is the
variable that names the backup, `pid` the number in its name, which `exec`
keeps. `good`, `truth` and `lost` (history) are the last version that survived its
gate, the configuration last saved, and whether the last save of a request left
the file other than the memory.

**Domains**. A request or the restore in progress is `stage` and `job`
(`domain_lifecycle` admits one). `StartDisabled`, `StartRefused`,
`StartPreflighted`, `ListenerBinds`, `HostsWritten`, `HostsUnwritable` are
`start_domain_mapping_owned`; `Insert`, `Clean`, `Cleaned`, `Save` what callers
do after it. `ListElsewhere` and `SaveElsewhere` are the save of a request about
anything else, which holds no `domain_lifecycle`: what it has listed (`listings`)
may be outdated when it is written. Either write may fail, unseen by the user. `listener` is `none`, `listening` or `dead` (recorded, its
task ended). The connection actions are the accept task and its children.
`torn` and `spoiled` (history) are entries a crash left without a record, and
whether the last write failed, or was of an outdated listing, and left the file
other than the table.

## The runs

| Run | Instance | Shows |
|---|---|---|
| `Expose` | 2 connections, 2 streams, 3 clients (one limited to 1, one revoked, one unlimited), 1 stream per connection, 2 addresses, every kind of header, with fairness | every exit of a task with every other one at work: permits (`PermitsConserved`), counters (`CountersExact`), policy (`DialAllowed`), the refinement of `Admission` by both semaphores (`Admits`), and liveness (`StreamsHandled`; `PermitsReturn`: of the tunnels of dead connections only those that wait for their target keep a permit); the type invariant is proved, not run |
| `Link_safety` | 2 credentials, 2 connections, a tunnel, watchdog, setter and viewer | `CachedForCreds`, `TokenMatchesPeer`, `RetryElsewhere` (the type invariant is proved, not run) |
| `Link_live` | 1 credential, no viewer, with fairness | `Reconnects`, `TunnelsAnswered`, `CredsTakeEffect` when nobody looks at the status page |
| `Link_deadlock` | a viewer, no watchdog, with fairness | `CredsTakeEffect` is **violated**: `status` waits behind the writer that waits for it |
| `Reverse_safety` | 2 tenants, 2 listeners, 2 connections, 1 stream, 1 restart of A | `GaugesExact`, `Isolation`, `DenyAll` |
| `Reverse_live` | 1 tenant and a refused token, 2 connections, with fairness | `PortsReleased`, `DriverReregisters` |
| `Reverse_comeback` | 1 token, 1 restart, with fairness | `ListenersComeBack` is **violated**: the new listener meets the old one's port, and nothing tries again |
| `Mappings_safety` | 2 requests, 2 addresses, 3 handles, limit 1 | `Capacity`, `NoOrphans`, `KeyMatchesRecord`, `FileFollows` (every change is followed by a save that sees it, also when a listing was outdated in between) and the refinement of `Table` (`TableKept`) under two requests of any kind |
| `Mappings_ports` | 1 request, UDP, a foreign program on one port, crashes, failing writes, no limit | `NoOrphans` and `FileFollows` when sockets outlive tasks, ports are taken, an import fails half-way, listeners die, and after a restart |
| `Domains` | 2 domains, 1 port, 3 handles, 2 connections, one handshake at a time, one connection per mapping, failing hosts edits, a failing disk, one save of another request at a time, crashes | `HostsTracked`, `ServedExactly`, and `RecordsKept`: no step of a request, start or clean-up leaves the file other than the table, only a failed or outdated write does |
| `Sessions` | a gateway or a UDP mapping, a limit of 1 or none, 2 sources, 2 datagrams of one and 1 of the other, 2 tasks, channels of 1, with fairness | `StreamLimit`, `EntriesLive`, `DeliveredOnce`, and that a removal ends everything (`Drained`) and a full channel stops nobody for good (`LoopServes`) |
| `Startup` | 10 kinds of files, version 1 installed, 2 broken, 3 good, 2 process ids, failing operations, requests that set and save, crashes, with fairness | `GoodKept`, `SettingsKept` (what was last saved is on disk, and in use when no save is under way, failed or was outdated), and `StartEnds` |

### Bounds and why they are enough

Counters are bounded by what they count: streams of `Expose`, connections of
`Domains` and streams of `Reverse` are used a bounded number of times or
reused only when nothing refers to them, `MaxRestarts` bounds A's restarts in
`Reverse`, `Usizes` is the width of the one subtraction. Every property relates
at most two actors of a kind (two tunnels for a limit of one, two requests for
a race, an old and a new connection for a switch), and the instances have both.
Handles and connections are one more than the table can hold, so that an old
one, its successor and one in a request's hands exist together. When all are
in use, an action that needs a fresh one waits; three handles for
two addresses leave one to be started while two are in the table.

In `Sessions` a datagram comes back when it has been delivered or dropped, so a run
has any number of them; channels of one make a full channel common, and two
tasks let a session, its successor and a second source compete. `Startup`
has one broken version between two good ones, which is what an update, its
rollback and the next update need, and two process ids, so that an id may or
may not come back.

`Domains` runs with one port: that a record keeps its port is proved for any
(`DomainRecordsAreKept`), and no guard reads it. One listing of another save
at a time is enough to be outdated by a request and written after its save.

Symmetry is declared over sets no constant distinguishes, and only where no
liveness property is checked (`TableKept` is none: it says of each step what it may
show, and `Table` knows no handle or request). A view `Seen` hides what no action
and no checked property reads before it is written again, so two states that agree
on it have the same future: in `MCMappings` the record of a handle nothing refers
to, in `MCReverse` what is left of a connection both ends are done with, and in
`MCDomains` which handle holds what, what is only shown to the user, and that an
ended connection had been cancelled.

`CHECK_DEADLOCK FALSE` is said where the system may stop: streams
and connections are used once, users and the network owe nothing, and a process that
waits for them is not stuck. In `Link` a real circular wait still shows, as the
liveness property it violates; there the deadlock is no global one, since the
network goes on changing.

### Fairness

- `Expose`: the runtime schedules ready tasks. A header arrives or its stream
  fails (A writes it right after opening; a lost connection fails the read).
  Lookups, dials and writes end by their timeouts. A relay has to end only when
  its connection is gone and it reads the stream again and again (strong
  fairness: a target may stall it in between, but what arrived before the loss is
  finite). One whose client has closed its half, or whose target does not read,
  waits for the target alone, and nothing in the code bounds that.
- `Link`: tasks that can run do; connects and handshakes end; a dead path is
  noticed (`max_idle_timeout`, `tunnel.rs` 20-31). Users need not click, the
  network need not recover: `Reconnects` assumes the reachability it needs.
- `Reverse`: the driver loops with its backoff, both ends notice a dead path,
  tasks of B run, dials end; a relay of B ends once the loop of its connection
  has, which cancels it, while one of A may wait for its target for ever.
- `Sessions`: tasks that can run do, opens end, timers fire, B ends a relay
  whose stream ended, and a session whose channel has something forwards it or
  ends. Clients of a gateway owe no head, sources no datagram.
- `Startup`: the process goes on with what it has begun. Nobody has to start it,
  stop it, or publish a release.
- `Mappings` and `Domains` assume none; their properties are safety.

## What is proved

TLAPS checks these for every value of the constants that meets the modules'
assumptions (finite stream set, distinct tokens, disjoint process sets, ...).

`ExposeProofs`: `TypeCorrect`, `PermitsAreConserved`, `LimitsHold`,
`CountersAreExact`, `DialsAreAllowed`, `RefusalsAreJustified`,
`ImplementsAdmission`. None of the properties
is inductive alone. `IInv` adds that the accept queue holds each waiting stream
once (`QueueInv`; otherwise one stream could be served twice and its permit
counted once), that the stage of a task says whether it has a client and a
header (`TaskInv`; the permit given back is the client's that was taken), and that
what is left to dial came out of the policy (`DialInv`). Cardinalities move by one
stream at a time: `FlipCount` and `StepCounts` say by how much, and every action
is then arithmetic. `LimitsHold` follows from conservation with permits in
`Nat`; `RefusalsAreJustified` is an action property from the same invariant.
`ImplementsAdmission` shows that every step of `Expose` is a step of `Admission`
or none, for the connections' pools (`ConnStep`) and the tenants' (`ClientStep`).
Both need that a pool's tasks inside are the tasks in service
(`InsideIsServed`, from `AuditInv`: what the audit says of a task agrees with
where it is) and that without a permit its pool is full (`FullWhenNoPermit`,
from conservation).

`LinkProofs`: `LinkTypeCorrect`, `CachedIsForCreds`, `TokensMatchPeers`,
`RetriesGoElsewhere`. `IInv` says that who connects holds the mutex (`HolderInv`),
that what is cached *or being connected* is for the current credential unless
a `set_creds` is under way (`SwitchInv`; the second half is why
`CachedForCreds` survives a connect that began before the change), what a
tunnel that saw no change holds (`CleanInv`), and where a tunnel's last
connection can still be cached (`HeldInv`).

`ReverseProofs`: `ReverseTypeCorrect`, `GaugesAreExact`, `TenantsAreIsolated`,
`DeniedIsRefused`. `IInv` adds whose register stream it is (`RegisterInv`: one not
yet answered, or answered OK, on a connection A holds open is the driver's), when
B listens for a connection (`ListenerInv`: after the OK only, and then for the
client it authenticated; without it a listener bound late could be another
tenant's), that a stream's name is reused only when A has forgotten it too
(`NameInv`), and that an open policy, or a copy of one A is about to act upon,
allows the stream (`PolicyInv`; the copy is why `DenyAll` speaks of some moment
of the stream's life and not of the last). The gauges need that the set of
streams is finite, nothing else is assumed of its size.

`MappingsProofs`: `MappingsTypeCorrect`, `KeysMatchRecords`,
`NothingIsOrphaned`, `FileFollowsTable`, `LimitIsKept`, for any set of handles and
concurrent requests and any finite set of addresses. The inductive invariant is
built in layers. `BaseInv` says who holds a socket and that it is the one of the
record's address (`PortInv`; two listeners can only differ in port because a
start needs it free), that a table entry leads to a record of its address
(`TableInv`), that the handle a create has started and not yet inserted is in no
table and no other create's (`InsertInv`; else two creates could end with one
handle at two addresses), and that a save has read and has to read one record of
an address (`ReadInv`, whence `FileInv`: a restart finds at most one record for
an address). Every step replaces a record in use by one of the same address at
most and gives an address only its own handle, an unused one or the one of the
create that ends (`Frame`), which is all the other requests need. `NoOrphans` is
inductive on top of it. `Capacity` needs the limit for what a save lists and for
the file (`ReadBound`, `FileBound`): a restart restores from there without an
import's check.

`FileFollowsTable` is about the end of every request, and its invariant says who
still has to come: the file is the table with what the last start left out, or
its last write was spoiled, or some request will save (`FollowsInv`). `WillSave`
names them: who is about to list, who is reading a listing that nothing has
outdated, and who stops listeners or switches the rest before it lists. A change
of the table puts its own request among them (`ChangeFollows`), nobody leaves but
by its write, and what that writes is the table (`SaveFollows`), because of
`ListedInv`: what a listing that nothing has outdated has read, and has still to
read, is what the table holds. `StaleInv` is that only a request that reads can
have an outdated listing.

`TableProofs`: `TableIsKept`, the refinement of `Table` by `Mappings`, from the
invariants above. Each action is shown to be one of `Table`'s operations or none:
what a request starts, stops, lists or reads does not show (`Stutters`: only the
records of handles in use do), the insert after a bind is `Create` because it
looks again (`InsertCreates`), an update in place, a replaced handle and a switch
are all `Update` (`ChangesUpdate`), the import's swap is one `Import` although it
keeps some handles, starts others and stops the rest later (`SwapRecords`,
`ImportImports`), the rename is `Save` (`SaveSavesTable`, which needs
`FileInv`, `FileBound` and, of `MappingsProofs`, `FileCurrent` in the state it
leads to: the file is what the table holds unless it is behind), and a start
shows a part of the file (`RestartRestores`). That a table is exactly the set of
its records (`TableShows`) needs one record of an address, which is why `TableInv`
and `FileInv` say so.

`SessionsProofs`: `SessionsTypeCorrect`, `StreamLimitIsKept`, `EntriesAreLive`,
`DatagramsAreDeliveredOnce`, for any sources, datagrams and tasks (finitely many
at a time) and any channel capacity. `DeliveredOnce` needs
`HandInv`: the session the listener is about to send to is of the datagram's
source or over, because its entry said so (`EntriesLive`) and because its slot is
not given to another while the listener refers to it; without it a datagram held
over a full channel could go to the session that took the slot. `StageInv` says
that a task that no longer receives has nothing queued, so that a slot starts
again with an empty channel, and `KindInv` that a TCP listener has no datagrams.
`CountInv` says that `active_conns` is the tasks that have begun, which is not
what `StreamLimit` counts: its permits are taken before. What a channel holds
after a send or a receive is stated once (`Appended` and its neighbours).

`DomainsProofs`: `DomainsTypeCorrect`, `HostsAreTracked`, `SharedListenerServes`,
`DomainRecordsAreKept`, for any domains and connections and
through any failures and crashes. The properties speak of the moments between
operations; the invariant has to say what holds in the middle of one. `Left` are
the domains a restore has still to start, `Held` the one whose entry may be there
without its mapping: every entry is a mapping's, left, held or torn off by a crash
(`HostsInv`), and until an operation has changed the table a file that is not spoiled records
exactly what is in it (`RecordedAs`: a mapping a start could not enable stays
recorded as enabled) or left (`RecordInv`; `RestoreInv` is that nothing is saved
while a start reads it). `PlaceInv` says when the domain in hand has a
mapping, `MadeInv` what the handle about to be inserted needs (its entry, a
listener, and that an unused listener was let go when it is a disabled one),
`ListenInv` when the listener must and when it may be bound: an operation that
cleans up may keep it until its end. `ConnInv` counts the gauge, which `TypeOK` needs to stay above
zero: it is the tunnels relaying and those that were cut without being counted
down, which is why it is not what `metrics.rs` says (`GaugeActive`, below).

`StartupProofs`: `StartTypeCorrect`, `GoodIsKept`, `SettingsAreKept`. For the
first two `IInv` says which version is in the program's file while a process
runs (`BinInv`: its own, except between the two renames), that whoever may rename
the program has the last good version in a backup (`BackupInv`), and that this
backup is under the id of the process that will look for it (`NameInv`; `exec`
keeps the id). `SettingsAreKept` rests on `SettingsInv`: what was last saved is on
disk (`OnDisk`), a migration has read all of it before it removes a former file,
and removes former files only (`MigrationInv`), what a loaded configuration lacks
a former file holds (`LoadedInv`), and under serving workers the unified file is
what was last saved (`SavedAs`), which is what they use if no request is still
saving and the last save neither failed nor was outdated (`ServingInv`).
Its assumption is a node started with the
unified path; for one started with a former file's path the property is refuted
(below).

Only model-checked: every liveness property (fairness and ENABLED are out of the
prover's reach). Every safety property of a passing run is proved.

## Where code and documentation part

Two runs above end in a violation of what the code documents. The following are
stated in the modules and refuted by TLC as well; to see a counterexample put the
property in place of those of the configuration named, without its VIEW and
SYMMETRY, with the changes given.

| Property | Configuration and changes | What happens |
|---|---|---|
| `EveryFailureCounted` (`Expose`) | `Expose` | a stream dropped at the connection's limit, or whose OK cannot be written, is no failure to `tunnels_failed` |
| `AllPermitsReturn` (`Expose`) | `Expose`, PROPERTY | a relay that waits for its target does not notice that its connection is gone |
| `SinceMatchesConn` (`Link`) | `Link_safety`, INVARIANT | `invalidate` clears the moment of a connection made after it let the mutex go |
| `OneConnection` (`Link`) | `Link_safety` with two tunnels, no watchdog and no viewer, INVARIANT | a refused tunnel drops the healthy connection of the others |
| `ServedByCurrent` (`Reverse`) | `Reverse_live`, Tokens `{t1, t2}`, PROPERTY | the driver's own handle outlives the credential |
| `FileMatchesTable` (`Mappings`) | `Mappings_safety`, `MaxMappings = 0` | the older of two listings is written last |
| `UnchangedCounts` (`Mappings`) | the same | mappings removed between two locks make the difference wrap |
| `UnstartedKept` (`Mappings`) | `Mappings_ports`, PROPERTY | a mapping whose port was taken at the start is erased by the next save of anything |
| `ManagedTrue` (`Domains`) | `Domains`, `HostsFail = FALSE`, `MayRestart = FALSE` | a successful disable leaves `hosts_managed` set |
| `ShownListening` (`Domains`) | the same | after `accept` failed a new mapping is shown as listening on a listener that is dead |
| `DisabledReleases` (`Mappings`) | `Mappings_safety`, Requests `{p1}`, `MaxMappings = 0` | an import that disables a mapping leaves its listener |
| `DomainsSaved` (`Domains`) | `Domains` | the save failed, or another request wrote an older listing after it |
| `GaugeActive` (`Domains`) | `Domains` | a tunnel cut with its listener stays counted |
| `RemovedDrained` (`Domains`) | `Domains` | the tunnels of a domain removed beside another go on |
| `NoStaleEntry` (`Domains`) | `Domains`, `HostsFail = FALSE` | a crash between hosts entry and record leaves an entry no start detects |
| `UdpLimit` (`Sessions`) | `Sessions`, Slots `{s1, s2, s3}` | sessions are counted after the check |
| `OneStreamPerPeer` (`Sessions`) | the same | an old session's end removes the entry of the new one |
| `NeverOneWay` (`Sessions`) | the same | each direction has its own idle timer |
| `ServedAsRecorded` (`Sessions`) | the same | an update in place changes the mode, not the listener |
| `AllDrained` (`Sessions`) | the same, PROPERTY | a gateway connection without a head outlives its mapping |
| `AlwaysStartable` (`Startup`) | `Startup` | killed between the two renames |
| `InUseRestored` (`Startup`) | `Startup` | an update restarts after a save that failed or had not come yet |
| `BackupsRemoved` (`Startup`) | `Startup` | a backup whose update was never confirmed stays, and a later update meets it |
| `OldReadsConfig` (`Startup`) | `Startup`, `Schema <- MCSchemaGrows` | the configuration is saved in the new form before the gate |
| `ConfirmedAlone` (`Startup`) | `Startup`, PROPERTY | the environment changes under running workers |
| `SettingsKept` (`Startup`) | `Startup`, `StartPaths = {"server"}` | migration overwrites an existing unified file |

## What is not modelled

- A request whose client disconnects: its future is dropped at an await. Requests
  here run to their end, so `NoOrphans` and `HostsTracked` speak of those. Cut
  between the bind (`access.rs` 3563) and the insert (3583), a create leaves a
  listener in no table; `Mappings` with such a step has over a million states
  more, beyond what a run here can take.
- The bytes written by a save before its rename: `Save` is the rename, before which
  nothing of the old file changes. The two processes that may edit the hosts
  file at once, and its lock (`domain_hosts.rs` 73-195): an edit here is atomic.
- In `Startup`, installations without in-process updates (Docker, Windows) and the
  service managers around the process: a user or supervisor starts it at will.
- Byte formats (`proto.rs`, ClientHello, Host headers), text of errors and events,
  traffic counters, TLS of the web page, diagnostics and port suggestions: pure
  functions or I/O that change no state of the system.
- iroh, QUIC, tokio and the operating system are external: modelled from how the
  code uses them, with the map saying so (queues of fair locks, handles that
  keep a connection open, ports that are bound once, streams in order).
