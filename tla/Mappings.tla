------------------------------ MODULE Mappings ------------------------------
(***************************************************************************)
(* The port mappings of the accessing side (A, src/src/access.rs): the     *)
(* table of mapping handles, the listeners behind them, the requests of    *)
(* the web API that change both, the file they are saved to, and a restart *)
(* from that file.                                                         *)
(*                                                                         *)
(* Requests run concurrently.  What one does while it holds Inner's mutex  *)
(* is one action; a request is cut where it leaves the mutex or waits:     *)
(* around the bind of create, at each listener it stops, and between       *)
(* listing the handles, reading each and writing the file.                 *)
(*                                                                         *)
(* Abstracted: targets, names and routes (a record is its address, mode    *)
(* and state), the credential and the domain mappings saved beside, the    *)
(* tunnels (a UDP session only shows as holding its socket).               *)
(***************************************************************************)
EXTENDS Naturals, FiniteSets

CONSTANTS
  Locals,       \* local addresses
  Modes,        \* of a mapping: tcp or udp (http listens as tcp does)
  Handles,      \* MappingHandle instances, reused once nothing refers to them
  Requests,     \* concurrent requests of the API
  MaxMappings,  \* max_mappings; 0 means no limit
  Usizes,       \* number of values of a usize
  ForeignPorts, \* ports other programs may take
  MayRestart,   \* whether the process may stop and start again
  DiskFails,    \* whether writing the file may fail
  NoHandle, NoRecord, NoSocket, NoJob

Record == [local: Locals, mode: Modes, enabled: BOOLEAN]

Port == Locals \X Modes

ASSUME MappingsAssumption ==
  /\ MaxMappings \in Nat /\ Usizes \in Nat \ {0}
  /\ {MayRestart, DiskFails} \subseteq BOOLEAN
  /\ IsFiniteSet(Locals)
  /\ Modes \subseteq {"tcp", "udp"} /\ ForeignPorts \subseteq Port
  /\ NoHandle \notin Handles
  /\ NoRecord \notin Record
  /\ NoSocket \notin Locals \X {"tcp", "udp"}

VARIABLES
  table,     \* Inner.mappings: the handle of an address
  mapping,   \* the record inside a handle
  task,      \* a handle's task: free, parked (disabled), listening, aborted
  socket,    \* the port its task, or a UDP session of it, holds
  session,   \* a UDP session of it is running
  foreign,   \* ports other programs hold
  file,      \* the mappings in the configuration file
  pc, job,   \* where a request is, and what it has in hand
  stale,     \* requests whose listing a later change has outdated (history)
  behind,    \* the file was last written from such a listing, or not since
             \* the last change (history)
  spoiled,   \* the last write of the file failed, or was from such a listing (history)
  unstarted  \* what the last start left out, until the file is written (history)

handleVars == <<mapping, task, socket, session>>
requestVars == <<pc, job>>
history == <<stale, behind, spoiled, unstarted>>
vars == <<table, handleVars, foreign, file, requestVars, history>>

Stages == {"idle", "start", "insert", "count", "all", "stop", "list", "read"}

-----------------------------------------------------------------------------
(* Handles and listeners *)

Mapped == {l \in Locals : table[l] # NoHandle}

\* What the table holds: what a save wants to write.
Image == {mapping[table[l]] : l \in Mapped}

\* Slip: the limit is taken for the last that must be refused.
RoomPlusOne(n) == MaxMappings = 0 \/ n <= MaxMappings + 1

\* Room for n mappings.
Room(n) == MaxMappings = 0 \/ n <= MaxMappings

\* Handles a request refers to.
Holds(p) ==
  CASE pc[p] = "insert" -> {job[p]}
    [] pc[p] \in {"stop", "read"} -> job[p].todo
    [] OTHER -> {}

Unused(h) ==
  /\ task[h] = "free" /\ socket[h] = NoSocket
  /\ \A l \in Locals : table[l] # h
  /\ \A p \in Requests : h \notin Holds(p)

PortFree(port) == port \notin foreign /\ \A h \in Handles : socket[h] # port

\* A disabled mapping binds nothing.
Startable(r) == r.enabled => PortFree(<<r.local, r.mode>>)

\* start_mapping_owned: fresh handles for the records new[h].
Started(new) ==
  /\ mapping' = [h \in Handles |-> IF h \in DOMAIN new THEN new[h] ELSE mapping[h]]
  /\ task' = [h \in Handles |->
               IF h \notin DOMAIN new THEN task[h]
               ELSE IF new[h].enabled THEN "listening" ELSE "parked"]
  /\ socket' = [h \in Handles |->
                 IF h \in DOMAIN new /\ new[h].enabled
                 THEN <<new[h].local, new[h].mode>> ELSE socket[h]]

Running(h) == task[h] \in {"listening", "parked"}

\* cancel and abort: the task ends at its next await.
Abort(h) == task' = [task EXCEPT ![h] = IF Running(h) THEN "aborted" ELSE @]

\* Slip: an ended task keeps its socket.
TaskEndsHolding(h) == task' = [task EXCEPT ![h] = "free"] /\ UNCHANGED socket

\* A UDP session keeps the socket it shares.
TaskEnds(h) ==
  /\ task' = [task EXCEPT ![h] = "free"]
  /\ socket' = [socket EXCEPT ![h] = IF session[h] THEN @ ELSE NoSocket]

ListenerStops(h) ==
  /\ task[h] = "aborted"
  /\ TaskEnds(h)
  /\ UNCHANGED <<table, mapping, session, foreign, file, requestVars, history>>

\* accept or recv_from failed: the loop ends, the handle stays in the table.
ListenerFails(h) ==
  /\ task[h] = "listening"
  /\ TaskEnds(h)
  /\ UNCHANGED <<table, mapping, session, foreign, file, requestVars, history>>

\* The poll an abort finds running may still spawn a session.
SessionStarts(h) ==
  /\ task[h] \in {"listening", "aborted"} /\ ~session[h]
  /\ socket[h] \in Locals \X {"udp"}
  /\ session' = [session EXCEPT ![h] = TRUE]
  /\ UNCHANGED <<table, mapping, task, socket, foreign, file, requestVars, history>>

SessionEnds(h) ==
  /\ session[h]
  /\ session' = [session EXCEPT ![h] = FALSE]
  /\ socket' = [socket EXCEPT ![h] = IF task[h] = "free" THEN NoSocket ELSE @]
  /\ UNCHANGED <<table, mapping, task, foreign, file, requestVars, history>>

ForeignProgram ==
  /\ \E port \in ForeignPorts :
       \/ PortFree(port) /\ foreign' = foreign \cup {port}
       \/ port \in foreign /\ foreign' = foreign \ {port}
  /\ UNCHANGED <<table, handleVars, file, requestVars, history>>

-----------------------------------------------------------------------------
Init ==
  /\ table = [l \in Locals |-> NoHandle]
  /\ mapping = [h \in Handles |-> NoRecord]
  /\ task = [h \in Handles |-> "free"]
  /\ socket = [h \in Handles |-> NoSocket]
  /\ session = [h \in Handles |-> FALSE]
  /\ foreign = {}
  /\ file = {}
  /\ pc = [p \in Requests |-> "idle"]
  /\ job = [p \in Requests |-> NoJob]
  /\ stale = {}
  /\ behind = FALSE /\ spoiled = FALSE /\ unstarted = {}

Goto(p, stage, hand) ==
  /\ pc' = [pc EXCEPT ![p] = stage]
  /\ job' = [job EXCEPT ![p] = hand]

\* stop_mapping for each handle of hs, then on.
StopThen(p, hs, next, hand) ==
  IF hs = {} THEN Goto(p, next, hand)
  ELSE Goto(p, "stop", [todo |-> hs, next |-> next, hand |-> hand])

\* What the table or a record holds has changed.
Changed ==
  /\ stale' = stale \cup {q \in Requests : pc[q] = "read"}
  /\ behind' = TRUE
  /\ UNCHANGED <<spoiled, unstarted>>

-----------------------------------------------------------------------------
(* create: check, bind, check again and insert *)

CreateChecks(p) ==
  /\ pc[p] = "idle"
  /\ \E r \in Record :
       /\ table[r.local] = NoHandle
       /\ Room(Cardinality(Mapped) + 1)
       /\ Goto(p, "start", r)
  /\ UNCHANGED <<table, handleVars, foreign, file, history>>

CreateStarts(p) ==
  /\ pc[p] = "start"
  /\ \/ \E h \in Handles :
          /\ Unused(h) /\ Startable(job[p])
          /\ Started([x \in {h} |-> job[p]])
          /\ Goto(p, "insert", h)
          /\ UNCHANGED session
     \/ /\ ~Startable(job[p])
        /\ Goto(p, "idle", NoJob)
        /\ UNCHANGED handleVars
  /\ UNCHANGED <<table, foreign, file, history>>

Insert(p, h) ==
  /\ table' = [table EXCEPT ![mapping[h].local] = h]
  /\ Changed
  /\ Goto(p, "list", NoJob)
  /\ UNCHANGED task

Insertable(h) == table[mapping[h].local] = NoHandle /\ Room(Cardinality(Mapped) + 1)

\* Slip: the loser's listener is not stopped.
CreateInsertsLeaking(p) ==
  /\ pc[p] = "insert"
  /\ \/ Insertable(job[p]) /\ Insert(p, job[p])
     \/ /\ ~Insertable(job[p])
        /\ Goto(p, "idle", NoJob)
        /\ UNCHANGED <<table, task, history>>
  /\ UNCHANGED <<mapping, socket, session, foreign, file>>

\* Slip: the address and the room are not looked at again after the bind.
CreateInsertsUnchecked(p) ==
  /\ pc[p] = "insert"
  /\ Insert(p, job[p])
  /\ UNCHANGED <<mapping, socket, session, foreign, file>>

\* Between the two locks another request may have taken the address or the room.
CreateInserts(p) ==
  /\ pc[p] = "insert"
  /\ \/ Insertable(job[p]) /\ Insert(p, job[p])
     \/ /\ ~Insertable(job[p])
        /\ Abort(job[p])
        /\ Goto(p, "idle", NoJob)
        /\ UNCHANGED <<table, history>>
  /\ UNCHANGED <<mapping, socket, session, foreign, file>>

-----------------------------------------------------------------------------
(* remove, update, toggle *)

\* Slip: the handles are listed before the entry is removed.
RemoveListsFirst(p) ==
  /\ pc[p] = "idle"
  /\ \E l \in Mapped :
       /\ table' = [table EXCEPT ![l] = NoHandle]
       /\ Abort(table[l])
  /\ Goto(p, "read", [todo |-> {table[l] : l \in Mapped}, image |-> {}])
  /\ Changed
  /\ UNCHANGED <<mapping, socket, session, foreign, file>>

\* cancel and abort, without waiting for the listener's end.
Remove(p) ==
  /\ pc[p] = "idle"
  /\ \E l \in Mapped :
       /\ table' = [table EXCEPT ![l] = NoHandle]
       /\ Abort(table[l])
  /\ Goto(p, "list", NoJob)
  /\ Changed
  /\ UNCHANGED <<mapping, socket, session, foreign, file>>

\* Slip: a new address is written into the old handle.
UpdateInPlaceAlways(p) ==
  /\ pc[p] = "idle"
  /\ \E l \in Mapped, r \in Record :
       /\ r.enabled = mapping[table[l]].enabled
       /\ r.local # l => table[r.local] = NoHandle
       /\ mapping' = [mapping EXCEPT ![table[l]] = r]
  /\ Goto(p, "list", NoJob)
  /\ Changed
  /\ UNCHANGED <<table, task, socket, session, foreign, file>>

\* Address and state unchanged: the record is replaced, the listener untouched.
UpdateInPlace(p) ==
  /\ pc[p] = "idle"
  /\ \E l \in Mapped, r \in Record :
       /\ r.local = l /\ r.enabled = mapping[table[l]].enabled
       /\ mapping' = [mapping EXCEPT ![table[l]] = r]
  /\ Goto(p, "list", NoJob)
  /\ Changed
  /\ UNCHANGED <<table, task, socket, session, foreign, file>>

\* A new handle is started for r and takes the place of l's; when it cannot be
\* started nothing has changed.
Replace(l, r) ==
  /\ Startable(r)
  /\ \E h \in Handles :
       /\ Unused(h)
       /\ Started([x \in {h} |-> r])
       /\ table' = [table EXCEPT ![l] = NoHandle, ![r.local] = h]
  /\ Changed
  /\ UNCHANGED session

UpdateRestarts(p) ==
  /\ pc[p] = "idle"
  /\ \E l \in Mapped, r \in Record :
       /\ r.local # l \/ r.enabled # mapping[table[l]].enabled
       /\ r.local # l => table[r.local] = NoHandle
       /\ Replace(l, r)
       /\ StopThen(p, {table[l]}, "list", NoJob)
  /\ UNCHANGED <<foreign, file>>

Flipped(l) == [mapping[table[l]] EXCEPT !.enabled = ~@]

Toggle(p) ==
  /\ pc[p] = "idle"
  /\ \E l \in Mapped : Replace(l, Flipped(l)) /\ StopThen(p, {table[l]}, "list", NoJob)
  /\ UNCHANGED <<foreign, file>>

-----------------------------------------------------------------------------
(* toggle_all: the addresses to switch, what is left as it is, one at a time *)

ToggleAll(p) ==
  /\ pc[p] = "idle"
  /\ \E target \in BOOLEAN :
       Goto(p, "count", [todo |-> {l \in Mapped : mapping[table[l]].enabled # target},
                         target |-> target])
  /\ UNCHANGED <<table, handleVars, foreign, file, history>>

\* The number replied as unchanged if it is taken now: the mutex was left in
\* between, so the difference of two usize may wrap.
Unchanged(p) == (Cardinality(Mapped) - Cardinality(job[p].todo)) % Usizes

CountUnchanged(p) ==
  /\ pc[p] = "count"
  /\ Goto(p, "all", [todo |-> job[p].todo, target |-> job[p].target, changed |-> FALSE])
  /\ UNCHANGED <<table, handleVars, foreign, file, history>>

\* Removed or switched meanwhile, or not startable: go on with the next.
SwitchNext(p) ==
  /\ pc[p] = "all"
  /\ \E l \in job[p].todo :
       LET left == [job[p] EXCEPT !.todo = @ \ {l}]
           wanted == l \in Mapped /\ mapping[table[l]].enabled # job[p].target IN
       \/ /\ wanted /\ Replace(l, Flipped(l))
          /\ StopThen(p, {table[l]}, "all", [left EXCEPT !.changed = TRUE])
       \/ /\ wanted => ~Startable(Flipped(l))
          /\ Goto(p, "all", left)
          /\ UNCHANGED <<table, handleVars, history>>
  /\ UNCHANGED <<foreign, file>>

\* Slip: what was switched is not saved.
SwitchedAllUnsaved(p) ==
  /\ pc[p] = "all" /\ job[p].todo = {}
  /\ Goto(p, "idle", NoJob)
  /\ UNCHANGED <<table, handleVars, foreign, file, history>>

SwitchedAll(p) ==
  /\ pc[p] = "all" /\ job[p].todo = {}
  /\ Goto(p, IF job[p].changed THEN "list" ELSE "idle", NoJob)
  /\ UNCHANGED <<table, handleVars, foreign, file, history>>

-----------------------------------------------------------------------------
(* import_config: start all that is new, then swap the table *)

\* What an import can bring: records of distinct addresses.
Incoming == UNION {{f \in [S -> Record] : \A l \in S : f[l].local = l} : S \in SUBSET Locals}

\* Fresh handles for the addresses S.
Allocations(S) == {f \in [S -> {h \in Handles : Unused(h)}] :
                     \A k, l \in S : f[k] = f[l] => k = l}

\* The handles f gives the addresses S.
Handed(f, S) == {f[l] : l \in S}

\* The records new of the addresses S, by the handles f gives them.
Given(new, S, f) == [h \in Handed(f, S) |-> new[CHOOSE l \in S : f[l] = h]]

Fresh(new) == DOMAIN new \ Mapped

\* What an overwriting import leaves out.
Gone(new, merge) == IF merge THEN {} ELSE Mapped \ DOMAIN new

Fits(new, merge) ==
  Room(Cardinality(DOMAIN new \cup (IF merge THEN Mapped ELSE {})))

\* The table is swapped. An address that stays keeps its handle, task and socket
\* whatever its new record says.
Swapped(new, merge, f) ==
  LET begun == Given(new, Fresh(new), f)
      held == Given(new, DOMAIN new \cap Mapped, table) IN
  /\ task' = [h \in Handles |->
               IF h \notin DOMAIN begun THEN task[h]
               ELSE IF begun[h].enabled THEN "listening" ELSE "parked"]
  /\ socket' = [h \in Handles |->
                 IF h \in DOMAIN begun /\ begun[h].enabled
                 THEN <<begun[h].local, begun[h].mode>> ELSE socket[h]]
  /\ mapping' = [h \in Handles |->
                  IF h \in DOMAIN begun THEN begun[h]
                  ELSE IF h \in DOMAIN held THEN held[h] ELSE mapping[h]]
  /\ table' = [l \in Locals |->
                IF l \in Fresh(new) THEN f[l]
                ELSE IF l \in Gone(new, merge) THEN NoHandle ELSE table[l]]

\* What an overwriting import leaves out is stopped after the swap.
ImportCommits(p) ==
  /\ pc[p] = "idle"
  /\ \E new \in Incoming, merge \in BOOLEAN :
       /\ Fits(new, merge)
       /\ \A l \in Fresh(new) : Startable(new[l])
       /\ \E f \in Allocations(Fresh(new)) : Swapped(new, merge, f)
       /\ StopThen(p, Handed(table, Gone(new, merge)), "list", NoJob)
  /\ Changed
  /\ UNCHANGED <<session, foreign, file>>

\* Slip: the listeners started before the failing one are forgotten.
ImportFailsLeaking(p) ==
  /\ pc[p] = "idle"
  /\ \E new \in Incoming, merge \in BOOLEAN :
       /\ Fits(new, merge)
       /\ \E failing \in Fresh(new) :
            /\ ~Startable(new[failing])
            /\ \E S \in SUBSET (Fresh(new) \ {failing}) :
                 /\ \A l \in S : Startable(new[l])
                 /\ \E f \in Allocations(S) : Started(Given(new, S, f))
  /\ UNCHANGED <<table, session, foreign, file, requestVars, history>>

\* A new listener could not be bound: the ones started before it are stopped.
ImportFails(p) ==
  /\ pc[p] = "idle"
  /\ \E new \in Incoming, merge \in BOOLEAN :
       /\ Fits(new, merge)
       /\ \E failing \in Fresh(new) :
            /\ ~Startable(new[failing])
            /\ \E S \in SUBSET (Fresh(new) \ {failing}) :
                 /\ \A l \in S : Startable(new[l])
                 /\ \E f \in Allocations(S) :
                      /\ Started(Given(new, S, f))
                      /\ StopThen(p, Handed(f, S), "idle", NoJob)
  /\ UNCHANGED <<table, session, foreign, file, history>>

-----------------------------------------------------------------------------
(* stop_mapping: one handle after the other *)

StopNext(p) ==
  /\ pc[p] = "stop"
  /\ \A h \in job[p].todo : task[h] # "aborted"
  /\ \E h \in job[p].todo : Running(h) /\ Abort(h)
  /\ UNCHANGED <<table, mapping, socket, session, foreign, file, requestVars, history>>

Stopped(p) ==
  /\ pc[p] = "stop"
  /\ \E h \in job[p].todo :
       /\ task[h] = "free"
       /\ StopThen(p, job[p].todo \ {h}, job[p].next, job[p].hand)
  /\ UNCHANGED <<table, handleVars, foreign, file, history>>

-----------------------------------------------------------------------------
(* save_config: list the handles, read each, write the file *)

SaveLists(p) ==
  /\ pc[p] = "list"
  /\ Goto(p, "read", [todo |-> Handed(table, Mapped), image |-> {}])
  /\ UNCHANGED <<table, handleVars, foreign, file, history>>

SaveReads(p) ==
  /\ pc[p] = "read"
  /\ \E h \in job[p].todo :
       Goto(p, "read", [todo |-> job[p].todo \ {h}, image |-> job[p].image \cup {mapping[h]}])
  /\ UNCHANGED <<table, handleVars, foreign, file, history>>

\* Write and rename; an error is only logged.
SaveWrites(p) ==
  /\ pc[p] = "read" /\ job[p].todo = {}
  /\ \/ /\ file' = job[p].image
        /\ behind' = (p \in stale) /\ spoiled' = (p \in stale) /\ unstarted' = {}
     \/ DiskFails /\ spoiled' = TRUE /\ UNCHANGED <<file, behind, unstarted>>
  /\ stale' = stale \ {p}
  /\ Goto(p, "idle", NoJob)
  /\ UNCHANGED <<table, handleVars, foreign>>

\* A request about anything else saves the mappings too.
SavesElse(p) ==
  /\ pc[p] = "idle"
  /\ Goto(p, "list", NoJob)
  /\ UNCHANGED <<table, handleVars, foreign, file, history>>

-----------------------------------------------------------------------------
\* What a start can bind of the file.
Restored == {r \in file : r.enabled => <<r.local, r.mode>> \notin foreign}

\* A crash or a stop, and the next start: what cannot be bound is skipped.
Restart ==
  /\ MayRestart
  /\ LET S == {r.local : r \in Restored}
         new == [l \in S |-> CHOOSE r \in Restored : r.local = l] IN
     \E f \in {g \in [S -> Handles] : \A k, l \in S : g[k] = g[l] => k = l} :
       LET begun == Given(new, S, f) IN
       /\ table' = [l \in Locals |-> IF l \in S THEN f[l] ELSE NoHandle]
       /\ mapping' = [h \in Handles |-> IF h \in DOMAIN begun THEN begun[h] ELSE NoRecord]
       /\ task' = [h \in Handles |->
                    IF h \notin DOMAIN begun THEN "free"
                    ELSE IF begun[h].enabled THEN "listening" ELSE "parked"]
       /\ socket' = [h \in Handles |->
                      IF h \in DOMAIN begun /\ begun[h].enabled
                      THEN <<begun[h].local, begun[h].mode>> ELSE NoSocket]
  /\ behind' = (Restored # file) /\ spoiled' = FALSE /\ unstarted' = file \ Restored
  /\ session' = [h \in Handles |-> FALSE]
  /\ pc' = [p \in Requests |-> "idle"]
  /\ job' = [p \in Requests |-> NoJob]
  /\ stale' = {}
  /\ UNCHANGED <<foreign, file>>

Next ==
  \/ \E h \in Handles :
       ListenerStops(h) \/ ListenerFails(h) \/ SessionStarts(h) \/ SessionEnds(h)
  \/ ForeignProgram
  \/ \E p \in Requests :
       \/ CreateChecks(p) \/ CreateStarts(p) \/ CreateInserts(p)
       \/ Remove(p) \/ UpdateInPlace(p) \/ UpdateRestarts(p) \/ Toggle(p)
       \/ ToggleAll(p) \/ CountUnchanged(p) \/ SwitchNext(p) \/ SwitchedAll(p)
       \/ ImportCommits(p) \/ ImportFails(p)
       \/ StopNext(p) \/ Stopped(p)
       \/ SaveLists(p) \/ SaveReads(p) \/ SaveWrites(p) \/ SavesElse(p)
  \/ Restart

Spec == Init /\ [][Next]_vars

-----------------------------------------------------------------------------
(* Properties *)

Jobs ==
  {NoJob} \cup Record \cup Handles
  \cup [todo: SUBSET Locals, target: BOOLEAN]
  \cup [todo: SUBSET Locals, target: BOOLEAN, changed: BOOLEAN]
  \cup [todo: SUBSET Handles, image: SUBSET Record]

\* The type of every variable; no port is held twice, and a socket outlives its
\* task only under a UDP session that shares it.
TypeOK ==
  /\ table \in [Locals -> Handles \cup {NoHandle}]
  /\ mapping \in [Handles -> Record \cup {NoRecord}]
  /\ task \in [Handles -> {"free", "parked", "listening", "aborted"}]
  /\ socket \in [Handles -> Port \cup {NoSocket}]
  /\ session \in [Handles -> BOOLEAN]
  /\ foreign \subseteq ForeignPorts
  /\ file \subseteq Record
  /\ pc \in [Requests -> Stages]
  /\ \A p \in Requests :
       IF pc[p] = "stop"
       THEN /\ job[p].todo \subseteq Handles
            /\ job[p].next \in {"list", "idle", "all"}
            /\ job[p].hand \in Jobs
       ELSE job[p] \in Jobs
  /\ stale \subseteq Requests /\ {behind, spoiled} \subseteq BOOLEAN
  /\ unstarted \subseteq Record
  /\ \A h \in Handles :
       /\ socket[h] # NoSocket => task[h] \in {"listening", "aborted"} \/ session[h]
       /\ \A k \in Handles \ {h} : socket[h] # NoSocket => socket[k] # socket[h]

\* The table never grows beyond max_mappings, though create checks its room
\* before the bind and other requests fill it meanwhile.
Capacity == MaxMappings # 0 => Cardinality(Mapped) <= MaxMappings

\* No task is left that nothing refers to: whatever still runs is in the table,
\* where it can be stopped, or about to be inserted or stopped by a request.
NoOrphans ==
  \A h \in Handles : Running(h) =>
    \/ \E l \in Locals : table[l] = h
    \/ \E p \in Requests : pc[p] \in {"insert", "stop"} /\ h \in Holds(p)

\* An address leads to the one handle that has its record and its socket, in
\* whatever order requests replace, rename and import.
KeyMatchesRecord ==
  \A l \in Mapped :
    /\ mapping[table[l]] # NoRecord
    /\ mapping[table[l]].local = l
    /\ socket[table[l]] \in {NoSocket} \cup ({l} \X Modes)
    /\ \A k \in Mapped \ {l} : table[k] # table[l]

Quiescent == \A p \in Requests : pc[p] = "idle"

\* Once every request is answered, the file holds what the table holds, and what
\* the last start left out: every change was followed by a save that saw it.  Only
\* a write that failed, or of a listing a change had since outdated, leaves it
\* otherwise, until the next write or start.
FileFollows == Quiescent /\ ~spoiled => file = Image \cup unstarted

\* The record of an address.
Records == [l \in Locals |-> IF l \in Mapped THEN mapping[table[l]] ELSE NoRecord]

Contract == INSTANCE Table WITH records <- Records, current <- ~behind

\* Requests that run at once, binds between two locks, listeners that are stopped
\* one after the other and saves that read handle by handle implement Table: what
\* the table shows changes as if each request had it alone.
TableKept == Contract!Spec

\* Once every request is answered, the file holds what the table holds
\* (config.rs: the mappings are kept and restored at the next start).
FileMatchesTable == Quiescent => file = Image

\* While the table is as the last start left it, what the start could not bind is
\* not taken out of the file (config.rs: kept, restored at the next start).
UnstartedKept == [][file = Image \cup unstarted => unstarted \subseteq file']_vars

\* Once every request is answered, a disabled mapping holds no port
\* (config.rs: a disabled mapping releases its local port).
DisabledReleases ==
  Quiescent => \A l \in Mapped : ~mapping[table[l]].enabled => socket[table[l]] = NoSocket

\* toggle-all counts as unchanged no more mappings than there can be.
UnchangedCounts ==
  \A p \in Requests : pc[p] = "count" => Unchanged(p) <= Cardinality(Locals)
=============================================================================
