---------------------------- MODULE DomainsProofs ----------------------------
(***************************************************************************)
(* Safety of the domain mappings for any domains, ports, handles and TLS   *)
(* connections, whatever fails and whenever the process starts again.      *)
(***************************************************************************)
EXTENDS Domains, TLAPS, FiniteSetTheorems

USE DEF fileVars

\* Domains the file has a record of.
Recorded == {d \in Domains : file[d] # NoRecord}

\* Mappings of the table that take connections.
Served == {d \in Mapped : handle[table[d]].listens}

\* A start of a mapping is in progress.
Begun == stage \in {"start", "bind", "hosts", "failed", "insert"}

\* What a start of the process has still to restore.
Left ==
  IF stage = "next" THEN job
  ELSE IF Begun /\ job.kind = "restore" THEN {job.domain} \cup job.todo
  ELSE {}

\* The domain whose entry may be there without its mapping, for now.
Held ==
  IF stage \in {"insert", "clean"} \/ (stage = "unused" /\ job.failed) THEN {job.domain}
  ELSE {}

StartJob == [kind: {"create", "switch", "restore"}, domain: Domains, record: Record,
             todo: SUBSET Domains]

InsertJob == [kind: {"create", "switch", "restore"}, domain: Domains, record: Record,
              todo: SUBSET Domains, new: Handles]

CleanJob == [kind: {"remove", "switch"}, domain: Domains, record: Record, old: Handles]

UnusedJob == [kind: {"remove", "switch"}, domain: Domains, record: Record, failed: BOOLEAN]

OwnType ==
  /\ table \in [Domains -> Handles \cup {NoHandle}]
  /\ handle \in [Handles -> Handle \cup {NoRecord}]
  /\ \A d \in Mapped : handle[table[d]] \in Handle

FileType ==
  /\ file \in [Domains -> Record \cup {NoRecord}]
  /\ listings \subseteq [Domains -> Record \cup {NoRecord}] /\ spoiled \in BOOLEAN

\* What the operation in progress has in hand, by its stage.
JobType ==
  /\ stage \in Stages
  /\ stage = "next" => job \in SUBSET Domains
  /\ stage \in {"start", "bind", "hosts", "failed"} => job \in StartJob
  /\ stage = "insert" => job \in InsertJob
  /\ stage = "clean" => job \in CleanJob
  /\ stage = "unused" => job \in UnusedJob
  /\ stage = "retarget" => job \in [domain: Domains, port: Ports]

\* Whether the domain in hand has a mapping meanwhile.
PlaceInv ==
  /\ Begun => (job.domain \in Mapped <=> job.kind = "switch")
  /\ Begun /\ job.kind = "restore" => job.domain \notin job.todo
  /\ Left \cap Mapped = {}
  /\ stage \in {"clean", "unused"} => (job.domain \in Mapped <=> job.kind = "switch")
  /\ stage = "retarget" => job.domain \in Mapped

\* Every entry has a mapping, or will be seen to, or was torn off by a crash.
HostsInv ==
  /\ hosts \subseteq Domains /\ torn \subseteq hosts
  /\ hosts \subseteq Mapped \cup Left \cup Held \cup torn

\* Until the table has changed, the file has its mappings and those to restore.
RecordInv ==
  stage \notin {"save", "clean", "unused"} /\ ~spoiled =>
    /\ \A d \in Domains \ Left : RecordedAs(file[d], Image[d])
    /\ \A d \in Left : file[d] # NoRecord

\* Nothing is saved while a start restores what the file has.
RestoreInv ==
  /\ stage = "next" \/ (Begun /\ job.kind = "restore") => ~spoiled
  /\ Begun /\ job.kind = "restore" => job.record = file[job.domain]

\* The handle that is about to be inserted.
MadeInv ==
  stage = "insert" =>
    /\ handle[job.new] \in Handle
    /\ handle[job.new].port = job.record.port
    /\ handle[job.new].enabled => job.record.enabled
    /\ handle[job.new].listens =>
         job.record.enabled /\ job.domain \in hosts /\ listener # "none"
    /\ ~handle[job.new].listens /\ Served = {} => listener = "none"

\* The listener is there while it is needed and, between operations, only then.
ListenInv ==
  /\ listener \in {"none", "listening", "dead"}
  /\ Served \subseteq hosts
  /\ Served # {} \/ stage = "hosts" => listener # "none"
  /\ stage \in {"idle", "save", "retarget", "next", "start", "bind", "failed"} /\ Served = {} =>
       listener = "none"
  /\ stage = "clean" /\ job.domain \in Served => job.record.enabled
  /\ stage \in {"bind", "hosts"} => job.record.enabled

\* tunnels_active is the tunnels relaying now and those that were cut when the
\* listener was stopped, which it never forgets.
GaugeCounts == gauge = Cardinality({c \in Conns : conn[c] \in {"relaying", "cut"}})

\* The connections, and what the gauge counts.
ConnInv ==
  /\ conn \in [Conns -> {"new", "pending", "dispatched", "opening", "relaying", "closed", "cut"}]
  /\ via \in [Conns -> Handles \cup {NoHandle}]
  /\ cancelled \subseteq Conns
  /\ \A c \in Conns : via[c] # NoHandle <=> conn[c] \in {"dispatched", "opening", "relaying"}
  /\ GaugeCounts

OpInv ==
  /\ OwnType /\ FileType /\ JobType /\ PlaceInv /\ HostsInv
  /\ RecordInv /\ RestoreInv /\ MadeInv /\ ListenInv

IInv == OpInv /\ ConnInv

-----------------------------------------------------------------------------
(* What a step does to the table *)

LEMMA RecordFacts ==
  /\ \A r \in Record : r.port \in Ports /\ r.enabled \in BOOLEAN
  /\ \A r \in Record, b \in BOOLEAN :
       /\ DisabledHandle(r, b) \in Handle /\ ~DisabledHandle(r, b).listens
       /\ DisabledHandle(r, b).port = r.port /\ ~DisabledHandle(r, b).enabled
  /\ \A d \in Domains : OwnType /\ d \in Mapped => table[d] \in Handles
  BY DEF Record, Handle, DisabledHandle, OwnType, Mapped

\* The contents of the handles in the table keep whether they listen.
LEMMA SameServed ==
  ASSUME OwnType, UNCHANGED table, handle' \in [Handles -> Handle \cup {NoRecord}],
         \A d \in Mapped : /\ handle'[table[d]] \in Handle
                           /\ handle'[table[d]].listens = handle[table[d]].listens
  PROVE  OwnType' /\ Mapped' = Mapped /\ Served' = Served
  BY DEF OwnType, Mapped, Served

LEMMA SameTable ==
  ASSUME OwnType, UNCHANGED <<table, handle>>
  PROVE  OwnType' /\ Mapped' = Mapped /\ Served' = Served /\ Image' = Image
  BY DEF OwnType, Mapped, Served, Image

\* What a save lists is of the file's type, and is recorded as it is.
LEMMA ImageTyped ==
  ASSUME OwnType
  PROVE  /\ Image \in [Domains -> Record \cup {NoRecord}]
         /\ \A d \in Domains : RecordedAs(Image[d], Image[d])
<1>1. \A d \in Mapped : [port |-> handle[table[d]].port, enabled |-> handle[table[d]].enabled] \in Record
  BY DEF OwnType, Handle, Record
<1> QED
  BY <1>1 DEF Image, RecordedAs

\* A handle nothing refers to is given contents.
LEMMA UnusedTaken ==
  ASSUME OwnType, UNCHANGED table, NEW h \in Handles, Unused(h), NEW contents \in Handle,
         handle' = [handle EXCEPT ![h] = contents]
  PROVE  /\ OwnType' /\ Mapped' = Mapped /\ Served' = Served /\ Image' = Image
         /\ handle'[h] = contents
<1>1. \A d \in Mapped : table[d] # h /\ table[d] \in Handles
  BY DEF Unused, Mapped, OwnType
<1>2. handle' \in [Handles -> Handle \cup {NoRecord}] /\ handle'[h] = contents
  BY DEF OwnType
<1>3. \A d \in Mapped : handle'[table[d]] = handle[table[d]]
  BY <1>1 DEF OwnType
<1>4. OwnType' /\ Mapped' = Mapped /\ Served' = Served
  BY <1>2, <1>3, SameServed DEF OwnType
<1>5. Image' = Image
  BY <1>3, <1>4 DEF Image
<1> QED
  BY <1>2, <1>4, <1>5

\* A handle is put at a domain, its contents given before or now.
LEMMA Placed ==
  ASSUME OwnType, NEW d \in Domains, NEW h \in Handles, table' = [table EXCEPT ![d] = h],
         \/ UNCHANGED handle /\ handle[h] \in Handle
         \/ Unused(h) /\ \E contents \in Handle : handle' = [handle EXCEPT ![h] = contents]
  PROVE  /\ OwnType' /\ Mapped' = Mapped \cup {d}
         /\ Served' = (Served \ {d}) \cup (IF handle'[h].listens THEN {d} ELSE {})
         /\ Image'[d] = [port |-> handle'[h].port, enabled |-> handle'[h].enabled]
         /\ \A e \in Domains \ {d} : Image'[e] = Image[e]
<1>1. /\ handle' \in [Handles -> Handle \cup {NoRecord}] /\ handle'[h] \in Handle
      /\ \A e \in Mapped \ {d} : handle'[table[e]] = handle[table[e]]
  <2>1. CASE UNCHANGED handle /\ handle[h] \in Handle
    BY <2>1 DEF OwnType
  <2>2. CASE Unused(h) /\ \E contents \in Handle : handle' = [handle EXCEPT ![h] = contents]
    <3>1. \A e \in Mapped : table[e] # h /\ table[e] \in Handles
      BY <2>2 DEF Unused, Mapped, OwnType
    <3> QED
      BY <2>2, <3>1 DEF OwnType
  <2> QED
    BY <2>1, <2>2
<1>2. table' \in [Domains -> Handles \cup {NoHandle}] /\ table'[d] = h
      /\ \A e \in Domains \ {d} : table'[e] = table[e]
  BY DEF OwnType
<1>3. Mapped' = Mapped \cup {d}
  BY <1>2, DomainsAssumption DEF Mapped
<1>4. Served' = (Served \ {d}) \cup (IF handle'[h].listens THEN {d} ELSE {})
  BY <1>1, <1>2, <1>3 DEF Served
<1>5. OwnType'
  BY <1>1, <1>2, <1>3 DEF OwnType
<1>6. Image'[d] = [port |-> handle'[h].port, enabled |-> handle'[h].enabled]
  BY <1>2, <1>3 DEF Image
<1>7. \A e \in Domains \ {d} : Image'[e] = Image[e]
  BY <1>1, <1>2, <1>3 DEF Image
<1> QED
  BY <1>3, <1>4, <1>5, <1>6, <1>7

LEMMA Removed ==
  ASSUME OwnType, NEW d \in Domains, table' = [table EXCEPT ![d] = NoHandle], UNCHANGED handle
  PROVE  OwnType' /\ Mapped' = Mapped \ {d} /\ Served' = Served \ {d}
<1>1. table' \in [Domains -> Handles \cup {NoHandle}] /\ table'[d] = NoHandle
      /\ \A e \in Domains \ {d} : table'[e] = table[e]
  BY DEF OwnType
<1> QED
  BY <1>1 DEF OwnType, Mapped, Served

\* The shared listener stays while a mapping takes connections.
LEMMA StopFacts ==
  ASSUME StopIfUnused
  PROVE  /\ Served # {} => UNCHANGED <<listener, cancelled>>
         /\ Served = {} => listener' = "none"
         /\ cancelled \subseteq cancelled' /\ cancelled' \subseteq cancelled \cup Conns
  BY DEF StopIfUnused, Listened, Served

-----------------------------------------------------------------------------
(* The steps of an operation *)

LEMMA Begins ==
  ASSUME OpInv, CreateBegins \/ SwitchBegins \/ RetargetBegins
  PROVE  OpInv'
<1>1. /\ stage = "idle" /\ UNCHANGED <<listener, hosts, file, listings, spoiled, torn>>
      /\ OwnType' /\ Mapped' = Mapped /\ Served' = Served /\ Image' = Image
  BY SameTable DEF OpInv, CreateBegins, SwitchBegins, RetargetBegins, ownVars
<1>2. \/ /\ stage' = "start" /\ job' \in StartJob /\ job'.kind # "restore"
         /\ job'.domain \in Mapped <=> job'.kind = "switch"
      \/ /\ stage' = "retarget" /\ job' \in [domain: Domains, port: Ports] /\ job'.domain \in Mapped
  <2>1. ASSUME NEW d \in Domains \ Mapped, NEW r \in Record,
               Goto("start", [kind |-> "create", domain |-> d, record |-> r, todo |-> {}])
        PROVE  stage' = "start" /\ job' \in StartJob /\ job'.kind = "create" /\ job'.domain \notin Mapped
    BY <2>1 DEF Goto, StartJob
  <2>2. ASSUME NEW d \in Mapped, NEW port \in Ports,
               Goto("start", [kind |-> "switch", domain |-> d, todo |-> {},
                              record |-> [port |-> port, enabled |-> ~handle[table[d]].enabled]])
        PROVE  stage' = "start" /\ job' \in StartJob /\ job'.kind = "switch" /\ job'.domain \in Mapped
    <3>1. [port |-> port, enabled |-> ~handle[table[d]].enabled] \in Record /\ d \in Domains
      BY DEF OpInv, OwnType, Handle, Record, Mapped
    <3> QED
      BY <2>2, <3>1 DEF Goto, StartJob
  <2>3. ASSUME NEW d \in Mapped, NEW port \in Ports, Goto("retarget", [domain |-> d, port |-> port])
        PROVE  stage' = "retarget" /\ job' \in [domain: Domains, port: Ports] /\ job'.domain \in Mapped
    BY <2>3 DEF Goto, Mapped
  <2> QED
    BY <2>1, <2>2, <2>3 DEF CreateBegins, SwitchBegins, RetargetBegins
<1>3. Left = {} /\ Held = {} /\ Left' = {} /\ Held' = {}
  BY <1>1, <1>2 DEF Left, Held, Begun
<1>4. FileType' /\ JobType'
  BY <1>1, <1>2 DEF OpInv, FileType, JobType, Stages
<1>5. PlaceInv' /\ HostsInv'
  BY <1>1, <1>2, <1>3 DEF OpInv, PlaceInv, HostsInv, Begun
<1>6. MadeInv' /\ ListenInv'
  BY <1>1, <1>2, <1>3 DEF OpInv, MadeInv, ListenInv
<1>7. RecordInv' /\ RestoreInv'
  BY <1>1, <1>2, <1>3 DEF OpInv, RecordInv, RestoreInv, Begun
<1> QED
  BY <1>1, <1>4, <1>5, <1>6, <1>7 DEF OpInv

LEMMA RemoveStarts ==
  ASSUME OpInv, RemoveBegins
  PROVE  OpInv'
<1>1. PICK d \in Mapped :
        /\ table' = [table EXCEPT ![d] = NoHandle]
        /\ Goto("clean", [kind |-> "remove", domain |-> d, old |-> table[d],
                          record |-> [port |-> handle[table[d]].port, enabled |-> FALSE]])
  BY DEF RemoveBegins
<1>2. stage = "idle" /\ UNCHANGED <<handle, listener, hosts, file, listings, spoiled, torn>>
  BY DEF RemoveBegins
<1>3. OwnType' /\ Mapped' = Mapped \ {d} /\ Served' = Served \ {d} /\ d \in Domains
  BY <1>1, <1>2, Removed DEF OpInv, Mapped
<1>4. /\ stage' = "clean" /\ job' \in CleanJob /\ job'.kind = "remove" /\ job'.domain = d
  <2>1. [port |-> handle[table[d]].port, enabled |-> FALSE] \in Record /\ table[d] \in Handles
    BY RecordFacts DEF OpInv, OwnType, Handle, Record, Mapped
  <2> QED
    BY <1>1, <1>3, <2>1 DEF Goto, CleanJob
<1>5. Left = {} /\ Held = {} /\ Left' = {} /\ Held' = {d}
  BY <1>2, <1>4 DEF Left, Held, Begun
<1>6. FileType' /\ JobType'
  BY <1>2, <1>4 DEF OpInv, FileType, JobType, Stages
<1>7. PlaceInv' /\ HostsInv'
  BY <1>2, <1>3, <1>4, <1>5 DEF OpInv, PlaceInv, HostsInv, Begun
<1>8. RecordInv' /\ RestoreInv' /\ MadeInv' /\ ListenInv'
  BY <1>2, <1>3, <1>4 DEF OpInv, RecordInv, RestoreInv, Begun, MadeInv, ListenInv
<1> QED
  BY <1>3, <1>6, <1>7, <1>8 DEF OpInv

LEMMA Retargets ==
  ASSUME OpInv, Retarget
  PROVE  OpInv'
<1> DEFINE h == table[job.domain]
<1>1. /\ stage = "retarget" /\ UNCHANGED <<table, listener, hosts, file, listings, spoiled, torn>>
      /\ stage' \in {"idle", "save"}
      /\ \/ handle' = [handle EXCEPT ![h].port = job.port] /\ stage' = "save"
         \/ UNCHANGED handle
  BY DEF Retarget, Goto
<1>2. OwnType' /\ Mapped' = Mapped /\ Served' = Served
      /\ (stage' = "save" \/ Image' = Image)
  <2>1. CASE UNCHANGED handle
    BY <1>1, <2>1, SameTable DEF OpInv
  <2>2. CASE handle' = [handle EXCEPT ![h].port = job.port] /\ stage' = "save"
    <3>1. job.domain \in Mapped /\ job.port \in Ports /\ h \in Handles /\ handle[h] \in Handle
      BY <1>1, RecordFacts DEF OpInv, PlaceInv, JobType, OwnType, Mapped
    <3>2. [handle[h] EXCEPT !.port = job.port] \in Handle
          /\ [handle[h] EXCEPT !.port = job.port].listens = handle[h].listens
      BY <3>1 DEF Handle
    <3> HIDE DEF h
    <3> QED
      BY <1>1, <2>2, <3>1, <3>2, SameServed DEF OpInv, OwnType
  <2> QED
    BY <1>1, <2>1, <2>2
<1>3. Left = {} /\ Held = {} /\ Left' = {} /\ Held' = {}
  BY <1>1 DEF Left, Held, Begun
<1>4. FileType' /\ JobType'
  BY <1>1 DEF OpInv, FileType, JobType, Stages
<1>5. PlaceInv' /\ HostsInv'
  BY <1>1, <1>2, <1>3 DEF OpInv, PlaceInv, HostsInv, Begun
<1>6. MadeInv' /\ ListenInv'
  BY <1>1, <1>2, <1>3 DEF OpInv, MadeInv, ListenInv
<1>7. RecordInv' /\ RestoreInv'
  BY <1>1, <1>2, <1>3 DEF OpInv, RecordInv, RestoreInv, Begun
<1> QED
  BY <1>2, <1>4, <1>5, <1>6, <1>7 DEF OpInv

\* The steps of a start that only look or bind keep what they have in hand.
LEMMA StartMoves ==
  ASSUME OpInv, StartRefused \/ StartPreflighted \/ ListenerBinds \/ HostsUnwritable
  PROVE  OpInv'
<1>1. /\ stage \in {"start", "bind", "hosts"} /\ stage' \in {"bind", "hosts", "failed"}
      /\ UNCHANGED <<job, table, handle, hosts, file, listings, spoiled, torn>>
  BY DEF StartRefused, StartPreflighted, ListenerBinds, HostsUnwritable, Goto, ownVars
<1>2. OwnType' /\ Mapped' = Mapped /\ Served' = Served /\ Image' = Image
  BY <1>1, SameTable DEF OpInv
<1>3. /\ listener' \in {"none", "listening", "dead"}
      /\ Served # {} \/ stage' = "hosts" => listener' # "none"
      /\ stage' \in {"bind", "failed"} /\ Served = {} => listener' = "none"
      /\ stage' \in {"bind", "hosts"} => job.record.enabled
  <2>1. CASE StartRefused \/ StartPreflighted
    BY <2>1 DEF StartRefused, StartPreflighted, Goto, ownVars, OpInv, ListenInv
  <2>2. CASE ListenerBinds
    BY <2>2 DEF ListenerBinds, Goto, OpInv, ListenInv
  <2>3. CASE HostsUnwritable
    BY <2>3, StopFacts DEF HostsUnwritable, Goto, OpInv, ListenInv
  <2> QED
    BY <2>1, <2>2, <2>3
<1>4. Left' = Left /\ Held = {} /\ Held' = {}
  BY <1>1 DEF Left, Held, Begun
<1>5. FileType' /\ JobType'
  BY <1>1 DEF OpInv, FileType, JobType, Stages
<1>6. PlaceInv' /\ HostsInv'
  BY <1>1, <1>2, <1>4 DEF OpInv, PlaceInv, HostsInv, Begun
<1>7. MadeInv' /\ ListenInv'
  BY <1>1, <1>2, <1>3, <1>4 DEF OpInv, MadeInv, ListenInv
<1>8. RecordInv' /\ RestoreInv'
  BY <1>1, <1>2, <1>4 DEF OpInv, RecordInv, RestoreInv, Begun
<1> QED
  BY <1>2, <1>5, <1>6, <1>7, <1>8 DEF OpInv

\* A handle is made, and not yet inserted.
LEMMA MadeFacts ==
  ASSUME OpInv, stage \in {"start", "hosts"}, NEW h \in Handles, NEW contents \in Handle,
         Made(h, contents), UNCHANGED table
  PROVE  /\ OwnType' /\ Mapped' = Mapped /\ Served' = Served /\ Image' = Image
         /\ stage' = "insert" /\ job' \in InsertJob /\ job'.new = h /\ handle'[h] = contents
         /\ job'.kind = job.kind /\ job'.domain = job.domain /\ job'.record = job.record
         /\ job'.todo = job.todo
         /\ Left' = Left /\ Held = {} /\ Held' = {job.domain}
<1>1. job \in StartJob /\ Unused(h) /\ handle' = [handle EXCEPT ![h] = contents]
  BY DEF OpInv, JobType, Made
<1>2. OwnType' /\ Mapped' = Mapped /\ Served' = Served /\ Image' = Image
      /\ handle'[h] = contents
  BY <1>1, UnusedTaken DEF OpInv
<1>3. /\ stage' = "insert" /\ job' \in InsertJob /\ job'.new = h
      /\ job'.kind = job.kind /\ job'.domain = job.domain /\ job'.record = job.record
      /\ job'.todo = job.todo
  BY <1>1 DEF Made, Goto, StartJob, InsertJob
<1>4. Left' = Left /\ Held = {} /\ Held' = {job.domain}
  BY <1>3 DEF Left, Held, Begun
<1> QED
  BY <1>2, <1>3, <1>4

LEMMA Makes ==
  ASSUME OpInv, StartDisabled \/ HostsWritten
  PROVE  OpInv'
<1>1. /\ stage \in {"start", "hosts"} /\ UNCHANGED <<table, listener, file, listings, spoiled>>
      /\ job \in StartJob /\ job.domain \in Domains /\ job.record \in Record
  BY DEF StartDisabled, HostsWritten, OpInv, JobType, StartJob
<1>2. PICK h \in Handles, contents \in Handle :
        /\ Made(h, contents) /\ contents.port = job.record.port
        /\ contents.enabled => job.record.enabled
        /\ \/ /\ stage = "start" /\ ~contents.listens /\ UNCHANGED <<hosts, torn>>
           \/ /\ stage = "hosts" /\ contents.listens /\ job.record.enabled
              /\ hosts' = hosts \cup {job.domain} /\ torn' = torn \ {job.domain}
  <2>1. CASE StartDisabled
    <3> DEFINE found == job.domain \in hosts
               guessed == HostsFail \/ job.domain \in hosts
    <3>1. \E h \in Handles, managed \in {found, guessed} : Made(h, DisabledHandle(job.record, managed))
      BY <2>1 DEF StartDisabled
    <3>2. found \in BOOLEAN /\ guessed \in BOOLEAN
      OBVIOUS
    <3> HIDE DEF found, guessed
    <3>3. PICK h \in Handles, managed \in BOOLEAN : Made(h, DisabledHandle(job.record, managed))
      BY <3>1, <3>2, Zenon
    <3>4. DisabledHandle(job.record, managed) \in Handle
          /\ ~DisabledHandle(job.record, managed).listens
          /\ DisabledHandle(job.record, managed).port = job.record.port
          /\ ~DisabledHandle(job.record, managed).enabled
      BY <1>1, RecordFacts
    <3>5. stage = "start" /\ UNCHANGED <<hosts, torn>>
      BY <2>1 DEF StartDisabled
    <3> QED
      BY <3>3, <3>4, <3>5
  <2>2. CASE HostsWritten
    <3> DEFINE contents == [port |-> job.record.port, enabled |-> TRUE, listens |-> TRUE,
                            managed |-> TRUE, active |-> TRUE]
    <3>1. contents \in Handle /\ contents.listens /\ contents.port = job.record.port
      BY <1>1, RecordFacts DEF Handle
    <3>2. PICK h \in Handles : Made(h, contents)
      BY <2>2 DEF HostsWritten
    <3>3. /\ stage = "hosts" /\ job.record.enabled
          /\ hosts' = hosts \cup {job.domain} /\ torn' = torn \ {job.domain}
      BY <2>2 DEF HostsWritten, OpInv, ListenInv
    <3> HIDE DEF contents
    <3> QED
      BY <3>1, <3>2, <3>3
  <2> QED
    BY <2>1, <2>2
<1>3. /\ OwnType' /\ Mapped' = Mapped /\ Served' = Served /\ Image' = Image
      /\ stage' = "insert" /\ job' \in InsertJob /\ job'.new = h /\ handle'[h] = contents
      /\ job'.kind = job.kind /\ job'.domain = job.domain /\ job'.record = job.record
      /\ job'.todo = job.todo
      /\ Left' = Left /\ Held = {} /\ Held' = {job.domain}
  BY <1>1, <1>2, MadeFacts
<1>4. FileType' /\ JobType'
  BY <1>1, <1>3 DEF OpInv, FileType, JobType, Stages
<1>5. PlaceInv'
  BY <1>1, <1>3 DEF OpInv, PlaceInv, Begun
<1>6. HostsInv'
  BY <1>1, <1>2, <1>3 DEF OpInv, HostsInv
<1>7. RecordInv' /\ RestoreInv'
  BY <1>1, <1>3 DEF OpInv, RecordInv, RestoreInv, Begun
<1>8. MadeInv'
  BY <1>1, <1>2, <1>3 DEF OpInv, ListenInv, MadeInv
<1>9. ListenInv'
  BY <1>1, <1>2, <1>3 DEF OpInv, ListenInv
<1> QED
  BY <1>3, <1>4, <1>5, <1>6, <1>7, <1>8, <1>9 DEF OpInv

LEMMA Inserts ==
  ASSUME OpInv, Insert
  PROVE  OpInv'
<1> DEFINE d == job.domain
           new == job.new
<1>1. /\ stage = "insert" /\ table' = [table EXCEPT ![d] = new]
      /\ torn' = torn \ {d} /\ UNCHANGED <<handle, listener, hosts, file, listings, spoiled>>
      /\ job \in InsertJob /\ d \in Domains /\ new \in Handles /\ job.todo \in SUBSET Domains
      /\ handle[new] \in Handle /\ job.record \in Record
  BY DEF Insert, OpInv, JobType, MadeInv, InsertJob
<1> HIDE DEF d, new
<1>2. /\ OwnType' /\ Mapped' = Mapped \cup {d}
      /\ Served' = (Served \ {d}) \cup (IF handle[new].listens THEN {d} ELSE {})
      /\ Image'[d] = [port |-> handle[new].port, enabled |-> handle[new].enabled]
      /\ \A e \in Domains \ {d} : Image'[e] = Image[e]
  <2>1. handle'[new] = handle[new]
    BY <1>1
  <2> QED
    BY <1>1, <2>1, Placed DEF OpInv
<1>3. \/ job.kind = "create" /\ stage' = "save"
      \/ /\ job.kind = "switch" /\ stage' = "clean"
         /\ job' \in CleanJob /\ job'.kind = "switch" /\ job'.domain = d /\ job'.record = job.record
      \/ job.kind = "restore" /\ stage' = "next" /\ job' = job.todo
  <2>1. CASE job.kind = "create"
    BY <2>1 DEF Insert, Goto
  <2>2. CASE job.kind = "switch"
    <3>1. table[d] \in Handles
      BY <1>1, <2>2, RecordFacts DEF OpInv, PlaceInv, Begun, d
    <3>2. Goto("clean", [kind |-> "switch", domain |-> d, record |-> job.record, old |-> table[d]])
      BY <2>2 DEF Insert, d
    <3> QED
      BY <1>1, <2>2, <3>1, <3>2 DEF Goto, CleanJob
  <2>3. CASE job.kind = "restore"
    BY <2>3 DEF Insert, Goto
  <2> QED
    BY <1>1, <2>1, <2>2, <2>3 DEF InsertJob
<1>4. /\ job.kind = "switch" <=> d \in Mapped
      /\ job.kind = "restore" => d \notin job.todo /\ job.todo \cap Mapped = {}
      /\ Left = IF job.kind = "restore" THEN {d} \cup job.todo ELSE {}
      /\ Held = {d}
  BY <1>1 DEF OpInv, PlaceInv, Begun, Left, Held, d
<1>5. /\ Left' = IF job.kind = "restore" THEN job.todo ELSE {}
      /\ Held' = IF job.kind = "switch" THEN {d} ELSE {}
  BY <1>3 DEF Left, Held, Begun
<1>6. FileType' /\ JobType'
  BY <1>1, <1>3 DEF OpInv, FileType, JobType, Stages
<1>7. PlaceInv'
  BY <1>2, <1>3, <1>4, <1>5 DEF PlaceInv, Begun
<1>8. HostsInv'
  BY <1>1, <1>2, <1>4, <1>5 DEF OpInv, HostsInv
<1>9. RecordInv' /\ RestoreInv'
  <2>1. CASE job.kind # "restore"
    BY <1>1, <1>3, <2>1 DEF RecordInv, RestoreInv, Begun
  <2>2. CASE job.kind = "restore"
    <3>1. /\ ~spoiled /\ job.record = file[d]
          /\ handle[new].port = job.record.port
          /\ handle[new].enabled => job.record.enabled
      BY <1>1, <2>2 DEF OpInv, RestoreInv, MadeInv, Begun, d, new
    <3>2. RecordedAs(file'[d], Image'[d])
      <4>1. file[d] # NoRecord
        BY <1>1, <1>4, <2>2, <3>1 DEF OpInv, RecordInv
      <4>2. Image'[d] # NoRecord /\ Image'[d].port = handle[new].port
            /\ Image'[d].enabled = handle[new].enabled
        <5>1. Image'[d] \in Record
          BY <1>1, <1>2 DEF Handle, Record
        <5> QED
          BY <1>2, <5>1, DomainsAssumption
      <4> QED
        BY <1>1, <3>1, <4>1, <4>2 DEF RecordedAs
    <3>3. \A e \in Domains \ (Left \cup {d}) : RecordedAs(file'[e], Image'[e])
      BY <1>1, <1>2, <3>1 DEF OpInv, RecordInv
    <3> QED
      BY <1>1, <1>3, <1>4, <1>5, <2>2, <3>1, <3>2, <3>3 DEF OpInv, RecordInv, RestoreInv, Begun
  <2> QED
    BY <2>1, <2>2
<1>11. MadeInv'
  BY <1>3 DEF MadeInv
<1>10. ListenInv'
  <2>1. /\ handle[new].listens => job.record.enabled /\ d \in hosts /\ listener # "none"
        /\ ~handle[new].listens /\ Served = {} => listener = "none"
    BY <1>1 DEF OpInv, MadeInv, d, new
  <2>2. Served' \subseteq hosts' /\ (Served' # {} => listener' # "none")
    BY <1>1, <1>2, <2>1 DEF OpInv, ListenInv
  <2>3. stage' \in {"save", "next"} => (Served' = {} => listener' = "none")
    BY <1>1, <1>2, <1>3, <1>4, <2>1 DEF Served
  <2>4. stage' = "clean" /\ d \in Served' => job.record.enabled
    BY <1>2, <2>1
  <2> QED
    BY <1>1, <1>3, <2>2, <2>3, <2>4 DEF OpInv, ListenInv
<1> QED
  BY <1>2, <1>6, <1>7, <1>8, <1>9, <1>10, <1>11 DEF OpInv

LEMMA Cleaning ==
  ASSUME OpInv, Clean
  PROVE  OpInv'
<1> DEFINE d == job.domain
           cleans == Cleans(job.kind, job.record.enabled)
<1>1. /\ stage = "clean" /\ torn' = torn \cap hosts' /\ UNCHANGED <<table, handle, listener, file, listings, spoiled>>
      /\ job \in CleanJob /\ d \in Domains
  BY DEF Clean, OpInv, JobType, CleanJob
<1>2. PICK failed \in BOOLEAN :
        /\ Goto("unused", [kind |-> job.kind, domain |-> d, record |-> job.record, failed |-> failed])
        /\ \/ ~failed /\ hosts' = IF cleans THEN hosts \ {d} ELSE hosts
           \/ failed /\ cleans /\ UNCHANGED hosts
  BY DEF Clean
<1>3. /\ stage' = "unused" /\ job' \in UnusedJob
      /\ job'.kind = job.kind /\ job'.domain = d /\ job'.failed = failed
  BY <1>1, <1>2 DEF Goto, CleanJob, UnusedJob
<1>4. /\ job.kind = "switch" <=> d \in Mapped
      /\ d \in Served => job.record.enabled
      /\ cleans <=> job.kind = "remove" \/ ~job.record.enabled
  BY <1>1 DEF OpInv, PlaceInv, ListenInv, Cleans
<1>5. OwnType' /\ Mapped' = Mapped /\ Served' = Served
  BY <1>1, SameTable DEF OpInv
<1>6. Left = {} /\ Left' = {} /\ Held = {d} /\ Held' = IF failed THEN {d} ELSE {}
  BY <1>1, <1>3 DEF Left, Held, Begun
<1> HIDE DEF d, cleans
<1>7. d \in Served => d \in Mapped
  BY DEF Served
<1>8. FileType' /\ JobType'
  BY <1>1, <1>3 DEF OpInv, FileType, JobType, Stages
<1>9. PlaceInv'
  BY <1>1, <1>3, <1>4, <1>5, <1>6 DEF PlaceInv, Begun
<1>10. HostsInv'
  BY <1>1, <1>2, <1>4, <1>5, <1>6, <1>7 DEF OpInv, HostsInv, CleanJob
<1>11. RecordInv' /\ RestoreInv' /\ MadeInv'
  BY <1>3 DEF RecordInv, RestoreInv, Begun, MadeInv
<1>12. ListenInv'
  <2>1. Served \subseteq hosts'
    BY <1>1, <1>2, <1>4, <1>7 DEF OpInv, ListenInv
  <2> QED
    BY <1>1, <1>3, <1>5, <2>1 DEF OpInv, ListenInv
<1> QED
  BY <1>5, <1>8, <1>9, <1>10, <1>11, <1>12 DEF OpInv

\* A handle of a disabled mapping is put at a domain that has none.
LEMMA PlacedDisabled ==
  ASSUME OwnType, NEW d \in Domains \ Mapped, NEW h \in Handles, NEW r \in Record,
         NEW managed \in BOOLEAN, Unused(h), handle' = [handle EXCEPT ![h] = DisabledHandle(r, managed)],
         table' = [table EXCEPT ![d] = h]
  PROVE  /\ OwnType' /\ Mapped' = Mapped \cup {d} /\ Served' = Served
         /\ Image'[d] = [port |-> r.port, enabled |-> FALSE]
         /\ \A e \in Domains \ {d} : Image'[e] = Image[e]
<1> DEFINE contents == DisabledHandle(r, managed)
<1>1. contents \in Handle /\ ~contents.listens /\ contents.port = r.port /\ contents.enabled = FALSE
  BY RecordFacts DEF DisabledHandle
<1> HIDE DEF contents
<1>2. handle' = [handle EXCEPT ![h] = contents]
  BY DEF contents
<1>3. handle'[h] = contents
  BY <1>2 DEF OwnType
<1>4. /\ OwnType' /\ Mapped' = Mapped \cup {d}
      /\ Served' = (Served \ {d}) \cup (IF handle'[h].listens THEN {d} ELSE {})
      /\ Image'[d] = [port |-> handle'[h].port, enabled |-> handle'[h].enabled]
      /\ \A e \in Domains \ {d} : Image'[e] = Image[e]
  BY <1>1, <1>2, Placed
<1> QED
  BY <1>1, <1>3, <1>4 DEF Served

LEMMA CleaningEnds ==
  ASSUME OpInv, Cleaned
  PROVE  OpInv'
<1> DEFINE d == job.domain
<1>1. /\ stage = "unused" /\ stage' = "save" /\ StopIfUnused /\ UNCHANGED <<hosts, file, listings, spoiled, torn>>
      /\ job \in UnusedJob /\ d \in Domains /\ job.record \in Record
  BY DEF Cleaned, Goto, OpInv, JobType, UnusedJob
<1>2. job.kind = "switch" <=> d \in Mapped
  BY <1>1 DEF OpInv, PlaceInv
<1>3. OwnType' /\ Mapped \subseteq Mapped' /\ (job.failed => d \in Mapped') /\ Served' = Served
  <2>1. CASE ~job.failed /\ UNCHANGED <<table, handle>>
    BY <2>1, SameTable DEF OpInv
  <2>2. CASE /\ job.failed /\ job.kind = "switch" /\ UNCHANGED table
             /\ handle' = [handle EXCEPT ![table[d]].managed = TRUE]
    <3> DEFINE h == table[d]
    <3>1. h \in Handles /\ handle[h] \in Handle /\ d \in Mapped
      BY <1>1, <1>2, <2>2, RecordFacts DEF OpInv, OwnType
    <3>2. [handle[h] EXCEPT !.managed = TRUE] \in Handle
          /\ [handle[h] EXCEPT !.managed = TRUE].listens = handle[h].listens
      BY <3>1 DEF Handle
    <3> HIDE DEF h
    <3>3. handle' = [handle EXCEPT ![h].managed = TRUE] /\ UNCHANGED table
      BY <2>2 DEF h
    <3>4. /\ handle' \in [Handles -> Handle \cup {NoRecord}]
          /\ \A x \in Handles : handle[x] \in Handle =>
               handle'[x] \in Handle /\ handle'[x].listens = handle[x].listens
      <4>1. handle' = [handle EXCEPT ![h] = [handle[h] EXCEPT !.managed = TRUE]]
        BY <3>3
      <4> QED
        BY <3>1, <3>2, <4>1 DEF OpInv, OwnType
    <3>5. OwnType' /\ Mapped' = Mapped /\ Served' = Served
      BY <3>3, <3>4, SameServed, RecordFacts DEF OpInv, OwnType, Mapped
    <3> QED
      BY <1>2, <2>2, <3>5
  <2>3. CASE /\ job.failed /\ job.kind = "remove"
             /\ \E h \in Handles : /\ Unused(h)
                                  /\ handle' = [handle EXCEPT ![h] = DisabledHandle(job.record, TRUE)]
                                  /\ table' = [table EXCEPT ![d] = h]
    BY <1>1, <1>2, <2>3, PlacedDisabled DEF OpInv
  <2> QED
    BY <2>1, <2>2, <2>3 DEF Cleaned
<1>4. Left = {} /\ Left' = {} /\ Held = (IF job.failed THEN {d} ELSE {}) /\ Held' = {}
  BY <1>1 DEF Left, Held, Begun
<1> HIDE DEF d
<1>5. FileType' /\ JobType'
  BY <1>1 DEF OpInv, FileType, JobType, Stages
<1>6. PlaceInv' /\ HostsInv'
  BY <1>1, <1>3, <1>4 DEF OpInv, PlaceInv, HostsInv, Begun
<1>7. RecordInv' /\ RestoreInv' /\ MadeInv' /\ ListenInv'
  BY <1>1, <1>3, StopFacts DEF OpInv, RecordInv, RestoreInv, Begun, MadeInv, ListenInv
<1> QED
  BY <1>3, <1>5, <1>6, <1>7 DEF OpInv

LEMMA StartFails ==
  ASSUME OpInv, Failed
  PROVE  OpInv'
<1> DEFINE d == job.domain
<1>1. /\ stage = "failed" /\ UNCHANGED <<listener, hosts, file, listings, spoiled, torn>>
      /\ job \in StartJob /\ d \in Domains /\ job.record \in Record /\ job.todo \in SUBSET Domains
  BY DEF Failed, OpInv, JobType, StartJob
<1>2. /\ job.kind = "restore" => d \notin job.todo /\ d \notin Mapped /\ job.todo \cap Mapped = {}
      /\ Left = IF job.kind = "restore" THEN {d} \cup job.todo ELSE {}
      /\ Held = {}
  BY <1>1 DEF OpInv, PlaceInv, Begun, Left, Held
<1>3. CASE job.kind # "restore"
  <2>1. stage' = "idle" /\ OwnType' /\ Mapped' = Mapped /\ Served' = Served /\ Image' = Image
    BY <1>3, SameTable DEF Failed, Goto, OpInv
  <2>2. Left' = {} /\ Held' = {}
    BY <2>1 DEF Left, Held, Begun
  <2>3. FileType' /\ JobType' /\ PlaceInv' /\ HostsInv'
    BY <1>1, <1>2, <1>3, <2>1, <2>2 DEF OpInv, FileType, JobType, Stages, PlaceInv, HostsInv, Begun
  <2>4. MadeInv' /\ ListenInv'
    BY <1>1, <1>2, <1>3, <2>1, <2>2 DEF OpInv, MadeInv, ListenInv
  <2>5. RecordInv' /\ RestoreInv'
    BY <1>1, <1>2, <1>3, <2>1, <2>2 DEF OpInv, RecordInv, RestoreInv, Begun
  <2> QED
    BY <2>1, <2>3, <2>4, <2>5 DEF OpInv
<1>4. CASE job.kind = "restore"
  <2>1. stage' = "next" /\ job' = job.todo
    BY <1>4 DEF Failed, Goto
  <2>2. /\ OwnType' /\ Mapped' = Mapped \cup {d} /\ Served' = Served
        /\ Image'[d] = [port |-> job.record.port, enabled |-> FALSE]
        /\ \A e \in Domains \ {d} : Image'[e] = Image[e]
    <3> DEFINE found == d \in hosts
               guessed == ~HostsFail /\ d \in hosts
    <3>1. \E h \in Handles, managed \in {found, guessed} :
            /\ Unused(h)
            /\ handle' = [handle EXCEPT ![h] = DisabledHandle(job.record, managed)]
            /\ table' = [table EXCEPT ![d] = h]
      BY <1>4 DEF Failed
    <3>2. found \in BOOLEAN /\ guessed \in BOOLEAN
      OBVIOUS
    <3> HIDE DEF found, guessed
    <3>3. PICK h \in Handles, managed \in BOOLEAN :
            /\ Unused(h)
            /\ handle' = [handle EXCEPT ![h] = DisabledHandle(job.record, managed)]
            /\ table' = [table EXCEPT ![d] = h]
      BY <3>1, <3>2, Zenon
    <3> QED
      BY <1>1, <1>2, <1>4, <3>3, PlacedDisabled DEF OpInv
  <2>3. Left' = job.todo /\ Held' = {}
    BY <2>1 DEF Left, Held, Begun
  <2>4. FileType' /\ JobType' /\ PlaceInv'
    BY <1>1, <1>2, <1>4, <2>1, <2>2, <2>3 DEF OpInv, FileType, JobType, Stages, PlaceInv, Begun
  <2>5. HostsInv'
    BY <1>1, <1>2, <1>4, <2>1, <2>2, <2>3 DEF OpInv, HostsInv
  <2>7. ~spoiled /\ job.record = file[d] /\ file[d] # NoRecord
    BY <1>1, <1>2, <1>4 DEF OpInv, RestoreInv, RecordInv, Begun
  <2>8. RecordedAs(file'[d], Image'[d])
    <3>1. Image'[d] \in Record
      BY <1>1, <2>2 DEF Record
    <3>2. Image'[d] # NoRecord
      BY <3>1, DomainsAssumption
    <3>3. Image'[d].port = job.record.port /\ ~Image'[d].enabled /\ file'[d] = file[d]
      BY <1>1, <2>2
    <3> HIDE DEF d
    <3> QED
      BY <2>7, <3>2, <3>3 DEF RecordedAs
  <2>9. \A e \in Domains \ (Left \cup {d}) : RecordedAs(file'[e], Image'[e])
    BY <1>1, <2>2, <2>7 DEF OpInv, RecordInv
  <2>10. RecordInv' /\ RestoreInv'
    BY <1>1, <1>2, <1>4, <2>1, <2>3, <2>7, <2>8, <2>9 DEF OpInv, RecordInv, RestoreInv, Begun
  <2>6. MadeInv' /\ ListenInv'
    BY <1>1, <2>1, <2>2 DEF OpInv, MadeInv, ListenInv
  <2> QED
    BY <2>2, <2>4, <2>5, <2>6, <2>10 DEF OpInv
<1> QED
  BY <1>3, <1>4

-----------------------------------------------------------------------------
(* The file *)

LEMMA Saves ==
  ASSUME OpInv, Save \/ ListElsewhere \/ SaveElsewhere
  PROVE  OpInv'
<1>1. /\ UNCHANGED <<table, handle, listener, hosts, torn>>
      /\ \/ stage = "save" /\ stage' = "idle"
         \/ ~Restoring /\ UNCHANGED <<stage, job>>
  BY DEF Save, ListElsewhere, SaveElsewhere, ownVars, opVars, Goto
<1>2. OwnType' /\ Mapped' = Mapped /\ Served' = Served /\ Image' = Image
  BY <1>1, SameTable DEF OpInv
<1>3. Left = {} /\ Left' = {} /\ Held' = Held
  BY <1>1 DEF Left, Held, Begun, Restoring
<1>4. Image \in [Domains -> Record \cup {NoRecord}]
      /\ \A d \in Domains : RecordedAs(Image[d], Image[d])
  BY ImageTyped DEF OpInv
<1>5. FileType' /\ (file' = Image \/ spoiled' \/ UNCHANGED <<file, spoiled, stage>>)
  <2>1. CASE Save
    BY <1>4, <2>1 DEF Save, OpInv, FileType
  <2>2. CASE ListElsewhere
    <3>1. UNCHANGED <<file, spoiled, stage>> /\ listings' = listings \cup {Image} /\ ~Restoring
      BY <2>2 DEF ListElsewhere, opVars
    <3> QED
      BY <1>3, <1>4, <3>1 DEF OpInv, FileType
  <2>3. CASE SaveElsewhere
    <3>1. PICK l \in listings :
            /\ listings' = listings \ {l}
            /\ \/ file' = l /\ spoiled' = (l # Image)
               \/ DiskFails /\ UNCHANGED <<file, spoiled>>
      BY <2>3 DEF SaveElsewhere
    <3>2. UNCHANGED stage /\ l \in [Domains -> Record \cup {NoRecord}]
      BY <2>3 DEF SaveElsewhere, opVars, OpInv, FileType
    <3> QED
      BY <3>1, <3>2 DEF OpInv, FileType
  <2> QED
    BY <2>1, <2>2, <2>3
<1>6. JobType'
  BY <1>1 DEF OpInv, JobType, Stages
<1>7. PlaceInv' /\ HostsInv'
  BY <1>1, <1>2, <1>3 DEF OpInv, PlaceInv, HostsInv, Begun
<1>8. MadeInv' /\ ListenInv'
  BY <1>1, <1>2, <1>3 DEF OpInv, MadeInv, ListenInv
<1>9. RecordInv'
  BY <1>1, <1>2, <1>3, <1>4, <1>5 DEF OpInv, RecordInv
<1>10. RestoreInv'
  BY <1>1 DEF RestoreInv, Restoring, Begun
<1> QED
  BY <1>2, <1>5, <1>6, <1>7, <1>8, <1>9, <1>10 DEF OpInv

LEMMA Restarts ==
  ASSUME OpInv, Restart
  PROVE  OpInv'
<1>1. /\ table' = [d \in Domains |-> NoHandle] /\ handle' = [h \in Handles |-> NoRecord]
      /\ listener' = "none" /\ stage' = "next" /\ job' = Recorded
      /\ torn' = {d \in hosts : file[d] = NoRecord} /\ UNCHANGED <<hosts, file>>
      /\ listings' = {} /\ spoiled' = FALSE
  BY DEF Restart, Goto, Recorded
<1>2. OwnType' /\ Mapped' = {} /\ Served' = {}
  BY <1>1 DEF OwnType, Mapped, Served
<1>3. Left' = Recorded /\ Held' = {} /\ Recorded' = Recorded /\ Recorded \in SUBSET Domains
  BY <1>1 DEF Left, Held, Begun, Recorded
<1>4. FileType' /\ JobType' /\ PlaceInv'
  BY <1>1, <1>2, <1>3 DEF OpInv, FileType, JobType, Stages, PlaceInv, Begun
<1>5. HostsInv'
  BY <1>1, <1>3 DEF OpInv, HostsInv, Recorded
<1>6. MadeInv' /\ ListenInv'
  BY <1>1, <1>2, <1>3 DEF MadeInv, ListenInv
<1>7. \A d \in Domains : Image'[d] = NoRecord
  BY <1>2 DEF Image
<1>8. RecordInv' /\ RestoreInv'
  BY <1>1, <1>3, <1>7 DEF RecordInv, RestoreInv, Recorded, RecordedAs, Begun
<1> QED
  BY <1>2, <1>4, <1>5, <1>6, <1>8 DEF OpInv

LEMMA Restores ==
  ASSUME OpInv, RestoreNext
  PROVE  OpInv'
<1>1. /\ stage = "next" /\ UNCHANGED <<table, handle, listener, hosts, file, listings, spoiled, torn>>
      /\ job \in SUBSET Domains /\ Left = job /\ Held = {}
  BY DEF RestoreNext, OpInv, JobType, Left, Held, ownVars
<1>2. OwnType' /\ Mapped' = Mapped /\ Served' = Served /\ Image' = Image
  BY <1>1, SameTable DEF OpInv
<1>3. \/ /\ stage' = "start" /\ job' \in StartJob /\ job'.kind = "restore" /\ job'.domain \in job
         /\ job'.record = file[job'.domain]
         /\ job'.todo = job \ {job'.domain}
      \/ stage' = "idle" /\ job = {}
  <2>1. ASSUME NEW d \in job,
               Goto("start", [kind |-> "restore", domain |-> d, record |-> file[d], todo |-> job \ {d}])
        PROVE  /\ stage' = "start" /\ job' \in StartJob /\ job'.kind = "restore"
               /\ job'.domain = d /\ job'.todo = job \ {d}
               /\ job'.record = file[d]
    <3>1. d \in Domains /\ file[d] \in Record
      BY <1>1, <2>1 DEF OpInv, RecordInv, RestoreInv, FileType
    <3> QED
      BY <1>1, <2>1, <3>1 DEF Goto, StartJob
  <2> QED
    BY <2>1 DEF RestoreNext, Goto
<1>4. Left' = Left /\ Held' = {}
  BY <1>1, <1>3 DEF Left, Held, Begun
<1>5. FileType' /\ JobType'
  BY <1>1, <1>3 DEF OpInv, FileType, JobType, Stages
<1>6. PlaceInv' /\ HostsInv'
  BY <1>1, <1>2, <1>3, <1>4 DEF OpInv, PlaceInv, HostsInv, Begun
<1>7. MadeInv' /\ ListenInv'
  BY <1>1, <1>2, <1>3, <1>4 DEF OpInv, MadeInv, ListenInv
<1>8. RecordInv' /\ RestoreInv'
  BY <1>1, <1>2, <1>3, <1>4 DEF OpInv, RecordInv, RestoreInv, Begun
<1> QED
  BY <1>2, <1>5, <1>6, <1>7, <1>8 DEF OpInv

-----------------------------------------------------------------------------
(* The listener and its connections *)

LEMMA ListenerEnds ==
  ASSUME OpInv, ListenerFails
  PROVE  OpInv'
<1>1. /\ listener = "listening" /\ listener' = "dead"
      /\ UNCHANGED <<table, hosts, file, listings, spoiled, stage, job, torn>>
      /\ handle' = [h \in Handles |-> IF \E d \in Domains : table[d] = h
                                      THEN [handle[h] EXCEPT !.active = FALSE] ELSE handle[h]]
  BY DEF ListenerFails, opVars
<1>2. \A x \in Handle : /\ [x EXCEPT !.active = FALSE] \in Handle
                         /\ [x EXCEPT !.active = FALSE].listens = x.listens
                         /\ [x EXCEPT !.active = FALSE].port = x.port
                         /\ [x EXCEPT !.active = FALSE].enabled = x.enabled
  BY DEF Handle
<1>3. \A h \in Handles : handle[h] \in Handle =>
        handle'[h] \in Handle /\ handle'[h].listens = handle[h].listens
        /\ handle'[h].port = handle[h].port /\ handle'[h].enabled = handle[h].enabled
  BY <1>1, <1>2
<1>4. handle' \in [Handles -> Handle \cup {NoRecord}]
  <2>1. ASSUME NEW h \in Handles
        PROVE  (\E d \in Domains : table[d] = h) => handle[h] \in Handle
    BY DomainsAssumption DEF OpInv, OwnType, Mapped
  <2>2. \A h \in Handles : handle'[h] \in Handle \cup {NoRecord}
    BY <1>1, <1>2, <2>1 DEF OpInv, OwnType
  <2> QED
    BY <1>1, <2>2
<1>5. OwnType' /\ Mapped' = Mapped /\ Served' = Served
  <2>1. \A d \in Mapped : table[d] \in Handles /\ handle[table[d]] \in Handle
    BY RecordFacts DEF OpInv, OwnType, Mapped
  <2> QED
    BY <1>1, <1>3, <1>4, <2>1, SameServed DEF OpInv
<1>6. Left' = Left /\ Held' = Held /\ Begun' = Begun
  BY <1>1 DEF Left, Held, Begun
<1>11. Image' = Image
  <2>1. \A d \in Mapped : table[d] \in Handles /\ handle[table[d]] \in Handle
    BY RecordFacts DEF OpInv, OwnType, Mapped
  <2> QED
    BY <1>1, <1>3, <1>5, <2>1 DEF Image
<1>7. FileType' /\ JobType'
  BY <1>1 DEF OpInv, FileType, JobType
<1>8. PlaceInv' /\ HostsInv' /\ RecordInv' /\ RestoreInv'
  BY <1>1, <1>5, <1>6, <1>11 DEF OpInv, PlaceInv, HostsInv, RecordInv, RestoreInv
<1>9. MadeInv'
  <2>1. stage = "insert" => job.new \in Handles /\ handle[job.new] \in Handle
    BY DEF OpInv, MadeInv, JobType, InsertJob
  <2>2. stage = "insert" =>
          /\ handle'[job.new] \in Handle /\ handle'[job.new].listens = handle[job.new].listens
          /\ handle'[job.new].port = handle[job.new].port
          /\ handle'[job.new].enabled = handle[job.new].enabled
    BY <1>3, <2>1
  <2>3. listener # "none" /\ listener' # "none" /\ UNCHANGED <<stage, job, hosts>>
    BY <1>1
  <2>4. stage = "insert" => Served # {} \/ handle[job.new].listens
    BY <2>3 DEF OpInv, MadeInv
  <2>5. stage = "insert" =>
          /\ handle[job.new].port = job.record.port
          /\ handle[job.new].enabled => job.record.enabled
          /\ handle[job.new].listens => job.record.enabled /\ job.domain \in hosts
    BY DEF OpInv, MadeInv
  <2> QED
    BY <1>5, <2>2, <2>3, <2>4, <2>5 DEF MadeInv
<1>10. ListenInv'
  BY <1>1, <1>5 DEF OpInv, ListenInv
<1> QED
  BY <1>5, <1>7, <1>8, <1>9, <1>10 DEF OpInv

LEMMA SameOp ==
  ASSUME OpInv, UNCHANGED <<ownVars, fileVars, opVars, torn>>
  PROVE  OpInv'
<1>1. UNCHANGED <<table, handle, listener, hosts, file, listings, spoiled, stage, job, torn>>
  BY DEF ownVars, opVars
<1>2. OwnType' /\ Mapped' = Mapped /\ Served' = Served /\ Image' = Image
  BY <1>1, SameTable DEF OpInv
<1>3. Left' = Left /\ Held' = Held /\ Begun' = Begun
  BY <1>1 DEF Left, Held, Begun
<1>4. FileType' /\ JobType' /\ PlaceInv' /\ HostsInv' /\ RecordInv' /\ RestoreInv'
  BY <1>1, <1>2, <1>3 DEF OpInv, FileType, JobType, PlaceInv, HostsInv, RecordInv, RestoreInv
<1>5. MadeInv' /\ ListenInv'
  BY <1>1, <1>2 DEF OpInv, MadeInv, ListenInv
<1> QED
  BY <1>2, <1>4, <1>5 DEF OpInv

ConnStages == {"new", "pending", "dispatched", "opening", "relaying", "closed", "cut"}

\* The tunnels the gauge counts.
Counted == {c \in Conns : conn[c] \in {"relaying", "cut"}}

LEMMA ConnsKept ==
  ASSUME ConnInv, UNCHANGED <<conn, via, gauge>>, cancelled' \subseteq Conns
  PROVE  ConnInv'
  BY DEF ConnInv, GaugeCounts

\* A connection moves on, with the gauge.
LEMMA ConnMoves ==
  ASSUME ConnInv, UNCHANGED cancelled, NEW c \in Conns, NEW s \in ConnStages,
         conn' = [conn EXCEPT ![c] = s],
         via' \in [Conns -> Handles \cup {NoHandle}], \A e \in Conns \ {c} : via'[e] = via[e],
         via'[c] # NoHandle <=> s \in {"dispatched", "opening", "relaying"},
         \/ /\ UNCHANGED gauge
            /\ conn[c] \in {"relaying", "cut"} <=> s \in {"relaying", "cut"}
         \/ /\ gauge' = gauge + 1
            /\ conn[c] \notin {"relaying", "cut"} /\ s \in {"relaying", "cut"}
         \/ /\ gauge' = gauge - 1
            /\ conn[c] \in {"relaying", "cut"} /\ s \notin {"relaying", "cut"}
  PROVE  ConnInv'
<1>1. /\ conn' \in [Conns -> ConnStages] /\ conn'[c] = s
      /\ \A e \in Conns \ {c} : conn'[e] = conn[e]
  BY DEF ConnInv, ConnStages
<1>2. /\ IsFiniteSet(Counted) /\ Cardinality(Counted) \in Nat /\ gauge = Cardinality(Counted)
  BY DomainsAssumption, FS_Subset, FS_CardinalityType DEF Counted, ConnInv, GaugeCounts
<1>3. gauge' = Cardinality(Counted')
  <2>1. CASE UNCHANGED gauge /\ (conn[c] \in {"relaying", "cut"} <=> s \in {"relaying", "cut"})
    BY <1>1, <1>2, <2>1 DEF Counted
  <2>2. CASE gauge' = gauge + 1 /\ conn[c] \notin {"relaying", "cut"} /\ s \in {"relaying", "cut"}
    <3>1. Counted' = Counted \cup {c} /\ c \notin Counted
      BY <1>1, <2>2 DEF Counted
    <3>2. Cardinality(Counted \cup {c}) = Cardinality(Counted) + 1
      BY <1>2, <3>1, FS_AddElement
    <3> QED
      BY <1>2, <2>2, <3>1, <3>2
  <2>3. CASE gauge' = gauge - 1 /\ conn[c] \in {"relaying", "cut"} /\ s \notin {"relaying", "cut"}
    <3>1. Counted' = Counted \ {c} /\ c \in Counted
      BY <1>1, <2>3 DEF Counted
    <3>2. Cardinality(Counted \ {c}) = Cardinality(Counted) - 1
      BY <1>2, <3>1, FS_RemoveElement
    <3> QED
      BY <1>2, <2>3, <3>1, <3>2
  <2> QED
    BY <2>1, <2>2, <2>3
<1>4. \A e \in Conns : via'[e] # NoHandle <=> conn'[e] \in {"dispatched", "opening", "relaying"}
  BY <1>1 DEF ConnInv
<1> QED
  BY <1>1, <1>3, <1>4 DEF ConnInv, ConnStages, Counted, GaugeCounts

LEMMA ConnSteps ==
  ASSUME IInv, NEW c \in Conns,
         \/ ConnAccepted(c) \/ ConnRefused(c) \/ ConnDispatched(c) \/ ConnAdmitted(c)
         \/ TunnelOpens(c) \/ TunnelFails(c) \/ TunnelEnds(c) \/ TunnelCut(c)
  PROVE  ConnInv'
<1>1. ConnInv /\ via \in [Conns -> Handles \cup {NoHandle}]
      /\ (via[c] # NoHandle <=> conn[c] \in {"dispatched", "opening", "relaying"})
  BY DEF IInv, ConnInv
<1>2. NoHandle \notin Handles
  BY DomainsAssumption
<1>3. CASE ConnAccepted(c)
  <2>1. PICK s \in {"pending", "closed"} : conn' = [conn EXCEPT ![c] = s]
    BY <1>3 DEF ConnAccepted
  <2>2. conn[c] = "new" /\ UNCHANGED <<via, cancelled, gauge>>
    BY <1>3 DEF ConnAccepted
  <2> QED
    BY <1>1, <2>1, <2>2, ConnMoves DEF ConnStages
<1>4. CASE ConnRefused(c)
  <2>1. conn[c] = "pending" /\ conn' = [conn EXCEPT ![c] = "closed"]
        /\ UNCHANGED <<via, cancelled, gauge>>
    BY <1>4 DEF ConnRefused
  <2> QED
    BY <1>1, <2>1, ConnMoves DEF ConnStages
<1>5. CASE ConnDispatched(c)
  <2>1. PICK d \in Mapped : via' = [via EXCEPT ![c] = table[d]]
    BY <1>5 DEF ConnDispatched
  <2>2. table[d] \in Handles
    BY RecordFacts DEF IInv, OpInv, Mapped
  <2>3. conn[c] = "pending" /\ conn' = [conn EXCEPT ![c] = "dispatched"]
        /\ UNCHANGED <<cancelled, gauge>>
    BY <1>5 DEF ConnDispatched
  <2> QED
    BY <1>1, <1>2, <2>1, <2>2, <2>3, ConnMoves DEF ConnStages
<1>6. CASE ConnAdmitted(c)
  <2>1. conn[c] = "dispatched" /\ UNCHANGED <<cancelled, gauge>>
    BY <1>6 DEF ConnAdmitted
  <2>2. CASE conn' = [conn EXCEPT ![c] = "opening"] /\ UNCHANGED via
    BY <1>1, <2>1, <2>2, ConnMoves DEF ConnStages
  <2>3. CASE conn' = [conn EXCEPT ![c] = "closed"] /\ via' = [via EXCEPT ![c] = NoHandle]
    BY <1>1, <2>1, <2>3, ConnMoves DEF ConnStages
  <2> QED
    BY <1>6, <2>2, <2>3 DEF ConnAdmitted
<1>7. CASE TunnelOpens(c)
  <2>1. conn[c] = "opening" /\ conn' = [conn EXCEPT ![c] = "relaying"] /\ gauge' = gauge + 1
        /\ UNCHANGED <<via, cancelled>>
    BY <1>7 DEF TunnelOpens
  <2> QED
    BY <1>1, <2>1, ConnMoves DEF ConnStages
<1>8. CASE TunnelFails(c)
  <2>1. conn[c] = "opening" /\ conn' = [conn EXCEPT ![c] = "closed"]
        /\ via' = [via EXCEPT ![c] = NoHandle] /\ UNCHANGED <<cancelled, gauge>>
    BY <1>8 DEF TunnelFails
  <2> QED
    BY <1>1, <2>1, ConnMoves DEF ConnStages
<1>9. CASE TunnelEnds(c)
  <2>1. conn[c] = "relaying" /\ conn' = [conn EXCEPT ![c] = "closed"]
        /\ via' = [via EXCEPT ![c] = NoHandle] /\ gauge' = gauge - 1 /\ UNCHANGED cancelled
    BY <1>9 DEF TunnelEnds
  <2> QED
    BY <1>1, <2>1, ConnMoves DEF ConnStages
<1>10. CASE TunnelCut(c)
  <2>1. PICK s \in {"cut", "closed"} :
          /\ conn' = [conn EXCEPT ![c] = s] /\ conn[c] \in {"opening", "relaying"}
          /\ conn[c] = "relaying" <=> s = "cut"
    BY <1>10 DEF TunnelCut
  <2>2. via' = [via EXCEPT ![c] = NoHandle] /\ UNCHANGED <<cancelled, gauge>>
    BY <1>10 DEF TunnelCut
  <2> QED
    BY <1>1, <2>1, <2>2, ConnMoves DEF ConnStages
<1> QED
  BY <1>3, <1>4, <1>5, <1>6, <1>7, <1>8, <1>9, <1>10

LEMMA ConnRestart ==
  ASSUME ConnInv, Restart
  PROVE  ConnInv'
<1>1. /\ conn' = [c \in Conns |-> IF conn[c] = "new" THEN "new" ELSE "closed"]
      /\ via' = [c \in Conns |-> NoHandle] /\ cancelled' = {} /\ gauge' = 0
  BY DEF Restart
<1>2. \A c \in Conns : conn'[c] \in {"new", "closed"} /\ via'[c] = NoHandle
  BY <1>1
<1>3. {c \in Conns : conn'[c] \in {"relaying", "cut"}} = {}
  BY <1>2
<1>4. gauge' = Cardinality({c \in Conns : conn'[c] \in {"relaying", "cut"}})
  BY <1>1, <1>3, FS_EmptySet
<1> QED
  BY <1>1, <1>2, <1>4 DEF ConnInv, GaugeCounts

-----------------------------------------------------------------------------
(* The invariant *)

LEMMA InitHolds == Init => IInv
<1> SUFFICES ASSUME Init PROVE IInv
  OBVIOUS
<1>1. OwnType /\ FileType /\ Mapped = {} /\ Served = {}
  BY DEF Init, OwnType, FileType, Mapped, Served
<1>2. Left = {} /\ Held = {} /\ stage = "idle" /\ \A d \in Domains : Image[d] = NoRecord
  BY <1>1 DEF Init, Left, Held, Begun, Image
<1>3. JobType /\ PlaceInv /\ HostsInv /\ RecordInv /\ RestoreInv /\ MadeInv /\ ListenInv
  BY <1>1, <1>2 DEF Init, JobType, Stages, PlaceInv, Begun, HostsInv, RecordInv,
                        RestoreInv, RecordedAs, MadeInv, ListenInv
<1>4. ConnInv
  <2>1. {c \in Conns : conn[c] \in {"relaying", "cut"}} = {}
    BY DEF Init
  <2>2. gauge = Cardinality({c \in Conns : conn[c] \in {"relaying", "cut"}})
    BY <2>1, FS_EmptySet DEF Init
  <2> QED
    BY <2>2 DEF Init, ConnInv, GaugeCounts
<1> QED
  BY <1>1, <1>3, <1>4 DEF IInv, OpInv

\* The steps of an operation, but a start of the process: they leave the
\* connections alone, or cancel some.
LEMMA OpSteps ==
  ASSUME IInv,
         \/ CreateBegins \/ SwitchBegins \/ RetargetBegins \/ RemoveBegins
         \/ Retarget \/ StartDisabled \/ StartRefused \/ StartPreflighted
         \/ ListenerBinds \/ HostsWritten \/ HostsUnwritable
         \/ Insert \/ Clean \/ Cleaned \/ Failed \/ Save \/ ListElsewhere \/ SaveElsewhere
         \/ RestoreNext \/ ListenerFails
  PROVE  IInv'
<1>1. OpInv'
  BY Begins, RemoveStarts, Retargets, StartMoves, Makes, Inserts, Cleaning, CleaningEnds,
     StartFails, Saves, Restores, ListenerEnds DEF IInv
<1>2. UNCHANGED <<conn, via, gauge>> /\ cancelled' \subseteq Conns
  <2>1. CASE \/ CreateBegins \/ SwitchBegins \/ RetargetBegins \/ RemoveBegins
             \/ Retarget \/ StartDisabled \/ StartRefused \/ StartPreflighted
    BY <2>1 DEF CreateBegins, SwitchBegins, RetargetBegins, RemoveBegins, Retarget, StartDisabled,
                StartRefused, StartPreflighted, connVars, IInv, ConnInv
  <2>2. CASE \/ ListenerBinds \/ HostsWritten \/ Insert \/ Clean \/ Failed \/ Save
             \/ ListElsewhere \/ SaveElsewhere \/ RestoreNext \/ ListenerFails
    BY <2>2 DEF ListenerBinds, HostsWritten, Insert, Clean, Failed, Save, ListElsewhere,
                SaveElsewhere, RestoreNext, ListenerFails, connVars, IInv, ConnInv
  <2>3. CASE HostsUnwritable \/ Cleaned
    BY <2>3, StopFacts DEF HostsUnwritable, Cleaned, IInv, ConnInv
  <2> QED
    BY <2>1, <2>2, <2>3
<1> QED
  BY <1>1, <1>2, ConnsKept DEF IInv

LEMMA NextHolds == IInv /\ [Next]_vars => IInv'
<1> SUFFICES ASSUME IInv, [Next]_vars PROVE IInv'
  OBVIOUS
<1>1. CASE \/ CreateBegins \/ SwitchBegins \/ RetargetBegins \/ RemoveBegins
           \/ Retarget \/ StartDisabled \/ StartRefused \/ StartPreflighted
           \/ ListenerBinds \/ HostsWritten \/ HostsUnwritable
           \/ Insert \/ Clean \/ Cleaned \/ Failed \/ Save \/ ListElsewhere \/ SaveElsewhere
           \/ RestoreNext \/ ListenerFails
  BY <1>1, OpSteps
<1>2. CASE Restart
  BY <1>2, Restarts, ConnRestart DEF IInv
<1>3. ASSUME NEW c \in Conns,
             \/ ConnAccepted(c) \/ ConnRefused(c) \/ ConnDispatched(c) \/ ConnAdmitted(c)
             \/ TunnelOpens(c) \/ TunnelFails(c) \/ TunnelEnds(c) \/ TunnelCut(c)
      PROVE  IInv'
  <2>1. UNCHANGED <<ownVars, fileVars, opVars, torn>>
    BY <1>3 DEF ConnAccepted, ConnRefused, ConnDispatched, ConnAdmitted, TunnelOpens, TunnelFails,
                TunnelEnds, TunnelCut
  <2> QED
    BY <1>3, <2>1, SameOp, ConnSteps DEF IInv
<1>4. CASE UNCHANGED vars
  <2>1. UNCHANGED <<ownVars, fileVars, opVars, torn>> /\ UNCHANGED <<conn, via, gauge, cancelled>>
    BY <1>4 DEF vars, connVars
  <2> QED
    BY <2>1, SameOp, ConnsKept DEF IInv, ConnInv
<1> QED
  BY <1>1, <1>2, <1>3, <1>4 DEF Next

THEOREM IInvHolds == Spec => []IInv
  BY InitHolds, NextHolds, PTL DEF Spec

-----------------------------------------------------------------------------
(* What it gives *)

\* Every variable has its type, whatever step of an operation fails and wherever
\* the process stops: a mapping of the table always has its contents (table,
\* DomainInner.mappings), and tunnels_active never runs below zero nor above
\* the connections there have been.
THEOREM DomainsTypeCorrect == Spec => []TypeOK
<1>1. IInv => TypeOK
  <2> SUFFICES ASSUME IInv PROVE TypeOK
    OBVIOUS
  <2>1. gauge \in 0..Cardinality(Conns)
    <3>1. Counted \subseteq Conns /\ gauge = Cardinality(Counted)
      BY DEF IInv, ConnInv, GaugeCounts, Counted
    <3> QED
      BY <3>1, DomainsAssumption, FS_Subset, FS_CardinalityType
  <2> QED
    BY <2>1 DEF IInv, OpInv, TypeOK, OwnType, FileType, JobType, HostsInv, ListenInv, ConnInv
<1> QED
  BY <1>1, IInvHolds, PTL

\* No entry of the hosts file is forgotten: each belongs to a mapping of the
\* table, or to the domain the operation in progress is about, whichever step of
\* it fails; only a crash between the entry and its record (start_domain_mapping
\* writes the entry, the request saves) leaves one behind.
THEOREM HostsAreTracked == Spec => []HostsTracked
<1>1. IInv => HostsTracked
  <2> SUFFICES ASSUME IInv PROVE HostsTracked
    OBVIOUS
  <2>1. Left \cup Held \subseteq Busy
    <3>1. Left \subseteq Busy
      <4>1. CASE stage = "next"
        BY <4>1 DEF Left, Busy
      <4>2. CASE Begun /\ job.kind = "restore"
        <5>1. Restoring /\ stage \notin {"idle", "save", "next"}
          BY <4>2 DEF Begun, Restoring
        <5> QED
          BY <4>2, <5>1 DEF Left, Busy
      <4> QED
        BY <4>1, <4>2 DEF Left
    <3>2. Held \subseteq Busy
      <4>1. CASE stage \in {"insert", "clean", "unused"}
        BY <4>1 DEF Held, Busy
      <4> QED
        BY <4>1 DEF Held
    <3> QED
      BY <3>1, <3>2
  <2> QED
    BY <2>1 DEF IInv, OpInv, HostsInv, HostsTracked
<1> QED
  BY <1>1, IInvHolds, PTL

\* The shared listener and the entries of the hosts file are there for the
\* mappings that take connections, and between requests the listener is there
\* for nobody else (stop_shared_domain_listener_if_unused).
THEOREM SharedListenerServes == Spec => []ServedExactly
<1>1. IInv => ServedExactly
  <2> SUFFICES ASSUME IInv PROVE ServedExactly
    OBVIOUS
  <2>1. Listened <=> Served # {}
    BY DEF Listened, Served
  <2>2. ServedWhole
    BY DEF IInv, OpInv, ListenInv, ServedWhole, Served
  <2> QED
    BY <2>1, <2>2 DEF IInv, OpInv, ListenInv, ServedExactly, ListenerReleased
<1> QED
  BY <1>1, IInvHolds, PTL

\* Between requests the configuration file has the mappings of the table, with
\* their ports and states, for any domains and ports: a start or a clean-up that
\* failed loses no mapping and revives none, unless the save's own write failed
\* (save_config logs it) or another request wrote an older listing since
\* (build_config lists before it waits for other locks).
THEOREM DomainRecordsAreKept == Spec => []RecordsKept
<1>1. IInv => RecordsKept
  BY DEF IInv, OpInv, RecordInv, RecordsKept, Left, Begun
<1> QED
  BY <1>1, IInvHolds, PTL
=============================================================================
