--------------------------- MODULE MappingsProofs ---------------------------
(***************************************************************************)
(* Safety of the mapping table for any addresses, handles and concurrent   *)
(* requests.                                                               *)
(***************************************************************************)
EXTENDS Mappings, TLAPS, FiniteSetTheorems

HandleType ==
  /\ table \in [Locals -> Handles \cup {NoHandle}]
  /\ mapping \in [Handles -> Record \cup {NoRecord}]
  /\ task \in [Handles -> {"free", "parked", "listening", "aborted"}]
  /\ socket \in [Handles -> Port \cup {NoSocket}]
  /\ session \in [Handles -> BOOLEAN]
  /\ foreign \subseteq ForeignPorts

\* Who holds a socket, and where.
PortInv ==
  \A h \in Handles :
    /\ socket[h] # NoSocket =>
         /\ task[h] \in {"listening", "aborted"} \/ session[h]
         /\ mapping[h] \in Record /\ socket[h] \in {mapping[h].local} \X Modes
    /\ session[h] => socket[h] # NoSocket /\ task[h] # "parked"
    /\ \A k \in Handles \ {h} : socket[h] # NoSocket => socket[k] # socket[h]

\* An address leads to a handle that has its record.
TableInv ==
  \A l \in Mapped : mapping[table[l]] \in Record /\ mapping[table[l]].local = l

JobFunction == pc \in [Requests -> Stages] /\ job = [p \in Requests |-> job[p]]

SwitchJob == [todo: SUBSET Locals, target: BOOLEAN, changed: BOOLEAN]

\* What a request has in hand, by its stage.
JobType(p) ==
  /\ pc[p] \in {"idle", "list"} => job[p] = NoJob
  /\ pc[p] = "start" => job[p] \in Record
  /\ pc[p] = "insert" => job[p] \in Handles
  /\ pc[p] = "count" => job[p] \in [todo: SUBSET Locals, target: BOOLEAN]
  /\ pc[p] = "all" => job[p] \in SwitchJob
  /\ pc[p] = "stop" =>
       /\ job[p].todo \subseteq Handles
       /\ job[p].next \in {"list", "idle", "all"}
       /\ IF job[p].next = "all" THEN job[p].hand \in SwitchJob ELSE job[p].hand = NoJob
  /\ pc[p] = "read" => job[p] \in [todo: SUBSET Handles, image: SUBSET Record]

\* The handle a create is about to insert is its own.
InsertInv ==
  \A p \in Requests : pc[p] = "insert" =>
    /\ mapping[job[p]] \in Record
    /\ \A l \in Locals : table[l] # job[p]
    /\ \A q \in Requests \ {p} : pc[q] = "insert" => job[q] # job[p]

\* A save has read, and has to read, one record of an address.
Reading(todo, image) ==
  /\ \A h \in todo : mapping[h] \in Record
  /\ \A h, k \in todo : h # k => mapping[h].local # mapping[k].local
  /\ \A h \in todo, r \in image : mapping[h].local # r.local
  /\ \A r, s \in image : r.local = s.local => r = s

ReadInv == \A p \in Requests : pc[p] = "read" => Reading(job[p].todo, job[p].image)

FileType ==
  /\ file \subseteq Record /\ unstarted \subseteq Record /\ stale \subseteq Requests
  /\ behind \in BOOLEAN /\ spoiled \in BOOLEAN

\* The file has one record of an address.
FileInv == \A r, s \in file : r.local = s.local => r = s

RequestInv == JobFunction /\ (\A p \in Requests : JobType(p)) /\ InsertInv /\ ReadInv

BaseInv == HandleType /\ PortInv /\ TableInv /\ RequestInv /\ FileType /\ FileInv

-----------------------------------------------------------------------------
(* What a step does to requests *)

LEMMA GotoFacts ==
  ASSUME JobFunction, NEW p \in Requests, NEW stage \in Stages, NEW hand, Goto(p, stage, hand)
  PROVE  /\ JobFunction'
         /\ pc'[p] = stage /\ job'[p] = hand
         /\ \A q \in Requests \ {p} : pc'[q] = pc[q] /\ job'[q] = job[q]
  BY DEF JobFunction, Goto

LEMMA StopFacts ==
  ASSUME JobFunction, NEW p \in Requests, NEW hs \in SUBSET Handles,
         NEW next \in {"list", "idle", "all"}, NEW hand,
         IF next = "all" THEN hand \in SwitchJob ELSE hand = NoJob,
         StopThen(p, hs, next, hand)
  PROVE  /\ JobFunction' /\ JobType(p)'
         /\ pc'[p] \in {"stop", next} /\ (hs # {} => pc'[p] = "stop" /\ job'[p].todo = hs)
         /\ (pc'[p] = "stop" => job'[p].todo = hs)
         /\ \A q \in Requests \ {p} : pc'[q] = pc[q] /\ job'[q] = job[q]
<1>1. CASE hs = {}
  <2>1. Goto(p, next, hand) /\ next \in Stages
    BY <1>1 DEF StopThen, Stages
  <2> QED
    BY <1>1, <2>1, GotoFacts DEF JobType
<1>2. CASE hs # {}
  <2> DEFINE j == [todo |-> hs, next |-> next, hand |-> hand]
  <2>1. Goto(p, "stop", j) /\ "stop" \in Stages
    BY <1>2 DEF StopThen, Stages
  <2>2. JobFunction' /\ pc'[p] = "stop" /\ job'[p] = j
        /\ \A q \in Requests \ {p} : pc'[q] = pc[q] /\ job'[q] = job[q]
    BY <2>1, GotoFacts
  <2> QED
    BY <1>2, <2>2 DEF JobType
<1> QED
  BY <1>1, <1>2

\* The other requests keep their stage and what they have in hand.
LEMMA JobsKept ==
  ASSUME \A q \in Requests : JobType(q), NEW p \in Requests, JobType(p)',
         \A q \in Requests \ {p} : pc'[q] = pc[q] /\ job'[q] = job[q]
  PROVE  \A q \in Requests : JobType(q)'
  BY DEF JobType

-----------------------------------------------------------------------------
(* What a step does to handles *)

\* A record is replaced by one of the same address, if at all.
KeepsRecord(h) ==
  \/ mapping'[h] = mapping[h]
  \/ mapping[h] \in Record /\ mapping'[h] \in Record /\ mapping'[h].local = mapping[h].local

\* The handles of D are started.
Begins(D) ==
  /\ mapping' \in [Handles -> Record \cup {NoRecord}]
  /\ task' \in [Handles -> {"free", "parked", "listening", "aborted"}]
  /\ socket' \in [Handles -> Port \cup {NoSocket}]
  /\ UNCHANGED <<session, foreign>>
  /\ D \subseteq {h \in Handles : Unused(h)}
  /\ \A h \in D :
       /\ mapping'[h] \in Record
       /\ \/ task'[h] = "parked" /\ socket'[h] = NoSocket
          \/ /\ task'[h] = "listening" /\ PortFree(socket'[h])
             /\ socket'[h] \in {mapping'[h].local} \X Modes
       /\ \A k \in D \ {h} : mapping'[k].local # mapping'[h].local
  /\ \A h \in Handles \ D : task'[h] = task[h] /\ socket'[h] = socket[h] /\ KeepsRecord(h)

LEMMA PortFacts ==
  /\ NoSocket \notin Port /\ \A l \in Locals, m \in Modes : <<l, m>> \in Port
  /\ \A r \in Record : r.local \in Locals /\ r.mode \in Modes /\ r.enabled \in BOOLEAN
  BY MappingsAssumption DEF Port, Record

LEMMA BeginsPorts ==
  ASSUME HandleType, PortInv, NEW D, Begins(D)
  PROVE  PortInv'
<1> USE PortFacts
<1>1. \A h \in D : task[h] = "free" /\ socket[h] = NoSocket /\ ~session[h]
  BY DEF Begins, Unused, PortInv
<1>2. ASSUME NEW h \in Handles, socket'[h] # NoSocket
      PROVE  /\ task'[h] \in {"listening", "aborted"} \/ session'[h]
             /\ mapping'[h] \in Record /\ socket'[h] \in {mapping'[h].local} \X Modes
  BY <1>2 DEF Begins, PortInv, KeepsRecord
<1>3. ASSUME NEW h \in Handles, session'[h]
      PROVE  socket'[h] # NoSocket /\ task'[h] # "parked"
  BY <1>1, <1>3 DEF Begins, PortInv
<1>4. ASSUME NEW h \in Handles, NEW k \in Handles \ {h}, socket'[h] # NoSocket
      PROVE  socket'[k] # socket'[h]
  <2>1. CASE h \notin D /\ k \notin D
    BY <1>4, <2>1 DEF Begins, PortInv
  <2>2. CASE h \in D /\ k \notin D
    BY <1>4, <2>2 DEF Begins, PortFree
  <2>3. CASE h \notin D /\ k \in D
    BY <1>4, <2>3 DEF Begins, PortFree
  <2>4. CASE h \in D /\ k \in D
    BY <1>2, <1>4, <2>4 DEF Begins
  <2> QED
    BY <2>1, <2>2, <2>3, <2>4
<1> QED
  BY <1>2, <1>3, <1>4 DEF PortInv

LEMMA StartedBegins ==
  ASSUME HandleType, PortInv, NEW D \in SUBSET {h \in Handles : Unused(h)},
         NEW new \in [D -> Record],
         \A h \in D : Startable(new[h]),
         \A h, k \in D : h # k => new[h].local # new[k].local,
         Started(new), UNCHANGED <<session, foreign>>
  PROVE  Begins(D) /\ (\A h \in D : mapping'[h] = new[h])
         /\ (\A h \in Handles \ D : mapping'[h] = mapping[h])
<1> USE PortFacts
<1>1. \A h \in D : /\ mapping'[h] = new[h]
                   /\ task'[h] = IF new[h].enabled THEN "listening" ELSE "parked"
                   /\ socket'[h] = IF new[h].enabled THEN <<new[h].local, new[h].mode>>
                                   ELSE NoSocket
  BY DEF Started, Unused
<1>2. \A h \in Handles \ D : /\ mapping'[h] = mapping[h] /\ task'[h] = task[h]
                             /\ socket'[h] = socket[h]
  BY DEF Started
<1>3. mapping' \in [Handles -> Record \cup {NoRecord}]
  BY DEF Started, HandleType
<1>4. task' \in [Handles -> {"free", "parked", "listening", "aborted"}]
  BY DEF Started, HandleType
<1>5. socket' \in [Handles -> Port \cup {NoSocket}]
  BY DEF Started, HandleType
<1>6. ASSUME NEW h \in D
      PROVE  \/ task'[h] = "parked" /\ socket'[h] = NoSocket
             \/ /\ task'[h] = "listening" /\ PortFree(socket'[h])
                /\ socket'[h] \in {mapping'[h].local} \X Modes
  <2>1. new[h] \in Record
    OBVIOUS
  <2>2. CASE new[h].enabled
    <3>1. PortFree(<<new[h].local, new[h].mode>>)
      BY <2>2 DEF Startable
    <3>2. task'[h] = "listening" /\ socket'[h] = <<new[h].local, new[h].mode>>
          /\ mapping'[h].local = new[h].local
      BY <1>1, <2>2
    <3> QED
      BY <2>1, <3>1, <3>2 DEF PortFree
  <2>3. CASE ~new[h].enabled
    BY <1>1, <2>3
  <2> QED
    BY <2>2, <2>3
<1>7. \A h \in D : mapping'[h] \in Record /\ \A k \in D \ {h} : mapping'[k].local # mapping'[h].local
  BY <1>1
<1> QED
  BY <1>2, <1>3, <1>4, <1>5, <1>1, <1>6, <1>7 DEF Begins, KeepsRecord

\* One fresh handle.
LEMMA OneBegins ==
  ASSUME HandleType, PortInv, NEW h \in Handles, Unused(h), NEW r \in Record, Startable(r),
         Started([x \in {h} |-> r]), UNCHANGED <<session, foreign>>
  PROVE  Begins({h}) /\ mapping'[h] = r /\ (\A k \in Handles \ {h} : mapping'[k] = mapping[k])
<1>1. [x \in {h} |-> r] \in [{h} -> Record]
  OBVIOUS
<1>2. {h} \in SUBSET {k \in Handles : Unused(k)}
  OBVIOUS
<1> QED
  BY <1>1, <1>2, StartedBegins

\* Records of the addresses S, and a handle for each.
RecordsOf(new, S) == \A l \in S : new[l] \in Record /\ new[l].local = l
HandlesFor(f, S) == f \in [S -> Handles] /\ \A k, l \in S : f[k] = f[l] => k = l

\* Each handle gets the record of the address it is for.
LEMMA GivenFacts ==
  ASSUME NEW S, NEW new, RecordsOf(new, S), NEW f, HandlesFor(f, S)
  PROVE  /\ Handed(f, S) \subseteq Handles /\ \A l \in S : f[l] \in Handed(f, S)
         /\ Given(new, S, f) \in [Handed(f, S) -> Record]
         /\ \A l \in S : Given(new, S, f)[f[l]] = new[l]
         /\ \A h, k \in Handed(f, S) :
              h # k => Given(new, S, f)[h].local # Given(new, S, f)[k].local
<1> USE DEF RecordsOf, HandlesFor
<1>1. /\ DOMAIN Given(new, S, f) = Handed(f, S)
      /\ \A l \in S : f[l] \in Handed(f, S) /\ Given(new, S, f)[f[l]] = new[l]
  <2>1. \A l \in S : (CHOOSE k \in S : f[k] = f[l]) = l
    OBVIOUS
  <2> QED
    BY <2>1 DEF Given, Handed
<1>2. \A h \in Handed(f, S) : \E l \in S : h = f[l] /\ Given(new, S, f)[h] = new[l]
  BY <1>1 DEF Handed
<1>3. Given(new, S, f) = [h \in Handed(f, S) |-> Given(new, S, f)[h]]
  BY DEF Given
<1>4. Given(new, S, f) \in [Handed(f, S) -> Record]
  BY <1>2, <1>3
<1> QED
  BY <1>1, <1>2, <1>4 DEF Handed

\* An import starts the handles it allocates.
LEMMA AllocatedBegin ==
  ASSUME NEW new \in Incoming, NEW S \in SUBSET (DOMAIN new), NEW f \in Allocations(S)
  PROVE  /\ Handed(f, S) \subseteq {h \in Handles : Unused(h)}
         /\ Given(new, S, f) \in [Handed(f, S) -> Record]
         /\ \A l \in S : Given(new, S, f)[f[l]] = new[l] /\ new[l] \in Record /\ new[l].local = l
         /\ \A h, k \in Handed(f, S) :
              h # k => Given(new, S, f)[h].local # Given(new, S, f)[k].local
<1>1. \A l \in S : new[l] \in Record /\ new[l].local = l
  BY DEF Incoming
<1>2. f \in [S -> {h \in Handles : Unused(h)}] /\ \A k, l \in S : f[k] = f[l] => k = l
  BY DEF Allocations
<1>3. RecordsOf(new, S) /\ HandlesFor(f, S)
  BY <1>1, <1>2 DEF RecordsOf, HandlesFor
<1>4. Handed(f, S) \subseteq {h \in Handles : Unused(h)}
  BY <1>2 DEF Handed
<1> QED
  BY <1>1, <1>3, <1>4, GivenFacts

\* Handles in use keep the address of their record, and only fresh handles, or the
\* one a create had in hand, come into the table.
Frame ==
  /\ \A h \in Handles : ~Unused(h) => KeepsRecord(h)
  /\ \A l \in Locals :
       \/ table'[l] \in {NoHandle, table[l]}
       \/ Unused(table'[l])
       \/ \E p \in Requests : pc[p] = "insert" /\ pc'[p] # "insert" /\ table'[l] = job[p]

LEMMA BeginsTable ==
  ASSUME HandleType, PortInv, TableInv, NEW D, Begins(D),
         table' \in [Locals -> Handles \cup {NoHandle}],
         \A l \in Locals : \/ table'[l] \in {NoHandle, table[l]}
                           \/ table'[l] \in D /\ mapping'[table'[l]].local = l
  PROVE  HandleType' /\ PortInv' /\ TableInv' /\ Frame
<1>1. PortInv'
  BY BeginsPorts
<1>2. HandleType'
  BY DEF HandleType, Begins
<1>3. \A l \in Mapped : table[l] \in Handles /\ table[l] \notin D
  BY DEF Mapped, HandleType, Begins, Unused
<1>4. TableInv'
  <2> SUFFICES ASSUME NEW l \in Locals, table'[l] # NoHandle
               PROVE  mapping'[table'[l]] \in Record /\ mapping'[table'[l]].local = l
    BY DEF TableInv, Mapped
  <2>1. CASE table'[l] = table[l]
    <3>1. l \in Mapped
      BY <2>1 DEF Mapped
    <3>2. KeepsRecord(table[l])
      BY <1>3, <3>1 DEF Begins
    <3> QED
      BY <2>1, <3>1, <3>2 DEF TableInv, KeepsRecord
  <2>2. CASE table'[l] \in D /\ mapping'[table'[l]].local = l
    BY <2>2 DEF Begins
  <2> QED
    BY <2>1, <2>2
<1>5. Frame
  BY DEF Frame, Begins
<1> QED
  BY <1>1, <1>2, <1>4, <1>5

\* Steps that leave the table and the records.
LEMMA SameTable ==
  ASSUME TableInv, UNCHANGED <<table, mapping>>
  PROVE  TableInv' /\ Frame
  BY DEF TableInv, Mapped, Frame, KeepsRecord

LEMMA SameHandles ==
  ASSUME HandleType, PortInv, TableInv, UNCHANGED <<table, handleVars, foreign>>
  PROVE  HandleType' /\ PortInv' /\ TableInv' /\ Frame
  BY SameTable DEF HandleType, PortInv, handleVars

LEMMA AbortKeeps ==
  ASSUME HandleType, PortInv, NEW h, Abort(h), UNCHANGED <<mapping, socket, session, foreign>>,
         table' \in [Locals -> Handles \cup {NoHandle}]
  PROVE  HandleType' /\ PortInv'
<1>1. task' \in [Handles -> {"free", "parked", "listening", "aborted"}]
  BY DEF Abort, HandleType
<1>2. \A k \in Handles : task[k] \in {"listening", "aborted"} => task'[k] \in {"listening", "aborted"}
  BY DEF Abort, HandleType
<1>3. \A k \in Handles : task'[k] = "parked" => task[k] = "parked"
  BY DEF Abort, HandleType
<1>4. HandleType'
  BY <1>1 DEF HandleType
<1>5. PortInv'
  BY <1>2, <1>3 DEF PortInv
<1> QED
  BY <1>4, <1>5

LEMMA ListenerSteps ==
  ASSUME HandleType, PortInv, TableInv, NEW h \in Handles,
         ListenerStops(h) \/ ListenerFails(h) \/ SessionStarts(h) \/ SessionEnds(h)
  PROVE  HandleType' /\ PortInv' /\ TableInv' /\ Frame
<1>0. TableInv' /\ Frame
  <2>1. UNCHANGED <<table, mapping>>
    BY DEF ListenerStops, ListenerFails, SessionStarts, SessionEnds
  <2> QED
    BY <2>1, SameTable
<1>1. CASE ListenerStops(h) \/ ListenerFails(h)
  <2>1. /\ task' = [task EXCEPT ![h] = "free"]
        /\ socket' = [socket EXCEPT ![h] = IF session[h] THEN @ ELSE NoSocket]
        /\ UNCHANGED <<table, mapping, session, foreign>>
    BY <1>1 DEF ListenerStops, ListenerFails, TaskEnds
  <2>2. HandleType'
    BY <2>1 DEF HandleType
  <2>3. PortInv'
    BY <2>1 DEF PortInv, HandleType
  <2> QED
    BY <1>0, <2>2, <2>3
<1>2. CASE SessionStarts(h)
  <2>1. /\ socket[h] # NoSocket /\ task[h] # "parked"
        /\ session' = [session EXCEPT ![h] = TRUE]
        /\ UNCHANGED <<table, mapping, task, socket, foreign>>
    BY <1>2, MappingsAssumption DEF SessionStarts
  <2>2. HandleType'
    BY <2>1 DEF HandleType
  <2>3. PortInv'
    BY <2>1 DEF PortInv, HandleType
  <2> QED
    BY <1>0, <2>2, <2>3
<1>3. CASE SessionEnds(h)
  <2>1. /\ session[h]
        /\ session' = [session EXCEPT ![h] = FALSE]
        /\ socket' = [socket EXCEPT ![h] = IF task[h] = "free" THEN NoSocket ELSE @]
        /\ UNCHANGED <<table, mapping, task, foreign>>
    BY <1>3 DEF SessionEnds
  <2>2. HandleType'
    BY <2>1 DEF HandleType
  <2>3. PortInv'
    BY <2>1 DEF PortInv, HandleType
  <2> QED
    BY <1>0, <2>2, <2>3
<1> QED
  BY <1>1, <1>2, <1>3

LEMMA ForeignStep ==
  ASSUME HandleType, PortInv, TableInv, ForeignProgram
  PROVE  HandleType' /\ PortInv' /\ TableInv' /\ Frame
<1>1. foreign' \subseteq ForeignPorts /\ UNCHANGED <<table, mapping, task, socket, session>>
  BY DEF ForeignProgram, HandleType, handleVars
<1> QED
  BY <1>1, SameTable DEF HandleType, PortInv

\* A fresh handle takes the place of l's.
LEMMA ReplaceStep ==
  ASSUME HandleType, PortInv, TableInv, NEW l \in Mapped, NEW r \in Record, Replace(l, r),
         r.local # l => table[r.local] = NoHandle, UNCHANGED foreign
  PROVE  /\ HandleType' /\ PortInv' /\ TableInv' /\ Frame
         /\ \E h \in Handles : /\ Unused(h) /\ Begins({h})
                               /\ table' = [table EXCEPT ![l] = NoHandle, ![r.local] = h]
<1>1. PICK h \in Handles :
        /\ Unused(h)
        /\ Started([x \in {h} |-> r])
        /\ table' = [table EXCEPT ![l] = NoHandle, ![r.local] = h]
  BY DEF Replace
<1>2. Startable(r) /\ UNCHANGED <<session, foreign>>
  BY DEF Replace
<1>3. Begins({h}) /\ mapping'[h] = r
  BY <1>1, <1>2, OneBegins
<1>4. table' \in [Locals -> Handles \cup {NoHandle}]
  BY <1>1, PortFacts DEF HandleType, Mapped
<1>5. \A k \in Locals : \/ table'[k] \in {NoHandle, table[k]}
                        \/ table'[k] \in {h} /\ mapping'[table'[k]].local = k
  BY <1>1, <1>3, PortFacts DEF HandleType, Mapped
<1> QED
  BY <1>1, <1>3, <1>4, <1>5, BeginsTable

\* A record is replaced in place.
LEMMA InPlaceStep ==
  ASSUME HandleType, PortInv, TableInv, NEW p, UpdateInPlace(p)
  PROVE  HandleType' /\ PortInv' /\ TableInv' /\ Frame
<1>1. PICK l \in Mapped, r \in Record :
        r.local = l /\ mapping' = [mapping EXCEPT ![table[l]] = r]
  BY DEF UpdateInPlace
<1>2. table[l] \in Handles /\ mapping[table[l]] \in Record /\ mapping[table[l]].local = l
  BY DEF TableInv, Mapped, HandleType
<1>3. UNCHANGED <<table, task, socket, session, foreign>>
  BY DEF UpdateInPlace
<1>4. \A h \in Handles : KeepsRecord(h)
  BY <1>1, <1>2 DEF KeepsRecord, HandleType
<1>5. HandleType'
  BY <1>1, <1>2, <1>3 DEF HandleType
<1>6. PortInv'
  BY <1>3, <1>4 DEF PortInv, KeepsRecord
<1>7. TableInv'
  BY <1>3, <1>4 DEF TableInv, Mapped, HandleType, KeepsRecord
<1> QED
  BY <1>3, <1>4, <1>5, <1>6, <1>7 DEF Frame

\* A create's own handle comes into the table, or is aborted.
LEMMA InsertStep ==
  ASSUME HandleType, PortInv, TableInv, RequestInv, NEW p \in Requests, CreateInserts(p)
  PROVE  HandleType' /\ PortInv' /\ TableInv' /\ Frame
<1>1. job[p] \in Handles /\ mapping[job[p]] \in Record /\ pc[p] = "insert"
  BY DEF CreateInserts, RequestInv, JobType, InsertInv
<1>2. UNCHANGED <<mapping, socket, session, foreign>>
  BY DEF CreateInserts
<1>3. CASE Insert(p, job[p])
  <2>1. /\ table' = [table EXCEPT ![mapping[job[p]].local] = job[p]]
        /\ UNCHANGED task /\ Goto(p, "list", NoJob)
    BY <1>3 DEF Insert
  <2>2. pc'[p] = "list"
    BY <2>1 DEF Goto, RequestInv, JobFunction
  <2>3. mapping[job[p]].local \in Locals
    BY <1>1, PortFacts
  <2>4. HandleType' /\ PortInv'
    BY <1>1, <1>2, <2>1, <2>3 DEF HandleType, PortInv
  <2>5. TableInv'
    BY <1>1, <1>2, <2>1, <2>3 DEF TableInv, Mapped, HandleType
  <2>6. \A l \in Locals : table'[l] = table[l] \/ table'[l] = job[p]
    BY <2>1 DEF HandleType
  <2>7. Frame
    BY <1>1, <1>2, <2>2, <2>6 DEF Frame, KeepsRecord
  <2> QED
    BY <2>4, <2>5, <2>7
<1>4. CASE Abort(job[p]) /\ UNCHANGED table
  <2>1. TableInv' /\ Frame
    BY <1>2, <1>4, SameTable
  <2>2. table' \in [Locals -> Handles \cup {NoHandle}]
    BY <1>4 DEF HandleType
  <2> QED
    BY <1>2, <1>4, <2>1, <2>2, AbortKeeps
<1> QED
  BY <1>3, <1>4 DEF CreateInserts

LEMMA RemoveStep ==
  ASSUME HandleType, PortInv, TableInv, NEW p \in Requests, Remove(p)
  PROVE  HandleType' /\ PortInv' /\ TableInv' /\ Frame
<1>1. PICK l \in Mapped : table' = [table EXCEPT ![l] = NoHandle] /\ Abort(table[l])
  BY DEF Remove
<1>2. UNCHANGED <<mapping, socket, session, foreign>>
  BY DEF Remove
<1>3. table' \in [Locals -> Handles \cup {NoHandle}]
  BY <1>1 DEF HandleType
<1>4. HandleType' /\ PortInv'
  BY <1>1, <1>2, <1>3, AbortKeeps
<1>5. \A k \in Locals : table'[k] \in {NoHandle, table[k]}
  BY <1>1 DEF HandleType
<1>6. TableInv' /\ Frame
  BY <1>2, <1>5 DEF TableInv, Mapped, Frame, KeepsRecord
<1> QED
  BY <1>4, <1>6

LEMMA StartStep ==
  ASSUME HandleType, PortInv, TableInv, RequestInv, NEW p \in Requests, CreateStarts(p)
  PROVE  /\ HandleType' /\ PortInv' /\ TableInv' /\ Frame
         /\ \/ UNCHANGED handleVars /\ pc'[p] = "idle" /\ job'[p] = NoJob
            \/ \E h \in Handles : /\ Unused(h) /\ Begins({h}) /\ mapping'[h] \in Record
                                  /\ pc'[p] = "insert" /\ job'[p] = h
<1>1. pc[p] = "start" /\ job[p] \in Record /\ UNCHANGED <<table, foreign>>
  BY DEF CreateStarts, RequestInv, JobType
<1>2. CASE UNCHANGED handleVars /\ Goto(p, "idle", NoJob)
  <2>1. pc'[p] = "idle" /\ job'[p] = NoJob
    BY <1>2, GotoFacts DEF RequestInv, Stages
  <2> QED
    BY <1>1, <1>2, <2>1, SameHandles
<1>3. CASE \E h \in Handles :
             /\ Unused(h) /\ Startable(job[p])
             /\ Started([x \in {h} |-> job[p]])
             /\ Goto(p, "insert", h)
             /\ UNCHANGED session
  <2>1. PICK h \in Handles :
          /\ Unused(h) /\ Startable(job[p])
          /\ Started([x \in {h} |-> job[p]])
          /\ Goto(p, "insert", h)
          /\ UNCHANGED session
    BY <1>3
  <2>2. Begins({h}) /\ mapping'[h] = job[p]
    BY <1>1, <2>1, OneBegins
  <2>3. pc'[p] = "insert" /\ job'[p] = h
    BY <2>1, GotoFacts DEF RequestInv, Stages
  <2>4. HandleType' /\ PortInv' /\ TableInv' /\ Frame
    <3>1. table' \in [Locals -> Handles \cup {NoHandle}] /\ \A l \in Locals : table'[l] = table[l]
      BY <1>1 DEF HandleType
    <3> QED
      BY <2>2, <3>1, BeginsTable
  <2> QED
    BY <1>1, <2>1, <2>2, <2>3, <2>4
<1> QED
  BY <1>2, <1>3 DEF CreateStarts

-----------------------------------------------------------------------------
(* Imports *)

\* A swap starts the fresh handles and keeps the others' addresses.
LEMMA SwapBegins ==
  ASSUME HandleType, PortInv, TableInv, NEW new \in Incoming, NEW merge \in BOOLEAN,
         NEW f \in Allocations(Fresh(new)), Swapped(new, merge, f),
         \A l \in Fresh(new) : Startable(new[l]),
         UNCHANGED <<session, foreign>>
  PROVE  /\ Begins(Handed(f, Fresh(new)))
         /\ \A l \in Fresh(new) : mapping'[f[l]] = new[l] /\ new[l].local = l
         /\ table' \in [Locals -> Handles \cup {NoHandle}]
         /\ \A l \in Locals : \/ table'[l] \in {NoHandle, table[l]}
                              \/ l \in Fresh(new) /\ table'[l] = f[l]
<1> USE PortFacts
<1> DEFINE fresh == Fresh(new)
           kept == DOMAIN new \cap Mapped
           gone == Gone(new, merge)
           D == Handed(f, fresh)
           begun == Given(new, fresh, f)
           held == Given(new, kept, table)
<1>1. /\ D \subseteq {h \in Handles : Unused(h)} /\ begun \in [D -> Record]
      /\ \A l \in fresh : begun[f[l]] = new[l] /\ new[l] \in Record /\ new[l].local = l
      /\ \A h, k \in D : h # k => begun[h].local # begun[k].local
  <2>1. Fresh(new) \in SUBSET (DOMAIN new)
    BY DEF Fresh
  <2> QED
    BY <2>1, AllocatedBegin
<1>2. \A l \in kept : table[l] \in Handles /\ mapping[table[l]] \in Record
                      /\ mapping[table[l]].local = l /\ new[l] \in Record /\ new[l].local = l
  BY DEF TableInv, HandleType, Mapped, Incoming
<1>3. \A k, l \in kept : table[k] = table[l] => k = l
  BY <1>2
<1>4. /\ DOMAIN held = {table[l] : l \in kept}
      /\ \A l \in kept : held[table[l]] = new[l]
  <2>1. \A l \in kept : (CHOOSE k \in kept : table[k] = table[l]) = l
    BY <1>3
  <2> QED
    BY <2>1 DEF Given, Handed
<1>5. \A l \in fresh : Startable(new[l])
  OBVIOUS
<1>6. /\ mapping' = [h \in Handles |->
                  IF h \in D THEN begun[h]
                  ELSE IF h \in DOMAIN held THEN held[h] ELSE mapping[h]]
      /\ task' = [h \in Handles |->
               IF h \notin D THEN task[h]
               ELSE IF begun[h].enabled THEN "listening" ELSE "parked"]
      /\ socket' = [h \in Handles |->
                 IF h \in D /\ begun[h].enabled
                 THEN <<begun[h].local, begun[h].mode>> ELSE socket[h]]
      /\ table' = [l \in Locals |->
                IF l \in fresh THEN f[l] ELSE IF l \in gone THEN NoHandle ELSE table[l]]
  <2>1. DOMAIN begun = D
    BY <1>1
  <2> QED
    BY <2>1 DEF Swapped
<1> HIDE DEF fresh, kept, gone, D, begun, held
<1>10. \A l \in kept : table[l] \notin D
  BY <1>1, <1>2 DEF Unused, Incoming, kept
<1>11. \A h \in Handles \ D : \/ mapping'[h] = mapping[h]
                              \/ \E l \in kept : h = table[l] /\ mapping'[h] = new[l]
  BY <1>4, <1>6
<1>12. \A h \in Handles \ D : KeepsRecord(h)
  BY <1>2, <1>11 DEF KeepsRecord
<1>13. \A h \in D :
         /\ h \in Handles /\ mapping'[h] = begun[h] /\ begun[h] \in Record
         /\ socket[h] = NoSocket /\ begun[h].enabled \in BOOLEAN
         /\ task'[h] = (IF begun[h].enabled THEN "listening" ELSE "parked")
         /\ socket'[h] = (IF begun[h].enabled THEN <<begun[h].local, begun[h].mode>>
                          ELSE NoSocket)
  BY <1>1, <1>6 DEF Unused
<1>14. /\ mapping' \in [Handles -> Record \cup {NoRecord}]
       /\ task' \in [Handles -> {"free", "parked", "listening", "aborted"}]
       /\ socket' \in [Handles -> Port \cup {NoSocket}]
  <2>1. \A h \in Handles : mapping'[h] \in Record \cup {NoRecord}
    <3> SUFFICES ASSUME NEW h \in Handles PROVE mapping'[h] \in Record \cup {NoRecord}
      OBVIOUS
    <3>1. CASE h \in D
      BY <1>13, <3>1
    <3>2. CASE mapping'[h] = mapping[h]
      BY <3>2 DEF HandleType
    <3>3. CASE \E l \in kept : h = table[l] /\ mapping'[h] = new[l]
      BY <1>2, <3>3
    <3> QED
      BY <1>11, <3>1, <3>2, <3>3
  <2>2. \A h \in Handles : task'[h] \in {"free", "parked", "listening", "aborted"}
    BY <1>6 DEF HandleType
  <2>3. \A h \in Handles : socket'[h] \in Port \cup {NoSocket}
    <3> SUFFICES ASSUME NEW h \in Handles PROVE socket'[h] \in Port \cup {NoSocket}
      OBVIOUS
    <3>1. CASE h \in D
      BY <1>13, <3>1
    <3>2. CASE h \notin D
      BY <1>6, <3>2 DEF HandleType
    <3> QED
      BY <3>1, <3>2
  <2> QED
    BY <1>6, <2>1, <2>2, <2>3
<1>15. ASSUME NEW h \in D
       PROVE  /\ mapping'[h] \in Record
              /\ \/ task'[h] = "parked" /\ socket'[h] = NoSocket
                 \/ /\ task'[h] = "listening" /\ PortFree(socket'[h])
                    /\ socket'[h] \in {mapping'[h].local} \X Modes
              /\ \A k \in D \ {h} : mapping'[k].local # mapping'[h].local
  <2>1. mapping'[h] \in Record /\ \A k \in D \ {h} : mapping'[k].local # mapping'[h].local
    <3>1. mapping'[h] = begun[h] /\ begun[h] \in Record
      BY <1>13
    <3>2. \A k \in D \ {h} : mapping'[k] = begun[k] /\ begun[k].local # begun[h].local
      BY <1>1, <1>13
    <3> QED
      BY <3>1, <3>2
  <2>2. CASE begun[h].enabled
    <3>1. PICK l \in fresh : h = f[l]
      BY DEF D, Handed
    <3>2. begun[h] = new[l] /\ Startable(new[l])
      BY <1>1, <1>5, <3>1
    <3>3. PortFree(<<begun[h].local, begun[h].mode>>)
      BY <2>2, <3>2 DEF Startable
    <3>4. task'[h] = "listening" /\ socket'[h] = <<begun[h].local, begun[h].mode>>
          /\ mapping'[h] = begun[h] /\ begun[h].mode \in Modes
      BY <1>13, <2>2
    <3>5. PortFree(socket'[h])
      BY <3>3, <3>4
    <3> QED
      BY <2>1, <3>4, <3>5
  <2>3. CASE ~begun[h].enabled
    BY <1>13, <2>1, <2>3
  <2> QED
    BY <2>2, <2>3
<1>16. \A h \in Handles \ D : task'[h] = task[h] /\ socket'[h] = socket[h]
  BY <1>6
<1>17. Begins(D)
  BY <1>1, <1>12, <1>14, <1>15, <1>16 DEF Begins
<1>18. \A l \in fresh : f[l] \in D /\ f[l] \in Handles /\ mapping'[f[l]] = new[l] /\ new[l].local = l
  BY <1>1, <1>13 DEF Handed, D
<1>19. table' \in [Locals -> Handles \cup {NoHandle}]
  BY <1>6, <1>18 DEF HandleType
<1>20. \A l \in Locals : table'[l] \in {NoHandle, table[l]} \/ (l \in fresh /\ table'[l] = f[l])
  BY <1>6
<1> QED
  BY <1>17, <1>18, <1>19, <1>20 DEF fresh, D

LEMMA CommitStep ==
  ASSUME HandleType, PortInv, TableInv, NEW p, ImportCommits(p)
  PROVE  /\ HandleType' /\ PortInv' /\ TableInv' /\ Frame
         /\ \E new \in Incoming, merge \in BOOLEAN : \E f \in Allocations(Fresh(new)) :
              /\ Begins(Handed(f, Fresh(new))) /\ Fits(new, merge)
              /\ \A l \in Locals : table'[l] = IF l \in Fresh(new) THEN f[l]
                                               ELSE IF l \in Gone(new, merge) THEN NoHandle
                                               ELSE table[l]
              /\ StopThen(p, Handed(table, Gone(new, merge)), "list", NoJob)
<1>1. PICK new \in Incoming, merge \in BOOLEAN :
        /\ Fits(new, merge)
        /\ \A l \in Fresh(new) : Startable(new[l])
        /\ \E f \in Allocations(Fresh(new)) : Swapped(new, merge, f)
        /\ StopThen(p, Handed(table, Gone(new, merge)), "list", NoJob)
  BY DEF ImportCommits
<1>2. PICK f \in Allocations(Fresh(new)) : Swapped(new, merge, f)
  BY <1>1
<1>3. UNCHANGED <<session, foreign>>
  BY DEF ImportCommits
<1>4. /\ Begins(Handed(f, Fresh(new)))
      /\ \A l \in Fresh(new) : mapping'[f[l]] = new[l] /\ new[l].local = l
      /\ table' \in [Locals -> Handles \cup {NoHandle}]
      /\ \A l \in Locals : \/ table'[l] \in {NoHandle, table[l]}
                           \/ l \in Fresh(new) /\ table'[l] = f[l]
  BY <1>1, <1>2, <1>3, SwapBegins
<1>5. \A l \in Fresh(new) : mapping'[f[l]].local = l /\ f[l] \in Handed(f, Fresh(new))
  BY <1>4 DEF Handed
<1>6. HandleType' /\ PortInv' /\ TableInv' /\ Frame
  BY <1>4, <1>5, BeginsTable
<1>7. \A l \in Locals : table'[l] = IF l \in Fresh(new) THEN f[l]
                                    ELSE IF l \in Gone(new, merge) THEN NoHandle ELSE table[l]
  BY <1>2 DEF Swapped
<1> QED
  BY <1>1, <1>4, <1>6, <1>7

LEMMA FailedImportStep ==
  ASSUME HandleType, PortInv, TableInv, NEW p, ImportFails(p)
  PROVE  /\ HandleType' /\ PortInv' /\ TableInv' /\ Frame
         /\ \E D \in SUBSET Handles : Begins(D) /\ StopThen(p, D, "idle", NoJob)
         /\ \A h \in Handles : ~Unused(h) => mapping'[h] = mapping[h]
<1>0. PICK new \in Incoming : \E S \in SUBSET Fresh(new) :
        /\ \A l \in S : Startable(new[l])
        /\ \E f \in Allocations(S) : /\ Started(Given(new, S, f))
                                     /\ StopThen(p, Handed(f, S), "idle", NoJob)
  BY DEF ImportFails
<1>1. PICK S \in SUBSET Fresh(new) :
        /\ \A l \in S : Startable(new[l])
        /\ \E f \in Allocations(S) : /\ Started(Given(new, S, f))
                                     /\ StopThen(p, Handed(f, S), "idle", NoJob)
  BY <1>0
<1>2. PICK f \in Allocations(S) : /\ Started(Given(new, S, f))
                                  /\ StopThen(p, Handed(f, S), "idle", NoJob)
  BY <1>1
<1> DEFINE D == Handed(f, S)
           begun == Given(new, S, f)
<1>3. /\ D \subseteq {h \in Handles : Unused(h)} /\ begun \in [D -> Record]
      /\ \A l \in S : begun[f[l]] = new[l]
      /\ \A h, k \in D : h # k => begun[h].local # begun[k].local
  <2>1. S \in SUBSET (DOMAIN new)
    BY DEF Fresh
  <2> QED
    BY <2>1, AllocatedBegin
<1>4. \A h \in D : Startable(begun[h])
  <2> SUFFICES ASSUME NEW l \in S PROVE Startable(begun[f[l]])
    BY DEF Handed
  <2>1. begun[f[l]] = new[l] /\ Startable(new[l])
    BY <1>1, <1>3
  <2> QED
    BY <2>1 DEF Startable
<1>5. UNCHANGED <<table, session, foreign>>
  BY DEF ImportFails
<1>6. Begins(D) /\ \A h \in Handles \ D : mapping'[h] = mapping[h]
  BY <1>2, <1>3, <1>4, <1>5, StartedBegins
<1>7. table' \in [Locals -> Handles \cup {NoHandle}] /\ \A l \in Locals : table'[l] = table[l]
  BY <1>5 DEF HandleType
<1>8. HandleType' /\ PortInv' /\ TableInv' /\ Frame
  BY <1>6, <1>7, BeginsTable
<1>9. D \in SUBSET Handles /\ StopThen(p, D, "idle", NoJob)
  BY <1>2, <1>3
<1>10. \A h \in Handles : ~Unused(h) => mapping'[h] = mapping[h]
  BY <1>3, <1>6
<1> QED
  BY <1>6, <1>8, <1>9, <1>10
-----------------------------------------------------------------------------
(* What a step does to what requests refer to *)

\* A request that does not move keeps what it has.
LEMMA OthersKept ==
  ASSUME Frame, RequestInv, NEW q \in Requests, pc'[q] = pc[q], job'[q] = job[q]
  PROVE  /\ JobType(q)'
         /\ pc'[q] = "insert" => mapping'[job'[q]] \in Record /\ \A l \in Locals : table'[l] # job'[q]
         /\ pc'[q] = "read" => Reading(job[q].todo, job[q].image)'
<1>1. JobType(q) /\ JobType(q)'
  BY DEF RequestInv, JobType
<1>2. ASSUME pc[q] = "insert"
      PROVE  mapping'[job[q]] \in Record /\ \A l \in Locals : table'[l] # job[q]
  <2>1. job[q] \in Handles /\ ~Unused(job[q]) /\ mapping[job[q]] \in Record
    BY <1>1, <1>2 DEF JobType, Unused, Holds, RequestInv, InsertInv
  <2>2. mapping'[job[q]] \in Record
    BY <2>1 DEF Frame, KeepsRecord
  <2>3. ASSUME NEW l \in Locals PROVE table'[l] # job[q]
    <3>1. CASE table'[l] \in {NoHandle, table[l]}
      BY <1>2, <2>1, <3>1, MappingsAssumption DEF RequestInv, InsertInv
    <3>2. CASE Unused(table'[l])
      BY <2>1, <3>2
    <3>3. CASE \E p \in Requests : pc[p] = "insert" /\ pc'[p] # "insert" /\ table'[l] = job[p]
      BY <1>2, <3>3 DEF RequestInv, InsertInv
    <3> QED
      BY <3>1, <3>2, <3>3 DEF Frame
  <2> QED
    BY <2>2, <2>3
<1>3. ASSUME pc[q] = "read"
      PROVE  Reading(job[q].todo, job[q].image)'
  <2>1. job[q].todo \in SUBSET Handles /\ \A h \in job[q].todo : ~Unused(h)
    BY <1>1, <1>3 DEF JobType, Unused, Holds
  <2>2. Reading(job[q].todo, job[q].image)
    BY <1>3 DEF RequestInv, ReadInv
  <2>3. \A h \in job[q].todo : mapping'[h] \in Record /\ mapping'[h].local = mapping[h].local
    BY <2>1, <2>2 DEF Frame, KeepsRecord, Reading
  <2>4. job'[q].todo = job[q].todo /\ job'[q].image = job[q].image
    OBVIOUS
  <2> QED
    BY <2>2, <2>3, <2>4 DEF Reading
<1> QED
  BY <1>1, <1>2, <1>3

\* A step of p, which neither has a handle to insert nor a listing after it
\* that it did not make itself.
LEMMA ActorMoves ==
  ASSUME Frame, RequestInv, NEW p \in Requests, JobFunction', JobType(p)',
         \A q \in Requests \ {p} : pc'[q] = pc[q] /\ job'[q] = job[q],
         pc'[p] = "insert" => /\ mapping'[job'[p]] \in Record /\ Unused(job'[p])
                              /\ \A l \in Locals : table'[l] # job'[p],
         pc'[p] = "read" => Reading(job[p].todo, job[p].image)'
  PROVE  RequestInv'
<1>1. \A q \in Requests : JobType(q)'
  BY OthersKept
<1>2. InsertInv'
  <2>1. \A q \in Requests : pc'[q] = "insert" =>
          mapping'[job'[q]] \in Record /\ \A l \in Locals : table'[l] # job'[q]
    BY OthersKept
  <2>2. ASSUME NEW q \in Requests, NEW r \in Requests \ {q}, pc'[q] = "insert", pc'[r] = "insert"
        PROVE  job'[r] # job'[q]
    <3>1. \A x \in Requests \ {p} : pc'[x] = "insert" => pc[x] = "insert" /\ job'[x] = job[x]
                                    /\ job[x] \in Holds(x)
      BY DEF Holds
    <3>2. CASE q = p
      BY <2>2, <3>1, <3>2 DEF Unused
    <3>3. CASE r = p
      BY <2>2, <3>1, <3>3 DEF Unused
    <3>4. CASE q # p /\ r # p
      BY <2>2, <3>1, <3>4 DEF RequestInv, InsertInv
    <3> QED
      BY <3>2, <3>3, <3>4
  <2> QED
    BY <2>1, <2>2 DEF InsertInv
<1>3. ReadInv'
  <2>1. \A q \in Requests \ {p} : pc'[q] = "read" => Reading(job[q].todo, job[q].image)'
    BY OthersKept
  <2> QED
    BY <2>1 DEF ReadInv
<1> QED
  BY <1>1, <1>2, <1>3 DEF RequestInv

\* A step of no request.
LEMMA NobodyMoves ==
  ASSUME Frame, RequestInv, UNCHANGED requestVars
  PROVE  RequestInv'
<1>1. JobFunction' /\ \A q \in Requests : pc'[q] = pc[q] /\ job'[q] = job[q]
  BY DEF requestVars, RequestInv, JobFunction
<1>2. \A q \in Requests : JobType(q)'
  BY <1>1, OthersKept
<1>3. InsertInv'
  <2>1. \A q \in Requests : pc'[q] = "insert" =>
          mapping'[job'[q]] \in Record /\ \A l \in Locals : table'[l] # job'[q]
    BY <1>1, OthersKept
  <2> QED
    BY <1>1, <2>1 DEF RequestInv, InsertInv
<1>4. ReadInv'
  <2>1. \A q \in Requests : pc'[q] = "read" => Reading(job[q].todo, job[q].image)'
    BY <1>1, OthersKept
  <2> QED
    BY <2>1 DEF ReadInv
<1> QED
  BY <1>1, <1>2, <1>3, <1>4 DEF RequestInv

-----------------------------------------------------------------------------
(* Every step keeps the invariant *)

HandleInv == HandleType /\ PortInv /\ TableInv

\* A step of p that leaves all handles alone, and does not go on to read.
LEMMA GoesOn ==
  ASSUME HandleInv, RequestInv, NEW p \in Requests, UNCHANGED <<table, handleVars, foreign>>,
         NEW stage \in Stages \ {"insert", "read"}, NEW hand, Goto(p, stage, hand),
         JobType(p)'
  PROVE  HandleInv' /\ Frame /\ RequestInv'
<1>1. HandleInv' /\ Frame
  BY SameHandles DEF HandleInv
<1>2. JobFunction' /\ pc'[p] = stage /\ \A q \in Requests \ {p} : pc'[q] = pc[q] /\ job'[q] = job[q]
  BY GotoFacts DEF RequestInv
<1> QED
  BY <1>1, <1>2, ActorMoves

\* A step of p that goes on to stop handles.
LEMMA StopsThen ==
  ASSUME Frame, RequestInv, NEW p \in Requests, NEW hs \in SUBSET Handles,
         NEW next \in {"list", "idle", "all"}, NEW hand,
         IF next = "all" THEN hand \in SwitchJob ELSE hand = NoJob,
         StopThen(p, hs, next, hand)
  PROVE  RequestInv'
<1>1. /\ JobFunction' /\ JobType(p)' /\ pc'[p] \notin {"insert", "read"}
      /\ \A q \in Requests \ {p} : pc'[q] = pc[q] /\ job'[q] = job[q]
  BY StopFacts DEF RequestInv
<1> QED
  BY <1>1, ActorMoves

LEMMA CreateKeeps ==
  ASSUME HandleInv, RequestInv, NEW p \in Requests,
         CreateChecks(p) \/ CreateStarts(p) \/ CreateInserts(p)
  PROVE  HandleInv' /\ Frame /\ RequestInv'
<1>1. CASE CreateChecks(p)
  <2>1. PICK r \in Record : Goto(p, "start", r)
    BY <1>1 DEF CreateChecks
  <2>2. UNCHANGED <<table, handleVars, foreign>> /\ "start" \in Stages \ {"insert", "read"}
    BY <1>1 DEF CreateChecks, Stages
  <2>3. pc'[p] = "start" /\ job'[p] = r
    BY <2>1, <2>2, GotoFacts DEF RequestInv
  <2>4. JobType(p)'
    BY <2>3 DEF JobType
  <2> QED
    BY <2>1, <2>2, <2>4, GoesOn
<1>2. CASE CreateStarts(p)
  <2>1. HandleInv' /\ Frame
    BY <1>2, StartStep DEF HandleInv
  <2>2. \/ pc'[p] = "idle" /\ job'[p] = NoJob
        \/ pc'[p] = "insert" /\ job'[p] \in Handles /\ mapping'[job'[p]] \in Record
           /\ Unused(job'[p])
    BY <1>2, StartStep DEF HandleInv
  <2>3. UNCHANGED table /\ \E stage \in {"idle", "insert"} : \E hand : Goto(p, stage, hand)
    BY <1>2 DEF CreateStarts
  <2>4. JobFunction' /\ \A q \in Requests \ {p} : pc'[q] = pc[q] /\ job'[q] = job[q]
    BY <2>3, GotoFacts DEF RequestInv, Stages
  <2>5. JobType(p)'
    BY <2>2 DEF JobType
  <2>6. pc'[p] = "insert" => \A l \in Locals : table'[l] # job'[p]
    BY <2>2, <2>3 DEF Unused
  <2> QED
    BY <2>1, <2>2, <2>4, <2>5, <2>6, ActorMoves
<1>3. CASE CreateInserts(p)
  <2>1. HandleInv' /\ Frame
    BY <1>3, InsertStep DEF HandleInv
  <2>2. PICK stage \in {"list", "idle"} : Goto(p, stage, NoJob)
    BY <1>3 DEF CreateInserts, Insert
  <2>3. /\ JobFunction' /\ pc'[p] = stage /\ job'[p] = NoJob
        /\ \A q \in Requests \ {p} : pc'[q] = pc[q] /\ job'[q] = job[q]
    BY <2>2, GotoFacts DEF RequestInv, Stages
  <2>4. JobType(p)'
    BY <2>3 DEF JobType
  <2> QED
    BY <2>1, <2>3, <2>4, ActorMoves
<1> QED
  BY <1>1, <1>2, <1>3

\* A record with its state changed is one.
LEMMA FlippedFacts ==
  ASSUME HandleInv, NEW l \in Mapped
  PROVE  table[l] \in Handles /\ Flipped(l) \in Record /\ Flipped(l).local = l
<1>1. table[l] \in Handles /\ mapping[table[l]] \in Record /\ mapping[table[l]].local = l
  BY DEF HandleInv, HandleType, TableInv, Mapped
<1> QED
  BY <1>1 DEF Flipped, Record

LEMMA ChangeKeeps ==
  ASSUME HandleInv, RequestInv, NEW p \in Requests,
         Remove(p) \/ UpdateInPlace(p) \/ UpdateRestarts(p) \/ Toggle(p)
  PROVE  HandleInv' /\ Frame /\ RequestInv'
<1>1. CASE Remove(p) \/ UpdateInPlace(p)
  <2>1. HandleInv' /\ Frame
    BY <1>1, RemoveStep, InPlaceStep DEF HandleInv
  <2>2. Goto(p, "list", NoJob)
    BY <1>1 DEF Remove, UpdateInPlace
  <2>3. /\ JobFunction' /\ pc'[p] = "list" /\ job'[p] = NoJob
        /\ \A q \in Requests \ {p} : pc'[q] = pc[q] /\ job'[q] = job[q]
    BY <2>2, GotoFacts DEF RequestInv, Stages
  <2>4. JobType(p)'
    BY <2>3 DEF JobType
  <2> QED
    BY <2>1, <2>3, <2>4, ActorMoves
<1>2. CASE UpdateRestarts(p) \/ Toggle(p)
  <2>1. PICK l \in Mapped, r \in Record :
          /\ r.local # l => table[r.local] = NoHandle
          /\ Replace(l, r)
          /\ StopThen(p, {table[l]}, "list", NoJob)
    BY <1>2, FlippedFacts DEF UpdateRestarts, Toggle
  <2>2. UNCHANGED foreign
    BY <1>2 DEF UpdateRestarts, Toggle
  <2>3. HandleInv' /\ Frame
    BY <2>1, <2>2, ReplaceStep DEF HandleInv
  <2>4. {table[l]} \in SUBSET Handles
    BY FlippedFacts
  <2> QED
    BY <2>1, <2>3, <2>4, StopsThen
<1> QED
  BY <1>1, <1>2

LEMMA ToggleAllKeeps ==
  ASSUME HandleInv, RequestInv, NEW p \in Requests,
         ToggleAll(p) \/ CountUnchanged(p) \/ SwitchNext(p) \/ SwitchedAll(p) \/ SavesElse(p)
  PROVE  HandleInv' /\ Frame /\ RequestInv'
<1>0. JobType(p)
  BY DEF RequestInv
<1>1. CASE ToggleAll(p)
  <2>1. PICK hand \in [todo: SUBSET Locals, target: BOOLEAN] : Goto(p, "count", hand)
    BY <1>1 DEF ToggleAll, Mapped
  <2>2. UNCHANGED <<table, handleVars, foreign>> /\ "count" \in Stages \ {"insert", "read"}
    BY <1>1 DEF ToggleAll, Stages
  <2>3. JobType(p)'
    BY <2>1, <2>2, GotoFacts DEF RequestInv, JobType
  <2> QED
    BY <2>1, <2>2, <2>3, GoesOn
<1>2. CASE CountUnchanged(p)
  <2>1. PICK hand \in SwitchJob : Goto(p, "all", hand)
    BY <1>0, <1>2 DEF CountUnchanged, SwitchJob, JobType
  <2>2. UNCHANGED <<table, handleVars, foreign>> /\ "all" \in Stages \ {"insert", "read"}
    BY <1>2 DEF CountUnchanged, Stages
  <2>3. JobType(p)'
    BY <2>1, <2>2, GotoFacts DEF RequestInv, JobType
  <2> QED
    BY <2>1, <2>2, <2>3, GoesOn
<1>3. CASE SwitchNext(p)
  <2>0. job[p] \in SwitchJob
    BY <1>0, <1>3 DEF SwitchNext, JobType
  <2>1. PICK l \in job[p].todo :
          LET left == [job[p] EXCEPT !.todo = @ \ {l}] IN
          \/ /\ l \in Mapped /\ Replace(l, Flipped(l))
             /\ StopThen(p, {table[l]}, "all", [left EXCEPT !.changed = TRUE])
          \/ Goto(p, "all", left) /\ UNCHANGED <<table, handleVars>>
    BY <1>3 DEF SwitchNext
  <2> DEFINE left == [job[p] EXCEPT !.todo = @ \ {l}]
  <2>2. left \in SwitchJob /\ [left EXCEPT !.changed = TRUE] \in SwitchJob
    BY <2>0 DEF SwitchJob
  <2>3. UNCHANGED foreign
    BY <1>3 DEF SwitchNext
  <2>4. CASE /\ l \in Mapped /\ Replace(l, Flipped(l))
             /\ StopThen(p, {table[l]}, "all", [left EXCEPT !.changed = TRUE])
    <3>1. table[l] \in Handles /\ Flipped(l) \in Record /\ Flipped(l).local = l
      BY <2>4, FlippedFacts
    <3>2. HandleInv' /\ Frame
      BY <2>3, <2>4, <3>1, ReplaceStep DEF HandleInv
    <3>3. {table[l]} \in SUBSET Handles
      BY <3>1
    <3> HIDE DEF left
    <3> QED
      BY <2>2, <2>4, <3>2, <3>3, StopsThen
  <2>5. CASE Goto(p, "all", left) /\ UNCHANGED <<table, handleVars>>
    <3> HIDE DEF left
    <3>1. "all" \in Stages \ {"insert", "read"}
      BY DEF Stages
    <3>2. JobType(p)'
      BY <2>2, <2>5, <3>1, GotoFacts DEF RequestInv, JobType
    <3> QED
      BY <2>3, <2>5, <3>1, <3>2, GoesOn
  <2> QED
    BY <2>1, <2>4, <2>5
<1>4. CASE SwitchedAll(p) \/ SavesElse(p)
  <2>1. PICK stage \in {"list", "idle"} : Goto(p, stage, NoJob)
    BY <1>4 DEF SwitchedAll, SavesElse
  <2>2. UNCHANGED <<table, handleVars, foreign>> /\ stage \in Stages \ {"insert", "read"}
    BY <1>4 DEF SwitchedAll, SavesElse, Stages
  <2>3. JobType(p)'
    BY <2>1, <2>2, GotoFacts DEF RequestInv, JobType
  <2> QED
    BY <2>1, <2>2, <2>3, GoesOn
<1> QED
  BY <1>1, <1>2, <1>3, <1>4

LEMMA ImportKeeps ==
  ASSUME HandleInv, RequestInv, NEW p \in Requests, ImportCommits(p) \/ ImportFails(p)
  PROVE  HandleInv' /\ Frame /\ RequestInv'
<1>1. CASE ImportCommits(p)
  <2>1. HandleInv' /\ Frame
    BY <1>1, CommitStep DEF HandleInv
  <2>2. PICK new \in Incoming, merge \in BOOLEAN :
          StopThen(p, Handed(table, Gone(new, merge)), "list", NoJob)
    BY <1>1 DEF ImportCommits
  <2>3. Handed(table, Gone(new, merge)) \in SUBSET Handles
    BY DEF Handed, Gone, Mapped, HandleInv, HandleType
  <2> QED
    BY <2>1, <2>2, <2>3, StopsThen
<1>2. CASE ImportFails(p)
  <2>1. HandleInv' /\ Frame /\ \E D \in SUBSET Handles : StopThen(p, D, "idle", NoJob)
    BY <1>2, FailedImportStep DEF HandleInv
  <2> QED
    BY <2>1, StopsThen
<1> QED
  BY <1>1, <1>2

LEMMA StopKeeps ==
  ASSUME HandleInv, RequestInv, NEW p \in Requests, StopNext(p) \/ Stopped(p)
  PROVE  HandleInv' /\ Frame /\ RequestInv'
<1>0. /\ pc[p] = "stop" /\ job[p].todo \subseteq Handles
      /\ job[p].next \in {"list", "idle", "all"}
      /\ IF job[p].next = "all" THEN job[p].hand \in SwitchJob ELSE job[p].hand = NoJob
  BY DEF StopNext, Stopped, RequestInv, JobType
<1>1. CASE StopNext(p)
  <2>1. PICK h \in job[p].todo : Abort(h)
    BY <1>1 DEF StopNext
  <2>2. UNCHANGED <<table, mapping, socket, session, foreign, requestVars>>
    BY <1>1 DEF StopNext
  <2>3. table' \in [Locals -> Handles \cup {NoHandle}]
    BY <2>2 DEF HandleInv, HandleType
  <2>4. HandleType' /\ PortInv'
    BY <2>1, <2>2, <2>3, AbortKeeps DEF HandleInv
  <2>5. TableInv' /\ Frame
    BY <2>2, SameTable DEF HandleInv
  <2> QED
    BY <2>2, <2>4, <2>5, NobodyMoves DEF HandleInv
<1>2. CASE Stopped(p)
  <2>1. HandleInv' /\ Frame
    BY <1>2, SameHandles DEF Stopped, HandleInv
  <2>2. PICK h \in job[p].todo : StopThen(p, job[p].todo \ {h}, job[p].next, job[p].hand)
    BY <1>2 DEF Stopped
  <2>3. job[p].todo \ {h} \in SUBSET Handles
    BY <1>0
  <2> QED
    BY <1>0, <2>1, <2>2, <2>3, StopsThen
<1> QED
  BY <1>1, <1>2

\* A listing has the handle of every address.
LEMMA ListingReads ==
  ASSUME HandleInv
  PROVE  Handed(table, Mapped) \in SUBSET Handles /\ Reading(Handed(table, Mapped), {})
<1>1. \A l \in Mapped : /\ table[l] \in Handles /\ mapping[table[l]] \in Record
                        /\ mapping[table[l]].local = l
  BY DEF HandleInv, HandleType, TableInv, Mapped
<1>2. \A h \in Handed(table, Mapped) : \E l \in Mapped : h = table[l]
  BY DEF Handed
<1> QED
  BY <1>1, <1>2 DEF Reading

LEMMA SaveKeeps ==
  ASSUME HandleInv, RequestInv, NEW p \in Requests,
         SaveLists(p) \/ SaveReads(p) \/ SaveWrites(p)
  PROVE  HandleInv' /\ Frame /\ RequestInv'
<1>0. /\ HandleInv' /\ Frame /\ UNCHANGED mapping
  BY SameHandles DEF SaveLists, SaveReads, SaveWrites, HandleInv, handleVars
<1>1. CASE SaveLists(p)
  <2> DEFINE hand == [todo |-> Handed(table, Mapped), image |-> {}]
  <2>1. Goto(p, "read", hand) /\ "read" \in Stages
    BY <1>1 DEF SaveLists, Stages
  <2>2. /\ JobFunction' /\ pc'[p] = "read" /\ job'[p] = hand
        /\ \A q \in Requests \ {p} : pc'[q] = pc[q] /\ job'[q] = job[q]
    BY <2>1, GotoFacts DEF RequestInv
  <2>3. job'[p].todo = Handed(table, Mapped) /\ job'[p].image = {}
    BY <2>2
  <2>4. JobType(p)'
    BY <2>2, ListingReads DEF JobType
  <2>5. Reading(job[p].todo, job[p].image)'
    BY <1>0, <2>3, ListingReads DEF Reading
  <2> QED
    BY <1>0, <2>2, <2>4, <2>5, ActorMoves
<1>2. CASE SaveReads(p)
  <2>0. /\ job[p] \in [todo: SUBSET Handles, image: SUBSET Record]
        /\ Reading(job[p].todo, job[p].image)
    BY <1>2 DEF SaveReads, RequestInv, JobType, ReadInv
  <2>1. PICK h \in job[p].todo :
          Goto(p, "read", [todo |-> job[p].todo \ {h}, image |-> job[p].image \cup {mapping[h]}])
    BY <1>2 DEF SaveReads
  <2> DEFINE hand == [todo |-> job[p].todo \ {h}, image |-> job[p].image \cup {mapping[h]}]
  <2>2. /\ JobFunction' /\ pc'[p] = "read" /\ job'[p] = hand
        /\ \A q \in Requests \ {p} : pc'[q] = pc[q] /\ job'[q] = job[q]
    BY <2>1, GotoFacts DEF RequestInv, Stages
  <2>3. job'[p].todo = job[p].todo \ {h} /\ job'[p].image = job[p].image \cup {mapping[h]}
    BY <2>2
  <2>4. JobType(p)'
    <3>1. hand \in [todo: SUBSET Handles, image: SUBSET Record]
      BY <2>0 DEF Reading
    <3> HIDE DEF hand
    <3> QED
      BY <2>2, <3>1 DEF JobType
  <2>5. Reading(job[p].todo, job[p].image)'
    BY <1>0, <2>0, <2>3 DEF Reading
  <2> QED
    BY <1>0, <2>2, <2>4, <2>5, ActorMoves
<1>3. CASE SaveWrites(p)
  <2>1. Goto(p, "idle", NoJob) /\ "idle" \in Stages \ {"insert", "read"}
    BY <1>3 DEF SaveWrites, Stages
  <2>2. UNCHANGED <<table, handleVars, foreign>>
    BY <1>3 DEF SaveWrites
  <2>3. JobType(p)'
    BY <2>1, GotoFacts DEF RequestInv, JobType
  <2> QED
    BY <2>1, <2>2, <2>3, GoesOn
<1> QED
  BY <1>1, <1>2, <1>3

\* After a start every address of the file that could be bound has a handle of
\* its own, and nobody asks for anything.
LEMMA RestartKeeps ==
  ASSUME HandleType, FileType, Restart
  PROVE  /\ HandleInv' /\ RequestInv'
         /\ \A h \in Handles : task'[h] # "free" => \E l \in Locals : table'[l] = h
<1> USE PortFacts
<1> DEFINE S == {r.local : r \in Restored}
           new == [l \in S |-> CHOOSE r \in Restored : r.local = l]
<1>1. PICK f \in [S -> Handles] :
        /\ \A k, l \in S : f[k] = f[l] => k = l
        /\ table' = [l \in Locals |-> IF l \in S THEN f[l] ELSE NoHandle]
        /\ mapping' = [h \in Handles |->
                        IF h \in DOMAIN Given(new, S, f) THEN Given(new, S, f)[h] ELSE NoRecord]
        /\ task' = [h \in Handles |->
                     IF h \notin DOMAIN Given(new, S, f) THEN "free"
                     ELSE IF Given(new, S, f)[h].enabled THEN "listening" ELSE "parked"]
        /\ socket' = [h \in Handles |->
                       IF h \in DOMAIN Given(new, S, f) /\ Given(new, S, f)[h].enabled
                       THEN <<Given(new, S, f)[h].local, Given(new, S, f)[h].mode>> ELSE NoSocket]
  BY DEF Restart
<1> DEFINE begun == Given(new, S, f)
           H == Handed(f, S)
<1>2. \A l \in S : new[l] \in Record /\ new[l].local = l
  BY DEF FileType, Restored
<1> HIDE DEF S, new
<1>10. RecordsOf(new, S) /\ HandlesFor(f, S)
  BY <1>1, <1>2 DEF RecordsOf, HandlesFor
<1>3. /\ H \subseteq Handles /\ begun \in [H -> Record]
      /\ \A l \in S : f[l] \in H /\ begun[f[l]] = new[l]
      /\ \A h, k \in H : h # k => begun[h].local # begun[k].local
  BY <1>10, GivenFacts
<1>4. /\ table' = [l \in Locals |-> IF l \in S THEN f[l] ELSE NoHandle]
      /\ mapping' = [h \in Handles |-> IF h \in H THEN begun[h] ELSE NoRecord]
      /\ task' = [h \in Handles |->
                   IF h \notin H THEN "free"
                   ELSE IF begun[h].enabled THEN "listening" ELSE "parked"]
      /\ socket' = [h \in Handles |->
                     IF h \in H /\ begun[h].enabled
                     THEN <<begun[h].local, begun[h].mode>> ELSE NoSocket]
  <2>1. DOMAIN begun = H
    BY <1>3
  <2> QED
    BY <1>1, <2>1
<1>5. /\ session' = [h \in Handles |-> FALSE] /\ UNCHANGED foreign
      /\ pc' = [p \in Requests |-> "idle"] /\ job' = [p \in Requests |-> NoJob]
  BY DEF Restart
<1>6. /\ \A h \in H : begun[h] \in Record
      /\ \A h, k \in H : h # k => begun[h].local # begun[k].local
  BY <1>3
<1> HIDE DEF begun, H
<1>7. HandleType'
  <2>1. table' \in [Locals -> Handles \cup {NoHandle}]
    BY <1>4
  <2>2. mapping' \in [Handles -> Record \cup {NoRecord}]
    BY <1>4, <1>6
  <2>3. task' \in [Handles -> {"free", "parked", "listening", "aborted"}]
    BY <1>4
  <2>4. socket' \in [Handles -> Port \cup {NoSocket}]
    BY <1>4, <1>6
  <2> QED
    BY <1>5, <2>1, <2>2, <2>3, <2>4 DEF HandleType
<1>8. PortInv'
  <2>1. \A h \in Handles : socket'[h] # NoSocket =>
          /\ h \in H /\ task'[h] = "listening" /\ mapping'[h] = begun[h]
          /\ socket'[h] = <<begun[h].local, begun[h].mode>> /\ begun[h] \in Record
    BY <1>4, <1>6
  <2>2. \A h \in Handles : socket'[h] # NoSocket =>
          /\ task'[h] \in {"listening", "aborted"}
          /\ mapping'[h] \in Record /\ socket'[h] \in {mapping'[h].local} \X Modes
    <3> SUFFICES ASSUME NEW h \in Handles, socket'[h] # NoSocket
                 PROVE  /\ task'[h] \in {"listening", "aborted"}
                        /\ mapping'[h] \in Record /\ socket'[h] \in {mapping'[h].local} \X Modes
      OBVIOUS
    <3>1. /\ task'[h] = "listening" /\ mapping'[h] = begun[h]
          /\ socket'[h] = <<begun[h].local, begun[h].mode>> /\ begun[h] \in Record
      BY <2>1
    <3>2. begun[h].mode \in Modes
      BY <3>1
    <3> QED
      BY <3>1, <3>2
  <2>3. \A h \in Handles, k \in Handles : h # k /\ socket'[h] # NoSocket => socket'[k] # socket'[h]
    BY <1>6, <2>1
  <2> QED
    BY <1>5, <2>2, <2>3 DEF PortInv
<1>9. TableInv'
  <2> SUFFICES ASSUME NEW l \in Locals, table'[l] # NoHandle
               PROVE  mapping'[table'[l]] \in Record /\ mapping'[table'[l]].local = l
    BY DEF TableInv, Mapped
  <2>1. l \in S /\ table'[l] = f[l]
    BY <1>4
  <2>2. f[l] \in H /\ f[l] \in Handles
    BY <1>1, <1>3, <2>1
  <2> QED
    BY <1>2, <1>3, <1>4, <2>1, <2>2
<1>11. RequestInv'
  BY <1>5 DEF RequestInv, JobFunction, JobType, InsertInv, ReadInv, Stages
<1>12. \A h \in H : \E l \in Locals : table'[l] = h
  <2>1. \A h \in H : \E l \in S : h = f[l]
    BY DEF H, Handed
  <2>2. S \subseteq Locals
    BY DEF S, FileType, Restored
  <2> QED
    BY <1>4, <2>1, <2>2
<1> QED
  BY <1>4, <1>7, <1>8, <1>9, <1>11, <1>12 DEF HandleInv

\* What a request does.
RequestStep(p) ==
  \/ CreateChecks(p) \/ CreateStarts(p) \/ CreateInserts(p)
  \/ Remove(p) \/ UpdateInPlace(p) \/ UpdateRestarts(p) \/ Toggle(p)
  \/ ToggleAll(p) \/ CountUnchanged(p) \/ SwitchNext(p) \/ SwitchedAll(p) \/ SavesElse(p)
  \/ ImportCommits(p) \/ ImportFails(p)
  \/ StopNext(p) \/ Stopped(p)
  \/ SaveLists(p) \/ SaveReads(p) \/ SaveWrites(p)

ListenerStep(h) == ListenerStops(h) \/ ListenerFails(h) \/ SessionStarts(h) \/ SessionEnds(h)

LEMMA NextSteps ==
  ASSUME Next
  PROVE  \/ \E h \in Handles : ListenerStep(h)
         \/ ForeignProgram
         \/ \E p \in Requests : RequestStep(p)
         \/ Restart
  BY DEF Next, ListenerStep, RequestStep

\* The file is what a save has read, or stays.
LEMMA FileStep ==
  ASSUME FileType, RequestInv, NEW p \in Requests, RequestStep(p)
  PROVE  FileType' /\ (file' = file \/ (pc[p] = "read" /\ file' = job[p].image))
<1>1. CASE SaveWrites(p)
  <2>1. job[p].image \subseteq Record
    BY <1>1 DEF SaveWrites, RequestInv, JobType
  <2>2. \/ /\ file' = job[p].image
           /\ behind' = (p \in stale) /\ spoiled' = (p \in stale) /\ unstarted' = {}
        \/ spoiled' = TRUE /\ UNCHANGED <<file, behind, unstarted>>
    BY <1>1 DEF SaveWrites
  <2>3. pc[p] = "read" /\ stale' = stale \ {p}
    BY <1>1 DEF SaveWrites
  <2>4. behind' \in BOOLEAN /\ spoiled' \in BOOLEAN /\ unstarted' \subseteq Record
    <3>1. CASE behind' = (p \in stale) /\ spoiled' = (p \in stale) /\ unstarted' = {}
      BY <3>1
    <3>2. CASE spoiled' = TRUE /\ UNCHANGED <<behind, unstarted>>
      BY <3>2 DEF FileType
    <3> QED
      BY <2>2, <3>1, <3>2
  <2>5. file' \subseteq Record /\ (file' = file \/ file' = job[p].image)
    BY <2>1, <2>2 DEF FileType
  <2> QED
    BY <2>3, <2>4, <2>5 DEF FileType
<1>2. CASE CreateInserts(p)
  BY <1>2 DEF CreateInserts, Insert, Changed, history, FileType
<1>3. CASE Remove(p) \/ UpdateInPlace(p) \/ UpdateRestarts(p) \/ Toggle(p)
  BY <1>3 DEF Remove, UpdateInPlace, UpdateRestarts, Toggle, Replace, Changed, FileType
<1>4. CASE SwitchNext(p)
  BY <1>4 DEF SwitchNext, Replace, Changed, history, FileType
<1>5. CASE ImportCommits(p)
  BY <1>5 DEF ImportCommits, Changed, FileType
<1>6. CASE CreateChecks(p) \/ CreateStarts(p) \/ ToggleAll(p) \/ CountUnchanged(p)
           \/ SwitchedAll(p) \/ SavesElse(p) \/ ImportFails(p)
  BY <1>6 DEF CreateChecks, CreateStarts, ToggleAll, CountUnchanged, SwitchedAll, SavesElse,
              ImportFails,
              history, FileType
<1>7. CASE StopNext(p) \/ Stopped(p) \/ SaveLists(p) \/ SaveReads(p)
  BY <1>7 DEF StopNext, Stopped, SaveLists, SaveReads, history, FileType
<1> QED
  BY <1>1, <1>2, <1>3, <1>4, <1>5, <1>6, <1>7 DEF RequestStep

LEMMA InitHolds == Init => BaseInv
<1> SUFFICES ASSUME Init PROVE BaseInv
  OBVIOUS
<1>1. HandleType /\ PortInv
  BY DEF Init, HandleType, PortInv
<1>2. TableInv /\ RequestInv
  BY DEF Init, TableInv, Mapped, RequestInv, JobFunction, JobType, InsertInv, ReadInv, Stages
<1> QED
  BY <1>1, <1>2 DEF BaseInv, Init, FileType, FileInv

LEMMA RequestKeeps ==
  ASSUME HandleInv, RequestInv, NEW p \in Requests, RequestStep(p)
  PROVE  HandleInv' /\ Frame /\ RequestInv'
BY CreateKeeps, ChangeKeeps, ToggleAllKeeps, ImportKeeps, StopKeeps, SaveKeeps DEF RequestStep

LEMMA StepHolds == BaseInv /\ [Next]_vars => BaseInv'
<1> SUFFICES ASSUME BaseInv, [Next]_vars PROVE BaseInv'
  OBVIOUS
<1>0. HandleInv /\ RequestInv /\ FileType /\ FileInv
  BY DEF BaseInv, HandleInv
<1>1. ASSUME NEW h \in Handles, ListenerStep(h) PROVE BaseInv'
  <2>1. UNCHANGED <<file, requestVars, history>>
    BY <1>1 DEF ListenerStep, ListenerStops, ListenerFails, SessionStarts, SessionEnds
  <2>2. HandleInv' /\ Frame
    BY <1>0, <1>1, ListenerSteps DEF HandleInv, ListenerStep
  <2>3. RequestInv'
    BY <1>0, <2>1, <2>2, NobodyMoves
  <2> QED
    BY <1>0, <2>1, <2>2, <2>3 DEF BaseInv, HandleInv, FileType, FileInv, history
<1>2. CASE ForeignProgram
  <2>1. UNCHANGED <<file, requestVars, history>>
    BY <1>2 DEF ForeignProgram
  <2>2. HandleInv' /\ Frame
    BY <1>0, <1>2, ForeignStep DEF HandleInv
  <2>3. RequestInv'
    BY <1>0, <2>1, <2>2, NobodyMoves
  <2> QED
    BY <1>0, <2>1, <2>2, <2>3 DEF BaseInv, HandleInv, FileType, FileInv, history
<1>3. ASSUME NEW p \in Requests, RequestStep(p) PROVE BaseInv'
  <2>1. HandleInv' /\ RequestInv'
    BY <1>0, <1>3, RequestKeeps
  <2>2. FileType' /\ (file' = file \/ (pc[p] = "read" /\ file' = job[p].image))
    BY <1>0, <1>3, FileStep
  <2>3. FileInv'
    BY <1>0, <2>2 DEF FileInv, RequestInv, ReadInv, Reading
  <2> QED
    BY <2>1, <2>2, <2>3 DEF BaseInv, HandleInv
<1>4. CASE Restart
  <2>1. HandleInv' /\ RequestInv'
    BY <1>0, <1>4, RestartKeeps DEF HandleInv
  <2>2. UNCHANGED file /\ stale' = {} /\ behind' \in BOOLEAN /\ spoiled' \in BOOLEAN
        /\ unstarted' \subseteq file
    BY <1>4 DEF Restart
  <2> QED
    BY <1>0, <2>1, <2>2 DEF BaseInv, HandleInv, FileType, FileInv
<1>5. CASE UNCHANGED vars
  <2>1. HandleInv' /\ Frame
    BY <1>0, <1>5, SameHandles DEF HandleInv, vars
  <2>2. RequestInv'
    BY <1>0, <1>5, <2>1, NobodyMoves DEF vars
  <2> QED
    BY <1>0, <1>5, <2>1, <2>2 DEF BaseInv, HandleInv, FileType, FileInv, vars, history
<1> QED
  BY <1>1, <1>2, <1>3, <1>4, <1>5, NextSteps

LEMMA BaseHolds == Spec => []BaseInv
  BY InitHolds, StepHolds, PTL DEF Spec

\* Every variable keeps its type, no two listeners hold one port, and a socket
\* outlives its task only under a UDP session that shares it.
THEOREM MappingsTypeCorrect == Spec => []TypeOK
<1>1. ASSUME BaseInv PROVE TypeOK
  <2>1. \A p \in Requests :
          IF pc[p] = "stop"
          THEN /\ job[p].todo \subseteq Handles
               /\ job[p].next \in {"list", "idle", "all"}
               /\ job[p].hand \in Jobs
          ELSE job[p] \in Jobs
    <3> SUFFICES ASSUME NEW p \in Requests
                 PROVE  IF pc[p] = "stop"
                        THEN /\ job[p].todo \subseteq Handles
                             /\ job[p].next \in {"list", "idle", "all"}
                             /\ job[p].hand \in Jobs
                        ELSE job[p] \in Jobs
      OBVIOUS
    <3>1. JobType(p) /\ pc[p] \in Stages
      BY <1>1 DEF BaseInv, RequestInv, JobFunction
    <3> QED
      BY <3>1 DEF JobType, SwitchJob, Jobs, Stages
  <2> QED
    BY <1>1, <2>1 DEF BaseInv, HandleType, PortInv, RequestInv, JobFunction, FileType, TypeOK
<1> QED
  BY <1>1, BaseHolds, PTL

\* Whatever requests replace, rename and import, an address leads to the one
\* handle that has its record and its socket.
THEOREM KeysMatchRecords == Spec => []KeyMatchesRecord
<1>1. ASSUME BaseInv PROVE KeyMatchesRecord
  <2> SUFFICES ASSUME NEW l \in Mapped
               PROVE  /\ mapping[table[l]] # NoRecord
                      /\ mapping[table[l]].local = l
                      /\ socket[table[l]] \in {NoSocket} \cup ({l} \X Modes)
                      /\ \A k \in Mapped \ {l} : table[k] # table[l]
    BY DEF KeyMatchesRecord
  <2>1. \A k \in Mapped : /\ table[k] \in Handles /\ mapping[table[k]] \in Record
                          /\ mapping[table[k]].local = k
    BY <1>1 DEF BaseInv, HandleType, TableInv, Mapped
  <2>2. socket[table[l]] \in {NoSocket} \cup ({l} \X Modes)
    BY <1>1, <2>1 DEF BaseInv, PortInv
  <2> QED
    BY <2>1, <2>2, MappingsAssumption
<1> QED
  BY <1>1, BaseHolds, PTL

-----------------------------------------------------------------------------
(* Nothing runs that nobody knows *)

\* Whoever runs is known to the table, or to p that holds it, unless p knew of it
\* neither before nor after.
LEMMA KnownKept ==
  ASSUME NoOrphans, NEW p \in Requests,
         \A q \in Requests \ {p} : pc'[q] = pc[q] /\ job'[q] = job[q],
         \A h \in Handles : Running(h)' =>
           \/ \E l \in Locals : table'[l] = h
           \/ pc'[p] \in {"insert", "stop"} /\ h \in Holds(p)'
           \/ /\ Running(h) /\ \A l \in Locals : table[l] # h
              /\ ~(pc[p] \in {"insert", "stop"} /\ h \in Holds(p))
  PROVE  NoOrphans'
<1> SUFFICES ASSUME NEW h \in Handles, Running(h)', \A l \in Locals : table'[l] # h
             PROVE  \E q \in Requests : pc'[q] \in {"insert", "stop"} /\ h \in Holds(q)'
  BY DEF NoOrphans
<1>1. CASE pc'[p] \in {"insert", "stop"} /\ h \in Holds(p)'
  BY <1>1
<1>2. CASE /\ Running(h) /\ \A l \in Locals : table[l] # h
           /\ ~(pc[p] \in {"insert", "stop"} /\ h \in Holds(p))
  <2>1. PICK q \in Requests : pc[q] \in {"insert", "stop"} /\ h \in Holds(q)
    BY <1>2 DEF NoOrphans
  <2>2. q # p
    BY <1>2, <2>1
  <2>3. pc'[q] \in {"insert", "stop"} /\ h \in Holds(q)'
    BY <2>1, <2>2 DEF Holds
  <2> QED
    BY <2>3
<1> QED
  BY <1>1, <1>2

\* A step that starts nothing, leaves the table and moves p from one stage that
\* holds no listener to another.
LEMMA QuietKept ==
  ASSUME NoOrphans, NEW p \in Requests, pc[p] \notin {"insert", "stop"},
         \A q \in Requests \ {p} : pc'[q] = pc[q] /\ job'[q] = job[q],
         UNCHANGED table, \A h \in Handles : Running(h)' => Running(h)
  PROVE  NoOrphans'
<1>1. \A h \in Handles : Running(h)' =>
        \/ \E l \in Locals : table'[l] = h
        \/ /\ Running(h) /\ \A l \in Locals : table[l] # h
           /\ ~(pc[p] \in {"insert", "stop"} /\ h \in Holds(p))
  OBVIOUS
<1> QED
  BY <1>1, KnownKept

\* A step of no request that starts nothing.
LEMMA NobodyStarts ==
  ASSUME NoOrphans, UNCHANGED <<table, requestVars>>, \A h \in Handles : Running(h)' => Running(h)
  PROVE  NoOrphans'
<1>1. \A p \in Requests : pc'[p] = pc[p] /\ Holds(p)' = Holds(p)
  BY DEF requestVars, Holds
<1> QED
  BY <1>1 DEF NoOrphans

\* The handle of l is stopped by p, which has put a new one in its place.
LEMMA ReplacedKnown ==
  ASSUME HandleInv, RequestInv, NoOrphans, NEW p \in Requests, pc[p] \notin {"insert", "stop"},
         NEW l \in Mapped, NEW r \in Record, Replace(l, r),
         r.local # l => table[r.local] = NoHandle, UNCHANGED foreign,
         NEW next \in {"list", "idle", "all"}, NEW hand,
         IF next = "all" THEN hand \in SwitchJob ELSE hand = NoJob,
         StopThen(p, {table[l]}, next, hand)
  PROVE  NoOrphans'
<1>1. PICK h \in Handles : /\ Unused(h) /\ Begins({h})
                           /\ table' = [table EXCEPT ![l] = NoHandle, ![r.local] = h]
  BY ReplaceStep DEF HandleInv
<1>2. {table[l]} \in SUBSET Handles
  BY FlippedFacts
<1>3. /\ pc'[p] = "stop" /\ job'[p].todo = {table[l]}
      /\ \A q \in Requests \ {p} : pc'[q] = pc[q] /\ job'[q] = job[q]
  BY <1>2, StopFacts DEF RequestInv
<1>4. table'[r.local] = h /\ r.local \in Locals
      /\ \A k \in Locals \ {l} : table[k] # NoHandle => table'[k] = table[k]
  BY <1>1, PortFacts DEF HandleInv, HandleType, Mapped
<1>5. \A k \in Handles : Running(k)' => k = h \/ Running(k)
  BY <1>1 DEF Begins, Running
<1>6. \A k \in Handles : (\E x \in Locals : table[x] = k) =>
        k = table[l] \/ \E x \in Locals : table'[x] = k
  BY <1>4, MappingsAssumption
<1>7. table[l] \in Holds(p)'
  BY <1>3 DEF Holds
<1> QED
  BY <1>3, <1>4, <1>5, <1>6, <1>7, KnownKept

LEMMA CreateKnown ==
  ASSUME HandleInv, RequestInv, NoOrphans, NEW p \in Requests,
         CreateStarts(p) \/ CreateInserts(p)
  PROVE  NoOrphans'
<1>1. CASE CreateStarts(p)
  <2>1. PICK stage \in {"idle", "insert"} : \E hand : Goto(p, stage, hand)
    BY <1>1 DEF CreateStarts
  <2>2. pc[p] = "start" /\ UNCHANGED table /\ \A q \in Requests \ {p} : pc'[q] = pc[q] /\ job'[q] = job[q]
    BY <1>1, <2>1, GotoFacts DEF CreateStarts, RequestInv, Stages
  <2>3. CASE UNCHANGED handleVars
    BY <2>2, <2>3, QuietKept DEF handleVars, Running
  <2>4. CASE \E h \in Handles : /\ Unused(h) /\ Begins({h}) /\ mapping'[h] \in Record
                                /\ pc'[p] = "insert" /\ job'[p] = h
    <3>1. PICK h \in Handles : Begins({h}) /\ pc'[p] = "insert" /\ job'[p] = h
      BY <2>4
    <3>2. h \in Holds(p)' /\ \A k \in Handles : Running(k)' => k = h \/ Running(k)
      BY <3>1 DEF Holds, Begins, Running
    <3>3. pc[p] \notin {"insert", "stop"}
      BY <2>2
    <3>4. \A k \in Handles : Running(k)' =>
            \/ \E l \in Locals : table'[l] = k
            \/ pc'[p] \in {"insert", "stop"} /\ k \in Holds(p)'
            \/ /\ Running(k) /\ \A l \in Locals : table[l] # k
               /\ ~(pc[p] \in {"insert", "stop"} /\ k \in Holds(p))
      BY <2>2, <3>1, <3>2, <3>3
    <3> QED
      BY <2>2, <3>4, KnownKept
  <2> QED
    BY <1>1, <2>3, <2>4, StartStep DEF HandleInv
<1>2. CASE CreateInserts(p)
  <2>1. PICK stage \in {"list", "idle"} : Goto(p, stage, NoJob)
    BY <1>2 DEF CreateInserts, Insert
  <2>2. \A q \in Requests \ {p} : pc'[q] = pc[q] /\ job'[q] = job[q]
    BY <2>1, GotoFacts DEF RequestInv, Stages
  <2>3. pc[p] = "insert" /\ job[p] \in Handles /\ Holds(p) = {job[p]}
        /\ mapping[job[p]] \in Record
    BY <1>2 DEF CreateInserts, RequestInv, JobType, InsertInv, Holds
  <2>4. mapping[job[p]].local \in Locals
    BY <2>3, PortFacts
  <2>5. CASE Insertable(job[p]) /\ Insert(p, job[p])
    <3>1. table' = [table EXCEPT ![mapping[job[p]].local] = job[p]] /\ UNCHANGED task
      BY <2>5 DEF Insert
    <3>2. table[mapping[job[p]].local] = NoHandle
      BY <2>5 DEF Insertable
    <3>3. table'[mapping[job[p]].local] = job[p]
          /\ \A l \in Locals : table[l] # NoHandle => table'[l] = table[l]
      BY <2>4, <3>1, <3>2 DEF HandleInv, HandleType
    <3>4. \A h \in Handles : Running(h)' =>
            \/ \E l \in Locals : table'[l] = h
            \/ /\ Running(h) /\ \A l \in Locals : table[l] # h
               /\ ~(pc[p] \in {"insert", "stop"} /\ h \in Holds(p))
      BY <2>3, <2>4, <3>1, <3>3, MappingsAssumption DEF Running
    <3> QED
      BY <2>2, <3>4, KnownKept
  <2>6. CASE Abort(job[p]) /\ UNCHANGED table
    <3>1. \A h \in Handles : Running(h)' => Running(h) /\ h # job[p]
      BY <2>3, <2>6 DEF Abort, Running, HandleInv, HandleType
    <3>2. \A h \in Handles : Running(h)' =>
            \/ \E l \in Locals : table'[l] = h
            \/ /\ Running(h) /\ \A l \in Locals : table[l] # h
               /\ ~(pc[p] \in {"insert", "stop"} /\ h \in Holds(p))
      BY <2>3, <2>6, <3>1
    <3> QED
      BY <2>2, <3>2, KnownKept
  <2> QED
    BY <1>2, <2>5, <2>6 DEF CreateInserts
<1> QED
  BY <1>1, <1>2

LEMMA ChangeKnown ==
  ASSUME HandleInv, RequestInv, NoOrphans, NEW p \in Requests,
         Remove(p) \/ UpdateRestarts(p) \/ Toggle(p)
  PROVE  NoOrphans'
<1>1. CASE Remove(p)
  <2>1. PICK l \in Mapped : table' = [table EXCEPT ![l] = NoHandle] /\ Abort(table[l])
    BY <1>1 DEF Remove
  <2>2. pc[p] = "idle" /\ \A q \in Requests \ {p} : pc'[q] = pc[q] /\ job'[q] = job[q]
    BY <1>1, GotoFacts DEF Remove, RequestInv, Stages
  <2>3. \A k \in Locals \ {l} : table'[k] = table[k]
    BY <2>1 DEF HandleInv, HandleType
  <2>4. \A h \in Handles : Running(h)' => Running(h) /\ h # table[l]
    BY <2>1 DEF Abort, Running, HandleInv, HandleType
  <2>5. \A h \in Handles : Running(h)' =>
          \/ \E k \in Locals : table'[k] = h
          \/ /\ Running(h) /\ \A k \in Locals : table[k] # h
             /\ ~(pc[p] \in {"insert", "stop"} /\ h \in Holds(p))
    BY <2>2, <2>3, <2>4
  <2> QED
    BY <2>2, <2>5, KnownKept
<1>2. CASE UpdateRestarts(p) \/ Toggle(p)
  <2>1. PICK l \in Mapped, r \in Record :
          /\ r.local # l => table[r.local] = NoHandle
          /\ Replace(l, r)
          /\ StopThen(p, {table[l]}, "list", NoJob)
    BY <1>2, FlippedFacts DEF UpdateRestarts, Toggle
  <2>2. UNCHANGED foreign /\ pc[p] \notin {"insert", "stop"}
    BY <1>2 DEF UpdateRestarts, Toggle
  <2> QED
    BY <2>1, <2>2, ReplacedKnown
<1> QED
  BY <1>1, <1>2

LEMMA ImportKnown ==
  ASSUME HandleInv, RequestInv, NoOrphans, NEW p \in Requests, ImportCommits(p) \/ ImportFails(p)
  PROVE  NoOrphans'
<1>0. pc[p] = "idle"
  BY DEF ImportCommits, ImportFails
<1>1. CASE ImportCommits(p)
  <2>1. PICK new \in Incoming, merge \in BOOLEAN : \E f \in Allocations(Fresh(new)) :
          /\ Begins(Handed(f, Fresh(new)))
          /\ \A l \in Locals : table'[l] = IF l \in Fresh(new) THEN f[l]
                                           ELSE IF l \in Gone(new, merge) THEN NoHandle
                                           ELSE table[l]
          /\ StopThen(p, Handed(table, Gone(new, merge)), "list", NoJob)
    BY <1>1, CommitStep DEF HandleInv
  <2>2. PICK f \in Allocations(Fresh(new)) :
          /\ Begins(Handed(f, Fresh(new)))
          /\ \A l \in Locals : table'[l] = IF l \in Fresh(new) THEN f[l]
                                           ELSE IF l \in Gone(new, merge) THEN NoHandle
                                           ELSE table[l]
          /\ StopThen(p, Handed(table, Gone(new, merge)), "list", NoJob)
    BY <2>1
  <2> DEFINE hs == Handed(table, Gone(new, merge))
             D == Handed(f, Fresh(new))
  <2>3. hs \in SUBSET Handles
    BY DEF Handed, Gone, Mapped, HandleInv, HandleType
  <2>4. /\ hs # {} => pc'[p] = "stop" /\ job'[p].todo = hs
        /\ \A q \in Requests \ {p} : pc'[q] = pc[q] /\ job'[q] = job[q]
    BY <2>2, <2>3, StopFacts DEF RequestInv
  <2>5. Fresh(new) \subseteq Locals /\ \A l \in Fresh(new) : table[l] = NoHandle
    BY DEF Fresh, Incoming, Mapped
  <2>6. \A h \in D : \E l \in Locals : table'[l] = h
    <3>1. \A h \in D : \E l \in Fresh(new) : h = f[l]
      BY DEF Handed
    <3> QED
      BY <2>2, <2>5, <3>1
  <2>7. \A h \in hs : pc'[p] = "stop" /\ h \in Holds(p)'
    BY <2>4 DEF Holds
  <2>8. \A l \in Gone(new, merge) : table[l] \in hs
    BY DEF Handed
  <2>9. \A l \in Locals : \/ table[l] = NoHandle \/ table[l] \in hs \/ table'[l] = table[l]
    BY <2>2, <2>5, <2>8
  <2>10. \A h \in Handles : Running(h)' => h \in D \/ Running(h)
    BY <2>2 DEF Begins, Running
  <2> HIDE DEF hs, D
  <2>11. \A h \in Handles : Running(h)' =>
           \/ \E l \in Locals : table'[l] = h
           \/ pc'[p] \in {"insert", "stop"} /\ h \in Holds(p)'
           \/ /\ Running(h) /\ \A l \in Locals : table[l] # h
              /\ ~(pc[p] \in {"insert", "stop"} /\ h \in Holds(p))
    BY <1>0, <2>6, <2>7, <2>9, <2>10, MappingsAssumption
  <2> QED
    BY <2>4, <2>11, KnownKept
<1>2. CASE ImportFails(p)
  <2>1. PICK D \in SUBSET Handles : Begins(D) /\ StopThen(p, D, "idle", NoJob)
    BY <1>2, FailedImportStep DEF HandleInv
  <2>2. /\ D # {} => pc'[p] = "stop" /\ job'[p].todo = D
        /\ \A q \in Requests \ {p} : pc'[q] = pc[q] /\ job'[q] = job[q]
    BY <2>1, StopFacts DEF RequestInv
  <2>3. UNCHANGED table
    BY <1>2 DEF ImportFails
  <2>4. \A h \in Handles : Running(h)' => h \in D \/ Running(h)
    BY <2>1 DEF Begins, Running
  <2>5. \A h \in D : pc'[p] = "stop" /\ h \in Holds(p)'
    BY <2>2 DEF Holds
  <2>6. \A h \in Handles : Running(h)' =>
          \/ \E l \in Locals : table'[l] = h
          \/ pc'[p] \in {"insert", "stop"} /\ h \in Holds(p)'
          \/ /\ Running(h) /\ \A l \in Locals : table[l] # h
             /\ ~(pc[p] \in {"insert", "stop"} /\ h \in Holds(p))
    BY <1>0, <2>3, <2>4, <2>5
  <2> QED
    BY <2>2, <2>6, KnownKept
<1> QED
  BY <1>1, <1>2

LEMMA StopKnown ==
  ASSUME HandleInv, RequestInv, NoOrphans, NEW p \in Requests, StopNext(p) \/ Stopped(p)
  PROVE  NoOrphans'
<1>1. CASE StopNext(p)
  <2>1. PICK h \in job[p].todo : Abort(h)
    BY <1>1 DEF StopNext
  <2>2. \A k \in Handles : Running(k)' => Running(k)
    BY <2>1 DEF Abort, Running, HandleInv, HandleType
  <2>3. UNCHANGED <<table, requestVars>>
    BY <1>1 DEF StopNext
  <2> QED
    BY <2>2, <2>3, NobodyStarts
<1>2. CASE Stopped(p)
  <2>1. PICK h \in job[p].todo :
          /\ task[h] = "free"
          /\ StopThen(p, job[p].todo \ {h}, job[p].next, job[p].hand)
    BY <1>2 DEF Stopped
  <2>2. /\ pc[p] = "stop" /\ job[p].todo \subseteq Handles
        /\ job[p].next \in {"list", "idle", "all"}
        /\ IF job[p].next = "all" THEN job[p].hand \in SwitchJob ELSE job[p].hand = NoJob
    BY <1>2 DEF Stopped, RequestInv, JobType
  <2> DEFINE left == job[p].todo \ {h}
  <2>3. left \in SUBSET Handles
    BY <2>2
  <2>4. /\ left # {} => pc'[p] = "stop" /\ job'[p].todo = left
        /\ \A q \in Requests \ {p} : pc'[q] = pc[q] /\ job'[q] = job[q]
    BY <2>1, <2>2, <2>3, StopFacts DEF RequestInv
  <2>5. UNCHANGED <<table, task>>
    BY <1>2 DEF Stopped, handleVars
  <2>6. \A k \in Handles : Running(k)' => Running(k) /\ k # h
    BY <2>1, <2>5 DEF Running
  <2>7. \A k \in left : pc'[p] = "stop" /\ k \in Holds(p)'
    BY <2>4 DEF Holds
  <2>8. \A k \in Holds(p) : k = h \/ k \in left
    BY <2>2 DEF Holds
  <2> HIDE DEF left
  <2>9. \A k \in Handles : Running(k)' =>
          \/ \E l \in Locals : table'[l] = k
          \/ pc'[p] \in {"insert", "stop"} /\ k \in Holds(p)'
          \/ /\ Running(k) /\ \A l \in Locals : table[l] # k
             /\ ~(pc[p] \in {"insert", "stop"} /\ k \in Holds(p))
    BY <2>5, <2>6, <2>7, <2>8
  <2> QED
    BY <2>4, <2>9, KnownKept
<1> QED
  BY <1>1, <1>2

LEMMA SwitchKnown ==
  ASSUME HandleInv, RequestInv, NoOrphans, NEW p \in Requests, SwitchNext(p)
  PROVE  NoOrphans'
<1>0. pc[p] = "all" /\ job[p] \in SwitchJob /\ UNCHANGED foreign
  BY DEF SwitchNext, RequestInv, JobType
<1> DEFINE left(l) == [job[p] EXCEPT !.todo = @ \ {l}]
<1>1. PICK l \in job[p].todo :
        \/ /\ l \in Mapped /\ Replace(l, Flipped(l))
           /\ StopThen(p, {table[l]}, "all", [left(l) EXCEPT !.changed = TRUE])
        \/ Goto(p, "all", left(l)) /\ UNCHANGED <<table, handleVars>>
  BY DEF SwitchNext
<1>2. CASE /\ l \in Mapped /\ Replace(l, Flipped(l))
           /\ StopThen(p, {table[l]}, "all", [left(l) EXCEPT !.changed = TRUE])
  <2>1. table[l] \in Handles /\ Flipped(l) \in Record /\ Flipped(l).local = l
    BY <1>2, FlippedFacts
  <2>2. [left(l) EXCEPT !.changed = TRUE] \in SwitchJob
    BY <1>0 DEF SwitchJob
  <2> HIDE DEF left
  <2> QED
    BY <1>0, <1>2, <2>1, <2>2, ReplacedKnown
<1>3. CASE Goto(p, "all", left(l)) /\ UNCHANGED <<table, handleVars>>
  <2>1. \A q \in Requests \ {p} : pc'[q] = pc[q] /\ job'[q] = job[q]
    BY <1>3, GotoFacts DEF RequestInv, Stages
  <2> QED
    BY <1>0, <1>3, <2>1, QuietKept DEF handleVars, Running
<1> QED
  BY <1>1, <1>2, <1>3

\* The steps of a request that start and stop nothing.
LEMMA QuietSteps ==
  ASSUME RequestInv, NoOrphans, NEW p \in Requests,
         \/ CreateChecks(p) \/ UpdateInPlace(p)
         \/ ToggleAll(p) \/ CountUnchanged(p) \/ SwitchedAll(p) \/ SavesElse(p)
         \/ SaveLists(p) \/ SaveReads(p) \/ SaveWrites(p)
  PROVE  NoOrphans'
<1>1. UNCHANGED <<table, task>> /\ pc[p] \notin {"insert", "stop"}
  BY DEF CreateChecks, UpdateInPlace, ToggleAll, CountUnchanged, SwitchedAll, SavesElse, SaveLists,
         SaveReads, SaveWrites, handleVars
<1>2. \E stage \in Stages : \E hand : Goto(p, stage, hand)
  BY DEF CreateChecks, UpdateInPlace, ToggleAll, CountUnchanged, SwitchedAll, SavesElse, SaveLists,
         SaveReads, SaveWrites, Stages
<1>3. \A q \in Requests \ {p} : pc'[q] = pc[q] /\ job'[q] = job[q]
  BY <1>2, GotoFacts DEF RequestInv
<1> QED
  BY <1>1, <1>3, QuietKept DEF Running

LEMMA OrphanStep == BaseInv /\ NoOrphans /\ [Next]_vars => NoOrphans'
<1> SUFFICES ASSUME BaseInv, NoOrphans, [Next]_vars PROVE NoOrphans'
  OBVIOUS
<1>0. HandleInv /\ RequestInv /\ FileType
  BY DEF BaseInv, HandleInv
<1>1. ASSUME NEW h \in Handles, ListenerStep(h) PROVE NoOrphans'
  <2>1. UNCHANGED <<table, requestVars>>
    BY <1>1 DEF ListenerStep, ListenerStops, ListenerFails, SessionStarts, SessionEnds
  <2>2. \A k \in Handles : task'[k] \in {task[k], "free"}
    BY <1>0, <1>1 DEF ListenerStep, ListenerStops, ListenerFails, SessionStarts, SessionEnds,
                      TaskEnds, HandleInv, HandleType
  <2> QED
    BY <2>1, <2>2, NobodyStarts DEF Running
<1>2. CASE ForeignProgram
  BY <1>2, NobodyStarts DEF ForeignProgram, handleVars, Running
<1>3. ASSUME NEW p \in Requests, RequestStep(p) PROVE NoOrphans'
  BY <1>0, <1>3, CreateKnown, ChangeKnown, ImportKnown, StopKnown, SwitchKnown, QuietSteps
     DEF RequestStep
<1>4. CASE Restart
  <2>1. \A h \in Handles : task'[h] # "free" => \E l \in Locals : table'[l] = h
    BY <1>0, <1>4, RestartKeeps DEF HandleInv
  <2> QED
    BY <2>1 DEF NoOrphans, Running
<1>5. CASE UNCHANGED vars
  BY <1>5, NobodyStarts DEF vars, handleVars, Running
<1> QED
  BY <1>1, <1>2, <1>3, <1>4, <1>5, NextSteps

\* However requests meet, whichever bind of an import fails and wherever the
\* process stops, no listener is left that nothing can stop.
THEOREM NothingIsOrphaned == Spec => []NoOrphans
<1>1. Init => NoOrphans
  BY DEF Init, NoOrphans, Running
<1> QED
  BY <1>1, OrphanStep, BaseHolds, PTL DEF Spec

-----------------------------------------------------------------------------
(* The file *)

\* Read and to be read is what the table holds.
Listed(todo, image) ==
  \A r \in Record : r \in Image <=> (r \in image \/ \E h \in todo : mapping[h] = r)

ListedInv ==
  \A p \in Requests : pc[p] = "read" /\ p \notin stale => Listed(job[p].todo, job[p].image)

\* Unless it was written from an outdated listing or not since the last change,
\* the file holds what the table does.
FileCurrent == behind \/ file = Image

SavedInv == ListedInv /\ FileCurrent

\* A change outdates every listing.
LEMMA ChangeOutdates ==
  ASSUME Changed, \A q \in Requests : pc'[q] = "read" => pc[q] = "read"
  PROVE  SavedInv'
  BY DEF Changed, SavedInv, ListedInv, FileCurrent

\* A step after which the table holds what it held.
LEMMA ImageKept ==
  ASSUME HandleInv, RequestInv, UNCHANGED table,
         \A h \in Handles : ~Unused(h) => mapping'[h] = mapping[h]
  PROVE  /\ Image' = Image
         /\ \A q \in Requests : pc[q] = "read" /\ Listed(job[q].todo, job[q].image) =>
              \A r \in Record : r \in Image' <=>
                (r \in job[q].image \/ \E h \in job[q].todo : mapping'[h] = r)
<1>1. \A l \in Mapped : table[l] \in Handles /\ ~Unused(table[l])
  BY DEF Mapped, HandleInv, HandleType, Unused
<1>2. Image' = Image
  BY <1>1 DEF Image, Mapped
<1>3. ASSUME NEW q \in Requests, pc[q] = "read", NEW h \in job[q].todo
      PROVE  mapping'[h] = mapping[h]
  BY <1>3 DEF RequestInv, JobType, Unused, Holds
<1> QED
  BY <1>2, <1>3 DEF Listed

LEMMA SavedKept ==
  ASSUME HandleInv, RequestInv, SavedInv, UNCHANGED <<table, file, history>>,
         \A h \in Handles : ~Unused(h) => mapping'[h] = mapping[h],
         \A q \in Requests : pc'[q] = "read" => pc[q] = "read" /\ job'[q] = job[q]
  PROVE  SavedInv'
<1>1. FileCurrent'
  BY ImageKept DEF SavedInv, FileCurrent, history
<1>2. ASSUME NEW q \in Requests, pc'[q] = "read", q \notin stale'
      PROVE  Listed(job[q].todo, job[q].image)'
  <2>1. pc[q] = "read" /\ job'[q] = job[q] /\ Listed(job[q].todo, job[q].image)
    BY <1>2 DEF SavedInv, ListedInv, history
  <2> QED
    BY <2>1, ImageKept DEF Listed
<1> QED
  BY <1>1, <1>2 DEF SavedInv, ListedInv

\* What is written, of a listing nothing has outdated, is the table.
LEMMA WrittenIsTable ==
  ASSUME HandleInv, RequestInv, SavedInv, NEW p \in Requests, SaveWrites(p), p \notin stale
  PROVE  job[p].image = Image
<1>0. pc[p] = "read" /\ job[p].todo = {}
  BY DEF SaveWrites
<1>1. Listed({}, job[p].image)
  BY <1>0 DEF SavedInv, ListedInv
<1>2. job[p].image \subseteq Record /\ Image \subseteq Record
  BY <1>0 DEF RequestInv, JobType, Image, HandleInv, TableInv
<1> QED
  BY <1>1, <1>2 DEF Listed

\* What a listing lists is the table; reading one more loses nothing; what is
\* written is what was read.
LEMMA SaveSaves ==
  ASSUME HandleInv, RequestInv, SavedInv, NEW p \in Requests,
         SaveLists(p) \/ SaveReads(p) \/ SaveWrites(p)
  PROVE  SavedInv'
<1>1. CASE SaveLists(p)
  <2>1. pc[p] = "list" /\ UNCHANGED <<table, mapping, file, stale, behind>>
        /\ Goto(p, "read", [todo |-> Handed(table, Mapped), image |-> {}])
    BY <1>1 DEF SaveLists, handleVars, history
  <2>2. /\ job'[p].todo = Handed(table, Mapped) /\ job'[p].image = {}
        /\ \A q \in Requests \ {p} : pc'[q] = pc[q] /\ job'[q] = job[q]
    BY <2>1, GotoFacts DEF RequestInv, Stages
  <2>3. Image' = Image /\ FileCurrent'
    BY <2>1 DEF Image, Mapped, SavedInv, FileCurrent
  <2>4. Listed(job[p].todo, job[p].image)'
    <3>1. \A r : r \in Image <=> \E h \in Handed(table, Mapped) : mapping[h] = r
      BY DEF Image, Handed
    <3> QED
      BY <2>1, <2>2, <2>3, <3>1 DEF Listed
  <2>5. \A q \in Requests \ {p} : pc'[q] = "read" /\ q \notin stale' =>
          Listed(job[q].todo, job[q].image)'
    BY <2>1, <2>2, <2>3 DEF SavedInv, ListedInv, Listed
  <2> QED
    BY <2>3, <2>4, <2>5 DEF SavedInv, ListedInv
<1>2. CASE SaveReads(p)
  <2>1. pc[p] = "read" /\ UNCHANGED <<table, mapping, file, stale, behind>>
    BY <1>2 DEF SaveReads, handleVars, history
  <2>2. PICK h \in job[p].todo :
          Goto(p, "read", [todo |-> job[p].todo \ {h}, image |-> job[p].image \cup {mapping[h]}])
    BY <1>2 DEF SaveReads
  <2>3. /\ job'[p].todo = job[p].todo \ {h} /\ job'[p].image = job[p].image \cup {mapping[h]}
        /\ \A q \in Requests \ {p} : pc'[q] = pc[q] /\ job'[q] = job[q]
    BY <2>2, GotoFacts DEF RequestInv, Stages
  <2>4. Image' = Image /\ FileCurrent'
    BY <2>1 DEF Image, Mapped, SavedInv, FileCurrent
  <2>5. ASSUME p \notin stale' PROVE Listed(job[p].todo, job[p].image)'
    <3>1. Listed(job[p].todo, job[p].image)
      BY <2>1, <2>5 DEF SavedInv, ListedInv
    <3>2. \A r \in Record : r \in Image <=>
            \/ r \in job[p].image \cup {mapping[h]}
            \/ \E k \in job[p].todo \ {h} : mapping[k] = r
      BY <3>1 DEF Listed
    <3>3. \A r \in Record : r \in Image' <=>
            \/ r \in job'[p].image
            \/ \E k \in job'[p].todo : mapping'[k] = r
      <4> SUFFICES ASSUME NEW r \in Record
                   PROVE  r \in Image' <=> \/ r \in job'[p].image
                                           \/ \E k \in job'[p].todo : mapping'[k] = r
        OBVIOUS
      <4>1. mapping' = mapping
        BY <2>1
      <4>2. job'[p].todo = job[p].todo \ {h} /\ job'[p].image = job[p].image \cup {mapping[h]}
        BY <2>3
      <4>3. Image' = Image
        BY <2>4
      <4> QED
        BY <3>2, <4>1, <4>2, <4>3, Zenon
    <3> QED
      BY <3>3 DEF Listed
  <2>6. \A q \in Requests \ {p} : pc'[q] = "read" /\ q \notin stale' =>
          Listed(job[q].todo, job[q].image)'
    BY <2>1, <2>3, <2>4 DEF SavedInv, ListedInv, Listed
  <2> QED
    BY <2>4, <2>5, <2>6 DEF SavedInv, ListedInv
<1>3. CASE SaveWrites(p)
  <2>1. /\ pc[p] = "read" /\ job[p].todo = {} /\ UNCHANGED <<table, mapping>>
        /\ stale' = stale \ {p}
        /\ \/ file' = job[p].image /\ behind' = (p \in stale)
           \/ UNCHANGED <<file, behind>>
    BY <1>3 DEF SaveWrites, handleVars
  <2>2. pc'[p] = "idle" /\ \A q \in Requests \ {p} : pc'[q] = pc[q] /\ job'[q] = job[q]
    BY <1>3, GotoFacts DEF SaveWrites, RequestInv, Stages
  <2>3. Image' = Image
    BY <2>1 DEF Image, Mapped
  <2>4. p \notin stale => job[p].image = Image
    BY <1>3, WrittenIsTable
  <2>5. FileCurrent'
    <3>1. CASE p \in stale /\ behind' = (p \in stale)
      BY <3>1 DEF FileCurrent
    <3>2. CASE p \notin stale /\ file' = job[p].image
      BY <2>3, <2>4, <3>2 DEF FileCurrent
    <3>3. CASE UNCHANGED <<file, behind>>
      BY <2>3, <3>3 DEF SavedInv, FileCurrent
    <3> QED
      BY <2>1, <3>1, <3>2, <3>3
  <2>6. \A q \in Requests \ {p} : pc'[q] = "read" /\ q \notin stale' =>
          Listed(job[q].todo, job[q].image)'
    BY <2>1, <2>2, <2>3 DEF SavedInv, ListedInv, Listed
  <2> QED
    BY <2>2, <2>5, <2>6 DEF SavedInv, ListedInv
<1> QED
  BY <1>1, <1>2, <1>3

\* After a start the table holds what of the file could be bound.
LEMMA RestartSaves ==
  ASSUME FileType, FileInv, Restart
  PROVE  SavedInv' /\ Image' = Restored
<1>1. \A p \in Requests : pc'[p] # "read"
  BY DEF Restart
<1>2. Image' = Restored
  <2> DEFINE S == {r.local : r \in Restored}
             new == [l \in S |-> CHOOSE r \in Restored : r.local = l]
  <2>1. PICK f \in [S -> Handles] :
          /\ \A k, l \in S : f[k] = f[l] => k = l
          /\ table' = [l \in Locals |-> IF l \in S THEN f[l] ELSE NoHandle]
          /\ mapping' = [h \in Handles |->
                          IF h \in DOMAIN Given(new, S, f) THEN Given(new, S, f)[h] ELSE NoRecord]
    BY DEF Restart
  <2>2. \A l \in S : new[l] \in Record /\ new[l].local = l /\ new[l] \in Restored
    BY DEF FileType, Restored
  <2>3. \A r \in Restored : r.local \in S /\ new[r.local] = r
    <3>1. \A r \in Restored : r.local \in S /\ new[r.local] \in Restored /\ new[r.local].local = r.local
      BY <2>2
    <3>2. \A r, s \in Restored : r.local = s.local => r = s
      BY DEF FileInv, Restored
    <3> QED
      BY <3>1, <3>2
  <2>4. S \subseteq Locals
    BY PortFacts DEF FileType, Restored
  <2> HIDE DEF S, new
  <2>5. RecordsOf(new, S) /\ HandlesFor(f, S)
    BY <2>1, <2>2 DEF RecordsOf, HandlesFor
  <2>6. /\ Handed(f, S) \subseteq Handles /\ \A l \in S : f[l] \in Handed(f, S)
        /\ Given(new, S, f) \in [Handed(f, S) -> Record]
        /\ \A l \in S : Given(new, S, f)[f[l]] = new[l]
    BY <2>5, GivenFacts
  <2>7. \A l \in S : table'[l] = f[l] /\ mapping'[f[l]] = new[l] /\ f[l] # NoHandle
    BY <2>1, <2>4, <2>6, MappingsAssumption
  <2>8. \A l \in Locals : table'[l] # NoHandle <=> l \in S
    BY <2>1, <2>7
  <2>9. \A r : r \in Image' <=> \E l \in S : r = new[l]
    BY <2>4, <2>7, <2>8 DEF Image, Mapped
  <2> QED
    BY <2>2, <2>3, <2>9
<1>3. FileCurrent'
  BY <1>2 DEF Restart, FileCurrent
<1> QED
  BY <1>1, <1>2, <1>3 DEF SavedInv, ListedInv

\* Only a save lists or reads, and a step moves no request but its own.
LEMMA RequestMoves ==
  ASSUME HandleInv, RequestInv, NEW p \in Requests,
         \/ CreateChecks(p) \/ CreateStarts(p) \/ CreateInserts(p)
         \/ Remove(p) \/ UpdateInPlace(p) \/ UpdateRestarts(p) \/ Toggle(p)
         \/ ToggleAll(p) \/ CountUnchanged(p) \/ SwitchNext(p) \/ SwitchedAll(p) \/ SavesElse(p)
         \/ ImportCommits(p) \/ ImportFails(p) \/ StopNext(p) \/ Stopped(p)
  PROVE  pc'[p] # "read" /\ \A q \in Requests \ {p} : pc'[q] = pc[q] /\ job'[q] = job[q]
<1>1. ASSUME \/ CreateChecks(p) \/ CreateStarts(p) \/ ImportFails(p)
             \/ ToggleAll(p) \/ CountUnchanged(p) \/ SwitchedAll(p)
             \/ SavesElse(p) \/ StopNext(p) \/ Stopped(p)
      PROVE  pc'[p] # "read" /\ \A q \in Requests \ {p} : pc'[q] = pc[q] /\ job'[q] = job[q]
  <2>1. CASE StopNext(p)
    BY <2>1 DEF StopNext, requestVars
  <2>2. CASE Stopped(p)
    <3>1. PICK h \in job[p].todo :
            StopThen(p, job[p].todo \ {h}, job[p].next, job[p].hand)
      BY <2>2 DEF Stopped
    <3> DEFINE left == job[p].todo \ {h}
    <3>2. /\ left \in SUBSET Handles
          /\ job[p].next \in {"list", "idle", "all"}
          /\ IF job[p].next = "all" THEN job[p].hand \in SwitchJob ELSE job[p].hand = NoJob
      BY <2>2 DEF Stopped, RequestInv, JobType
    <3>3. StopThen(p, left, job[p].next, job[p].hand)
      BY <3>1
    <3> HIDE DEF left
    <3>4. JobFunction
      BY DEF RequestInv
    <3>5. /\ pc'[p] \in {"stop", job[p].next}
          /\ \A q \in Requests \ {p} : pc'[q] = pc[q] /\ job'[q] = job[q]
      BY <3>2, <3>3, <3>4, StopFacts
    <3> QED
      BY <3>2, <3>5
  <2>3. CASE ImportFails(p)
    <3>1. PICK D \in SUBSET Handles : StopThen(p, D, "idle", NoJob)
      BY <2>3, FailedImportStep DEF HandleInv
    <3> QED
      BY <3>1, StopFacts DEF RequestInv
  <2>4. CASE CreateChecks(p) \/ CreateStarts(p) \/ ToggleAll(p) \/ CountUnchanged(p) \/ SwitchedAll(p)
             \/ SavesElse(p)
    <3>1. \E stage \in Stages \ {"read"} : \E hand : Goto(p, stage, hand)
      <4>1. CASE CreateChecks(p) \/ CreateStarts(p)
        BY <4>1 DEF CreateChecks, CreateStarts, Stages
      <4>2. CASE ToggleAll(p) \/ CountUnchanged(p)
        BY <4>2 DEF ToggleAll, CountUnchanged, Stages
      <4>3. CASE SwitchedAll(p) \/ SavesElse(p)
        BY <4>3 DEF SwitchedAll, SavesElse, Stages
      <4> QED
        BY <2>4, <4>1, <4>2, <4>3
    <3> QED
      BY <3>1, GotoFacts DEF RequestInv
  <2> QED
    BY <1>1, <2>1, <2>2, <2>3, <2>4
<1>2. ASSUME \/ CreateInserts(p) \/ Remove(p) \/ UpdateInPlace(p) \/ UpdateRestarts(p)
             \/ Toggle(p) \/ SwitchNext(p) \/ ImportCommits(p)
      PROVE  pc'[p] # "read" /\ \A q \in Requests \ {p} : pc'[q] = pc[q] /\ job'[q] = job[q]
  <2>1. CASE CreateInserts(p) \/ Remove(p) \/ UpdateInPlace(p)
    <3>1. \E stage \in Stages \ {"read"} : Goto(p, stage, NoJob)
      <4>1. CASE CreateInserts(p)
        BY <4>1 DEF CreateInserts, Insert, Stages
      <4>2. CASE Remove(p) \/ UpdateInPlace(p)
        BY <4>2 DEF Remove, UpdateInPlace, Stages
      <4> QED
        BY <2>1, <4>1, <4>2
    <3> QED
      BY <3>1, GotoFacts DEF RequestInv
  <2>2. CASE UpdateRestarts(p) \/ Toggle(p)
    <3>1. PICK l \in Mapped : StopThen(p, {table[l]}, "list", NoJob)
      BY <2>2 DEF UpdateRestarts, Toggle
    <3>2. {table[l]} \in SUBSET Handles
      BY FlippedFacts
    <3> QED
      BY <3>1, <3>2, StopFacts DEF RequestInv
  <2>3. CASE SwitchNext(p)
    <3>1. job[p] \in SwitchJob
      BY <2>3 DEF SwitchNext, RequestInv, JobType
    <3> DEFINE left(l) == [job[p] EXCEPT !.todo = @ \ {l}]
    <3>2. PICK l \in job[p].todo :
            \/ l \in Mapped /\ StopThen(p, {table[l]}, "all", [left(l) EXCEPT !.changed = TRUE])
            \/ Goto(p, "all", left(l))
      BY <2>3 DEF SwitchNext
    <3>3. CASE l \in Mapped /\ StopThen(p, {table[l]}, "all", [left(l) EXCEPT !.changed = TRUE])
      <4>1. {table[l]} \in SUBSET Handles
        BY <3>3, FlippedFacts
      <4>2. [left(l) EXCEPT !.changed = TRUE] \in SwitchJob
        BY <3>1 DEF SwitchJob
      <4> HIDE DEF left
      <4> QED
        BY <3>3, <4>1, <4>2, StopFacts DEF RequestInv
    <3>4. CASE Goto(p, "all", left(l))
      BY <3>4, GotoFacts DEF RequestInv, Stages
    <3> QED
      BY <3>2, <3>3, <3>4
  <2>4. CASE ImportCommits(p)
    <3>1. PICK new \in Incoming, merge \in BOOLEAN :
            StopThen(p, Handed(table, Gone(new, merge)), "list", NoJob)
      BY <2>4 DEF ImportCommits
    <3>2. Handed(table, Gone(new, merge)) \in SUBSET Handles
      BY DEF Handed, Gone, Mapped, HandleInv, HandleType
    <3> QED
      BY <3>1, <3>2, StopFacts DEF RequestInv
  <2> QED
    BY <1>2, <2>1, <2>2, <2>3, <2>4
<1> QED
  BY <1>1, <1>2

\* The steps of a request that leave what the table holds.
LEMMA QuietImage ==
  ASSUME HandleInv, NEW p \in Requests,
         \/ CreateChecks(p) \/ CreateStarts(p) \/ ImportFails(p)
         \/ ToggleAll(p) \/ CountUnchanged(p) \/ SwitchedAll(p) \/ SavesElse(p)
         \/ StopNext(p) \/ Stopped(p)
  PROVE  \A h \in Handles : ~Unused(h) => mapping'[h] = mapping[h]
<1>1. CASE CreateStarts(p)
  BY <1>1 DEF CreateStarts, Started, handleVars
<1>2. CASE ImportFails(p)
  BY <1>2, FailedImportStep DEF HandleInv
<1> QED
  BY <1>1, <1>2 DEF CreateChecks, ToggleAll, CountUnchanged, SwitchedAll, SavesElse,
                    StopNext, Stopped,
                    handleVars

LEMMA SameImageSteps ==
  ASSUME HandleInv, RequestInv, SavedInv, NEW p \in Requests,
         \/ CreateChecks(p) \/ CreateStarts(p) \/ ImportFails(p)
         \/ ToggleAll(p) \/ CountUnchanged(p) \/ SwitchedAll(p)
         \/ SavesElse(p) \/ StopNext(p) \/ Stopped(p)
  PROVE  SavedInv'
<1>1. UNCHANGED <<table, file, history>>
  BY DEF CreateChecks, CreateStarts, ImportFails, ToggleAll, CountUnchanged, SwitchedAll, SavesElse,
         StopNext,
         Stopped
<1>2. \A h \in Handles : ~Unused(h) => mapping'[h] = mapping[h]
  BY QuietImage
<1>3. pc'[p] # "read" /\ \A q \in Requests \ {p} : pc'[q] = pc[q] /\ job'[q] = job[q]
  BY RequestMoves
<1> QED
  BY <1>1, <1>2, <1>3, SavedKept

\* The steps of a request that may change what the table holds.
LEMMA NewImageSteps ==
  ASSUME HandleInv, RequestInv, SavedInv, NEW p \in Requests,
         \/ CreateInserts(p) \/ Remove(p) \/ UpdateInPlace(p) \/ UpdateRestarts(p) \/ Toggle(p)
         \/ SwitchNext(p) \/ ImportCommits(p)
  PROVE  SavedInv'
<1>1. pc'[p] # "read" /\ \A q \in Requests \ {p} : pc'[q] = pc[q] /\ job'[q] = job[q]
  BY RequestMoves
<1>2. \/ Changed
      \/ UNCHANGED <<table, file, history>> /\ \A h \in Handles : ~Unused(h) => mapping'[h] = mapping[h]
  <2>1. CASE CreateInserts(p)
    BY <2>1 DEF CreateInserts, Insert
  <2>2. CASE Remove(p) \/ UpdateInPlace(p) \/ ImportCommits(p)
    BY <2>2 DEF Remove, UpdateInPlace, ImportCommits
  <2>3. CASE UpdateRestarts(p) \/ Toggle(p)
    BY <2>3 DEF UpdateRestarts, Toggle, Replace
  <2>4. CASE SwitchNext(p)
    <3>1. Changed \/ UNCHANGED <<table, handleVars, history>>
      BY <2>4 DEF SwitchNext, Replace
    <3>2. UNCHANGED file
      BY <2>4 DEF SwitchNext
    <3> QED
      BY <3>1, <3>2 DEF handleVars
  <2> QED
    BY <2>1, <2>2, <2>3, <2>4
<1>3. \A q \in Requests : pc'[q] = "read" => pc[q] = "read" /\ job'[q] = job[q]
  BY <1>1
<1> QED
  BY <1>2, <1>3, ChangeOutdates, SavedKept

LEMMA SavedStep == BaseInv /\ SavedInv /\ [Next]_vars => SavedInv'
<1> SUFFICES ASSUME BaseInv, SavedInv, [Next]_vars PROVE SavedInv'
  OBVIOUS
<1>0. HandleInv /\ RequestInv /\ FileType /\ FileInv
  BY DEF BaseInv, HandleInv
<1>1. ASSUME UNCHANGED <<table, mapping, file, requestVars, history>> PROVE SavedInv'
  <2>1. /\ UNCHANGED <<table, file, history>>
        /\ \A h \in Handles : ~Unused(h) => mapping'[h] = mapping[h]
        /\ \A q \in Requests : pc'[q] = "read" => pc[q] = "read" /\ job'[q] = job[q]
    BY <1>1 DEF requestVars
  <2> QED
    BY <1>0, <2>1, SavedKept
<1>2. ASSUME NEW h \in Handles, ListenerStep(h) PROVE SavedInv'
  <2>1. UNCHANGED <<table, mapping, file, requestVars, history>>
    BY <1>2 DEF ListenerStep, ListenerStops, ListenerFails, SessionStarts, SessionEnds
  <2> QED
    BY <1>1, <2>1
<1>3. CASE ForeignProgram
  BY <1>1, <1>3 DEF ForeignProgram, handleVars
<1>4. ASSUME NEW p \in Requests, RequestStep(p) PROVE SavedInv'
  BY <1>0, <1>4, NewImageSteps, SameImageSteps, SaveSaves DEF RequestStep
<1>5. CASE Restart
  BY <1>0, <1>5, RestartSaves
<1>6. CASE UNCHANGED vars
  BY <1>1, <1>6 DEF vars, handleVars
<1> QED
  BY <1>2, <1>3, <1>4, <1>5, <1>6, NextSteps

LEMMA SavedHolds == Spec => []SavedInv
<1>1. Init => SavedInv
  BY DEF Init, SavedInv, ListedInv, FileCurrent, Image, Mapped
<1> QED
  BY <1>1, SavedStep, BaseHolds, PTL DEF Spec

-----------------------------------------------------------------------------
(* The limit *)

\* Neither the table nor what a save reads, or has written, exceeds the limit.
ReadBound ==
  \A p \in Requests : pc[p] = "read" =>
    /\ IsFiniteSet(job[p].todo) /\ IsFiniteSet(job[p].image)
    /\ Room(Cardinality(job[p].todo) + Cardinality(job[p].image))

FileBound == IsFiniteSet(file) /\ Room(Cardinality(file))

TableBound == Room(Cardinality(Mapped))

BoundInv == ReadBound /\ FileBound /\ TableBound

LEMMA ImageBound ==
  ASSUME NEW S, IsFiniteSet(S), NEW T, NEW f \in [S -> T], \A t \in T : \E s \in S : f[s] = t
  PROVE  IsFiniteSet(T) /\ Cardinality(T) \in Nat /\ Cardinality(T) <= Cardinality(S)
<1>1. f \in Surjection(S, T)
  BY DEF Surjection
<1> QED
  BY <1>1, FS_Surjection, FS_CardinalityType

LEMMA MappedFinite == IsFiniteSet(Mapped) /\ Cardinality(Mapped) \in Nat
  BY MappingsAssumption, FS_Subset, FS_CardinalityType DEF Mapped

\* Less than what there is room for has room.
LEMMA LessFits ==
  ASSUME NEW m \in Nat, NEW n \in Nat, Room(m), n <= m
  PROVE  Room(n)
  BY MappingsAssumption DEF Room

LEMMA SmallerFits ==
  ASSUME TableBound, Mapped' \subseteq Mapped
  PROVE  TableBound'
<1>1. Cardinality(Mapped') <= Cardinality(Mapped) /\ Cardinality(Mapped') \in Nat
  BY MappedFinite, FS_Subset, FS_CardinalityType
<1> QED
  BY <1>1, MappedFinite, LessFits DEF TableBound, Room

\* A replaced mapping takes the room of the old one.
LEMMA ReplaceFits ==
  ASSUME HandleInv, TableBound, NEW l \in Mapped, NEW r \in Record, Replace(l, r)
  PROVE  TableBound'
<1>1. PICK h \in Handles : table' = [table EXCEPT ![l] = NoHandle, ![r.local] = h]
  BY DEF Replace
<1>2. Mapped' = (Mapped \ {l}) \cup {r.local}
  BY <1>1, PortFacts, MappingsAssumption DEF Mapped, HandleInv, HandleType
<1>3. /\ IsFiniteSet(Mapped \ {l}) /\ Cardinality(Mapped \ {l}) = Cardinality(Mapped) - 1
  BY MappedFinite, FS_RemoveElement
<1>4. Cardinality(Mapped') <= Cardinality(Mapped) /\ Cardinality(Mapped') \in Nat
  <2> DEFINE S == Mapped \ {l}
  <2>1. IsFiniteSet(S) /\ Cardinality(S) \in Nat
    BY <1>3, FS_CardinalityType
  <2> HIDE DEF S
  <2>2. Cardinality(S \cup {r.local}) \in {Cardinality(S), Cardinality(S) + 1}
    BY <2>1, FS_AddElement
  <2>3. Cardinality(S \cup {r.local}) \in Nat
        /\ Cardinality(S \cup {r.local}) <= Cardinality(S) + 1
    BY <2>1, <2>2
  <2>4. Cardinality(Mapped') \in Nat /\ Cardinality(Mapped') <= Cardinality(S) + 1
    BY <1>2, <2>3 DEF S
  <2>5. Cardinality(S) + 1 = Cardinality(Mapped)
    BY <1>3, MappedFinite DEF S
  <2> QED
    BY <2>4, <2>5
<1> QED
  BY <1>4, MappedFinite, LessFits DEF TableBound, Room

LEMMA InsertFits ==
  ASSUME HandleInv, RequestInv, TableBound, NEW p \in Requests, CreateInserts(p)
  PROVE  TableBound'
<1>1. CASE UNCHANGED table
  BY <1>1, SmallerFits DEF Mapped
<1>2. CASE Insertable(job[p]) /\ Insert(p, job[p])
  <2>1. job[p] \in Handles /\ mapping[job[p]] \in Record
    BY DEF CreateInserts, RequestInv, JobType, InsertInv
  <2> DEFINE l == mapping[job[p]].local
  <2>2. table' = [table EXCEPT ![l] = job[p]] /\ l \in Locals
    BY <1>2, <2>1, PortFacts DEF Insert
  <2>3. l \notin Mapped /\ Room(Cardinality(Mapped) + 1)
    BY <1>2 DEF Insertable, Mapped
  <2>4. Mapped' = Mapped \cup {l}
    BY <2>1, <2>2, MappingsAssumption DEF Mapped, HandleInv, HandleType
  <2>5. Cardinality(Mapped') = Cardinality(Mapped) + 1
    BY <2>3, <2>4, MappedFinite, FS_AddElement
  <2> QED
    BY <2>3, <2>5 DEF TableBound, Room
<1> QED
  BY <1>1, <1>2 DEF CreateInserts

LEMMA CommitFits ==
  ASSUME HandleInv, NEW p, ImportCommits(p)
  PROVE  TableBound'
<1>1. PICK new \in Incoming, merge \in BOOLEAN : \E f \in Allocations(Fresh(new)) :
        /\ Begins(Handed(f, Fresh(new))) /\ Fits(new, merge)
        /\ \A l \in Locals : table'[l] = IF l \in Fresh(new) THEN f[l]
                                         ELSE IF l \in Gone(new, merge) THEN NoHandle
                                         ELSE table[l]
  BY CommitStep DEF HandleInv
<1>2. PICK f \in Allocations(Fresh(new)) :
        /\ Fits(new, merge)
        /\ \A l \in Locals : table'[l] = IF l \in Fresh(new) THEN f[l]
                                         ELSE IF l \in Gone(new, merge) THEN NoHandle
                                         ELSE table[l]
  BY <1>1
<1>3. \A l \in Fresh(new) : f[l] # NoHandle
  BY MappingsAssumption DEF Allocations
<1>4. DOMAIN new \subseteq Locals
  BY DEF Incoming
<1>5. Mapped' = DOMAIN new \cup (IF merge THEN Mapped ELSE {})
  BY <1>2, <1>3, <1>4 DEF Mapped, Fresh, Gone
<1> QED
  BY <1>2, <1>5 DEF Fits, TableBound, Room

LEMMA RestartFits ==
  ASSUME FileType, FileBound, Restart
  PROVE  BoundInv'
<1> DEFINE S == {r.local : r \in Restored}
<1>1. PICK f \in [S -> Handles] : table' = [l \in Locals |-> IF l \in S THEN f[l] ELSE NoHandle]
  BY DEF Restart
<1>2. IsFiniteSet(Restored) /\ Cardinality(Restored) \in Nat
      /\ Cardinality(Restored) <= Cardinality(file) /\ Cardinality(file) \in Nat
  BY FS_Subset, FS_CardinalityType DEF FileBound, Restored
<1>3. IsFiniteSet(S) /\ Cardinality(S) \in Nat /\ Cardinality(S) <= Cardinality(Restored)
  <2> DEFINE g == [r \in Restored |-> r.local]
  <2>1. g \in [Restored -> S] /\ \A l \in S : \E r \in Restored : g[r] = l
    OBVIOUS
  <2> HIDE DEF g, S
  <2> QED
    BY <1>2, <2>1, ImageBound
<1>4. Mapped' = S
  <2>1. S \subseteq Locals
    BY PortFacts DEF FileType, Restored
  <2> HIDE DEF S
  <2> QED
    BY <1>1, <2>1, MappingsAssumption DEF Mapped
<1>5. TableBound'
  <2> HIDE DEF S
  <2> QED
    BY <1>2, <1>3, <1>4, LessFits DEF FileBound, TableBound, Room
<1> QED
  BY <1>5 DEF Restart, BoundInv, ReadBound, FileBound, Room

\* Everyone but p reads on as before.
LEMMA ReadBoundKept ==
  ASSUME ReadBound, NEW p, \A q \in Requests \ {p} : pc'[q] = pc[q] /\ job'[q] = job[q],
         pc'[p] = "read" => /\ IsFiniteSet(job'[p].todo) /\ IsFiniteSet(job'[p].image)
                            /\ Room(Cardinality(job'[p].todo) + Cardinality(job'[p].image))
  PROVE  ReadBound'
  BY DEF ReadBound, Room

LEMMA SaveFits ==
  ASSUME HandleInv, RequestInv, BoundInv, NEW p \in Requests,
         SaveLists(p) \/ SaveReads(p) \/ SaveWrites(p)
  PROVE  BoundInv'
<1>0. TableBound'
  BY SmallerFits DEF SaveLists, SaveReads, SaveWrites, BoundInv, Mapped
<1>1. CASE SaveLists(p)
  <2> DEFINE S == Handed(table, Mapped)
  <2>1. Goto(p, "read", [todo |-> S, image |-> {}]) /\ UNCHANGED file
    BY <1>1 DEF SaveLists
  <2>2. /\ job'[p].todo = S /\ job'[p].image = {}
        /\ \A q \in Requests \ {p} : pc'[q] = pc[q] /\ job'[q] = job[q]
    BY <2>1, GotoFacts DEF RequestInv, Stages
  <2>3. IsFiniteSet(S) /\ Cardinality(S) \in Nat /\ Cardinality(S) <= Cardinality(Mapped)
    <3> DEFINE g == [l \in Mapped |-> table[l]]
    <3>1. g \in [Mapped -> S] /\ \A h \in S : \E l \in Mapped : g[l] = h
      BY DEF Handed
    <3> HIDE DEF g, S
    <3> QED
      BY <3>1, MappedFinite, ImageBound
  <2>4. Room(Cardinality(S))
    BY <2>3, MappedFinite, LessFits DEF BoundInv, TableBound
  <2> HIDE DEF S
  <2>5. IsFiniteSet({}) /\ Cardinality(S) + Cardinality({}) = Cardinality(S)
    BY <2>3, FS_EmptySet
  <2>6. ReadBound'
    BY <2>2, <2>3, <2>4, <2>5, ReadBoundKept DEF BoundInv
  <2> QED
    BY <1>0, <2>1, <2>6 DEF BoundInv, FileBound, Room
<1>2. CASE SaveReads(p)
  <2>1. pc[p] = "read" /\ UNCHANGED file
    BY <1>2 DEF SaveReads
  <2>2. PICK h \in job[p].todo :
          Goto(p, "read", [todo |-> job[p].todo \ {h}, image |-> job[p].image \cup {mapping[h]}])
    BY <1>2 DEF SaveReads
  <2> DEFINE S == job[p].todo
             T == job[p].image
             m == mapping[h]
  <2>3. /\ job'[p].todo = S \ {h} /\ job'[p].image = T \cup {m}
        /\ \A q \in Requests \ {p} : pc'[q] = pc[q] /\ job'[q] = job[q]
    BY <2>2, GotoFacts DEF RequestInv, Stages
  <2>4. /\ IsFiniteSet(S) /\ IsFiniteSet(T) /\ h \in S
        /\ Room(Cardinality(S) + Cardinality(T))
    BY <2>1 DEF BoundInv, ReadBound
  <2> HIDE DEF S, T, m
  <2>5. /\ IsFiniteSet(S \ {h}) /\ Cardinality(S \ {h}) = Cardinality(S) - 1
        /\ Cardinality(S) \in Nat /\ Cardinality(S \ {h}) \in Nat
    BY <2>4, FS_RemoveElement, FS_CardinalityType
  <2>6. /\ IsFiniteSet(T \cup {m}) /\ Cardinality(T) \in Nat
        /\ Cardinality(T \cup {m}) \in {Cardinality(T), Cardinality(T) + 1}
    BY <2>4, FS_AddElement, FS_CardinalityType
  <2>7. Room(Cardinality(S \ {h}) + Cardinality(T \cup {m}))
    <3>1. /\ Cardinality(S \ {h}) + Cardinality(T \cup {m}) \in Nat
          /\ Cardinality(S) + Cardinality(T) \in Nat
          /\ Cardinality(S \ {h}) + Cardinality(T \cup {m}) <= Cardinality(S) + Cardinality(T)
      BY <2>5, <2>6
    <3> QED
      BY <2>4, <3>1, LessFits
  <2>8. ReadBound'
    BY <2>3, <2>5, <2>6, <2>7, ReadBoundKept DEF BoundInv
  <2> QED
    BY <1>0, <2>1, <2>8 DEF BoundInv, FileBound, Room
<1>3. CASE SaveWrites(p)
  <2>1. /\ pc[p] = "read" /\ job[p].todo = {}
        /\ file' = job[p].image \/ UNCHANGED file
    BY <1>3 DEF SaveWrites
  <2>2. pc'[p] = "idle" /\ \A q \in Requests \ {p} : pc'[q] = pc[q] /\ job'[q] = job[q]
    BY <1>3, GotoFacts DEF SaveWrites, RequestInv, Stages
  <2>3. ReadBound'
    BY <2>2, ReadBoundKept DEF BoundInv
  <2> DEFINE T == job[p].image
  <2>4. IsFiniteSet(T) /\ Room(Cardinality({}) + Cardinality(T))
    BY <2>1 DEF BoundInv, ReadBound
  <2> HIDE DEF T
  <2>5. Cardinality({}) + Cardinality(T) = Cardinality(T)
    BY <2>4, FS_EmptySet, FS_CardinalityType
  <2>6. FileBound'
    BY <2>1, <2>4, <2>5 DEF BoundInv, FileBound, Room, T
  <2> QED
    BY <1>0, <2>3, <2>6 DEF BoundInv
<1> QED
  BY <1>1, <1>2, <1>3

\* Who is not about to read afterwards, and does not write, leaves the bounds of
\* listings and file.
LEMMA OtherFits ==
  ASSUME BoundInv, NEW p \in Requests, pc'[p] # "read",
         \A q \in Requests \ {p} : pc'[q] = pc[q] /\ job'[q] = job[q], UNCHANGED file
  PROVE  ReadBound' /\ FileBound'
<1>1. ReadBound'
  BY ReadBoundKept DEF BoundInv
<1> QED
  BY <1>1 DEF BoundInv, FileBound, Room

\* A step of a request that saves nothing leaves or makes room in the table.
LEMMA TableFits ==
  ASSUME HandleInv, RequestInv, TableBound, NEW p \in Requests,
         \/ CreateChecks(p) \/ CreateStarts(p) \/ CreateInserts(p)
         \/ Remove(p) \/ UpdateInPlace(p) \/ UpdateRestarts(p) \/ Toggle(p)
         \/ ToggleAll(p) \/ CountUnchanged(p) \/ SwitchNext(p) \/ SwitchedAll(p) \/ SavesElse(p)
         \/ ImportCommits(p) \/ ImportFails(p) \/ StopNext(p) \/ Stopped(p)
  PROVE  TableBound' /\ UNCHANGED file
<1>1. CASE CreateInserts(p)
  BY <1>1, InsertFits DEF CreateInserts
<1>2. CASE Remove(p)
  <2>1. PICK l \in Mapped : table' = [table EXCEPT ![l] = NoHandle]
    BY <1>2 DEF Remove
  <2>2. Mapped' \subseteq Mapped
    BY <2>1 DEF Mapped, HandleInv, HandleType
  <2> QED
    BY <1>2, <2>2, SmallerFits DEF Remove
<1>3. CASE UpdateRestarts(p)
  BY <1>3, ReplaceFits DEF UpdateRestarts
<1>4. CASE Toggle(p)
  <2>1. PICK l \in Mapped : Replace(l, Flipped(l))
    BY <1>4 DEF Toggle
  <2>2. Flipped(l) \in Record
    BY FlippedFacts DEF HandleInv
  <2> QED
    BY <1>4, <2>1, <2>2, ReplaceFits DEF Toggle
<1>5. CASE SwitchNext(p)
  <2>1. UNCHANGED table \/ \E l \in Mapped : Replace(l, Flipped(l))
    BY <1>5 DEF SwitchNext
  <2>2. ASSUME NEW l \in Mapped, Replace(l, Flipped(l)) PROVE TableBound'
    <3>1. Flipped(l) \in Record
      BY FlippedFacts DEF HandleInv
    <3> QED
      BY <2>2, <3>1, ReplaceFits
  <2>3. ASSUME UNCHANGED table PROVE TableBound'
    BY <2>3, SmallerFits DEF Mapped
  <2> QED
    BY <1>5, <2>1, <2>2, <2>3 DEF SwitchNext
<1>6. CASE ImportCommits(p)
  BY <1>6, CommitFits DEF ImportCommits
<1>7. CASE \/ CreateChecks(p) \/ CreateStarts(p) \/ UpdateInPlace(p) \/ ToggleAll(p)
           \/ CountUnchanged(p) \/ SwitchedAll(p)
           \/ SavesElse(p) \/ ImportFails(p) \/ StopNext(p) \/ Stopped(p)
  <2>1. UNCHANGED <<table, file>>
    BY <1>7 DEF CreateChecks, CreateStarts, UpdateInPlace, ToggleAll, CountUnchanged, SwitchedAll, SavesElse,
                
                ImportFails, StopNext, Stopped
  <2> QED
    BY <2>1, SmallerFits DEF Mapped
<1> QED
  BY <1>1, <1>2, <1>3, <1>4, <1>5, <1>6, <1>7

LEMMA BoundStep == BaseInv /\ BoundInv /\ [Next]_vars => BoundInv'
<1> SUFFICES ASSUME BaseInv, BoundInv, [Next]_vars PROVE BoundInv'
  OBVIOUS
<1>0. HandleInv /\ RequestInv /\ FileType /\ FileBound /\ TableBound
  BY DEF BaseInv, HandleInv, BoundInv
<1>1. ASSUME UNCHANGED <<table, file, requestVars>> PROVE BoundInv'
  <2>1. TableBound'
    BY <1>0, <1>1, SmallerFits DEF Mapped
  <2>2. ReadBound' /\ FileBound'
    BY <1>1 DEF BoundInv, ReadBound, FileBound, Room, requestVars
  <2> QED
    BY <2>1, <2>2 DEF BoundInv
<1>2. ASSUME NEW h \in Handles, ListenerStep(h) PROVE BoundInv'
  <2>1. UNCHANGED <<table, file, requestVars>>
    BY <1>2 DEF ListenerStep, ListenerStops, ListenerFails, SessionStarts, SessionEnds
  <2> QED
    BY <1>1, <2>1
<1>3. CASE ForeignProgram
  BY <1>1, <1>3 DEF ForeignProgram
<1>4. ASSUME NEW p \in Requests, RequestStep(p) PROVE BoundInv'
  <2>1. CASE SaveLists(p) \/ SaveReads(p) \/ SaveWrites(p)
    BY <1>0, <2>1, SaveFits
  <2>2. CASE ~(SaveLists(p) \/ SaveReads(p) \/ SaveWrites(p))
    <3>1. \/ CreateChecks(p) \/ CreateStarts(p) \/ CreateInserts(p)
          \/ Remove(p) \/ UpdateInPlace(p) \/ UpdateRestarts(p) \/ Toggle(p)
          \/ ToggleAll(p) \/ CountUnchanged(p) \/ SwitchNext(p) \/ SwitchedAll(p) \/ SavesElse(p)
          \/ ImportCommits(p) \/ ImportFails(p) \/ StopNext(p) \/ Stopped(p)
      BY <1>4, <2>2 DEF RequestStep
    <3>2. TableBound' /\ UNCHANGED file
      BY <1>0, <3>1, TableFits
    <3>3. pc'[p] # "read" /\ \A q \in Requests \ {p} : pc'[q] = pc[q] /\ job'[q] = job[q]
      BY <1>0, <3>1, RequestMoves
    <3> QED
      BY <3>2, <3>3, OtherFits DEF BoundInv
  <2> QED
    BY <2>1, <2>2
<1>5. CASE Restart
  BY <1>0, <1>5, RestartFits
<1>6. CASE UNCHANGED vars
  BY <1>1, <1>6 DEF vars
<1> QED
  BY <1>2, <1>3, <1>4, <1>5, <1>6, NextSteps

LEMMA BoundHolds == Spec => []BoundInv
<1>1. Init => BoundInv
  <2> SUFFICES ASSUME Init PROVE BoundInv
    OBVIOUS
  <2>1. Mapped = {} /\ file = {} /\ \A p \in Requests : pc[p] # "read"
    BY DEF Init, Mapped
  <2>2. IsFiniteSet({}) /\ Cardinality({}) = 0
    BY FS_EmptySet
  <2> QED
    BY <2>1, <2>2, MappingsAssumption DEF BoundInv, ReadBound, FileBound, TableBound, Room
<1> QED
  BY <1>1, BoundStep, BaseHolds, PTL DEF Spec

\* The table never exceeds max_mappings: a create that found room before its bind
\* looks again before it inserts, an update takes the old mapping's room, an import
\* counts what it swaps in, and a restart restores no more than was written.
THEOREM LimitIsKept == Spec => []Capacity
<1>1. BoundInv => Capacity
  BY DEF BoundInv, TableBound, Room, Capacity
<1> QED
  BY <1>1, BoundHolds, PTL

-----------------------------------------------------------------------------
(* Every change is saved *)

\* The request will list, or is writing a listing that nothing has outdated.
WillSave(p) ==
  \/ pc[p] = "list"
  \/ pc[p] = "read" /\ p \notin stale
  \/ pc[p] = "all" /\ job[p].changed
  \/ pc[p] = "stop" /\ job[p].next = "list"
  \/ pc[p] = "stop" /\ job[p].next = "all" /\ job[p].hand.changed

\* The file follows the table, or somebody will see to it.
FollowsInv == spoiled \/ (\E p \in Requests : WillSave(p)) \/ file = Image \cup unstarted

\* The table holds what it held, and who had to save has.
LEMMA StillToSave ==
  ASSUME FollowsInv, UNCHANGED <<file, history>>, Image' = Image, NEW p \in Requests,
         \A q \in Requests \ {p} : pc'[q] = pc[q] /\ job'[q] = job[q],
         WillSave(p) => WillSave(p)'
  PROVE  FollowsInv'
<1>1. UNCHANGED <<stale, spoiled, unstarted>>
  BY DEF history
<1>2. \A q \in Requests \ {p} : WillSave(q) => WillSave(q)'
  BY <1>1 DEF WillSave
<1> QED
  BY <1>1, <1>2 DEF FollowsInv

\* A step of a list of handles to stop: what comes after it is still to come.
LEMMA StopWillSave ==
  ASSUME RequestInv, NEW p \in Requests, NEW hs \in SUBSET Handles,
         NEW next \in {"list", "idle", "all"}, NEW hand,
         IF next = "all" THEN hand \in SwitchJob ELSE hand = NoJob,
         StopThen(p, hs, next, hand),
         next = "list" \/ (next = "all" /\ hand.changed)
  PROVE  WillSave(p)'
<1>1. CASE hs = {}
  <2>1. Goto(p, next, hand) /\ next \in Stages
    BY <1>1 DEF StopThen, Stages
  <2>2. pc'[p] = next /\ job'[p] = hand
    BY <2>1, GotoFacts DEF RequestInv
  <2> QED
    BY <2>2 DEF WillSave
<1>2. CASE hs # {}
  <2> DEFINE j == [todo |-> hs, next |-> next, hand |-> hand]
  <2>1. Goto(p, "stop", j) /\ "stop" \in Stages
    BY <1>2 DEF StopThen, Stages
  <2>2. pc'[p] = "stop" /\ job'[p] = j
    BY <2>1, GotoFacts DEF RequestInv
  <2> QED
    BY <2>2 DEF WillSave
<1> QED
  BY <1>1, <1>2

LEMMA QuietFollows ==
  ASSUME HandleInv, RequestInv, FollowsInv, NEW p \in Requests,
         \/ CreateChecks(p) \/ CreateStarts(p) \/ ImportFails(p)
         \/ ToggleAll(p) \/ CountUnchanged(p) \/ SwitchedAll(p)
         \/ SavesElse(p) \/ StopNext(p) \/ Stopped(p)
  PROVE  FollowsInv'
<1>1. \A q \in Requests \ {p} : pc'[q] = pc[q] /\ job'[q] = job[q]
  BY RequestMoves
<1>2. UNCHANGED <<table, file, history>> /\ pc[p] # "read"
  BY DEF CreateChecks, CreateStarts, ImportFails, ToggleAll, CountUnchanged, SwitchedAll, SavesElse,
         StopNext,
         Stopped
<1>3. WillSave(p) => WillSave(p)'
  <2>1. CASE CreateChecks(p) \/ CreateStarts(p) \/ ImportFails(p) \/ ToggleAll(p) \/ CountUnchanged(p)
    BY <2>1 DEF WillSave, CreateChecks, CreateStarts, ImportFails, ToggleAll, CountUnchanged
  <2>2. CASE SwitchedAll(p)
    <3>1. WillSave(p) => pc'[p] = "list"
      BY <2>2, GotoFacts DEF SwitchedAll, SavesElse, WillSave, Stages, RequestInv
    <3> QED
      BY <3>1 DEF WillSave
  <2>5. CASE SavesElse(p)
    BY <2>5 DEF SavesElse, WillSave
  <2>3. CASE StopNext(p)
    BY <1>2, <2>3 DEF StopNext, WillSave, requestVars, history
  <2>4. CASE Stopped(p)
    <3>1. PICK h \in job[p].todo :
            StopThen(p, job[p].todo \ {h}, job[p].next, job[p].hand)
      BY <2>4 DEF Stopped
    <3> DEFINE left == job[p].todo \ {h}
    <3>2. /\ left \in SUBSET Handles
          /\ job[p].next \in {"list", "idle", "all"}
          /\ IF job[p].next = "all" THEN job[p].hand \in SwitchJob ELSE job[p].hand = NoJob
      BY <2>4 DEF Stopped, RequestInv, JobType
    <3>3. StopThen(p, left, job[p].next, job[p].hand) /\ pc[p] = "stop"
      BY <2>4, <3>1 DEF Stopped
    <3>4. WillSave(p) => job[p].next = "list" \/ (job[p].next = "all" /\ job[p].hand.changed)
      BY <3>3 DEF WillSave
    <3> HIDE DEF left
    <3> QED
      BY <3>2, <3>3, <3>4, StopWillSave
  <2> QED
    BY <2>1, <2>2, <2>3, <2>4, <2>5
<1>4. Image' = Image
  BY <1>2, QuietImage, ImageKept
<1> QED
  BY <1>1, <1>2, <1>3, <1>4, StillToSave

LEMMA ChangeFollows ==
  ASSUME HandleInv, RequestInv, FollowsInv, NEW p \in Requests,
         \/ CreateInserts(p) \/ Remove(p) \/ UpdateInPlace(p) \/ UpdateRestarts(p) \/ Toggle(p)
         \/ SwitchNext(p) \/ ImportCommits(p)
  PROVE  FollowsInv'
<1>1. \A q \in Requests \ {p} : pc'[q] = pc[q] /\ job'[q] = job[q]
  BY RequestMoves
<1>2. pc[p] # "read"
  BY DEF CreateInserts, Remove, UpdateInPlace, UpdateRestarts, Toggle, SwitchNext, ImportCommits
<1>3. ASSUME WillSave(p)' PROVE FollowsInv'
  BY <1>3 DEF FollowsInv
<1>10. ASSUME UNCHANGED <<table, mapping>> PROVE Image' = Image
  BY <1>10 DEF Image, Mapped
<1>4. ASSUME Goto(p, "list", NoJob) PROVE WillSave(p)'
  BY <1>4, GotoFacts DEF WillSave, RequestInv, Stages
<1>5. CASE CreateInserts(p)
  <2>1. CASE Insert(p, job[p])
    BY <1>3, <1>4, <2>1 DEF Insert
  <2>2. CASE UNCHANGED <<table, history>>
    <3>1. ~WillSave(p) /\ UNCHANGED <<mapping, file>>
      BY <1>5 DEF CreateInserts, WillSave
    <3> QED
      BY <1>1, <1>10, <2>2, <3>1, StillToSave
  <2> QED
    BY <1>5, <2>1, <2>2 DEF CreateInserts
<1>6. CASE Remove(p) \/ UpdateInPlace(p)
  BY <1>3, <1>4, <1>6 DEF Remove, UpdateInPlace
<1>7. CASE UpdateRestarts(p) \/ Toggle(p)
  <2>1. PICK l \in Mapped : StopThen(p, {table[l]}, "list", NoJob)
    BY <1>7 DEF UpdateRestarts, Toggle
  <2>2. {table[l]} \in SUBSET Handles
    BY FlippedFacts
  <2>3. WillSave(p)'
    BY <2>1, <2>2, StopWillSave
  <2>4. Changed
    BY <1>7 DEF UpdateRestarts, Toggle, Replace
  <2> QED
    BY <1>3, <2>3, <2>4
<1>8. CASE SwitchNext(p)
  <2>1. job[p] \in SwitchJob /\ pc[p] = "all"
    BY <1>8 DEF SwitchNext, RequestInv, JobType
  <2> DEFINE left(l) == [job[p] EXCEPT !.todo = @ \ {l}]
  <2>2. PICK l \in job[p].todo :
          \/ /\ l \in Mapped /\ Changed
             /\ StopThen(p, {table[l]}, "all", [left(l) EXCEPT !.changed = TRUE])
          \/ Goto(p, "all", left(l)) /\ UNCHANGED <<table, mapping, history>>
    BY <1>8 DEF SwitchNext, Replace, handleVars
  <2>3. CASE /\ l \in Mapped /\ Changed
             /\ StopThen(p, {table[l]}, "all", [left(l) EXCEPT !.changed = TRUE])
    <3>1. {table[l]} \in SUBSET Handles
      BY <2>3, FlippedFacts
    <3>2. [left(l) EXCEPT !.changed = TRUE] \in SwitchJob /\ [left(l) EXCEPT !.changed = TRUE].changed
      BY <2>1 DEF SwitchJob
    <3> HIDE DEF left
    <3>3. WillSave(p)'
      BY <2>3, <3>1, <3>2, StopWillSave
    <3> QED
      BY <1>3, <2>3, <3>3
  <2>4. CASE Goto(p, "all", left(l)) /\ UNCHANGED <<table, mapping, history>>
    <3>1. left(l).changed = job[p].changed
      BY <2>1 DEF SwitchJob
    <3> HIDE DEF left
    <3>2. pc'[p] = "all" /\ job'[p] = left(l)
      BY <2>4, GotoFacts DEF RequestInv, Stages
    <3>3. WillSave(p) => WillSave(p)'
      BY <2>1, <3>1, <3>2 DEF WillSave
    <3> QED
      BY <1>1, <1>8, <1>10, <2>4, <3>3, StillToSave DEF SwitchNext
  <2> QED
    BY <2>2, <2>3, <2>4
<1>9. CASE ImportCommits(p)
  <2>1. PICK new \in Incoming, merge \in BOOLEAN :
          StopThen(p, Handed(table, Gone(new, merge)), "list", NoJob)
    BY <1>9 DEF ImportCommits
  <2>2. Handed(table, Gone(new, merge)) \in SUBSET Handles
    BY DEF Handed, Gone, Mapped, HandleInv, HandleType
  <2>3. WillSave(p)'
    BY <2>1, <2>2, StopWillSave
  <2>4. Changed
    BY <1>9 DEF ImportCommits
  <2> QED
    BY <1>3, <2>3, <2>4
<1> QED
  BY <1>5, <1>6, <1>7, <1>8, <1>9

LEMMA SaveFollows ==
  ASSUME HandleInv, RequestInv, SavedInv, FollowsInv, stale \subseteq {q \in Requests : pc[q] = "read"},
         NEW p \in Requests, SaveLists(p) \/ SaveReads(p) \/ SaveWrites(p)
  PROVE  FollowsInv'
<1>0. UNCHANGED <<table, mapping>> /\ Image' = Image
  BY DEF SaveLists, SaveReads, SaveWrites, handleVars, Image, Mapped
<1>1. CASE SaveLists(p)
  <2>1. /\ pc[p] = "list" /\ UNCHANGED <<file, history>>
        /\ Goto(p, "read", [todo |-> Handed(table, Mapped), image |-> {}])
    BY <1>1 DEF SaveLists
  <2>2. pc'[p] = "read" /\ p \notin stale'
    BY <2>1, GotoFacts DEF RequestInv, Stages, history
  <2> QED
    BY <2>2 DEF WillSave, FollowsInv
<1>2. CASE SaveReads(p)
  <2>1. pc[p] = "read" /\ UNCHANGED <<file, history>>
    BY <1>2 DEF SaveReads
  <2>2. PICK h \in job[p].todo :
          Goto(p, "read", [todo |-> job[p].todo \ {h}, image |-> job[p].image \cup {mapping[h]}])
    BY <1>2 DEF SaveReads
  <2>3. pc'[p] = "read" /\ \A q \in Requests \ {p} : pc'[q] = pc[q] /\ job'[q] = job[q]
    BY <2>2, GotoFacts DEF RequestInv, Stages
  <2>4. WillSave(p) => WillSave(p)'
    BY <2>1, <2>3 DEF WillSave, history
  <2> QED
    BY <1>0, <2>1, <2>3, <2>4, StillToSave
<1>3. CASE SaveWrites(p)
  <2>1. \/ file' = job[p].image /\ spoiled' = (p \in stale) /\ unstarted' = {}
        \/ spoiled' = TRUE
    BY <1>3 DEF SaveWrites
  <2>2. p \notin stale => job[p].image = Image
    BY <1>3, WrittenIsTable
  <2> QED
    BY <1>0, <2>1, <2>2 DEF FollowsInv
<1> QED
  BY <1>1, <1>2, <1>3

\* Only who is reading can have an outdated listing.
StaleInv == stale \subseteq {p \in Requests : pc[p] = "read"}

LEMMA StaleStep == BaseInv /\ StaleInv /\ [Next]_vars => StaleInv'
<1> SUFFICES ASSUME BaseInv, StaleInv, [Next]_vars PROVE StaleInv'
  OBVIOUS
<1>0. HandleInv /\ RequestInv
  BY DEF BaseInv, HandleInv
<1>1. ASSUME UNCHANGED <<requestVars, history>> PROVE StaleInv'
  BY <1>1 DEF requestVars, history, StaleInv
<1>2. ASSUME NEW h \in Handles, ListenerStep(h) PROVE StaleInv'
  BY <1>1, <1>2 DEF ListenerStep, ListenerStops, ListenerFails, SessionStarts, SessionEnds
<1>3. ASSUME NEW p \in Requests, RequestStep(p) PROVE StaleInv'
  <2>1. CASE SaveLists(p) \/ SaveReads(p)
    <3>1. /\ UNCHANGED stale
          /\ \E hand : Goto(p, "read", hand)
      BY <2>1 DEF SaveLists, SaveReads, history
    <3>2. pc'[p] = "read" /\ \A q \in Requests \ {p} : pc'[q] = pc[q]
      BY <1>0, <3>1, GotoFacts DEF RequestInv, Stages
    <3> QED
      BY <3>1, <3>2 DEF StaleInv
  <2>2. CASE SaveWrites(p)
    <3>1. stale' = stale \ {p} /\ \A q \in Requests \ {p} : pc'[q] = pc[q]
      BY <1>0, <2>2, GotoFacts DEF SaveWrites, RequestInv, Stages
    <3> QED
      BY <3>1 DEF StaleInv
  <2>3. CASE ~(SaveLists(p) \/ SaveReads(p) \/ SaveWrites(p))
    <3>1. \A q \in Requests \ {p} : pc'[q] = pc[q]
      BY <1>0, <1>3, <2>3, RequestMoves DEF RequestStep
    <3>2. pc[p] # "read"
      BY <1>3, <2>3 DEF RequestStep, CreateChecks, CreateStarts, CreateInserts, Remove, UpdateInPlace,
            UpdateRestarts, Toggle, ToggleAll, CountUnchanged, SwitchNext, SwitchedAll,
            SavesElse, ImportCommits, ImportFails, StopNext, Stopped
    <3>3. stale' \subseteq stale \cup {q \in Requests : pc[q] = "read"}
      <4>1. Changed \/ UNCHANGED stale
        BY <1>3, <2>3 DEF RequestStep, CreateChecks, CreateStarts, CreateInserts, Insert, Remove, UpdateInPlace,
            UpdateRestarts, Toggle, Replace, ToggleAll, CountUnchanged, SwitchNext, SwitchedAll,
            SavesElse, ImportCommits, ImportFails, StopNext, Stopped, history
      <4> QED
        BY <4>1 DEF Changed
    <3> QED
      BY <3>1, <3>2, <3>3 DEF StaleInv
  <2> QED
    BY <2>1, <2>2, <2>3
<1>4. CASE Restart
  BY <1>4 DEF Restart, StaleInv
<1> QED
  BY <1>1, <1>2, <1>3, <1>4, NextSteps DEF vars, ForeignProgram

LEMMA FollowsStep ==
  BaseInv /\ SavedInv /\ StaleInv /\ FollowsInv /\ [Next]_vars => FollowsInv'
<1> SUFFICES ASSUME BaseInv, SavedInv, StaleInv, FollowsInv, [Next]_vars PROVE FollowsInv'
  OBVIOUS
<1>0. HandleInv /\ RequestInv /\ FileType /\ FileInv
  BY DEF BaseInv, HandleInv
<1>1. ASSUME UNCHANGED <<table, mapping, file, requestVars, history>> PROVE FollowsInv'
  <2>1. Image' = Image /\ UNCHANGED <<pc, job, stale, spoiled, unstarted, file>>
    BY <1>1 DEF Image, Mapped, requestVars, history
  <2>2. \A q \in Requests : WillSave(q)' = WillSave(q)
    BY <2>1 DEF WillSave
  <2> QED
    BY <2>1, <2>2 DEF FollowsInv
<1>2. ASSUME NEW h \in Handles, ListenerStep(h) PROVE FollowsInv'
  BY <1>1, <1>2 DEF ListenerStep, ListenerStops, ListenerFails, SessionStarts, SessionEnds
<1>3. CASE ForeignProgram
  BY <1>1, <1>3 DEF ForeignProgram, handleVars
<1>4. ASSUME NEW p \in Requests, RequestStep(p) PROVE FollowsInv'
  BY <1>0, <1>4, QuietFollows, ChangeFollows, SaveFollows DEF RequestStep, StaleInv
<1>5. CASE Restart
  <2>1. Image' = Restored
    BY <1>0, <1>5, RestartSaves
  <2>2. unstarted' = file \ Restored /\ UNCHANGED file /\ Restored \subseteq file
    BY <1>5 DEF Restart, Restored
  <2> QED
    BY <2>1, <2>2 DEF FollowsInv
<1>6. CASE UNCHANGED vars
  BY <1>1, <1>6 DEF vars, handleVars
<1> QED
  BY <1>2, <1>3, <1>4, <1>5, <1>6, NextSteps

\* Whenever every request is answered, the file is the table and what the last
\* start left out, unless the last write failed or was of an outdated listing: for
\* any number of requests that change, stop, switch and save at once, every change
\* is followed by a save that sees it.
THEOREM FileFollowsTable == Spec => []FileFollows
<1>1. Init => StaleInv /\ FollowsInv
  BY DEF Init, StaleInv, FollowsInv, Image, Mapped
<1>2. FollowsInv => FileFollows
  BY DEF FollowsInv, WillSave, Quiescent, FileFollows
<1> QED
  BY <1>1, <1>2, StaleStep, FollowsStep, BaseHolds, SavedHolds, PTL DEF Spec
==============================================================================
