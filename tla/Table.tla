------------------------------- MODULE Table --------------------------------
(***************************************************************************)
(* What the port mappings promise their user, whatever requests, listeners *)
(* and saves do inside: an address has one record; each change is made at  *)
(* once and whole, to a free address or a taken one as it asks for, and    *)
(* within the limit; a file that is current has exactly the table, and a   *)
(* start brings back nothing that was not saved.                           *)
(***************************************************************************)
EXTENDS Naturals, FiniteSets

CONSTANTS Locals, Record, MaxMappings, NoRecord

VARIABLES
  records,   \* the record of an address
  file,      \* what is saved
  current    \* it was saved after the last change

vars == <<records, file, current>>

Used == {l \in Locals : records[l] # NoRecord}

Contents == {records[l] : l \in Used}

Room(n) == MaxMappings = 0 \/ n <= MaxMappings

OnePerAddress(S) == \A r, s \in S : r.local = s.local => r = s

\* The table with the records S.
TableOf(S) ==
  [l \in Locals |-> IF \E r \in S : r.local = l THEN CHOOSE r \in S : r.local = l ELSE NoRecord]

Init == records = TableOf({}) /\ file = {} /\ current = TRUE

Change(new) == current' = FALSE /\ UNCHANGED file /\ records' = new

Create(r) ==
  /\ r.local \notin Used
  /\ Room(Cardinality(Used) + 1)
  /\ Change([records EXCEPT ![r.local] = r])

Remove(l) == l \in Used /\ Change([records EXCEPT ![l] = NoRecord])

\* An update may move a mapping to a free address.
Update(l, r) ==
  /\ l \in Used /\ r.local \notin Used \ {l}
  /\ Change([records EXCEPT ![l] = NoRecord, ![r.local] = r])

\* An import replaces the whole table, or lays S over it.
Import(S, merge) ==
  LET kept == {r \in Contents : merge /\ \A s \in S : s.local # r.local} IN
  /\ Change(TableOf(S \cup kept))
  /\ OnePerAddress(S)
  /\ Room(Cardinality(S \cup kept))

Save(image) ==
  /\ file' = image
  /\ OnePerAddress(image) /\ Room(Cardinality(image))
  /\ current' \in BOOLEAN /\ (current' => image = Contents)
  /\ UNCHANGED records

Restart ==
  /\ \E S \in SUBSET file : records' = TableOf(S) /\ current' = (S = file)
  /\ UNCHANGED file

Next ==
  \/ \E r \in Record : Create(r)
  \/ \E l \in Locals : Remove(l) \/ \E r \in Record : Update(l, r)
  \/ \E S \in SUBSET Record : Save(S) \/ \E merge \in BOOLEAN : Import(S, merge)
  \/ Restart

Spec == Init /\ [][Next]_vars
=============================================================================
