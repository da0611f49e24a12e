----------------------------- MODULE TableProofs -----------------------------
(***************************************************************************)
(* The port mappings implement Table: every step of a request, a listener  *)
(* or a save is one of Table's operations on the whole table, or none.     *)
(***************************************************************************)
EXTENDS MappingsProofs

\* A step of Table, or none.
Kept == [Contract!Next]_(Contract!vars)

-----------------------------------------------------------------------------
(* What the table shows *)

LEMMA SameCardinality ==
  ASSUME NEW S
  PROVE  Contract!Cardinality(S) = Cardinality(S)
  BY DEF Contract!Cardinality, Cardinality

LEMMA RecordsFacts ==
  ASSUME HandleType, TableInv
  PROVE  /\ \A l \in Mapped : /\ Records[l] = mapping[table[l]] /\ Records[l] \in Record
                              /\ Records[l].local = l /\ Records[l] # NoRecord
         /\ \A l \in Locals \ Mapped : Records[l] = NoRecord
         /\ Contract!Used = Mapped /\ Contract!Contents = Image
<1>1. \A l \in Mapped : /\ Records[l] = mapping[table[l]] /\ Records[l] \in Record
                        /\ Records[l].local = l /\ Records[l] # NoRecord
  BY MappingsAssumption DEF Records, TableInv, Mapped
<1>2. \A l \in Locals \ Mapped : Records[l] = NoRecord
  BY DEF Records
<1>3. Contract!Used = Mapped
  BY <1>1, <1>2 DEF Contract!Used, Mapped
<1>4. Contract!Contents = Image
  BY <1>1, <1>3 DEF Contract!Contents, Image
<1> QED
  BY <1>1, <1>2, <1>3, <1>4

\* Steps that leave what the table holds, and the file.
LEMMA Stutters ==
  ASSUME HandleType, UNCHANGED <<table, file, behind>>,
         \A h \in Handles : ~Unused(h) => mapping'[h] = mapping[h]
  PROVE  Kept
<1>1. \A l \in Mapped : table[l] \in Handles /\ ~Unused(table[l])
  BY DEF Mapped, HandleType, Unused
<1>2. Records' = Records
  BY <1>1 DEF Records, Mapped
<1> QED
  BY <1>2 DEF Kept, Contract!vars

\* The record of one address is another one, or gone.
LEMMA Changes ==
  ASSUME Changed, UNCHANGED file, NEW new, Records' = new
  PROVE  Contract!Change(new)
  BY DEF Changed, Contract!Change

LEMMA InsertCreates ==
  ASSUME HandleInv, RequestInv, NEW p \in Requests, CreateInserts(p)
  PROVE  Kept
<1>1. job[p] \in Handles /\ mapping[job[p]] \in Record /\ UNCHANGED <<mapping, file>>
  BY DEF CreateInserts, RequestInv, JobType, InsertInv
<1>2. CASE UNCHANGED <<table, history>>
  BY <1>1, <1>2, Stutters DEF HandleInv, history
<1>3. CASE Insertable(job[p]) /\ Insert(p, job[p])
  <2>1. PICK r \in Record : r = mapping[job[p]]
    BY <1>1
  <2>2. /\ table' = [table EXCEPT ![r.local] = job[p]] /\ r.local \in Locals /\ Changed
        /\ r.local \notin Mapped /\ Room(Cardinality(Mapped) + 1)
    BY <1>1, <1>3, <2>1, PortFacts DEF Insert, Insertable, Mapped
  <2>3. table'[r.local] = job[p] /\ \A k \in Locals \ {r.local} : table'[k] = table[k]
    BY <2>2 DEF HandleInv, HandleType
  <2>4. Mapped' = Mapped \cup {r.local}
    BY <1>1, <2>2, <2>3, MappingsAssumption DEF Mapped
  <2>5. Records' = [Records EXCEPT ![r.local] = r]
    <3>1. \A k \in Mapped : table'[k] = table[k] /\ k # r.local
      BY <2>2, <2>3 DEF Mapped
    <3>2. Records' = [k \in Locals |-> IF k = r.local THEN r ELSE Records[k]]
      BY <1>1, <2>1, <2>2, <2>3, <2>4, <3>1 DEF Records
    <3>3. Records = [k \in Locals |-> Records[k]]
      BY DEF Records
    <3> HIDE DEF Records
    <3> QED
      BY <2>2, <3>2, <3>3
  <2>6. Contract!Change([Records EXCEPT ![r.local] = r])
    BY <1>1, <2>2, <2>5, Changes
  <2>7. Contract!Room(Cardinality(Contract!Used) + 1) /\ r.local \notin Contract!Used
    BY <2>2, RecordsFacts DEF HandleInv, Room, Contract!Room
  <2>8. Contract!Create(r)
    BY <2>6, <2>7, SameCardinality DEF Contract!Create
  <2> QED
    BY <2>8 DEF Kept, Contract!Next
<1> QED
  BY <1>2, <1>3 DEF CreateInserts

LEMMA RemoveRemoves ==
  ASSUME HandleInv, NEW p, Remove(p)
  PROVE  Kept
<1>1. PICK l \in Mapped : table' = [table EXCEPT ![l] = NoHandle]
  BY DEF Remove
<1>2. UNCHANGED <<mapping, file>> /\ Changed /\ l \in Locals
  BY DEF Remove, Mapped
<1>3. Records' = [Records EXCEPT ![l] = NoRecord]
  <2>1. Mapped' = Mapped \ {l}
    BY <1>1 DEF Mapped, HandleInv, HandleType
  <2>2. \A k \in Locals \ {l} : table'[k] = table[k]
    BY <1>1 DEF HandleInv, HandleType
  <2> QED
    BY <1>2, <2>1, <2>2 DEF Records
<1>4. Contract!Change([Records EXCEPT ![l] = NoRecord])
  BY <1>2, <1>3, Changes
<1>5. Contract!Remove(l)
  BY <1>4, RecordsFacts DEF HandleInv, Contract!Remove
<1> QED
  BY <1>2, <1>5 DEF Kept, Contract!Next

\* A record takes the place of l's.
LEMMA ChangesUpdate ==
  ASSUME HandleInv, NEW l \in Mapped, NEW r \in Record, r.local # l => r.local \notin Mapped,
         Records' = [Records EXCEPT ![l] = NoRecord, ![r.local] = r], Changed, UNCHANGED file
  PROVE  Kept
<1>1. Contract!Change([Records EXCEPT ![l] = NoRecord, ![r.local] = r])
  BY Changes
<1>2. Contract!Update(l, r)
  BY <1>1, RecordsFacts DEF HandleInv, Contract!Update
<1> QED
  BY <1>2 DEF Kept, Contract!Next, Mapped

LEMMA InPlaceUpdates ==
  ASSUME HandleInv, NEW p, UpdateInPlace(p)
  PROVE  Kept
<1>1. PICK l \in Mapped, r \in Record : r.local = l /\ mapping' = [mapping EXCEPT ![table[l]] = r]
  BY DEF UpdateInPlace
<1>2. UNCHANGED <<table, file>> /\ Changed
  BY DEF UpdateInPlace
<1>3. Records' = [Records EXCEPT ![l] = NoRecord, ![r.local] = r]
  <2>1. \A k \in Mapped : table[k] \in Handles /\ mapping[table[k]].local = k
    BY DEF HandleInv, HandleType, TableInv, Mapped
  <2>2. mapping'[table[l]] = r /\ \A k \in Mapped \ {l} : mapping'[table[k]] = mapping[table[k]]
    BY <1>1, <2>1 DEF HandleInv, HandleType
  <2>3. Mapped' = Mapped
    BY <1>2 DEF Mapped
  <2> QED
    BY <1>1, <1>2, <2>2, <2>3 DEF Records, Mapped
<1> QED
  BY <1>1, <1>2, <1>3, ChangesUpdate

LEMMA ReplaceUpdates ==
  ASSUME HandleInv, NEW l \in Mapped, NEW r \in Record, r.local # l => table[r.local] = NoHandle,
         Replace(l, r), UNCHANGED <<foreign, file>>
  PROVE  Kept
<1>1. PICK h \in Handles :
        /\ Unused(h)
        /\ Started([x \in {h} |-> r])
        /\ table' = [table EXCEPT ![l] = NoHandle, ![r.local] = h]
  BY DEF Replace
<1>2. Startable(r) /\ UNCHANGED <<session, foreign>> /\ Changed
  BY DEF Replace
<1>3. mapping'[h] = r /\ \A k \in Handles \ {h} : mapping'[k] = mapping[k]
  BY <1>1, <1>2, OneBegins DEF HandleInv
<1>4. r.local \in Locals /\ l \in Locals /\ (r.local # l => r.local \notin Mapped)
  BY PortFacts DEF Mapped
<1>5. \A k \in Mapped : table[k] \in Handles \ {h}
  BY <1>1 DEF Mapped, Unused, HandleInv, HandleType
<1>6. /\ table'[r.local] = h /\ \A k \in Locals \ {l, r.local} : table'[k] = table[k]
      /\ r.local # l => table'[l] = NoHandle
  BY <1>1, <1>4 DEF HandleInv, HandleType
<1>7. Mapped' = (Mapped \ {l}) \cup {r.local}
  BY <1>4, <1>6, MappingsAssumption DEF Mapped
<1>8. \A k \in Mapped' : mapping'[table'[k]] = IF k = r.local THEN r ELSE mapping[table[k]]
  <2> SUFFICES ASSUME NEW k \in Mapped'
               PROVE  mapping'[table'[k]] = IF k = r.local THEN r ELSE mapping[table[k]]
    OBVIOUS
  <2>1. CASE k = r.local
    BY <1>3, <1>6, <2>1
  <2>2. CASE k # r.local
    <3>1. k \in Mapped /\ k # l /\ k \in Locals
      BY <1>7, <2>2, <1>4, <1>6, MappingsAssumption DEF Mapped
    <3>2. table'[k] = table[k] /\ table[k] \in Handles \ {h}
      BY <1>5, <1>6, <2>2, <3>1
    <3> QED
      BY <1>3, <2>2, <3>2
  <2> QED
    BY <2>1, <2>2
<1>9. Records' = [Records EXCEPT ![l] = NoRecord, ![r.local] = r]
  <2>1. Records' = [k \in Locals |-> IF k = r.local THEN r ELSE IF k = l THEN NoRecord ELSE Records[k]]
    BY <1>4, <1>7, <1>8 DEF Records
  <2>2. Records = [k \in Locals |-> Records[k]]
    BY DEF Records
  <2> HIDE DEF Records
  <2> QED
    BY <1>4, <2>1, <2>2
<1> QED
  BY <1>2, <1>4, <1>9, ChangesUpdate

LEMMA SwitchUpdates ==
  ASSUME HandleInv, NEW p, UpdateRestarts(p) \/ Toggle(p) \/ SwitchNext(p)
  PROVE  Kept
<1>1. ASSUME NEW l \in Mapped, NEW r \in Record, r.local # l => table[r.local] = NoHandle,
             Replace(l, r)
      PROVE  Kept
  <2>1. UNCHANGED <<foreign, file>>
    BY DEF UpdateRestarts, Toggle, SwitchNext
  <2> QED
    BY <1>1, <2>1, ReplaceUpdates
<1>2. CASE UpdateRestarts(p)
  BY <1>1, <1>2 DEF UpdateRestarts
<1>3. CASE Toggle(p)
  BY <1>1, <1>3, FlippedFacts DEF Toggle
<1>4. CASE SwitchNext(p)
  <2>1. \/ \E l \in Mapped : Replace(l, Flipped(l))
        \/ UNCHANGED <<table, handleVars, history>> /\ UNCHANGED file
    BY <1>4 DEF SwitchNext
  <2>2. CASE UNCHANGED <<table, handleVars, history>> /\ UNCHANGED file
    BY <2>2, Stutters DEF HandleInv, handleVars, history
  <2> QED
    BY <1>1, <2>1, <2>2, FlippedFacts
<1> QED
  BY <1>2, <1>3, <1>4

\* What shows the records S, one of an address, is the table of S.
LEMMA TableShows ==
  ASSUME NEW S, NEW M \in SUBSET Locals, NEW F, F = [l \in Locals |-> F[l]],
         \A l \in M : F[l] \in S /\ F[l].local = l,
         \A r \in S : r.local \in M /\ F[r.local] = r,
         \A l \in Locals \ M : F[l] = NoRecord
  PROVE  /\ F = Contract!TableOf(S) /\ Contract!OnePerAddress(S)
         /\ Room(Cardinality(M)) => Contract!Room(Contract!Cardinality(S))
<1>1. Contract!OnePerAddress(S)
  BY DEF Contract!OnePerAddress
<1>2. \A l \in M : (CHOOSE r \in S : r.local = l) = F[l]
  OBVIOUS
<1>3. \A l \in Locals : (\E r \in S : r.local = l) <=> l \in M
  OBVIOUS
<1>4. F = [l \in Locals |-> IF \E r \in S : r.local = l THEN CHOOSE r \in S : r.local = l ELSE NoRecord]
  <2>1. \A l \in Locals :
          F[l] = IF \E r \in S : r.local = l THEN CHOOSE r \in S : r.local = l ELSE NoRecord
    BY <1>2, <1>3
  <2> QED
    BY <2>1
<1>5. ASSUME Room(Cardinality(M)) PROVE Contract!Room(Contract!Cardinality(S))
  <2> DEFINE g == [l \in M |-> F[l]]
  <2>1. g \in [M -> S] /\ \A r \in S : \E l \in M : g[l] = r
    OBVIOUS
  <2>2. IsFiniteSet(M) /\ Cardinality(M) \in Nat
    BY MappingsAssumption, FS_Subset, FS_CardinalityType
  <2> HIDE DEF g
  <2>3. Cardinality(S) \in Nat /\ Cardinality(S) <= Cardinality(M)
    BY <2>1, <2>2, ImageBound
  <2>4. Room(Cardinality(S))
    BY <1>5, <2>2, <2>3, LessFits
  <2> QED
    BY <2>4, SameCardinality DEF Room, Contract!Room
<1> QED
  BY <1>1, <1>4, <1>5 DEF Contract!TableOf

\* A swap shows what is new, and over it, or alone, what it leaves.
LEMMA SwapRecords ==
  ASSUME HandleInv, NEW new \in Incoming, NEW merge \in BOOLEAN,
         NEW f \in Allocations(Fresh(new)), Swapped(new, merge, f),
         \A l \in Fresh(new) : Startable(new[l]), UNCHANGED <<session, foreign>>
  PROVE  /\ Mapped' = DOMAIN new \cup (IF merge THEN Mapped ELSE {})
         /\ DOMAIN new \subseteq Locals
         /\ \A l \in DOMAIN new : new[l] \in Record /\ new[l].local = l /\ Records'[l] = new[l]
         /\ \A l \in Mapped' \ DOMAIN new : Records'[l] = Records[l]
<1> DEFINE kept == DOMAIN new \cap Mapped
           D == Handed(f, Fresh(new))
           held == Given(new, kept, table)
<1>1. /\ Begins(D) /\ \A l \in Fresh(new) : mapping'[f[l]] = new[l]
  BY SwapBegins DEF HandleInv
<1>2. DOMAIN new \subseteq Locals /\ \A l \in DOMAIN new : new[l] \in Record /\ new[l].local = l
  BY DEF Incoming
<1>3. /\ \A l \in Mapped : /\ table[l] \in Handles \ D /\ mapping[table[l]].local = l
                           /\ l \in Locals
      /\ \A l \in Fresh(new) : f[l] \in Handles
  <2>1. \A h \in D : h \in Handles /\ Unused(h)
    BY <1>1 DEF Begins
  <2> HIDE DEF D
  <2> QED
    BY <2>1 DEF HandleInv, HandleType, TableInv, Mapped, Unused, Allocations
<1>4. /\ table' = [l \in Locals |->
                    IF l \in Fresh(new) THEN f[l]
                    ELSE IF l \in Gone(new, merge) THEN NoHandle ELSE table[l]]
      /\ \A h \in Handles \ D : mapping'[h] = IF h \in DOMAIN held THEN held[h] ELSE mapping[h]
  <2>1. DOMAIN Given(new, Fresh(new), f) = D
    BY DEF Given
  <2> HIDE DEF D
  <2> QED
    BY <2>1 DEF Swapped
<1>5. /\ DOMAIN held = {table[l] : l \in kept}
      /\ \A l \in kept : held[table[l]] = new[l]
  <2>1. \A k, l \in kept : table[k] = table[l] => k = l
    BY <1>3
  <2>2. \A l \in kept : (CHOOSE k \in kept : table[k] = table[l]) = l
    BY <2>1
  <2> QED
    BY <2>2 DEF Given, Handed
<1> HIDE DEF D, held
<1>6. Mapped' = DOMAIN new \cup (IF merge THEN Mapped ELSE {})
  BY <1>2, <1>3, <1>4, MappingsAssumption DEF Mapped, Fresh, Gone
<1>7. \A l \in Fresh(new) : table'[l] = f[l] /\ mapping'[table'[l]] = new[l]
  BY <1>1, <1>2, <1>4 DEF Fresh
<1>8. \A l \in kept : table'[l] = table[l] /\ mapping'[table'[l]] = new[l]
  BY <1>3, <1>4, <1>5 DEF Fresh, Gone
<1>9. ASSUME NEW l \in Mapped' \ DOMAIN new
      PROVE  l \in Mapped /\ table'[l] = table[l] /\ mapping'[table'[l]] = mapping[table[l]]
  <2>1. merge /\ l \in Mapped
    BY <1>6, <1>9
  <2>2. l \in Locals /\ table'[l] = table[l] /\ table[l] \in Handles \ D
    BY <1>3, <1>4, <1>9, <2>1 DEF Fresh, Gone
  <2>3. table[l] \notin DOMAIN held
    BY <1>3, <1>5, <1>9, <2>1
  <2> QED
    BY <1>4, <2>1, <2>2, <2>3
<1>10. \A l \in DOMAIN new : mapping'[table'[l]] = new[l] /\ l \in Mapped'
  BY <1>6, <1>7, <1>8 DEF Fresh
<1>11. \A l \in DOMAIN new : Records'[l] = new[l]
  BY <1>2, <1>10 DEF Records
<1>12. \A l \in Mapped' \ DOMAIN new : Records'[l] = Records[l]
  BY <1>3, <1>9 DEF Records
<1> QED
  BY <1>2, <1>6, <1>11, <1>12

LEMMA ImportImports ==
  ASSUME HandleInv, NEW p, ImportCommits(p)
  PROVE  Kept
<1>1. PICK new \in Incoming, merge \in BOOLEAN :
        /\ Fits(new, merge)
        /\ \A l \in Fresh(new) : Startable(new[l])
        /\ \E f \in Allocations(Fresh(new)) : Swapped(new, merge, f)
  BY DEF ImportCommits
<1>2. PICK f \in Allocations(Fresh(new)) : Swapped(new, merge, f)
  BY <1>1
<1>3. Changed /\ UNCHANGED <<session, foreign, file>>
  BY DEF ImportCommits
<1>4. /\ Mapped' = DOMAIN new \cup (IF merge THEN Mapped ELSE {})
      /\ DOMAIN new \subseteq Locals
      /\ \A l \in DOMAIN new : new[l] \in Record /\ new[l].local = l /\ Records'[l] = new[l]
      /\ \A l \in Mapped' \ DOMAIN new : Records'[l] = Records[l]
  BY <1>1, <1>2, <1>3, SwapRecords
<1> DEFINE S == {new[l] : l \in DOMAIN new}
           kept == {r \in Contract!Contents : merge /\ \A s \in S : s.local # r.local}
<1>5. \A l \in Mapped : Records[l] \in Record /\ Records[l].local = l
  BY RecordsFacts DEF HandleInv
<1>6. \A r : r \in Contract!Contents <=> \E l \in Mapped : r = Records[l]
  BY RecordsFacts DEF HandleInv, Contract!Contents
<1>7. \A r : r \in kept <=> \E l \in Mapped' \ DOMAIN new : r = Records[l]
  BY <1>4, <1>5, <1>6
<1>8. Mapped' \subseteq Locals /\ Records' = [l \in Locals |-> Records'[l]]
      /\ \A l \in Locals \ Mapped' : Records'[l] = NoRecord
  BY DEF Mapped, Records
<1>9. \A l \in Mapped' : Records'[l] \in S \cup kept /\ Records'[l].local = l
  BY <1>4, <1>5, <1>7
<1>10. \A r \in S \cup kept : r.local \in Mapped' /\ Records'[r.local] = r
  BY <1>4, <1>5, <1>7
<1>11. Room(Cardinality(Mapped'))
  BY <1>1, <1>4 DEF Fits
<1> HIDE DEF kept
<1>12. /\ Records' = Contract!TableOf(S \cup kept) /\ Contract!OnePerAddress(S \cup kept)
       /\ Contract!Room(Contract!Cardinality(S \cup kept))
  <2> DEFINE F == Records'
             M == Mapped'
             T == S \cup kept
  <2>1. /\ M \in SUBSET Locals /\ F = [l \in Locals |-> F[l]]
        /\ \A l \in Locals \ M : F[l] = NoRecord
    BY <1>8
  <2>2. \A l \in M : F[l] \in T /\ F[l].local = l
    BY <1>9
  <2>3. \A r \in T : r.local \in M /\ F[r.local] = r
    BY <1>10
  <2>4. Room(Cardinality(M))
    BY <1>11
  <2> HIDE DEF F, M, T
  <2>5. /\ F = Contract!TableOf(T) /\ Contract!OnePerAddress(T)
        /\ Contract!Room(Contract!Cardinality(T))
    BY <2>1, <2>2, <2>3, <2>4, TableShows
  <2> QED
    BY <2>5 DEF F, T
<1>13. Contract!OnePerAddress(S) /\ S \in SUBSET Record
  BY <1>4, <1>12 DEF Contract!OnePerAddress
<1>14. Contract!Change(Contract!TableOf(S \cup kept))
  BY <1>3, <1>12, Changes
<1> HIDE DEF S
<1>15. Contract!Import(S, merge)
  BY <1>12, <1>13, <1>14 DEF Contract!Import, kept
<1> QED
  BY <1>13, <1>15 DEF Kept, Contract!Next

\* A save writes one record of an address and no more than there is room for; it
\* is current when nothing has changed since its listing.
LEMMA SaveSavesTable ==
  ASSUME HandleInv, FileType, NEW p \in Requests, SaveWrites(p),
         UNCHANGED mapping, UNCHANGED table,
         FileType', FileInv', FileBound', FileCurrent'
  PROVE  Kept
<1>1. Image' = Image /\ Records' = Records
  BY DEF Image, Records, Mapped
<1>2. CASE UNCHANGED <<file, behind>>
  BY <1>1, <1>2 DEF Kept, Contract!vars
<1>3. CASE file' = job[p].image /\ behind' = (p \in stale)
  <2>1. Contract!OnePerAddress(file') /\ Contract!Room(Contract!Cardinality(file'))
    BY SameCardinality DEF FileInv, FileBound, Room, Contract!OnePerAddress, Contract!Room
  <2>2. file' \in SUBSET Record /\ behind' \in BOOLEAN /\ (~behind' => file' = Image)
    BY <1>1 DEF FileType, FileCurrent
  <2>3. Contract!Contents = Image
    BY RecordsFacts DEF HandleInv
  <2>4. Contract!Save(file')
    BY <1>1, <2>1, <2>2, <2>3 DEF Contract!Save
  <2> QED
    BY <2>2, <2>4 DEF Kept, Contract!Next
<1> QED
  BY <1>2, <1>3 DEF SaveWrites

LEMMA RestartRestores ==
  ASSUME FileType, FileInv, Restart
  PROVE  Kept
<1> DEFINE S == {r.local : r \in Restored}
           new == [l \in S |-> CHOOSE r \in Restored : r.local = l]
<1>1. PICK f \in [S -> Handles] :
        /\ \A k, l \in S : f[k] = f[l] => k = l
        /\ table' = [l \in Locals |-> IF l \in S THEN f[l] ELSE NoHandle]
        /\ mapping' = [h \in Handles |->
                        IF h \in DOMAIN Given(new, S, f) THEN Given(new, S, f)[h] ELSE NoRecord]
  BY DEF Restart
<1>2. \A l \in S : new[l] \in Record /\ new[l].local = l /\ new[l] \in Restored
  BY DEF FileType, Restored
<1>3. \A r \in Restored : r.local \in S /\ new[r.local] = r
  <2>1. \A r \in Restored : r.local \in S
    OBVIOUS
  <2>2. Restored \subseteq file
    BY DEF Restored
  <2> HIDE DEF S, new
  <2> QED
    BY <1>2, <2>1, <2>2 DEF FileInv
<1>4. S \subseteq Locals
  BY PortFacts DEF FileType, Restored
<1> HIDE DEF S, new
<1>5. RecordsOf(new, S) /\ HandlesFor(f, S)
  BY <1>1, <1>2 DEF RecordsOf, HandlesFor
<1>6. /\ Handed(f, S) \subseteq Handles /\ \A l \in S : f[l] \in Handed(f, S)
      /\ Given(new, S, f) \in [Handed(f, S) -> Record]
      /\ \A l \in S : Given(new, S, f)[f[l]] = new[l]
  BY <1>5, GivenFacts
<1>7. \A l \in S : table'[l] = f[l] /\ mapping'[f[l]] = new[l] /\ f[l] # NoHandle
  BY <1>1, <1>4, <1>6, MappingsAssumption
<1>8. Mapped' = S
  BY <1>1, <1>4, <1>7 DEF Mapped
<1>9. /\ Records' = [l \in Locals |-> Records'[l]]
      /\ \A l \in S : Records'[l] = new[l]
      /\ \A l \in Locals \ S : Records'[l] = NoRecord
  BY <1>4, <1>7, <1>8 DEF Records
<1>10. Records' = Contract!TableOf(Restored)
  <2> DEFINE F == Records'
  <2>1. F = [l \in Locals |-> F[l]] /\ \A l \in Locals \ S : F[l] = NoRecord
    BY <1>9
  <2>2. \A l \in S : F[l] \in Restored /\ F[l].local = l
    BY <1>2, <1>9
  <2>3. \A r \in Restored : r.local \in S /\ F[r.local] = r
    BY <1>3, <1>9
  <2> HIDE DEF F
  <2>4. F = Contract!TableOf(Restored)
    BY <1>4, <2>1, <2>2, <2>3, TableShows
  <2> QED
    BY <2>4 DEF F
<1>11. Restored \in SUBSET file /\ behind' = (Restored # file) /\ UNCHANGED file
  BY DEF Restart, Restored
<1>12. (~behind') = (Restored = file)
  BY <1>11
<1>13. \E T \in SUBSET file : Records' = Contract!TableOf(T) /\ (~behind') = (T = file)
  BY <1>10, <1>11, <1>12
<1>14. Contract!Restart
  BY <1>11, <1>13 DEF Contract!Restart
<1> QED
  BY <1>14 DEF Kept, Contract!Next

-----------------------------------------------------------------------------
(* The refinement *)

\* What the invariants give of the state a step begins in.
TableStart == HandleInv /\ RequestInv /\ FileType /\ FileInv

LEMMA QuietRequests ==
  ASSUME TableStart, NEW p \in Requests,
         \/ CreateChecks(p) \/ CreateStarts(p) \/ ImportFails(p)
         \/ ToggleAll(p) \/ CountUnchanged(p) \/ SwitchedAll(p) \/ SavesElse(p)
         \/ StopNext(p) \/ Stopped(p) \/ SaveLists(p) \/ SaveReads(p)
  PROVE  Kept
<1>1. HandleInv /\ HandleType /\ RequestInv
  BY DEF TableStart, HandleInv
<1>2. CASE CreateStarts(p)
  <2>1. UNCHANGED <<table, file, behind>>
    BY <1>2 DEF CreateStarts, history
  <2>2. \A h \in Handles : ~Unused(h) => mapping'[h] = mapping[h]
    BY <1>2 DEF CreateStarts, Started, handleVars
  <2> QED
    BY <1>1, <2>1, <2>2, Stutters
<1>3. CASE ImportFails(p)
  <2>1. UNCHANGED <<table, file, behind>>
    BY <1>3 DEF ImportFails, history
  <2>2. \A h \in Handles : ~Unused(h) => mapping'[h] = mapping[h]
    BY <1>1, <1>3, FailedImportStep DEF HandleInv
  <2> QED
    BY <1>1, <2>1, <2>2, Stutters
<1>4. CASE ~(CreateStarts(p) \/ ImportFails(p))
  <2>1. UNCHANGED <<table, mapping, file, behind>>
    BY <1>4 DEF CreateChecks, ToggleAll, CountUnchanged, SwitchedAll, SavesElse, StopNext, Stopped, SaveLists,
                SaveReads, handleVars, history
  <2> QED
    BY <1>1, <2>1, Stutters
<1> QED
  BY <1>2, <1>3, <1>4

LEMMA ChangingRequests ==
  ASSUME TableStart, NEW p \in Requests,
         \/ CreateInserts(p) \/ Remove(p) \/ UpdateInPlace(p) \/ UpdateRestarts(p) \/ Toggle(p)
         \/ SwitchNext(p) \/ ImportCommits(p)
  PROVE  Kept
  BY InsertCreates, RemoveRemoves, InPlaceUpdates, SwitchUpdates, ImportImports DEF TableStart

LEMMA TableStep ==
  ASSUME TableStart, TableStart', FileBound', FileCurrent', [Next]_vars
  PROVE  Kept
<1>1. ASSUME UNCHANGED <<table, mapping, file, behind>> PROVE Kept
  BY <1>1, Stutters DEF TableStart, HandleInv
<1>2. ASSUME NEW h \in Handles, ListenerStep(h) PROVE Kept
  <2>1. UNCHANGED <<table, mapping, file, behind>>
    BY <1>2 DEF ListenerStep, ListenerStops, ListenerFails, SessionStarts, SessionEnds, history
  <2> QED
    BY <1>1, <2>1
<1>3. CASE ForeignProgram
  BY <1>1, <1>3 DEF ForeignProgram, handleVars, history
<1>4. ASSUME NEW p \in Requests, RequestStep(p) PROVE Kept
  <2>1. CASE SaveWrites(p)
    <3>1. UNCHANGED <<table, mapping>>
      BY <2>1 DEF SaveWrites, handleVars
    <3> QED
      BY <2>1, <3>1, SaveSavesTable DEF TableStart
  <2> QED
    BY <1>4, <2>1, QuietRequests, ChangingRequests DEF RequestStep
<1>5. CASE Restart
  BY <1>5, RestartRestores DEF TableStart
<1>6. CASE UNCHANGED vars
  BY <1>1, <1>6 DEF vars, handleVars, history
<1> QED
  BY <1>2, <1>3, <1>4, <1>5, <1>6, NextSteps

\* Requests that run at once, binds between two locks, listeners stopped one after
\* the other, saves that read handle by handle and restarts from what they wrote
\* show the table as if each request changed it at once and alone.
THEOREM TableIsKept == Spec => TableKept
<1>1. Init => Contract!Init
  <2> SUFFICES ASSUME Init PROVE Contract!Init
    OBVIOUS
  <2>1. Mapped = {} /\ file = {} /\ behind = FALSE
    BY DEF Init, Mapped
  <2>2. Records = [l \in Locals |-> NoRecord]
    BY <2>1 DEF Records
  <2>3. Contract!TableOf({}) = [l \in Locals |-> NoRecord]
    BY DEF Contract!TableOf
  <2> QED
    BY <2>1, <2>2, <2>3 DEF Contract!Init
<1>2. BaseInv /\ BaseInv' /\ BoundInv' /\ SavedInv' /\ [Next]_vars => Kept
  BY TableStep DEF BaseInv, BoundInv, SavedInv, TableStart, HandleInv
<1> QED
  BY <1>1, <1>2, BaseHolds, SavedHolds, BoundHolds, PTL DEF Spec, Kept, TableKept, Contract!Spec
==============================================================================
