----------------------- MODULE RecordProjectionProofs -----------------------
(***************************************************************************)
(* Proofs about RecordProjection for any records, calls, capacity and      *)
(* number of versions: type correctness and the agreement of the three     *)
(* copies of a record.                                                     *)
(*                                                                         *)
(* A reply carries what ServiceNow held when it answered (ReplyInv), which *)
(* is at least what the call itself wrote.  No copy is ahead of            *)
(* ServiceNow (CopyInv).  With these each property of a copy is kept by    *)
(* every action that touches it.                                           *)
(***************************************************************************)
EXTENDS RecordProjection, TLAPS

USE ProjectionAssumption

\* A call's own write, and what its reply holds.
ReplyOK(c) ==
  call[c] # Idle =>
    /\ call[c].own <= Version(call[c].rec)
    /\ \A r \in Records : call[c].got[r] <= Version(r)
    /\ call[c].pc = "served" /\ call[c].kind # "mine" =>
         /\ call[c].got[call[c].rec] >= call[c].own
         /\ \A r \in Records : r # call[c].rec => call[c].got[r] = 0
    /\ call[c].pc = "served" /\ call[c].kind = "mine" => \A r \in Incidents :
         /\ call[c].got[r] # 0
         /\ call[c].whole /\ r \notin call[c].listed => ~Open(r, call[c].got[r])

ReplyInv == \A c \in Calls : ReplyOK(c)

\* No copy is ahead of ServiceNow.
CopyInv == \A r \in Records : row[r] <= Version(r) /\ file[r] <= Version(r)

\* A tombstone marks a row, which was closed or out of the listing at its version or later.
TombInv ==
  \A r \in dead :
    /\ row[r] # 0
    /\ r \notin crossed \cup broken => \E v \in row[r] .. Version(r) : ~Open(r, v)

-----------------------------------------------------------------------------
\* An entry after Put is new, old or gone.
LEMMA PutShape ==
  ASSUME NEW m \in [Records -> Versions], NEW new \in [Records -> Versions], NEW p \in Put(m, new)
  PROVE  /\ p \in [Records -> Versions]
         /\ \A r \in Records : p[r] \in {0, IF new[r] # 0 THEN new[r] ELSE m[r]}
  <1> DEFINE all == [r \in Records |-> IF new[r] # 0 THEN new[r] ELSE m[r]]
  <1>1. \E K : p = [r \in Records |-> IF r \in K THEN all[r] ELSE 0]
    BY Zenon DEF Put
  <1>2. PICK K : p = [r \in Records |-> IF r \in K THEN all[r] ELSE 0]
    BY <1>1
  <1>3. all \in [Records -> Versions] /\ 0 \in Versions
    BY DEF Versions, ProjectionAssumption
  <1>4. \A r \in Records : p[r] = 0 \/ p[r] = all[r]
    BY <1>2
  <1>5. p \in [Records -> Versions]
    BY <1>2, <1>3
  <1> QED BY <1>4, <1>5

Maps == [Records -> Versions]

\* The changes made to a copy of all records.
LEMMA MapTypes ==
  /\ 0 \in Versions /\ Nothing \in Maps
  /\ \A r \in Records, v \in Versions : Only(r, v) \in Maps
  /\ \A f \in Maps : \A S : Without(f, S) \in Maps
  /\ \A f, g \in Maps : Over(f, g) \in Maps
  /\ \A f \in Maps, r \in Records, v \in Versions : [f EXCEPT ![r] = v] \in Maps
  <1>1. 0 \in Versions
    BY DEF Versions, ProjectionAssumption
  <1>2. Nothing \in Maps
    BY <1>1 DEF Maps, Nothing
  <1>3. \A r \in Records, v \in Versions : Only(r, v) \in Maps
    BY <1>1 DEF Maps, Only
  <1>4. \A f \in Maps : \A S : Without(f, S) \in Maps
    BY <1>1 DEF Maps, Without
  <1>5. \A f, g \in Maps : Over(f, g) \in Maps
    BY <1>1 DEF Maps, Over
  <1>6. \A f \in Maps, r \in Records, v \in Versions : [f EXCEPT ![r] = v] \in Maps
    BY DEF Maps
  <1> QED BY <1>1, <1>2, <1>3, <1>4, <1>5, <1>6

\* A call that is not idle has all the fields of one.
LEMMA CallTypes ==
  ASSUME TypeOK, NEW c \in Calls
  PROVE  /\ call[c].pc \in {"writing", "asked", "served"} => call[c] \in Call /\ call[c] # Idle
         /\ call[c] \in Call => /\ call[c].rec \in Records /\ call[c].own \in Versions
                               /\ call[c].got \in Maps /\ call[c].listed \subseteq Incidents
                               /\ call[c] # Idle
         /\ \A r \in Records, kind \in {"fetch", "write", "patch", "mine"}, pc \in {"writing", "asked"} :
              Ask(c, kind, r, pc) => call' \in [Calls -> Call \cup {Idle}]
         /\ End(c) => call' \in [Calls -> Call \cup {Idle}]
         /\ Restarted => call' \in [Calls -> Call \cup {Idle}]
  <1>1. call[c] \in Call \cup {Idle} /\ Idle.pc = "idle"
    BY DEF TypeOK, Idle
  <1>2. call[c] \in Call => /\ call[c].rec \in Records /\ call[c].own \in Versions
                            /\ call[c].got \in Maps /\ call[c].listed \subseteq Incidents
                            /\ call[c] # Idle
    BY <1>1 DEF Call, Maps
  <1>3. ASSUME NEW r \in Records, NEW kind \in {"fetch", "write", "patch", "mine"},
               NEW pc \in {"writing", "asked"}, Ask(c, kind, r, pc)
        PROVE  call' \in [Calls -> Call \cup {Idle}]
    <2>1. [kind |-> kind, rec |-> r, pc |-> pc, own |-> 0, got |-> Nothing, listed |-> {},
           whole |-> FALSE] \in Call
      BY MapTypes DEF Call, Maps
    <2> QED BY <1>3, <2>1 DEF Ask, TypeOK
  <1> QED BY <1>1, <1>2, <1>3 DEF TypeOK, End, Restarted, Idle

\* Every step keeps the types.
LEMMA StepType == TypeOK /\ [Next]_vars => TypeOK'
  <1> SUFFICES ASSUME TypeOK, [Next]_vars PROVE TypeOK'
    OBVIOUS
  <1> USE DEF TypeOK
  <1>1. ASSUME NEW c \in Calls, NEW r \in Records, Expire(c, r) PROVE TypeOK'
    <2>1. call' \in [Calls -> Call \cup {Idle}]
      BY <1>1, CallTypes DEF Expire
    <2> QED BY <1>1, <2>1, MapTypes DEF Expire, disk, ghosts, Maps, Version
  <1>2. ASSUME NEW c \in Calls, NEW r \in Records, AskFresh(c, r) PROVE TypeOK'
    <2>1. call' \in [Calls -> Call \cup {Idle}]
      BY <1>2, CallTypes DEF AskFresh
    <2> QED BY <1>2, <2>1 DEF AskFresh, disk, ghosts, Version
  <1>3. ASSUME NEW c \in Calls, AskMine(c) PROVE TypeOK'
    <2>1. call' \in [Calls -> Call \cup {Idle}]
      BY <1>3, CallTypes DEF AskMine, ProjectionAssumption
    <2> QED BY <1>3, <2>1 DEF AskMine, disk, ghosts, Version
  <1>4. ASSUME NEW c \in Calls, NEW r \in Records, AskWrite(c, r) PROVE TypeOK'
    <2>1. call' \in [Calls -> Call \cup {Idle}]
      BY <1>4, CallTypes DEF AskWrite
    <2> QED BY <1>4, <2>1 DEF AskWrite, disk, ghosts, Version
  <1>5. ASSUME NEW c \in Calls, ServeWrite(c) PROVE TypeOK'
    <2>1. call[c] \in Call /\ call[c].rec \in Records
      BY <1>5, CallTypes DEF ServeWrite
    <2> DEFINE r == call[c].rec
    <2>2. PICK open \in BOOLEAN : Version(r) < MaxVersions /\ history' = [history EXCEPT ![r] = Append(@, open)]
      BY <1>5 DEF ServeWrite, Edit
    <2> HIDE DEF r
    <2>3. history[r] \in Seq(BOOLEAN) /\ r \in Records
      BY <2>1 DEF r
    <2>4. Append(history[r], open) \in Seq(BOOLEAN) /\ Len(Append(history[r], open)) = Len(history[r]) + 1
      BY <2>3
    <2>5. /\ history' \in [Records -> Seq(BOOLEAN)]
          /\ \A i \in Records : Len(history'[i]) \in 1 .. MaxVersions
      BY <2>2, <2>3, <2>4 DEF Version, ProjectionAssumption
    <2>6. Version(r) + 1 \in Versions
      BY <2>2, <2>3 DEF Versions, ProjectionAssumption, Version
    <2>7. [call[c] EXCEPT !.pc = "asked", !.own = Version(r) + 1] \in Call
      BY <2>1, <2>6 DEF Call
    <2>8. call' = [call EXCEPT ![c] = [call[c] EXCEPT !.pc = "asked", !.own = Version(r) + 1]]
      BY <1>5 DEF ServeWrite, r
    <2>9. call' \in [Calls -> Call \cup {Idle}]
      BY <2>7, <2>8
    <2> QED BY <1>5, <2>5, <2>9 DEF ServeWrite, disk, ghosts, Version
  <1>6. ASSUME NEW c \in Calls, ServeRead(c) PROVE TypeOK'
    <2>1. call[c] \in Call /\ call[c].rec \in Records
      BY <1>6, CallTypes DEF ServeRead
    <2>2. Version(call[c].rec) \in Versions
      BY <2>1 DEF Versions
    <2>3. Only(call[c].rec, Version(call[c].rec)) \in Maps
      BY <2>1, <2>2, MapTypes
    <2>4. [call[c] EXCEPT !.pc = "served", !.got = Only(call[c].rec, Version(call[c].rec))] \in Call
      BY <2>1, <2>3 DEF Call, Maps
    <2>5. call' = [call EXCEPT ![c] = [call[c] EXCEPT !.pc = "served",
                                         !.got = Only(call[c].rec, Version(call[c].rec))]]
      BY <1>6 DEF ServeRead
    <2>6. call' \in [Calls -> Call \cup {Idle}]
      BY <2>4, <2>5
    <2> QED BY <1>6, <2>6 DEF ServeRead, disk, ghosts, Version
  <1>7. ASSUME NEW c \in Calls, ServeList(c) PROVE TypeOK'
    <2>1. call[c] \in Call
      BY <1>7, CallTypes DEF ServeList
    <2> DEFINE g == [r \in Records |-> IF r \in Incidents THEN Version(r) ELSE 0]
    <2>2. g \in Maps
      BY DEF Maps, Versions, ProjectionAssumption
    <2>3. PICK listed \in SUBSET Incidents, whole \in BOOLEAN :
            call' = [call EXCEPT ![c].pc = "served", ![c].listed = listed, ![c].whole = whole, ![c].got = g]
      BY <1>7 DEF ServeList
    <2> HIDE DEF g
    <2>4. [call[c] EXCEPT !.pc = "served", !.listed = listed, !.whole = whole, !.got = g] \in Call
      BY <2>1, <2>2 DEF Call, Maps
    <2>5. call' = [call EXCEPT ![c] = [call[c] EXCEPT !.pc = "served", !.listed = listed,
                                         !.whole = whole, !.got = g]]
      BY <2>3
    <2>6. call' \in [Calls -> Call \cup {Idle}]
      BY <2>4, <2>5
    <2> QED BY <1>7, <2>6 DEF ServeList, disk, ghosts, Version
  <1>8. ASSUME NEW c \in Calls, FailCall(c) PROVE TypeOK'
    <2>1. call' \in [Calls -> Call \cup {Idle}]
      BY <1>8, CallTypes DEF FailCall
    <2> QED BY <1>8, <2>1 DEF FailCall, disk, ghosts, Version
  <1>9. ASSUME NEW c \in Calls, Persist(c) PROVE TypeOK'
    <2>1. call' \in [Calls -> Call \cup {Idle}]
      BY <1>9, CallTypes DEF Persist
    <2>2. call[c] \in Call /\ call[c].rec \in Records /\ call[c].own \in Versions /\ call[c].got \in Maps
      BY <1>9, CallTypes DEF Persist
    <2>3. mem' \in Maps
      BY <1>9, <2>2, PutShape DEF Persist, Maps
    <2>4. file' \in Maps /\ row' \in Maps
      BY <1>9, <2>2, MapTypes DEF Persist, Persisted, FilesWritten, Maps
    <2>5. acked' \in Maps
      BY <1>9, <2>2, MapTypes DEF Persist, Maps
    <2>6. late' \subseteq Records
      BY <1>9 DEF Persist, Persisted, Older
    <2> QED BY <1>9, <2>1, <2>3, <2>4, <2>5, <2>6 DEF Persist, Maps, Version
  <1>10. ASSUME NEW c \in Calls, NEW wrote \in BOOLEAN, PersistFails(c, wrote) PROVE TypeOK'
    <2>1. call' \in [Calls -> Call \cup {Idle}]
      BY <1>10, CallTypes DEF PersistFails
    <2>2. call[c] \in Call /\ call[c].rec \in Records /\ call[c].own \in Versions /\ call[c].got \in Maps
      BY <1>10, CallTypes DEF PersistFails
    <2>3. CASE wrote
      <3>1. PersistBroken(call[c].got)
        BY <1>10, <2>3 DEF PersistFails
      <3>2. mem' \in Maps /\ file' \in Maps
        BY <3>1, <2>2, MapTypes DEF PersistBroken, FilesWritten, Maps
      <3>3. late' \subseteq Records /\ broken' \subseteq Records
        BY <3>1 DEF PersistBroken, Written, Older
      <3> QED BY <2>1, <3>1, <3>2, <3>3 DEF PersistBroken, Version, Maps
    <2>4. CASE ~wrote
      <3>1. mem' = Without(mem, {call[c].rec}) /\ UNCHANGED <<disk, history, ghosts>>
        BY <1>10, <2>4 DEF PersistFails
      <3>2. mem' \in Maps
        BY <3>1, MapTypes DEF Maps
      <3> QED BY <2>1, <3>1, <3>2 DEF disk, ghosts, Version, Maps
    <2> QED BY <2>3, <2>4
  <1>11. ASSUME NEW c \in Calls, Prune(c) PROVE TypeOK'
    <2>1. call' \in [Calls -> Call \cup {Idle}]
      BY <1>11, CallTypes DEF Prune
    <2>2. call[c] \in Call /\ call[c].rec \in Records /\ call[c].own \in Versions /\ call[c].got \in Maps
      BY <1>11, CallTypes DEF Prune
    <2>3. mem' \in Maps /\ row' \in Maps /\ file' \in Maps
      BY <1>11, MapTypes DEF Prune, Pruned, Maps
    <2>4. acked' \in Maps /\ staged' \in Maps
      BY <1>11, <2>2, MapTypes DEF Prune, Restaged, Maps
    <2> QED BY <1>11, <2>1, <2>3, <2>4 DEF Prune, Pruned, Maps, Version
  <1>12. ASSUME NEW c \in Calls, PruneFails(c) PROVE TypeOK'
    <2>1. call' \in [Calls -> Call \cup {Idle}]
      BY <1>12, CallTypes DEF PruneFails
    <2>2. call[c] \in Call /\ call[c].rec \in Records /\ call[c].own \in Versions /\ call[c].got \in Maps
      BY <1>12, CallTypes DEF PruneFails
    <2> QED BY <1>12, <2>1, MapTypes DEF PruneFails, Restaged, ghosts, Maps, Version
  <1>13. ASSUME NEW c \in Calls, PruneLeavesStaged(c) PROVE TypeOK'
    <2>1. call' \in [Calls -> Call \cup {Idle}]
      BY <1>13, CallTypes DEF PruneLeavesStaged
    <2>2. call[c] \in Call /\ call[c].rec \in Records /\ call[c].own \in Versions /\ call[c].got \in Maps
      BY <1>13, CallTypes DEF PruneLeavesStaged
    <2>3. mem' \in Maps /\ row' \in Maps /\ file' \in Maps
      BY <1>13, MapTypes DEF PruneLeavesStaged, Pruned, Maps
    <2>4. staged' \in Maps /\ broken' \subseteq Records
      BY <1>13, <2>2 DEF PruneLeavesStaged, Maps
    <2> QED BY <1>13, <2>1, <2>3, <2>4 DEF PruneLeavesStaged, Pruned, Maps, Version
  <1>14. ASSUME NEW c \in Calls, KilledInPrune(c) PROVE TypeOK'
    <2>1. call' \in [Calls -> Call \cup {Idle}]
      BY <1>14, CallTypes DEF KilledInPrune
    <2>2. call[c] \in Call /\ call[c].rec \in Records /\ call[c].own \in Versions /\ call[c].got \in Maps
      BY <1>14, CallTypes DEF KilledInPrune
    <2>3. mem' \in Maps /\ file' \in Maps
      BY <1>14, MapTypes DEF KilledInPrune, Restarted, Maps
    <2>5. row' = row \/ row' = Without(row, {call[c].rec})
      BY <1>14 DEF KilledInPrune
    <2>6. row' \in Maps
      <3>1. CASE row' = row
        BY <3>1 DEF Maps
      <3>2. CASE row' = Without(row, {call[c].rec})
        BY <3>2, MapTypes DEF Maps
      <3> QED BY <2>5, <3>1, <3>2
    <2>4. staged' \in Maps /\ broken' \subseteq Records /\ dead' \subseteq Records
      BY <1>14, <2>2 DEF KilledInPrune, Maps
    <2> QED BY <1>14, <2>1, <2>3, <2>4, <2>6 DEF KilledInPrune, Maps, Version
  <1>15. ASSUME NEW c \in Calls, ReceiveMine(c) PROVE TypeOK'
    <2>1. call' \in [Calls -> Call \cup {Idle}]
      BY <1>15, CallTypes DEF ReceiveMine
    <2>2. call[c] \in Call /\ call[c].rec \in Records /\ call[c].own \in Versions /\ call[c].got \in Maps
      BY <1>15, CallTypes DEF ReceiveMine
    <2> DEFINE new == [r \in Records |-> IF r \in call[c].listed THEN call[c].got[r] ELSE 0]
    <2>3. new \in Maps
      BY <2>2, MapTypes DEF Maps
    <2>4. PICK T \in SUBSET Unsupported(c, row', file') :
            /\ Persisted(new)
            /\ dead' = (dead \ call[c].listed) \cup T
            /\ crossed' = (crossed \ (call[c].listed \cup T)) \cup {r \in T : call[c].got[r] < row'[r]}
            /\ \E m \in Put(mem, new) : mem' = Without(m, T)
      BY <1>15 DEF ReceiveMine
    <2> HIDE DEF new
    <2>5. mem' \in Maps
      <3>1. PICK m \in Put(mem, new) : mem' = Without(m, T)
        BY <2>4
      <3>2. m \in Maps
        BY <2>3, <3>1, PutShape DEF Maps
      <3> QED BY <3>1, <3>2, MapTypes
    <2>6. file' \in Maps /\ row' \in Maps /\ late' \subseteq Records
      BY <2>3, <2>4, MapTypes DEF Persisted, FilesWritten, Older, Maps
    <2>7. T \subseteq Records
      BY DEF Unsupported, ProjectionAssumption
    <2> QED BY <1>15, <2>1, <2>4, <2>5, <2>6, <2>7 DEF ReceiveMine, Maps, Version
  <1>16. ASSUME NEW c \in Calls, MineFails(c) PROVE TypeOK'
    <2>1. call' \in [Calls -> Call \cup {Idle}]
      BY <1>16, CallTypes DEF MineFails
    <2>2. call[c] \in Call /\ call[c].rec \in Records /\ call[c].own \in Versions /\ call[c].got \in Maps
      BY <1>16, CallTypes DEF MineFails
    <2>3. PICK S \in SUBSET call[c].listed \ {{}} :
            PersistBroken([r \in Records |-> IF r \in S THEN call[c].got[r] ELSE 0])
      BY <1>16 DEF MineFails
    <2> DEFINE new == [r \in Records |-> IF r \in S THEN call[c].got[r] ELSE 0]
    <2>4. new \in Maps
      BY <2>2, MapTypes DEF Maps
    <2>5. PersistBroken(new)
      BY <2>3
    <2> HIDE DEF new
    <2> QED BY <1>16, <2>1, <2>4, <2>5, MapTypes DEF MineFails, PersistBroken, FilesWritten, Written, Older, Maps, Version
  <1>17. ASSUME NEW r \in Records, ReadRow(r) PROVE TypeOK'
    <2>1. Only(r, Materialized(r)) \in Maps
      BY MapTypes DEF Materialized, Maps
    <2>2. mem' \in Maps
      BY <1>17, <2>1, PutShape DEF ReadRow, Maps
    <2> QED BY <1>17, <2>2 DEF ReadRow, disk, ghosts, Version, Maps
  <1>18. ASSUME NEW r \in Records, ForeignEdit(r) PROVE TypeOK'
    <2>1. PICK open \in BOOLEAN : Version(r) < MaxVersions /\ history' = [history EXCEPT ![r] = Append(@, open)]
      BY <1>18 DEF ForeignEdit, Edit
    <2>2. Append(history[r], open) \in Seq(BOOLEAN) /\ Len(Append(history[r], open)) = Len(history[r]) + 1
      OBVIOUS
    <2>3. /\ history' \in [Records -> Seq(BOOLEAN)]
          /\ \A i \in Records : Len(history'[i]) \in 1 .. MaxVersions
      BY <2>1, <2>2 DEF Version, ProjectionAssumption
    <2> QED BY <1>18, <2>3 DEF ForeignEdit, disk, ghosts, Version
  <1>19. CASE PruneOrphans
    <2>1. PICK S : Pruned(S)
      BY <1>19 DEF PruneOrphans
    <2>2. mem' \in Maps /\ row' \in Maps /\ file' \in Maps
      BY <2>1, MapTypes DEF Pruned, Maps
    <2>3. dead' \subseteq Records /\ late' \subseteq Records /\ crossed' \subseteq Records
      BY <2>1 DEF Pruned
    <2> QED BY <1>19, <2>2, <2>3 DEF PruneOrphans, Version, Maps
  <1>20. CASE Restart
    <2>1. call' \in [Calls -> Call \cup {Idle}]
      BY <1>20 DEF Restart, Restarted
    <2>2. PICK S \in SUBSET {r \in Records : file[r] # 0} : file' = Without(file, S) /\ broken' = broken \cup S
      BY <1>20 DEF Restart
    <2>3. mem' \in Maps /\ file' \in Maps /\ broken' \subseteq Records
      BY <1>20, <2>2, MapTypes DEF Restart, Restarted, Maps
    <2> QED BY <1>20, <2>1, <2>3 DEF Restart, Version, Maps
  <1>21. CASE UNCHANGED vars
    BY <1>21 DEF vars, disk, Version
  <1> HIDE DEF TypeOK
  <1> QED
    BY <1>1, <1>2, <1>3, <1>4, <1>5, <1>6, <1>7, <1>8, <1>9, <1>10, <1>11,
       <1>12, <1>13, <1>14, <1>15, <1>16, <1>17, <1>18, <1>19, <1>20, <1>21, Zenon DEF Next, Handler

\* File and row change together, or the record counts as broken.
LEMMA FilesStep == TypeOK /\ FilesAccounted /\ [Next]_vars => FilesAccounted'
  <1> SUFFICES ASSUME TypeOK, FilesAccounted, [Next]_vars PROVE FilesAccounted'
    OBVIOUS
  <1> USE DEF TypeOK, Call, Versions, FilesAccounted
  <1>1. ASSUME NEW c \in Calls, NEW r \in Records, Expire(c, r) PROVE FilesAccounted'
    BY <1>1 DEF Expire, Ask, Without, disk, ghosts
  <1>2. ASSUME NEW c \in Calls, NEW r \in Records, AskFresh(c, r) PROVE FilesAccounted'
    BY <1>2 DEF AskFresh, Ask, disk, ghosts
  <1>3. ASSUME NEW c \in Calls, AskMine(c) PROVE FilesAccounted'
    BY <1>3 DEF AskMine, Ask, disk, ghosts
  <1>4. ASSUME NEW c \in Calls, NEW r \in Records, AskWrite(c, r) PROVE FilesAccounted'
    BY <1>4 DEF AskWrite, Ask, disk, ghosts
  <1>5. ASSUME NEW c \in Calls, ServeWrite(c) PROVE FilesAccounted'
    BY <1>5 DEF ServeWrite, Edit, disk, ghosts
  <1>6. ASSUME NEW c \in Calls, ServeRead(c) PROVE FilesAccounted'
    BY <1>6 DEF ServeRead, Only, disk, ghosts
  <1>7. ASSUME NEW c \in Calls, ServeList(c) PROVE FilesAccounted'
    BY <1>7 DEF ServeList, disk, ghosts
  <1>8. ASSUME NEW c \in Calls, FailCall(c) PROVE FilesAccounted'
    BY <1>8 DEF FailCall, End, disk, ghosts
  <1>9. ASSUME NEW c \in Calls, Persist(c) PROVE FilesAccounted'
    BY <1>9 DEF Persist, Persisted, FilesWritten, Over, Written, Older, End
  <1>10. ASSUME NEW c \in Calls, NEW wrote \in BOOLEAN, PersistFails(c, wrote) PROVE FilesAccounted'
    BY <1>10 DEF PersistFails, PersistBroken, FilesWritten, Over, Written, Older, Without, End, disk, ghosts
  <1>11. ASSUME NEW c \in Calls, Prune(c) PROVE FilesAccounted'
    BY <1>11 DEF Prune, Pruned, Without, Restaged, End
  <1>12. ASSUME NEW c \in Calls, PruneFails(c) PROVE FilesAccounted'
    BY <1>12 DEF PruneFails, Without, Restaged, End, ghosts
  <1>13. ASSUME NEW c \in Calls, PruneLeavesStaged(c) PROVE FilesAccounted'
    BY <1>13 DEF PruneLeavesStaged, Pruned, Without, End
  <1>14. ASSUME NEW c \in Calls, KilledInPrune(c) PROVE FilesAccounted'
    BY <1>14 DEF KilledInPrune, Without, Restarted, Nothing
  <1>15. ASSUME NEW c \in Calls, ReceiveMine(c) PROVE FilesAccounted'
    BY <1>15 DEF ReceiveMine, Persisted, FilesWritten, Over, Written, Older, Without, Unsupported, End
  <1>16. ASSUME NEW c \in Calls, MineFails(c) PROVE FilesAccounted'
    BY <1>16 DEF MineFails, PersistBroken, FilesWritten, Over, Written, Older, Without, End
  <1>17. ASSUME NEW r \in Records, ReadRow(r) PROVE FilesAccounted'
    BY <1>17 DEF ReadRow, Only, disk, ghosts
  <1>18. ASSUME NEW r \in Records, ForeignEdit(r) PROVE FilesAccounted'
    BY <1>18 DEF ForeignEdit, Edit, disk, ghosts
  <1>19. CASE PruneOrphans
    BY <1>19 DEF PruneOrphans, Pruned, Orphans, Without
  <1>20. CASE Restart
    BY <1>20 DEF Restart, Restarted, Nothing, Without
  <1>21. CASE UNCHANGED vars
    BY <1>21 DEF vars, disk
  <1> HIDE DEF TypeOK, Call, Versions, FilesAccounted
  <1> QED
    BY <1>1, <1>2, <1>3, <1>4, <1>5, <1>6, <1>7, <1>8, <1>9, <1>10, <1>11,
       <1>12, <1>13, <1>14, <1>15, <1>16, <1>17, <1>18, <1>19, <1>20, <1>21, Zenon DEF Next, Handler

\* Memory is emptied before its disk copy changes, and filled from it.
LEMMA BackedStep == TypeOK /\ ReplyInv /\ MemoryBacked /\ [Next]_vars => MemoryBacked'
  <1> SUFFICES ASSUME TypeOK, ReplyInv, MemoryBacked, [Next]_vars PROVE MemoryBacked'
    OBVIOUS
  <1> USE DEF TypeOK, Call, MemoryBacked, Materialized
  <1>1. ASSUME NEW c \in Calls, NEW r \in Records, Expire(c, r) PROVE MemoryBacked'
    BY <1>1 DEF Expire, Ask, Without, disk, ghosts
  <1>2. ASSUME NEW c \in Calls, NEW r \in Records, AskFresh(c, r) PROVE MemoryBacked'
    BY <1>2 DEF AskFresh, Ask, disk, ghosts
  <1>3. ASSUME NEW c \in Calls, AskMine(c) PROVE MemoryBacked'
    BY <1>3 DEF AskMine, Ask, disk, ghosts
  <1>4. ASSUME NEW c \in Calls, NEW r \in Records, AskWrite(c, r) PROVE MemoryBacked'
    BY <1>4 DEF AskWrite, Ask, disk, ghosts
  <1>5. ASSUME NEW c \in Calls, ServeWrite(c) PROVE MemoryBacked'
    BY <1>5 DEF ServeWrite, Edit, disk, ghosts
  <1>6. ASSUME NEW c \in Calls, ServeRead(c) PROVE MemoryBacked'
    BY <1>6 DEF ServeRead, Only, disk, ghosts
  <1>7. ASSUME NEW c \in Calls, ServeList(c) PROVE MemoryBacked'
    BY <1>7 DEF ServeList, disk, ghosts
  <1>8. ASSUME NEW c \in Calls, FailCall(c) PROVE MemoryBacked'
    BY <1>8 DEF FailCall, End, disk, ghosts
  <1>9. ASSUME NEW c \in Calls, Persist(c) PROVE MemoryBacked'
    <2>1. call[c] \in Call /\ call[c].rec \in Records /\ call[c].got \in Maps
      BY <1>9, CallTypes DEF Persist
    <2>2. \A r \in Records : mem'[r] \in {0, IF call[c].got[r] # 0 THEN call[c].got[r] ELSE mem[r]}
      <3>1. mem \in Maps /\ mem' \in Put(mem, call[c].got)
        BY <1>9 DEF Persist, Maps
      <3> QED BY <2>1, <3>1, PutShape, Zenon DEF Maps
    <2>3. \A r \in Records : /\ file'[r] = IF call[c].got[r] # 0 THEN call[c].got[r] ELSE file[r]
                             /\ row'[r] = IF call[c].got[r] # 0 THEN call[c].got[r] ELSE row[r]
      BY <1>9 DEF Persist, Persisted, FilesWritten, Over
    <2> QED BY <2>1, <2>2, <2>3 DEF Maps
  <1>10. ASSUME NEW c \in Calls, NEW wrote \in BOOLEAN, PersistFails(c, wrote) PROVE MemoryBacked'
    BY <1>10 DEF PersistFails, PersistBroken, FilesWritten, Over, Written, Older, Without, End, disk, ghosts
  <1>11. ASSUME NEW c \in Calls, Prune(c) PROVE MemoryBacked'
    BY <1>11 DEF Prune, Pruned, Without, Restaged, End
  <1>12. ASSUME NEW c \in Calls, PruneFails(c) PROVE MemoryBacked'
    BY <1>12 DEF PruneFails, Without, Restaged, End, ghosts
  <1>13. ASSUME NEW c \in Calls, PruneLeavesStaged(c) PROVE MemoryBacked'
    BY <1>13 DEF PruneLeavesStaged, Pruned, Without, End
  <1>14. ASSUME NEW c \in Calls, KilledInPrune(c) PROVE MemoryBacked'
    BY <1>14 DEF KilledInPrune, Without, Restarted, Nothing
  <1>15. ASSUME NEW c \in Calls, ReceiveMine(c) PROVE MemoryBacked'
    <2>1. call[c].got \in Maps
      BY <1>15, CallTypes DEF ReceiveMine
    <2> DEFINE new == [r \in Records |-> IF r \in call[c].listed THEN call[c].got[r] ELSE 0]
    <2>2. new \in Maps
      BY <2>1, MapTypes DEF Maps
    <2>3. PICK m \in Put(mem, new) : Persisted(new) /\ \E T : mem' = Without(m, T)
      BY <1>15 DEF ReceiveMine
    <2> HIDE DEF new
    <2>4. \A r \in Records : m[r] \in {0, IF new[r] # 0 THEN new[r] ELSE mem[r]}
      <3>1. mem \in Maps
        BY DEF Maps
      <3> QED BY <2>2, <2>3, <3>1, PutShape, Zenon DEF Maps
    <2>5. \A r \in Records : mem'[r] = 0 \/ mem'[r] = m[r]
      BY <2>3 DEF Without
    <2>6. \A r \in Records : /\ file'[r] = IF new[r] # 0 THEN new[r] ELSE file[r]
                             /\ row'[r] = IF new[r] # 0 THEN new[r] ELSE row[r]
      BY <2>3 DEF Persisted, FilesWritten, Over
    <2> QED BY <2>2, <2>4, <2>5, <2>6 DEF Maps
  <1>16. ASSUME NEW c \in Calls, MineFails(c) PROVE MemoryBacked'
    BY <1>16 DEF MineFails, PersistBroken, FilesWritten, Over, Written, Older, Without, End
  <1>17. ASSUME NEW r \in Records, ReadRow(r) PROVE MemoryBacked'
    <2> DEFINE new == Only(r, Materialized(r))
    <2>1. new \in Maps
      BY MapTypes DEF Maps
    <2>2. mem \in Maps /\ mem' \in Put(mem, new)
      BY <1>17 DEF ReadRow, Maps
    <2>3. new[r] = Materialized(r) /\ \A i \in Records : i # r => new[i] = 0
      BY DEF Only
    <2> HIDE DEF new
    <2>4. \A i \in Records : mem'[i] \in {0, IF new[i] # 0 THEN new[i] ELSE mem[i]}
      BY <2>1, <2>2, PutShape, Zenon DEF Maps
    <2> QED BY <1>17, <2>3, <2>4 DEF ReadRow, disk
  <1>18. ASSUME NEW r \in Records, ForeignEdit(r) PROVE MemoryBacked'
    BY <1>18 DEF ForeignEdit, Edit, disk, ghosts
  <1>19. CASE PruneOrphans
    BY <1>19 DEF PruneOrphans, Pruned, Orphans, Without
  <1>20. CASE Restart
    BY <1>20 DEF Restart, Restarted, Nothing, Without
  <1>21. CASE UNCHANGED vars
    BY <1>21 DEF vars, disk
  <1> HIDE DEF TypeOK, Call, MemoryBacked, Materialized
  <1> QED
    BY <1>1, <1>2, <1>3, <1>4, <1>5, <1>6, <1>7, <1>8, <1>9, <1>10, <1>11,
       <1>12, <1>13, <1>14, <1>15, <1>16, <1>17, <1>18, <1>19, <1>20, <1>21, Zenon DEF Next, Handler

\* The history of a record only grows.
LEMMA EditGrows ==
  ASSUME TypeOK, NEW r \in Records, Edit(r)
  PROVE  /\ \A i \in Records : Version(i)' >= Version(i)
         /\ \A i \in Records, v \in Versions : v # 0 /\ v <= Version(i) => Open(i, v)' = Open(i, v)
         /\ Version(r)' = Version(r) + 1
  <1>1. PICK open \in BOOLEAN : Version(r) < MaxVersions /\ history' = [history EXCEPT ![r] = Append(@, open)]
    BY DEF Edit
  <1>2. history[r] \in Seq(BOOLEAN) /\ \A i \in Records : Version(i) \in Nat
    BY DEF TypeOK
  <1>3. /\ Len(Append(history[r], open)) = Len(history[r]) + 1
        /\ \A v \in 1 .. Len(history[r]) : Append(history[r], open)[v] = history[r][v]
    BY <1>2
  <1>4. history'[r] = Append(history[r], open) /\ \A i \in Records : i # r => history'[i] = history[i]
    BY <1>1 DEF TypeOK
  <1>5. \A i \in Records, v \in Versions : v # 0 /\ v <= Version(i) => Open(i, v)' = Open(i, v)
    <2> SUFFICES ASSUME NEW i \in Records, NEW v \in Versions, v # 0, v <= Version(i)
                 PROVE  Open(i, v)' = Open(i, v)
      OBVIOUS
    <2>1. v \in 1 .. Len(history[i])
      BY <1>2 DEF Versions, Version, ProjectionAssumption
    <2> QED BY <2>1, <1>3, <1>4 DEF Open
  <1> QED BY <1>2, <1>3, <1>4, <1>5 DEF Version

\* What a call knows stays true while others change records.
LEMMA ReplyKept ==
  ASSUME TypeOK, NEW c \in Calls, ReplyOK(c), call'[c] = call[c],
         \A i \in Records : Version(i)' >= Version(i) /\ Version(i)' \in Nat,
         \A i \in Records, v \in Versions : v # 0 /\ v <= Version(i) => Open(i, v)' = Open(i, v)
  PROVE  ReplyOK(c)'
  <1> SUFFICES ASSUME call[c] # Idle PROVE ReplyOK(c)'
    BY DEF ReplyOK
  <1>1. /\ call[c].rec \in Records /\ call[c].own \in Nat
        /\ \A i \in Records : call[c].got[i] \in Versions /\ call[c].got[i] \in Nat
    BY DEF TypeOK, Call, Versions, ProjectionAssumption
  <1>2. \A i \in Records : Version(i) \in Nat
    BY DEF TypeOK
  <1>3. Incidents \subseteq Records
    BY DEF ProjectionAssumption
  <1> QED BY <1>1, <1>2, <1>3 DEF ReplyOK

\* A call that was just made knows nothing.
LEMMA AskedReply ==
  ASSUME TypeOK, NEW c \in Calls, NEW r \in Records, NEW kind, NEW pc \in {"writing", "asked"},
         Ask(c, kind, r, pc), UNCHANGED history
  PROVE  ReplyOK(c)'
  <1>1. /\ call'[c].own = 0 /\ call'[c].rec = r /\ call'[c].pc = pc
        /\ call'[c].got = Nothing
    BY DEF TypeOK, Ask
  <1>2. \A i \in Records : Version(i)' = Version(i) /\ Version(i) \in Nat
    BY DEF TypeOK, Version
  <1>3. \A i \in Records : Nothing[i] = 0
    BY DEF Nothing
  <1> QED BY <1>1, <1>2, <1>3 DEF ReplyOK

\* What a served reply holds, by its kind.
LEMMA Served ==
  ASSUME TypeOK, ReplyInv, NEW c \in Calls, call[c].pc = "served"
  PROVE  /\ call[c].rec \in Records /\ call[c].own \in Nat
         /\ call[c].listed \subseteq Records /\ call[c].listed \subseteq Incidents
         /\ call[c].got \in Maps
         /\ \A r \in Records : call[c].got[r] \in Nat /\ call[c].got[r] <= Version(r)
         /\ call[c].kind # "mine" => /\ call[c].got[call[c].rec] >= call[c].own
                                     /\ \A r \in Records : r # call[c].rec => call[c].got[r] = 0
         /\ call[c].kind = "mine" => \A r \in Incidents :
              /\ call[c].got[r] # 0
              /\ call[c].whole /\ r \notin call[c].listed => ~Open(r, call[c].got[r])
  <1>1. call[c] \in Call /\ call[c] # Idle
    BY CallTypes
  <1>2. /\ call[c].rec \in Records /\ call[c].own \in Nat /\ call[c].listed \subseteq Incidents
        /\ call[c].got \in Maps
    BY <1>1 DEF Call, Maps, Versions, ProjectionAssumption
  <1>3. \A r \in Records : call[c].got[r] \in Nat
    BY <1>2 DEF Maps, Versions, ProjectionAssumption
  <1> QED BY <1>1, <1>2, <1>3 DEF ReplyInv, ReplyOK, ProjectionAssumption

\* No step but an edit changes what calls know of records.
LEMMA SameReplies ==
  ASSUME TypeOK, ReplyInv, UNCHANGED history, NEW c, \A d \in Calls : d # c => call'[d] = call[d]
  PROVE  \A d \in Calls : d # c => ReplyOK(d)'
  <1>1. \A i \in Records : Version(i)' >= Version(i) /\ Version(i)' \in Nat
    BY DEF TypeOK, Version
  <1>2. \A i \in Records, v \in Versions : v # 0 /\ v <= Version(i) => Open(i, v)' = Open(i, v)
    BY DEF Open
  <1> QED BY <1>1, <1>2, ReplyKept DEF ReplyInv

\* ServiceNow answers with what it holds, and a record's history only grows.
LEMMA ReplyStep == TypeOK /\ ReplyInv /\ [Next]_vars => ReplyInv'
  <1> SUFFICES ASSUME TypeOK, ReplyInv, [Next]_vars PROVE ReplyInv'
    OBVIOUS
  <1>1. ASSUME NEW c \in Calls, NEW r \in Records, Expire(c, r) PROVE ReplyInv'
    <2>1. \E kind, pc : pc \in {"writing", "asked"} /\ \E i \in Records : Ask(c, kind, i, pc)
      BY <1>1 DEF Expire, ProjectionAssumption
    <2>2. UNCHANGED history /\ \A d \in Calls : d # c => call'[d] = call[d]
      BY <1>1, <2>1 DEF Expire, Ask
    <2>3. ReplyOK(c)'
      BY <2>1, <2>2, AskedReply
    <2> QED BY <2>2, <2>3, SameReplies DEF ReplyInv
  <1>2. ASSUME NEW c \in Calls, NEW r \in Records, AskFresh(c, r) PROVE ReplyInv'
    <2>1. \E kind, pc : pc \in {"writing", "asked"} /\ \E i \in Records : Ask(c, kind, i, pc)
      BY <1>2 DEF AskFresh, ProjectionAssumption
    <2>2. UNCHANGED history /\ \A d \in Calls : d # c => call'[d] = call[d]
      BY <1>2, <2>1 DEF AskFresh, Ask
    <2>3. ReplyOK(c)'
      BY <2>1, <2>2, AskedReply
    <2> QED BY <2>2, <2>3, SameReplies DEF ReplyInv
  <1>3. ASSUME NEW c \in Calls, AskMine(c) PROVE ReplyInv'
    <2>1. \E kind, pc : pc \in {"writing", "asked"} /\ \E i \in Records : Ask(c, kind, i, pc)
      BY <1>3 DEF AskMine, ProjectionAssumption
    <2>2. UNCHANGED history /\ \A d \in Calls : d # c => call'[d] = call[d]
      BY <1>3, <2>1 DEF AskMine, Ask
    <2>3. ReplyOK(c)'
      BY <2>1, <2>2, AskedReply
    <2> QED BY <2>2, <2>3, SameReplies DEF ReplyInv
  <1>4. ASSUME NEW c \in Calls, NEW r \in Records, AskWrite(c, r) PROVE ReplyInv'
    <2>1. \E kind, pc : pc \in {"writing", "asked"} /\ \E i \in Records : Ask(c, kind, i, pc)
      BY <1>4 DEF AskWrite, ProjectionAssumption
    <2>2. UNCHANGED history /\ \A d \in Calls : d # c => call'[d] = call[d]
      BY <1>4, <2>1 DEF AskWrite, Ask
    <2>3. ReplyOK(c)'
      BY <2>1, <2>2, AskedReply
    <2> QED BY <2>2, <2>3, SameReplies DEF ReplyInv
  <1>5. ASSUME NEW c \in Calls, ServeWrite(c) PROVE ReplyInv'
    <2>1. call[c] \in Call /\ call[c] # Idle
      BY <1>5, CallTypes DEF ServeWrite
    <2>2. call[c].rec \in Records /\ call[c].got \in Maps
      BY <2>1, CallTypes
    <2>3. PICK r \in Records : r = call[c].rec
      BY <2>2
    <2>4. Edit(r)
      BY <1>5, <2>3 DEF ServeWrite
    <2>5. /\ \A i \in Records : Version(i)' >= Version(i) /\ Version(i)' \in Nat /\ Version(i) \in Nat
          /\ Version(r)' = Version(r) + 1
      BY <2>4, EditGrows, StepType DEF TypeOK
    <2>6. /\ call'[c].pc = "asked" /\ call'[c].own = Version(r) + 1
          /\ call'[c].rec = r /\ call'[c].got = call[c].got
          /\ \A d \in Calls : d # c => call'[d] = call[d]
      BY <1>5, <2>1, <2>3 DEF ServeWrite, TypeOK, Call
    <2>7. \A i \in Records : call[c].got[i] \in Nat /\ call[c].got[i] <= Version(i)
      BY <2>1, <2>2 DEF ReplyInv, ReplyOK, Maps, Versions, ProjectionAssumption
    <2>8. \A i \in Records : call'[c].got[i] <= Version(i)'
      BY <2>5, <2>6, <2>7
    <2>9. call'[c].own <= Version(r)'
      BY <2>5, <2>6
    <2>10. ReplyOK(c)'
      BY <2>6, <2>8, <2>9 DEF ReplyOK, Version
    <2> QED BY <2>4, <2>5, <2>6, <2>10, EditGrows, ReplyKept DEF ReplyInv
  <1>6. ASSUME NEW c \in Calls, ServeRead(c) PROVE ReplyInv'
    <2>1. call[c] \in Call /\ call[c] # Idle
      BY <1>6, CallTypes DEF ServeRead
    <2>2. call[c].rec \in Records /\ call[c].kind # "mine"
      BY <1>6, <2>1, CallTypes DEF ServeRead
    <2>3. UNCHANGED history
      BY <1>6 DEF ServeRead
    <2>4. /\ call'[c].pc = "served" /\ call'[c].rec = call[c].rec /\ call'[c].own = call[c].own
          /\ call'[c].kind = call[c].kind /\ call'[c].got = Only(call[c].rec, Version(call[c].rec))
          /\ \A d \in Calls : d # c => call'[d] = call[d]
      BY <1>6, <2>1 DEF ServeRead, TypeOK, Call
    <2>5. \A i \in Records : Version(i)' = Version(i) /\ Version(i) \in Nat
      BY <2>3 DEF Version, TypeOK
    <2>6. \A i \in Records : call'[c].got[i] = IF i = call[c].rec THEN Version(call[c].rec) ELSE 0
      BY <2>4 DEF Only
    <2>7. call[c].own <= Version(call[c].rec) /\ call[c].own \in Nat
      BY <2>1 DEF ReplyInv, ReplyOK, Call, Versions, ProjectionAssumption
    <2>8. ReplyOK(c)'
      BY <2>2, <2>4, <2>5, <2>6, <2>7 DEF ReplyOK
    <2> QED BY <2>3, <2>4, <2>8, SameReplies DEF ReplyInv
  <1>7. ASSUME NEW c \in Calls, ServeList(c) PROVE ReplyInv'
    <2>1. call[c] \in Call /\ call[c] # Idle
      BY <1>7, CallTypes DEF ServeList
    <2>2. call[c].rec \in Records /\ call[c].kind = "mine"
      BY <1>7, <2>1, CallTypes DEF ServeList
    <2> DEFINE open == {r \in Incidents : Open(r, Version(r))}
               g == [r \in Records |-> IF r \in Incidents THEN Version(r) ELSE 0]
    <2>3. PICK listed \in SUBSET open, whole \in BOOLEAN :
            /\ whole => listed = open
            /\ call' = [call EXCEPT ![c].pc = "served", ![c].listed = listed, ![c].whole = whole, ![c].got = g]
      BY <1>7 DEF ServeList
    <2>4. UNCHANGED history
      BY <1>7 DEF ServeList
    <2>5. /\ call'[c].pc = "served" /\ call'[c].rec = call[c].rec /\ call'[c].own = call[c].own
          /\ call'[c].kind = "mine" /\ call'[c].got = g
          /\ call'[c].listed = listed /\ call'[c].whole = whole
          /\ \A d \in Calls : d # c => call'[d] = call[d]
      BY <2>1, <2>2, <2>3 DEF TypeOK, Call
    <2>6. \A i \in Records : /\ Version(i)' = Version(i) /\ Version(i) \in Nat /\ Version(i) # 0
                             /\ \A v : Open(i, v)' = Open(i, v)
      BY <2>4 DEF Version, TypeOK, Open
    <2>7. \A i \in Records : g[i] = IF i \in Incidents THEN Version(i) ELSE 0
      OBVIOUS
    <2>8. call[c].own <= Version(call[c].rec) /\ call[c].own \in Nat
      BY <2>1 DEF ReplyInv, ReplyOK, Call, Versions, ProjectionAssumption
    <2>9. \A i \in Incidents : whole /\ i \notin listed => ~Open(i, Version(i))
      BY <2>3
    <2>10. Incidents \subseteq Records
      BY DEF ProjectionAssumption
    <2> HIDE DEF open, g
    <2>11. ReplyOK(c)'
      BY <2>2, <2>5, <2>6, <2>7, <2>8, <2>9, <2>10 DEF ReplyOK
    <2> QED BY <2>4, <2>5, <2>11, SameReplies DEF ReplyInv
  <1>8. ASSUME NEW c \in Calls, FailCall(c) PROVE ReplyInv'
    <2>1. UNCHANGED history /\ call'[c] = Idle /\ \A d \in Calls : d # c => call'[d] = call[d]
      BY <1>8 DEF FailCall, TypeOK, End
    <2> QED BY <2>1, SameReplies DEF ReplyInv, ReplyOK
  <1>9. ASSUME NEW c \in Calls, Persist(c) PROVE ReplyInv'
    <2>1. UNCHANGED history /\ call'[c] = Idle /\ \A d \in Calls : d # c => call'[d] = call[d]
      BY <1>9 DEF Persist, TypeOK, End
    <2> QED BY <2>1, SameReplies DEF ReplyInv, ReplyOK
  <1>10. ASSUME NEW c \in Calls, NEW wrote \in BOOLEAN, PersistFails(c, wrote) PROVE ReplyInv'
    <2>1. UNCHANGED history /\ call'[c] = Idle /\ \A d \in Calls : d # c => call'[d] = call[d]
      BY <1>10 DEF PersistFails, TypeOK, End, PersistBroken, ghosts, disk
    <2> QED BY <2>1, SameReplies DEF ReplyInv, ReplyOK
  <1>11. ASSUME NEW c \in Calls, Prune(c) PROVE ReplyInv'
    <2>1. UNCHANGED history /\ call'[c] = Idle /\ \A d \in Calls : d # c => call'[d] = call[d]
      BY <1>11 DEF Prune, TypeOK, End
    <2> QED BY <2>1, SameReplies DEF ReplyInv, ReplyOK
  <1>12. ASSUME NEW c \in Calls, PruneFails(c) PROVE ReplyInv'
    <2>1. UNCHANGED history /\ call'[c] = Idle /\ \A d \in Calls : d # c => call'[d] = call[d]
      BY <1>12 DEF PruneFails, TypeOK, End
    <2> QED BY <2>1, SameReplies DEF ReplyInv, ReplyOK
  <1>13. ASSUME NEW c \in Calls, PruneLeavesStaged(c) PROVE ReplyInv'
    <2>1. UNCHANGED history /\ call'[c] = Idle /\ \A d \in Calls : d # c => call'[d] = call[d]
      BY <1>13 DEF PruneLeavesStaged, TypeOK, End
    <2> QED BY <2>1, SameReplies DEF ReplyInv, ReplyOK
  <1>14. ASSUME NEW c \in Calls, KilledInPrune(c) PROVE ReplyInv'
    <2>1. \A d \in Calls : call'[d] = Idle
      BY <1>14 DEF KilledInPrune, Restarted
    <2> QED BY <2>1 DEF ReplyInv, ReplyOK
  <1>15. ASSUME NEW c \in Calls, ReceiveMine(c) PROVE ReplyInv'
    <2>1. UNCHANGED history /\ call'[c] = Idle /\ \A d \in Calls : d # c => call'[d] = call[d]
      BY <1>15 DEF ReceiveMine, TypeOK, End
    <2> QED BY <2>1, SameReplies DEF ReplyInv, ReplyOK
  <1>16. ASSUME NEW c \in Calls, MineFails(c) PROVE ReplyInv'
    <2>1. UNCHANGED history /\ call'[c] = Idle /\ \A d \in Calls : d # c => call'[d] = call[d]
      BY <1>16 DEF MineFails, TypeOK, End, PersistBroken, ghosts, disk
    <2> QED BY <2>1, SameReplies DEF ReplyInv, ReplyOK
  <1>17. ASSUME NEW r \in Records, ReadRow(r) PROVE ReplyInv'
    <2>1. UNCHANGED <<history, call>>
      BY <1>17 DEF ReadRow, Only, disk, ghosts
    <2>2. \A i \in Records : Version(i)' = Version(i)
      BY <2>1 DEF Version
    <2>3. \A i \in Records : \A v : Open(i, v)' = Open(i, v)
      BY <2>1 DEF Open
    <2>4. \A d \in Calls : call[d] # Idle => call[d].rec \in Records
      BY CallTypes DEF TypeOK
    <2>5. Incidents \subseteq Records
      BY DEF ProjectionAssumption
    <2> QED BY <2>1, <2>2, <2>3, <2>4, <2>5 DEF ReplyInv, ReplyOK
  <1>18. ASSUME NEW r \in Records, ForeignEdit(r) PROVE ReplyInv'
    <2>1. Edit(r) /\ UNCHANGED call
      BY <1>18 DEF ForeignEdit
    <2>2. \A i \in Records : Version(i)' >= Version(i) /\ Version(i)' \in Nat
      BY <1>18, <2>1, EditGrows, StepType DEF TypeOK, Next
    <2> QED BY <2>1, <2>2, EditGrows, ReplyKept DEF ReplyInv
  <1>19. CASE PruneOrphans
    <2>1. UNCHANGED <<history, call>>
      BY <1>19 DEF PruneOrphans, Pruned, Orphans, Without
    <2>2. \A i \in Records : Version(i)' = Version(i)
      BY <2>1 DEF Version
    <2>3. \A i \in Records : \A v : Open(i, v)' = Open(i, v)
      BY <2>1 DEF Open
    <2>4. \A d \in Calls : call[d] # Idle => call[d].rec \in Records
      BY CallTypes DEF TypeOK
    <2>5. Incidents \subseteq Records
      BY DEF ProjectionAssumption
    <2> QED BY <2>1, <2>2, <2>3, <2>4, <2>5 DEF ReplyInv, ReplyOK
  <1>20. CASE Restart
    <2>1. \A d \in Calls : call'[d] = Idle
      BY <1>20 DEF Restart, Restarted
    <2> QED BY <2>1 DEF ReplyInv, ReplyOK
  <1>21. CASE UNCHANGED vars
    <2>1. UNCHANGED <<history, call>>
      BY <1>21 DEF vars, disk
    <2>2. \A i \in Records : Version(i)' = Version(i)
      BY <2>1 DEF Version
    <2>3. \A i \in Records : \A v : Open(i, v)' = Open(i, v)
      BY <2>1 DEF Open
    <2>4. \A d \in Calls : call[d] # Idle => call[d].rec \in Records
      BY CallTypes DEF TypeOK
    <2>5. Incidents \subseteq Records
      BY DEF ProjectionAssumption
    <2> QED BY <2>1, <2>2, <2>3, <2>4, <2>5 DEF ReplyInv, ReplyOK
  <1> QED
    BY <1>1, <1>2, <1>3, <1>4, <1>5, <1>6, <1>7, <1>8, <1>9, <1>10, <1>11,
       <1>12, <1>13, <1>14, <1>15, <1>16, <1>17, <1>18, <1>19, <1>20, <1>21, Zenon DEF Next, Handler

\* Copies come from replies.
LEMMA CopyStep == TypeOK /\ ReplyInv /\ CopyInv /\ [Next]_vars => CopyInv'
  <1> SUFFICES ASSUME TypeOK, ReplyInv, CopyInv, [Next]_vars PROVE CopyInv'
    OBVIOUS
  <1> USE DEF TypeOK, CopyInv
  <1>1. ASSUME NEW c \in Calls, NEW r \in Records, Expire(c, r) PROVE CopyInv'
    BY <1>1 DEF Expire, Ask, Without, disk, ghosts, Version
  <1>2. ASSUME NEW c \in Calls, NEW r \in Records, AskFresh(c, r) PROVE CopyInv'
    BY <1>2 DEF AskFresh, Ask, disk, ghosts, Version
  <1>3. ASSUME NEW c \in Calls, AskMine(c) PROVE CopyInv'
    BY <1>3 DEF AskMine, Ask, disk, ghosts, Version
  <1>4. ASSUME NEW c \in Calls, NEW r \in Records, AskWrite(c, r) PROVE CopyInv'
    BY <1>4 DEF AskWrite, Ask, disk, ghosts, Version
  <1>5. ASSUME NEW c \in Calls, ServeWrite(c) PROVE CopyInv'
    BY <1>5 DEF ServeWrite, Edit, disk, ghosts, Version, Versions, Call
  <1>6. ASSUME NEW c \in Calls, ServeRead(c) PROVE CopyInv'
    BY <1>6 DEF ServeRead, Only, disk, ghosts, Version
  <1>7. ASSUME NEW c \in Calls, ServeList(c) PROVE CopyInv'
    BY <1>7 DEF ServeList, disk, ghosts, Version
  <1>8. ASSUME NEW c \in Calls, FailCall(c) PROVE CopyInv'
    BY <1>8 DEF FailCall, End, disk, ghosts, Version
  <1>9. ASSUME NEW c \in Calls, Persist(c) PROVE CopyInv'
    <2>1. \A r \in Records : call[c].got[r] <= Version(r)
      BY <1>9, Served DEF Persist
    <2>2. \A r \in Records : /\ file'[r] = IF call[c].got[r] # 0 THEN call[c].got[r] ELSE file[r]
                             /\ row'[r] = IF call[c].got[r] # 0 THEN call[c].got[r] ELSE row[r]
      BY <1>9 DEF Persist, Persisted, FilesWritten, Over
    <2>3. UNCHANGED history
      BY <1>9 DEF Persist
    <2> QED BY <2>1, <2>2, <2>3 DEF Version
  <1>10. ASSUME NEW c \in Calls, NEW wrote \in BOOLEAN, PersistFails(c, wrote) PROVE CopyInv'
    <2>1. \A r \in Records : call[c].got[r] <= Version(r)
      BY <1>10, Served DEF PersistFails
    <2>2. \A r \in Records : file'[r] \in {file[r], call[c].got[r]}
      BY <1>10 DEF PersistFails, PersistBroken, FilesWritten, Over, disk
    <2>3. UNCHANGED <<history, row>>
      BY <1>10 DEF PersistFails, PersistBroken, disk
    <2> QED BY <2>1, <2>2, <2>3 DEF Version
  <1>11. ASSUME NEW c \in Calls, Prune(c) PROVE CopyInv'
    BY <1>11 DEF Prune, Pruned, Without, Restaged, End, Version, Versions, ProjectionAssumption
  <1>12. ASSUME NEW c \in Calls, PruneFails(c) PROVE CopyInv'
    BY <1>12 DEF PruneFails, Without, Restaged, End, ghosts, Version
  <1>13. ASSUME NEW c \in Calls, PruneLeavesStaged(c) PROVE CopyInv'
    BY <1>13 DEF PruneLeavesStaged, Pruned, Without, End, Version, Versions, ProjectionAssumption
  <1>14. ASSUME NEW c \in Calls, KilledInPrune(c) PROVE CopyInv'
    BY <1>14, SMTT(30) DEF KilledInPrune, Without, Restarted, Nothing, Version, Versions, ProjectionAssumption
  <1>15. ASSUME NEW c \in Calls, ReceiveMine(c) PROVE CopyInv'
    <2>1. \A r \in Records : call[c].got[r] <= Version(r)
      BY <1>15, Served DEF ReceiveMine
    <2> DEFINE new == [r \in Records |-> IF r \in call[c].listed THEN call[c].got[r] ELSE 0]
    <2>2. Persisted(new)
      BY <1>15 DEF ReceiveMine
    <2>3. \A r \in Records : /\ file'[r] \in {file[r], call[c].got[r]}
                             /\ row'[r] \in {row[r], call[c].got[r]}
      BY <2>2 DEF Persisted, FilesWritten, Over
    <2>4. UNCHANGED history
      BY <1>15 DEF ReceiveMine
    <2> QED BY <2>1, <2>3, <2>4 DEF Version
  <1>16. ASSUME NEW c \in Calls, MineFails(c) PROVE CopyInv'
    <2>1. \A r \in Records : call[c].got[r] <= Version(r)
      BY <1>16, Served DEF MineFails
    <2>2. PICK S : PersistBroken([r \in Records |-> IF r \in S THEN call[c].got[r] ELSE 0])
      BY <1>16 DEF MineFails
    <2>3. \A r \in Records : file'[r] \in {file[r], call[c].got[r]}
      BY <2>2 DEF PersistBroken, FilesWritten, Over
    <2>4. UNCHANGED <<history, row>>
      BY <2>2 DEF PersistBroken
    <2> QED BY <2>1, <2>3, <2>4 DEF Version
  <1>17. ASSUME NEW r \in Records, ReadRow(r) PROVE CopyInv'
    BY <1>17 DEF ReadRow, Only, disk, ghosts, Version
  <1>18. ASSUME NEW r \in Records, ForeignEdit(r) PROVE CopyInv'
    BY <1>18 DEF ForeignEdit, Edit, disk, ghosts, Version, Versions
  <1>19. CASE PruneOrphans
    BY <1>19 DEF PruneOrphans, Pruned, Orphans, Without, Version, Versions, ProjectionAssumption
  <1>20. CASE Restart
    BY <1>20 DEF Restart, Restarted, Nothing, Without, Version, Versions, ProjectionAssumption
  <1>21. CASE UNCHANGED vars
    BY <1>21 DEF vars, disk, Version, vars
  <1> HIDE DEF TypeOK, CopyInv
  <1> QED
    BY <1>1, <1>2, <1>3, <1>4, <1>5, <1>6, <1>7, <1>8, <1>9, <1>10, <1>11,
       <1>12, <1>13, <1>14, <1>15, <1>16, <1>17, <1>18, <1>19, <1>20, <1>21, Zenon DEF Next, Handler

\* A reply older than an acknowledged write marks its records late.
LEMMA SeenStep == TypeOK /\ ReplyInv /\ WriteSeen /\ [Next]_vars => WriteSeen'
  <1> SUFFICES ASSUME TypeOK, ReplyInv, WriteSeen, [Next]_vars PROVE WriteSeen'
    OBVIOUS
  <1>1. ASSUME NEW c \in Calls, NEW r \in Records, Expire(c, r) PROVE WriteSeen'
    BY <1>1 DEF Expire, Ask, Without, disk, ghosts, TypeOK, WriteSeen, Materialized
  <1>2. ASSUME NEW c \in Calls, NEW r \in Records, AskFresh(c, r) PROVE WriteSeen'
    BY <1>2 DEF AskFresh, Ask, disk, ghosts, TypeOK, WriteSeen, Materialized
  <1>3. ASSUME NEW c \in Calls, AskMine(c) PROVE WriteSeen'
    BY <1>3 DEF AskMine, Ask, disk, ghosts, TypeOK, WriteSeen, Materialized
  <1>4. ASSUME NEW c \in Calls, NEW r \in Records, AskWrite(c, r) PROVE WriteSeen'
    BY <1>4 DEF AskWrite, Ask, disk, ghosts, TypeOK, WriteSeen, Materialized
  <1>5. ASSUME NEW c \in Calls, ServeWrite(c) PROVE WriteSeen'
    BY <1>5 DEF ServeWrite, Edit, disk, ghosts, TypeOK, WriteSeen, Materialized
  <1>6. ASSUME NEW c \in Calls, ServeRead(c) PROVE WriteSeen'
    BY <1>6 DEF ServeRead, Only, disk, ghosts, TypeOK, WriteSeen, Materialized
  <1>7. ASSUME NEW c \in Calls, ServeList(c) PROVE WriteSeen'
    BY <1>7 DEF ServeList, disk, ghosts, TypeOK, WriteSeen, Materialized
  <1>8. ASSUME NEW c \in Calls, FailCall(c) PROVE WriteSeen'
    BY <1>8 DEF FailCall, End, disk, ghosts, TypeOK, WriteSeen, Materialized
  <1>9. ASSUME NEW c \in Calls, Persist(c) PROVE WriteSeen'
    <2>1. /\ call[c].rec \in Records /\ call[c].own \in Nat /\ call[c].got[call[c].rec] >= call[c].own
          /\ \A r \in Records : call[c].got[r] \in Nat /\ (r # call[c].rec => call[c].got[r] = 0)
      BY <1>9, Served DEF Persist
    <2>2. \A r \in Records : /\ file'[r] = IF call[c].got[r] # 0 THEN call[c].got[r] ELSE file[r]
                             /\ row'[r] = IF call[c].got[r] # 0 THEN call[c].got[r] ELSE row[r]
      BY <1>9 DEF Persist, Persisted, FilesWritten, Over
    <2>3. \A r \in Records : \/ acked'[r] = acked[r]
                             \/ r = call[c].rec /\ acked'[r] = call[c].own /\ call[c].own > acked[r]
      <3>1. \/ acked' = acked
            \/ /\ acked' = [acked EXCEPT ![call[c].rec] = call[c].own]
               /\ call[c].own > acked[call[c].rec]
        BY <1>9 DEF Persist
      <3>2. acked \in Maps
        BY DEF TypeOK, Maps
      <3>3. CASE acked' = acked
        BY <3>3
      <3>4. CASE acked' # acked
        <4>1. acked'[call[c].rec] = call[c].own
          BY <2>1, <3>1, <3>2, <3>4 DEF Maps
        <4>2. \A r \in Records : r # call[c].rec => acked'[r] = acked[r]
          BY <2>1, <3>1, <3>2, <3>4 DEF Maps
        <4> QED BY <3>1, <3>4, <4>1, <4>2
      <3> QED BY <3>3, <3>4
    <2>4. \A r \in Records \ late' : /\ call[c].got[r] # 0 => ~(call[c].got[r] < acked[r])
                                     /\ call[c].got[r] = 0 => r \notin late
      BY <1>9 DEF Persist, Persisted, Written, Older
    <2>5. \A r \in Records : acked[r] \in Nat /\ row[r] \in Nat /\ file[r] \in Nat
      BY DEF TypeOK, Versions, ProjectionAssumption
    <2>6. ASSUME NEW r \in Records, r \notin late', row'[r] # 0
          PROVE  row'[r] >= acked'[r] /\ (file'[r] # 0 => file'[r] >= acked'[r])
      BY <2>1, <2>2, <2>3, <2>4, <2>5, <2>6 DEF WriteSeen, Materialized
    <2> QED BY <2>6 DEF WriteSeen, Materialized
  <1>10. ASSUME NEW c \in Calls, NEW wrote \in BOOLEAN, PersistFails(c, wrote) PROVE WriteSeen'
    <2>1. \A r \in Records : call[c].got[r] \in Nat
      BY <1>10, Served DEF PersistFails
    <2>2. PersistBroken(call[c].got) \/ UNCHANGED <<disk, ghosts>>
      BY <1>10 DEF PersistFails
    <2>3. CASE PersistBroken(call[c].got)
      <3>1. \A r \in Records : /\ file'[r] = IF call[c].got[r] # 0 THEN call[c].got[r] ELSE file[r]
                               /\ row'[r] = row[r] /\ acked'[r] = acked[r]
        BY <2>3 DEF PersistBroken, FilesWritten, Over
      <3>2. \A r \in Records \ late' : /\ r \notin late
                                       /\ call[c].got[r] # 0 => ~(call[c].got[r] < acked[r])
        BY <2>3 DEF PersistBroken, Older
      <3>3. \A r \in Records : acked[r] \in Nat /\ row[r] \in Nat /\ file[r] \in Nat
        BY DEF TypeOK, Versions, ProjectionAssumption
      <3>4. ASSUME NEW r \in Records, r \notin late', row'[r] # 0
            PROVE  row'[r] >= acked'[r] /\ (file'[r] # 0 => file'[r] >= acked'[r])
        <4>1. CASE call[c].got[r] = 0
          BY <2>1, <3>1, <3>2, <3>3, <3>4, <4>1 DEF WriteSeen, Materialized
        <4>2. CASE call[c].got[r] # 0
          BY <2>1, <3>1, <3>2, <3>3, <3>4, <4>2 DEF WriteSeen, Materialized
        <4> QED BY <4>1, <4>2
      <3> QED BY <3>4 DEF WriteSeen, Materialized
    <2>4. CASE UNCHANGED <<disk, ghosts>>
      BY <2>4 DEF disk, ghosts, WriteSeen, Materialized
    <2> QED BY <2>2, <2>3, <2>4
  <1>11. ASSUME NEW c \in Calls, Prune(c) PROVE WriteSeen'
    BY <1>11 DEF Prune, Pruned, Without, Restaged, End, TypeOK, WriteSeen, Materialized, Versions, ProjectionAssumption
  <1>12. ASSUME NEW c \in Calls, PruneFails(c) PROVE WriteSeen'
    BY <1>12 DEF PruneFails, Without, Restaged, End, ghosts, TypeOK, WriteSeen, Materialized, Versions, ProjectionAssumption
  <1>13. ASSUME NEW c \in Calls, PruneLeavesStaged(c) PROVE WriteSeen'
    BY <1>13 DEF PruneLeavesStaged, Pruned, Without, End, TypeOK, WriteSeen, Materialized, Versions, ProjectionAssumption
  <1>14. ASSUME NEW c \in Calls, KilledInPrune(c) PROVE WriteSeen'
    BY <1>14 DEF KilledInPrune, Without, Restarted, Nothing, TypeOK, WriteSeen, Materialized, Versions, ProjectionAssumption
  <1>15. ASSUME NEW c \in Calls, ReceiveMine(c) PROVE WriteSeen'
    <2>1. \A r \in Records : call[c].got[r] \in Nat
      BY <1>15, Served DEF ReceiveMine
    <2> DEFINE new == [r \in Records |-> IF r \in call[c].listed THEN call[c].got[r] ELSE 0]
    <2>2. Persisted(new) /\ UNCHANGED acked
      BY <1>15 DEF ReceiveMine
    <2>3. \A r \in Records : new[r] \in Nat
      BY <2>1
    <2> HIDE DEF new
    <2>4. \A r \in Records : /\ file'[r] = IF new[r] # 0 THEN new[r] ELSE file[r]
                             /\ row'[r] = IF new[r] # 0 THEN new[r] ELSE row[r]
      BY <2>2 DEF Persisted, FilesWritten, Over
    <2>5. \A r \in Records \ late' : /\ new[r] # 0 => ~(new[r] < acked[r])
                                     /\ new[r] = 0 => r \notin late
      BY <2>2 DEF Persisted, Written, Older
    <2>6. \A r \in Records : acked[r] \in Nat /\ row[r] \in Nat /\ file[r] \in Nat
      BY DEF TypeOK, Versions, ProjectionAssumption
    <2>7. ASSUME NEW r \in Records, r \notin late', row'[r] # 0
          PROVE  row'[r] >= acked'[r] /\ (file'[r] # 0 => file'[r] >= acked'[r])
      <3>1. CASE new[r] = 0
        BY <2>2, <2>3, <2>4, <2>5, <2>6, <2>7, <3>1 DEF WriteSeen, Materialized
      <3>2. CASE new[r] # 0
        BY <2>2, <2>3, <2>4, <2>5, <2>6, <2>7, <3>2 DEF WriteSeen, Materialized
      <3> QED BY <3>1, <3>2
    <2> QED BY <2>7 DEF WriteSeen, Materialized
  <1>16. ASSUME NEW c \in Calls, MineFails(c) PROVE WriteSeen'
    <2>1. \A r \in Records : call[c].got[r] \in Nat
      BY <1>16, Served DEF MineFails
    <2>2. PICK S : PersistBroken([r \in Records |-> IF r \in S THEN call[c].got[r] ELSE 0])
      BY <1>16 DEF MineFails
    <2> DEFINE new == [r \in Records |-> IF r \in S THEN call[c].got[r] ELSE 0]
    <2>3. \A r \in Records : new[r] \in Nat
      BY <2>1
    <2>4. PersistBroken(new)
      BY <2>2
    <2> HIDE DEF new
    <2>5. \A r \in Records : /\ file'[r] = IF new[r] # 0 THEN new[r] ELSE file[r]
                             /\ row'[r] = row[r] /\ acked'[r] = acked[r]
      BY <2>4 DEF PersistBroken, FilesWritten, Over
    <2>6. \A r \in Records \ late' : r \notin late /\ (new[r] # 0 => ~(new[r] < acked[r]))
      BY <2>4 DEF PersistBroken, Older
    <2>7. \A r \in Records : acked[r] \in Nat /\ row[r] \in Nat /\ file[r] \in Nat
      BY DEF TypeOK, Versions, ProjectionAssumption
    <2>8. ASSUME NEW r \in Records, r \notin late', row'[r] # 0
          PROVE  row'[r] >= acked'[r] /\ (file'[r] # 0 => file'[r] >= acked'[r])
      BY <2>3, <2>5, <2>6, <2>7, <2>8 DEF WriteSeen, Materialized
    <2> QED BY <2>8 DEF WriteSeen, Materialized
  <1>17. ASSUME NEW r \in Records, ReadRow(r) PROVE WriteSeen'
    BY <1>17 DEF ReadRow, Only, disk, ghosts, TypeOK, WriteSeen, Materialized
  <1>18. ASSUME NEW r \in Records, ForeignEdit(r) PROVE WriteSeen'
    BY <1>18 DEF ForeignEdit, Edit, disk, ghosts, TypeOK, WriteSeen, Materialized
  <1>19. CASE PruneOrphans
    BY <1>19 DEF PruneOrphans, Pruned, Orphans, Without, TypeOK, WriteSeen, Materialized, Versions, ProjectionAssumption
  <1>20. CASE Restart
    BY <1>20 DEF Restart, Restarted, Nothing, Without, TypeOK, WriteSeen, Materialized, Versions, ProjectionAssumption
  <1>21. CASE UNCHANGED vars
    BY <1>21 DEF vars, disk, TypeOK, WriteSeen, Materialized
  <1> QED
    BY <1>1, <1>2, <1>3, <1>4, <1>5, <1>6, <1>7, <1>8, <1>9, <1>10, <1>11,
       <1>12, <1>13, <1>14, <1>15, <1>16, <1>17, <1>18, <1>19, <1>20, <1>21, Zenon DEF Next, Handler

\* Tombstones stay true when a step keeps or drops them, and keeps the rows of those it keeps.
LEMMA TombKept ==
  ASSUME TypeOK, TombInv, NEW D,
         UNCHANGED history,
         \A r \in D : r \in dead /\ row'[r] = row[r],
         \A r \in D : r \in crossed => r \in crossed' \cup broken',
         \A r \in D : r \in broken => r \in broken'
  PROVE  \A r \in D :
           /\ row'[r] # 0
           /\ r \notin crossed' \cup broken' => \E v \in row'[r] .. Version(r)' : ~Open(r, v)'
  <1> SUFFICES ASSUME NEW r \in D
               PROVE  /\ row'[r] # 0
                      /\ r \notin crossed' \cup broken' => \E v \in row'[r] .. Version(r)' : ~Open(r, v)'
    OBVIOUS
  <1>1. row[r] # 0 /\ row'[r] = row[r] /\ r \in dead
    BY DEF TombInv
  <1>2. ASSUME r \notin crossed' \cup broken' PROVE \E v \in row'[r] .. Version(r)' : ~Open(r, v)'
    <2>1. r \notin crossed \cup broken
      BY <1>2
    <2>2. PICK v \in row[r] .. Version(r) : ~Open(r, v)
      BY <1>1, <2>1 DEF TombInv
    <2>3. Version(r)' = Version(r) /\ Open(r, v)' = Open(r, v)
      BY DEF Version, Open
    <2> QED BY <1>1, <2>2, <2>3
  <1> QED BY <1>1, <1>2

\* A listing tombstones only what was closed, or missing from a whole answer.
LEMMA TombStep == TypeOK /\ ReplyInv /\ CopyInv /\ FilesAccounted /\ TombInv /\ [Next]_vars => TombInv'
  <1> SUFFICES ASSUME TypeOK, ReplyInv, CopyInv, FilesAccounted, TombInv, [Next]_vars PROVE TombInv'
    OBVIOUS
  <1>1. ASSUME NEW c \in Calls, NEW r \in Records, Expire(c, r) PROVE TombInv'
    <2>1. /\ UNCHANGED <<history, row, dead, crossed>>
          /\ broken \subseteq broken'
      BY <1>1 DEF Expire, Ask, Without, disk, ghosts
    <2>8. \A i \in dead' : /\ row'[i] # 0
                           /\ i \notin crossed' \cup broken' => \E v \in row'[i] .. Version(i)' : ~Open(i, v)'
      BY <2>1, TombKept
    <2> QED BY <2>8 DEF TombInv
  <1>2. ASSUME NEW c \in Calls, NEW r \in Records, AskFresh(c, r) PROVE TombInv'
    <2>1. /\ UNCHANGED <<history, row, dead, crossed>>
          /\ broken \subseteq broken'
      BY <1>2 DEF AskFresh, Ask, disk, ghosts
    <2>8. \A i \in dead' : /\ row'[i] # 0
                           /\ i \notin crossed' \cup broken' => \E v \in row'[i] .. Version(i)' : ~Open(i, v)'
      BY <2>1, TombKept
    <2> QED BY <2>8 DEF TombInv
  <1>3. ASSUME NEW c \in Calls, AskMine(c) PROVE TombInv'
    <2>1. /\ UNCHANGED <<history, row, dead, crossed>>
          /\ broken \subseteq broken'
      BY <1>3 DEF AskMine, Ask, disk, ghosts
    <2>8. \A i \in dead' : /\ row'[i] # 0
                           /\ i \notin crossed' \cup broken' => \E v \in row'[i] .. Version(i)' : ~Open(i, v)'
      BY <2>1, TombKept
    <2> QED BY <2>8 DEF TombInv
  <1>4. ASSUME NEW c \in Calls, NEW r \in Records, AskWrite(c, r) PROVE TombInv'
    <2>1. /\ UNCHANGED <<history, row, dead, crossed>>
          /\ broken \subseteq broken'
      BY <1>4 DEF AskWrite, Ask, disk, ghosts
    <2>8. \A i \in dead' : /\ row'[i] # 0
                           /\ i \notin crossed' \cup broken' => \E v \in row'[i] .. Version(i)' : ~Open(i, v)'
      BY <2>1, TombKept
    <2> QED BY <2>8 DEF TombInv
  <1>5. ASSUME NEW c \in Calls, ServeWrite(c) PROVE TombInv'
    <2>1. call[c].rec \in Records
      BY <1>5, CallTypes DEF ServeWrite
    <2>2. PICK r \in Records : Edit(r) /\ UNCHANGED <<row, dead, crossed, broken>>
      BY <1>5, <2>1 DEF ServeWrite, disk, ghosts
    <2>3. \A i \in Records : Version(i)' >= Version(i) /\ Version(i)' \in Nat /\ Version(i) \in Nat
      BY <2>2, EditGrows, StepType DEF TypeOK
    <2>4. \A i \in dead : /\ row[i] # 0
                          /\ i \notin crossed \cup broken => \E v \in row[i] .. Version(i)' : ~Open(i, v)'
      <3> SUFFICES ASSUME NEW i \in dead, i \notin crossed \cup broken
                   PROVE  \E v \in row[i] .. Version(i)' : ~Open(i, v)'
        BY DEF TombInv
      <3>1. PICK v \in row[i] .. Version(i) : ~Open(i, v)
        BY DEF TombInv
      <3>2. i \in Records /\ row[i] \in Nat /\ row[i] # 0
        BY DEF TypeOK, TombInv, Versions, ProjectionAssumption
      <3>3. Version(i) <= MaxVersions
        BY <3>2 DEF TypeOK
      <3>4. v \in Versions /\ v # 0 /\ v <= Version(i)
        BY <3>1, <3>2, <3>3, <2>3 DEF Versions, ProjectionAssumption
      <3>5. Open(i, v)' = Open(i, v)
        BY <2>2, <3>2, <3>4, EditGrows
      <3>6. v \in row[i] .. Version(i)'
        BY <3>1, <3>2, <2>3
      <3> QED BY <3>1, <3>5, <3>6
    <2> QED BY <2>2, <2>4 DEF TombInv
  <1>6. ASSUME NEW c \in Calls, ServeRead(c) PROVE TombInv'
    <2>1. /\ UNCHANGED <<history, row, dead, crossed>>
          /\ broken \subseteq broken'
      BY <1>6 DEF ServeRead, Only, disk, ghosts
    <2>8. \A i \in dead' : /\ row'[i] # 0
                           /\ i \notin crossed' \cup broken' => \E v \in row'[i] .. Version(i)' : ~Open(i, v)'
      BY <2>1, TombKept
    <2> QED BY <2>8 DEF TombInv
  <1>7. ASSUME NEW c \in Calls, ServeList(c) PROVE TombInv'
    <2>1. /\ UNCHANGED <<history, row, dead, crossed>>
          /\ broken \subseteq broken'
      BY <1>7 DEF ServeList, disk, ghosts
    <2>8. \A i \in dead' : /\ row'[i] # 0
                           /\ i \notin crossed' \cup broken' => \E v \in row'[i] .. Version(i)' : ~Open(i, v)'
      BY <2>1, TombKept
    <2> QED BY <2>8 DEF TombInv
  <1>8. ASSUME NEW c \in Calls, FailCall(c) PROVE TombInv'
    <2>1. /\ UNCHANGED <<history, row, dead, crossed>>
          /\ broken \subseteq broken'
      BY <1>8 DEF FailCall, End, disk, ghosts
    <2>8. \A i \in dead' : /\ row'[i] # 0
                           /\ i \notin crossed' \cup broken' => \E v \in row'[i] .. Version(i)' : ~Open(i, v)'
      BY <2>1, TombKept
    <2> QED BY <2>8 DEF TombInv
  <1>9. ASSUME NEW c \in Calls, Persist(c) PROVE TombInv'
    <2>1. \A r \in Records : r # call[c].rec => call[c].got[r] = 0
      BY <1>9, Served DEF Persist
    <2>2. /\ UNCHANGED <<history, broken>> /\ dead' = dead \ {call[c].rec} /\ crossed' = crossed \ {call[c].rec}
          /\ row' = Over(row, call[c].got)
      BY <1>9 DEF Persist, Persisted
    <2>3. \A r \in dead' : r \in dead /\ row'[r] = row[r]
      BY <2>1, <2>2 DEF Over, TypeOK
    <2>8. \A i \in dead' : /\ row'[i] # 0
                           /\ i \notin crossed' \cup broken' => \E v \in row'[i] .. Version(i)' : ~Open(i, v)'
      BY <2>2, <2>3, TombKept
    <2> QED BY <2>8 DEF TombInv
  <1>10. ASSUME NEW c \in Calls, NEW wrote \in BOOLEAN, PersistFails(c, wrote) PROVE TombInv'
    <2>1. UNCHANGED <<history, row, dead, crossed>> /\ broken \subseteq broken'
      BY <1>10 DEF PersistFails, PersistBroken, disk, ghosts
    <2>8. \A i \in dead' : /\ row'[i] # 0
                           /\ i \notin crossed' \cup broken' => \E v \in row'[i] .. Version(i)' : ~Open(i, v)'
      BY <2>1, TombKept
    <2> QED BY <2>8 DEF TombInv
  <1>11. ASSUME NEW c \in Calls, Prune(c) PROVE TombInv'
    <2>1. PICK S : Pruned(S) /\ UNCHANGED history /\ broken \subseteq broken'
      BY <1>11 DEF Prune
    <2>2. \A r \in dead' : r \in dead /\ row'[r] = row[r]
      BY <2>1 DEF Pruned, Without, TypeOK
    <2>3. \A r \in dead' : r \in crossed => r \in crossed'
      BY <2>1 DEF Pruned
    <2>8. \A i \in dead' : /\ row'[i] # 0
                           /\ i \notin crossed' \cup broken' => \E v \in row'[i] .. Version(i)' : ~Open(i, v)'
      BY <2>1, <2>2, <2>3, TombKept
    <2> QED BY <2>8 DEF TombInv
  <1>12. ASSUME NEW c \in Calls, PruneFails(c) PROVE TombInv'
    <2>1. /\ UNCHANGED <<history, row, dead, crossed>>
          /\ broken \subseteq broken'
      BY <1>12 DEF PruneFails, Without, Restaged, End, ghosts
    <2>8. \A i \in dead' : /\ row'[i] # 0
                           /\ i \notin crossed' \cup broken' => \E v \in row'[i] .. Version(i)' : ~Open(i, v)'
      BY <2>1, TombKept
    <2> QED BY <2>8 DEF TombInv
  <1>13. ASSUME NEW c \in Calls, PruneLeavesStaged(c) PROVE TombInv'
    <2>1. PICK S : Pruned(S) /\ UNCHANGED history /\ broken \subseteq broken'
      BY <1>13 DEF PruneLeavesStaged
    <2>2. \A r \in dead' : r \in dead /\ row'[r] = row[r]
      BY <2>1 DEF Pruned, Without, TypeOK
    <2>3. \A r \in dead' : r \in crossed => r \in crossed'
      BY <2>1 DEF Pruned
    <2>8. \A i \in dead' : /\ row'[i] # 0
                           /\ i \notin crossed' \cup broken' => \E v \in row'[i] .. Version(i)' : ~Open(i, v)'
      BY <2>1, <2>2, <2>3, TombKept
    <2> QED BY <2>8 DEF TombInv
  <1>14. ASSUME NEW c \in Calls, KilledInPrune(c) PROVE TombInv'
    <2>1. UNCHANGED <<history, crossed>> /\ broken \subseteq broken'
      BY <1>14 DEF KilledInPrune
    <2>2. \/ UNCHANGED <<row, dead>>
          \/ row' = Without(row, {call[c].rec}) /\ dead' = dead \ {call[c].rec}
      BY <1>14 DEF KilledInPrune
    <2>3. \A r \in dead' : r \in dead /\ row'[r] = row[r]
      BY <2>2 DEF Without, TypeOK
    <2>8. \A i \in dead' : /\ row'[i] # 0
                           /\ i \notin crossed' \cup broken' => \E v \in row'[i] .. Version(i)' : ~Open(i, v)'
      BY <2>1, <2>3, TombKept
    <2> QED BY <2>8 DEF TombInv
  <1>15. ASSUME NEW c \in Calls, ReceiveMine(c) PROVE TombInv'
    <2> DEFINE new == [r \in Records |-> IF r \in call[c].listed THEN call[c].got[r] ELSE 0]
    <2>1. PICK T \in SUBSET Unsupported(c, row', file') :
            /\ Persisted(new)
            /\ dead' = (dead \ call[c].listed) \cup T
            /\ crossed' = (crossed \ (call[c].listed \cup T)) \cup {r \in T : call[c].got[r] < row'[r]}
      BY <1>15 DEF ReceiveMine
    <2>2. UNCHANGED <<history, broken>>
      BY <1>15 DEF ReceiveMine
    <2>3. \A r \in dead' \ T : r \in dead /\ row'[r] = row[r]
      BY <2>1 DEF Persisted, Over, TypeOK
    <2>4. \A r \in dead' \ T : r \in crossed => r \in crossed' \cup broken'
      BY <2>1
    <2>5. \A r \in dead' \ T : /\ row'[r] # 0
                               /\ r \notin crossed' \cup broken' => \E v \in row'[r] .. Version(r)' : ~Open(r, v)'
      BY <2>2, <2>3, <2>4, TombKept
    <2>6. /\ \A r \in Records : row'[r] <= Version(r)' /\ (r \notin broken => file'[r] = row'[r])
          /\ \A r \in Records : row'[r] \in Nat /\ Version(r)' \in Nat
      <3>1. CopyInv' /\ FilesAccounted' /\ TypeOK'
        BY CopyStep, FilesStep, StepType
      <3> QED BY <3>1, <2>2 DEF CopyInv, FilesAccounted, TypeOK, Versions, ProjectionAssumption
    <2>7. ASSUME NEW r \in T
          PROVE  /\ row'[r] # 0
                 /\ r \notin crossed' \cup broken' => \E v \in row'[r] .. Version(r)' : ~Open(r, v)'
      <3>1. /\ r \in Incidents /\ r \in Records /\ row'[r] # 0
            /\ \/ ~Open(r, IF file'[r] # 0 THEN file'[r] ELSE row'[r])
               \/ call[c].whole /\ r \notin call[c].listed
        BY DEF Unsupported, ProjectionAssumption
      <3>2. \A v : Open(r, v)' = Open(r, v)
        BY <2>2 DEF Open
      <3>3. Version(r)' = Version(r)
        BY <2>2 DEF Version
      <3>4. ASSUME r \notin crossed' \cup broken' PROVE \E v \in row'[r] .. Version(r)' : ~Open(r, v)'
        <4>1. file'[r] = row'[r] /\ ~(call[c].got[r] < row'[r])
          BY <2>1, <2>2, <2>6, <3>1, <3>4
        <4>2. CASE ~Open(r, row'[r])
          BY <4>2, <3>1, <3>2, <2>6
        <4>3. CASE call[c].whole /\ r \notin call[c].listed
          <5>1. ~Open(r, call[c].got[r]) /\ call[c].got[r] \in Nat /\ call[c].got[r] <= Version(r)
            BY <1>15, <3>1, <4>3, Served DEF ReceiveMine
          <5> DEFINE v == call[c].got[r]
          <5>2. v \in row'[r] .. Version(r)'
            BY <5>1, <4>1, <3>1, <3>3, <2>6
          <5>3. PICK w : w = call[c].got[r]
            OBVIOUS
          <5>4. w \in row'[r] .. Version(r)' /\ ~Open(r, w)'
            BY <5>1, <5>2, <5>3, <3>2
          <5> QED BY <5>4
        <4> QED BY <4>1, <4>2, <4>3, <3>1
      <3> QED BY <3>1, <3>4
    <2>8. dead' = (dead' \ T) \cup T
      BY <2>1
    <2> QED BY <2>5, <2>7, <2>8 DEF TombInv
  <1>16. ASSUME NEW c \in Calls, MineFails(c) PROVE TombInv'
    <2>1. UNCHANGED <<history, row, dead, crossed>> /\ broken \subseteq broken'
      BY <1>16 DEF MineFails, PersistBroken
    <2>8. \A i \in dead' : /\ row'[i] # 0
                           /\ i \notin crossed' \cup broken' => \E v \in row'[i] .. Version(i)' : ~Open(i, v)'
      BY <2>1, TombKept
    <2> QED BY <2>8 DEF TombInv
  <1>17. ASSUME NEW r \in Records, ReadRow(r) PROVE TombInv'
    <2>1. /\ UNCHANGED <<history, row, dead, crossed>>
          /\ broken \subseteq broken'
      BY <1>17 DEF ReadRow, Only, disk, ghosts
    <2>8. \A i \in dead' : /\ row'[i] # 0
                           /\ i \notin crossed' \cup broken' => \E v \in row'[i] .. Version(i)' : ~Open(i, v)'
      BY <2>1, TombKept
    <2> QED BY <2>8 DEF TombInv
  <1>18. ASSUME NEW r \in Records, ForeignEdit(r) PROVE TombInv'
    <2>1. Edit(r) /\ UNCHANGED <<row, dead, crossed, broken>>
      BY <1>18 DEF ForeignEdit, disk, ghosts
    <2>2. \A i \in Records : Version(i)' >= Version(i) /\ Version(i)' \in Nat /\ Version(i) \in Nat
      BY <2>1, EditGrows, StepType DEF TypeOK
    <2>3. \A i \in dead : /\ row[i] # 0
                          /\ i \notin crossed \cup broken => \E v \in row[i] .. Version(i)' : ~Open(i, v)'
      <3> SUFFICES ASSUME NEW i \in dead, i \notin crossed \cup broken
                   PROVE  \E v \in row[i] .. Version(i)' : ~Open(i, v)'
        BY DEF TombInv
      <3>1. PICK v \in row[i] .. Version(i) : ~Open(i, v)
        BY DEF TombInv
      <3>2. i \in Records /\ row[i] \in Nat /\ row[i] # 0
        BY DEF TypeOK, TombInv, Versions, ProjectionAssumption
      <3>3. Version(i) <= MaxVersions
        BY <3>2 DEF TypeOK
      <3>4. v \in Versions /\ v # 0 /\ v <= Version(i)
        BY <3>1, <3>2, <3>3, <2>2 DEF Versions, ProjectionAssumption
      <3>5. Open(i, v)' = Open(i, v)
        BY <2>1, <3>2, <3>4, EditGrows
      <3>6. v \in row[i] .. Version(i)'
        BY <3>1, <3>2, <2>2
      <3> QED BY <3>1, <3>5, <3>6
    <2> QED BY <2>1, <2>3 DEF TombInv
  <1>19. CASE PruneOrphans
    <2>1. PICK S : Pruned(S) /\ UNCHANGED history /\ broken \subseteq broken'
      BY <1>19 DEF PruneOrphans
    <2>2. \A r \in dead' : r \in dead /\ row'[r] = row[r]
      BY <2>1 DEF Pruned, Without, TypeOK
    <2>3. \A r \in dead' : r \in crossed => r \in crossed'
      BY <2>1 DEF Pruned
    <2>8. \A i \in dead' : /\ row'[i] # 0
                           /\ i \notin crossed' \cup broken' => \E v \in row'[i] .. Version(i)' : ~Open(i, v)'
      BY <2>1, <2>2, <2>3, TombKept
    <2> QED BY <2>8 DEF TombInv
  <1>20. CASE Restart
    <2>1. /\ UNCHANGED <<history, row, dead, crossed>>
          /\ broken \subseteq broken'
      BY <1>20 DEF Restart, Restarted, Nothing, Without
    <2>8. \A i \in dead' : /\ row'[i] # 0
                           /\ i \notin crossed' \cup broken' => \E v \in row'[i] .. Version(i)' : ~Open(i, v)'
      BY <2>1, TombKept
    <2> QED BY <2>8 DEF TombInv
  <1>21. CASE UNCHANGED vars
    <2>1. /\ UNCHANGED <<history, row, dead, crossed>>
          /\ broken \subseteq broken'
      BY <1>21 DEF vars, disk
    <2>8. \A i \in dead' : /\ row'[i] # 0
                           /\ i \notin crossed' \cup broken' => \E v \in row'[i] .. Version(i)' : ~Open(i, v)'
      BY <2>1, TombKept
    <2> QED BY <2>8 DEF TombInv
  <1> QED
    BY <1>1, <1>2, <1>3, <1>4, <1>5, <1>6, <1>7, <1>8, <1>9, <1>10, <1>11,
       <1>12, <1>13, <1>14, <1>15, <1>16, <1>17, <1>18, <1>19, <1>20, <1>21, Zenon DEF Next, Handler

-----------------------------------------------------------------------------
\* Everything the argument carries from step to step.
IndInv ==
  TypeOK /\ ReplyInv /\ CopyInv /\ MemoryBacked /\ WriteSeen /\ FilesAccounted /\ TombInv

\* No copies and no calls.
LEMMA InitInd == Init => IndInv
  <1> SUFFICES ASSUME Init PROVE IndInv
    OBVIOUS
  <1>1. history \in [Records -> Seq(BOOLEAN)] /\ \A r \in Records : Version(r) = 1
    BY DEF Init, Version
  <1>2. Nothing \in Maps /\ \A r \in Records : Nothing[r] = 0
    BY MapTypes DEF Nothing
  <1>3. call \in [Calls -> Call \cup {Idle}] /\ \A c \in Calls : call[c] = Idle
    BY DEF Init
  <1>4. TypeOK
    BY <1>1, <1>2, <1>3 DEF Init, TypeOK, Maps, ProjectionAssumption
  <1>5. ReplyInv
    BY <1>3 DEF ReplyInv, ReplyOK
  <1>6. CopyInv /\ MemoryBacked /\ WriteSeen /\ FilesAccounted /\ TombInv
    BY <1>1, <1>2 DEF Init, CopyInv, MemoryBacked, WriteSeen, FilesAccounted, TombInv
  <1> QED BY <1>4, <1>5, <1>6 DEF IndInv

\* The step lemmas together.
LEMMA StepInd == IndInv /\ [Next]_vars => IndInv'
  BY StepType, ReplyStep, CopyStep, BackedStep, SeenStep, FilesStep, TombStep, Zenon DEF IndInv

\* The inductive invariant holds in every reachable state.
THEOREM Inductive == Spec => []IndInv
  BY InitInd, StepInd, PTL DEF Spec

\* Calls, maintenance and kills keep every component of the state well formed.
THEOREM TypeCorrect == Spec => []TypeOK
  <1>1. IndInv => TypeOK
    BY DEF IndInv
  <1> QED BY <1>1, Inductive, PTL

\* Memory never answers what the disk would not.
THEOREM MemoryTrue == Spec => []MemoryBacked
  <1>1. IndInv => MemoryBacked
    BY DEF IndInv
  <1> QED BY <1>1, Inductive, PTL

\* After an acknowledged write no cached read shows the record as it was before.
THEOREM WritesSeen == Spec => []WriteSeen
  <1>1. IndInv => WriteSeen
    BY DEF IndInv
  <1> QED BY <1>1, Inductive, PTL

\* The vault mirrors the rows unless a persist or prune stopped in the middle.
THEOREM FilesMatch == Spec => []FilesAccounted
  <1>1. IndInv => FilesAccounted
    BY DEF IndInv
  <1> QED BY <1>1, Inductive, PTL

\* A tombstone has a reason in the record's history.
THEOREM TombstonesTrue == Spec => []TombstoneTrue
  <1>1. IndInv => TombstoneTrue
    BY DEF IndInv, TombInv, TombstoneTrue
  <1> QED BY <1>1, Inductive, PTL
=============================================================================
