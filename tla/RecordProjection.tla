-------------------------- MODULE RecordProjection --------------------------
(***************************************************************************)
(* The three local copies the daemon keeps of a ServiceNow record: an      *)
(* entry of the memory cache, a row of SQLite and a markdown file of the   *)
(* vault.  Reads fill them, governed writes replace them (fetch after the  *)
(* write) or remove them (Incidents), the listing of the user's own        *)
(* Incidents tombstones rows, orphan pruning takes rows without a file.    *)
(*                                                                         *)
(* Handlers interleave only where they wait for ServiceNow: what one does  *)
(* between two waits is one action.  Files and rows are not one            *)
(* transaction, so each such action has variants that end in the middle.   *)
(* A copy is the number of the server's version it shows, 0 when there is  *)
(* none.  Whether a copy is within its TTL is an input.                    *)
(***************************************************************************)
EXTENDS Naturals, Sequences, FiniteSets

CONSTANTS Records,     \* work records
          Incidents,   \* those of them that are Incidents
          Calls,       \* calls the daemon serves at once
          Capacity,    \* entries of the memory cache
          MaxVersions  \* bound on the versions of a record

ASSUME ProjectionAssumption ==
  /\ Incidents \subseteq Records
  /\ Capacity \in Nat \ {0}
  /\ MaxVersions \in Nat \ {0}

VARIABLES history,  \* of each record, for each version: was it open?
          mem,      \* the memory cache
          row,      \* the SQLite rows
          dead,     \* records whose row is tombstoned
          file,     \* the vault files
          staged,   \* files renamed to .pruning
          call,     \* the calls
          acked,    \* of each record, the newest version a write answered ok has made
          late,     \* records overwritten by a read served before an acknowledged write
          crossed,  \* records tombstoned by a listing served before their row was read
          broken    \* records a persist or prune has left half done, or whose file was deleted

vars == <<history, mem, row, dead, file, staged, call, acked, late, crossed, broken>>
disk == <<row, dead, file, staged>>
ghosts == <<acked, late, crossed, broken>>

Versions == 0 .. MaxVersions
Idle == [kind |-> "none", pc |-> "idle"]
Nothing == [r \in Records |-> 0]

Version(r) == Len(history[r])
Open(r, v) == history[r][v]

Call == [kind: {"fetch", "write", "patch", "mine"}, rec: Records, pc: {"writing", "asked", "served"},
         own: Versions, got: [Records -> Versions], listed: SUBSET Incidents, whole: BOOLEAN]

TypeOK ==
  /\ history \in [Records -> Seq(BOOLEAN)]
  /\ \A r \in Records : Version(r) \in 1 .. MaxVersions
  /\ mem \in [Records -> Versions] /\ row \in [Records -> Versions]
  /\ file \in [Records -> Versions] /\ staged \in [Records -> Versions]
  /\ acked \in [Records -> Versions]
  /\ dead \subseteq Records /\ late \subseteq Records
  /\ crossed \subseteq Records /\ broken \subseteq Records
  /\ call \in [Calls -> Call \cup {Idle}]

Init ==
  /\ history = [r \in Records |-> <<TRUE>>]
  /\ mem = Nothing /\ row = Nothing /\ file = Nothing /\ staged = Nothing
  /\ dead = {}
  /\ call = [c \in Calls |-> Idle]
  /\ acked = Nothing
  /\ late = {} /\ crossed = {} /\ broken = {}

\* What a read of the row yields: the file it names, or the JSON kept in the row.
Materialized(r) == IF file[r] # 0 THEN file[r] ELSE row[r]

\* The memory cache after the nonzero entries of new were put into m: the least recently used
\* make room.  The order of use is left out, so any entry not just put may be the one to go.
Put(m, new) ==
  LET all == [r \in Records |-> IF new[r] # 0 THEN new[r] ELSE m[r]]
      held == {r \in Records : all[r] # 0}
      put == {r \in Records : new[r] # 0}
      fits == IF Cardinality(held) <= Capacity THEN {held}
              ELSE {K \in SUBSET held : Cardinality(K) = Capacity /\ (put \subseteq K \/ K \subseteq put)}
  IN  {[r \in Records |-> IF r \in K THEN all[r] ELSE 0] : K \in fits}

Only(r, v) == [s \in Records |-> IF s = r THEN v ELSE 0]
Without(f, S) == [r \in Records |-> IF r \in S THEN 0 ELSE f[r]]
Over(f, new) == [r \in Records |-> IF new[r] # 0 THEN new[r] ELSE f[r]]
Older(new) == {r \in Records : new[r] # 0 /\ new[r] < acked[r]}
Written(new) == {r \in Records : new[r] # 0}

End(c) == call' = [call EXCEPT ![c] = Idle]

-----------------------------------------------------------------------------
\* Requests.

Ask(c, kind, r, pc) ==
  /\ call[c] = Idle
  /\ call' = [call EXCEPT ![c] = [kind |-> kind, rec |-> r, pc |-> pc, own |-> 0,
                                  got |-> Nothing, listed |-> {}, whole |-> FALSE]]

\* A cached read finds no entry in memory and a row within its TTL.
ReadRow(r) ==
  /\ mem[r] = 0 /\ row[r] # 0
  /\ mem' \in Put(mem, Only(r, Materialized(r)))
  /\ UNCHANGED <<disk, history, call, ghosts>>

\* A cached read finds its entry in memory too old.
Expire(c, r) ==
  /\ mem[r] # 0
  /\ Ask(c, "fetch", r, "asked")
  /\ mem' = Without(mem, {r})
  /\ UNCHANGED <<disk, history, ghosts>>

\* A fresh read, or a cached one that finds no row or a row too old.
AskFresh(c, r) ==
  /\ Ask(c, "fetch", r, "asked")
  /\ UNCHANGED <<mem, disk, history, ghosts>>

\* my_incidents.
AskMine(c) ==
  /\ \E r \in Incidents : Ask(c, "mine", r, "asked")
  /\ UNCHANGED <<mem, disk, history, ghosts>>

AskWrite(c, r) ==
  /\ Ask(c, IF r \in Incidents THEN "patch" ELSE "write", r, "writing")
  /\ UNCHANGED <<mem, disk, history, ghosts>>

-----------------------------------------------------------------------------
\* ServiceNow.

Edit(r) == /\ Version(r) < MaxVersions
           /\ \E open \in BOOLEAN : history' = [history EXCEPT ![r] = Append(@, open)]

ForeignEdit(r) ==
  /\ Edit(r)
  /\ UNCHANGED <<mem, disk, call, ghosts>>

ServeWrite(c) ==
  /\ call[c].pc = "writing"
  /\ Edit(call[c].rec)
  /\ call' = [call EXCEPT ![c].pc = "asked", ![c].own = Version(call[c].rec) + 1]
  /\ UNCHANGED <<mem, disk, ghosts>>

\* The reply stays on its way, or waits for the journal entries, until it is received.
ServeRead(c) ==
  /\ call[c].pc = "asked" /\ call[c].kind # "mine"
  /\ call' = [call EXCEPT ![c].pc = "served",
                          ![c].got = Only(call[c].rec, Version(call[c].rec))]
  /\ UNCHANGED <<history, mem, disk, ghosts>>

\* A listing is whole unless it reaches its limit or is the fallback without the active filter.
ServeList(c) ==
  /\ call[c].pc = "asked" /\ call[c].kind = "mine"
  /\ LET open == {r \in Incidents : Open(r, Version(r))}
     IN  \E listed \in SUBSET open, whole \in BOOLEAN :
           /\ whole => listed = open
           /\ call' = [call EXCEPT ![c].pc = "served", ![c].listed = listed, ![c].whole = whole,
                         ![c].got = [r \in Records |-> IF r \in Incidents THEN Version(r) ELSE 0]]
  /\ UNCHANGED <<history, mem, disk, ghosts>>

\* A request or its reply is lost, or ServiceNow refuses it.
FailCall(c) ==
  /\ call[c] # Idle
  /\ End(c)
  /\ UNCHANGED <<history, mem, disk, ghosts>>

-----------------------------------------------------------------------------
\* Replies.

\* A file is written under a temporary name and renamed.
FilesWritten(new) == file' = Over(file, new)

\* Persisting: out of memory, into the files, into the rows, back into memory.
Persisted(new) ==
  /\ FilesWritten(new)
  /\ row' = Over(row, new)
  /\ late' = (late \ Written(new)) \cup Older(new)

\* Mutant: memory is refreshed at the end only, not emptied first.
PersistBrokenStale(new) ==
  /\ FilesWritten(new)
  /\ late' = late \cup Older(new)
  /\ broken' = broken \cup Written(new)
  /\ UNCHANGED <<mem, row, dead, staged, history, acked, crossed>>

PersistBroken(new) ==
  /\ mem' = Without(mem, Written(new))
  /\ FilesWritten(new)
  /\ late' = late \cup Older(new)
  /\ broken' = broken \cup Written(new)
  /\ UNCHANGED <<row, dead, staged, history, acked, crossed>>

Persist(c) ==
  /\ call[c].pc = "served" /\ call[c].kind \in {"fetch", "write"}
  /\ Persisted(call[c].got)
  /\ mem' \in Put(mem, call[c].got)
  /\ dead' = dead \ {call[c].rec}
  /\ crossed' = crossed \ {call[c].rec}
  /\ acked' = IF call[c].kind = "write" /\ call[c].own > acked[call[c].rec]
              THEN [acked EXCEPT ![call[c].rec] = call[c].own] ELSE acked
  /\ End(c)
  /\ UNCHANGED <<staged, history, broken>>

\* The row, and with wrote = FALSE the file before it, could not be written.
PersistFails(c, wrote) ==
  /\ call[c].pc = "served" /\ call[c].kind \in {"fetch", "write"}
  /\ IF wrote THEN PersistBroken(call[c].got)
              ELSE /\ mem' = Without(mem, {call[c].rec})
                   /\ UNCHANGED <<disk, history, ghosts>>
  /\ End(c)

\* Mutant: only rows in scope are looked up.
PrunedActive(S) ==
  LET known == {r \in S \ dead : row[r] # 0} IN
  /\ mem' = Without(mem, known)
  /\ row' = Without(row, known)
  /\ file' = Without(file, known)
  /\ late' = late \ known
  /\ UNCHANGED <<dead, crossed>>

\* The whole record goes: memory, file, row.  A record without a row is left as it is.
Pruned(S) ==
  LET known == {r \in S : row[r] # 0} IN
  /\ mem' = Without(mem, known)
  /\ row' = Without(row, known)
  /\ file' = Without(file, known)
  /\ dead' = dead \ known
  /\ late' = late \ known
  /\ crossed' = crossed \ known

\* Staging a file takes the place of one an earlier prune left staged.
Restaged(r) ==
  staged' = IF row[r] # 0 /\ file[r] # 0 THEN Without(staged, {r}) ELSE staged

Prune(c) ==
  /\ call[c].pc = "served" /\ call[c].kind = "patch"
  /\ Pruned({call[c].rec})
  /\ acked' = IF call[c].own > acked[call[c].rec]
              THEN [acked EXCEPT ![call[c].rec] = call[c].own] ELSE acked
  /\ Restaged(call[c].rec)
  /\ End(c)
  /\ UNCHANGED <<history, broken>>

\* Mutant: the staged file is not put back.
PruneFailsUnrestored(c) ==
  /\ call[c].pc = "served" /\ call[c].kind = "patch" /\ row[call[c].rec] # 0
  /\ mem' = Without(mem, {call[c].rec})
  /\ staged' = [staged EXCEPT ![call[c].rec] = file[call[c].rec]]
  /\ file' = Without(file, {call[c].rec})
  /\ End(c)
  /\ UNCHANGED <<row, dead, history, ghosts>>

\* The store refuses: the staged file is put back.
PruneFails(c) ==
  /\ call[c].pc = "served" /\ call[c].kind = "patch" /\ row[call[c].rec] # 0
  /\ mem' = Without(mem, {call[c].rec})
  /\ Restaged(call[c].rec)
  /\ End(c)
  /\ UNCHANGED <<row, dead, file, history, ghosts>>

\* The row is gone, the staged file cannot be deleted.
PruneLeavesStaged(c) ==
  /\ call[c].pc = "served" /\ call[c].kind = "patch"
  /\ file[call[c].rec] # 0 /\ row[call[c].rec] # 0
  /\ Pruned({call[c].rec})
  /\ staged' = [staged EXCEPT ![call[c].rec] = file[call[c].rec]]
  /\ broken' = broken \cup {call[c].rec}
  /\ End(c)
  /\ UNCHANGED <<history, acked>>

\* Mutant: a listing cut at its limit is taken for the whole.
UnsupportedCut(c, rows, files) ==
  {r \in Incidents :
     /\ rows[r] # 0
     /\ r \notin dead \/ r \in call[c].listed
     /\ \/ ~Open(r, IF files[r] # 0 THEN files[r] ELSE rows[r])
        \/ r \notin call[c].listed}

\* The rows the user's listing no longer supports, of those the query then reads.
Unsupported(c, rows, files) ==
  {r \in Incidents :
     /\ rows[r] # 0
     /\ r \notin dead \/ r \in call[c].listed
     /\ \/ ~Open(r, IF files[r] # 0 THEN files[r] ELSE rows[r])
        \/ call[c].whole /\ r \notin call[c].listed}

\* A store failure ends the walk over the rows before its end.
ReceiveMine(c) ==
  /\ call[c].pc = "served" /\ call[c].kind = "mine"
  /\ LET new == [r \in Records |-> IF r \in call[c].listed THEN call[c].got[r] ELSE 0] IN
     /\ Persisted(new)
     /\ \E T \in SUBSET Unsupported(c, row', file') :
          /\ dead' = (dead \ call[c].listed) \cup T
          /\ crossed' = (crossed \ (call[c].listed \cup T))
                           \cup {r \in T : call[c].got[r] < row'[r]}
          /\ \E m \in Put(mem, new) : mem' = Without(m, T)
  /\ End(c)
  /\ UNCHANGED <<staged, history, acked, broken>>

\* Some files are written, the rows are rolled back together.
MineFails(c) ==
  /\ call[c].pc = "served" /\ call[c].kind = "mine"
  /\ \E S \in SUBSET call[c].listed \ {{}} :
       PersistBroken([r \in Records |-> IF r \in S THEN call[c].got[r] ELSE 0])
  /\ End(c)

-----------------------------------------------------------------------------
\* Maintenance and kills.

\* verify_vault: rows in scope whose file is missing.
Orphans == {r \in Records : row[r] # 0 /\ r \notin dead /\ file[r] = 0}

\* prune-orphans, as a job or a direct call: it runs to its end or to a row it cannot prune.
PruneOrphans ==
  /\ \E S \in SUBSET Orphans \ {{}} : Pruned(S)
  /\ UNCHANGED <<staged, history, call, acked, broken>>

Restarted ==
  /\ mem' = Nothing
  /\ call' = [c \in Calls |-> Idle]

\* The daemon ends; while it is down the user may delete files of the vault.
Restart ==
  /\ Restarted
  /\ \E S \in SUBSET {r \in Records : file[r] # 0} :
       file' = Without(file, S) /\ broken' = broken \cup S
  /\ UNCHANGED <<row, dead, staged, history, acked, late, crossed>>

\* The daemon is killed between the staging of a file and its removal.
KilledInPrune(c) ==
  /\ call[c].pc = "served" /\ call[c].kind = "patch"
  /\ LET r == call[c].rec IN
     /\ file[r] # 0 /\ row[r] # 0
     /\ staged' = [staged EXCEPT ![r] = file[r]]
     /\ file' = Without(file, {r})
     /\ \/ UNCHANGED <<row, dead>>
        \/ row' = Without(row, {r}) /\ dead' = dead \ {r}
     /\ broken' = broken \cup {r}
  /\ Restarted
  /\ UNCHANGED <<history, acked, late, crossed>>

-----------------------------------------------------------------------------
Handler(c) ==
  \/ \E r \in Records : Expire(c, r) \/ AskFresh(c, r) \/ AskWrite(c, r)
  \/ AskMine(c) \/ ServeWrite(c) \/ ServeRead(c) \/ ServeList(c) \/ FailCall(c)
  \/ Persist(c) \/ \E wrote \in BOOLEAN : PersistFails(c, wrote)
  \/ Prune(c) \/ PruneFails(c) \/ PruneLeavesStaged(c) \/ KilledInPrune(c)
  \/ ReceiveMine(c) \/ MineFails(c)

Next ==
  \/ \E c \in Calls : Handler(c)
  \/ \E r \in Records : ReadRow(r) \/ ForeignEdit(r)
  \/ PruneOrphans \/ Restart

Spec == Init /\ [][Next]_vars

-----------------------------------------------------------------------------
\* Memory never answers what the disk would not: an entry has a row and shows what a read of
\* that row yields.  Pruning relies on it: without a row it does not look at the memory.
MemoryBacked == \A r \in Records : mem[r] # 0 => row[r] # 0 /\ mem[r] = Materialized(r)

\* After a write was answered ok, no cached read shows the record as it was before, whatever
\* failed or restarted since, unless a read served before the write was persisted after it.
WriteSeen ==
  \A r \in Records \ late : row[r] # 0 => row[r] >= acked[r] /\ Materialized(r) >= acked[r]

\* The vault mirrors the rows, and nothing is left staged, except where a persist or prune
\* stopped in the middle or the user deleted a file.
FilesAccounted == \A r \in Records \ broken : file[r] = row[r] /\ staged[r] = 0

\* A tombstoned Incident has been closed, or out of the user's listing, at the version of its
\* row or later: a listing that is not whole tombstones nothing it merely lacks.
TombstoneTrue ==
  \A r \in dead \ (crossed \cup broken) :
    \E v \in row[r] .. Version(r) : ~Open(r, v)
=============================================================================
