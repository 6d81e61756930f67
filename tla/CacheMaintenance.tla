-------------------------- MODULE CacheMaintenance --------------------------
(***************************************************************************)
(* The commands that replace or repair the local cache while no daemon     *)
(* runs (import-cache-from-vault, rebuild-cache, reset-cache and           *)
(* adopt-cache-only-projection), a daemon that uses the cache, and kills.  *)
(*                                                                         *)
(* Every command is a process: it asks whether the daemon's endpoint       *)
(* answers, takes an advisory file lock that dies with it, builds a new    *)
(* cache under a name of its own and renames it over the old one.  A file  *)
(* is named by who made it; its rows are left out, except how much of its  *)
(* source a new cache holds.  What SQLite does with the write-ahead log    *)
(* beside a database is modelled as far as the code depends on it: who     *)
(* opens a database takes over the log it finds there, the last to close   *)
(* it removes the log, a killed process leaves it.                         *)
(***************************************************************************)
EXTENDS Naturals

CONSTANTS Cmds,      \* maintenance commands, each run once
          Orig,      \* the cache the commands find
          None,
          Pages,     \* portions of its source a new cache is filled from
          MaxStarts  \* bound on daemon starts

ASSUME CacheAssumption ==
  /\ Orig \notin Cmds
  /\ None \notin Cmds \cup {Orig, "unchanged", "dirty"}
  /\ Pages \in Nat
  /\ MaxStarts \in Nat

VARIABLES cmd,     \* each command's progress
          lock,    \* the holder of cache.maintenance.lock
          stage,   \* the files each command has left under its staging name
          db,      \* which file is the cache
          wal,     \* whose log lies beside it
          mixed,   \* has the cache taken over the log of another file?
          daemon,  \* the daemon, the file it has open, and is its log the one beside it?
          starts,  \* daemon starts so far
          late     \* has a daemon opened the cache behind a command's back?

vars == <<cmd, lock, stage, db, wal, mixed, daemon, starts, late>>

Files == Cmds \cup {Orig}
Kinds == {"import", "rebuild", "reset", "adopt"}
Down == [st |-> "down", open |-> None, attached |-> FALSE]

Active == {c \in Cmds : cmd[c].pc \notin {"idle", "ended", "killed"}}
Staging == {c \in Cmds : cmd[c].pc \in {"building", "staged", "cleared"} /\ cmd[c].kind # "adopt"}

\* An empty cache is all a reset wants.
Whole(c) == cmd[c].kind = "reset" \/ cmd[c].pages = Pages

Places == {"idle", "checked", "building", "staged", "cleared", "sweeping", "adopting", "ended",
           "killed"}
Outcomes == {None, "refused", "busy", "unchanged", "dirty", "unclaimed", "ok"}
Command == [pc: Places, kind: Kinds \cup {None}, pages: 0 .. Pages, seen: Files \cup {None},
            out: Outcomes]

TypeOK ==
  /\ cmd \in [Cmds -> Command]
  /\ lock \in Cmds \cup {None}
  /\ stage \in [Cmds -> SUBSET {"file", "wal"}]
  /\ db \in Files
  /\ wal \in Files \cup {None}
  /\ mixed \in BOOLEAN
  /\ daemon \in [st: {"down", "opening", "up"}, open: Files \cup {None}, attached: BOOLEAN]
  /\ starts \in 0 .. MaxStarts
  /\ late \in BOOLEAN

Init ==
  /\ cmd = [c \in Cmds |-> [pc |-> "idle", kind |-> None, pages |-> 0, seen |-> None, out |-> None]]
  /\ lock = None
  /\ stage = [c \in Cmds |-> {}]
  /\ db = Orig
  /\ wal = None
  /\ mixed = FALSE
  /\ daemon = Down
  /\ starts = 0
  /\ late = FALSE

Moved(c, pc) == [cmd EXCEPT ![c].pc = pc]
Ended(c, out) == [cmd EXCEPT ![c].pc = "ended", ![c].out = out]

\* The lock file is closed with the process that holds it.
Unlock(c) == lock' = IF lock = c THEN None ELSE lock

\* Opening the cache takes over the log beside it.
Recover ==
  /\ mixed' = (mixed \/ wal \notin {None, db})
  /\ wal' = IF wal = None THEN None ELSE db

-----------------------------------------------------------------------------
(* The commands. *)

\* Variant with a fault: a running daemon is not noticed.
CheckBlind(c, kind) ==
  /\ cmd[c].pc = "idle"
  /\ cmd' = [cmd EXCEPT ![c].pc = "checked", ![c].kind = kind]
  /\ late' = (late \/ daemon.st = "opening")
  /\ UNCHANGED <<lock, stage, db, wal, mixed, daemon, starts>>

\* ensure_cache_replacement_is_offline: a daemon opens the cache before it can be reached.
Check(c, kind) ==
  /\ cmd[c].pc = "idle"
  /\ \/ /\ daemon.st = "up"
        /\ cmd' = [cmd EXCEPT ![c].pc = "ended", ![c].kind = kind, ![c].out = "refused"]
        /\ UNCHANGED late
     \/ /\ daemon.st # "up"
        /\ cmd' = [cmd EXCEPT ![c].pc = "checked", ![c].kind = kind]
        /\ late' = (late \/ daemon.st = "opening")
  /\ UNCHANGED <<lock, stage, db, wal, mixed, daemon, starts>>

\* Variant with a fault: the lock is shared.
LockShared(c) ==
  /\ cmd[c].pc = "checked"
  /\ lock' = c
  /\ cmd' = [cmd EXCEPT ![c].pc = "building", ![c].seen = db]
  /\ stage' = IF cmd[c].kind = "adopt" THEN stage ELSE [stage EXCEPT ![c] = {"file", "wal"}]
  /\ UNCHANGED <<db, wal, mixed, daemon, starts, late>>

\* acquire_cache_maintenance_lock, which does not wait; then the staging cache is created.
Lock(c) ==
  /\ cmd[c].pc = "checked"
  /\ \/ /\ lock # None
        /\ cmd' = Ended(c, "busy")
        /\ UNCHANGED <<lock, stage>>
     \/ /\ lock = None
        /\ lock' = c
        /\ cmd' = [cmd EXCEPT ![c].pc = "building", ![c].seen = db]
        /\ stage' = IF cmd[c].kind = "adopt" THEN stage ELSE [stage EXCEPT ![c] = {"file", "wal"}]
  /\ UNCHANGED <<db, wal, mixed, daemon, starts, late>>

\* A page of a ServiceNow table, or a document of the vault, goes into the staging cache.
Build(c) ==
  /\ cmd[c].pc = "building"
  /\ cmd[c].kind \in {"import", "rebuild"}
  /\ cmd[c].pages < Pages
  /\ cmd' = [cmd EXCEPT ![c].pages = @ + 1]
  /\ UNCHANGED <<lock, stage, db, wal, mixed, daemon, starts, late>>

\* A page, a document or the store fails: the staging files are removed, or that fails too.
BuildFails(c) ==
  /\ c \in Staging
  /\ cmd[c].pc = "building"
  /\ \/ /\ cmd' = Ended(c, "unchanged")
        /\ stage' = [stage EXCEPT ![c] = {}]
     \/ /\ cmd' = Ended(c, "dirty")
        /\ UNCHANGED stage
  /\ Unlock(c)
  /\ UNCHANGED <<db, wal, mixed, daemon, starts, late>>

\* The build is complete: its store is closed and validated.
Close(c) ==
  /\ c \in Staging
  /\ cmd[c].pc = "building"
  /\ Whole(c)
  /\ cmd' = Moved(c, "staged")
  /\ stage' = [stage EXCEPT ![c] = {"file"}]
  /\ UNCHANGED <<lock, db, wal, mixed, daemon, starts, late>>

\* Variant with a fault: the old cache's log is left to the new one.
ClearNot(c) ==
  /\ cmd[c].pc = "staged"
  /\ cmd[c].kind # "import"
  /\ cmd' = Moved(c, "cleared")
  /\ UNCHANGED <<lock, stage, db, wal, mixed, daemon, starts, late>>

\* remove_sqlite_sidecars(database_path), in reset_cache and promote_rebuilt_cache; a
\* process that has the log open goes on writing to it.
Clear(c) ==
  /\ cmd[c].pc = "staged"
  /\ cmd[c].kind # "import"
  /\ cmd' = Moved(c, "cleared")
  /\ wal' = None
  /\ daemon' = [daemon EXCEPT !.attached = FALSE]
  /\ UNCHANGED <<lock, stage, db, mixed, starts, late>>

\* The rename; rebuild_cache_from_vault comes here without a Clear.
Rename(c) ==
  /\ cmd[c].pc = IF cmd[c].kind = "import" THEN "staged" ELSE "cleared"
  /\ db' = c
  /\ mixed' = FALSE
  /\ stage' = [stage EXCEPT ![c] = @ \ {"file"}]
  /\ IF cmd[c].kind = "reset"
       THEN cmd' = Moved(c, "sweeping") /\ UNCHANGED lock
       ELSE cmd' = Ended(c, "ok") /\ Unlock(c)
  /\ UNCHANGED <<wal, daemon, starts, late>>

\* A step of the promotion fails.  All but import then remove their staging files.
PromotionFails(c) ==
  /\ cmd[c].pc \in {"staged", "cleared"}
  /\ cmd' = Ended(c, "unclaimed")
  /\ stage' = IF cmd[c].kind = "import" THEN stage ELSE [stage EXCEPT ![c] = {}]
  /\ Unlock(c)
  /\ UNCHANGED <<db, wal, mixed, daemon, starts, late>>

\* remove_stale_cache_artifacts: what any command left, in the order of the directory.
Sweep(c, d) ==
  /\ cmd[c].pc = "sweeping"
  /\ stage[d] # {}
  /\ stage' = [stage EXCEPT ![d] = {}]
  /\ UNCHANGED <<cmd, lock, db, wal, mixed, daemon, starts, late>>

SweepEnds(c) ==
  /\ cmd[c].pc = "sweeping"
  /\ cmd' = Ended(c, IF \A d \in Cmds : stage[d] = {} THEN "ok" ELSE "unclaimed")
  /\ Unlock(c)
  /\ UNCHANGED <<stage, db, wal, mixed, daemon, starts, late>>

\* adopt_legacy_cache_only_records works in place.
AdoptOpens(c) ==
  /\ cmd[c].pc = "building"
  /\ cmd[c].kind = "adopt"
  /\ cmd' = Moved(c, "adopting")
  /\ mixed' = (mixed \/ wal \notin {None, db})
  /\ wal' = db
  /\ UNCHANGED <<lock, stage, db, daemon, starts, late>>

AdoptCloses(c) ==
  /\ cmd[c].pc = "adopting"
  /\ cmd' = Ended(c, "ok")
  /\ wal' = IF daemon.attached /\ daemon.open = db THEN wal ELSE None
  /\ Unlock(c)
  /\ UNCHANGED <<stage, db, mixed, daemon, starts, late>>

AdoptFails(c) ==
  /\ cmd[c].pc \in {"building", "adopting"}
  /\ cmd[c].kind = "adopt"
  /\ cmd' = Ended(c, "unclaimed")
  /\ Unlock(c)
  /\ UNCHANGED <<stage, db, wal, mixed, daemon, starts, late>>

\* A command is killed: nothing is cleaned up but the lock.
Kill(c) ==
  /\ c \in Active
  /\ cmd' = Moved(c, "killed")
  /\ Unlock(c)
  /\ UNCHANGED <<stage, db, wal, mixed, daemon, starts, late>>

-----------------------------------------------------------------------------
(* The daemon. *)

\* A daemon starts and opens the cache, and does not look at the lock.
DaemonOpens ==
  /\ daemon.st = "down"
  /\ starts < MaxStarts
  /\ starts' = starts + 1
  /\ daemon' = [st |-> "opening", open |-> db, attached |-> TRUE]
  /\ Recover
  /\ late' = (late \/ Active # {})
  /\ UNCHANGED <<cmd, lock, stage, db>>

DaemonListens ==
  /\ daemon.st = "opening"
  /\ daemon' = [daemon EXCEPT !.st = "up"]
  /\ UNCHANGED <<cmd, lock, stage, db, wal, mixed, starts, late>>

DaemonWrites ==
  /\ daemon.st = "up"
  /\ daemon.attached
  /\ wal' = daemon.open
  /\ UNCHANGED <<cmd, lock, stage, db, mixed, daemon, starts, late>>

\* A daemon that ends closes its connection and with it the log; a killed one does not.
DaemonEnds ==
  /\ daemon.st # "down"
  /\ daemon' = Down
  /\ wal' \in {wal, None}
  /\ UNCHANGED <<cmd, lock, stage, db, mixed, starts, late>>

Step(c) ==
  \/ \E kind \in Kinds : Check(c, kind)
  \/ Lock(c) \/ Build(c) \/ BuildFails(c) \/ Close(c) \/ Clear(c) \/ Rename(c) \/ PromotionFails(c)
  \/ (\E d \in Cmds : Sweep(c, d)) \/ SweepEnds(c)
  \/ AdoptOpens(c) \/ AdoptCloses(c) \/ AdoptFails(c) \/ Kill(c)

Next ==
  \/ \E c \in Cmds : Step(c)
  \/ DaemonOpens \/ DaemonListens \/ DaemonWrites \/ DaemonEnds

Spec == Init /\ [][Next]_vars

-----------------------------------------------------------------------------
(* Properties *)

\* The cache is at every moment the prior one or a complete new one, never a part of one and
\* never one over which the log of another file was replayed.  Two ways to the latter remain:
\* an import leaves the log of a killed daemon beside the new cache, and a daemon that opens
\* the cache between a command's check and its end.
WholeCache ==
  /\ db \in Cmds => Whole(db)
  /\ mixed => late \/ \E c \in Cmds : cmd[c].kind = "import" /\ cmd[c].out = "ok"

\* A daemon that could be reached when the commands asked never has the cache replaced under
\* it: its writes go to the file the next daemon opens.
NotStranded ==
  daemon.st # "down" /\ (daemon.open # db \/ ~daemon.attached) => late

\* A command that says "current cache unchanged" is right: since it took the lock, neither
\* it nor another command has replaced the cache.
UnchangedTrue ==
  [][\A c \in Cmds : cmd[c].out = None /\ cmd'[c].out \in {"unchanged", "dirty"}
                       => db' = cmd[c].seen]_vars

\* The sweep of a reset takes what ended commands left and nothing a command still builds.
LiveStagingKept == \A c \in Staging : "file" \in stage[c]

\* Staging files are left only by a killed command, by a cleanup that failed, and by an
\* import whose rename failed; every other failure path cleans up.
StagingAccounted ==
  \A c \in Cmds : stage[c] # {} =>
    \/ c \in Staging \/ cmd[c].pc = "killed" \/ cmd[c].out = "dirty"
    \/ cmd[c].kind = "import" /\ cmd[c].out = "unclaimed"
=============================================================================
