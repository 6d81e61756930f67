----------------------- MODULE CacheMaintenanceProofs -----------------------
(***************************************************************************)
(* Proofs about CacheMaintenance for any number of commands, pages and     *)
(* daemon starts: every property of the module.                            *)
(*                                                                         *)
(* The argument rests on three facts.  The holder of the lock is the only  *)
(* command past taking it (LockInv).  A daemon that is not down beside a   *)
(* command past its check came late (OfflineInv).  The log beside the      *)
(* cache is the cache's own unless an import or a late daemon left it      *)
(* there (LogInv).                                                         *)
(***************************************************************************)
EXTENDS CacheMaintenance, TLAPS

USE CacheAssumption

Holding == {"building", "staged", "cleared", "sweeping", "adopting"}
Imported == \E c \in Cmds : cmd[c].kind = "import" /\ cmd[c].out = "ok"

\* The lock is held by the command that builds or promotes.
LockInv == \A c \in Cmds : cmd[c].pc \in Holding => lock = c

\* What a command has made so far, by where it is.
ProgressInv ==
  \A c \in Cmds :
    /\ cmd[c].pc # "ended" => cmd[c].out = None
    /\ cmd[c].pc \notin {"idle", "ended"} => cmd[c].kind \in Kinds
    /\ cmd[c].pc \in {"idle", "checked"} => stage[c] = {}
    /\ cmd[c].pc \in {"staged", "cleared"} => stage[c] = {"file"} /\ Whole(c) /\ cmd[c].kind # "adopt"
    /\ cmd[c].pc = "adopting" => cmd[c].kind = "adopt"
    /\ cmd[c].pc = "sweeping" => cmd[c].kind = "reset"

\* The cache a command puts in place is complete and stays as it was built.
PlacedInv == db \in Cmds => Whole(db) /\ cmd[db].pc \in {"sweeping", "ended", "killed"}

\* The cache is not replaced while somebody else has the lock.
SeenInv == \A c \in Cmds : cmd[c].pc \in {"building", "staged", "cleared"} => cmd[c].seen = db

\* A daemon beside a command past its check came late.
OfflineInv == daemon.st # "down" /\ Active # {} => late

\* The log beside the cache, and the one a promotion is about to put its cache beside.
LogInv ==
  late \/ Imported \/
    /\ ~mixed
    /\ wal \in {None, db}
    /\ \A c \in Cmds : cmd[c].pc = "cleared" => wal = None

-----------------------------------------------------------------------------
\* Type correctness.
LEMMA InitType == Init => TypeOK
  <1> SUFFICES ASSUME Init PROVE TypeOK
    OBVIOUS
  <1>1. [pc |-> "idle", kind |-> None, pages |-> 0, seen |-> None, out |-> None] \in Command
    BY DEF Command, Places, Outcomes, CacheAssumption
  <1>2. stage \in [Cmds -> SUBSET {"file", "wal"}]
    BY DEF Init
  <1>3. cmd \in [Cmds -> Command]
    BY <1>1 DEF Init
  <1>4. daemon \in [st: {"down", "opening", "up"}, open: Files \cup {None}, attached: BOOLEAN]
    BY DEF Init, Down
  <1>5. 0 \in 0 .. MaxStarts
    BY DEF CacheAssumption
  <1> QED
    BY <1>2, <1>3, <1>4, <1>5 DEF Init, TypeOK, Files

\* A command that moves on or ends is still a command.
LEMMA CommandTypes ==
  ASSUME cmd \in [Cmds -> Command], NEW c \in Cmds
  PROVE  /\ \A pc \in Places : Moved(c, pc) \in [Cmds -> Command]
         /\ \A out \in Outcomes : Ended(c, out) \in [Cmds -> Command]
         /\ \A f \in Files : [cmd EXCEPT ![c].pc = "building", ![c].seen = f] \in [Cmds -> Command]
         /\ \A k \in Kinds : /\ [cmd EXCEPT ![c].pc = "checked", ![c].kind = k] \in [Cmds -> Command]
                             /\ [cmd EXCEPT ![c].pc = "ended", ![c].kind = k, ![c].out = "refused"]
                                  \in [Cmds -> Command]
  <1>1. cmd[c] \in Command
    OBVIOUS
  <1>2. \A pc \in Places : [cmd[c] EXCEPT !.pc = pc] \in Command
    BY <1>1 DEF Command
  <1>3. \A out \in Outcomes : [cmd[c] EXCEPT !.pc = "ended", !.out = out] \in Command
    BY <1>1 DEF Command, Places
  <1>4. \A f \in Files : [cmd[c] EXCEPT !.pc = "building", !.seen = f] \in Command
    BY <1>1 DEF Command, Places
  <1>5. \A k \in Kinds : /\ [cmd[c] EXCEPT !.pc = "checked", !.kind = k] \in Command
                        /\ [cmd[c] EXCEPT !.pc = "ended", !.kind = k, !.out = "refused"] \in Command
    BY <1>1 DEF Command, Places, Outcomes
  <1>6. \A x \in Command : [cmd EXCEPT ![c] = x] \in [Cmds -> Command]
    OBVIOUS
  <1> QED BY <1>2, <1>3, <1>4, <1>5, <1>6, Zenon DEF Moved, Ended

\* Every action of a command and of the daemon keeps the types.
LEMMA StepType == TypeOK /\ [Next]_vars => TypeOK'
  <1> SUFFICES ASSUME TypeOK, [Next]_vars PROVE TypeOK'
    OBVIOUS
  <1> USE DEF TypeOK
  <1>1. ASSUME NEW c \in Cmds, NEW kind \in Kinds, Check(c, kind) PROVE TypeOK'
    <2>0. /\ [cmd EXCEPT ![c].pc = "checked", ![c].kind = kind] \in [Cmds -> Command]
          /\ [cmd EXCEPT ![c].pc = "ended", ![c].kind = kind, ![c].out = "refused"] \in [Cmds -> Command]
      BY CommandTypes
    <2>1. cmd' \in [Cmds -> Command]
      BY <1>1, <2>0 DEF Check
    <2> QED BY <1>1, <2>1 DEF Check
  <1>2. ASSUME NEW c \in Cmds, Lock(c) PROVE TypeOK'
    <2>0. /\ Ended(c, "busy") \in [Cmds -> Command]
          /\ [cmd EXCEPT ![c].pc = "building", ![c].seen = db] \in [Cmds -> Command]
      BY CommandTypes DEF Outcomes
    <2>1. cmd' \in [Cmds -> Command]
      BY <1>2, <2>0 DEF Lock
    <2> QED BY <1>2, <2>1 DEF Lock
  <1>3. ASSUME NEW c \in Cmds, Build(c) PROVE TypeOK'
    <2>1. cmd' \in [Cmds -> Command]
      BY <1>3 DEF Build, Command, CacheAssumption
    <2> QED BY <1>3, <2>1 DEF Build
  <1>4. ASSUME NEW c \in Cmds, BuildFails(c) PROVE TypeOK'
    <2>0. /\ Ended(c, "unchanged") \in [Cmds -> Command]
          /\ Ended(c, "dirty") \in [Cmds -> Command]
      BY CommandTypes DEF Outcomes
    <2>1. cmd' \in [Cmds -> Command]
      BY <1>4, <2>0 DEF BuildFails
    <2> QED BY <1>4, <2>1 DEF BuildFails, Unlock
  <1>5. ASSUME NEW c \in Cmds, Close(c) PROVE TypeOK'
    <2>1. cmd' \in [Cmds -> Command]
      BY <1>5, CommandTypes, Zenon DEF Close, Places
    <2> QED BY <1>5, <2>1 DEF Close
  <1>6. ASSUME NEW c \in Cmds, Clear(c) PROVE TypeOK'
    <2>1. cmd' \in [Cmds -> Command]
      BY <1>6, CommandTypes, Zenon DEF Clear, Places
    <2> QED BY <1>6, <2>1 DEF Clear
  <1>7. ASSUME NEW c \in Cmds, Rename(c) PROVE TypeOK'
    <2>0. /\ Moved(c, "sweeping") \in [Cmds -> Command]
          /\ Ended(c, "ok") \in [Cmds -> Command]
      BY CommandTypes DEF Places, Outcomes
    <2>1. cmd' \in [Cmds -> Command]
      BY <1>7, <2>0 DEF Rename
    <2> QED BY <1>7, <2>1 DEF Rename, Unlock, Files
  <1>8. ASSUME NEW c \in Cmds, PromotionFails(c) PROVE TypeOK'
    <2>1. cmd' \in [Cmds -> Command]
      BY <1>8, CommandTypes, Zenon DEF PromotionFails, Outcomes
    <2> QED BY <1>8, <2>1 DEF PromotionFails, Unlock
  <1>9. ASSUME NEW c \in Cmds, NEW d \in Cmds, Sweep(c, d) PROVE TypeOK'
    BY <1>9 DEF Sweep
  <1>10. ASSUME NEW c \in Cmds, SweepEnds(c) PROVE TypeOK'
    <2>1. cmd' \in [Cmds -> Command]
      BY <1>10, CommandTypes, Zenon DEF SweepEnds, Outcomes
    <2> QED BY <1>10, <2>1 DEF SweepEnds, Unlock
  <1>11. ASSUME NEW c \in Cmds, AdoptOpens(c) PROVE TypeOK'
    <2>1. cmd' \in [Cmds -> Command]
      BY <1>11, CommandTypes, Zenon DEF AdoptOpens, Places
    <2> QED BY <1>11, <2>1 DEF AdoptOpens
  <1>12. ASSUME NEW c \in Cmds, AdoptCloses(c) PROVE TypeOK'
    <2>1. cmd' \in [Cmds -> Command]
      BY <1>12, CommandTypes, Zenon DEF AdoptCloses, Outcomes
    <2> QED BY <1>12, <2>1 DEF AdoptCloses, Unlock
  <1>13. ASSUME NEW c \in Cmds, AdoptFails(c) PROVE TypeOK'
    <2>1. cmd' \in [Cmds -> Command]
      BY <1>13, CommandTypes, Zenon DEF AdoptFails, Outcomes
    <2> QED BY <1>13, <2>1 DEF AdoptFails, Unlock
  <1>14. ASSUME NEW c \in Cmds, Kill(c) PROVE TypeOK'
    <2>1. cmd' \in [Cmds -> Command]
      BY <1>14, CommandTypes, Zenon DEF Kill, Places
    <2> QED BY <1>14, <2>1 DEF Kill, Unlock
  <1>15. CASE DaemonOpens
    BY <1>15 DEF DaemonOpens, Recover, CacheAssumption
  <1>16. CASE DaemonListens
    BY <1>16 DEF DaemonListens
  <1>17. CASE DaemonWrites
    BY <1>17 DEF DaemonWrites
  <1>18. CASE DaemonEnds
    BY <1>18 DEF DaemonEnds, Down
  <1>19. CASE UNCHANGED vars
    BY <1>19 DEF vars
  <1> QED
    BY <1>1, <1>2, <1>3, <1>4, <1>5, <1>6, <1>7, <1>8, <1>9, <1>10, <1>11, <1>12, <1>13,
       <1>14, <1>15, <1>16, <1>17, <1>18, <1>19, Zenon DEF Next, Step

\* Commands, the daemon and kills keep every component of the state well formed.
THEOREM TypeCorrect == Spec => []TypeOK
  BY InitType, StepType, PTL DEF Spec

-----------------------------------------------------------------------------
(* The inductive invariants, one step lemma each. *)

\* The lock is given only when nobody has it, and given back by its holder.
LEMMA LockStep == TypeOK /\ LockInv /\ [Next]_vars => LockInv'
  <1> SUFFICES ASSUME TypeOK, LockInv, [Next]_vars PROVE LockInv'
    OBVIOUS
  <1> USE DEF TypeOK, Command, LockInv, Holding
  <1>1. ASSUME NEW c \in Cmds, NEW kind \in Kinds, Check(c, kind) PROVE LockInv'
    BY <1>1 DEF Check
  <1>2. ASSUME NEW c \in Cmds, Lock(c) PROVE LockInv'
    BY <1>2 DEF Lock, Ended
  <1>3. ASSUME NEW c \in Cmds, Build(c) PROVE LockInv'
    BY <1>3 DEF Build
  <1>4. ASSUME NEW c \in Cmds, BuildFails(c) PROVE LockInv'
    BY <1>4 DEF BuildFails, Ended, Unlock
  <1>5. ASSUME NEW c \in Cmds, Close(c) PROVE LockInv'
    BY <1>5 DEF Close, Moved
  <1>6. ASSUME NEW c \in Cmds, Clear(c) PROVE LockInv'
    BY <1>6 DEF Clear, Moved
  <1>7. ASSUME NEW c \in Cmds, Rename(c) PROVE LockInv'
    BY <1>7 DEF Rename, Moved, Ended, Unlock
  <1>8. ASSUME NEW c \in Cmds, PromotionFails(c) PROVE LockInv'
    BY <1>8 DEF PromotionFails, Ended, Unlock
  <1>9. ASSUME NEW c \in Cmds, NEW d \in Cmds, Sweep(c, d) PROVE LockInv'
    BY <1>9 DEF Sweep
  <1>10. ASSUME NEW c \in Cmds, SweepEnds(c) PROVE LockInv'
    BY <1>10 DEF SweepEnds, Ended, Unlock
  <1>11. ASSUME NEW c \in Cmds, AdoptOpens(c) PROVE LockInv'
    BY <1>11 DEF AdoptOpens, Moved
  <1>12. ASSUME NEW c \in Cmds, AdoptCloses(c) PROVE LockInv'
    BY <1>12 DEF AdoptCloses, Ended, Unlock
  <1>13. ASSUME NEW c \in Cmds, AdoptFails(c) PROVE LockInv'
    BY <1>13 DEF AdoptFails, Ended, Unlock
  <1>14. ASSUME NEW c \in Cmds, Kill(c) PROVE LockInv'
    BY <1>14 DEF Kill, Moved, Unlock
  <1>15. CASE DaemonOpens
    BY <1>15 DEF DaemonOpens, Recover
  <1>16. CASE DaemonListens
    BY <1>16 DEF DaemonListens
  <1>17. CASE DaemonWrites
    BY <1>17 DEF DaemonWrites
  <1>18. CASE DaemonEnds
    BY <1>18 DEF DaemonEnds, Down
  <1>19. CASE UNCHANGED vars
    BY <1>19 DEF vars
  <1> QED
    BY <1>1, <1>2, <1>3, <1>4, <1>5, <1>6, <1>7, <1>8, <1>9,
       <1>10, <1>11, <1>12, <1>13, <1>14, <1>15, <1>16, <1>17, <1>18, <1>19, Zenon DEF Next, Step

\* A command's stages leave behind what the next stage needs; a sweep meets no live file.
LEMMA ProgressStep == TypeOK /\ LockInv /\ ProgressInv /\ [Next]_vars => ProgressInv'
  <1> SUFFICES ASSUME TypeOK, LockInv, ProgressInv, [Next]_vars PROVE ProgressInv'
    OBVIOUS
  <1> USE DEF TypeOK, Command, LockInv, Holding, ProgressInv, Whole
  <1>1. ASSUME NEW c \in Cmds, NEW kind \in Kinds, Check(c, kind) PROVE ProgressInv'
    BY <1>1 DEF Check, Kinds
  <1>2. ASSUME NEW c \in Cmds, Lock(c) PROVE ProgressInv'
    BY <1>2 DEF Lock, Ended
  <1>3. ASSUME NEW c \in Cmds, Build(c) PROVE ProgressInv'
    BY <1>3 DEF Build
  <1>4. ASSUME NEW c \in Cmds, BuildFails(c) PROVE ProgressInv'
    BY <1>4 DEF BuildFails, Ended, Unlock, Staging
  <1>5. ASSUME NEW c \in Cmds, Close(c) PROVE ProgressInv'
    BY <1>5 DEF Close, Moved, Staging
  <1>6. ASSUME NEW c \in Cmds, Clear(c) PROVE ProgressInv'
    BY <1>6 DEF Clear, Moved
  <1>7. ASSUME NEW c \in Cmds, Rename(c) PROVE ProgressInv'
    BY <1>7 DEF Rename, Moved, Ended, Unlock
  <1>8. ASSUME NEW c \in Cmds, PromotionFails(c) PROVE ProgressInv'
    BY <1>8 DEF PromotionFails, Ended, Unlock
  <1>9. ASSUME NEW c \in Cmds, NEW d \in Cmds, Sweep(c, d) PROVE ProgressInv'
    BY <1>9 DEF Sweep
  <1>10. ASSUME NEW c \in Cmds, SweepEnds(c) PROVE ProgressInv'
    BY <1>10 DEF SweepEnds, Ended, Unlock
  <1>11. ASSUME NEW c \in Cmds, AdoptOpens(c) PROVE ProgressInv'
    BY <1>11 DEF AdoptOpens, Moved
  <1>12. ASSUME NEW c \in Cmds, AdoptCloses(c) PROVE ProgressInv'
    BY <1>12 DEF AdoptCloses, Ended, Unlock
  <1>13. ASSUME NEW c \in Cmds, AdoptFails(c) PROVE ProgressInv'
    BY <1>13 DEF AdoptFails, Ended, Unlock
  <1>14. ASSUME NEW c \in Cmds, Kill(c) PROVE ProgressInv'
    BY <1>14 DEF Kill, Moved, Unlock, Active
  <1>15. CASE DaemonOpens
    BY <1>15 DEF DaemonOpens, Recover
  <1>16. CASE DaemonListens
    BY <1>16 DEF DaemonListens
  <1>17. CASE DaemonWrites
    BY <1>17 DEF DaemonWrites
  <1>18. CASE DaemonEnds
    BY <1>18 DEF DaemonEnds, Down
  <1>19. CASE UNCHANGED vars
    BY <1>19 DEF vars
  <1> QED
    BY <1>1, <1>2, <1>3, <1>4, <1>5, <1>6, <1>7, <1>8, <1>9,
       <1>10, <1>11, <1>12, <1>13, <1>14, <1>15, <1>16, <1>17, <1>18, <1>19, Zenon DEF Next, Step

\* Only a complete cache is renamed into place, and its command never builds again.
LEMMA PlacedStep == TypeOK /\ LockInv /\ ProgressInv /\ PlacedInv /\ [Next]_vars => PlacedInv'
  <1> SUFFICES ASSUME TypeOK, LockInv, ProgressInv, PlacedInv, [Next]_vars PROVE PlacedInv'
    OBVIOUS
  <1> USE DEF TypeOK, Command, Files, LockInv, Holding, ProgressInv, PlacedInv, Whole
  <1>1. ASSUME NEW c \in Cmds, NEW kind \in Kinds, Check(c, kind) PROVE PlacedInv'
    BY <1>1 DEF Check
  <1>2. ASSUME NEW c \in Cmds, Lock(c) PROVE PlacedInv'
    BY <1>2 DEF Lock, Ended
  <1>3. ASSUME NEW c \in Cmds, Build(c) PROVE PlacedInv'
    BY <1>3 DEF Build
  <1>4. ASSUME NEW c \in Cmds, BuildFails(c) PROVE PlacedInv'
    BY <1>4 DEF BuildFails, Ended, Unlock, Staging
  <1>5. ASSUME NEW c \in Cmds, Close(c) PROVE PlacedInv'
    BY <1>5 DEF Close, Moved, Staging
  <1>6. ASSUME NEW c \in Cmds, Clear(c) PROVE PlacedInv'
    BY <1>6 DEF Clear, Moved
  <1>7. ASSUME NEW c \in Cmds, Rename(c) PROVE PlacedInv'
    BY <1>7 DEF Rename, Moved, Ended, Unlock
  <1>8. ASSUME NEW c \in Cmds, PromotionFails(c) PROVE PlacedInv'
    BY <1>8 DEF PromotionFails, Ended, Unlock
  <1>9. ASSUME NEW c \in Cmds, NEW d \in Cmds, Sweep(c, d) PROVE PlacedInv'
    BY <1>9 DEF Sweep
  <1>10. ASSUME NEW c \in Cmds, SweepEnds(c) PROVE PlacedInv'
    BY <1>10 DEF SweepEnds, Ended, Unlock
  <1>11. ASSUME NEW c \in Cmds, AdoptOpens(c) PROVE PlacedInv'
    BY <1>11 DEF AdoptOpens, Moved
  <1>12. ASSUME NEW c \in Cmds, AdoptCloses(c) PROVE PlacedInv'
    BY <1>12 DEF AdoptCloses, Ended, Unlock
  <1>13. ASSUME NEW c \in Cmds, AdoptFails(c) PROVE PlacedInv'
    BY <1>13 DEF AdoptFails, Ended, Unlock
  <1>14. ASSUME NEW c \in Cmds, Kill(c) PROVE PlacedInv'
    BY <1>14 DEF Kill, Moved, Unlock, Active
  <1>15. CASE DaemonOpens
    BY <1>15 DEF DaemonOpens, Recover
  <1>16. CASE DaemonListens
    BY <1>16 DEF DaemonListens
  <1>17. CASE DaemonWrites
    BY <1>17 DEF DaemonWrites
  <1>18. CASE DaemonEnds
    BY <1>18 DEF DaemonEnds, Down
  <1>19. CASE UNCHANGED vars
    BY <1>19 DEF vars
  <1> QED
    BY <1>1, <1>2, <1>3, <1>4, <1>5, <1>6, <1>7, <1>8, <1>9,
       <1>10, <1>11, <1>12, <1>13, <1>14, <1>15, <1>16, <1>17, <1>18, <1>19, Zenon DEF Next, Step

\* A rename needs the lock.
LEMMA SeenStep == TypeOK /\ LockInv /\ SeenInv /\ [Next]_vars => SeenInv'
  <1> SUFFICES ASSUME TypeOK, LockInv, SeenInv, [Next]_vars PROVE SeenInv'
    OBVIOUS
  <1> USE DEF TypeOK, Command, LockInv, Holding, SeenInv
  <1>1. ASSUME NEW c \in Cmds, NEW kind \in Kinds, Check(c, kind) PROVE SeenInv'
    BY <1>1 DEF Check
  <1>2. ASSUME NEW c \in Cmds, Lock(c) PROVE SeenInv'
    BY <1>2 DEF Lock, Ended
  <1>3. ASSUME NEW c \in Cmds, Build(c) PROVE SeenInv'
    BY <1>3 DEF Build
  <1>4. ASSUME NEW c \in Cmds, BuildFails(c) PROVE SeenInv'
    BY <1>4, SMTT(30) DEF BuildFails, Ended, Unlock, Staging
  <1>5. ASSUME NEW c \in Cmds, Close(c) PROVE SeenInv'
    BY <1>5 DEF Close, Moved, Staging
  <1>6. ASSUME NEW c \in Cmds, Clear(c) PROVE SeenInv'
    BY <1>6 DEF Clear, Moved
  <1>7. ASSUME NEW c \in Cmds, Rename(c) PROVE SeenInv'
    BY <1>7 DEF Rename, Moved, Ended, Unlock
  <1>8. ASSUME NEW c \in Cmds, PromotionFails(c) PROVE SeenInv'
    BY <1>8 DEF PromotionFails, Ended, Unlock
  <1>9. ASSUME NEW c \in Cmds, NEW d \in Cmds, Sweep(c, d) PROVE SeenInv'
    BY <1>9 DEF Sweep
  <1>10. ASSUME NEW c \in Cmds, SweepEnds(c) PROVE SeenInv'
    BY <1>10 DEF SweepEnds, Ended, Unlock
  <1>11. ASSUME NEW c \in Cmds, AdoptOpens(c) PROVE SeenInv'
    BY <1>11 DEF AdoptOpens, Moved
  <1>12. ASSUME NEW c \in Cmds, AdoptCloses(c) PROVE SeenInv'
    BY <1>12 DEF AdoptCloses, Ended, Unlock
  <1>13. ASSUME NEW c \in Cmds, AdoptFails(c) PROVE SeenInv'
    BY <1>13 DEF AdoptFails, Ended, Unlock
  <1>14. ASSUME NEW c \in Cmds, Kill(c) PROVE SeenInv'
    BY <1>14 DEF Kill, Moved, Unlock, Active
  <1>15. CASE DaemonOpens
    BY <1>15 DEF DaemonOpens, Recover
  <1>16. CASE DaemonListens
    BY <1>16 DEF DaemonListens
  <1>17. CASE DaemonWrites
    BY <1>17 DEF DaemonWrites
  <1>18. CASE DaemonEnds
    BY <1>18 DEF DaemonEnds, Down
  <1>19. CASE UNCHANGED vars
    BY <1>19 DEF vars
  <1> QED
    BY <1>1, <1>2, <1>3, <1>4, <1>5, <1>6, <1>7, <1>8, <1>9,
       <1>10, <1>11, <1>12, <1>13, <1>14, <1>15, <1>16, <1>17, <1>18, <1>19, Zenon DEF Next, Step

\* A command that goes on after its check saw no daemon it could reach.
LEMMA OfflineStep == TypeOK /\ OfflineInv /\ [Next]_vars => OfflineInv'
  <1> SUFFICES ASSUME TypeOK, OfflineInv, [Next]_vars PROVE OfflineInv'
    OBVIOUS
  <1> USE DEF TypeOK, Command, OfflineInv, Active
  <1>1. ASSUME NEW c \in Cmds, NEW kind \in Kinds, Check(c, kind) PROVE OfflineInv'
    <2>1. CASE daemon.st = "up"
      <3>1. cmd'[c].pc = "ended" /\ \A d \in Cmds : d # c => cmd'[d] = cmd[d]
        BY <1>1, <2>1 DEF Check
      <3> QED BY <1>1, <2>1, <3>1 DEF Check
    <2>2. CASE daemon.st # "up"
      BY <1>1, <2>2 DEF Check
    <2> QED BY <2>1, <2>2
  <1>2. ASSUME NEW c \in Cmds, Lock(c) PROVE OfflineInv'
    BY <1>2 DEF Lock, Ended
  <1>3. ASSUME NEW c \in Cmds, Build(c) PROVE OfflineInv'
    BY <1>3 DEF Build
  <1>4. ASSUME NEW c \in Cmds, BuildFails(c) PROVE OfflineInv'
    BY <1>4 DEF BuildFails, Ended, Unlock
  <1>5. ASSUME NEW c \in Cmds, Close(c) PROVE OfflineInv'
    BY <1>5 DEF Close, Moved
  <1>6. ASSUME NEW c \in Cmds, Clear(c) PROVE OfflineInv'
    BY <1>6 DEF Clear, Moved
  <1>7. ASSUME NEW c \in Cmds, Rename(c) PROVE OfflineInv'
    BY <1>7 DEF Rename, Moved, Ended, Unlock
  <1>8. ASSUME NEW c \in Cmds, PromotionFails(c) PROVE OfflineInv'
    BY <1>8 DEF PromotionFails, Ended, Unlock
  <1>9. ASSUME NEW c \in Cmds, NEW d \in Cmds, Sweep(c, d) PROVE OfflineInv'
    BY <1>9 DEF Sweep
  <1>10. ASSUME NEW c \in Cmds, SweepEnds(c) PROVE OfflineInv'
    BY <1>10 DEF SweepEnds, Ended, Unlock
  <1>11. ASSUME NEW c \in Cmds, AdoptOpens(c) PROVE OfflineInv'
    BY <1>11 DEF AdoptOpens, Moved
  <1>12. ASSUME NEW c \in Cmds, AdoptCloses(c) PROVE OfflineInv'
    BY <1>12 DEF AdoptCloses, Ended, Unlock
  <1>13. ASSUME NEW c \in Cmds, AdoptFails(c) PROVE OfflineInv'
    BY <1>13 DEF AdoptFails, Ended, Unlock
  <1>14. ASSUME NEW c \in Cmds, Kill(c) PROVE OfflineInv'
    BY <1>14 DEF Kill, Moved, Unlock
  <1>15. CASE DaemonOpens
    BY <1>15 DEF DaemonOpens, Recover
  <1>16. CASE DaemonListens
    BY <1>16 DEF DaemonListens
  <1>17. CASE DaemonWrites
    BY <1>17 DEF DaemonWrites
  <1>18. CASE DaemonEnds
    BY <1>18 DEF DaemonEnds, Down
  <1>19. CASE UNCHANGED vars
    BY <1>19 DEF vars
  <1> QED
    BY <1>1, <1>2, <1>3, <1>4, <1>5, <1>6, <1>7, <1>8, <1>9,
       <1>10, <1>11, <1>12, <1>13, <1>14, <1>15, <1>16, <1>17, <1>18, <1>19, Zenon DEF Next, Step

\* The cache is replaced, and its log removed, only by a command past its check.
LEMMA StrandedStep == TypeOK /\ OfflineInv /\ NotStranded /\ [Next]_vars => NotStranded'
  <1> SUFFICES ASSUME TypeOK, OfflineInv, NotStranded, [Next]_vars PROVE NotStranded'
    OBVIOUS
  <1> USE DEF TypeOK, Command, NotStranded, OfflineInv, Active
  <1>1. ASSUME NEW c \in Cmds, NEW kind \in Kinds, Check(c, kind) PROVE NotStranded'
    BY <1>1 DEF Check
  <1>2. ASSUME NEW c \in Cmds, Lock(c) PROVE NotStranded'
    BY <1>2 DEF Lock, Ended
  <1>3. ASSUME NEW c \in Cmds, Build(c) PROVE NotStranded'
    BY <1>3 DEF Build
  <1>4. ASSUME NEW c \in Cmds, BuildFails(c) PROVE NotStranded'
    BY <1>4 DEF BuildFails, Ended, Unlock
  <1>5. ASSUME NEW c \in Cmds, Close(c) PROVE NotStranded'
    BY <1>5 DEF Close, Moved
  <1>6. ASSUME NEW c \in Cmds, Clear(c) PROVE NotStranded'
    BY <1>6 DEF Clear, Moved
  <1>7. ASSUME NEW c \in Cmds, Rename(c) PROVE NotStranded'
    BY <1>7 DEF Rename, Moved, Ended, Unlock
  <1>8. ASSUME NEW c \in Cmds, PromotionFails(c) PROVE NotStranded'
    BY <1>8 DEF PromotionFails, Ended, Unlock
  <1>9. ASSUME NEW c \in Cmds, NEW d \in Cmds, Sweep(c, d) PROVE NotStranded'
    BY <1>9 DEF Sweep
  <1>10. ASSUME NEW c \in Cmds, SweepEnds(c) PROVE NotStranded'
    BY <1>10 DEF SweepEnds, Ended, Unlock
  <1>11. ASSUME NEW c \in Cmds, AdoptOpens(c) PROVE NotStranded'
    BY <1>11 DEF AdoptOpens, Moved
  <1>12. ASSUME NEW c \in Cmds, AdoptCloses(c) PROVE NotStranded'
    BY <1>12 DEF AdoptCloses, Ended, Unlock
  <1>13. ASSUME NEW c \in Cmds, AdoptFails(c) PROVE NotStranded'
    BY <1>13 DEF AdoptFails, Ended, Unlock
  <1>14. ASSUME NEW c \in Cmds, Kill(c) PROVE NotStranded'
    BY <1>14 DEF Kill, Moved, Unlock
  <1>15. CASE DaemonOpens
    BY <1>15 DEF DaemonOpens, Recover
  <1>16. CASE DaemonListens
    BY <1>16 DEF DaemonListens
  <1>17. CASE DaemonWrites
    BY <1>17 DEF DaemonWrites
  <1>18. CASE DaemonEnds
    BY <1>18 DEF DaemonEnds, Down
  <1>19. CASE UNCHANGED vars
    BY <1>19 DEF vars
  <1> QED
    BY <1>1, <1>2, <1>3, <1>4, <1>5, <1>6, <1>7, <1>8, <1>9,
       <1>10, <1>11, <1>12, <1>13, <1>14, <1>15, <1>16, <1>17, <1>18, <1>19, Zenon DEF Next, Step

\* A log beside the cache that is not its own has one of two origins.
LEMMA LogStep == TypeOK /\ LockInv /\ ProgressInv /\ OfflineInv /\ NotStranded /\ LogInv /\ [Next]_vars => LogInv'
  <1> SUFFICES ASSUME TypeOK, LockInv, ProgressInv, OfflineInv, NotStranded, LogInv, [Next]_vars PROVE LogInv'
    OBVIOUS
  <1> USE DEF TypeOK, Command, LockInv, Holding, ProgressInv, OfflineInv, Active, NotStranded, LogInv, Imported
  <1>1. ASSUME NEW c \in Cmds, NEW kind \in Kinds, Check(c, kind) PROVE LogInv'
    BY <1>1, SMTT(30) DEF Check
  <1>2. ASSUME NEW c \in Cmds, Lock(c) PROVE LogInv'
    BY <1>2 DEF Lock, Ended
  <1>3. ASSUME NEW c \in Cmds, Build(c) PROVE LogInv'
    BY <1>3 DEF Build
  <1>4. ASSUME NEW c \in Cmds, BuildFails(c) PROVE LogInv'
    BY <1>4 DEF BuildFails, Ended, Unlock, Staging
  <1>5. ASSUME NEW c \in Cmds, Close(c) PROVE LogInv'
    BY <1>5 DEF Close, Moved, Staging
  <1>6. ASSUME NEW c \in Cmds, Clear(c) PROVE LogInv'
    BY <1>6 DEF Clear, Moved
  <1>7. ASSUME NEW c \in Cmds, Rename(c) PROVE LogInv'
    BY <1>7 DEF Rename, Moved, Ended, Unlock
  <1>8. ASSUME NEW c \in Cmds, PromotionFails(c) PROVE LogInv'
    BY <1>8 DEF PromotionFails, Ended, Unlock
  <1>9. ASSUME NEW c \in Cmds, NEW d \in Cmds, Sweep(c, d) PROVE LogInv'
    BY <1>9 DEF Sweep
  <1>10. ASSUME NEW c \in Cmds, SweepEnds(c) PROVE LogInv'
    BY <1>10 DEF SweepEnds, Ended, Unlock
  <1>11. ASSUME NEW c \in Cmds, AdoptOpens(c) PROVE LogInv'
    BY <1>11 DEF AdoptOpens, Moved
  <1>12. ASSUME NEW c \in Cmds, AdoptCloses(c) PROVE LogInv'
    BY <1>12, SMTT(30) DEF AdoptCloses, Ended, Unlock
  <1>13. ASSUME NEW c \in Cmds, AdoptFails(c) PROVE LogInv'
    BY <1>13 DEF AdoptFails, Ended, Unlock
  <1>14. ASSUME NEW c \in Cmds, Kill(c) PROVE LogInv'
    BY <1>14 DEF Kill, Moved, Unlock
  <1>15. CASE DaemonOpens
    BY <1>15 DEF DaemonOpens, Recover
  <1>16. CASE DaemonListens
    BY <1>16 DEF DaemonListens
  <1>17. CASE DaemonWrites
    BY <1>17 DEF DaemonWrites
  <1>18. CASE DaemonEnds
    BY <1>18 DEF DaemonEnds, Down
  <1>19. CASE UNCHANGED vars
    BY <1>19 DEF vars
  <1> QED
    BY <1>1, <1>2, <1>3, <1>4, <1>5, <1>6, <1>7, <1>8, <1>9,
       <1>10, <1>11, <1>12, <1>13, <1>14, <1>15, <1>16, <1>17, <1>18, <1>19, Zenon DEF Next, Step

\* A sweep runs under the lock, and so beside no live staging file.
LEMMA StagingStep == TypeOK /\ LockInv /\ ProgressInv /\ LiveStagingKept /\ [Next]_vars => LiveStagingKept'
  <1> SUFFICES ASSUME TypeOK, LockInv, ProgressInv, LiveStagingKept, [Next]_vars PROVE LiveStagingKept'
    OBVIOUS
  <1> USE DEF TypeOK, Command, LockInv, Holding, ProgressInv, LiveStagingKept, Staging
  <1>1. ASSUME NEW c \in Cmds, NEW kind \in Kinds, Check(c, kind) PROVE LiveStagingKept'
    BY <1>1 DEF Check
  <1>2. ASSUME NEW c \in Cmds, Lock(c) PROVE LiveStagingKept'
    BY <1>2 DEF Lock, Ended
  <1>3. ASSUME NEW c \in Cmds, Build(c) PROVE LiveStagingKept'
    BY <1>3 DEF Build
  <1>4. ASSUME NEW c \in Cmds, BuildFails(c) PROVE LiveStagingKept'
    BY <1>4 DEF BuildFails, Ended, Unlock
  <1>5. ASSUME NEW c \in Cmds, Close(c) PROVE LiveStagingKept'
    BY <1>5 DEF Close, Moved
  <1>6. ASSUME NEW c \in Cmds, Clear(c) PROVE LiveStagingKept'
    BY <1>6 DEF Clear, Moved
  <1>7. ASSUME NEW c \in Cmds, Rename(c) PROVE LiveStagingKept'
    BY <1>7 DEF Rename, Moved, Ended, Unlock
  <1>8. ASSUME NEW c \in Cmds, PromotionFails(c) PROVE LiveStagingKept'
    BY <1>8 DEF PromotionFails, Ended, Unlock
  <1>9. ASSUME NEW c \in Cmds, NEW d \in Cmds, Sweep(c, d) PROVE LiveStagingKept'
    BY <1>9 DEF Sweep
  <1>10. ASSUME NEW c \in Cmds, SweepEnds(c) PROVE LiveStagingKept'
    BY <1>10 DEF SweepEnds, Ended, Unlock
  <1>11. ASSUME NEW c \in Cmds, AdoptOpens(c) PROVE LiveStagingKept'
    BY <1>11 DEF AdoptOpens, Moved
  <1>12. ASSUME NEW c \in Cmds, AdoptCloses(c) PROVE LiveStagingKept'
    BY <1>12 DEF AdoptCloses, Ended, Unlock
  <1>13. ASSUME NEW c \in Cmds, AdoptFails(c) PROVE LiveStagingKept'
    BY <1>13 DEF AdoptFails, Ended, Unlock
  <1>14. ASSUME NEW c \in Cmds, Kill(c) PROVE LiveStagingKept'
    BY <1>14 DEF Kill, Moved, Unlock, Active
  <1>15. CASE DaemonOpens
    BY <1>15 DEF DaemonOpens, Recover
  <1>16. CASE DaemonListens
    BY <1>16 DEF DaemonListens
  <1>17. CASE DaemonWrites
    BY <1>17 DEF DaemonWrites
  <1>18. CASE DaemonEnds
    BY <1>18 DEF DaemonEnds, Down
  <1>19. CASE UNCHANGED vars
    BY <1>19 DEF vars
  <1> QED
    BY <1>1, <1>2, <1>3, <1>4, <1>5, <1>6, <1>7, <1>8, <1>9,
       <1>10, <1>11, <1>12, <1>13, <1>14, <1>15, <1>16, <1>17, <1>18, <1>19, Zenon DEF Next, Step

\* Every path out of a build either cleans up or is one of the three that do not.
LEMMA AccountedStep == TypeOK /\ LockInv /\ ProgressInv /\ StagingAccounted /\ [Next]_vars => StagingAccounted'
  <1> SUFFICES ASSUME TypeOK, LockInv, ProgressInv, StagingAccounted, [Next]_vars PROVE StagingAccounted'
    OBVIOUS
  <1> USE DEF TypeOK, Command, LockInv, Holding, ProgressInv, StagingAccounted, Staging
  <1>1. ASSUME NEW c \in Cmds, NEW kind \in Kinds, Check(c, kind) PROVE StagingAccounted'
    BY <1>1 DEF Check
  <1>2. ASSUME NEW c \in Cmds, Lock(c) PROVE StagingAccounted'
    BY <1>2 DEF Lock, Ended
  <1>3. ASSUME NEW c \in Cmds, Build(c) PROVE StagingAccounted'
    BY <1>3 DEF Build
  <1>4. ASSUME NEW c \in Cmds, BuildFails(c) PROVE StagingAccounted'
    BY <1>4 DEF BuildFails, Ended, Unlock
  <1>5. ASSUME NEW c \in Cmds, Close(c) PROVE StagingAccounted'
    BY <1>5 DEF Close, Moved
  <1>6. ASSUME NEW c \in Cmds, Clear(c) PROVE StagingAccounted'
    BY <1>6 DEF Clear, Moved
  <1>7. ASSUME NEW c \in Cmds, Rename(c) PROVE StagingAccounted'
    BY <1>7 DEF Rename, Moved, Ended, Unlock
  <1>8. ASSUME NEW c \in Cmds, PromotionFails(c) PROVE StagingAccounted'
    BY <1>8 DEF PromotionFails, Ended, Unlock
  <1>9. ASSUME NEW c \in Cmds, NEW d \in Cmds, Sweep(c, d) PROVE StagingAccounted'
    BY <1>9 DEF Sweep
  <1>10. ASSUME NEW c \in Cmds, SweepEnds(c) PROVE StagingAccounted'
    BY <1>10 DEF SweepEnds, Ended, Unlock
  <1>11. ASSUME NEW c \in Cmds, AdoptOpens(c) PROVE StagingAccounted'
    BY <1>11 DEF AdoptOpens, Moved
  <1>12. ASSUME NEW c \in Cmds, AdoptCloses(c) PROVE StagingAccounted'
    BY <1>12 DEF AdoptCloses, Ended, Unlock
  <1>13. ASSUME NEW c \in Cmds, AdoptFails(c) PROVE StagingAccounted'
    BY <1>13 DEF AdoptFails, Ended, Unlock
  <1>14. ASSUME NEW c \in Cmds, Kill(c) PROVE StagingAccounted'
    BY <1>14 DEF Kill, Moved, Unlock, Active
  <1>15. CASE DaemonOpens
    BY <1>15 DEF DaemonOpens, Recover
  <1>16. CASE DaemonListens
    BY <1>16 DEF DaemonListens
  <1>17. CASE DaemonWrites
    BY <1>17 DEF DaemonWrites
  <1>18. CASE DaemonEnds
    BY <1>18 DEF DaemonEnds, Down
  <1>19. CASE UNCHANGED vars
    BY <1>19 DEF vars
  <1> QED
    BY <1>1, <1>2, <1>3, <1>4, <1>5, <1>6, <1>7, <1>8, <1>9,
       <1>10, <1>11, <1>12, <1>13, <1>14, <1>15, <1>16, <1>17, <1>18, <1>19, Zenon DEF Next, Step

\* Only a failed build says that the cache is unchanged.
LEMMA UnchangedStep == TypeOK /\ SeenInv /\ [Next]_vars => \A e \in Cmds : cmd[e].out = None /\ cmd'[e].out \in {"unchanged", "dirty"} => db' = cmd[e].seen
  <1> SUFFICES ASSUME TypeOK, SeenInv, [Next]_vars PROVE \A e \in Cmds : cmd[e].out = None /\ cmd'[e].out \in {"unchanged", "dirty"} => db' = cmd[e].seen
    OBVIOUS
  <1> USE DEF TypeOK, Command, SeenInv
  <1>1. ASSUME NEW c \in Cmds, NEW kind \in Kinds, Check(c, kind) PROVE \A e \in Cmds : cmd[e].out = None /\ cmd'[e].out \in {"unchanged", "dirty"} => db' = cmd[e].seen
    BY <1>1 DEF Check
  <1>2. ASSUME NEW c \in Cmds, Lock(c) PROVE \A e \in Cmds : cmd[e].out = None /\ cmd'[e].out \in {"unchanged", "dirty"} => db' = cmd[e].seen
    BY <1>2 DEF Lock, Ended
  <1>3. ASSUME NEW c \in Cmds, Build(c) PROVE \A e \in Cmds : cmd[e].out = None /\ cmd'[e].out \in {"unchanged", "dirty"} => db' = cmd[e].seen
    BY <1>3 DEF Build
  <1>4. ASSUME NEW c \in Cmds, BuildFails(c) PROVE \A e \in Cmds : cmd[e].out = None /\ cmd'[e].out \in {"unchanged", "dirty"} => db' = cmd[e].seen
    BY <1>4 DEF BuildFails, Ended, Unlock, Staging
  <1>5. ASSUME NEW c \in Cmds, Close(c) PROVE \A e \in Cmds : cmd[e].out = None /\ cmd'[e].out \in {"unchanged", "dirty"} => db' = cmd[e].seen
    BY <1>5 DEF Close, Moved
  <1>6. ASSUME NEW c \in Cmds, Clear(c) PROVE \A e \in Cmds : cmd[e].out = None /\ cmd'[e].out \in {"unchanged", "dirty"} => db' = cmd[e].seen
    BY <1>6 DEF Clear, Moved
  <1>7. ASSUME NEW c \in Cmds, Rename(c) PROVE \A e \in Cmds : cmd[e].out = None /\ cmd'[e].out \in {"unchanged", "dirty"} => db' = cmd[e].seen
    BY <1>7 DEF Rename, Moved, Ended, Unlock
  <1>8. ASSUME NEW c \in Cmds, PromotionFails(c) PROVE \A e \in Cmds : cmd[e].out = None /\ cmd'[e].out \in {"unchanged", "dirty"} => db' = cmd[e].seen
    BY <1>8 DEF PromotionFails, Ended, Unlock
  <1>9. ASSUME NEW c \in Cmds, NEW d \in Cmds, Sweep(c, d) PROVE \A e \in Cmds : cmd[e].out = None /\ cmd'[e].out \in {"unchanged", "dirty"} => db' = cmd[e].seen
    BY <1>9 DEF Sweep
  <1>10. ASSUME NEW c \in Cmds, SweepEnds(c) PROVE \A e \in Cmds : cmd[e].out = None /\ cmd'[e].out \in {"unchanged", "dirty"} => db' = cmd[e].seen
    BY <1>10 DEF SweepEnds, Ended, Unlock
  <1>11. ASSUME NEW c \in Cmds, AdoptOpens(c) PROVE \A e \in Cmds : cmd[e].out = None /\ cmd'[e].out \in {"unchanged", "dirty"} => db' = cmd[e].seen
    BY <1>11 DEF AdoptOpens, Moved
  <1>12. ASSUME NEW c \in Cmds, AdoptCloses(c) PROVE \A e \in Cmds : cmd[e].out = None /\ cmd'[e].out \in {"unchanged", "dirty"} => db' = cmd[e].seen
    BY <1>12 DEF AdoptCloses, Ended, Unlock
  <1>13. ASSUME NEW c \in Cmds, AdoptFails(c) PROVE \A e \in Cmds : cmd[e].out = None /\ cmd'[e].out \in {"unchanged", "dirty"} => db' = cmd[e].seen
    BY <1>13 DEF AdoptFails, Ended, Unlock
  <1>14. ASSUME NEW c \in Cmds, Kill(c) PROVE \A e \in Cmds : cmd[e].out = None /\ cmd'[e].out \in {"unchanged", "dirty"} => db' = cmd[e].seen
    BY <1>14 DEF Kill, Moved, Unlock
  <1>15. CASE DaemonOpens
    BY <1>15 DEF DaemonOpens, Recover
  <1>16. CASE DaemonListens
    BY <1>16 DEF DaemonListens
  <1>17. CASE DaemonWrites
    BY <1>17 DEF DaemonWrites
  <1>18. CASE DaemonEnds
    BY <1>18 DEF DaemonEnds, Down
  <1>19. CASE UNCHANGED vars
    BY <1>19 DEF vars
  <1> QED
    BY <1>1, <1>2, <1>3, <1>4, <1>5, <1>6, <1>7, <1>8, <1>9,
       <1>10, <1>11, <1>12, <1>13, <1>14, <1>15, <1>16, <1>17, <1>18, <1>19, Zenon DEF Next, Step

-----------------------------------------------------------------------------
\* Everything the argument carries from step to step.
IndInv ==
  /\ TypeOK /\ LockInv /\ ProgressInv /\ PlacedInv /\ SeenInv
  /\ OfflineInv /\ NotStranded /\ LogInv /\ LiveStagingKept /\ StagingAccounted

\* Before any command or daemon has run.
LEMMA InitInd == Init => IndInv
  <1> SUFFICES ASSUME Init PROVE IndInv
    OBVIOUS
  <1>1. TypeOK
    BY InitType
  <1>2. \A c \in Cmds : /\ cmd[c].pc = "idle" /\ cmd[c].out = None
                        /\ stage[c] = {}
    BY DEF Init
  <1>3. daemon.st = "down" /\ db = Orig /\ wal = None /\ ~mixed
    BY DEF Init, Down
  <1>4. LockInv /\ ProgressInv /\ SeenInv
    BY <1>2 DEF LockInv, Holding, ProgressInv, SeenInv
  <1>5. PlacedInv /\ OfflineInv /\ NotStranded /\ LogInv
    BY <1>2, <1>3 DEF PlacedInv, OfflineInv, NotStranded, LogInv
  <1>6. LiveStagingKept /\ StagingAccounted
    BY <1>2 DEF LiveStagingKept, StagingAccounted, Staging
  <1> QED BY <1>1, <1>4, <1>5, <1>6 DEF IndInv

\* The step lemmas together.
LEMMA StepInd == IndInv /\ [Next]_vars => IndInv'
  BY StepType, LockStep, ProgressStep, PlacedStep, SeenStep, OfflineStep, StrandedStep, LogStep,
     StagingStep, AccountedStep, Zenon DEF IndInv

\* The inductive invariant holds in every reachable state.
THEOREM Inductive == Spec => []IndInv
  BY InitInd, StepInd, PTL DEF Spec

\* The cache is whole at every moment, for any number of commands, pages and daemons.
THEOREM CacheWhole == Spec => []WholeCache
  <1>1. IndInv => WholeCache
    BY DEF IndInv, PlacedInv, LogInv, WholeCache, Imported
  <1> QED BY <1>1, Inductive, PTL

\* No daemon that could be reached has the cache replaced under it.
THEOREM DaemonsKept == Spec => []NotStranded
  <1>1. IndInv => NotStranded
    BY DEF IndInv
  <1> QED BY <1>1, Inductive, PTL

\* No sweep removes a file a running command still builds.
THEOREM StagingKept == Spec => []LiveStagingKept
  <1>1. IndInv => LiveStagingKept
    BY DEF IndInv
  <1> QED BY <1>1, Inductive, PTL

\* Every staging file left behind has one of three causes.
THEOREM StagingExplained == Spec => []StagingAccounted
  <1>1. IndInv => StagingAccounted
    BY DEF IndInv
  <1> QED BY <1>1, Inductive, PTL

\* A command that reports the cache unchanged is right.
THEOREM UnchangedHolds == Spec => UnchangedTrue
  <1>1. IndInv /\ [Next]_vars
          => [\A c \in Cmds : cmd[c].out = None /\ cmd'[c].out \in {"unchanged", "dirty"}
                                => db' = cmd[c].seen]_vars
    BY UnchangedStep DEF IndInv
  <1> QED BY <1>1, Inductive, PTL DEF Spec, UnchangedTrue
=============================================================================
