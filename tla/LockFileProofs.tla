--------------------------- MODULE LockFileProofs ---------------------------
(***************************************************************************)
(* Theorems about LockFile for every set of processes and commands.  The   *)
(* inductive invariant of the lock is LockInv; its conjuncts are those     *)
(* LockFile checks with TLC, and two facts about where a process is        *)
(* (GateInv, OrphanInv).  NoticeInv adds the notices and what is left when *)
(* the commands have ended.                                                *)
(***************************************************************************)
EXTENDS LockFile, TLAPS

Acquiring == {"note_read", "note_write", "create", "content",
              "renote_read", "renote_write"}

(* Only commands that take the lock are in the prologue that takes it.     *)
GateInv ==
  \A p \in Pids :
    /\ pc[p] \in Acquiring => phase[p] = "gate"
    /\ pc[p] \in Live /\ phase[p] = "gate" => cmd[p] \in Locking

(* Without a breach no lock file was unlinked under its writer.            *)
OrphanInv == breach \intersect LockBreaches = {} => orphan = {}

LockInv == TypeOK /\ GateInv /\ StalePidIsDead /\ OrphanInv /\ LockIsOwned

-----------------------------------------------------------------------------
(* Where check_lock_info returns to: its three callers.                    *)
LEMMA AfterCheckRange ==
  ASSUME NEW p \in Pids
  PROVE  /\ AfterCheck(p) \in {"note_read", "st_read", "report"}
         /\ AfterCheck(p) = "note_read" => phase[p] = "gate"
  BY DEF AfterCheck

(* Each step of a process keeps every variable in its type.                *)
LEMMA StepTypes ==
  ASSUME TypeOK, GateInv, NEW p \in Pids, Start(p) \/ Step(p) \/ Fault(p)
  PROVE  TypeOK'
<1>. USE LockAssumption, AfterCheckRange
     DEF TypeOK, Live, Dead, Phases, Breaches, LockBreaches, Goto, Enter, Record
<1>1. CASE Start(p)
  BY <1>1 DEF Start
<1>2. CASE CheckExists(p)
  BY <1>2 DEF CheckExists
<1>3. CASE CheckLoad(p)
  BY <1>3 DEF CheckLoad, Raise, Armed
<1>4. CASE CheckHeld(p)
  BY <1>4 DEF CheckHeld
<1>5. CASE CheckStale(p)
  BY <1>5 DEF CheckStale
<1>6. CASE UnlinkStale(p)
  BY <1>6, ZenonT(40) DEF UnlinkStale, Raise, Armed, Unlink
<1>7. CASE NoticeRead(p)
  BY <1>7 DEF NoticeRead
<1>8. CASE NoticeWrite(p)
  <2>1. cmd[p] \in Locking
    BY <1>8 DEF NoticeWrite, GateInv, Acquiring
  <2>2. notices' \subseteq Locking /\ snap' \in [Pids -> SUBSET Locking]
    BY <1>8, <2>1 DEF NoticeWrite
  <2>3. QED
    BY <1>8, <2>2, ZenonT(40) DEF NoticeWrite
<1>9. CASE CreateLock(p)
  BY <1>9 DEF CreateLock
<1>10. CASE WriteLock(p)
  BY <1>10 DEF WriteLock
<1>11. CASE BodyRefresh(p)
  BY <1>11 DEF BodyRefresh
<1>12. CASE BodyStatus(p)
  BY <1>12 DEF BodyStatus
<1>13. CASE BodyDetach(p)
  BY <1>13 DEF BodyDetach
<1>14. CASE DetachReturns(p)
  BY <1>14 DEF DetachReturns
<1>15. CASE BodyFails(p)
  BY <1>15 DEF BodyFails, Raise, Armed
<1>16. CASE DeleteNotice(p)
  BY <1>16 DEF DeleteNotice
<1>17. CASE DeleteExists(p)
  BY <1>17 DEF DeleteExists, AfterDelete
<1>18. CASE DeleteUnlink(p)
  BY <1>18, ZenonT(40) DEF DeleteUnlink, Raise, Armed, Unlink, AfterDelete
<1>19. CASE StatusRead(p)
  BY <1>19 DEF StatusRead
<1>20. CASE StatusWrite(p)
  BY <1>20 DEF StatusWrite
<1>21. CASE Report(p)
  BY <1>21 DEF Report
<1>22. CASE Interrupt(p)
  BY <1>22 DEF Interrupt, Raise, Armed
<1>23. CASE Crash(p)
  BY <1>23 DEF Crash
<1>24. CASE NoticesUnlink(p)
  BY <1>24 DEF NoticesUnlink
<1>25. CASE NoticesGone(p)
  BY <1>25 DEF NoticesGone, Raise, Armed
<1>26. QED
  BY <1>1, <1>2, <1>3, <1>4, <1>5, <1>6, <1>7, <1>8, <1>9, <1>10, <1>11,
     <1>12, <1>13, <1>14, <1>15, <1>16, <1>17, <1>18, <1>19, <1>20, <1>21,
     <1>22, <1>23, <1>24, <1>25
     DEF Step, Check, Acquire, Body, Delete, DeleteAll, Status, Fault

(* A process acquires the lock in the prologue of a locking command only.  *)
LEMMA StepGate ==
  ASSUME TypeOK, GateInv, NEW p \in Pids, Start(p) \/ Step(p) \/ Fault(p)
  PROVE  GateInv'
<1>. USE AfterCheckRange DEF TypeOK, GateInv, Acquiring, Live, Goto, Enter
<1>1. CASE Start(p)
  BY <1>1 DEF Start
<1>2. CASE CheckExists(p)
  BY <1>2 DEF CheckExists
<1>3. CASE CheckLoad(p)
  BY <1>3 DEF CheckLoad, Raise, Armed
<1>4. CASE CheckHeld(p)
  BY <1>4 DEF CheckHeld
<1>5. CASE CheckStale(p)
  BY <1>5 DEF CheckStale
<1>6. CASE UnlinkStale(p)
  BY <1>6 DEF UnlinkStale, Raise, Armed, Unlink
<1>7. CASE NoticeRead(p)
  BY <1>7 DEF NoticeRead
<1>8. CASE NoticeWrite(p)
  BY <1>8 DEF NoticeWrite
<1>9. CASE CreateLock(p)
  BY <1>9 DEF CreateLock
<1>10. CASE WriteLock(p)
  BY <1>10 DEF WriteLock
<1>11. CASE BodyRefresh(p)
  BY <1>11 DEF BodyRefresh
<1>12. CASE BodyStatus(p)
  BY <1>12 DEF BodyStatus
<1>13. CASE BodyDetach(p)
  BY <1>13 DEF BodyDetach
<1>14. CASE DetachReturns(p)
  BY <1>14 DEF DetachReturns
<1>15. CASE BodyFails(p)
  BY <1>15 DEF BodyFails, Raise, Armed
<1>16. CASE DeleteNotice(p)
  BY <1>16 DEF DeleteNotice
<1>17. CASE DeleteExists(p)
  BY <1>17 DEF DeleteExists, AfterDelete
<1>18. CASE DeleteUnlink(p)
  BY <1>18 DEF DeleteUnlink, Raise, Armed, Unlink, AfterDelete
<1>19. CASE StatusRead(p)
  BY <1>19 DEF StatusRead
<1>20. CASE StatusWrite(p)
  BY <1>20 DEF StatusWrite
<1>21. CASE Report(p)
  BY <1>21 DEF Report
<1>22. CASE Interrupt(p)
  BY <1>22 DEF Interrupt, Raise, Armed, Alive
<1>23. CASE Crash(p)
  BY <1>23 DEF Crash
<1>24. CASE NoticesUnlink(p)
  BY <1>24 DEF NoticesUnlink
<1>25. CASE NoticesGone(p)
  BY <1>25 DEF NoticesGone, Raise, Armed
<1>26. QED
  BY <1>1, <1>2, <1>3, <1>4, <1>5, <1>6, <1>7, <1>8, <1>9, <1>10, <1>11,
     <1>12, <1>13, <1>14, <1>15, <1>16, <1>17, <1>18, <1>19, <1>20, <1>21,
     <1>22, <1>23, <1>24, <1>25
     DEF Step, Check, Acquire, Body, Delete, DeleteAll, Status, Fault

(* A step moves its own process only, which is not a dead one; it learns a *)
(* pid from the lock file and calls it stale only when it is not alive.    *)
LEMMA StepControl ==
  ASSUME TypeOK, NEW p \in Pids, Start(p) \/ Step(p) \/ Fault(p)
  PROVE  /\ cmd' = cmd
         /\ pc[p] \notin Dead /\ pc'[p] # "unborn"
         /\ \A q \in Pids \ {p} :
              pc'[q] = pc[q] /\ phase'[q] = phase[q] /\ seen'[q] = seen[q]
         /\ lock' \in {lock, Absent, Torn, p}
         /\ breach \subseteq breach'
         /\ pc'[p] = "ps" => lock \in Pids /\ seen'[p] = lock
         /\ pc'[p] = "unlink" =>
              pc[p] = "ps" /\ seen'[p] = seen[p] /\ ~Alive(seen[p])
<1>. USE AfterCheckRange DEF TypeOK, Dead, Live, Goto, Enter, Record
<1>1. CASE Start(p)
  BY <1>1 DEF Start
<1>2. CASE CheckExists(p)
  BY <1>2 DEF CheckExists
<1>3. CASE CheckLoad(p)
  BY <1>3 DEF CheckLoad, Raise, Armed
<1>4. CASE CheckHeld(p)
  BY <1>4 DEF CheckHeld
<1>5. CASE CheckStale(p)
  BY <1>5 DEF CheckStale
<1>6. CASE UnlinkStale(p)
  BY <1>6 DEF UnlinkStale, Raise, Armed, Unlink
<1>7. CASE NoticeRead(p)
  BY <1>7 DEF NoticeRead
<1>8. CASE NoticeWrite(p)
  BY <1>8 DEF NoticeWrite
<1>9. CASE CreateLock(p)
  BY <1>9 DEF CreateLock
<1>10. CASE WriteLock(p)
  BY <1>10 DEF WriteLock
<1>11. CASE BodyRefresh(p)
  BY <1>11 DEF BodyRefresh
<1>12. CASE BodyStatus(p)
  BY <1>12 DEF BodyStatus
<1>13. CASE BodyDetach(p)
  BY <1>13 DEF BodyDetach
<1>14. CASE DetachReturns(p)
  BY <1>14 DEF DetachReturns
<1>15. CASE BodyFails(p)
  BY <1>15 DEF BodyFails, Raise, Armed
<1>16. CASE DeleteNotice(p)
  BY <1>16 DEF DeleteNotice
<1>17. CASE DeleteExists(p)
  BY <1>17 DEF DeleteExists, AfterDelete
<1>18. CASE DeleteUnlink(p)
  BY <1>18 DEF DeleteUnlink, Raise, Armed, Unlink, AfterDelete
<1>19. CASE StatusRead(p)
  BY <1>19 DEF StatusRead
<1>20. CASE StatusWrite(p)
  BY <1>20 DEF StatusWrite
<1>21. CASE Report(p)
  BY <1>21 DEF Report
<1>22. CASE Interrupt(p)
  BY <1>22 DEF Interrupt, Raise, Armed, Alive
<1>23. CASE Crash(p)
  BY <1>23 DEF Crash, Alive
<1>24. CASE NoticesUnlink(p)
  BY <1>24 DEF NoticesUnlink
<1>25. CASE NoticesGone(p)
  BY <1>25 DEF NoticesGone, Raise, Armed
<1>26. QED
  BY <1>1, <1>2, <1>3, <1>4, <1>5, <1>6, <1>7, <1>8, <1>9, <1>10, <1>11,
     <1>12, <1>13, <1>14, <1>15, <1>16, <1>17, <1>18, <1>19, <1>20, <1>21,
     <1>22, <1>23, <1>24, <1>25
     DEF Step, Check, Acquire, Body, Delete, DeleteAll, Status, Fault

(* A dead command stays dead, so its pid in a lock file stays stale.       *)
LEMMA StepStale ==
  ASSUME TypeOK, StalePidIsDead, NEW p \in Pids, Start(p) \/ Step(p) \/ Fault(p)
  PROVE  StalePidIsDead'
<1>. SUFFICES ASSUME NEW q \in Pids
              PROVE  /\ lock' = q => pc'[q] # "unborn"
                     /\ pc'[q] = "ps" =>
                          seen'[q] \in Pids /\ pc'[seen'[q]] # "unborn"
                     /\ pc'[q] = "unlink" =>
                          seen'[q] \in Pids /\ pc'[seen'[q]] \in Dead
  BY DEF StalePidIsDead
<1>. USE StepControl, LockAssumption
<1>1. /\ \A r \in Pids : pc[r] # "unborn" => pc'[r] # "unborn"
      /\ \A r \in Pids : pc[r] \in Dead => pc'[r] \in Dead
  OBVIOUS
<1>2. lock' = q => pc'[q] # "unborn"
  BY <1>1 DEF StalePidIsDead
<1>3. pc'[q] = "ps" => seen'[q] \in Pids /\ pc'[seen'[q]] # "unborn"
  BY <1>1 DEF StalePidIsDead
<1>4. ASSUME pc'[q] = "unlink"
      PROVE  seen'[q] \in Pids /\ pc'[seen'[q]] \in Dead
  <2>1. CASE q # p
    BY <1>1, <1>4, <2>1 DEF StalePidIsDead
  <2>2. CASE q = p
    <3>1. seen[p] \in Pids /\ pc[seen[p]] # "unborn" /\ ~Alive(seen[p])
      BY <1>4, <2>2 DEF StalePidIsDead
    <3>2. pc[seen[p]] \in Dead
      BY <3>1 DEF TypeOK, Alive
    <3>3. QED
      BY <1>1, <1>4, <2>2, <3>1, <3>2
  <2>3. QED
    BY <2>1, <2>2
<1>5. QED
  BY <1>2, <1>3, <1>4

(* The steps that leave the lock file alone bring nobody into a locked     *)
(* part.                                                                   *)
TouchesLock(p) ==
  UnlinkStale(p) \/ CreateLock(p) \/ WriteLock(p) \/ DeleteUnlink(p)

LEMMA StepQuiet ==
  ASSUME TypeOK, GateInv, NEW p \in Pids, Start(p) \/ Step(p) \/ Fault(p),
         ~TouchesLock(p)
  PROVE  /\ lock' = lock /\ orphan' \subseteq orphan /\ breach \subseteq breach'
         /\ pc'[p] # "content"
         /\ Critical(p)' => Critical(p)
<1>. USE AfterCheckRange
     DEF TypeOK, GateInv, Acquiring, Critical, Alive, Live, Goto, Enter, Record
<1>1. CASE Start(p)
  BY <1>1 DEF Start
<1>2. CASE CheckExists(p)
  BY <1>2 DEF CheckExists
<1>3. CASE CheckLoad(p)
  BY <1>3 DEF CheckLoad, Raise, Armed
<1>4. CASE CheckHeld(p)
  BY <1>4 DEF CheckHeld
<1>5. CASE CheckStale(p)
  BY <1>5 DEF CheckStale
<1>6. CASE NoticeRead(p)
  BY <1>6 DEF NoticeRead
<1>7. CASE NoticeWrite(p)
  BY <1>7 DEF NoticeWrite
<1>8. CASE BodyRefresh(p)
  BY <1>8 DEF BodyRefresh
<1>9. CASE BodyStatus(p)
  BY <1>9 DEF BodyStatus
<1>10. CASE BodyDetach(p)
  BY <1>10 DEF BodyDetach
<1>11. CASE DetachReturns(p)
  BY <1>11 DEF DetachReturns
<1>12. CASE BodyFails(p)
  BY <1>12 DEF BodyFails, Raise, Armed
<1>13. CASE DeleteNotice(p)
  BY <1>13 DEF DeleteNotice
<1>14. CASE DeleteExists(p)
  BY <1>14 DEF DeleteExists, AfterDelete
<1>15. CASE StatusRead(p)
  BY <1>15 DEF StatusRead
<1>16. CASE StatusWrite(p)
  BY <1>16 DEF StatusWrite
<1>17. CASE Report(p)
  BY <1>17 DEF Report
<1>18. CASE Interrupt(p)
  BY <1>18 DEF Interrupt, Raise, Armed
<1>19. CASE Crash(p)
  BY <1>19 DEF Crash
<1>20. CASE NoticesUnlink(p)
  BY <1>20 DEF NoticesUnlink
<1>21. CASE NoticesGone(p)
  BY <1>21 DEF NoticesGone, Raise, Armed
<1>22. QED
  BY <1>1, <1>2, <1>3, <1>4, <1>5, <1>6, <1>7, <1>8, <1>9, <1>10, <1>11,
     <1>12, <1>13, <1>14, <1>15, <1>16, <1>17, <1>18, <1>19, <1>20, <1>21
     DEF TouchesLock, Step, Check, Acquire, Body, Delete, DeleteAll, Status, Fault

(* The locked parts are those of the commands whose pid is in the file,    *)
(* after every step that breaches nothing.                                 *)
LEMMA StepOwned ==
  ASSUME LockInv, NEW p \in Pids, Start(p) \/ Step(p) \/ Fault(p)
  PROVE  LockIsOwned' /\ OrphanInv'
<1>. DEFINE Clean == breach \intersect LockBreaches = {}
<1>1. SUFFICES ASSUME Clean'
               PROVE  /\ orphan' = {}
                      /\ \A q \in Pids :
                           /\ Critical(q)' => lock' = q
                           /\ pc'[q] = "content" =>
                                /\ lock' = Torn
                                /\ \A r \in Pids : pc'[r] = "content" => r = q
  BY DEF LockIsOwned, OrphanInv
<1>2. /\ cmd' = cmd /\ pc[p] \notin Dead
      /\ \A q \in Pids \ {p} :
           pc'[q] = pc[q] /\ phase'[q] = phase[q] /\ (Critical(q)' <=> Critical(q))
  BY StepControl DEF LockInv, Critical, Alive
<1>. USE LockAssumption DEF LockInv
<1>3. CASE ~TouchesLock(p)
  <2>1. /\ lock' = lock /\ orphan' \subseteq orphan /\ breach \subseteq breach'
        /\ pc'[p] # "content"
        /\ Critical(p)' => Critical(p)
    BY <1>3, StepQuiet
  <2>2. Clean
    BY <1>1, <2>1
  <2>3. QED
    BY <1>2, <2>1, <2>2 DEF LockIsOwned, OrphanInv
<1>4. CASE CreateLock(p)
  <2>1. /\ breach' = breach \union (IF lock # Absent THEN {"overwrite"} ELSE {})
        /\ lock' = Torn /\ orphan' = orphan
        /\ pc[p] = "create" /\ pc'[p] = "content" /\ phase' = phase
    BY <1>4 DEF CreateLock, Record, Goto, TypeOK
  <2>2. Clean /\ lock = Absent
    BY <1>1, <2>1 DEF LockBreaches
  <2>3. \A q \in Pids : ~Critical(q) /\ pc[q] # "content"
    BY <2>2 DEF LockIsOwned
  <2>4. ~Critical(p)'
    BY <2>1 DEF Critical, GateInv, Acquiring
  <2>5. QED
    BY <1>2, <2>1, <2>2, <2>3, <2>4 DEF OrphanInv
<1>5. CASE WriteLock(p)
  <2>1. Clean /\ pc[p] = "content" /\ pc'[p] = "renote_read"
        /\ orphan' = orphan \ {p} /\ lock' = IF p \in orphan THEN lock ELSE p
    BY <1>1, <1>5 DEF WriteLock, Goto, TypeOK
  <2>2. lock = Torn /\ lock' = p /\ orphan' = {}
    BY <2>1 DEF LockIsOwned, OrphanInv
  <2>3. \A q \in Pids \ {p} : ~Critical(q) /\ pc[q] # "content"
    BY <2>1, <2>2 DEF LockIsOwned
  <2>4. QED
    BY <1>2, <2>1, <2>2, <2>3
<1>6. CASE UnlinkStale(p) /\ lock # Absent
  <2>1. /\ breach' = breach \union (IF lock # seen[p] THEN {"stale_unlink"} ELSE {})
        /\ lock' = Absent /\ orphan' = orphan \union {q \in Pids : pc[q] = "content"}
        /\ pc[p] = "unlink" /\ pc'[p] # "content"
        /\ Critical(p)' => Critical(p)
    BY <1>6, AfterCheckRange
       DEF UnlinkStale, Unlink, Record, Goto, TypeOK, Critical, Alive, Live
  <2>2. Clean /\ lock = seen[p] /\ seen[p] \in Pids /\ pc[seen[p]] \in Dead
    BY <1>1, <2>1 DEF LockBreaches, StalePidIsDead
  <2>3. \A q \in Pids : ~Critical(q) /\ pc[q] # "content"
    BY <2>2 DEF LockIsOwned, Critical, Alive, Live, Dead
  <2>4. QED
    BY <1>2, <2>1, <2>2, <2>3 DEF OrphanInv
<1>7. CASE DeleteUnlink(p) /\ lock # Absent
  <2>1. /\ breach' = breach
             \union (IF lock # p THEN {"foreign_delete"} ELSE {})
             \union (IF phase[p] = "drop" /\ cmd[p] = "auto-attach"
                       THEN {"dropped"} ELSE {})
        /\ lock' = Absent /\ orphan' = orphan \union {q \in Pids : pc[q] = "content"}
    BY <1>7 DEF DeleteUnlink, Unlink
  <2>2. Clean /\ lock = p /\ ~(phase[p] = "drop" /\ cmd[p] = "auto-attach")
    BY <1>1, <2>1 DEF LockBreaches
  <2>3. \A q \in Pids : pc[q] # "content" /\ (Critical(q) => q = p)
    BY <2>2 DEF LockIsOwned
  <2>4. pc'[p] # "content" /\ ~Critical(p)'
    BY <1>2, <1>7, <2>2
       DEF DeleteUnlink, AfterDelete, Goto, Enter, TypeOK, Critical, Alive, Live
  <2>5. QED
    BY <1>2, <2>1, <2>2, <2>3, <2>4 DEF OrphanInv
(* The file is gone already: the unlink fails and nothing is deleted.      *)
<1>8. CASE (UnlinkStale(p) \/ DeleteUnlink(p)) /\ lock = Absent
  <2>1. /\ lock' = lock /\ orphan' = orphan /\ breach' = breach
        /\ pc'[p] # "content"
        /\ ~Critical(p)'
    BY <1>8 DEF UnlinkStale, DeleteUnlink, Raise, Armed, Goto, Enter, TypeOK,
                Critical, Alive, Live
  <2>2. QED
    BY <1>1, <1>2, <2>1 DEF LockIsOwned, OrphanInv
<1>9. QED
  BY <1>3, <1>4, <1>5, <1>6, <1>7, <1>8 DEF TouchesLock

-----------------------------------------------------------------------------
LEMMA InitInv == Init => LockInv
  BY LockAssumption
     DEF Init, LockInv, TypeOK, GateInv, StalePidIsDead, OrphanInv, LockIsOwned,
         Acquiring, Live, Dead, Phases, Breaches, LockBreaches, Critical, Alive

LEMMA NextInv == LockInv /\ [Next]_vars => LockInv'
<1>1. ASSUME LockInv, NEW p \in Pids, Start(p) \/ Step(p) \/ Fault(p)
      PROVE  LockInv'
  BY <1>1, StepTypes, StepGate, StepStale, StepOwned DEF LockInv
<1>2. ASSUME LockInv, UNCHANGED vars
      PROVE  LockInv'
  BY <1>2 DEF vars, LockInv, TypeOK, GateInv, StalePidIsDead, OrphanInv,
              LockIsOwned, Critical, Alive
<1>3. QED
  BY <1>1, <1>2 DEF Next

(* The inductive invariant holds of every behaviour.                       *)
THEOREM InvariantHolds == Spec => []LockInv
  BY InitInv, NextInv, PTL DEF Spec

(* Every variable of the lock protocol stays in its type.                  *)
THEOREM TypeCorrect == Spec => []TypeOK
  BY InvariantHolds, PTL DEF LockInv

(* check_lock_info calls a pid stale only when its command has ended for   *)
(* good, whenever it gets to unlink the file.                              *)
THEOREM StaleIsDead == Spec => []StalePidIsDead
  BY InvariantHolds, PTL DEF LockInv

(* Up to the first breach, the lock file names the command in its locked   *)
(* part.                                                                   *)
THEOREM LockOwned == Spec => []LockIsOwned
  BY InvariantHolds, PTL DEF LockInv

(* The four breaches are the only ways for two locked parts to overlap,    *)
(* for any number of processes, crashes and interrupts.                    *)
THEOREM Exclusive == Spec => []ExclusiveUnlessBreached
<1>1. LockIsOwned => ExclusiveUnlessBreached
  BY DEF LockIsOwned, ExclusiveUnlessBreached, MutualExclusion
<1>2. QED
  BY LockOwned, <1>1, PTL

-----------------------------------------------------------------------------
(* Notices of the running command, and what is left when all have ended.   *)

(* Where the lock is deleted: in _detach, in the epilogue of the decorator *)
(* or in the error handler; the decorated function runs before the last    *)
(* two and may go on after the first.                                      *)
DeleteInv ==
  \A p \in Pids :
    /\ pc[p] \in {"del_notice", "del_exists", "del_unlink"} =>
         phase[p] \in {"drop", "release", "clear"}
    /\ pc[p] = "body" => phase[p] \in {"body", "resume"}
    /\ pc[p] = "all_unlink" => phase[p] = "resume"

(* The second add_notice, under the lock, works on what is there.          *)
SnapInv ==
  breach = {} => \A p \in Pids : pc[p] = "renote_write" => snap[p] \subseteq notices

(* The commands that are going to delete the lock file, or their notice.   *)
Keeps(p) ==
  /\ Alive(p)
  /\ \/ pc[p] \in {"renote_read", "renote_write"}
     \/ phase[p] \in {"body", "drop", "release", "clear"}

Announces(p) ==
  \/ pc[p] \in {"create", "content", "renote_read", "renote_write", "del_notice"}
  \/ Alive(p) /\ phase[p] = "body"

(* Nothing was changed on a stale view and nothing was killed.             *)
Undisturbed ==
  breach = {} /\ "interrupt" \notin Faults /\ \A p \in Pids : pc[p] # "crashed"

(* Whatever is there has a living command that removes it.                 *)
RestInv ==
  Undisturbed =>
    /\ lock = Torn => \E p \in Pids : pc[p] = "content"
    /\ \A p \in Pids : lock = p => Keeps(p)
    /\ notices # {} => \E p \in Pids : Announces(p)

NoticeInv == LockInv /\ DeleteInv /\ SnapInv /\ NoticeWhileHeld /\ RestInv

(* The lock is deleted in three places only, whatever fails.               *)
LEMMA StepDelete ==
  ASSUME TypeOK, GateInv, DeleteInv, NEW p \in Pids, Start(p) \/ Step(p) \/ Fault(p)
  PROVE  DeleteInv'
<1>. USE AfterCheckRange DEF TypeOK, GateInv, Acquiring, DeleteInv, Live,
         Goto, Enter, Alive
<1>1. CASE Start(p)
  BY <1>1 DEF Start
<1>2. CASE CheckExists(p)
  BY <1>2 DEF CheckExists
<1>3. CASE CheckLoad(p)
  BY <1>3 DEF CheckLoad, Raise, Armed
<1>4. CASE CheckHeld(p)
  BY <1>4 DEF CheckHeld
<1>5. CASE CheckStale(p)
  BY <1>5 DEF CheckStale
<1>6. CASE UnlinkStale(p)
  BY <1>6 DEF UnlinkStale, Raise, Armed, Unlink
<1>7. CASE NoticeRead(p)
  BY <1>7 DEF NoticeRead
<1>8. CASE NoticeWrite(p)
  BY <1>8 DEF NoticeWrite
<1>9. CASE CreateLock(p)
  BY <1>9 DEF CreateLock
<1>10. CASE WriteLock(p)
  BY <1>10 DEF WriteLock
<1>11. CASE BodyRefresh(p)
  BY <1>11 DEF BodyRefresh
<1>12. CASE BodyStatus(p)
  BY <1>12 DEF BodyStatus
<1>13. CASE BodyDetach(p)
  BY <1>13 DEF BodyDetach
<1>14. CASE DetachReturns(p)
  BY <1>14 DEF DetachReturns
<1>15. CASE BodyFails(p)
  BY <1>15 DEF BodyFails, Raise, Armed
<1>16. CASE DeleteNotice(p)
  BY <1>16 DEF DeleteNotice
<1>17. CASE DeleteExists(p)
  BY <1>17 DEF DeleteExists, AfterDelete
<1>18. CASE DeleteUnlink(p)
  BY <1>18 DEF DeleteUnlink, Raise, Armed, Unlink, AfterDelete
<1>19. CASE StatusRead(p)
  BY <1>19 DEF StatusRead
<1>20. CASE StatusWrite(p)
  BY <1>20 DEF StatusWrite
<1>21. CASE Report(p)
  BY <1>21 DEF Report
<1>22. CASE Interrupt(p)
  BY <1>22 DEF Interrupt, Raise, Armed
<1>23. CASE Crash(p)
  BY <1>23 DEF Crash
<1>24. CASE NoticesUnlink(p)
  BY <1>24 DEF NoticesUnlink
<1>25. CASE NoticesGone(p)
  BY <1>25 DEF NoticesGone, Raise, Armed
<1>26. QED
  BY <1>1, <1>2, <1>3, <1>4, <1>5, <1>6, <1>7, <1>8, <1>9, <1>10, <1>11,
     <1>12, <1>13, <1>14, <1>15, <1>16, <1>17, <1>18, <1>19, <1>20, <1>21,
     <1>22, <1>23, <1>24, <1>25
     DEF Step, Check, Acquire, Body, Delete, DeleteAll, Status, Fault

(* What a step that breaches nothing does to the notices: its own comes,   *)
(* or all go with its lock.                                                *)
LEMMA StepNotices ==
  ASSUME LockInv, DeleteInv, NEW p \in Pids, Start(p) \/ Step(p) \/ Fault(p),
         breach' = {}
  PROVE  /\ \/ notices' = notices
            \/ notices' = notices \union {cmd[p]} /\ pc'[p] = "create"
            \/ notices' = notices \union {cmd[p]} /\ pc'[p] = "body" /\ phase'[p] = "body"
            \/ /\ notices' = {} /\ lock \in {Absent, p}
               /\ \/ pc[p] = "del_notice"
                  \/ pc[p] = "all_unlink" /\ phase[p] = "resume"
         /\ \A q \in Pids \ {p} : snap'[q] = snap[q]
         /\ pc'[p] = "renote_write" => snap'[p] = notices /\ notices' = notices
         /\ Critical(p)' /\ phase'[p] = "body" =>
              \/ Critical(p) /\ phase[p] = "body" /\ pc[p] # "del_notice"
              \/ pc[p] = "renote_write"
         /\ pc[p] = "renote_write" =>
              notices' = notices \/ notices' = notices \union {cmd[p]}
<1>. USE AfterCheckRange DEF LockInv, TypeOK, GateInv, DeleteInv, Acquiring,
         Critical, Alive, Live, Dead, Goto, Enter, Record
<1>1. CASE Start(p)
  BY <1>1 DEF Start
<1>2. CASE CheckExists(p)
  BY <1>2 DEF CheckExists
<1>3. CASE CheckLoad(p)
  BY <1>3 DEF CheckLoad, Raise, Armed
<1>4. CASE CheckHeld(p)
  BY <1>4 DEF CheckHeld
<1>5. CASE CheckStale(p)
  BY <1>5 DEF CheckStale
<1>6. CASE UnlinkStale(p)
  BY <1>6 DEF UnlinkStale, Raise, Armed, Unlink
<1>7. CASE NoticeRead(p)
  BY <1>7 DEF NoticeRead
<1>8. CASE NoticeWrite(p)
  BY <1>8 DEF NoticeWrite
<1>9. CASE CreateLock(p)
  BY <1>9 DEF CreateLock
<1>10. CASE WriteLock(p)
  BY <1>10 DEF WriteLock
<1>11. CASE BodyRefresh(p)
  BY <1>11 DEF BodyRefresh
<1>12. CASE BodyStatus(p)
  BY <1>12 DEF BodyStatus
<1>13. CASE BodyDetach(p)
  BY <1>13 DEF BodyDetach
<1>14. CASE DetachReturns(p)
  BY <1>14 DEF DetachReturns
<1>15. CASE BodyFails(p)
  BY <1>15 DEF BodyFails, Raise, Armed
<1>16. CASE DeleteNotice(p)
  BY <1>16 DEF DeleteNotice
<1>17. CASE DeleteExists(p)
  BY <1>17 DEF DeleteExists, AfterDelete
<1>18. CASE DeleteUnlink(p)
  BY <1>18 DEF DeleteUnlink, Raise, Armed, Unlink, AfterDelete
<1>19. CASE StatusRead(p)
  BY <1>19 DEF StatusRead
<1>20. CASE StatusWrite(p)
  BY <1>20 DEF StatusWrite
<1>21. CASE Report(p)
  BY <1>21 DEF Report
<1>22. CASE Interrupt(p)
  BY <1>22 DEF Interrupt, Raise, Armed
<1>23. CASE Crash(p)
  BY <1>23 DEF Crash
<1>24. CASE NoticesUnlink(p)
  BY <1>24 DEF NoticesUnlink
<1>25. CASE NoticesGone(p)
  BY <1>25 DEF NoticesGone, Raise, Armed
<1>26. QED
  BY <1>1, <1>2, <1>3, <1>4, <1>5, <1>6, <1>7, <1>8, <1>9, <1>10, <1>11,
     <1>12, <1>13, <1>14, <1>15, <1>16, <1>17, <1>18, <1>19, <1>20, <1>21,
     <1>22, <1>23, <1>24, <1>25
     DEF Step, Check, Acquire, Body, Delete, DeleteAll, Status, Fault

(* A command that is not killed or interrupted takes its lock file and its *)
(* notice away before it ends.                                             *)
LEMMA StepEnds ==
  ASSUME LockInv, DeleteInv, NEW p \in Pids, Start(p) \/ Step(p), breach' = {}
  PROVE  /\ lock' = Torn => lock = Torn \/ pc'[p] = "content"
         /\ pc[p] = "content" => lock' = p
         /\ lock' = p => pc'[p] = "renote_read" \/ lock = p
         /\ Keeps(p) /\ lock = p => Keeps(p)' \/ lock' # p
         /\ Announces(p) => Announces(p)' \/ notices' = {}
<1>. USE AfterCheckRange, LockAssumption DEF LockInv, TypeOK, GateInv,
         DeleteInv, OrphanInv, LockIsOwned, Acquiring, Keeps, Announces,
         Alive, Live, Dead, Goto, Enter, Record
<1>1. CASE Start(p)
  BY <1>1 DEF Start
<1>2. CASE CheckExists(p)
  BY <1>2 DEF CheckExists
<1>3. CASE CheckLoad(p)
  BY <1>3 DEF CheckLoad, Raise, Armed
<1>4. CASE CheckHeld(p)
  BY <1>4 DEF CheckHeld
<1>5. CASE CheckStale(p)
  BY <1>5 DEF CheckStale
<1>6. CASE UnlinkStale(p)
  BY <1>6 DEF UnlinkStale, Raise, Armed, Unlink
<1>7. CASE NoticeRead(p)
  BY <1>7 DEF NoticeRead
<1>8. CASE NoticeWrite(p)
  BY <1>8 DEF NoticeWrite
<1>9. CASE CreateLock(p)
  BY <1>9 DEF CreateLock
<1>10. CASE WriteLock(p)
  BY <1>10 DEF WriteLock
<1>11. CASE BodyRefresh(p)
  BY <1>11 DEF BodyRefresh
<1>12. CASE BodyStatus(p)
  BY <1>12 DEF BodyStatus
<1>13. CASE BodyDetach(p)
  BY <1>13 DEF BodyDetach
<1>14. CASE DetachReturns(p)
  BY <1>14 DEF DetachReturns
<1>15. CASE BodyFails(p)
  BY <1>15 DEF BodyFails, Raise, Armed
<1>16. CASE DeleteNotice(p)
  BY <1>16 DEF DeleteNotice
<1>17. CASE DeleteExists(p)
  BY <1>17 DEF DeleteExists, AfterDelete
<1>18. CASE DeleteUnlink(p)
  BY <1>18 DEF DeleteUnlink, Raise, Armed, Unlink, AfterDelete
<1>19. CASE StatusRead(p)
  BY <1>19 DEF StatusRead
<1>20. CASE StatusWrite(p)
  BY <1>20 DEF StatusWrite
<1>21. CASE Report(p)
  BY <1>21 DEF Report
<1>22. CASE NoticesUnlink(p)
  BY <1>22 DEF NoticesUnlink
<1>23. CASE NoticesGone(p)
  BY <1>23 DEF NoticesGone, Raise, Armed
<1>24. QED
  BY <1>1, <1>2, <1>3, <1>4, <1>5, <1>6, <1>7, <1>8, <1>9, <1>10, <1>11,
     <1>12, <1>13, <1>14, <1>15, <1>16, <1>17, <1>18, <1>19, <1>20, <1>21, <1>22, <1>23
     DEF Step, Check, Acquire, Body, Delete, DeleteAll, Status, Fault

(* From the second add_notice the body is entered by its write only.       *)
LEMMA OnlyNoticeWrite ==
  ASSUME LockInv, NEW p \in Pids, Start(p) \/ Step(p) \/ Fault(p),
         pc[p] = "renote_write", Critical(p)'
  PROVE  NoticeWrite(p)
<1>. USE DEF LockInv, TypeOK, GateInv, Acquiring, Critical, Alive, Live, Goto,
         Enter
<1>1. CASE Start(p)
  BY <1>1 DEF Start
<1>2. CASE CheckExists(p)
  BY <1>2 DEF CheckExists
<1>3. CASE CheckLoad(p)
  BY <1>3 DEF CheckLoad, Raise, Armed
<1>4. CASE CheckHeld(p)
  BY <1>4 DEF CheckHeld
<1>5. CASE CheckStale(p)
  BY <1>5 DEF CheckStale
<1>6. CASE UnlinkStale(p)
  BY <1>6 DEF UnlinkStale, Raise, Armed, Unlink
<1>7. CASE NoticeRead(p)
  BY <1>7 DEF NoticeRead
<1>8. CASE NoticeWrite(p)
  BY <1>8
<1>9. CASE CreateLock(p)
  BY <1>9 DEF CreateLock
<1>10. CASE WriteLock(p)
  BY <1>10 DEF WriteLock
<1>11. CASE BodyRefresh(p)
  BY <1>11 DEF BodyRefresh
<1>12. CASE BodyStatus(p)
  BY <1>12 DEF BodyStatus
<1>13. CASE BodyDetach(p)
  BY <1>13 DEF BodyDetach
<1>14. CASE DetachReturns(p)
  BY <1>14 DEF DetachReturns
<1>15. CASE BodyFails(p)
  BY <1>15 DEF BodyFails, Raise, Armed
<1>16. CASE DeleteNotice(p)
  BY <1>16 DEF DeleteNotice
<1>17. CASE DeleteExists(p)
  BY <1>17 DEF DeleteExists, AfterDelete
<1>18. CASE DeleteUnlink(p)
  BY <1>18 DEF DeleteUnlink, Raise, Armed, Unlink, AfterDelete
<1>19. CASE StatusRead(p)
  BY <1>19 DEF StatusRead
<1>20. CASE StatusWrite(p)
  BY <1>20 DEF StatusWrite
<1>21. CASE Report(p)
  BY <1>21 DEF Report
<1>22. CASE Interrupt(p)
  BY <1>22 DEF Interrupt, Raise, Armed
<1>23. CASE Crash(p)
  BY <1>23 DEF Crash
<1>24. CASE NoticesUnlink(p)
  BY <1>24 DEF NoticesUnlink
<1>25. CASE NoticesGone(p)
  BY <1>25 DEF NoticesGone, Raise, Armed
<1>26. QED
  BY <1>1, <1>2, <1>3, <1>4, <1>5, <1>6, <1>7, <1>8, <1>9, <1>10, <1>11,
     <1>12, <1>13, <1>14, <1>15, <1>16, <1>17, <1>18, <1>19, <1>20, <1>21,
     <1>22, <1>23, <1>24, <1>25
     DEF Step, Check, Acquire, Body, Delete, DeleteAll, Status, Fault

(* The notice of a running command is added to what is there, and no other *)
(* command removes it.                                                     *)
LEMMA StepTold ==
  ASSUME NoticeInv, NEW p \in Pids, Start(p) \/ Step(p) \/ Fault(p)
  PROVE  SnapInv' /\ NoticeWhileHeld'
<1>. SUFFICES ASSUME breach' = {}, NEW q \in Pids
              PROVE  /\ pc'[q] = "renote_write" => snap'[q] \subseteq notices'
                     /\ Critical(q)' /\ phase'[q] = "body" => cmd'[q] \in notices'
  BY DEF SnapInv, NoticeWhileHeld
<1>1. /\ breach = {} /\ cmd' = cmd
      /\ q # p => /\ pc'[q] = pc[q] /\ phase'[q] = phase[q] /\ snap'[q] = snap[q]
                  /\ (Critical(q)' <=> Critical(q))
  BY StepControl, StepNotices DEF NoticeInv, LockInv, Critical, Alive
<1>2. Critical(q) => lock = q
  BY <1>1 DEF NoticeInv, LockInv, LockIsOwned
<1>3. CASE q # p
  <2>1. Critical(q) => notices \subseteq notices'
    BY <1>2, <1>3, LockAssumption, StepNotices DEF NoticeInv
  <2>2. pc[q] = "renote_write" => Critical(q)
    BY DEF Critical, Alive, Live
  <2>3. QED
    BY <1>1, <1>3, <2>1, <2>2 DEF NoticeInv, SnapInv, NoticeWhileHeld
<1>4. CASE q = p
  <2>1. pc'[p] = "renote_write" => snap'[p] \subseteq notices'
    BY StepNotices DEF NoticeInv
  <2>2. ASSUME Critical(p), phase[p] = "body", pc[p] # "del_notice"
        PROVE  cmd[p] \in notices'
    <3>1. cmd[p] \in notices
      BY <1>1, <2>2 DEF NoticeInv, NoticeWhileHeld
    <3>2. QED
      BY <2>2, <3>1, StepNotices DEF NoticeInv
(* The second add_notice writes only when its own notice is not there.     *)
  <2>3. ASSUME pc[p] = "renote_write", Critical(p)', phase'[p] = "body"
        PROVE  cmd[p] \in notices'
    <3>1. snap[p] \subseteq notices
      BY <1>1, <2>3 DEF NoticeInv, SnapInv
    <3>2. NoticeWrite(p)
      BY <2>3, OnlyNoticeWrite DEF NoticeInv
    <3>3. QED
      BY <3>1, <3>2 DEF NoticeWrite
  <2>4. QED
    BY <1>1, <1>4, <2>1, <2>2, <2>3, StepNotices DEF NoticeInv
<1>5. QED
  BY <1>3, <1>4

(* What is left has still its command.                                     *)
LEMMA StepRest ==
  ASSUME NoticeInv, NEW p \in Pids, Start(p) \/ Step(p) \/ Fault(p)
  PROVE  RestInv'
<1>. SUFFICES ASSUME Undisturbed'
              PROVE  /\ lock' = Torn => \E q \in Pids : pc'[q] = "content"
                     /\ \A q \in Pids : lock' = q => Keeps(q)'
                     /\ notices' # {} => \E q \in Pids : Announces(q)'
  BY DEF RestInv
<1>. USE LockAssumption DEF NoticeInv
<1>1. /\ \A q \in Pids \ {p} : /\ pc'[q] = pc[q]
                                /\ (Keeps(q)' <=> Keeps(q))
                                /\ (Announces(q)' <=> Announces(q))
      /\ lock' \in {lock, Absent, Torn, p}
      /\ pc[p] # "crashed" /\ breach = {}
  BY StepControl DEF LockInv, Keeps, Announces, Alive, Undisturbed, Dead
<1>2. Undisturbed
  BY <1>1 DEF Undisturbed
<1>3. Start(p) \/ Step(p)
  <2>1. Crash(p) => pc'[p] = "crashed"
    BY DEF Crash, Goto, LockInv, TypeOK
  <2>2. QED
    BY <2>1 DEF Fault, Interrupt, Undisturbed
<1>4. breach' = {}
  BY DEF Undisturbed
<1>5. /\ lock = Torn => \E q \in Pids : pc[q] = "content"
      /\ \A q \in Pids : lock = q => Keeps(q)
      /\ notices # {} => \E q \in Pids : Announces(q)
  BY <1>2 DEF RestInv
<1>6. lock' = Torn => \E q \in Pids : pc'[q] = "content"
  BY <1>1, <1>3, <1>4, <1>5, StepEnds
<1>7. ASSUME NEW q \in Pids, lock' = q
      PROVE  Keeps(q)'
  <2>1. CASE q # p
    BY <1>1, <1>5, <1>7, <2>1
  <2>2. CASE q = p /\ pc'[p] = "renote_read"
    BY <2>2 DEF Keeps, Alive, Live
  <2>3. CASE q = p /\ pc'[p] # "renote_read"
    BY <1>3, <1>4, <1>5, <1>7, <2>3, StepEnds
  <2>4. QED
    BY <2>1, <2>2, <2>3
<1>8. ASSUME notices' # {}
      PROVE  \E q \in Pids : Announces(q)'
  <2>1. CASE notices' = notices
    BY <1>1, <1>3, <1>4, <1>5, <1>8, <2>1, StepEnds
  <2>2. CASE notices' # notices
    <3>1. \/ notices' = notices
          \/ pc'[p] = "create"
          \/ pc'[p] = "body" /\ phase'[p] = "body"
          \/ notices' = {}
      BY <1>4, StepNotices
    <3>2. QED
      BY <1>8, <2>2, <3>1 DEF Announces, Alive, Live
  <2>3. QED
    BY <2>1, <2>2
<1>9. QED
  BY <1>6, <1>7, <1>8

LEMMA InitNotices == Init => NoticeInv
  BY InitInv, LockAssumption
     DEF Init, NoticeInv, DeleteInv, SnapInv, NoticeWhileHeld, RestInv, Critical, Alive

LEMMA NextNotices == NoticeInv /\ [Next]_vars => NoticeInv'
<1>1. ASSUME NoticeInv, NEW p \in Pids, Start(p) \/ Step(p) \/ Fault(p)
      PROVE  NoticeInv'
  <2>1. LockInv'
    BY <1>1, NextInv DEF NoticeInv, Next
  <2>2. DeleteInv'
    BY <1>1, StepDelete DEF NoticeInv, LockInv
  <2>3. QED
    BY <1>1, <2>1, <2>2, StepTold, StepRest DEF NoticeInv
<1>2. ASSUME NoticeInv, UNCHANGED vars
      PROVE  NoticeInv'
  <2>1. LockInv'
    BY <1>2, NextInv DEF NoticeInv
  <2>2. DeleteInv' /\ SnapInv' /\ NoticeWhileHeld' /\ RestInv'
    BY <1>2 DEF vars, NoticeInv, DeleteInv, SnapInv, NoticeWhileHeld, RestInv,
                Undisturbed, Keeps, Announces, Critical, Alive
  <2>3. QED
    BY <2>1, <2>2 DEF NoticeInv
<1>3. QED
  BY <1>1, <1>2 DEF Next

(* The invariant of the notices holds of every behaviour.                  *)
THEOREM NoticesHold == Spec => []NoticeInv
  BY InitNotices, NextNotices, PTL DEF Spec

(* `ua status` has the notice of a command as long as its body runs, up to *)
(* a breach.                                                               *)
THEOREM RunningIsAnnounced == Spec => []NoticeWhileHeld
  BY NoticesHold, PTL DEF NoticeInv

(* When all commands have ended of themselves no lock file and no notice   *)
(* is left, up to a breach.  An interrupt between the two writes of the    *)
(* lock file is not handled by anything, so there must be none.            *)
THEOREM NothingLeft ==
  ASSUME "interrupt" \notin Faults
  PROVE  Spec => []CleanAtRest
<1>1. NoticeInv => CleanAtRest
  <2>1. SUFFICES ASSUME NoticeInv, breach = {},
                        \A p \in Pids : pc[p] \in {"unborn", "ok", "held", "error"}
                 PROVE  lock = Absent /\ notices = {}
    BY DEF CleanAtRest
  <2>2. Undisturbed /\ \A p \in Pids : ~Keeps(p) /\ ~Announces(p) /\ pc[p] # "content"
    BY <2>1 DEF Undisturbed, Keeps, Announces, Alive, Live
  <2>3. QED
    BY <2>1, <2>2 DEF NoticeInv, RestInv, LockInv, TypeOK
<1>2. QED
  BY <1>1, NoticesHold, PTL

(* Root's `ua status --wait` finds the lock file of a command in its       *)
(* locked part, whenever it looks, up to a breach.                         *)
THEOREM WaitIsNotMisled == Spec => WaitSeesCommand
<1>1. LockInv /\ [Next]_vars =>
        [\A p \in Pids :
           /\ cmd[p] \in Waiting /\ Root(p) /\ CheckExists(p)
           /\ breach \intersect LockBreaches = {}
           /\ \E q \in Pids : Critical(q)
           => pc'[p] = "load"]_vars
  <2>1. SUFFICES ASSUME LockInv, NEW p \in Pids, Root(p), CheckExists(p),
                        breach \intersect LockBreaches = {},
                        NEW q \in Pids, Critical(q)
                 PROVE  pc'[p] = "load"
    OBVIOUS
  <2>2. lock = q /\ lock # Absent
    BY <2>1, LockAssumption DEF LockInv, LockIsOwned
  <2>3. QED
    BY <2>1, <2>2 DEF CheckExists, Goto, LockInv, TypeOK
<1>2. QED
  BY <1>1, InvariantHolds, PTL DEF Spec, WaitSeesCommand

-----------------------------------------------------------------------------
(* Refinement of ExclusiveLock.  Own, In and Ended are the values its      *)
(* variables are given by Excl.                                            *)
Own == IF lock = Torn THEN Absent ELSE lock
In == {q \in Pids : Critical(q)}
Ended == {q \in Pids : pc[q] \in Dead}
Clean == breach \intersect LockBreaches = {}

LEMMA StepRefines ==
  ASSUME LockInv, LockInv', NEW p \in Pids, Start(p) \/ Step(p) \/ Fault(p),
         Clean, Clean'
  PROVE  \/ Own' = Own /\ In' = In /\ Ended' = Ended
         \/ /\ Own = Absent /\ In = {} /\ p \notin Ended
            /\ Own' = p /\ In' = {p} /\ Ended' = Ended
         \/ /\ Own = p /\ In' = In \ {p} /\ Own' \in {p, Absent}
            /\ Ended' \in {Ended, Ended \union {p}}
         \/ Ended' = Ended \union {p} /\ In' = In \ {p} /\ Own' = Own
         \/ /\ Own = p /\ p \notin In /\ Own' = Absent /\ In' = In
            /\ Ended' \in {Ended, Ended \union {p}}
         \/ Own \in Ended /\ Own' = Absent /\ In' = In /\ Ended' = Ended
<1>. USE LockAssumption DEF LockInv
<1>1. /\ cmd' = cmd /\ pc[p] \notin Dead
      /\ \A q \in Pids \ {p} :
           pc'[q] = pc[q] /\ phase'[q] = phase[q] /\ (Critical(q)' <=> Critical(q))
  BY StepControl DEF LockInv, Critical, Alive
<1>2. /\ Ended' = IF pc'[p] \in Dead THEN Ended \union {p} ELSE Ended
      /\ In' = IF Critical(p)' THEN In \union {p} ELSE In \ {p}
      /\ Critical(p) <=> p \in In
      /\ Critical(p)' => pc'[p] \notin Dead
  BY <1>1 DEF Ended, In, Critical, Alive, Live, Dead
<1>3. \A q \in In : lock = q
  BY DEF In, LockIsOwned, Clean
<1>4. CASE ~TouchesLock(p)
  <2>1. lock' = lock /\ (Critical(p)' => Critical(p))
    BY <1>4, StepQuiet
  <2>2. CASE Critical(p)
    BY <1>2, <1>3, <2>1, <2>2 DEF Own
  <2>3. CASE ~Critical(p)
    BY <1>2, <2>1, <2>3 DEF Own
  <2>4. QED
    BY <2>2, <2>3
<1>5. CASE CreateLock(p)
  <2>1. /\ breach' = breach \union (IF lock # Absent THEN {"overwrite"} ELSE {})
        /\ lock' = Torn /\ pc'[p] = "content" /\ phase' = phase /\ pc[p] = "create"
    BY <1>5 DEF CreateLock, Record, Goto, TypeOK
  <2>2. lock = Absent
    BY <2>1 DEF Clean, LockBreaches
  <2>3. ~Critical(p)' /\ pc'[p] \notin Dead
    BY <2>1 DEF Critical, GateInv, Acquiring, Dead
  <2>4. QED
    BY <1>2, <1>3, <2>1, <2>2, <2>3 DEF Own
<1>6. CASE WriteLock(p)
  <2>1. /\ pc[p] = "content" /\ pc'[p] = "renote_read"
        /\ lock' = IF p \in orphan THEN lock ELSE p
    BY <1>6 DEF WriteLock, Goto, TypeOK
  <2>2. lock = Torn /\ lock' = p
    BY <2>1 DEF LockIsOwned, OrphanInv, Clean
  <2>3. In = {} /\ In' = {p} /\ Ended' = Ended /\ p \notin Ended
    BY <1>1, <1>2, <1>3, <2>1, <2>2 DEF In, Ended, Critical, Alive, Live, Dead
  <2>4. QED
    BY <2>2, <2>3 DEF Own
<1>7. CASE UnlinkStale(p) /\ lock # Absent
  <2>1. /\ breach' = breach \union (IF lock # seen[p] THEN {"stale_unlink"} ELSE {})
        /\ lock' = Absent /\ pc[p] = "unlink" /\ pc'[p] \notin Dead
        /\ Critical(p)' => Critical(p)
    BY <1>7, AfterCheckRange
       DEF UnlinkStale, Unlink, Record, Goto, TypeOK, Critical, Alive, Live, Dead
  <2>2. lock = seen[p] /\ seen[p] \in Ended /\ seen[p] \in Pids
    BY <2>1 DEF Clean, LockBreaches, StalePidIsDead, Ended
  <2>3. In = {}
    BY <1>3, <2>2 DEF In, Ended, Critical, Alive, Live, Dead
  <2>4. QED
    BY <1>2, <2>1, <2>2, <2>3 DEF Own
<1>8. CASE DeleteUnlink(p) /\ lock # Absent
  <2>1. /\ breach' = breach
             \union (IF lock # p THEN {"foreign_delete"} ELSE {})
             \union (IF phase[p] = "drop" /\ cmd[p] = "auto-attach"
                       THEN {"dropped"} ELSE {})
        /\ lock' = Absent
    BY <1>8 DEF DeleteUnlink, Unlink
  <2>2. lock = p /\ ~(phase[p] = "drop" /\ cmd[p] = "auto-attach")
    BY <2>1 DEF Clean, LockBreaches
  <2>3. ~Critical(p)'
    BY <1>1, <1>8, <2>2
       DEF DeleteUnlink, AfterDelete, Goto, Enter, TypeOK, Critical, Alive, Live
  <2>4. QED
    BY <1>2, <2>1, <2>2, <2>3 DEF Own
<1>9. CASE (UnlinkStale(p) \/ DeleteUnlink(p)) /\ lock = Absent
  <2>1. lock' = lock /\ ~Critical(p)'
    BY <1>9 DEF UnlinkStale, DeleteUnlink, Raise, Armed, Goto, Enter, TypeOK,
                Critical, Alive, Live
  <2>2. QED
    BY <1>2, <1>3, <1>9, <2>1 DEF Own
<1>10. QED
  BY <1>4, <1>5, <1>6, <1>7, <1>8, <1>9 DEF TouchesLock

(* The lock file implements ExclusiveLock: one owner at a time, released   *)
(* by it or recovered from it once dead, until a breach.                   *)
THEOREM Refinement == Spec => ImplementsExclusiveLock
<1>1. Init => Excl!Init
  BY LockAssumption DEF Init, Excl!Init, Critical, Alive, Live, Dead, LockBreaches
<1>2. LockInv /\ LockInv' /\ [Next]_vars => [Excl!Next]_(Excl!ovars)
  <2>1. ASSUME LockInv, LockInv', NEW p \in Pids, Start(p) \/ Step(p) \/ Fault(p)
        PROVE  [Excl!Next]_(Excl!ovars)
    <3>1. CASE ~Clean'
      BY <3>1 DEF Excl!Next, Excl!Break, Clean
    <3>2. CASE Clean' /\ ~Clean
      <4>1. breach \subseteq breach'
        BY <2>1, StepControl DEF LockInv
      <4>2. QED
        BY <3>2, <4>1 DEF Clean
    <3>3. CASE Clean' /\ Clean
      BY <2>1, <3>3, StepRefines
         DEF Own, In, Ended, Clean, Excl!Next, Excl!Acquire, Excl!Leave, Excl!End,
             Excl!Release, Excl!Recover, Excl!ovars
    <3>4. QED
      BY <3>1, <3>2, <3>3
  <2>2. CASE UNCHANGED vars
    BY <2>2 DEF vars, Excl!ovars, Critical, Alive
  <2>3. QED
    BY <2>1, <2>2 DEF Next
<1>3. QED
  BY <1>1, <1>2, InvariantHolds, PTL DEF Spec, ImplementsExclusiveLock, Excl!Spec

=============================================================================
