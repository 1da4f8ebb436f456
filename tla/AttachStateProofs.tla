------------------------- MODULE AttachStateProofs -------------------------
(***************************************************************************)
(* Theorems about AttachState for every set of processes and services.     *)
(* The inductive invariant AttachInv has an unconditional part (types, and *)
(* which command is at which step) and a part that holds until the lock or *)
(* the attached check is evaded: the process inside the lock is its owner, *)
(* and what it knows of the token, the services and the registrations is   *)
(* what the disk and the server have.                                      *)
(***************************************************************************)
EXTENDS AttachState, TLAPS

(* The steps of a detach, in order.                                        *)
DetachSteps == {"prompt", "disable", "report", "del_id", "del_token", "del_lock"}

(* The steps that need an attached machine when they are not an attach's.  *)
NeedToken == {"request", "write", "service", "prompt", "disable", "report",
              "del_id", "del_token"}

(* Which command is where; the attached check let only an attached command *)
(* through to the lock.                                                    *)
Shape ==
  \A p \in Pids :
    /\ pc[p] \in DetachSteps => cmd[p] = "detach"
    /\ pc[p] = "delta" => cmd[p] = "attach"
    /\ pc[p] = "write_id" => cmd[p] # "attach"
    /\ pc[p] = "service" => cmd[p] # "attach"
    /\ pc[p] = "lock" /\ cmd[p] # "attach" => tok[p] # None

Clean == breach = {}

(* The process inside the lock is the one in the lock file.                *)
Owned == \A p \in Pids : pc[p] \in Inside => holder = p

(* What a process inside the lock knows of the token.                      *)
Knows(p) ==
  /\ pc[p] \in Inside => tok[p] \in {token, None}
  /\ pc[p] \in NeedToken /\ cmd[p] # "attach" => token # None /\ tok[p] = token
  /\ pc[p] \in {"delta", "write_id"} => token # None
  /\ pc[p] = "write" /\ cmd[p] = "attach" => token = None
  /\ pc[p] = "del_lock" => token = None

(* How far a detach inside the lock has come with the services and with    *)
(* the server.                                                             *)
Progress(p) ==
  /\ pc[p] = "disable" => enabled \subseteq todo[p] \union kept
  /\ pc[p] \in {"report", "del_id", "del_token"} => enabled \subseteq kept
  /\ pc[p] \in {"del_id", "del_token"} =>
       token \notin registered \/ \E why \in Leaks : token \in leaked[why]

Guarded ==
  /\ Owned
  /\ \A p \in Pids : Knows(p) /\ Progress(p)
  /\ NoServiceUnattached /\ RegistrationsAccounted

AttachInv == TypeOK /\ Shape /\ (Clean => Guarded)

-----------------------------------------------------------------------------
(* Recording a leak keeps the record in its type.                          *)
LEMMA LeakType ==
  ASSUME leaked \in [Leaks -> SUBSET (Pids \union {None})],
         NEW t \in Pids \union {None}, NEW why \in Leaks, Leak(t, why)
  PROVE  leaked' \in [Leaks -> SUBSET (Pids \union {None})]
  BY DEF Leak

(* Recording a leak adds its token to the record and forgets none.         *)
LEMMA LeakRecords ==
  ASSUME leaked \in [Leaks -> SUBSET (Pids \union {None})],
         NEW t, NEW why \in Leaks, Leak(t, why)
  PROVE  /\ t \in leaked'[why]
         /\ \A w \in Leaks : leaked[w] \subseteq leaked'[w]
  BY DEF Leak

(* Every step keeps every variable in its type.                            *)
LEMMA StepTypes ==
  ASSUME TypeOK, NEW p \in Pids, Step(p)
  PROVE  TypeOK'
<1>. USE DEF TypeOK, disk, history, Live, Inside, Dead, Goto, Transition
<1>1. CASE Start(p)
  BY <1>1 DEF Start
<1>2. CASE CheckAttached(p)
  BY <1>2 DEF CheckAttached, MachineToken
<1>3. CASE TakeLock(p)
  BY <1>3 DEF TakeLock, FirstStep
<1>4. CASE LockHeld(p)
  BY <1>4 DEF LockHeld
<1>5. CASE AttachRequest(p)
  <2>1. leaked' \in [Leaks -> SUBSET (Pids \union {None})]
    BY <1>5, LeakType DEF AttachRequest, Leaks
  <2>2. tok' \in [Pids -> Pids \union {None}]
    BY <1>5 DEF AttachRequest, MachineToken
  <2>3. registered' \subseteq Pids
    <3>1. registered' = registered \/ registered' = registered \union {p}
      BY <1>5, Zenon DEF AttachRequest
    <3>2. QED
      BY <3>1
  <2>4. pc' \in [Pids -> Live \union Dead \union {"unborn"}]
    BY <1>5 DEF AttachRequest
  <2>5. QED
    BY <1>5, <2>1, <2>2, <2>3, <2>4 DEF AttachRequest
<1>6. CASE RefreshRequest(p)
  BY <1>6 DEF RefreshRequest
<1>7. CASE WriteToken(p)
  <2>1. todo' \in [Pids -> SUBSET Services]
    BY <1>7 DEF WriteToken
  <2>2. pc' \in [Pids -> Live \union Dead \union {"unborn"}]
    BY <1>7 DEF WriteToken
  <2>3. token' \in Pids \union {None} /\ tok' \in [Pids -> Pids \union {None}]
    BY <1>7 DEF WriteToken
  <2>4. QED
    BY <1>7, <2>1, <2>2, <2>3 DEF WriteToken
<1>8. CASE WriteMachineId(p)
  BY <1>8 DEF WriteMachineId, MachineToken
<1>9. CASE DeltaService(p) \/ DeltasDone(p)
  <2>1. CASE DeltaService(p)
    <3>1. todo' \in [Pids -> SUBSET Services] /\ enabled' \subseteq Services
      BY <2>1 DEF DeltaService
    <3>2. QED
      BY <2>1, <3>1 DEF DeltaService
  <2>2. CASE DeltasDone(p)
    BY <2>2 DEF DeltasDone
  <2>3. QED
    BY <1>9, <2>1, <2>2
<1>10. CASE EnableService(p) \/ DisableService(p)
  BY <1>10 DEF EnableService, DisableService
<1>11. CASE DetachPrompt(p)
  BY <1>11 DEF DetachPrompt
<1>12. CASE DetachDisable(p)
  <2>1. todo' \in [Pids -> SUBSET Services]
    BY <1>12 DEF DetachDisable
  <2>2. enabled' \subseteq Services /\ kept' \subseteq Services
    BY <1>12 DEF DetachDisable
  <2>3. pc' \in [Pids -> Live \union Dead \union {"unborn"}]
    BY <1>12 DEF DetachDisable
  <2>4. QED
    BY <1>12, <2>1, <2>2, <2>3 DEF DetachDisable
<1>13. CASE DetachDisabled(p)
  BY <1>13 DEF DetachDisabled
<1>14. CASE DetachReport(p)
  <2>1. leaked' \in [Leaks -> SUBSET (Pids \union {None})]
    BY <1>14, LeakType DEF DetachReport, Leaks
  <2>2. registered' \subseteq Pids
    BY <1>14 DEF DetachReport
  <2>3. pc' \in [Pids -> Live \union Dead \union {"unborn"}]
    BY <1>14, ZenonT(40) DEF DetachReport
  <2>4. QED
    BY <1>14, <2>1, <2>2, <2>3 DEF DetachReport
<1>15. CASE DeleteMachineId(p) \/ DeleteToken(p)
  BY <1>15, ZenonT(40) DEF DeleteMachineId, DeleteToken
<1>16. CASE DeleteLock(p)
  BY <1>16 DEF DeleteLock
<1>17. CASE Crash(p)
  <2>1. leaked' \in [Leaks -> SUBSET (Pids \union {None})]
    BY <1>17, LeakType DEF Crash, Leaks
  <2>2. QED
    BY <1>17, <2>1 DEF Crash
<1>18. QED
  BY <1>1, <1>2, <1>3, <1>4, <1>5, <1>6, <1>7, <1>8, <1>9, <1>10, <1>11,
     <1>12, <1>13, <1>14, <1>15, <1>16, <1>17 DEF Step, Contract, Detach

(* Every step keeps each command on its own path.                          *)
LEMMA StepShape ==
  ASSUME TypeOK, Shape, NEW p \in Pids, Step(p)
  PROVE  Shape'
<1>. USE DEF TypeOK, Shape, disk, history, Goto, Transition, DetachSteps, MachineToken
<1>1. CASE Start(p)
  BY <1>1 DEF Start
<1>2. CASE CheckAttached(p)
  BY <1>2 DEF CheckAttached
<1>3. CASE TakeLock(p)
  BY <1>3 DEF TakeLock, FirstStep
<1>4. CASE LockHeld(p)
  BY <1>4 DEF LockHeld
<1>5. CASE AttachRequest(p)
  BY <1>5 DEF AttachRequest
<1>6. CASE RefreshRequest(p)
  BY <1>6 DEF RefreshRequest
<1>7. CASE WriteToken(p)
  BY <1>7 DEF WriteToken
<1>8. CASE WriteMachineId(p)
  BY <1>8 DEF WriteMachineId
<1>9. CASE DeltaService(p) \/ DeltasDone(p)
  BY <1>9 DEF DeltaService, DeltasDone
<1>10. CASE EnableService(p) \/ DisableService(p)
  BY <1>10 DEF EnableService, DisableService
<1>11. CASE DetachPrompt(p)
  BY <1>11 DEF DetachPrompt
<1>12. CASE DetachDisable(p)
  BY <1>12 DEF DetachDisable
<1>13. CASE DetachDisabled(p)
  BY <1>13 DEF DetachDisabled
<1>14. CASE DetachReport(p)
  BY <1>14 DEF DetachReport
<1>15. CASE DeleteMachineId(p) \/ DeleteToken(p)
  BY <1>15 DEF DeleteMachineId, DeleteToken
<1>16. CASE DeleteLock(p)
  BY <1>16 DEF DeleteLock
<1>17. CASE Crash(p)
  BY <1>17 DEF Crash
<1>18. QED
  BY <1>1, <1>2, <1>3, <1>4, <1>5, <1>6, <1>7, <1>8, <1>9, <1>10, <1>11,
     <1>12, <1>13, <1>14, <1>15, <1>16, <1>17 DEF Step, Contract, Detach

-----------------------------------------------------------------------------
(* A step changes the control and the memory of its own process only.      *)
LEMMA StepOthers ==
  ASSUME TypeOK, NEW p \in Pids, Step(p)
  PROVE  /\ cmd' = cmd /\ breach \subseteq breach'
         /\ \A q \in Pids \ {p} :
              pc'[q] = pc[q] /\ tok'[q] = tok[q] /\ todo'[q] = todo[q]
<1>. USE DEF TypeOK, disk, history, Goto, Transition
<1>1. CASE Start(p) \/ CheckAttached(p) \/ TakeLock(p) \/ LockHeld(p)
  BY <1>1 DEF Start, CheckAttached, TakeLock, LockHeld
<1>2. CASE AttachRequest(p)
  BY <1>2 DEF AttachRequest
<1>3. CASE RefreshRequest(p) \/ WriteToken(p) \/ WriteMachineId(p)
  BY <1>3 DEF RefreshRequest, WriteToken, WriteMachineId
<1>4. CASE DeltaService(p) \/ DeltasDone(p) \/ EnableService(p) \/ DisableService(p)
  BY <1>4 DEF DeltaService, DeltasDone, EnableService, DisableService
<1>5. CASE DetachPrompt(p) \/ DetachDisable(p) \/ DetachDisabled(p)
  BY <1>5 DEF DetachPrompt, DetachDisable, DetachDisabled
<1>6. CASE DetachReport(p)
  BY <1>6 DEF DetachReport
<1>7. CASE DeleteMachineId(p) \/ DeleteToken(p) \/ DeleteLock(p) \/ Crash(p)
  BY <1>7 DEF DeleteMachineId, DeleteToken, DeleteLock, Crash
<1>8. QED
  BY <1>1, <1>2, <1>3, <1>4, <1>5, <1>6, <1>7 DEF Step, Contract, Detach

(* A step outside the lock changes neither disk, server nor services.      *)
LEMMA StepOutside ==
  ASSUME NEW p \in Pids, Step(p), pc[p] \notin Inside
  PROVE  /\ token' = token /\ registered' = registered /\ leaked' = leaked
         /\ enabled' = enabled /\ kept' = kept
<1>. USE DEF Inside, disk, history, Goto, Transition
<1>1. CASE Start(p)
  BY <1>1 DEF Start
<1>2. CASE CheckAttached(p)
  BY <1>2 DEF CheckAttached
<1>3. CASE TakeLock(p)
  BY <1>3 DEF TakeLock
<1>4. CASE LockHeld(p)
  BY <1>4 DEF LockHeld
<1>5. CASE AttachRequest(p)
  BY <1>5 DEF AttachRequest
<1>6. CASE RefreshRequest(p)
  BY <1>6 DEF RefreshRequest
<1>7. CASE WriteToken(p)
  BY <1>7 DEF WriteToken
<1>8. CASE WriteMachineId(p)
  BY <1>8 DEF WriteMachineId
<1>9. CASE DeltaService(p)
  BY <1>9 DEF DeltaService
<1>10. CASE DeltasDone(p)
  BY <1>10 DEF DeltasDone
<1>11. CASE EnableService(p)
  BY <1>11 DEF EnableService
<1>12. CASE DisableService(p)
  BY <1>12 DEF DisableService
<1>13. CASE DetachPrompt(p)
  BY <1>13 DEF DetachPrompt
<1>14. CASE DetachDisable(p)
  BY <1>14 DEF DetachDisable
<1>15. CASE DetachDisabled(p)
  BY <1>15 DEF DetachDisabled
<1>16. CASE DetachReport(p)
  BY <1>16 DEF DetachReport
<1>17. CASE DeleteMachineId(p)
  BY <1>17 DEF DeleteMachineId
<1>18. CASE DeleteToken(p)
  BY <1>18 DEF DeleteToken
<1>19. CASE DeleteLock(p)
  BY <1>19 DEF DeleteLock
<1>20. CASE Crash(p)
  BY <1>20 DEF Crash
<1>21. QED
  BY <1>1, <1>2, <1>3, <1>4, <1>5, <1>6, <1>7, <1>8, <1>9, <1>10, <1>11,
     <1>12, <1>13, <1>14, <1>15, <1>16, <1>17, <1>18, <1>19, <1>20
     DEF Step, Contract, Detach

(* The lock file keeps naming the process inside the lock.                 *)
LEMMA StepOwned ==
  ASSUME TypeOK, Owned, NEW p \in Pids, Step(p), Clean'
  PROVE  Owned'
<1>1. /\ cmd' = cmd
      /\ \A q \in Pids \ {p} : pc'[q] = pc[q]
  BY StepOthers
<1>2. CASE TakeLock(p)
  <2>1. holder' = p /\ \A q \in Pids : pc[q] \notin Inside
    BY <1>2, AttachAssumption DEF TakeLock, Owned, Alive, Live
  <2>2. QED
    BY <1>1, <2>1 DEF Owned
<1>3. CASE DeleteLock(p)
  <2>1. holder \in {None, p} /\ pc'[p] \notin Inside
    BY <1>3 DEF DeleteLock, Clean, Transition, Goto, TypeOK, Inside
  <2>2. QED
    BY <1>1, <2>1, AttachAssumption DEF Owned
<1>4. CASE ~TakeLock(p) /\ ~DeleteLock(p)
  <2>1. holder' = holder /\ (pc'[p] \in Inside => pc[p] \in Inside)
    <3>1. CASE Start(p) \/ CheckAttached(p) \/ LockHeld(p) \/ Crash(p)
      BY <3>1 DEF Start, CheckAttached, LockHeld, Crash, Inside, Goto, Transition, TypeOK
    <3>2. CASE Contract(p)
      BY <3>2 DEF Contract, AttachRequest, RefreshRequest, WriteToken, WriteMachineId,
                  DeltaService, DeltasDone, Inside, Goto, Transition, TypeOK
    <3>3. CASE EnableService(p) \/ DisableService(p)
      BY <3>3 DEF EnableService, DisableService, Inside, Goto, Transition, TypeOK
    <3>4. CASE Detach(p)
      BY <3>4 DEF Detach, DetachPrompt, DetachDisable, DetachDisabled, DetachReport,
                  DeleteMachineId, DeleteToken, Inside, Goto, Transition, TypeOK
    <3>5. QED
      BY <1>4, <3>1, <3>2, <3>3, <3>4 DEF Step
  <2>2. QED
    BY <1>1, <2>1 DEF Owned
<1>5. QED
  BY <1>2, <1>3, <1>4

-----------------------------------------------------------------------------
(* What the others know stays true: either the step is inside the lock and *)
(* they are not, or it is outside and changes nothing they know of.        *)
LEMMA StepOtherKnows ==
  ASSUME TypeOK, Guarded, NEW p \in Pids, Step(p), NEW q \in Pids \ {p}
  PROVE  Knows(q)' /\ Progress(q)'
<1>1. /\ cmd' = cmd
      /\ pc'[q] = pc[q] /\ tok'[q] = tok[q] /\ todo'[q] = todo[q]
  BY StepOthers
<1>2. CASE pc[p] \in Inside
  <2>1. holder = p /\ pc[q] \notin Inside
    BY <1>2 DEF Guarded, Owned
  <2>2. QED
    BY <1>1, <2>1 DEF Knows, Progress, Inside, NeedToken
<1>3. CASE pc[p] \notin Inside
  <2>1. /\ token' = token /\ registered' = registered /\ leaked' = leaked
        /\ enabled' = enabled /\ kept' = kept
    BY <1>3, StepOutside
  <2>2. Knows(q) /\ Progress(q)
    BY DEF Guarded
  <2>3. QED
    BY <1>1, <2>1, <2>2 DEF Knows, Progress
<1>4. QED
  BY <1>2, <1>3

(* What the process itself knows of the token stays true.                  *)
LEMMA StepKnows ==
  ASSUME TypeOK, Shape, NEW p \in Pids, Knows(p), Step(p), Clean'
  PROVE  Knows(p)'
<1>. USE AttachAssumption
     DEF TypeOK, Shape, Knows, disk, history, Goto, Transition, MachineToken,
         Inside, NeedToken
<1>1. CASE Start(p)
  BY <1>1 DEF Start
<1>2. CASE CheckAttached(p)
  BY <1>2 DEF CheckAttached
<1>3. CASE TakeLock(p)
  <2>1. tok[p] = token /\ tok' = tok /\ token' = token /\ cmd' = cmd
    BY <1>3 DEF TakeLock, Clean
  <2>2. pc[p] = "lock" /\ pc'[p] = FirstStep(p)
    BY <1>3 DEF TakeLock
  <2>3. FirstStep(p) \in {"prompt", "service", "request"}
    BY DEF FirstStep
  <2>4. cmd[p] # "attach" => tok[p] # None
    BY <2>2
  <2>5. QED
    BY <2>1, <2>2, <2>3, <2>4
<1>4. CASE LockHeld(p)
  BY <1>4 DEF LockHeld
<1>5. CASE AttachRequest(p)
  <2>1. token' = token /\ cmd' = cmd /\ cmd[p] = "attach"
    BY <1>5 DEF AttachRequest
  <2>2. tok'[p] = MachineToken(p)
    BY <1>5, ZenonT(40) DEF AttachRequest
  <2>3. \/ pc'[p] \in {"abort", "release"}
        \/ pc'[p] = "write" /\ MachineToken(p) = None
    BY <1>5, ZenonT(40) DEF AttachRequest
  <2>4. MachineToken(p) = None => token = None
    OBVIOUS
  <2>5. QED
    BY <2>1, <2>2, <2>3, <2>4
<1>6. CASE RefreshRequest(p)
  BY <1>6 DEF RefreshRequest
<1>7. CASE WriteToken(p)
  BY <1>7 DEF WriteToken
<1>8. CASE WriteMachineId(p)
  BY <1>8 DEF WriteMachineId
<1>9. CASE DeltaService(p)
  BY <1>9 DEF DeltaService
<1>10. CASE DeltasDone(p)
  BY <1>10 DEF DeltasDone
<1>11. CASE EnableService(p)
  BY <1>11 DEF EnableService
<1>12. CASE DisableService(p)
  BY <1>12 DEF DisableService
<1>13. CASE DetachPrompt(p)
  BY <1>13 DEF DetachPrompt
<1>14. CASE DetachDisable(p)
  BY <1>14 DEF DetachDisable
<1>15. CASE DetachDisabled(p)
  BY <1>15 DEF DetachDisabled
<1>16. CASE DetachReport(p)
  BY <1>16, ZenonT(40) DEF DetachReport
<1>17. CASE DeleteMachineId(p)
  BY <1>17 DEF DeleteMachineId
<1>18. CASE DeleteToken(p)
  BY <1>18 DEF DeleteToken
<1>19. CASE DeleteLock(p)
  BY <1>19 DEF DeleteLock
<1>20. CASE Crash(p)
  BY <1>20 DEF Crash
<1>21. QED
  BY <1>1, <1>2, <1>3, <1>4, <1>5, <1>6, <1>7, <1>8, <1>9, <1>10, <1>11,
     <1>12, <1>13, <1>14, <1>15, <1>16, <1>17, <1>18, <1>19, <1>20
     DEF Step, Contract, Detach

(* So does what it has done so far, as a detach.                           *)
LEMMA StepProgress ==
  ASSUME TypeOK, Shape, NEW p \in Pids, Knows(p), Progress(p), Step(p)
  PROVE  Progress(p)'
<1>. USE AttachAssumption
     DEF TypeOK, Progress, disk, history, Goto, Transition
<1>1. CASE Start(p) \/ CheckAttached(p) \/ LockHeld(p)
  BY <1>1 DEF Start, CheckAttached, LockHeld
<1>2. CASE TakeLock(p)
  BY <1>2 DEF TakeLock, FirstStep
<1>3. CASE Contract(p)
  <2>1. pc'[p] \notin {"disable", "report", "del_id", "del_token"}
    <3>1. CASE AttachRequest(p)
      BY <3>1, ZenonT(40) DEF AttachRequest
    <3>2. CASE RefreshRequest(p)
      BY <3>2 DEF RefreshRequest
    <3>3. CASE WriteToken(p)
      BY <3>3 DEF WriteToken
    <3>4. CASE WriteMachineId(p)
      BY <3>4 DEF WriteMachineId
    <3>5. CASE DeltaService(p) \/ DeltasDone(p)
      BY <3>5 DEF DeltaService, DeltasDone
    <3>6. QED
      BY <1>3, <3>1, <3>2, <3>3, <3>4, <3>5 DEF Contract
  <2>2. QED
    BY <2>1
<1>4. CASE EnableService(p) \/ DisableService(p)
  <2>1. pc'[p] \in {"release", "abort"}
    BY <1>4 DEF EnableService, DisableService
  <2>2. QED
    BY <2>1
<1>5. CASE DetachPrompt(p)
  BY <1>5 DEF DetachPrompt
<1>6. CASE DetachDisable(p)
  BY <1>6 DEF DetachDisable
<1>7. CASE DetachDisabled(p)
  BY <1>7 DEF DetachDisabled
<1>8. CASE DetachReport(p)
  <2>1. enabled \subseteq kept /\ enabled' = enabled /\ kept' = kept /\ token' = token
    BY <1>8 DEF DetachReport
  <2>2. tok[p] = token /\ token # None
    BY <1>8 DEF DetachReport, Shape, DetachSteps, Knows, NeedToken
  <2>3. CASE ~idCached
    <3>1. leaked' = [leaked EXCEPT !["no machine-id"] = @ \union {token}]
      BY <1>8, <2>2, <2>3 DEF DetachReport, Leak
    <3>2. "no machine-id" \in Leaks /\ token \in leaked'["no machine-id"]
      BY <3>1 DEF Leaks
    <3>3. pc'[p] = "del_id"
      BY <1>8, <2>3 DEF DetachReport
    <3>4. QED
      BY <2>1, <3>2, <3>3
  <2>4. CASE idCached
    <3>1. pc'[p] = "abort" \/ (pc'[p] = "del_id" /\ token \notin registered')
      BY <1>8, <2>2, <2>4 DEF DetachReport
    <3>2. QED
      BY <2>1, <3>1
  <2>5. QED
    BY <2>3, <2>4
<1>9. CASE DeleteMachineId(p)
  BY <1>9 DEF DeleteMachineId
<1>10. CASE DeleteToken(p)
  BY <1>10 DEF DeleteToken
<1>11. CASE DeleteLock(p)
  BY <1>11 DEF DeleteLock
<1>12. CASE Crash(p)
  BY <1>12 DEF Crash
<1>13. QED
  BY <1>1, <1>2, <1>3, <1>4, <1>5, <1>6, <1>7, <1>8, <1>9, <1>10, <1>11, <1>12
     DEF Step, Detach

(* Services are enabled on an attached machine only, and the token goes    *)
(* only once they are disabled.                                            *)
LEMMA StepServices ==
  ASSUME TypeOK, Shape, NEW p \in Pids, Knows(p), Progress(p), Step(p),
         Clean, NoServiceUnattached
  PROVE  NoServiceUnattached'
<1>. USE AttachAssumption
     DEF TypeOK, Clean, NoServiceUnattached, disk, history, Goto, Transition
<1>1. CASE Start(p) \/ CheckAttached(p) \/ LockHeld(p) \/ TakeLock(p)
  BY <1>1 DEF Start, CheckAttached, LockHeld, TakeLock
<1>2. CASE AttachRequest(p) \/ RefreshRequest(p)
  BY <1>2 DEF AttachRequest, RefreshRequest
<1>3. CASE WriteToken(p)
  BY <1>3 DEF WriteToken, Knows, NeedToken
<1>4. CASE WriteMachineId(p) \/ DeltasDone(p)
  BY <1>4 DEF WriteMachineId, DeltasDone
<1>5. CASE DeltaService(p)
  BY <1>5 DEF DeltaService, Knows
<1>6. CASE EnableService(p)
  BY <1>6 DEF EnableService, Knows, NeedToken
<1>7. CASE DisableService(p)
  BY <1>7 DEF DisableService
<1>8. CASE DetachPrompt(p) \/ DetachDisabled(p) \/ DetachReport(p)
  BY <1>8 DEF DetachPrompt, DetachDisabled, DetachReport
<1>9. CASE DetachDisable(p)
  BY <1>9 DEF DetachDisable
<1>10. CASE DeleteMachineId(p)
  BY <1>10 DEF DeleteMachineId
<1>11. CASE DeleteToken(p)
  BY <1>11 DEF DeleteToken, Progress
<1>12. CASE DeleteLock(p) \/ Crash(p)
  BY <1>12 DEF DeleteLock, Crash
<1>13. QED
  BY <1>1, <1>2, <1>3, <1>4, <1>5, <1>6, <1>7, <1>8, <1>9, <1>10, <1>11, <1>12
     DEF Step, Contract, Detach

(* A registration enters with its attach's answer or as a named leak, and  *)
(* leaves its attach's hands onto the disk; the token that is deleted is   *)
(* no longer registered, or a leak.                                        *)
LEMMA StepRegistrations ==
  ASSUME TypeOK, Shape, NEW p \in Pids, Knows(p), Progress(p), Step(p),
         Clean, RegistrationsAccounted
  PROVE  RegistrationsAccounted'
<1>. USE AttachAssumption
     DEF TypeOK, disk, history, Goto, Transition
<1>. SUFFICES ASSUME NEW t \in registered'
              PROVE  \/ t = token'
                     \/ cmd'[t] = "attach" /\ pc'[t] = "write"
                     \/ \E why \in Leaks : t \in leaked'[why]
  BY DEF RegistrationsAccounted
<1>1. t \in registered =>
        \/ t = token
        \/ cmd[t] = "attach" /\ pc[t] = "write"
        \/ \E why \in Leaks : t \in leaked[why]
  BY DEF RegistrationsAccounted, Clean
<1>2. /\ cmd' = cmd
      /\ \A q \in Pids \ {p} : pc'[q] = pc[q]
  BY StepOthers
<1>3. t \in Pids
  BY StepTypes
<1>4. CASE Start(p) \/ CheckAttached(p) \/ LockHeld(p) \/ TakeLock(p)
  <2>1. registered' = registered /\ token' = token /\ leaked' = leaked /\ pc[p] # "write"
    BY <1>4 DEF Start, CheckAttached, LockHeld, TakeLock
  <2>2. QED
    BY <1>1, <1>2, <1>3, <2>1
<1>5. CASE AttachRequest(p)
  <2>1. token' = token /\ cmd[p] = "attach" /\ pc[p] # "write"
    BY <1>5 DEF AttachRequest
  <2>2. CASE registered' = registered /\ leaked' = leaked
    BY <1>1, <1>2, <1>3, <2>1, <2>2
  <2>3. CASE registered' = registered \union {p} /\ leaked' = leaked /\ pc'[p] = "write"
    BY <1>1, <1>2, <1>3, <2>1, <2>3
  <2>4. CASE registered' = registered \union {p} /\ Leak(p, "lost answer")
    <3>1. /\ p \in leaked'["lost answer"] /\ "lost answer" \in Leaks
          /\ \A why \in Leaks : leaked[why] \subseteq leaked'[why]
      BY <2>4 DEF Leak, Leaks
    <3>2. QED
      BY <1>1, <1>2, <1>3, <2>1, <2>4, <3>1
  <2>5. QED
    BY <1>5, <2>2, <2>3, <2>4 DEF AttachRequest
<1>6. CASE WriteToken(p)
  <2>1. registered' = registered /\ leaked' = leaked
    BY <1>6 DEF WriteToken
  <2>2. CASE cmd[p] = "attach"
    <3>1. token = None /\ token' = p
      BY <1>6, <2>2 DEF WriteToken, Knows
    <3>2. QED
      BY <1>1, <1>2, <1>3, <2>1, <3>1
  <2>3. CASE cmd[p] # "attach"
    <3>1. token' = token
      BY <1>6, <2>3 DEF WriteToken, Knows, NeedToken
    <3>2. QED
      BY <1>1, <1>2, <1>3, <2>1, <2>3, <3>1
  <2>4. QED
    BY <2>2, <2>3
<1>7. CASE RefreshRequest(p) \/ WriteMachineId(p) \/ DeltaService(p) \/ DeltasDone(p)
           \/ EnableService(p) \/ DisableService(p)
  <2>1. registered' = registered /\ token' = token /\ leaked' = leaked /\ pc[p] # "write"
    BY <1>7 DEF RefreshRequest, WriteMachineId, DeltaService, DeltasDone,
                EnableService, DisableService
  <2>2. QED
    BY <1>1, <1>2, <1>3, <2>1
<1>8. CASE DetachPrompt(p) \/ DetachDisable(p) \/ DetachDisabled(p)
           \/ DeleteMachineId(p) \/ DeleteLock(p)
  <2>1. registered' = registered /\ token' = token /\ leaked' = leaked /\ pc[p] # "write"
    BY <1>8 DEF DetachPrompt, DetachDisable, DetachDisabled, DeleteMachineId, DeleteLock
  <2>2. QED
    BY <1>1, <1>2, <1>3, <2>1
<1>9. CASE DetachReport(p)
  <2>1. registered' \subseteq registered /\ token' = token /\ pc[p] # "write"
    BY <1>9 DEF DetachReport
  <2>2. \A why \in Leaks : leaked[why] \subseteq leaked'[why]
    <3>1. leaked' = leaked \/ Leak(tok[p], "no machine-id")
      BY <1>9, Zenon DEF DetachReport
    <3>2. "no machine-id" \in Leaks
      BY DEF Leaks
    <3>3. QED
      BY <3>1, <3>2, LeakRecords, Zenon
  <2>3. QED
    BY <1>1, <1>2, <1>3, <2>1, <2>2
<1>10. CASE DeleteToken(p)
  <2>1. /\ registered' = registered /\ leaked' = leaked /\ pc[p] = "del_token"
    BY <1>10 DEF DeleteToken
  <2>2. t = token => \E why \in Leaks : t \in leaked[why]
    BY <2>1 DEF Progress
  <2>3. QED
    BY <1>1, <1>2, <1>3, <2>1, <2>2
<1>11. CASE Crash(p)
  <2>1. registered' = registered /\ token' = token
    BY <1>11 DEF Crash
  <2>2. /\ \A why \in Leaks : leaked[why] \subseteq leaked'[why]
        /\ cmd[p] = "attach" /\ pc[p] = "write" => p \in leaked'["crash"]
        /\ "crash" \in Leaks
    <3>1. "crash" \in Leaks
      BY DEF Leaks
    <3>2. CASE pc[p] = "write" /\ cmd[p] = "attach"
      <4>1. Leak(p, "crash")
        BY <1>11, <3>2, Zenon DEF Crash
      <4>2. QED
        BY <3>1, <4>1, LeakRecords, Zenon
    <3>3. CASE ~(pc[p] = "write" /\ cmd[p] = "attach")
      <4>1. leaked' = leaked
        BY <1>11, <3>3, Zenon DEF Crash
      <4>2. QED
        BY <3>1, <3>3, <4>1
    <3>4. QED
      BY <3>2, <3>3
  <2>3. QED
    BY <1>1, <1>2, <1>3, <2>1, <2>2
<1>12. QED
  BY <1>4, <1>5, <1>6, <1>7, <1>8, <1>9, <1>10, <1>11 DEF Step, Contract, Detach

-----------------------------------------------------------------------------
LEMMA InitInv == Init => AttachInv
<1>. SUFFICES ASSUME Init PROVE AttachInv
  OBVIOUS
<1>1. TypeOK
  BY AttachAssumption DEF Init, TypeOK, Live, Dead, Inside
<1>2. Shape
  BY DEF Init, Shape, DetachSteps
<1>3. Guarded
  BY DEF Init, Guarded, Owned, Knows, Progress, NoServiceUnattached,
         RegistrationsAccounted, Inside, NeedToken
<1>4. QED
  BY <1>1, <1>2, <1>3 DEF AttachInv

LEMMA NextInv == AttachInv /\ [Next]_vars => AttachInv'
<1>. SUFFICES ASSUME AttachInv, [Next]_vars PROVE AttachInv'
  OBVIOUS
<1>. TypeOK /\ Shape
  BY DEF AttachInv
<1>1. CASE UNCHANGED vars
  BY <1>1 DEF vars, AttachInv, TypeOK, Shape, Clean, Guarded, Owned, Knows,
              Progress, NoServiceUnattached, RegistrationsAccounted
<1>2. ASSUME NEW p \in Pids, Step(p)
      PROVE  AttachInv'
  <2>1. TypeOK' /\ Shape'
    BY <1>2, StepTypes, StepShape
  <2>2. ASSUME Clean'
        PROVE  Guarded'
    <3>1. Clean /\ Guarded
      BY <1>2, <2>2, StepOthers DEF Clean, AttachInv
    <3>2. Knows(p) /\ Progress(p)
      BY <3>1 DEF Guarded
    <3>3. Owned'
      BY <1>2, <2>2, <3>1, StepOwned DEF Guarded
    <3>4. Knows(p)' /\ Progress(p)'
      BY <1>2, <2>2, <3>2, StepKnows, StepProgress
    <3>5. \A q \in Pids \ {p} : Knows(q)' /\ Progress(q)'
      BY <1>2, <3>1, StepOtherKnows
    <3>6. NoServiceUnattached'
      BY <1>2, <3>1, <3>2, StepServices DEF Guarded
    <3>7. RegistrationsAccounted'
      BY <1>2, <3>1, <3>2, StepRegistrations DEF Guarded
    <3>8. QED
      BY <3>3, <3>4, <3>5, <3>6, <3>7 DEF Guarded
  <2>3. QED
    BY <2>1, <2>2 DEF AttachInv
<1>3. QED
  BY <1>1, <1>2 DEF Next

(* AttachInv is inductive, so it holds at every moment of every run.       *)
THEOREM InvariantHolds == Spec => []AttachInv
BY InitInv, NextInv, PTL DEF Spec

(* Every variable keeps its type, whatever evades the lock or the check.   *)
THEOREM TypeCorrect == Spec => []TypeOK
<1>1. AttachInv => TypeOK
  BY DEF AttachInv
<1>2. QED
  BY <1>1, InvariantHolds, PTL

(* cli._detach takes the token away last: a machine that is not attached   *)
(* has no service enabled but those whose disable was refused, whatever    *)
(* crashes and failures happened, for any number of commands.              *)
THEOREM ServicesNeedToken == Spec => []NoServiceUnattached
<1>1. AttachInv => NoServiceUnattached
  BY DEF AttachInv, Guarded, Clean, NoServiceUnattached
<1>2. QED
  BY <1>1, InvariantHolds, PTL

(* The contract server's registrations are the machine's own token, one on *)
(* its way to the disk, or a leak of one of the named kinds.               *)
THEOREM SeatsAccounted == Spec => []RegistrationsAccounted
<1>1. AttachInv => RegistrationsAccounted
  BY DEF AttachInv, Guarded, Clean, RegistrationsAccounted
<1>2. QED
  BY <1>1, InvariantHolds, PTL

(* A command inside the lock does not carry a stale copy of the token.     *)
THEOREM NoStaleCopy == Spec => []CopyIsCurrent
<1>1. AttachInv => CopyIsCurrent
  BY DEF AttachInv, Guarded, Clean, CopyIsCurrent, Knows
<1>2. QED
  BY <1>1, InvariantHolds, PTL

(* No command replaces the machine token of another attachment.            *)
THEOREM NotReplaced == Spec => TokenNotReplaced
<1>1. ASSUME AttachInv, [Next]_vars, breach = {}, token # None
      PROVE  token' \in {token, None}
  <2>1. CASE UNCHANGED vars
    BY <2>1 DEF vars
  <2>2. ASSUME NEW p \in Pids, Step(p)
        PROVE  token' \in {token, None}
    <3>1. Knows(p)
      BY <1>1 DEF AttachInv, Guarded, Clean
    <3>2. CASE WriteToken(p)
      BY <1>1, <3>1, <3>2 DEF WriteToken, Knows, NeedToken
    <3>3. CASE DeleteToken(p)
      BY <3>3 DEF DeleteToken
    <3>4. CASE ~WriteToken(p) /\ ~DeleteToken(p)
      BY <2>2, <3>4
         DEF Step, Contract, Detach, Start, CheckAttached, TakeLock, LockHeld,
             AttachRequest, RefreshRequest, WriteMachineId, DeltaService, DeltasDone,
             EnableService, DisableService, DetachPrompt, DetachDisable,
             DetachDisabled, DetachReport, DeleteMachineId, DeleteLock, Crash, disk
    <3>5. QED
      BY <3>2, <3>3, <3>4
  <2>3. QED
    BY <1>1, <2>1, <2>2 DEF Next
<1>2. QED
  BY <1>1, InvariantHolds, PTL DEF Spec, TokenNotReplaced

=============================================================================
