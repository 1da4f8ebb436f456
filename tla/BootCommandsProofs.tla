------------------------- MODULE BootCommandsProofs -------------------------
(***************************************************************************)
(* Theorems about BootCommands for every number of retries and of package  *)
(* upgrades.                                                               *)
(***************************************************************************)
EXTENDS BootCommands, TLAPS

(* Work is left only for a machine with a contract, and is marked.         *)
DueInv ==
  /\ due # {} => Attached
  /\ PendingMarked

(* What is saved of an id is this machine's or the original's; the machine *)
(* id is no younger than the instance.                                     *)
IdsInv ==
  /\ savedIid <= iid /\ savedMid <= mid /\ mid <= iid

(* A token next to this machine's own cached id, of either kind, is this   *)
(* machine's; auto-attach asks for one only when there is none.            *)
TokenInv ==
  /\ AttachedAsItself
  /\ Attached /\ savedMid = mid => token = mid
  /\ pc \in {"aa_token", "aa_attach"} => ~Attached

(* Boot commands run under the lock, auto-attach until it has forgotten    *)
(* another instance's contract.                                            *)
LockKept ==
  /\ pc \in RebootSteps \ {"rc"} => lock = "boot"
  /\ pc \in {"aa_id", "aa_report", "aa_forget"} => lock = "boot"

BootInv == TypeOK /\ DueInv /\ IdsInv /\ TokenInv /\ LockKept

-----------------------------------------------------------------------------
(* The truth values stay truth values.                                    *)
LEMMA StepFlags ==
  ASSUME TypeOK, Next
  PROVE  marker' \in BOOLEAN /\ fipsCached' \in BOOLEAN
<1>. USE DEF TypeOK, Goto, Locked, Unlocked, ExitProcess, Forget, identity,
         work
<1>1. CASE Boot
  BY <1>1 DEF Boot
<1>2. CASE PowerOff
  BY <1>2 DEF PowerOff
<1>3. CASE Clone
  BY <1>3 DEF Clone
<1>4. CASE AutoAttachLocked
  BY <1>4 DEF AutoAttachLocked
<1>5. CASE AutoAttachStart
  BY <1>5 DEF AutoAttachStart
<1>6. CASE CloudRefused
  BY <1>6 DEF CloudRefused
<1>7. CASE CompareIds
  BY <1>7 DEF CompareIds
<1>8. CASE ReportDetach
  BY <1>8 DEF ReportDetach
<1>9. CASE ReportFails
  BY <1>9 DEF ReportFails
<1>10. CASE ForgetContract
  BY <1>10 DEF ForgetContract
<1>11. CASE RequestToken
  BY <1>11 DEF RequestToken
<1>12. CASE AttachMachine
  BY <1>12 DEF AttachMachine
<1>13. CASE RetryLock
  BY <1>13 DEF RetryLock
<1>14. CASE StartReboot
  BY <1>14 DEF StartReboot
<1>15. CASE FixHolds
  BY <1>15 DEF FixHolds
<1>16. CASE FixHoldsFails
  BY <1>16 DEF FixHoldsFails
<1>17. CASE NoHolds
  BY <1>17 DEF NoHolds
<1>18. CASE RefreshContract
  BY <1>18 DEF RefreshContract
<1>19. CASE RefreshFails
  BY <1>19 DEF RefreshFails
<1>20. CASE ProcessDeltas
  BY <1>20 DEF ProcessDeltas
<1>21. CASE DeltasFail
  BY <1>21 DEF DeltasFail
<1>22. CASE Unmark
  BY <1>22 DEF Unmark
<1>23. CASE TellDone
  BY <1>23 DEF TellDone
<1>24. CASE MarkReboot
  BY <1>24 DEF MarkReboot
<1>25. CASE AddNotice
  BY <1>25 DEF AddNotice
<1>26. CASE TakeLock
  BY <1>26 DEF TakeLock
<1>27. CASE ReleaseLock
  BY <1>27 DEF ReleaseLock
<1>28. CASE UserAttach
  BY <1>28 DEF UserAttach
<1>29. CASE UserRefresh
  BY <1>29 DEF UserRefresh
<1>30. CASE UserDetach
  BY <1>30 DEF UserDetach
<1>31. CASE HoldsStay
  BY <1>31 DEF HoldsStay
<1>32. QED
  BY <1>1, <1>2, <1>3, <1>4, <1>5, <1>6, <1>7, <1>8, <1>9, <1>10, <1>11,
     <1>12, <1>13, <1>14, <1>15, <1>16, <1>17, <1>18, <1>19, <1>20, <1>21,
     <1>22, <1>23, <1>24, <1>25, <1>26, <1>27, <1>28, <1>29, <1>30, <1>31
     DEF Next, BootSteps, AutoAttach, RebootCmds, Others

(* Every step keeps the types.                                             *)
LEMMA StepTypes ==
  ASSUME TypeOK, Next
  PROVE  TypeOK'
<1>. USE StepFlags, BootAssumption DEF TypeOK, Pcs, AutoAttachSteps,
         RebootSteps, Ids, NoId, Breaches, Goto, Locked, Unlocked,
         ExitProcess, Forget, TellServer, Deleted, AfterAutoAttach, identity,
         work
<1>1. CASE Boot
  BY <1>1 DEF Boot
<1>2. CASE PowerOff
  BY <1>2 DEF PowerOff
<1>3. CASE Clone
  BY <1>3 DEF Clone
<1>4. CASE AutoAttachLocked
  BY <1>4 DEF AutoAttachLocked
<1>5. CASE AutoAttachStart
  BY <1>5 DEF AutoAttachStart
<1>6. CASE CloudRefused
  BY <1>6 DEF CloudRefused
<1>7. CASE CompareIds
  BY <1>7 DEF CompareIds
<1>8. CASE ReportDetach
  <2>1. registered' \in SUBSET Ids
    BY <1>8 DEF ReportDetach
  <2>2. QED
    BY <1>8, <2>1 DEF ReportDetach
<1>9. CASE ReportFails
  BY <1>9 DEF ReportFails
<1>10. CASE ForgetContract
  BY <1>10 DEF ForgetContract
<1>11. CASE RequestToken
  BY <1>11 DEF RequestToken
<1>12. CASE AttachMachine
  <2>1. registered' \in SUBSET Ids /\ token' \in Ids \union {NoId}
    BY <1>12 DEF AttachMachine
  <2>2. QED
    BY <1>12, <2>1 DEF AttachMachine
<1>13. CASE RetryLock
  BY <1>13 DEF RetryLock
<1>14. CASE StartReboot
  BY <1>14 DEF StartReboot
<1>15. CASE FixHolds
  BY <1>15 DEF FixHolds
<1>16. CASE FixHoldsFails
  BY <1>16 DEF FixHoldsFails
<1>17. CASE NoHolds
  BY <1>17 DEF NoHolds
<1>18. CASE RefreshContract
  BY <1>18 DEF RefreshContract
<1>19. CASE RefreshFails
  <2>1. notices' \in SUBSET {"livepatch", "fips", "failed"}
    BY <1>19 DEF RefreshFails
  <2>2. pc' \in Pcs /\ tries' = tries /\ lock' \in {"free", "stale"}
    BY <1>19 DEF RefreshFails
  <2>3. QED
    BY <1>19, <2>1, <2>2 DEF RefreshFails
<1>20. CASE ProcessDeltas
  BY <1>20 DEF ProcessDeltas
<1>21. CASE DeltasFail
  BY <1>21 DEF DeltasFail
<1>22. CASE Unmark
  BY <1>22 DEF Unmark
<1>23. CASE TellDone
  BY <1>23 DEF TellDone
<1>24. CASE MarkReboot
  BY <1>24 DEF MarkReboot
<1>25. CASE AddNotice
  BY <1>25 DEF AddNotice
<1>26. CASE TakeLock
  BY <1>26 DEF TakeLock
<1>27. CASE ReleaseLock
  BY <1>27 DEF ReleaseLock
<1>28. CASE UserAttach
  BY <1>28 DEF UserAttach
<1>29. CASE UserRefresh
  BY <1>29 DEF UserRefresh
<1>30. CASE UserDetach
  BY <1>30 DEF UserDetach
<1>31. CASE HoldsStay
  BY <1>31 DEF HoldsStay
<1>32. QED
  BY <1>1, <1>2, <1>3, <1>4, <1>5, <1>6, <1>7, <1>8, <1>9, <1>10, <1>11,
     <1>12, <1>13, <1>14, <1>15, <1>16, <1>17, <1>18, <1>19, <1>20, <1>21,
     <1>22, <1>23, <1>24, <1>25, <1>26, <1>27, <1>28, <1>29, <1>30, <1>31
     DEF Next, BootSteps, AutoAttach, RebootCmds, Others

(* Ids are saved from this machine and grow only with a clone.             *)
LEMMA StepIds ==
  ASSUME BootInv, Next
  PROVE  IdsInv'
<1>. USE DEF BootInv, TypeOK, IdsInv, Ids, NoId, Goto, Locked, Unlocked,
         ExitProcess, Forget, TellServer, Deleted, AfterAutoAttach, identity,
         work
<1>1. CASE Boot
  BY <1>1 DEF Boot
<1>2. CASE PowerOff
  BY <1>2 DEF PowerOff
<1>3. CASE Clone
  BY <1>3 DEF Clone
<1>4. CASE AutoAttachLocked
  BY <1>4 DEF AutoAttachLocked
<1>5. CASE AutoAttachStart
  BY <1>5 DEF AutoAttachStart
<1>6. CASE CloudRefused
  BY <1>6 DEF CloudRefused
<1>7. CASE CompareIds
  BY <1>7 DEF CompareIds
<1>8. CASE ReportDetach
  BY <1>8 DEF ReportDetach
<1>9. CASE ReportFails
  BY <1>9 DEF ReportFails
<1>10. CASE ForgetContract
  BY <1>10 DEF ForgetContract
<1>11. CASE RequestToken
  BY <1>11 DEF RequestToken
<1>12. CASE AttachMachine
  BY <1>12 DEF AttachMachine
<1>13. CASE RetryLock
  BY <1>13 DEF RetryLock
<1>14. CASE StartReboot
  BY <1>14 DEF StartReboot
<1>15. CASE FixHolds
  BY <1>15 DEF FixHolds
<1>16. CASE FixHoldsFails
  BY <1>16 DEF FixHoldsFails
<1>17. CASE NoHolds
  BY <1>17 DEF NoHolds
<1>18. CASE RefreshContract
  BY <1>18 DEF RefreshContract
<1>19. CASE RefreshFails
  BY <1>19 DEF RefreshFails
<1>20. CASE ProcessDeltas
  BY <1>20 DEF ProcessDeltas
<1>21. CASE DeltasFail
  BY <1>21 DEF DeltasFail
<1>22. CASE Unmark
  BY <1>22 DEF Unmark
<1>23. CASE TellDone
  BY <1>23 DEF TellDone
<1>24. CASE MarkReboot
  BY <1>24 DEF MarkReboot
<1>25. CASE AddNotice
  BY <1>25 DEF AddNotice
<1>26. CASE TakeLock
  BY <1>26 DEF TakeLock
<1>27. CASE ReleaseLock
  BY <1>27 DEF ReleaseLock
<1>28. CASE UserAttach
  BY <1>28 DEF UserAttach
<1>29. CASE UserRefresh
  BY <1>29 DEF UserRefresh
<1>30. CASE UserDetach
  BY <1>30 DEF UserDetach
<1>31. CASE HoldsStay
  BY <1>31 DEF HoldsStay
<1>32. QED
  BY <1>1, <1>2, <1>3, <1>4, <1>5, <1>6, <1>7, <1>8, <1>9, <1>10, <1>11,
     <1>12, <1>13, <1>14, <1>15, <1>16, <1>17, <1>18, <1>19, <1>20, <1>21,
     <1>22, <1>23, <1>24, <1>25, <1>26, <1>27, <1>28, <1>29, <1>30, <1>31
     DEF Next, BootSteps, AutoAttach, RebootCmds, Others

(* A new token is this machine's.                                          *)
LEMMA StepToken ==
  ASSUME BootInv, Next
  PROVE  TokenInv'
<1>. USE DEF BootInv, TypeOK, IdsInv, TokenInv, AttachedAsItself, Attached,
         Ids, NoId, Goto, Locked, Unlocked, ExitProcess, Forget, TellServer,
         Deleted, AfterAutoAttach, identity, work
<1>1. CASE Boot
  BY <1>1 DEF Boot
<1>2. CASE PowerOff
  BY <1>2 DEF PowerOff
<1>3. CASE Clone
  BY <1>3 DEF Clone
<1>4. CASE AutoAttachLocked
  BY <1>4 DEF AutoAttachLocked
<1>5. CASE AutoAttachStart
  BY <1>5 DEF AutoAttachStart
<1>6. CASE CloudRefused
  BY <1>6 DEF CloudRefused
<1>7. CASE CompareIds
  BY <1>7 DEF CompareIds
<1>8. CASE ReportDetach
  BY <1>8 DEF ReportDetach
<1>9. CASE ReportFails
  BY <1>9 DEF ReportFails
<1>10. CASE ForgetContract
  BY <1>10 DEF ForgetContract
<1>11. CASE RequestToken
  BY <1>11 DEF RequestToken
<1>12. CASE AttachMachine
  BY <1>12 DEF AttachMachine
<1>13. CASE RetryLock
  BY <1>13 DEF RetryLock
<1>14. CASE StartReboot
  BY <1>14 DEF StartReboot
<1>15. CASE FixHolds
  BY <1>15 DEF FixHolds
<1>16. CASE FixHoldsFails
  BY <1>16 DEF FixHoldsFails
<1>17. CASE NoHolds
  BY <1>17 DEF NoHolds
<1>18. CASE RefreshContract
  BY <1>18 DEF RefreshContract
<1>19. CASE RefreshFails
  BY <1>19 DEF RefreshFails
<1>20. CASE ProcessDeltas
  BY <1>20 DEF ProcessDeltas
<1>21. CASE DeltasFail
  BY <1>21 DEF DeltasFail
<1>22. CASE Unmark
  BY <1>22 DEF Unmark
<1>23. CASE TellDone
  BY <1>23 DEF TellDone
<1>24. CASE MarkReboot
  BY <1>24 DEF MarkReboot
<1>25. CASE AddNotice
  BY <1>25 DEF AddNotice
<1>26. CASE TakeLock
  BY <1>26 DEF TakeLock
<1>27. CASE ReleaseLock
  BY <1>27 DEF ReleaseLock
<1>28. CASE UserAttach
  BY <1>28 DEF UserAttach
<1>29. CASE UserRefresh
  BY <1>29 DEF UserRefresh
<1>30. CASE UserDetach
  BY <1>30 DEF UserDetach
<1>31. CASE HoldsStay
  BY <1>31 DEF HoldsStay
<1>32. QED
  BY <1>1, <1>2, <1>3, <1>4, <1>5, <1>6, <1>7, <1>8, <1>9, <1>10, <1>11,
     <1>12, <1>13, <1>14, <1>15, <1>16, <1>17, <1>18, <1>19, <1>20, <1>21,
     <1>22, <1>23, <1>24, <1>25, <1>26, <1>27, <1>28, <1>29, <1>30, <1>31
     DEF Next, BootSteps, AutoAttach, RebootCmds, Others

(* The marker goes with the work, or a breach is recorded.                 *)
LEMMA StepDue ==
  ASSUME BootInv, Next
  PROVE  DueInv'
<1>. USE DEF BootInv, TypeOK, DueInv, PendingMarked, Attached, Ids, NoId,
         Goto, Locked, Unlocked, ExitProcess, Forget, TellServer, Deleted,
         AfterAutoAttach, identity, work
<1>1. CASE Boot
  BY <1>1 DEF Boot
<1>2. CASE PowerOff
  BY <1>2 DEF PowerOff
<1>3. CASE Clone
  BY <1>3 DEF Clone
<1>4. CASE AutoAttachLocked
  BY <1>4 DEF AutoAttachLocked
<1>5. CASE AutoAttachStart
  BY <1>5 DEF AutoAttachStart
<1>6. CASE CloudRefused
  BY <1>6 DEF CloudRefused
<1>7. CASE CompareIds
  BY <1>7 DEF CompareIds
<1>8. CASE ReportDetach
  BY <1>8 DEF ReportDetach
<1>9. CASE ReportFails
  BY <1>9 DEF ReportFails
<1>10. CASE ForgetContract
  BY <1>10 DEF ForgetContract
<1>11. CASE RequestToken
  BY <1>11 DEF RequestToken
<1>12. CASE AttachMachine
  BY <1>12 DEF AttachMachine
<1>13. CASE RetryLock
  BY <1>13 DEF RetryLock
<1>14. CASE StartReboot
  BY <1>14 DEF StartReboot
<1>15. CASE FixHolds
  BY <1>15 DEF FixHolds
<1>16. CASE FixHoldsFails
  BY <1>16 DEF FixHoldsFails
<1>17. CASE NoHolds
  BY <1>17 DEF NoHolds
<1>18. CASE RefreshContract
  BY <1>18 DEF RefreshContract
<1>19. CASE RefreshFails
  BY <1>19 DEF RefreshFails
<1>20. CASE ProcessDeltas
  BY <1>20 DEF ProcessDeltas
<1>21. CASE DeltasFail
  BY <1>21 DEF DeltasFail
<1>22. CASE Unmark
  BY <1>22 DEF Unmark
<1>23. CASE TellDone
  BY <1>23 DEF TellDone
<1>24. CASE MarkReboot
  BY <1>24 DEF MarkReboot
<1>25. CASE AddNotice
  BY <1>25 DEF AddNotice
<1>26. CASE TakeLock
  BY <1>26 DEF TakeLock
<1>27. CASE ReleaseLock
  BY <1>27 DEF ReleaseLock
<1>28. CASE UserAttach
  BY <1>28 DEF UserAttach
<1>29. CASE UserRefresh
  BY <1>29 DEF UserRefresh
<1>30. CASE UserDetach
  BY <1>30 DEF UserDetach
<1>31. CASE HoldsStay
  BY <1>31 DEF HoldsStay
<1>32. QED
  BY <1>1, <1>2, <1>3, <1>4, <1>5, <1>6, <1>7, <1>8, <1>9, <1>10, <1>11,
     <1>12, <1>13, <1>14, <1>15, <1>16, <1>17, <1>18, <1>19, <1>20, <1>21,
     <1>22, <1>23, <1>24, <1>25, <1>26, <1>27, <1>28, <1>29, <1>30, <1>31
     DEF Next, BootSteps, AutoAttach, RebootCmds, Others

(* Nobody takes the lock from a boot command.                              *)
LEMMA StepLock ==
  ASSUME BootInv, Next
  PROVE  LockKept'
<1>. USE DEF BootInv, LockKept, RebootSteps, Goto, Locked, Unlocked,
         ExitProcess, Forget, TellServer, Deleted, AfterAutoAttach, identity,
         work
<1>1. CASE Boot
  BY <1>1 DEF Boot
<1>2. CASE PowerOff
  BY <1>2 DEF PowerOff
<1>3. CASE Clone
  BY <1>3 DEF Clone
<1>4. CASE AutoAttachLocked
  BY <1>4 DEF AutoAttachLocked
<1>5. CASE AutoAttachStart
  BY <1>5 DEF AutoAttachStart
<1>6. CASE CloudRefused
  BY <1>6 DEF CloudRefused
<1>7. CASE CompareIds
  BY <1>7 DEF CompareIds
<1>8. CASE ReportDetach
  BY <1>8 DEF ReportDetach
<1>9. CASE ReportFails
  BY <1>9 DEF ReportFails
<1>10. CASE ForgetContract
  BY <1>10 DEF ForgetContract
<1>11. CASE RequestToken
  BY <1>11 DEF RequestToken
<1>12. CASE AttachMachine
  BY <1>12 DEF AttachMachine
<1>13. CASE RetryLock
  BY <1>13 DEF RetryLock
<1>14. CASE StartReboot
  BY <1>14 DEF StartReboot
<1>15. CASE FixHolds
  BY <1>15 DEF FixHolds
<1>16. CASE FixHoldsFails
  BY <1>16 DEF FixHoldsFails
<1>17. CASE NoHolds
  BY <1>17 DEF NoHolds
<1>18. CASE RefreshContract
  BY <1>18 DEF RefreshContract
<1>19. CASE RefreshFails
  BY <1>19 DEF RefreshFails
<1>20. CASE ProcessDeltas
  BY <1>20 DEF ProcessDeltas
<1>21. CASE DeltasFail
  BY <1>21 DEF DeltasFail
<1>22. CASE Unmark
  BY <1>22 DEF Unmark
<1>23. CASE TellDone
  BY <1>23 DEF TellDone
<1>24. CASE MarkReboot
  BY <1>24 DEF MarkReboot
<1>25. CASE AddNotice
  BY <1>25 DEF AddNotice
<1>26. CASE TakeLock
  BY <1>26 DEF TakeLock
<1>27. CASE ReleaseLock
  BY <1>27 DEF ReleaseLock
<1>28. CASE UserAttach
  BY <1>28 DEF UserAttach
<1>29. CASE UserRefresh
  BY <1>29 DEF UserRefresh
<1>30. CASE UserDetach
  BY <1>30 DEF UserDetach
<1>31. CASE HoldsStay
  BY <1>31 DEF HoldsStay
<1>32. QED
  BY <1>1, <1>2, <1>3, <1>4, <1>5, <1>6, <1>7, <1>8, <1>9, <1>10, <1>11,
     <1>12, <1>13, <1>14, <1>15, <1>16, <1>17, <1>18, <1>19, <1>20, <1>21,
     <1>22, <1>23, <1>24, <1>25, <1>26, <1>27, <1>28, <1>29, <1>30, <1>31
     DEF Next, BootSteps, AutoAttach, RebootCmds, Others

(* What a DELETE takes away is this machine's, by the machine id and by the *)
(* token.                                                                  *)
LEMMA StepDetach ==
  ASSUME BootInv, Next
  PROVE  \A m \in registered : m \notin registered' => m = mid
<1>. USE DEF BootInv, TypeOK, TokenInv, Attached, Ids, NoId, Goto, Locked,
         Unlocked, ExitProcess, Forget, TellServer, Deleted, AfterAutoAttach,
         identity, work
<1>1. CASE Boot
  BY <1>1 DEF Boot
<1>2. CASE PowerOff
  BY <1>2 DEF PowerOff
<1>3. CASE Clone
  BY <1>3 DEF Clone
<1>4. CASE AutoAttachLocked
  BY <1>4 DEF AutoAttachLocked
<1>5. CASE AutoAttachStart
  BY <1>5 DEF AutoAttachStart
<1>6. CASE CloudRefused
  BY <1>6 DEF CloudRefused
<1>7. CASE CompareIds
  BY <1>7 DEF CompareIds
<1>8. CASE ReportDetach
  BY <1>8 DEF ReportDetach
<1>9. CASE ReportFails
  BY <1>9 DEF ReportFails
<1>10. CASE ForgetContract
  BY <1>10 DEF ForgetContract
<1>11. CASE RequestToken
  BY <1>11 DEF RequestToken
<1>12. CASE AttachMachine
  BY <1>12 DEF AttachMachine
<1>13. CASE RetryLock
  BY <1>13 DEF RetryLock
<1>14. CASE StartReboot
  BY <1>14 DEF StartReboot
<1>15. CASE FixHolds
  BY <1>15 DEF FixHolds
<1>16. CASE FixHoldsFails
  BY <1>16 DEF FixHoldsFails
<1>17. CASE NoHolds
  BY <1>17 DEF NoHolds
<1>18. CASE RefreshContract
  BY <1>18 DEF RefreshContract
<1>19. CASE RefreshFails
  BY <1>19 DEF RefreshFails
<1>20. CASE ProcessDeltas
  BY <1>20 DEF ProcessDeltas
<1>21. CASE DeltasFail
  BY <1>21 DEF DeltasFail
<1>22. CASE Unmark
  BY <1>22 DEF Unmark
<1>23. CASE TellDone
  BY <1>23 DEF TellDone
<1>24. CASE MarkReboot
  BY <1>24 DEF MarkReboot
<1>25. CASE AddNotice
  BY <1>25 DEF AddNotice
<1>26. CASE TakeLock
  BY <1>26 DEF TakeLock
<1>27. CASE ReleaseLock
  BY <1>27 DEF ReleaseLock
<1>28. CASE UserAttach
  BY <1>28 DEF UserAttach
<1>29. CASE UserRefresh
  BY <1>29 DEF UserRefresh
<1>30. CASE UserDetach
  BY <1>30 DEF UserDetach
<1>31. CASE HoldsStay
  BY <1>31 DEF HoldsStay
<1>32. QED
  BY <1>1, <1>2, <1>3, <1>4, <1>5, <1>6, <1>7, <1>8, <1>9, <1>10, <1>11,
     <1>12, <1>13, <1>14, <1>15, <1>16, <1>17, <1>18, <1>19, <1>20, <1>21,
     <1>22, <1>23, <1>24, <1>25, <1>26, <1>27, <1>28, <1>29, <1>30, <1>31
     DEF Next, BootSteps, AutoAttach, RebootCmds, Others

-----------------------------------------------------------------------------
LEMMA InitInv == Init => BootInv
<1>. SUFFICES ASSUME Init PROVE BootInv
  OBVIOUS
<1>1. marker \in BOOLEAN /\ fipsCached \in BOOLEAN
  BY DEF Init
<1>2. TypeOK
  BY <1>1, BootAssumption
     DEF Init, TypeOK, Ids, NoId, Pcs, AutoAttachSteps, RebootSteps, Breaches
<1>3. DueInv /\ IdsInv /\ TokenInv /\ LockKept
  BY DEF Init, DueInv, PendingMarked, IdsInv, TokenInv, AttachedAsItself,
         LockKept, Attached, NoId, RebootSteps
<1>4. QED
  BY <1>2, <1>3 DEF BootInv

LEMMA NextInv == BootInv /\ [Next]_vars => BootInv'
<1>1. CASE BootInv /\ Next
  BY <1>1, StepTypes, StepIds, StepToken, StepDue, StepLock DEF BootInv
<1>2. CASE BootInv /\ UNCHANGED vars
  BY <1>2 DEF vars, identity, work, BootInv, TypeOK, DueInv, PendingMarked,
              IdsInv, TokenInv, AttachedAsItself, LockKept, Attached
<1>3. QED
  BY <1>1, <1>2

(* The inductive invariant holds of every behaviour.                       *)
THEOREM InvariantHolds == Spec => []BootInv
  BY InitInv, NextInv, PTL DEF Spec

(* Every variable keeps its type, the retries left among them: no pop from *)
(* an empty list.                                                          *)
THEOREM TypeCorrect == Spec => []TypeOK
  BY InvariantHolds, PTL DEF BootInv

(* Work left for the boot keeps its marker until it is done, or is given   *)
(* up in one of the four ways.                                             *)
THEOREM WorkMarked == Spec => []PendingMarked
  BY InvariantHolds, PTL DEF BootInv, DueInv

(* A machine with its own cached instance id has its own token.            *)
THEOREM CloneReattached == Spec => []AttachedAsItself
  BY InvariantHolds, PTL DEF BootInv, TokenInv

(* The boot's steps run under its own lock.                                *)
THEOREM BootHoldsLock == Spec => []LockKept
  BY InvariantHolds, PTL DEF BootInv

(* A clone's detach, by auto-attach or by the user, leaves the original's  *)
(* seat alone, whichever of id and token the server goes by.               *)
THEOREM OwnSeatOnly == Spec => DetachAsItself
<1>1. BootInv /\ [Next]_vars =>
        [\A m \in registered : m \notin registered' => m = mid]_vars
  BY StepDetach
<1>2. QED
  BY <1>1, InvariantHolds, PTL DEF Spec, DetachAsItself

=============================================================================
