------------------------ MODULE RepoEntitlementProofs ------------------------
(***************************************************************************)
(* The safety properties of RepoEntitlement, for every set of urls and     *)
(* faults.  Between commands a service is either off or on; the invariant  *)
(* says, for every step of a command, which of its files are written and   *)
(* which are gone, so that each failure finds what it has to undo.         *)
(***************************************************************************)
EXTENDS RepoEntitlement, TLAPS

(* Disabled: no credentials, and no source but one pinned off.             *)
Off == auth = {} /\ (source # NoUrl => pin = "never" /\ pref = "never")

(* Enabled, for the contract as it is and as it was before an update.      *)
On == entitled /\ Applied /\ auth = {url}
WasOn ==
  /\ oldEntitled /\ oldUrl # NoUrl /\ source = oldUrl /\ auth = {oldUrl}
  /\ oldUrl \in indexes /\ pref # "never"

PinSet == pin # "none" => pref = IF pin = "never" THEN "absent" ELSE "priority"

(* What the control state says of the contract and the pin file, always.   *)
Shape ==
  /\ pc = "idle" <=> op = "none"
  /\ ~attached => ~entitled /\ url = NoUrl
  /\ pin = "none" => pref = "absent"
  /\ pin = "priority" => pref # "never"
  /\ pc \in {"pin", "prereq", "creds", "list", "auth", "key", "update"} =>
       url # NoUrl
  /\ pc = "delta" => op \in {"refresh", "attach"} /\ (op = "attach" => ~oldEntitled)

(* What setup_apt_config has written by each of its steps, whatever was    *)
(* there before; only a package upgrade in between can undo it.            *)
Written ==
  "upgrade" \notin breach =>
    /\ pc \in {"prereq", "creds", "list", "auth", "key", "update"} => PinSet
    /\ pc \in {"auth", "key", "update"} => source = url
    /\ pc \in {"key", "update"} => url \in auth
    /\ pc = "update" => key

(* The steps of an enable: from nothing to everything.                     *)
SettingUp ==
  /\ pc \in Setup => entitled
  /\ pc \in {"token", "pin"} => Off
  /\ pc \in {"prereq", "creds", "list"} =>
       auth = {} /\ (source # NoUrl => pin = "never")
  /\ pc = "auth" => auth = {}
  /\ pc \in {"key", "update"} => auth = {url}
  /\ pc = "install" => On

(* The steps of a removal, of the contract's own url or of the one before. *)
Removing ==
  /\ pc \in {"rw_list", "rw_auth"} =>
       entitled /\ url # NoUrl /\ auth = {oldUrl}
  /\ pc = "rw_auth" => source = NoUrl
  /\ pc \in Remove => (then = "token" => entitled)
  /\ pc \in {"rm_list", "rm_key", "rm_auth"} => auth \subseteq {url}
  /\ pc \in {"rm_list", "rm_key", "rm_index"} => pin # "never"
  /\ pc \in {"rm_index", "rm_pref"} => auth = {}
  /\ pc \in {"rm_key", "rm_auth", "rm_index", "rm_pref"} =>
       (source # NoUrl => pin = "never")
  /\ pc = "rm_update" => Off

AtRest ==
  /\ pc \in {"idle", "end"} => Off \/ On
  /\ pc = "delta" => Off \/ WasOn
  /\ pc = "forget" => Off

(* A refresh of a disabled service goes nowhere.                           *)
Refreshing == op = "refresh" /\ ~was => pc \in {"delta", "end"} /\ auth = {}

Consistent == AtRest /\ SettingUp /\ Removing /\ Refreshing

RepoInv == TypeOK /\ Shape /\ Written /\ (breach = {} => Consistent)


(* The two halves of the type invariant: the process, and the machine.     *)
ControlTypes ==
  /\ op \in Ops /\ pc \in Steps
  /\ then \in {"end", "fail", "token", "forget"}
  /\ refetch \in BOOLEAN /\ was \in BOOLEAN
  /\ oldEntitled \in BOOLEAN /\ oldUrl \in Urls \union {NoUrl}

FileTypes ==
  /\ pin \in Pins
  /\ attached \in BOOLEAN /\ entitled \in BOOLEAN
  /\ url \in Urls \union {NoUrl} /\ source \in Urls \union {NoUrl}
  /\ auth \subseteq Urls /\ key \in BOOLEAN /\ indexes \subseteq Urls
  /\ pref \in {"absent", "never", "priority"}
  /\ cache \in {"absent", "enabled", "disabled"}
  /\ breach \subseteq Breaches

-----------------------------------------------------------------------------
(* The type invariant is its two halves.                                   *)
LEMMA TypeSplit == TypeOK <=> ControlTypes /\ FileTypes
BY DEF TypeOK, ControlTypes, FileTypes

(* However a step hands over, the process stays in its types.              *)
LEMMA GotoTypes ==
  ASSUME ControlTypes, NEW l \in Steps, Goto(l)
  PROVE  ControlTypes'
BY DEF ControlTypes, Goto, memory

(* ... by an exception ...                                                 *)
LEMMA FailedTypes ==
  ASSUME ControlTypes, Failed
  PROVE  ControlTypes'
<1>1. CASE op = "attach"
  BY <1>1, GotoTypes DEF Failed, Steps
<1>2. CASE op # "attach"
  BY <1>2 DEF Failed, Exit, ControlTypes, Ops, Steps
<1>3. QED
  BY <1>1, <1>2

(* ... by a call of remove_apt_config ...                                  *)
LEMMA RemoveTypes ==
  ASSUME ControlTypes, NEW next \in {"end", "fail", "token", "forget"},
         NEW update \in BOOLEAN, CallRemove(next, update)
  PROVE  ControlTypes'
<1>1. CASE url = NoUrl
  BY <1>1, FailedTypes DEF CallRemove
<1>2. CASE url # NoUrl
  BY <1>2 DEF CallRemove, ControlTypes, Steps, Remove
<1>3. QED
  BY <1>1, <1>2

(* ... or by its return.                                                   *)
LEMMA ReturnTypes ==
  ASSUME ControlTypes, Return
  PROVE  ControlTypes'
<1>1. then = "fail" => Failed
  BY DEF Return
<1>2. then # "fail" => Goto(then) /\ then \in Steps
  BY DEF Return, ControlTypes, Steps, Setup
<1>3. QED
  BY <1>1, <1>2, FailedTypes, GotoTypes

(* Every step keeps the types of the process's own variables.              *)
LEMMA StepControlTypes ==
  ASSUME ControlTypes, FileTypes, [Next]_vars
  PROVE  ControlTypes'
<1>. USE RepoAssumption DEF contract, memory, control, Goto,
       Transition, ControlTypes, Ops, Steps, Setup, Remove
<1>1. CASE Enable
  BY <1>1 DEF Enable, Begin, CanEnable, Applied
<1>2. CASE Disable
  BY <1>2 DEF Disable, Begin, FirstRemoval, Applied
<1>3. CASE Detach
  BY <1>3 DEF Detach, Begin, FirstRemoval, Applied
<1>4. CASE Forget
  BY <1>4 DEF Forget, Exit
<1>5. CASE UpdateContract
  BY <1>5 DEF UpdateContract, Begin, FileTypes
<1>6. CASE SaveStatus
  BY <1>6 DEF SaveStatus, Status
<1>7. CASE DeltaUnentitled
  <2>1. \/ Goto("end")
        \/ CallRemove("end", TRUE)
    BY <1>7 DEF DeltaUnentitled
  <2>2. QED
    BY <2>1, GotoTypes, RemoveTypes DEF Steps, Setup, Remove
<1>8. CASE DeltaDefault
  <2>1. \/ Goto("end")
        \/ Goto("token")
    BY <1>8 DEF DeltaDefault
  <2>2. QED
    BY <2>1, GotoTypes DEF Steps, Setup, Remove
<1>9. CASE DeltaDirectives
  <2>1. \/ Goto("end")
        \/ Goto("rw_list")
        \/ Goto("install")
        \/ Failed
        \/ CallRemove("token", TRUE)
    BY <1>9 DEF DeltaDirectives
  <2>2. QED
    BY <2>1, GotoTypes, FailedTypes, RemoveTypes DEF Steps, Setup, Remove
<1>10. CASE RewriteList
  BY <1>10 DEF RewriteList
<1>11. CASE RewriteAuth
  <2>1. CallRemove("token", TRUE)
    BY <1>11 DEF RewriteAuth
  <2>2. QED
    BY <2>1, RemoveTypes DEF Steps, Setup, Remove
<1>12. CASE GetToken
  <2>1. \/ Goto("pin")
        \/ Failed
    BY <1>12 DEF GetToken
  <2>2. QED
    BY <2>1, GotoTypes, FailedTypes DEF Steps, Setup, Remove
<1>13. CASE SetPin
  BY <1>13 DEF SetPin
<1>14. CASE InstallPrerequisites
  <2>1. \/ Goto("creds")
        \/ CallRemove("fail", TRUE)
    BY <1>14 DEF InstallPrerequisites
  <2>2. QED
    BY <2>1, GotoTypes, RemoveTypes DEF Steps, Setup, Remove
<1>15. CASE CheckCredentials
  <2>1. \/ Goto("list")
        \/ Failed
    BY <1>15 DEF CheckCredentials
  <2>2. QED
    BY <2>1, GotoTypes, FailedTypes DEF Steps, Setup, Remove
<1>16. CASE WriteList
  BY <1>16 DEF WriteList
<1>17. CASE WriteAuth
  BY <1>17 DEF WriteAuth
<1>18. CASE ExportKey
  <2>1. \/ Goto("update")
        \/ Failed
    BY <1>18 DEF ExportKey
  <2>2. QED
    BY <2>1, GotoTypes, FailedTypes DEF Steps, Setup, Remove
<1>19. CASE FetchIndexes
  <2>1. \/ Goto("install")
        \/ Goto("end")
        \/ CallRemove("fail", FALSE)
    BY <1>19 DEF FetchIndexes
  <2>2. QED
    BY <2>1, GotoTypes, RemoveTypes DEF Steps, Setup, Remove
<1>20. CASE InstallPackages
  <2>1. \/ Goto("end")
        \/ CallRemove("fail", TRUE)
    BY <1>20 DEF InstallPackages
  <2>2. QED
    BY <2>1, GotoTypes, RemoveTypes DEF Steps, Setup, Remove
<1>21. CASE RemoveList
  BY <1>21 DEF RemoveList
<1>22. CASE RemoveKey
  BY <1>22 DEF RemoveKey
<1>23. CASE RemoveAuth
  BY <1>23 DEF RemoveAuth
<1>24. CASE RemoveIndexes
  BY <1>24 DEF RemoveIndexes
<1>25. CASE RemovePref
  <2>1. \/ Goto("rm_update")
        \/ Return
    BY <1>25 DEF RemovePref
  <2>2. QED
    BY <2>1, GotoTypes, ReturnTypes DEF Steps, Setup, Remove
<1>26. CASE RefetchIndexes
  <2>1. \/ Return
        \/ Failed
    BY <1>26 DEF RefetchIndexes
  <2>2. QED
    BY <2>1, ReturnTypes, FailedTypes DEF Steps, Setup, Remove
<1>27. CASE End
  BY <1>27 DEF End, Exit, Status
<1>28. CASE Crash
  BY <1>28 DEF Crash, Exit
<1>29. CASE ConfigureEsm
  BY <1>29 DEF ConfigureEsm, Record
<1>30. CASE UNCHANGED vars
  BY <1>30 DEF vars
<1>31. QED
  BY <1>1, <1>2, <1>3, <1>4, <1>5, <1>6, <1>7, <1>8, <1>9, <1>10, <1>11,
    <1>12, <1>13, <1>14, <1>15, <1>16, <1>17, <1>18, <1>19, <1>20, <1>21,
    <1>22, <1>23, <1>24, <1>25, <1>26, <1>27, <1>28, <1>29, <1>30 DEF Next,
    Delta, SetupAptConfig, RemoveAptConfig

(* Every step keeps the types of the files and of the contract.            *)
LEMMA StepFileTypes ==
  ASSUME FileTypes, Shape, [Next]_vars
  PROVE  FileTypes'
<1>. USE RepoAssumption DEF contract, memory, control, Goto,
       Transition, FileTypes, Breaches
<1>1. CASE Enable
  BY <1>1 DEF Enable, Begin, CanEnable, Applied
<1>2. CASE Disable
  BY <1>2 DEF Disable, Begin, FirstRemoval, Applied
<1>3. CASE Detach
  BY <1>3 DEF Detach, Begin, FirstRemoval, Applied
<1>4. CASE Forget
  BY <1>4 DEF Forget, Exit
<1>5. CASE UpdateContract
  BY <1>5 DEF UpdateContract, Begin
<1>6. CASE SaveStatus
  BY <1>6 DEF SaveStatus, Status
<1>7. CASE DeltaUnentitled
  BY <1>7 DEF DeltaUnentitled, CallRemove, Failed, Exit, Record, Leaves,
    DeltaStatus, Applied, UrlChanged
<1>8. CASE DeltaDefault
  BY <1>8 DEF DeltaDefault, Record, Leaves, CanEnable, Applied
<1>9. CASE DeltaDirectives
  <2>1. UNCHANGED <<pin, contract, source, auth, key, indexes, pref, cache>>
    BY <1>9 DEF DeltaDirectives
  <2>2. breach' \in {breach, breach \union {"missed"}, breach \union {"stale"}}
    BY <1>9 DEF DeltaDirectives, Record
  <2>3. QED
    BY <2>1, <2>2
<1>10. CASE RewriteList
  BY <1>10 DEF RewriteList
<1>11. CASE RewriteAuth
  BY <1>11 DEF RewriteAuth, CallRemove, Failed, Exit
<1>12. CASE GetToken
  BY <1>12 DEF GetToken, Failed, Exit
<1>13. CASE SetPin
  BY <1>13 DEF SetPin
<1>14. CASE InstallPrerequisites
  BY <1>14 DEF InstallPrerequisites, CallRemove, Failed, Exit
<1>15. CASE CheckCredentials
  BY <1>15 DEF CheckCredentials, Failed, Exit, Record
<1>16. CASE WriteList
  BY <1>16 DEF WriteList
<1>17. CASE WriteAuth
  BY <1>17 DEF WriteAuth, Shape
<1>18. CASE ExportKey
  BY <1>18 DEF ExportKey, Failed, Exit, Record
<1>19. CASE FetchIndexes
  BY <1>19 DEF FetchIndexes, CallRemove, Failed, Exit, Fetched
<1>20. CASE InstallPackages
  BY <1>20 DEF InstallPackages, CallRemove, Failed, Exit
<1>21. CASE RemoveList \/ RemoveKey \/ RemoveAuth \/ RemoveIndexes
  BY <1>21 DEF RemoveList, RemoveKey, RemoveAuth, RemoveIndexes
<1>22. CASE RemovePref
  BY <1>22 DEF RemovePref, Return, Failed, Exit
<1>23. CASE RefetchIndexes
  BY <1>23 DEF RefetchIndexes, Return, Failed, Exit, Fetched
<1>24. CASE End
  BY <1>24 DEF End, Exit, Status
<1>25. CASE Crash
  BY <1>25 DEF Crash, Exit
<1>26. CASE ConfigureEsm
  BY <1>26 DEF ConfigureEsm, Record
<1>27. CASE UNCHANGED vars
  BY <1>27 DEF vars
<1>28. QED
  BY <1>1, <1>2, <1>3, <1>4, <1>5, <1>6, <1>7, <1>8, <1>9, <1>10, <1>11,
    <1>12, <1>13, <1>14, <1>15, <1>16, <1>17, <1>18, <1>19, <1>20, <1>21,
    <1>22, <1>23, <1>24, <1>25, <1>26, <1>27 DEF Next, Delta, SetupAptConfig,
    RemoveAptConfig

(* What the control state says of the contract and the pin stays true.     *)
LEMMA StepShape ==
  ASSUME TypeOK, Shape, [Next]_vars
  PROVE  Shape'
<1>. USE RepoAssumption DEF contract, memory, control, Goto,
       Transition, TypeOK, Shape, Ops
<1>1. CASE Enable
  BY <1>1 DEF Enable, Begin, CanEnable, Applied
<1>2. CASE Disable
  BY <1>2 DEF Disable, Begin, FirstRemoval, Applied
<1>3. CASE Detach
  BY <1>3 DEF Detach, Begin, FirstRemoval, Applied
<1>4. CASE Forget
  BY <1>4 DEF Forget, Exit
<1>5. CASE UpdateContract
  BY <1>5 DEF UpdateContract, Begin
<1>6. CASE SaveStatus
  BY <1>6 DEF SaveStatus, Status
<1>7. CASE DeltaUnentitled
  BY <1>7 DEF DeltaUnentitled, CallRemove, Failed, Exit, Record, Leaves,
    DeltaStatus, Applied, UrlChanged
<1>8. CASE DeltaDefault
  BY <1>8 DEF DeltaDefault, Record, Leaves, CanEnable, Applied
<1>9. CASE DeltaDirectives
  BY <1>9 DEF DeltaDirectives, CallRemove, Failed, Exit, Record, Leaves,
    DeltaStatus, Applied, UrlChanged
<1>10. CASE RewriteList
  BY <1>10 DEF RewriteList
<1>11. CASE RewriteAuth
  BY <1>11 DEF RewriteAuth, CallRemove, Failed, Exit
<1>12. CASE GetToken
  BY <1>12 DEF GetToken, Failed, Exit
<1>13. CASE SetPin
  BY <1>13 DEF SetPin
<1>14. CASE InstallPrerequisites
  BY <1>14 DEF InstallPrerequisites, CallRemove, Failed, Exit
<1>15. CASE CheckCredentials
  BY <1>15 DEF CheckCredentials, Failed, Exit, Record
<1>16. CASE WriteList
  BY <1>16 DEF WriteList
<1>17. CASE WriteAuth
  BY <1>17 DEF WriteAuth
<1>18. CASE ExportKey
  BY <1>18 DEF ExportKey, Failed, Exit, Record
<1>19. CASE FetchIndexes
  BY <1>19 DEF FetchIndexes, CallRemove, Failed, Exit, Fetched
<1>20. CASE InstallPackages
  BY <1>20 DEF InstallPackages, CallRemove, Failed, Exit
<1>21. CASE RemoveList \/ RemoveKey \/ RemoveAuth \/ RemoveIndexes
  BY <1>21 DEF RemoveList, RemoveKey, RemoveAuth, RemoveIndexes
<1>22. CASE RemovePref
  BY <1>22 DEF RemovePref, Return, Failed, Exit
<1>23. CASE RefetchIndexes
  BY <1>23 DEF RefetchIndexes, Return, Failed, Exit, Fetched
<1>24. CASE End
  BY <1>24 DEF End, Exit, Status
<1>25. CASE Crash
  BY <1>25 DEF Crash, Exit
<1>26. CASE ConfigureEsm
  BY <1>26 DEF ConfigureEsm, Record
<1>27. CASE UNCHANGED vars
  BY <1>27 DEF vars
<1>28. QED
  BY <1>1, <1>2, <1>3, <1>4, <1>5, <1>6, <1>7, <1>8, <1>9, <1>10, <1>11,
    <1>12, <1>13, <1>14, <1>15, <1>16, <1>17, <1>18, <1>19, <1>20, <1>21,
    <1>22, <1>23, <1>24, <1>25, <1>26, <1>27 DEF Next, Delta, SetupAptConfig,
    RemoveAptConfig

(* Each step of setup_apt_config adds what is its own and keeps the rest.  *)
LEMMA StepWritten ==
  ASSUME TypeOK, Shape, Written, [Next]_vars
  PROVE  Written'
<1>. USE RepoAssumption DEF contract, memory, control, Goto,
       Transition, TypeOK, Shape, Written, PinSet
<1>1. CASE Enable
  BY <1>1 DEF Enable, Begin, CanEnable, Applied
<1>2. CASE Disable
  BY <1>2 DEF Disable, Begin, FirstRemoval, Applied
<1>3. CASE Detach
  BY <1>3 DEF Detach, Begin, FirstRemoval, Applied
<1>4. CASE Forget
  BY <1>4 DEF Forget, Exit
<1>5. CASE UpdateContract
  BY <1>5 DEF UpdateContract, Begin
<1>6. CASE SaveStatus
  BY <1>6 DEF SaveStatus, Status
<1>7. CASE DeltaUnentitled
  BY <1>7 DEF DeltaUnentitled, CallRemove, Failed, Exit, Record, Leaves,
    DeltaStatus, Applied, UrlChanged
<1>8. CASE DeltaDefault
  BY <1>8 DEF DeltaDefault, Record, Leaves, CanEnable, Applied
<1>9. CASE DeltaDirectives
  BY <1>9 DEF DeltaDirectives, CallRemove, Failed, Exit, Record, Leaves,
    DeltaStatus, Applied, UrlChanged
<1>10. CASE RewriteList
  BY <1>10 DEF RewriteList
<1>11. CASE RewriteAuth
  BY <1>11 DEF RewriteAuth, CallRemove, Failed, Exit
<1>12. CASE GetToken
  BY <1>12 DEF GetToken, Failed, Exit
<1>13. CASE SetPin
  BY <1>13 DEF SetPin
<1>14. CASE InstallPrerequisites
  BY <1>14 DEF InstallPrerequisites, CallRemove, Failed, Exit
<1>15. CASE CheckCredentials
  BY <1>15 DEF CheckCredentials, Failed, Exit, Record
<1>16. CASE WriteList
  BY <1>16 DEF WriteList
<1>17. CASE WriteAuth
  BY <1>17 DEF WriteAuth
<1>18. CASE ExportKey
  BY <1>18 DEF ExportKey, Failed, Exit, Record
<1>19. CASE FetchIndexes
  BY <1>19 DEF FetchIndexes, CallRemove, Failed, Exit, Fetched
<1>20. CASE InstallPackages
  BY <1>20 DEF InstallPackages, CallRemove, Failed, Exit
<1>21. CASE RemoveList \/ RemoveKey \/ RemoveAuth \/ RemoveIndexes
  BY <1>21 DEF RemoveList, RemoveKey, RemoveAuth, RemoveIndexes
<1>22. CASE RemovePref
  BY <1>22 DEF RemovePref, Return, Failed, Exit
<1>23. CASE RefetchIndexes
  BY <1>23 DEF RefetchIndexes, Return, Failed, Exit, Fetched
<1>24. CASE End
  BY <1>24 DEF End, Exit, Status
<1>25. CASE Crash
  BY <1>25 DEF Crash, Exit
<1>26. CASE ConfigureEsm
  BY <1>26 DEF ConfigureEsm, Record
<1>27. CASE UNCHANGED vars
  BY <1>27 DEF vars
<1>28. QED
  BY <1>1, <1>2, <1>3, <1>4, <1>5, <1>6, <1>7, <1>8, <1>9, <1>10, <1>11,
    <1>12, <1>13, <1>14, <1>15, <1>16, <1>17, <1>18, <1>19, <1>20, <1>21,
    <1>22, <1>23, <1>24, <1>25, <1>26, <1>27 DEF Next, Delta, SetupAptConfig,
    RemoveAptConfig

(* Off, on, and what lies between, as long as nothing is breached.         *)
LEMMA StepConsistent ==
  ASSUME TypeOK, Shape, Written, breach = {} => Consistent, [Next]_vars,
         breach' = {}
  PROVE  Consistent'
<1>. USE RepoAssumption DEF contract, memory, control, Goto,
       Transition, TypeOK, Shape, Consistent, AtRest, SettingUp, Removing,
       Refreshing, Off, On, WasOn, Applied, Setup, Remove
<1>1. CASE Enable
  BY <1>1 DEF Enable, Begin, CanEnable
<1>2. CASE Disable
  BY <1>2 DEF Disable, Begin, FirstRemoval
<1>3. CASE Detach
  BY <1>3 DEF Detach, Begin, FirstRemoval
<1>4. CASE Forget
  BY <1>4 DEF Forget, Exit
<1>5. CASE UpdateContract
  BY <1>5 DEF UpdateContract, Begin
<1>6. CASE SaveStatus
  BY <1>6 DEF SaveStatus, Status
<1>7. CASE DeltaUnentitled
  BY <1>7 DEF DeltaUnentitled, CallRemove, Failed, Exit, Record, Leaves,
    DeltaStatus, UrlChanged
<1>8. CASE DeltaDefault
  BY <1>8 DEF DeltaDefault, Record, Leaves, CanEnable
<1>9. CASE DeltaDirectives
  BY <1>9 DEF DeltaDirectives, CallRemove, Failed, Exit, Record, Leaves,
    DeltaStatus, UrlChanged
<1>10. CASE RewriteList
  BY <1>10 DEF RewriteList
<1>11. CASE RewriteAuth
  BY <1>11 DEF RewriteAuth, CallRemove, Failed, Exit
<1>12. CASE GetToken
  BY <1>12 DEF GetToken, Failed, Exit
<1>13. CASE SetPin
  BY <1>13 DEF SetPin
<1>14. CASE InstallPrerequisites
  BY <1>14 DEF InstallPrerequisites, CallRemove, Failed, Exit
<1>15. CASE CheckCredentials
  BY <1>15 DEF CheckCredentials, Failed, Exit, Record
<1>16. CASE WriteList
  BY <1>16 DEF WriteList
<1>17. CASE WriteAuth
  BY <1>17 DEF WriteAuth
<1>18. CASE ExportKey
  BY <1>18 DEF ExportKey, Failed, Exit, Record
<1>19. CASE FetchIndexes
  <2>1. entitled /\ url # NoUrl /\ auth = {url} /\ source = url /\ pref # "never"
    BY <1>19 DEF FetchIndexes, Written, PinSet
  <2>2. op = "refresh" => was
    BY <1>19 DEF FetchIndexes
  <2>3. CASE indexes' = Fetched /\ (Goto("install") \/ Goto("end"))
    BY <1>19, <2>1, <2>2, <2>3 DEF FetchIndexes, Fetched
  <2>4. CASE CallRemove("fail", FALSE) /\ UNCHANGED indexes
    BY <1>19, <2>1, <2>2, <2>4 DEF FetchIndexes, CallRemove
  <2>5. QED
    BY <1>19, <2>3, <2>4 DEF FetchIndexes
<1>20. CASE InstallPackages
  BY <1>20 DEF InstallPackages, CallRemove, Failed, Exit
<1>21. CASE RemoveList
  BY <1>21 DEF RemoveList
<1>22. CASE RemoveKey
  BY <1>22 DEF RemoveKey
<1>23. CASE RemoveAuth
  BY <1>23 DEF RemoveAuth
<1>24. CASE RemoveIndexes
  BY <1>24 DEF RemoveIndexes
<1>25. CASE RemovePref
  BY <1>25 DEF RemovePref, Return, Failed, Exit
<1>26. CASE RefetchIndexes
  BY <1>26 DEF RefetchIndexes, Return, Failed, Exit, Fetched
<1>27. CASE End
  BY <1>27 DEF End, Exit, Status
<1>28. CASE Crash
  BY <1>28 DEF Crash, Exit
<1>29. CASE ConfigureEsm
  BY <1>29 DEF ConfigureEsm, Record
<1>30. CASE UNCHANGED vars
  BY <1>30 DEF vars
<1>31. QED
  BY <1>1, <1>2, <1>3, <1>4, <1>5, <1>6, <1>7, <1>8, <1>9, <1>10, <1>11,
    <1>12, <1>13, <1>14, <1>15, <1>16, <1>17, <1>18, <1>19, <1>20, <1>21,
    <1>22, <1>23, <1>24, <1>25, <1>26, <1>27, <1>28, <1>29, <1>30 DEF Next,
    Delta, SetupAptConfig, RemoveAptConfig

-----------------------------------------------------------------------------
(* The service is off at the start.                                        *)
LEMMA InitInv == Init => RepoInv
<1> SUFFICES ASSUME Init PROVE RepoInv
  OBVIOUS
<1>1. TypeOK
  BY RepoAssumption DEF Init, TypeOK, Ops, Steps, Breaches, Fetched
<1>2. Shape /\ Written
  BY RepoAssumption DEF Init, Shape, Written
<1>3. Consistent
  BY RepoAssumption DEF Init, Consistent, AtRest, SettingUp, Removing, Refreshing,
     Off, Setup, Remove
<1>4. QED
  BY <1>1, <1>2, <1>3 DEF RepoInv

(* Every step keeps the invariant.                                         *)
LEMMA NextInv == RepoInv /\ [Next]_vars => RepoInv'
<1> SUFFICES ASSUME RepoInv, [Next]_vars PROVE RepoInv'
  OBVIOUS
<1>1. TypeOK'
  <2>1. ControlTypes /\ FileTypes /\ Shape
    BY TypeSplit DEF RepoInv
  <2>2. ControlTypes' /\ FileTypes'
    BY <2>1, StepControlTypes, StepFileTypes
  <2>3. QED
    BY <2>2 DEF TypeOK, ControlTypes, FileTypes
<1>2. Shape' /\ Written'
  BY StepShape, StepWritten DEF RepoInv
<1>3. breach' = {} => Consistent'
  BY StepConsistent DEF RepoInv
<1>4. QED
  BY <1>1, <1>2, <1>3 DEF RepoInv

-----------------------------------------------------------------------------
(* The inductive invariant holds in every reachable state, for every set   *)
(* of urls, every kind of service and all faults.                          *)
THEOREM InvariantHolds == Spec => []RepoInv
BY InitInv, NextInv, PTL DEF Spec

(* The variables keep their types: no step of enable or disable writes a   *)
(* source or credentials for a service without an aptURL directive.        *)
THEOREM TypeCorrect == Spec => []TypeOK
BY InvariantHolds, PTL DEF RepoInv

(* Between commands there are credentials exactly while the service is on: *)
(* each failure that setup_apt_config cleans up after is cleaned up.       *)
THEOREM CredentialsFollow == Spec => []CredentialsWhenEnabled
<1>1. RepoInv => CredentialsWhenEnabled
  BY DEF RepoInv, CredentialsWhenEnabled, Consistent, AtRest, Off, On, Applied
<1>2. QED
  BY <1>1, InvariantHolds, PTL

(* An unauthenticated ESM source is pinned off, up to a breach (esm.py 84).*)
THEOREM PinKept == Spec => []PinnedUnlessBreached
<1>1. RepoInv => PinnedUnlessBreached
  BY DEF RepoInv, PinnedUnlessBreached, NeverPinned, Consistent, AtRest, Off, On
<1>2. QED
  BY <1>1, InvariantHolds, PTL

(* No service is active between commands that the contract does not cover. *)
THEOREM UnentitledOff == Spec => []UnentitledInactive
<1>1. RepoInv => UnentitledInactive
  BY DEF RepoInv, UnentitledInactive, Consistent, AtRest, Off, On, Applied
<1>2. QED
  BY <1>1, InvariantHolds, PTL

(* Three steps touch the credentials file.                                 *)
LEMMA CredentialSteps ==
  [Next]_vars => auth' = auth \/ WriteAuth \/ RewriteAuth \/ RemoveAuth
BY DEF Next, vars, contract, control, memory, Delta, SetupAptConfig,
   RemoveAptConfig, Begin, Transition, Enable, Disable, Detach, Forget,
   UpdateContract, SaveStatus, DeltaUnentitled, DeltaDefault,
   DeltaDirectives, RewriteList, GetToken, SetPin, InstallPrerequisites,
   CheckCredentials, WriteList, ExportKey, FetchIndexes, InstallPackages,
   RemoveList, RemoveKey, RemoveIndexes, RemovePref, RefetchIndexes, End,
   Crash, ConfigureEsm

(* A refresh of a disabled service adds no credentials (base.py 393).      *)
THEOREM RefreshEnablesNothing == Spec => RefreshNeverEnables
<1>1. RepoInv /\ [Next]_vars =>
        [breach = {} /\ op = "refresh" /\ pc # "idle" /\ ~was => auth' = {}]_vars
  <2> SUFFICES ASSUME RepoInv, [Next]_vars, breach = {}, op = "refresh", ~was,
                      pc # "idle"
               PROVE  auth' = {}
    BY DEF vars
  <2>1. auth = {} /\ pc \in {"delta", "end"}
    BY DEF RepoInv, Consistent, Refreshing
  <2>2. auth' = auth
    BY <2>1, CredentialSteps DEF WriteAuth, RewriteAuth, RemoveAuth, Transition
  <2>3. QED
    BY <2>1, <2>2
<1>2. QED
  BY <1>1, InvariantHolds, PTL DEF Spec, RefreshNeverEnables

(* An enable that gets past `apt-get update` has configured the service,   *)
(* whatever earlier failures and crashes left behind.                      *)
THEOREM EnableComplete == Spec => EnableConfigures
<1>1. RepoInv => (pc = "update" /\ "upgrade" \notin breach =>
        source = url /\ url \in auth /\ key
          /\ (pin # "none" => pref = IF pin = "never" THEN "absent" ELSE "priority"))
  BY DEF RepoInv, Written, PinSet
<1>2. QED
  BY <1>1, InvariantHolds, PTL DEF EnableConfigures

=============================================================================
