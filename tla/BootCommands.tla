---------------------------- MODULE BootCommands ----------------------------
(***************************************************************************)
(* What `ua` does as a machine boots: auto-attach on an Ubuntu Pro image   *)
(* (uaclient/cli.py, ua-auto-attach.service) and, after it, the commands   *)
(* a package or release upgrade left for the boot (lib/reboot_cmds.py,     *)
(* lib/upgrade_lts_contract.py, ua-reboot-cmds.service), with what the     *)
(* package's postinst, other commands, power failures and the cloning of   *)
(* the machine's disk do to their files.                                   *)
(*                                                                         *)
(* External: systemd (the order of the two units, the condition on the     *)
(* marker), cloud-init's instance id, /etc/machine-id, and the contract    *)
(* server, which registers the machine id a request carries and removes    *)
(* the one that a DELETE carries.  The test and the writing of the lock    *)
(* are one step here, LockFile has them apart; the services are one bit    *)
(* of work.                                                                *)
(***************************************************************************)
EXTENDS Naturals

CONSTANTS
  Retries,      (* the length of SLEEP_RETRIES_ON_LOCK_HELD                *)
  MaxUpgrades   (* bound: package upgrades that leave work for the boot    *)

ASSUME BootAssumption == Retries \in Nat /\ MaxUpgrades \in Nat

(* Instance ids and machine ids: 1 is the first machine's, 2 its clone's.  *)
Ids == {1, 2}
NoId == 0

VARIABLES
  image,      (* "pro": auto-attach runs at boot, or "plain"               *)
  iid, mid,   (* this machine's instance id and machine id                 *)
  savedIid, savedMid,   (* the files instance-id and machine-id, or NoId   *)
  token,      (* the machine id the machine token was issued to, or NoId   *)
  registered, (* the machine ids the server has as attached                *)
  marker,     (* marker-reboot-cmds-required is there                      *)
  notices,    (* "livepatch" (MESSAGE_LIVEPATCH_LTS_REBOOT_REQUIRED),      *)
              (* "fips" (MESSAGE_FIPS_REBOOT_REQUIRED), "failed"           *)
              (* (MESSAGE_REBOOT_SCRIPT_FAILED)                            *)
  fipsCached, (* the status cache has FIPS as enabled                      *)
  lock,       (* "free", "boot": a boot command's, "other": another        *)
              (* command's, "stale": a dead process's                      *)
  pc,         (* the step of the boot; "up" when it is over, "off"         *)
  tries,      (* what is left of SLEEP_RETRIES_ON_LOCK_HELD                *)
  upgrading,  (* the notice postinst has still to add, or "none"           *)
  (* history *)
  upgrades,   (* package upgrades so far                                   *)
  due,        (* the work left for the boot and not done                   *)
  breaches    (* how some of it was given up                               *)

identity == <<image, iid, mid, savedIid, savedMid, token, registered>>
work == <<marker, notices, fipsCached, upgrading, upgrades, due, breaches>>
vars == <<identity, work, lock, pc, tries>>

AutoAttachSteps == {"aa", "aa_id", "aa_report", "aa_forget", "aa_token", "aa_attach"}
RebootSteps == {"rc", "rc_holds", "rc_refresh", "rc_deltas", "rc_unmark", "rc_tell"}
Pcs == {"off", "up"} \union AutoAttachSteps \union RebootSteps

(* gaveup: a step failed and the marker was removed all the same.  raced:  *)
(* the marker that was removed was a later upgrade's.  skipped: the status *)
(* cache did not have FIPS as enabled.  held: the holds could not be       *)
(* removed, which is logged and passed over.                               *)
Breaches == {"gaveup", "raced", "skipped", "held"}

Attached == token # NoId
Goto(l) == pc' = l /\ UNCHANGED tries
Locked(l) == lock' = "boot" /\ Goto(l)
Unlocked(l) == lock' = "free" /\ Goto(l)

(* systemd starts ua-reboot-cmds after auto-attach, if the marker is there.*)
AfterAutoAttach == IF marker THEN "rc" ELSE "up"

Init ==
  /\ image \in {"pro", "plain"}
  /\ iid = 1 /\ mid = 1 /\ savedIid = NoId /\ savedMid = NoId
  /\ token = NoId /\ registered = {}
  /\ marker = FALSE /\ notices = {} /\ fipsCached \in BOOLEAN
  /\ lock = "free" /\ pc = "off" /\ tries = Retries
  /\ upgrading = "none" /\ upgrades = 0 /\ due = {} /\ breaches = {}

-----------------------------------------------------------------------------
(* Boot and power *)

Boot ==
  /\ pc = "off"
  /\ pc' = IF image = "pro" THEN "aa" ELSE AfterAutoAttach
  /\ tries' = Retries
  /\ UNCHANGED <<identity, work, lock>>

PowerOff ==
  /\ pc # "off" /\ pc' = "off" /\ tries' = Retries
  /\ lock' = IF lock = "free" THEN "free" ELSE "stale"
  /\ upgrading' = "none"
  /\ UNCHANGED <<identity, marker, notices, fipsCached, upgrades, due, breaches>>

(* The disk is copied to a new instance; what is booted from now on is the *)
(* copy.  Its machine id is new only if the image was prepared for that.   *)
Clone ==
  /\ pc = "off" /\ iid = 1
  /\ iid' = 2 /\ mid' \in {mid, 2}
  /\ UNCHANGED <<image, savedIid, savedMid, token, registered, work, lock, pc, tries>>

-----------------------------------------------------------------------------
(* action_auto_attach *)

(* LockHeldError; the unit fails and boot goes on.                         *)
AutoAttachLocked ==
  /\ pc = "aa" /\ lock = "other"
  /\ Goto(AfterAutoAttach)
  /\ UNCHANGED <<identity, work, lock>>

AutoAttachStart ==
  /\ pc = "aa" /\ lock # "other"
  /\ Locked("aa_id")
  /\ UNCHANGED <<identity, work>>

(* cloud_instance_factory finds no cloud it knows, or not the hardware of  *)
(* one: an attached machine keeps its attachment.                          *)
CloudRefused ==
  /\ pc = "aa_id"
  /\ Unlocked(AfterAutoAttach)
  /\ UNCHANGED <<identity, work>>

(* Mutant: the instance id is saved as soon as it is known.                *)
CompareIdsSaved ==
  /\ pc = "aa_id"
  /\ IF Attached /\ savedIid = iid THEN Unlocked(AfterAutoAttach)
     ELSE Goto(IF Attached THEN "aa_report" ELSE "aa_token") /\ UNCHANGED lock
  /\ savedIid' = iid
  /\ UNCHANGED <<image, iid, mid, savedMid, token, registered, work>>

(* _get_contract_token_from_cloud_identity: an attached machine keeps its  *)
(* attachment when the cached instance id is this instance's.              *)
CompareIds ==
  /\ pc = "aa_id"
  /\ IF Attached /\ savedIid = iid THEN Unlocked(AfterAutoAttach)
     ELSE Goto(IF Attached THEN "aa_report" ELSE "aa_token") /\ UNCHANGED lock
  /\ UNCHANGED <<identity, work>>

(* A DELETE names this machine and carries the token: which of the two the *)
(* server goes by is its own business.                                     *)
Deleted == {registered \ {m} : m \in {mid, token}}

(* Mutant: the server is always told.                                      *)
TellServerAlways == registered' \in Deleted

(* detach_machine_from_contract: the server is told only when the cached   *)
(* machine id is this machine's.                                           *)
TellServer == registered' \in IF savedMid = mid THEN Deleted ELSE {registered}

(* UAConfig.delete_cache, the lock included.  A machine without a contract *)
(* has nothing left to apply.                                              *)
Forget ==
  /\ token' = NoId /\ savedIid' = NoId /\ savedMid' = NoId
  /\ marker' = FALSE /\ notices' = {} /\ fipsCached' = FALSE
  /\ due' = {} /\ breaches' = {} /\ lock' = "free"
  /\ UNCHANGED <<image, iid, mid, upgrading, upgrades>>

(* The re-attach of an instance that is not the one attached: _detach,     *)
(* which fails without an answer from the server.                          *)
ReportDetach ==
  /\ pc = "aa_report"
  /\ TellServer /\ Goto("aa_forget")
  /\ UNCHANGED <<image, iid, mid, savedIid, savedMid, token, work, lock>>

ReportFails ==
  /\ pc = "aa_report" /\ savedMid = mid
  /\ Unlocked(AfterAutoAttach)
  /\ registered' \in {registered} \union Deleted
  /\ UNCHANGED <<image, iid, mid, savedIid, savedMid, token, work>>

ForgetContract ==
  /\ pc = "aa_forget"
  /\ Forget /\ Goto("aa_token") /\ UNCHANGED registered

(* A contract token for the instance's identity document, which a cloud or *)
(* the server may refuse.                                                  *)
RequestToken ==
  /\ pc = "aa_token"
  /\ \/ savedIid' = iid /\ Goto("aa_attach") /\ UNCHANGED lock
     \/ Unlocked(AfterAutoAttach) /\ UNCHANGED savedIid
  /\ UNCHANGED <<image, iid, mid, savedMid, token, registered, work>>

(* request_contract_machine_attach; the answer may be lost.                *)
AttachMachine ==
  /\ pc = "aa_attach"
  /\ \/ registered' = registered \union {mid} /\ token' = mid
     \/ registered' \in {registered, registered \union {mid}} /\ token' = token
  /\ fipsCached' \in BOOLEAN
  /\ Unlocked(AfterAutoAttach)
  /\ UNCHANGED <<image, iid, mid, savedIid, savedMid>>
  /\ UNCHANGED <<marker, notices, upgrading, upgrades, due, breaches>>

-----------------------------------------------------------------------------
(* reboot_cmds.py *)

(* Mutant: a pop from the list without a look at its length.               *)
RetryLockUnchecked ==
  /\ pc = "rc" /\ lock = "other"
  /\ IF tries >= 0 THEN tries' = tries - 1 /\ pc' = "rc"
     ELSE tries' = tries /\ pc' = "up"
  /\ UNCHANGED <<identity, work, lock>>

(* Mutant: the list is not shortened.                                      *)
RetryLockAgain ==
  /\ pc = "rc" /\ lock = "other"
  /\ tries' = tries /\ pc' = IF tries > 0 THEN "rc" ELSE "up"
  /\ UNCHANGED <<identity, work, lock>>

(* The lock is held: sleep and try again while the list lasts.             *)
RetryLock ==
  /\ pc = "rc" /\ lock = "other"
  /\ IF tries > 0 THEN tries' = tries - 1 /\ pc' = "rc"
     ELSE tries' = tries /\ pc' = "up"
  /\ UNCHANGED <<identity, work, lock>>

(* Unattached, the marker is removed; without the marker nothing is done.  *)
StartReboot ==
  /\ pc = "rc" /\ lock # "other"
  /\ IF Attached /\ marker THEN Locked("rc_holds") /\ UNCHANGED marker
     ELSE Unlocked("up") /\ marker' = FALSE
  /\ UNCHANGED <<identity, notices, fipsCached, upgrading, upgrades, due, breaches>>

(* sys.exit(1): neither the handler of Exception nor the release of the    *)
(* lock is reached.                                                        *)
ExitProcess == lock' = "stale" /\ Goto("up")

(* fix_pro_pkg_holds, for FIPS enabled according to the status cache.      *)
FixHolds ==
  /\ pc = "rc_holds" /\ fipsCached
  /\ due' = due \ {"fips"} /\ notices' = notices \ {"fips"}
  /\ Goto("rc_refresh")
  /\ UNCHANGED <<identity, lock, marker, fipsCached, upgrading, upgrades, breaches>>

(* setup_apt_config raises, which is swallowed; with nothing to install    *)
(* the notice goes as if the holds were gone.                              *)
HoldsStay ==
  /\ pc = "rc_holds" /\ fipsCached
  /\ notices' = notices \ {"fips"}
  /\ breaches' = IF "fips" \in due THEN breaches \union {"held"} ELSE breaches
  /\ Goto("rc_refresh")
  /\ UNCHANGED <<identity, lock, marker, fipsCached, upgrading, upgrades, due>>

(* apt-get install fails, a hold that stayed being one reason.             *)
FixHoldsFails ==
  /\ pc = "rc_holds" /\ fipsCached
  /\ ExitProcess
  /\ UNCHANGED <<identity, work>>

NoHolds ==
  /\ pc = "rc_holds" /\ ~fipsCached
  /\ breaches' = IF "fips" \in due THEN breaches \union {"skipped"} ELSE breaches
  /\ Goto("rc_refresh")
  /\ UNCHANGED <<identity, lock, marker, notices, fipsCached, upgrading, upgrades, due>>

(* refresh_contract; the new token is this machine's.                      *)
RefreshContract ==
  /\ pc = "rc_refresh"
  /\ registered' = registered \union {mid} /\ token' = mid /\ savedMid' = mid
  /\ Goto("rc_deltas")
  /\ UNCHANGED <<image, iid, mid, savedIid, work, lock>>

(* Mutant: the marker is removed whatever happened.                        *)
RefreshFailsUnmarked ==
  /\ pc = "rc_refresh"
  /\ \/ ExitProcess /\ UNCHANGED notices
     \/ Unlocked("up") /\ notices' = notices \union {"failed"}
  /\ marker' = FALSE
  /\ UNCHANGED <<identity, fipsCached, upgrading, upgrades, due, breaches>>

(* A UrlError exits; what the deltas raise is caught, and told.            *)
RefreshFails ==
  /\ pc = "rc_refresh"
  /\ \/ ExitProcess /\ UNCHANGED notices
     \/ Unlocked("up") /\ notices' = notices \union {"failed"}
  /\ UNCHANGED <<identity, marker, fipsCached, upgrading, upgrades, due, breaches>>

(* process_remaining_deltas: upgrade_lts_contract.py as a process of its   *)
(* own, which waits for apt's lock.                                        *)
ProcessDeltas ==
  /\ pc = "rc_deltas"
  /\ due' = due \ {"livepatch"} /\ notices' = notices \ {"livepatch"}
  /\ Goto("rc_unmark")
  /\ UNCHANGED <<identity, lock, marker, fipsCached, upgrading, upgrades, breaches>>

(* run_command removes the marker before it exits.                         *)
DeltasFail ==
  /\ pc = "rc_deltas"
  /\ marker' = FALSE
  /\ breaches' = IF due = {} THEN breaches ELSE breaches \union {"gaveup"}
  /\ ExitProcess
  /\ UNCHANGED <<identity, notices, fipsCached, upgrading, upgrades, due>>

(* The marker, if it is there, is removed, whoever put it there.           *)
Unmark ==
  /\ pc = "rc_unmark"
  /\ marker' = FALSE
  /\ breaches' = IF due = {} \/ breaches \intersect {"skipped", "held"} # {}
                 THEN breaches ELSE breaches \union {"raced"}
  /\ Goto("rc_tell")
  /\ UNCHANGED <<identity, lock, notices, fipsCached, upgrading, upgrades, due>>

TellDone ==
  /\ pc = "rc_tell"
  /\ notices' = notices \ {"failed"}
  /\ Unlocked("up")
  /\ UNCHANGED <<identity, marker, fipsCached, upgrading, upgrades, due, breaches>>

-----------------------------------------------------------------------------
(* The package and other commands *)

(* postinst, without the lock: mark_reboot_cmds_as_needed for held FIPS    *)
(* packages, or for a release upgrade (before a reboot); then the notice.  *)
MarkReboot ==
  /\ pc # "off" /\ upgrading = "none" /\ upgrades < MaxUpgrades
  /\ marker' = TRUE /\ upgrades' = upgrades + 1
  /\ \E w \in {"fips", "livepatch"} :
       /\ w = "livepatch" => pc = "up"
       /\ upgrading' = w
       /\ due' = IF Attached THEN due \union {w} ELSE due
  /\ breaches' = IF due = {} THEN {} ELSE breaches
  /\ UNCHANGED <<identity, lock, pc, tries, notices, fipsCached>>

AddNotice ==
  /\ upgrading # "none"
  /\ notices' = notices \union {upgrading} /\ upgrading' = "none"
  /\ UNCHANGED <<identity, lock, pc, tries, marker, fipsCached, upgrades, due, breaches>>

(* Another command: it holds the lock for a while and is done or killed.   *)
TakeLock ==
  /\ lock \in {"free", "stale"} /\ lock' = "other"
  /\ pc # "off"
  /\ UNCHANGED <<identity, work, pc, tries>>

ReleaseLock ==
  /\ lock = "other" /\ lock' \in {"free", "stale"}
  /\ UNCHANGED <<identity, work, pc, tries>>

(* ua attach, refresh and detach, once the boot is over.                   *)
UserAttach ==
  /\ pc = "up" /\ lock = "other" /\ ~Attached
  /\ token' = mid /\ registered' = registered \union {mid}
  /\ fipsCached' \in BOOLEAN
  /\ UNCHANGED <<image, iid, mid, savedIid, savedMid, lock, pc, tries>>
  /\ UNCHANGED <<marker, notices, upgrading, upgrades, due, breaches>>

UserRefresh ==
  /\ pc = "up" /\ lock = "other" /\ Attached
  /\ token' = mid /\ savedMid' = mid /\ registered' = registered \union {mid}
  /\ UNCHANGED <<image, iid, mid, savedIid, work, lock, pc, tries>>

UserDetach ==
  /\ pc = "up" /\ lock = "other" /\ Attached
  /\ TellServer /\ Forget
  /\ UNCHANGED <<pc, tries>>

AutoAttach ==
  \/ AutoAttachLocked \/ AutoAttachStart \/ CloudRefused \/ CompareIds
  \/ ReportDetach
  \/ ReportFails \/ ForgetContract \/ RequestToken \/ AttachMachine

RebootCmds ==
  \/ RetryLock \/ StartReboot \/ FixHolds \/ HoldsStay \/ FixHoldsFails \/ NoHolds
  \/ RefreshContract \/ RefreshFails \/ ProcessDeltas \/ DeltasFail
  \/ Unmark \/ TellDone

Others ==
  \/ MarkReboot \/ AddNotice \/ TakeLock \/ ReleaseLock
  \/ UserAttach \/ UserRefresh \/ UserDetach

BootSteps == AutoAttach \/ RebootCmds
Next == Boot \/ PowerOff \/ Clone \/ BootSteps \/ Others

(* systemd runs the units it has started; nothing makes a machine boot.    *)
Spec == Init /\ [][Next]_vars /\ WF_vars(BootSteps)

-----------------------------------------------------------------------------
(* Properties *)

(* Every variable keeps its type.                                          *)
TypeOK ==
  /\ image \in {"pro", "plain"}
  /\ iid \in Ids /\ mid \in Ids
  /\ savedIid \in Ids \union {NoId} /\ savedMid \in Ids \union {NoId}
  /\ token \in Ids \union {NoId} /\ registered \in SUBSET Ids
  /\ marker \in BOOLEAN /\ notices \in SUBSET {"livepatch", "fips", "failed"}
  /\ fipsCached \in BOOLEAN
  /\ lock \in {"free", "boot", "other", "stale"}
  /\ pc \in Pcs /\ tries \in 0..Retries
  /\ upgrading \in {"none", "livepatch", "fips"} /\ upgrades \in 0..MaxUpgrades
  /\ due \in SUBSET {"livepatch", "fips"} /\ breaches \in SUBSET Breaches

(* Work that an upgrade left for the boot has its marker, through failed   *)
(* boots, held locks and power failures, until it is done or one of the    *)
(* breaches happened.                                                      *)
PendingMarked == due # {} /\ breaches = {} => marker

(* No DELETE takes away another machine's seat: a clone with a machine id  *)
(* of its own leaves the original's alone when it is detached, though it   *)
(* holds the original's token.                                             *)
DetachAsItself ==
  [][\A m \in registered : m \notin registered' => m = mid]_vars

(* On a Pro image a machine that has come through auto-attach with a token *)
(* and its own cached instance id has a token of its own.                  *)
AttachedAsItself == Attached /\ savedIid = iid => token = mid

(* Every boot comes to its end, even when other commands keep the lock for *)
(* ever.                                                                   *)
BootEnds == pc \in RebootSteps \union AutoAttachSteps ~> pc \in {"up", "off"}

=============================================================================
