----------------------------- MODULE SecurityFix -----------------------------
(***************************************************************************)
(* `ua fix <issue>` (uaclient/security.py), step by step: the queries, the *)
(* loop over the pockets, the prompts on the way (attach, renew, enable),  *)
(* apt, and the verdict it prints.  The command takes no lock, so other    *)
(* commands, apt, reboots and the end of the contract come in between, and *)
(* it may be run again on what it left.                                    *)
(*                                                                         *)
(* External: the security API (Cve and Usn of FixPlan), apt (an upgrade    *)
(* takes the highest version of the standard pockets and of the services   *)
(* that are on), and the commands `fix` calls, of which AttachState,       *)
(* RepoEntitlement and LockFile have the detail: attach, detach and enable *)
(* are here single steps with every result they can have.                  *)
(***************************************************************************)
EXTENDS FixPlan

CONSTANTS
  Installs,     (* the versions that can be installed at first             *)
  MaxFixes      (* bound: runs of `ua fix`                                 *)

ASSUME FixAssumption ==
  /\ MaxFixes \in Nat
  /\ Installs \subseteq [Binaries -> Versions]

VARIABLES
  (* the machine *)
  installed,    (* the version of each binary package                      *)
  enabled,      (* the ESM services that are on                            *)
  contract,     (* the contract on disk: "none", "first" or "renewed"      *)
  lapsed,       (* the first contract is over                              *)
  rebootFlag,   (* /var/run/reboot-required is there                       *)
  notice,       (* the notice of a reboot after a fix is there             *)
  (* the command *)
  pc, at,       (* its next step, and the pocket it is at                  *)
  root,         (* it runs as root                                         *)
  kind,         (* it was given a "cve" or a "usn"                         *)
  snap,         (* the installed versions as it began                      *)
  cveAt, usnAt, (* how far it is through the answers                       *)
  statuses, sourced, merged,     (* what they come to                      *)
  group, todo,  (* for each pocket, the sources and the binaries to upgrade*)
  ok,           (* upgrade_status                                          *)
  allInstalled, (* all_already_installed                                   *)
  listed,       (* unfixed_pkgs                                            *)
  expiryOf,     (* the contract whose expiry it has cached                 *)
  verdict,      (* what it told the user                                   *)
  (* history *)
  fixes,        (* runs so far                                             *)
  need,         (* the highest version any notice it read asks for         *)
  owed,         (* an upgrade of a fix needs a reboot: "no", "yes" or, as  *)
                (* that fix did not finish or a detach removed its notice, *)
                (* "lost"                                                  *)
  breaches      (* ways this fix can have gone wrong                       *)

machine == <<installed, enabled, contract, lapsed, rebootFlag, notice>>
answers == <<root, kind, snap, cveAt, usnAt, statuses, sourced, merged>>
plan == <<group, todo>>
result == <<ok, allInstalled, listed>>
history == <<fixes, need, owed, breaches>>
vars == <<machine, pc, at, answers, plan, result, expiryOf, verdict, history>>

Pcs == {"idle", "cves", "usns", "pocket", "attach", "renew", "service",
        "enable", "apt"}
Verdicts == {"none", "unaffected", "resolved", "unresolved", "reboot", "error"}

(* swallowed: an enable failed and returned 0.  withdrawn: the service was *)
(* turned off between the look at it and apt.  mixed: a source's pocket is *)
(* not that of all its binaries.                                           *)
Breaches == {"swallowed", "withdrawn", "mixed"}

After == [p \in Pockets |-> IF p = "standard" THEN "infra"
                            ELSE IF p = "infra" THEN "apps" ELSE "done"]

Attached == contract # "none"
Over(c) == c = "first" /\ lapsed

Goto(l) == pc' = l /\ UNCHANGED at
NextPocket == pc' = "pocket" /\ at' = After[at]

(* The command ends without having gone through all pockets.               *)
Stop(v) ==
  /\ pc' = "idle" /\ at' = "done" /\ verdict' = v
  /\ owed' = IF owed = "yes" /\ ~notice THEN "lost" ELSE owed

(* delete_cache, the end of a detach: the token and all notices go, that   *)
(* of a reboot still owed among them.                                      *)
DeleteCache ==
  /\ contract' = "none" /\ notice' = FALSE
  /\ owed' = IF owed = "yes" /\ notice THEN "lost" ELSE owed

(* The pocket at hand was not upgraded, nor will those after it be.        *)
Fail ==
  /\ ok' = FALSE /\ allInstalled' = FALSE
  /\ listed' = listed \union group[at]
  /\ NextPocket

-----------------------------------------------------------------------------
Init ==
  /\ installed \in Installs
  /\ contract \in {"none", "first"} /\ lapsed \in BOOLEAN
  /\ enabled \in IF Attached THEN SUBSET EsmPockets ELSE {{}}
  /\ rebootFlag = FALSE /\ notice = FALSE
  /\ pc = "idle" /\ at = "done" /\ root = TRUE /\ kind = "cve"
  /\ snap = installed /\ cveAt = 0 /\ usnAt = 0
  /\ statuses = [s \in Sources |-> NoStatus]
  /\ sourced = {} /\ merged = [b \in Binaries |-> NoFix]
  /\ group = [p \in Pockets |-> {}] /\ todo = [p \in Pockets |-> {}]
  /\ ok = TRUE /\ allInstalled = TRUE /\ listed = {}
  /\ expiryOf = "none" /\ verdict = "none"
  /\ fixes = 0 /\ need = [b \in Binaries |-> 0] /\ owed = "no" /\ breaches = {}

-----------------------------------------------------------------------------
(* The queries *)

(* fix_security_issue_id: dpkg is asked once.                             *)
Start ==
  /\ pc = "idle" /\ fixes < MaxFixes /\ fixes' = fixes + 1
  /\ pc' = "cves" /\ at' = "standard"
  /\ root' \in BOOLEAN /\ kind' \in {"cve", "usn"}
  /\ snap' = installed
  /\ cveAt' = 0 /\ usnAt' = 0
  /\ statuses' = [s \in Sources |-> NoStatus]
  /\ sourced' = {} /\ merged' = [b \in Binaries |-> NoFix]
  /\ group' = [p \in Pockets |-> {}] /\ todo' = [p \in Pockets |-> {}]
  /\ ok' = TRUE /\ allInstalled' = TRUE /\ listed' = {}
  /\ expiryOf' = "none" /\ verdict' = "none"
  /\ need' = [b \in Binaries |-> 0] /\ breaches' = {}
  /\ UNCHANGED <<machine, owed>>

(* get_cve, or one of the CVEs of the notice.                              *)
ReadCve ==
  /\ pc = "cves" /\ (kind = "cve" => cveAt = 0)
  /\ \E c \in (cveAt + 1)..NCves :
       /\ cveAt' = c
       /\ statuses' = MergeCve(statuses, Cve[c], snap)
  /\ UNCHANGED <<machine, pc, at, root, kind, snap, usnAt, sourced, merged>>
  /\ UNCHANGED <<plan, result, expiryOf, verdict, history>>

CvesRead ==
  /\ pc = "cves" /\ cveAt > 0
  /\ Goto("usns")
  /\ UNCHANGED <<machine, answers, plan, result, expiryOf, verdict, history>>

(* merge_usn_released_binary_package_versions, for one notice.             *)
ReadUsn ==
  /\ pc = "usns"
  /\ \E i \in (usnAt + 1)..NUsns :
       /\ usnAt' = i
       /\ merged' = MergeUsn(merged, Usn[i])
       /\ sourced' = sourced \union Usn[i].sources
       /\ need' = [b \in Binaries |-> Max({need[b], Usn[i].fixes[b].version})]
  /\ UNCHANGED <<machine, pc, at, root, kind, snap, cveAt, statuses>>
  /\ UNCHANGED <<plan, result, expiryOf, verdict, fixes, owed, breaches>>

(* A notice given by name is one of those read.                            *)
Answered == pc = "usns" /\ (kind = "usn" => usnAt > 0)

(* SecurityAPIError, or metadata without a CVE or a fix.                   *)
QueryFails ==
  /\ pc \in {"cves", "usns"}
  /\ Stop("error")
  /\ UNCHANGED <<machine, answers, plan, result, expiryOf, fixes, need, breaches>>

(* Mutant: an outcome without a message of its own.                        *)
UnaffectedSilently ==
  /\ Answered /\ Affected(statuses) = {}
  /\ Stop("nothing")
  /\ UNCHANGED <<machine, answers, plan, result, expiryOf, fixes, need, breaches>>

-----------------------------------------------------------------------------
(* prompt_for_affected_packages, up to the upgrades *)

Unaffected ==
  /\ Answered /\ Affected(statuses) = {}
  /\ Stop("unaffected")
  /\ UNCHANGED <<machine, answers, plan, result, expiryOf, fixes, need, breaches>>

MetadataIncomplete ==
  /\ Answered
  /\ FixMissing(Released(statuses, sourced), merged, snap)
  /\ Stop("error")
  /\ UNCHANGED <<machine, answers, plan, result, expiryOf, fixes, need, breaches>>

(* The packages in a pocket that is not the one their source was given.    *)
Strays(released, pocketOf) ==
  {b \in Outdated(released, merged, snap) : merged[b].pocket # pocketOf[SourceOf[b]]}

Plan ==
  LET released == Released(statuses, sourced) IN
  /\ Answered /\ Affected(statuses) # {}
  /\ ~FixMissing(released, merged, snap)
  /\ \E pocketOf \in [Sources -> Pockets] :
       /\ \A s \in Sources :
            pocketOf[s] \in IF s \in released
                            THEN PocketsFor(statuses, sourced, merged, s)
                            ELSE {"standard"}
       /\ group' = [p \in Pockets |-> Group(released, pocketOf, p)]
       /\ todo' = [p \in Pockets |->
                     Outdated(Group(released, pocketOf, p), merged, snap)]
       /\ breaches' = IF Strays(released, pocketOf) = {} THEN breaches
                      ELSE breaches \union {"mixed"}
  /\ listed' = Affected(statuses) \ released
  /\ pc' = "pocket" /\ at' = "standard"
  /\ UNCHANGED <<machine, answers, ok, allInstalled, expiryOf, verdict>>
  /\ UNCHANGED <<fixes, need, owed>>

-----------------------------------------------------------------------------
(* _handle_released_package_fixes, one pocket after the other *)

AtPocket == pc = "pocket" /\ at # "done"

(* Nothing to upgrade in this pocket.                                      *)
PassPocket ==
  /\ AtPocket /\ ok /\ todo[at] = {}
  /\ NextPocket
  /\ UNCHANGED <<machine, answers, plan, result, expiryOf, verdict, history>>

(* Mutant: only the pocket that failed is listed.                          *)
SkipPocketUnlisted ==
  /\ AtPocket /\ ~ok
  /\ NextPocket
  /\ UNCHANGED <<machine, answers, plan, result, expiryOf, verdict, history>>

(* An earlier pocket failed: all sources of this one are listed, those     *)
(* that need no upgrade too.                                               *)
SkipPocket ==
  /\ AtPocket /\ ~ok
  /\ NextPocket
  /\ listed' = listed \union group[at]
  /\ UNCHANGED <<machine, answers, plan, ok, allInstalled, expiryOf, verdict, history>>

NotRoot ==
  /\ AtPocket /\ ok /\ todo[at] # {} /\ ~root
  /\ Fail
  /\ UNCHANGED <<machine, answers, plan, expiryOf, verdict, history>>

UpgradeStandard ==
  /\ AtPocket /\ ok /\ todo[at] # {} /\ root /\ at = "standard"
  /\ Goto("apt") /\ allInstalled' = FALSE
  /\ UNCHANGED <<machine, answers, plan, ok, listed, expiryOf, verdict, history>>

(* Mutant: the end of the first contract is taken for that of any.         *)
UpgradeEsmLapsed ==
  /\ AtPocket /\ ok /\ todo[at] # {} /\ root /\ at # "standard"
  /\ allInstalled' = FALSE
  /\ expiryOf' = IF expiryOf = "none" THEN contract ELSE expiryOf
  /\ Goto(IF expiryOf' = "none" THEN "attach" ELSE IF lapsed THEN "renew" ELSE "service")
  /\ UNCHANGED <<machine, answers, plan, ok, listed, verdict, history>>

(* The token and contract_expiry_datetime are read once and kept for the   *)
(* whole command, whatever contract replaces the one they were read from   *)
(* and though another command detaches the machine.                        *)
UpgradeEsm ==
  /\ AtPocket /\ ok /\ todo[at] # {} /\ root /\ at # "standard"
  /\ allInstalled' = FALSE
  /\ expiryOf' = IF expiryOf = "none" THEN contract ELSE expiryOf
  /\ Goto(IF expiryOf' = "none" THEN "attach" ELSE IF Over(expiryOf') THEN "renew" ELSE "service")
  /\ UNCHANGED <<machine, answers, plan, ok, listed, verdict, history>>

(* Cancel, at any of the prompts.                                          *)
Cancel ==
  /\ pc \in {"attach", "renew", "enable"}
  /\ Fail
  /\ UNCHANGED <<machine, answers, plan, expiryOf, verdict, history>>

(* The services an attach turns on are its contract's business.            *)
AttachSucceeds ==
  /\ pc = "attach"
  /\ contract' = "renewed" /\ enabled' \in SUBSET EsmPockets
  /\ expiryOf' = IF expiryOf = "none" THEN "renewed" ELSE expiryOf
  /\ Goto("service")
  /\ UNCHANGED <<installed, lapsed, rebootFlag, notice>>
  /\ UNCHANGED <<answers, plan, result, verdict, history>>

(* action_attach returns 1, possibly with the token on disk.               *)
AttachFails ==
  /\ pc = "attach"
  /\ \/ UNCHANGED <<contract, enabled>>
     \/ contract' = "renewed" /\ enabled' \in SUBSET EsmPockets
  /\ Fail
  /\ UNCHANGED <<installed, lapsed, rebootFlag, notice>>
  /\ UNCHANGED <<answers, plan, expiryOf, verdict, history>>

(* _prompt_for_new_token: detach, whatever it returns, then attach.        *)
DetachToRenew ==
  /\ pc = "renew"
  /\ enabled' \in SUBSET enabled /\ DeleteCache
  /\ Goto("attach")
  /\ UNCHANGED <<installed, lapsed, rebootFlag>>
  /\ UNCHANGED <<answers, plan, result, expiryOf, verdict, fixes, need, breaches>>

(* The server cannot be told: the services are off, the token stays.       *)
DetachFails ==
  /\ pc = "renew"
  /\ enabled' \in SUBSET enabled
  /\ Stop("error")
  /\ UNCHANGED <<installed, contract, lapsed, rebootFlag, notice>>
  /\ UNCHANGED <<answers, plan, result, expiryOf, fixes, need, breaches>>

(* _check_subscription_for_required_service.                               *)
ServiceActive ==
  /\ pc = "service" /\ at \in enabled
  /\ Goto("apt")
  /\ UNCHANGED <<machine, answers, plan, result, expiryOf, verdict, history>>

ServiceOff ==
  /\ pc = "service" /\ at \notin enabled
  /\ Goto("enable")
  /\ UNCHANGED <<machine, answers, plan, result, expiryOf, verdict, history>>

(* The service is not applicable, or its enable returns 1.                 *)
ServiceRefused ==
  /\ pc \in {"service", "enable"} /\ at \notin enabled
  /\ Fail
  /\ UNCHANGED <<machine, answers, plan, expiryOf, verdict, history>>

EnableSucceeds ==
  /\ pc = "enable"
  /\ enabled' = enabled \union {at}
  /\ Goto("apt")
  /\ UNCHANGED <<installed, contract, lapsed, rebootFlag, notice>>
  /\ UNCHANGED <<answers, plan, result, expiryOf, verdict, history>>

(* action_enable prints a UserFacingError of the service and returns 0.    *)
EnableSwallows ==
  /\ pc = "enable"
  /\ Goto("apt") /\ breaches' = breaches \union {"swallowed"}
  /\ UNCHANGED <<machine, answers, plan, result, expiryOf, verdict, fixes, need, owed>>

(* apt-get update and apt-get install --only-upgrade of the packages.      *)
Install ==
  /\ pc = "apt"
  /\ installed' = [b \in Binaries |->
       IF b \in todo[at]
       THEN Max({installed[b], Candidate(b, {"standard"} \union enabled)})
       ELSE installed[b]]
  /\ rebootFlag' \in {rebootFlag, TRUE}
  /\ owed' = IF rebootFlag' THEN "yes" ELSE owed
  /\ NextPocket
  /\ UNCHANGED <<enabled, contract, lapsed, notice>>
  /\ UNCHANGED <<answers, plan, result, expiryOf, verdict, fixes, need, breaches>>

(* An apt command fails, or a command `fix` calls raises (a held lock), or *)
(* the user interrupts it.                                                 *)
Raise ==
  /\ pc \in {"attach", "enable", "apt", "renew"}
  /\ Stop("error")
  /\ UNCHANGED <<machine, answers, plan, result, expiryOf, fixes, need, breaches>>

(* The verdict.  fix_message is "resolved" unless a package has no fix.    *)
Verdict ==
  IF ok /\ ~allInstalled /\ rebootFlag THEN "reboot"
  ELSE IF ok /\ listed = {} THEN "resolved" ELSE "unresolved"

Conclude ==
  /\ pc = "pocket" /\ at = "done"
  /\ pc' = "idle" /\ verdict' = Verdict
  /\ notice' = (notice \/ (ok /\ ~allInstalled /\ rebootFlag))
  /\ owed' = IF owed = "yes" /\ ~ok /\ ~notice THEN "lost" ELSE owed
  /\ UNCHANGED <<installed, enabled, contract, lapsed, rebootFlag>>
  /\ UNCHANGED <<at, answers, plan, result, expiryOf, fixes, need, breaches>>

-----------------------------------------------------------------------------
(* What else happens on the machine *)

(* The contract comes to its end.                                          *)
Lapse ==
  /\ contract = "first" /\ ~lapsed /\ lapsed' = TRUE
  /\ UNCHANGED <<installed, enabled, contract, rebootFlag, notice>>
  /\ UNCHANGED <<pc, at, answers, plan, result, expiryOf, verdict, history>>

(* Another command, a detach among them, turns a service off.              *)
Withdraw ==
  /\ \E p \in enabled :
       /\ enabled' = enabled \ {p}
       /\ breaches' = IF pc = "apt" /\ at = p
                      THEN breaches \union {"withdrawn"} ELSE breaches
  /\ UNCHANGED <<installed, contract, lapsed, rebootFlag, notice>>
  /\ UNCHANGED <<pc, at, answers, plan, result, expiryOf, verdict, fixes, need, owed>>

(* A detach by another command has told the server: services it could not  *)
(* turn off stay on.                                                       *)
DetachElsewhere ==
  /\ Attached /\ DeleteCache
  /\ UNCHANGED <<installed, enabled, lapsed, rebootFlag>>
  /\ UNCHANGED <<pc, at, answers, plan, result, expiryOf, verdict, fixes, need, breaches>>

(* An unattended upgrade of the standard pockets.                          *)
UpgradeUnattended ==
  /\ installed' = [b \in Binaries |->
       IF installed[b] = 0 THEN 0 ELSE Max({installed[b], Offered("standard", b)})]
  /\ installed' # installed
  /\ UNCHANGED <<enabled, contract, lapsed, rebootFlag, notice>>
  /\ UNCHANGED <<pc, at, answers, plan, result, expiryOf, verdict, history>>

(* Mutant: the notice is removed without a look at the reboot file.        *)
SaveStatusUnchecked ==
  /\ notice /\ notice' = FALSE
  /\ UNCHANGED <<installed, enabled, contract, lapsed, rebootFlag>>
  /\ UNCHANGED <<pc, at, answers, plan, result, expiryOf, verdict, history>>

(* A reboot brings the upgrades into effect.                               *)
Reboot ==
  /\ pc = "idle" /\ rebootFlag
  /\ rebootFlag' = FALSE /\ owed' = "no"
  /\ UNCHANGED <<installed, enabled, contract, lapsed, notice>>
  /\ UNCHANGED <<pc, at, answers, plan, result, expiryOf, verdict, fixes, need, breaches>>

(* UAConfig.status, by any command of root.                                *)
SaveStatus ==
  /\ notice /\ ~rebootFlag /\ notice' = FALSE
  /\ UNCHANGED <<installed, enabled, contract, lapsed, rebootFlag>>
  /\ UNCHANGED <<pc, at, answers, plan, result, expiryOf, verdict, history>>

Query == Start \/ ReadCve \/ CvesRead \/ ReadUsn \/ QueryFails
Prepare == Unaffected \/ MetadataIncomplete \/ Plan
Pocket == PassPocket \/ SkipPocket \/ NotRoot \/ UpgradeStandard \/ UpgradeEsm
Subscribe == \/ Cancel \/ AttachSucceeds \/ AttachFails
             \/ DetachToRenew \/ DetachFails
Service == ServiceActive \/ ServiceOff \/ ServiceRefused \/ EnableSucceeds \/ EnableSwallows
Finish == Install \/ Raise \/ Conclude
World == \/ Lapse \/ Withdraw \/ DetachElsewhere
         \/ UpgradeUnattended \/ Reboot \/ SaveStatus

Next == Query \/ Prepare \/ Pocket \/ Subscribe \/ Service \/ Finish \/ World

Spec == Init /\ [][Next]_vars

-----------------------------------------------------------------------------
(* Properties *)

(* Every variable keeps its type.                                          *)
TypeOK ==
  /\ installed \in [Binaries -> Versions]
  /\ enabled \in SUBSET EsmPockets
  /\ contract \in {"none", "first", "renewed"}
  /\ lapsed \in BOOLEAN /\ rebootFlag \in BOOLEAN /\ notice \in BOOLEAN
  /\ root \in BOOLEAN
  /\ pc \in Pcs /\ at \in Pockets \union {"done"} /\ kind \in {"cve", "usn"}
  /\ snap \in [Binaries -> Versions]
  /\ cveAt \in 0..NCves /\ usnAt \in 0..NUsns
  /\ statuses \in [Sources -> Statuses] /\ sourced \in SUBSET Sources
  /\ merged \in [Binaries -> Fixes]
  /\ group \in [Pockets -> SUBSET Sources] /\ todo \in [Pockets -> SUBSET Binaries]
  /\ ok \in BOOLEAN /\ allInstalled \in BOOLEAN /\ listed \in SUBSET Sources
  /\ expiryOf \in {"none", "first", "renewed"} /\ verdict \in Verdicts
  /\ fixes \in 0..MaxFixes /\ need \in [Binaries -> Versions]
  /\ owed \in {"no", "yes", "lost"} /\ breaches \in SUBSET Breaches

(* A source is fixed when each of its packages that was there as the       *)
(* command began has reached the highest version the notices ask for.      *)
Fixed(s) == \A b \in InstalledOf(snap, s) : need[b] > 0 /\ installed[b] >= need[b]

(* When the user is told that the issue is resolved, every affected source *)
(* package is fixed, unless one of the breaches happened.                  *)
ResolvedMeansFixed ==
  pc = "idle" /\ verdict = "resolved" /\ breaches = {} =>
    \A s \in Affected(statuses) : Fixed(s)

(* The same when an enable failed that action_enable returned 0 for:       *)
(* _prompt_for_enable has "True if enable performed", and it was not.      *)
EnabledMeansFixed ==
  pc = "idle" /\ verdict = "resolved" /\ breaches \subseteq {"swallowed"} =>
    \A s \in Affected(statuses) : Fixed(s)

(* When the command goes through to a verdict, each affected package is    *)
(* fixed or is in the list of those still affected.                        *)
NothingOmitted ==
  pc = "idle" /\ verdict \in {"resolved", "unresolved", "reboot"} /\ breaches = {} =>
    \A s \in Affected(statuses) : s \in listed \/ Fixed(s)

(* As long as the machine has to be rebooted for a fix that went through,  *)
(* there is a notice of it, and no fix that upgraded anything since has    *)
(* been called resolved.                                                   *)
RebootRemembered ==
  pc = "idle" /\ owed = "yes" =>
    /\ notice
    /\ verdict = "resolved" => allInstalled

(* The user is asked to renew a contract that is over, or one that was     *)
(* replaced or given up since this command read its expiry.                *)
RenewalWhenDue ==
  [][pc' = "renew" /\ pc # "renew" =>
       Over(contract) \/ (contract # "first" /\ expiryOf = "first")]_vars

=============================================================================
