--------------------------- MODULE ServiceConflicts ---------------------------
(***************************************************************************)
(* Services that exclude each other (uaclient/entitlements/fips.py,        *)
(* livepatch.py and base.py): FIPS and FIPS Updates, which share one       *)
(* metapackage and one kernel and take effect at a reboot, and Livepatch,  *)
(* which must be off while either is on.  Commands run one at a time, as   *)
(* the lock has it (LockFile); writing and removing a service's apt files  *)
(* is one step here and many in RepoEntitlement; the cached status that a  *)
(* contract change goes by, also treated there, is here the service's own, *)
(* and a detach clears the contract, the notices and the marker in one     *)
(* step, of which LockFile and AttachState have the parts.                 *)
(*                                                                         *)
(* External: the metapackage's scripts set or unset the kernel's fips=1    *)
(* option and ask for a reboot, and the kernel shows the option it booted  *)
(* with in /proc/sys/crypto/fips_enabled.                                  *)
(***************************************************************************)
EXTENDS Naturals

CONSTANT Faults  (* "crash": the process dies; "apt": an apt command fails;*)
                 (* "livepatch": canonical-livepatch or snap fails, its    *)
                 (* status command included                                *)

ASSUME ConflictsAssumption == Faults \subseteq {"crash", "apt", "livepatch"}

Fips == {"fips", "fips-updates"}
Services == Fips \union {"livepatch"}

VARIABLES
  attached,  (* there is a contract                                        *)
  entitled,  (* the services it covers                                     *)
  setup,     (* the FIPS services whose repository is set up               *)
  lp,        (* canonical-livepatch is enabled                             *)
  meta,      (* the FIPS metapackage is installed                          *)
  boot,      (* what FIPS_PROC_FILE will show after the next boot          *)
  proc,      (* what it shows now; "absent" on an ordinary kernel          *)
  flag,      (* /var/run/reboot-required is there                          *)
  due,       (* reboot_cmds has found its marker at this boot              *)
  notices,   (* the FIPS notices of notices.json                           *)
  op, svc,   (* the command being run and its service                      *)
  yes,       (* its assume_yes, which is allow_enable in a contract change *)
  obliged,   (* the contract change has enableByDefault                    *)
  then,      (* what can_enable is asked for: "enable" or "decide"         *)
  left,      (* the services a detach has still to disable                 *)
  pc,        (* the command's next step, "idle" between commands           *)
  breach     (* history: what broke a promise made to the user             *)

contract == <<attached, entitled, due>>
kernel == <<meta, boot, proc, flag>>
memory == <<op, svc, yes, obliged, then, left>>
vars == <<contract, setup, lp, kernel, notices, memory, pc, breach>>

Notices == {"reboot", "disable", "manual", "outdated"}
Steps == {"idle", "can", "conflict", "decide", "directives", "setup", "install",
          "tell", "client", "config", "token", "lp_on", "lp_off", "rm_pkgs",
          "cleanup", "rm_tell", "end", "next", "holds", "holds_install",
          "holds_tell"}

(* crash: a command died.  half: a disable failed after its removals.      *)
(* partial: an installation failed after the metapackage was in place.     *)
(* shared: one FIPS service was disabled under the other.  switched off:   *)
(* Livepatch was enabled over FIPS set up on a kernel without it.  unseen: *)
(* a FIPS service was enabled while Livepatch, on, did not answer.  stale: *)
(* reboot_cmds set FIPS up again, cached as enabled.  early: FIPS was      *)
(* disabled before the reboot that completes it; undone: enabled before    *)
(* the reboot that completes its disabling.  kernel: the FIPS kernel was   *)
(* removed, as its notice asks.  forgotten: a detach deleted the notices   *)
(* with a reboot pending.  hushed: so did reboot_cmds with the notice of   *)
(* the packages it had just installed.                                     *)
LivepatchBreaches == {"switched off", "unseen", "stale"}
Breaches == LivepatchBreaches \union
  {"crash", "half", "partial", "shared", "early", "undone", "kernel",
   "forgotten", "hushed"}

Record(b, cond) == breach' = IF cond THEN breach \union {b} ELSE breach

(* A FIPS service is enabled before the reboot too, but not on a FIPS      *)
(* kernel that runs in disabled state, nor without a contract to name its  *)
(* repository.                                                             *)
Enabled(s) ==
  IF s = "livepatch" THEN lp ELSE attached /\ s \in setup /\ proc # "0"

(* What application_status may answer: a `canonical-livepatch status` that *)
(* fails, after its retries, is taken for a client that is not enabled.    *)
Looks(s) ==
  IF s = "livepatch" /\ lp /\ "livepatch" \in Faults THEN BOOLEAN ELSE {Enabled(s)}

(* A reboot is needed to finish enabling FIPS, or disabling it.            *)
RebootPending == <<boot, proc>> \in {<<"1", "absent">>, <<"0", "1">>}

(* Mutant: a running FIPS kernel ends the wait for a reboot either way. *)
NotedForgets ==
  IF proc = "absent" THEN notices \ {"disable"}
  ELSE IF proc = "1" THEN notices \ {"reboot", "disable", "manual"}
  ELSE (notices \ {"reboot", "disable"}) \union {"manual"}

(* Mutant: the notice of a disabled kernel stays. *)
NotedKeeps ==
  IF proc = "absent" THEN notices \ {"disable"}
  ELSE IF proc = "1" THEN notices \ {"reboot"}
  ELSE (notices \ {"reboot", "disable"}) \union {"manual"}

(* ... and what asking for the status of a FIPS service does to the notices. *)
Noted ==
  IF proc = "absent" THEN notices \ {"disable"}
  ELSE IF proc = "1" THEN notices \ {"reboot", "manual"}
  ELSE (notices \ {"reboot", "disable"}) \union {"manual"}

NotedBy(s) == IF s \in Fips THEN Noted ELSE notices

(* Mutant: Livepatch looks at FIPS only. *)
ApplicableFipsOnly(s) ==
  /\ s = "livepatch" => ~Enabled("fips")
  /\ s = "fips" => ~Enabled("fips-updates")

(* static_affordances, as far as they are about other services.            *)
Applicable(s) ==
  /\ s = "livepatch" => \A f \in Fips : ~Enabled(f)
  /\ s = "fips" => ~Enabled("fips-updates")

Goto(l) == pc' = l /\ UNCHANGED memory
Transition(from, to) == pc = from /\ Goto(to)

(* Every command but an attach is for attached machines.                   *)
Begin(o, s, y, d, t, l) ==
  /\ pc = "idle" /\ attached /\ pc' = l
  /\ op' = o /\ svc' = s /\ yes' = y /\ obliged' = d /\ then' = t /\ left' = {}

(* The process ends, by itself, by an exception or by a crash.             *)
Exit ==
  /\ pc' = "idle"
  /\ op' = "none" /\ svc' = "livepatch" /\ yes' = FALSE /\ obliged' = FALSE
  /\ then' = "enable" /\ left' = {}

-----------------------------------------------------------------------------
Init ==
  /\ attached \in BOOLEAN
  /\ entitled \in IF attached THEN SUBSET Services ELSE {{}}
  /\ setup = {} /\ lp = FALSE
  /\ meta = FALSE /\ boot = "absent" /\ proc = "absent" /\ flag = FALSE
  /\ due = FALSE
  /\ notices \in SUBSET {"outdated"}
  /\ op = "none" /\ svc = "livepatch" /\ yes = FALSE /\ obliged = FALSE
  /\ then = "enable" /\ left = {} /\ pc = "idle" /\ breach = {}

-----------------------------------------------------------------------------
(* can_enable *)

(* Mutant: every service is set up as a repository. *)
AllowedSetup == IF then = "decide" THEN "decide" ELSE "setup"

Refused == IF then = "decide" THEN "directives" ELSE "end"
Allowed ==
  IF then = "decide" THEN "decide" ELSE IF svc \in Fips THEN "setup" ELSE "client"

(* What applicability_status says of container, cloud, architecture,       *)
(* series and kernel: one bit, which may differ from question to question. *)
Suits == BOOLEAN

CanEnable ==
  /\ pc = "can"
  /\ \E suits \in Suits, on \in Looks(svc), livepatch \in Looks("livepatch") :
       LET able == svc \in entitled /\ ~on /\ Applicable(svc) /\ suits
       IN  /\ notices' = IF svc \in entitled /\ (svc \in Fips \/ ~on)
                           THEN Noted ELSE notices
           /\ IF able
                THEN Goto(IF svc \in Fips /\ livepatch THEN "conflict" ELSE Allowed)
                ELSE Goto(Refused)
           /\ Record("unseen", /\ able /\ svc \in Fips /\ then = "enable"
                                /\ lp /\ ~livepatch)
  /\ UNCHANGED <<contract, setup, lp, kernel>>

(* handle_incompatible_services: Livepatch is disabled, unless the         *)
(* configuration or the user says no, or disable() does not see it on.     *)
HandleIncompatible ==
  /\ pc = "conflict"
  /\ \/ lp' = FALSE /\ Goto(Allowed)
     \/ /\ \/ \E block, answer \in BOOLEAN : block \/ ~(yes \/ answer)
           \/ FALSE \in Looks("livepatch")
        /\ Goto(Refused) /\ UNCHANGED lp
     \/ "livepatch" \in Faults /\ Exit /\ UNCHANGED lp
  /\ UNCHANGED <<contract, setup, kernel, notices, breach>>

-----------------------------------------------------------------------------
(* Enabling a FIPS service *)

(* The command asks before it enables; a "no" ends it.                     *)
Enable ==
  /\ \E s \in Services, y \in BOOLEAN :
       \/ Begin("enable", s, y, FALSE, "enable", "can")
       \/ s \in Fips /\ ~y /\ Begin("enable", s, y, FALSE, "enable", "end")
  /\ UNCHANGED <<contract, setup, lp, kernel, notices, breach>>

(* A contract change may have no packages to install.                      *)
SetupAptConfig ==
  /\ pc = "setup"
  /\ \/ /\ setup' = setup \union {svc}
        /\ Goto("install") \/ (then = "decide" /\ Goto("end"))
     \/ "apt" \in Faults /\ Exit /\ setup' \in {setup, setup \ {svc}}
  /\ UNCHANGED <<contract, lp, kernel, notices, breach>>

(* The metapackage is installed and its script run.                        *)
MetaInstalled ==
  /\ meta' = TRUE /\ boot' = "1" /\ flag' = TRUE /\ UNCHANGED proc

(* Mutant: a failed installation is not cleaned up after. *)
InstallPackagesUnclean ==
  /\ pc = "install"
  /\ \/ /\ MetaInstalled
        /\ Goto(IF then = "decide" THEN "end" ELSE "tell")
        /\ UNCHANGED setup /\ Record("undone", "disable" \in notices)
     \/ /\ "apt" \in Faults /\ Exit
        /\ \/ UNCHANGED <<kernel, breach>>
           \/ MetaInstalled /\ Record("partial", ~meta)
        /\ UNCHANGED setup
  /\ UNCHANGED <<contract, lp, notices>>

(* apt-get may fail before the metapackage is configured or, over another  *)
(* package, after it.                                                      *)
InstallPackages ==
  /\ pc = "install"
  /\ \/ /\ MetaInstalled
        /\ Goto(IF then = "decide" THEN "end" ELSE "tell")
        /\ UNCHANGED setup /\ Record("undone", "disable" \in notices)
     \/ /\ "apt" \in Faults /\ Exit
        /\ \/ UNCHANGED <<kernel, breach>>
           \/ MetaInstalled /\ Record("partial", ~meta)
        /\ setup' = setup \ {svc}
  /\ UNCHANGED <<contract, lp, notices>>

(* check_for_reboot_msg, and the end of FIPSEntitlement.enable.            *)
Tell ==
  /\ Transition("tell", "end")
  /\ notices' = (IF flag THEN notices \union {"reboot"} ELSE notices)
                  \ (IF svc = "fips" THEN {"outdated"} ELSE {})
  /\ UNCHANGED <<contract, setup, lp, kernel, breach>>

-----------------------------------------------------------------------------
(* Enabling Livepatch *)

InstallClient ==
  /\ pc = "client"
  /\ Goto("config") \/ (Faults \intersect {"apt", "livepatch"} # {} /\ Exit)
  /\ UNCHANGED <<contract, setup, lp, kernel, notices, breach>>

(* A failure is reported, not raised; a change of directives only ends here. *)
ConfigureLivepatch ==
  /\ pc = "config"
  /\ Goto("token") \/ ((then = "decide" \/ "livepatch" \in Faults) /\ Goto("end"))
  /\ UNCHANGED <<contract, setup, lp, kernel, notices, breach>>

(* A client that is seen enabled is disabled before it gets the new token. *)
ProcessToken ==
  /\ pc = "token"
  /\ \E on \in Looks("livepatch") :
       \/ lp' = (lp /\ ~on) /\ Goto("lp_on")
       \/ on /\ "livepatch" \in Faults /\ Goto("end") /\ UNCHANGED lp
  /\ UNCHANGED <<contract, setup, kernel, notices, breach>>

EnableClient ==
  /\ Transition("lp_on", "end")
  /\ \/ lp' = TRUE /\ Record("switched off", setup # {} /\ proc = "0")
     \/ "livepatch" \in Faults /\ UNCHANGED <<lp, breach>>
  /\ UNCHANGED <<contract, setup, kernel, notices>>

-----------------------------------------------------------------------------
(* Disabling *)

FirstRemoval(s) == IF s \in Fips THEN "rm_pkgs" ELSE "lp_off"

(* A detach disables one service after another.                            *)
Disabled == IF op = "detach" THEN "next" ELSE "end"

Disable ==
  /\ \E s \in Services, y \in BOOLEAN : \E on \in Looks(s) :
       /\ \/ on /\ Begin("disable", s, y, FALSE, "enable", FirstRemoval(s))
          \/ /\ ~on \/ (s \in Fips /\ ~y)
             /\ Begin("disable", s, y, FALSE, "enable", "end")
       /\ notices' = NotedBy(s)
  /\ UNCHANGED <<contract, setup, lp, kernel, breach>>

DisableClient ==
  /\ pc = "lp_off"
  /\ \/ lp' = FALSE /\ Goto(Disabled)
     \/ "livepatch" \in Faults /\ Exit /\ UNCHANGED lp
  /\ UNCHANGED <<contract, setup, kernel, notices, breach>>

(* remove_packages: the metapackage takes the kernel option with it.       *)
RemovePackages ==
  /\ pc = "rm_pkgs"
  /\ \/ /\ Goto("cleanup")
        /\ meta' = FALSE /\ boot' = IF meta THEN "0" ELSE boot
        /\ flag' = (flag \/ meta) /\ UNCHANGED proc
        /\ breach' = breach \union (IF setup # {svc} THEN {"shared"} ELSE {})
                            \union (IF "reboot" \in notices THEN {"early"} ELSE {})
     \/ "apt" \in Faults /\ Exit /\ UNCHANGED <<kernel, breach>>
  /\ UNCHANGED <<contract, setup, lp, notices>>

(* remove_apt_config: its last command may fail.                           *)
Cleanup ==
  /\ pc = "cleanup"
  /\ setup' = setup \ {svc}
  /\ \/ Goto("rm_tell") /\ UNCHANGED breach
     \/ "apt" \in Faults /\ Exit /\ Record("half", TRUE)
  /\ UNCHANGED <<contract, lp, kernel, notices>>

TellDisabled ==
  /\ Transition("rm_tell", Disabled)
  /\ notices' = IF flag THEN notices \union {"disable"} ELSE notices
  /\ UNCHANGED <<contract, setup, lp, kernel, breach>>

-----------------------------------------------------------------------------
(* Contract changes *)

(* A service that is no longer covered is disabled, if the user agrees.    *)
DropService ==
  /\ \E s \in entitled, y, d \in BOOLEAN : \E on \in Looks(s) :
       /\ entitled' = entitled \ {s}
       /\ \/ on /\ Begin("delta", s, y, d, "decide", FirstRemoval(s))
          \/ /\ ~on \/ (s \in Fips /\ ~y)
             /\ Begin("delta", s, y, d, "decide", "end")
       /\ notices' = NotedBy(s)
  /\ UNCHANGED <<attached, due, setup, lp, kernel, breach>>

(* Any other change asks can_enable first.                                 *)
ContractChange ==
  /\ \E s \in Services, y, d \in BOOLEAN :
       /\ entitled' \in {entitled, entitled \union {s}}
       /\ Begin("delta", s, y, d, "decide", "can")
  /\ UNCHANGED <<attached, due, setup, lp, kernel, notices, breach>>

(* The contract of an attach; its services follow as contract changes.     *)
Attach ==
  /\ pc = "idle" /\ ~attached
  /\ attached' = TRUE /\ entitled' \in SUBSET Services
  /\ UNCHANGED <<due, setup, lp, kernel, notices, memory, pc, breach>>

(* enableByDefault enables the service when that is allowed.               *)
Decide ==
  /\ pc = "decide"
  /\ \/ /\ obliged /\ yes
        /\ pc' = "can" /\ then' = "enable" /\ UNCHANGED <<op, svc, yes, obliged, left>>
     \/ obliged /\ ~yes /\ Goto("end")
     \/ ~obliged /\ Goto("directives")
  /\ UNCHANGED <<contract, setup, lp, kernel, notices, breach>>

(* An enabled service is reconfigured: its repository rewritten, packages  *)
(* installed, or the client's configuration or token renewed.              *)
Directives ==
  /\ pc = "directives"
  /\ notices' = NotedBy(svc)
  /\ \/ /\ Enabled(svc) /\ svc \in Fips
        /\ \/ setup' = setup \ {svc} /\ Goto("setup")
           \/ Goto("install") /\ UNCHANGED setup
     \/ Enabled(svc) /\ svc \notin Fips /\ (Goto("config") \/ Goto("token"))
        /\ UNCHANGED setup
     \/ Goto("end") /\ UNCHANGED setup   \* nothing changed, or not seen on
  /\ UNCHANGED <<contract, lp, kernel, breach>>

-----------------------------------------------------------------------------
(* Detach *)

(* The services seen enabled are listed and the user asked.                *)
Detach ==
  /\ pc = "idle" /\ attached
  /\ notices' = Noted
  /\ \E y \in BOOLEAN, on \in Looks("livepatch") :
       \/ /\ op' = "detach" /\ yes' = y /\ pc' = "next"
          /\ left' = {f \in Fips : Enabled(f)} \union (IF on THEN {"livepatch"} ELSE {})
          /\ UNCHANGED <<svc, obliged, then>>
       \/ ~y /\ UNCHANGED <<memory, pc>>
  /\ UNCHANGED <<contract, setup, lp, kernel, breach>>

(* disable() of the next one (in any order here) looks again, and a FIPS   *)
(* service asks again first; what it returns is ignored.                   *)
DetachNext ==
  /\ pc = "next"
  /\ \E s \in left :
       /\ svc' = s /\ left' = left \ {s} /\ UNCHANGED <<op, yes, obliged, then>>
       /\ \/ s \in Fips /\ ~yes /\ pc' = "next" /\ UNCHANGED notices
          \/ /\ \E on \in Looks(s) : pc' = IF on THEN FirstRemoval(s) ELSE "next"
             /\ notices' = NotedBy(s)
  /\ UNCHANGED <<contract, setup, lp, kernel, breach>>

(* Once the server agrees, delete_cache deletes the contract, the notices  *)
(* and the marker of reboot_cmds.                                          *)
Forget ==
  /\ pc = "next" /\ left = {} /\ Exit
  /\ \/ /\ attached' = FALSE /\ entitled' = {} /\ due' = FALSE /\ notices' = {}
        /\ Record("forgotten", RebootPending)
     \/ UNCHANGED <<contract, notices, breach>>
  /\ UNCHANGED <<setup, lp, kernel>>

-----------------------------------------------------------------------------
(* fix_pro_pkg_holds of reboot_cmds, once after a boot *)

(* Its guard is the cached status of FIPS, which may be that of earlier.   *)
FixHolds ==
  /\ due /\ due' = FALSE
  /\ Begin("boot", "fips", FALSE, FALSE, "enable", "holds")
  /\ UNCHANGED <<attached, entitled, setup, lp, kernel, notices, breach>>

(* setup_apt_config, whatever comes of it, and without can_enable.         *)
RemoveHolds ==
  /\ Transition("holds", "holds_install")
  /\ \/ setup' = setup \union {"fips"}
     \/ "apt" \in Faults /\ setup' \in {setup, setup \ {"fips"}}
  /\ Record("stale", ~(setup' \subseteq setup))
  /\ UNCHANGED <<contract, lp, kernel, notices>>

(* install_packages without its clean-up; a failure ends the process.      *)
InstallHeld ==
  /\ pc = "holds_install"
  /\ \/ /\ MetaInstalled \/ (meta /\ UNCHANGED kernel)
        /\ Goto("holds_tell") /\ Record("undone", "disable" \in notices)
     \/ /\ "apt" \in Faults /\ Exit
        /\ \/ UNCHANGED <<kernel, breach>>
           \/ MetaInstalled /\ Record("partial", ~meta)
  /\ UNCHANGED <<contract, setup, lp, notices>>

TellHeld ==
  /\ pc = "holds_tell" /\ Exit
  /\ notices' = notices \ {"reboot"}
  /\ Record("hushed", boot = "1" /\ proc = "absent")
  /\ UNCHANGED <<contract, setup, lp, kernel>>

-----------------------------------------------------------------------------
(* enable and disable end with cfg.status(), a contract change does not;   *)
(* it looks at FIPS when the contract covers it or Livepatch.              *)
End ==
  /\ pc = "end" /\ Exit
  /\ notices' \in IF op = "delta" THEN {notices} ELSE {notices, Noted}
  /\ UNCHANGED <<contract, setup, lp, kernel, breach>>

Status ==
  /\ pc = "idle" /\ attached
  /\ notices' = Noted
  /\ UNCHANGED <<contract, setup, lp, kernel, memory, pc, breach>>

Crash ==
  /\ "crash" \in Faults /\ pc # "idle" /\ Exit
  /\ breach' = breach \union {"crash"}
  /\ UNCHANGED <<contract, setup, lp, kernel, notices>>

Reboot ==
  /\ pc = "idle"
  /\ proc' = boot /\ flag' = FALSE /\ due' \in BOOLEAN
  /\ Record("kernel", boot = "absent" /\ "manual" \in notices)
  /\ UNCHANGED <<attached, entitled, setup, lp, meta, boot, notices, memory, pc>>

(* The user removes the FIPS kernel, "manually" as the notice says.        *)
RemoveKernel ==
  /\ pc = "idle" /\ boot = "0"
  /\ boot' = "absent"
  /\ UNCHANGED <<contract, setup, lp, meta, proc, flag, notices, memory, pc, breach>>

EnableSteps ==
  \/ CanEnable \/ HandleIncompatible \/ SetupAptConfig \/ InstallPackages \/ Tell
  \/ InstallClient \/ ConfigureLivepatch \/ ProcessToken \/ EnableClient
DisableSteps == DisableClient \/ RemovePackages \/ Cleanup \/ TellDisabled
DetachSteps == Detach \/ DetachNext \/ Forget
BootSteps == FixHolds \/ RemoveHolds \/ InstallHeld \/ TellHeld

Next ==
  \/ Enable \/ Disable \/ DropService \/ ContractChange \/ Attach
  \/ EnableSteps \/ DisableSteps \/ DetachSteps \/ BootSteps
  \/ Decide \/ Directives \/ End \/ Status \/ Crash \/ Reboot \/ RemoveKernel

Spec == Init /\ [][Next]_vars

-----------------------------------------------------------------------------
(* Properties *)

TypeOK ==
  /\ attached \in BOOLEAN /\ entitled \subseteq Services /\ due \in BOOLEAN
  /\ setup \subseteq Fips /\ lp \in BOOLEAN /\ left \subseteq Services
  /\ meta \in BOOLEAN /\ flag \in BOOLEAN
  /\ boot \in {"absent", "0", "1"} /\ proc \in {"absent", "0", "1"}
  /\ notices \subseteq Notices
  /\ op \in {"none", "enable", "disable", "delta", "detach", "boot"} /\ svc \in Services
  /\ yes \in BOOLEAN /\ obliged \in BOOLEAN /\ then \in {"enable", "decide"}
  /\ pc \in Steps /\ breach \subseteq Breaches

(* "Cannot enable Livepatch when FIPS is enabled" (livepatch.py:57), and a *)
(* FIPS service enables only once Livepatch is off: at no step of any      *)
(* command, and after no reboot, are both on, unless Livepatch was let in  *)
(* while a FIPS service waited on a kernel without fips=1, its status      *)
(* command failed when a FIPS service asked, or a stale cached status had  *)
(* reboot_cmds set FIPS up again.                                          *)
NeverBoth ==
  breach \intersect LivepatchBreaches = {} => ~(lp /\ \E f \in Fips : Enabled(f))

(* A FIPS service reported enabled has its kernel option to boot with: the *)
(* steps that fail take both away or neither.                              *)
FipsBootable ==
  breach = {} /\ pc = "idle" /\ (\E f \in Fips : Enabled(f)) => boot = "1"

(* A machine that needs a reboot to finish enabling FIPS, or disabling it, *)
(* says so, however often its status was looked at since; the breaches     *)
(* name the ways in which the notice is lost or never written.             *)
PendingRebootTold ==
  breach = {} /\ pc = "idle" =>
    /\ boot = "1" /\ proc = "absent" => "reboot" \in notices
    /\ boot = "0" /\ proc = "1" => "disable" \in notices

(* What a status report says of FIPS is so: a reboot does complete the     *)
(* enabling or the disabling, and a kernel in disabled state is running.   *)
NoticesTrue ==
  breach = {} /\ pc = "idle" =>
    /\ "reboot" \in Noted => boot = "1"
    /\ "disable" \in Noted => boot # "1"
    /\ "manual" \in Noted => proc = "0"

(* "When we are enabling the entitlement we can directly ask the user if   *)
(* those entitlements can be disabled" (base.py:94): a contract change     *)
(* that will not enable a FIPS service leaves Livepatch alone.             *)
LivepatchKept ==
  [][op = "delta" /\ svc \in Fips /\ ~(obliged /\ yes) => lp' = lp]_vars

=============================================================================
