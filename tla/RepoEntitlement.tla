--------------------------- MODULE RepoEntitlement ---------------------------
(***************************************************************************)
(* One apt-repository service (uaclient/entitlements/repo.py, base.py and  *)
(* apt.py): the files that enable, disable and a contract change write and *)
(* remove, one file or apt command at a time, with every step that can     *)
(* fail and the cleanup the code does after it, and with a crash anywhere. *)
(* Commands run one at a time, as the lock has it (LockFile).              *)
(*                                                                         *)
(* What apt does is external: `apt-cache policy` shows a repository whose  *)
(* source is listed and whose index files are there, and `apt-get update`  *)
(* fetches the index files of the listed source and drops the others.      *)
(***************************************************************************)
EXTENDS Naturals

CONSTANTS
  Urls,    (* apt repository urls (the aptURL directive)                   *)
  NoUrl,   (* no aptURL directive; no source listed                        *)
  Stock,   (* the url of the package's own unauthenticated ESM source      *)
  Pins,    (* the kinds of service, by repo_pin_priority: "none", "never"  *)
           (* (ESM, which on disable removes its credentials only) and     *)
           (* "priority" (FIPS)                                            *)
  Faults   (* "crash": the process dies; "apt": an apt or gpg command      *)
           (* fails; "server": the contract server fails or its directives *)
           (* are incomplete                                               *)

ASSUME RepoAssumption ==
  /\ NoUrl \notin Urls /\ Stock \in Urls
  /\ Pins \subseteq {"none", "never", "priority"}
  /\ Faults \subseteq {"crash", "apt", "server"}

VARIABLES
  pin,       (* the kind of the service; does not change                   *)
  attached,  (* there is a contract                                        *)
  entitled, url,   (* what the contract says of the service                *)
  oldEntitled, oldUrl,  (* what it said before the contract update at hand *)
  source,    (* the url in sources.list.d/ubuntu-<name>.list, or NoUrl     *)
  auth,      (* the urls with a credentials line in 90ubuntu-advantage     *)
  key,       (* the keyring file is in trusted.gpg.d                       *)
  indexes,   (* the urls with index files in /var/lib/apt/lists            *)
  pref,      (* preferences.d/ubuntu-<name>: "absent", "never", "priority" *)
  cache,     (* the service's status in status.json, "absent" without one  *)
  op,        (* the command being run                                      *)
  pc,        (* its next step, "idle" between commands                     *)
  then,      (* what follows remove_apt_config                             *)
  refetch,   (* its run_apt_update                                         *)
  was,       (* history: some credentials were there as the command began  *)
  breach     (* history: ways a service was left half-configured           *)

contract == <<attached, entitled, url>>
memory == <<op, then, refetch, was, oldEntitled, oldUrl>>
control == <<pc, memory>>
vars == <<pin, contract, source, auth, key, indexes, pref, cache, control, breach>>

Ops == {"none", "enable", "disable", "refresh", "attach", "detach"}
Setup == {"token", "pin", "prereq", "creds", "list", "auth", "key", "update", "install"}
Remove == {"rm_list", "rm_key", "rm_auth", "rm_index", "rm_pref", "rm_update"}
Steps == {"idle", "delta", "rw_list", "rw_auth", "end", "forget"} \union Setup \union Remove

(* half: a failed enable left what it had written.  missed: a contract     *)
(* change was not applied to the service.  stale: the cached status is not *)
(* the service's.  upgrade: the package wrote its source during a command. *)
Breaches == {"crash", "half", "missed", "stale", "upgrade"}

Record(b, cond) == breach' = IF cond THEN breach \union {b} ELSE breach

(* application_status: `apt-cache policy` shows the url, not pinned off.   *)
Applied == url # NoUrl /\ source = url /\ url \in indexes /\ pref # "never"
CanEnable == entitled /\ ~Applied
Status == IF entitled /\ Applied THEN "enabled" ELSE "disabled"

Fetched == IF source = NoUrl THEN {} ELSE {source}

Goto(l) == pc' = l /\ UNCHANGED memory
Transition(from, to) == pc = from /\ Goto(to)

(* The process is gone, and with it what it kept in memory.                *)
Exit ==
  /\ pc' = "idle" /\ op' = "none"
  /\ then' = "end" /\ refetch' = TRUE /\ was' = FALSE
  /\ oldEntitled' = FALSE /\ oldUrl' = NoUrl

(* An exception ends the command; attach persists the status all the same. *)
Failed == IF op = "attach" THEN Goto("end") ELSE Exit

(* remove_apt_config, which raises without an aptURL directive; an ESM     *)
(* source is left on disk.                                                 *)
CallRemove(next, update) ==
  IF url = NoUrl THEN Failed
  ELSE /\ pc' = IF pin = "never" THEN "rm_auth" ELSE "rm_list"
       /\ then' = next /\ refetch' = update
       /\ UNCHANGED <<op, was, oldEntitled, oldUrl>>

Return ==
  IF then = "fail" THEN Failed ELSE Goto(then)

Begin(o, l, next) ==
  /\ pc = "idle" /\ pc' = l /\ op' = o
  /\ then' = next /\ refetch' = TRUE /\ was' = (auth # {})

(* The first step of a disable that goes on to the step given.             *)
FirstRemoval(next) ==
  IF ~Applied THEN next ELSE IF pin = "never" THEN "rm_auth" ELSE "rm_list"

-----------------------------------------------------------------------------
(* An ESM release has the package's source, pinned never, from the start.  *)
Init ==
  /\ pin \in Pins
  /\ attached = FALSE
  /\ entitled = FALSE /\ oldEntitled = FALSE
  /\ url = NoUrl /\ oldUrl = NoUrl
  /\ source \in IF pin = "never" THEN {NoUrl, Stock} ELSE {NoUrl}
  /\ pref = IF source = NoUrl THEN "absent" ELSE "never"
  /\ auth = {} /\ key = (source # NoUrl) /\ indexes = Fetched
  /\ cache = "absent"
  /\ op = "none" /\ pc = "idle" /\ then = "end" /\ refetch = TRUE
  /\ was = FALSE /\ breach = {}

-----------------------------------------------------------------------------
(* Commands *)

(* RepoEntitlement.enable and disable; both end with cfg.status().         *)
Enable ==
  /\ attached
  /\ Begin("enable", IF CanEnable THEN "token" ELSE "end", "end")
  /\ UNCHANGED <<oldEntitled, oldUrl>>
  /\ UNCHANGED <<pin, contract, source, auth, key, indexes, pref, cache, breach>>

Disable ==
  /\ attached
  /\ Begin("disable", FirstRemoval("end"), "end")
  /\ UNCHANGED <<oldEntitled, oldUrl>>
  /\ UNCHANGED <<pin, contract, source, auth, key, indexes, pref, cache, breach>>

(* _detach, for this service; the contract is forgotten at the end.        *)
Detach ==
  /\ attached
  /\ Begin("detach", FirstRemoval("forget"), "forget")
  /\ UNCHANGED <<oldEntitled, oldUrl>>
  /\ UNCHANGED <<pin, contract, source, auth, key, indexes, pref, cache, breach>>

Forget ==
  /\ pc = "forget" /\ Exit
  /\ attached' = FALSE /\ entitled' = FALSE /\ url' = NoUrl
  /\ cache' = "absent"
  /\ UNCHANGED <<pin, source, auth, key, indexes, pref, breach>>

(* request_updated_contract: the new contract is on disk before its deltas *)
(* are processed.                                                          *)
UpdateContract ==
  /\ Begin(IF attached THEN "refresh" ELSE "attach", "delta", "end")
  /\ oldEntitled' = entitled /\ oldUrl' = url
  /\ attached' = TRUE
  /\ entitled' \in BOOLEAN /\ url' \in Urls \union {NoUrl}
  /\ UNCHANGED <<pin, source, auth, key, indexes, pref, cache, breach>>

(* `ua status` as root.                                                    *)
SaveStatus ==
  /\ pc = "idle"
  /\ cache' = Status
  /\ UNCHANGED <<pin, contract, source, auth, key, indexes, pref, control, breach>>

-----------------------------------------------------------------------------
(* process_contract_deltas *)

UrlChanged == url # oldUrl

(* The status a delta goes by: the cached one when directives changed, for *)
(* the url looked for in `apt-cache policy` is already the new one.        *)
DeltaStatus(directives) ==
  IF directives /\ cache # "absent" THEN cache = "enabled" ELSE Applied

(* The delta leaves credentials for a url the contract no longer has.      *)
Leaves == auth \ {url} # {}

(* Mutant: an unentitled service is reported, not disabled. *)
DeltaUnentitledReported ==
  /\ pc = "delta" /\ op = "refresh"
  /\ oldEntitled /\ ~entitled
  /\ Goto("end") /\ Record("missed", Leaves)
  /\ UNCHANGED <<pin, contract, source, auth, key, indexes, pref, cache>>

DeltaUnentitled ==
  /\ pc = "delta" /\ op = "refresh"
  /\ oldEntitled /\ ~entitled
  /\ \E directives \in {UrlChanged, TRUE} :
       IF DeltaStatus(directives) /\ Applied
         THEN CallRemove("end", TRUE) /\ UNCHANGED breach
         ELSE Goto("end") /\ Record("missed", Applied \/ Leaves)
  /\ UNCHANGED <<pin, contract, source, auth, key, indexes, pref, cache>>

(* Mutant: allow_enable is not looked at. *)
DeltaDefaultAlways ==
  /\ pc = "delta" /\ CanEnable
  /\ Goto("token")
  /\ UNCHANGED <<pin, contract, source, auth, key, indexes, pref, cache, breach>>

(* enableByDefault in the delta: attach may enable, a refresh only says so.*)
DeltaDefault ==
  /\ pc = "delta" /\ CanEnable
  /\ \/ op = "attach" /\ Goto("token") /\ UNCHANGED breach
     \/ Goto("end") /\ Record("missed", Leaves)
  /\ UNCHANGED <<pin, contract, source, auth, key, indexes, pref, cache>>

(* The rest: rewrite the source of an enabled service whose url changed,   *)
(* and install the packages the contract added.  Reading a source that is  *)
(* not there, or looking in it for a dropped url, raises.                  *)
DeltaDirectives ==
  /\ pc = "delta"
  /\ op = "attach" \/ ~oldEntitled \/ entitled
  /\ \E packages \in BOOLEAN, directives \in {UrlChanged, TRUE} :
       /\ packages => directives
       /\ IF ~DeltaStatus(directives)
            THEN Goto("end") /\ Record("missed", Leaves)
          ELSE IF UrlChanged /\ (source = NoUrl \/ url = NoUrl)
            THEN Failed /\ Record("missed", Leaves)
          ELSE /\ Record("stale", auth = {})
               /\ \/ /\ UrlChanged /\ source # url
                     /\ IF oldUrl = NoUrl THEN CallRemove("token", TRUE)
                                          ELSE Goto("rw_list")
                  \/ /\ ~UrlChanged \/ source = url
                     /\ Goto(IF packages THEN "install" ELSE "end")
  /\ UNCHANGED <<pin, contract, source, auth, key, indexes, pref, cache>>

(* remove_auth_apt_repo for the old url, before remove_apt_config.         *)
RewriteList ==
  /\ Transition("rw_list", "rw_auth")
  /\ source' = NoUrl
  /\ UNCHANGED <<pin, contract, auth, key, indexes, pref, cache, breach>>

RewriteAuth ==
  /\ pc = "rw_auth"
  /\ CallRemove("token", TRUE)
  /\ auth' = auth \ {oldUrl}
  /\ UNCHANGED <<pin, contract, source, key, indexes, pref, cache, breach>>

-----------------------------------------------------------------------------
(* setup_apt_config and install_packages *)

(* Mutant: a contract without an aptURL directive is not refused. *)
GetTokenUnchecked ==
  /\ pc = "token"
  /\ Goto("pin") \/ ("server" \in Faults /\ Failed)
  /\ UNCHANGED <<pin, contract, source, auth, key, indexes, pref, cache, breach>>

GetToken ==
  /\ pc = "token"
  /\ \/ url # NoUrl /\ Goto("pin")
     \/ (url = NoUrl \/ "server" \in Faults) /\ Failed
  /\ UNCHANGED <<pin, contract, source, auth, key, indexes, pref, cache, breach>>

(* Mutant: the disabling pin file is left in place. *)
SetPinKept ==
  /\ Transition("pin", "prereq")
  /\ pref' = IF pin = "priority" THEN "priority" ELSE pref
  /\ UNCHANGED <<pin, contract, source, auth, key, indexes, cache, breach>>

(* "never" is what keeps a disabled service's packages out: enabling it    *)
(* removes that file.                                                      *)
SetPin ==
  /\ Transition("pin", "prereq")
  /\ pref' = IF pin = "priority" THEN "priority"
             ELSE IF pin = "never" THEN "absent" ELSE pref
  /\ UNCHANGED <<pin, contract, source, auth, key, indexes, cache, breach>>

InstallPrerequisites ==
  /\ pc = "prereq"
  /\ Goto("creds") \/ ("apt" \in Faults /\ CallRemove("fail", TRUE))
  /\ UNCHANGED <<pin, contract, source, auth, key, indexes, pref, cache, breach>>

(* assert_valid_apt_credentials and the policy call of add_auth_apt_repo:  *)
(* a failure undoes nothing.                                               *)
CheckCredentials ==
  /\ pc = "creds"
  /\ \/ Goto("list") /\ UNCHANGED breach
     \/ "apt" \in Faults /\ Failed /\ Record("half", pin # "none")
  /\ UNCHANGED <<pin, contract, source, auth, key, indexes, pref, cache>>

WriteList ==
  /\ Transition("list", "auth")
  /\ source' = url
  /\ UNCHANGED <<pin, contract, auth, key, indexes, pref, cache, breach>>

WriteAuth ==
  /\ Transition("auth", "key")
  /\ auth' = auth \union {url}
  /\ UNCHANGED <<pin, contract, source, key, indexes, pref, cache, breach>>

ExportKey ==
  /\ pc = "key"
  /\ \/ key' = TRUE /\ Goto("update") /\ UNCHANGED breach
     \/ "apt" \in Faults /\ Failed /\ Record("half", TRUE) /\ UNCHANGED key
  /\ UNCHANGED <<pin, contract, source, auth, indexes, pref, cache>>

(* Mutant: a failed `apt-get update` is not cleaned up after. *)
FetchIndexesUnclean ==
  /\ pc = "update"
  /\ \/ /\ indexes' = Fetched
        /\ Goto("install") \/ Goto("end")
     \/ "apt" \in Faults /\ Failed /\ UNCHANGED indexes
  /\ UNCHANGED <<pin, contract, source, auth, key, pref, cache, breach>>

FetchIndexes ==
  /\ pc = "update"
  /\ \/ /\ indexes' = Fetched
        /\ Goto("install") \/ Goto("end")
     \/ "apt" \in Faults /\ CallRemove("fail", FALSE) /\ UNCHANGED indexes
  /\ UNCHANGED <<pin, contract, source, auth, key, pref, cache, breach>>

InstallPackages ==
  /\ pc = "install"
  /\ Goto("end") \/ ("apt" \in Faults /\ CallRemove("fail", TRUE))
  /\ UNCHANGED <<pin, contract, source, auth, key, indexes, pref, cache, breach>>

-----------------------------------------------------------------------------
(* remove_apt_config *)

RemoveList ==
  /\ Transition("rm_list", "rm_key")
  /\ source' = NoUrl
  /\ UNCHANGED <<pin, contract, auth, key, indexes, pref, cache, breach>>

RemoveKey ==
  /\ Transition("rm_key", "rm_auth")
  /\ key' = FALSE
  /\ UNCHANGED <<pin, contract, source, auth, indexes, pref, cache, breach>>

RemoveAuth ==
  /\ Transition("rm_auth", IF pin = "never" THEN "rm_pref" ELSE "rm_index")
  /\ auth' = auth \ {url}
  /\ UNCHANGED <<pin, contract, source, key, indexes, pref, cache, breach>>

RemoveIndexes ==
  /\ Transition("rm_index", "rm_pref")
  /\ indexes' = indexes \ {url}
  /\ UNCHANGED <<pin, contract, source, auth, key, pref, cache, breach>>

(* Mutant: the pin file is removed for every kind of service. *)
RemovePrefAll ==
  /\ pc = "rm_pref"
  /\ pref' = IF pin # "none" THEN "absent" ELSE pref
  /\ IF refetch THEN Goto("rm_update") ELSE Return
  /\ UNCHANGED <<pin, contract, source, auth, key, indexes, cache, breach>>

RemovePref ==
  /\ pc = "rm_pref"
  /\ pref' = IF pin = "never" THEN "never"
             ELSE IF pin = "priority" THEN "absent" ELSE pref
  /\ IF refetch THEN Goto("rm_update") ELSE Return
  /\ UNCHANGED <<pin, contract, source, auth, key, indexes, cache, breach>>

RefetchIndexes ==
  /\ pc = "rm_update"
  /\ \/ indexes' = Fetched /\ Return
     \/ "apt" \in Faults /\ Failed /\ UNCHANGED indexes
  /\ UNCHANGED <<pin, contract, source, auth, key, pref, cache, breach>>

-----------------------------------------------------------------------------
(* enable, disable and attach write the status cache; a refresh does not.  *)
End ==
  /\ pc = "end" /\ Exit
  /\ cache' = IF op = "refresh" THEN cache ELSE Status
  /\ UNCHANGED <<pin, contract, source, auth, key, indexes, pref, breach>>

Crash ==
  /\ "crash" \in Faults /\ pc # "idle" /\ Exit
  /\ breach' = breach \union {"crash"}
  /\ UNCHANGED <<pin, contract, source, auth, key, indexes, pref, cache>>

(* The package's postinst, which takes no lock: an ESM release whose source*)
(* is missing gets the package's own, pinned never.                        *)
ConfigureEsm ==
  /\ pin = "never" /\ source = NoUrl
  /\ source' = Stock /\ pref' = "never" /\ key' = TRUE
  /\ Record("upgrade", pc # "idle")
  /\ UNCHANGED <<pin, contract, auth, indexes, cache, control>>

Delta == DeltaUnentitled \/ DeltaDefault \/ DeltaDirectives \/ RewriteList \/ RewriteAuth
SetupAptConfig ==
  \/ GetToken \/ SetPin \/ InstallPrerequisites \/ CheckCredentials \/ WriteList
  \/ WriteAuth \/ ExportKey \/ FetchIndexes \/ InstallPackages
RemoveAptConfig ==
  \/ RemoveList \/ RemoveKey \/ RemoveAuth \/ RemoveIndexes \/ RemovePref
  \/ RefetchIndexes

Next ==
  \/ Enable \/ Disable \/ Detach \/ Forget \/ UpdateContract \/ SaveStatus
  \/ Delta \/ SetupAptConfig \/ RemoveAptConfig \/ End \/ Crash \/ ConfigureEsm

Spec == Init /\ [][Next]_vars

-----------------------------------------------------------------------------
(* Properties *)

TypeOK ==
  /\ pin \in Pins
  /\ attached \in BOOLEAN /\ entitled \in BOOLEAN /\ oldEntitled \in BOOLEAN
  /\ url \in Urls \union {NoUrl} /\ oldUrl \in Urls \union {NoUrl}
  /\ source \in Urls \union {NoUrl}
  /\ auth \subseteq Urls /\ key \in BOOLEAN /\ indexes \subseteq Urls
  /\ pref \in {"absent", "never", "priority"}
  /\ cache \in {"absent", "enabled", "disabled"}
  /\ op \in Ops /\ pc \in Steps
  /\ then \in {"end", "fail", "token", "forget"}
  /\ refetch \in BOOLEAN /\ was \in BOOLEAN
  /\ breach \subseteq Breaches

(* Between commands the machine has credentials for the contract's own     *)
(* repository exactly while the service is reported enabled, and for no    *)
(* other one, up to the named ways of leaving a service half-configured:   *)
(* every failure that cleans up does so completely, in any sequence.       *)
CredentialsWhenEnabled ==
  breach = {} /\ pc = "idle" => auth = IF Applied THEN {url} ELSE {}

(* "Leave unauthenticated APT sources on disk with never pinning" (esm.py: *)
(* 84): between commands an ESM source without credentials is pinned off.  *)
NeverPinned ==
  pc = "idle" /\ pin = "never" /\ source # NoUrl /\ auth = {} => pref = "never"

(* ... unless one of the named breaches happened.                          *)
PinnedUnlessBreached == breach = {} => NeverPinned

(* A service the contract does not cover is not active between commands.   *)
UnentitledInactive == breach = {} /\ pc = "idle" /\ Applied => entitled

(* Without allow_enable a contract update enables nothing (base.py:393): a *)
(* refresh that finds no credentials adds none.                            *)
RefreshNeverEnables ==
  [][breach = {} /\ op = "refresh" /\ pc # "idle" /\ ~was => auth' = {}]_vars

(* Whatever earlier failures and crashes left behind, an enable that gets  *)
(* past `apt-get update` has configured the service completely.            *)
EnableConfigures ==
  [][pc = "update" /\ pc' \in {"install", "end"} /\ "upgrade" \notin breach =>
       /\ source = url /\ url \in auth /\ key
       /\ pin # "none" => pref = IF pin = "never" THEN "absent" ELSE "priority"]_vars

=============================================================================
