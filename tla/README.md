# Formal models of the Ubuntu Advantage client

TLA+ specifications of `ua`, the Ubuntu Advantage client: what its commands do
to the files, packages and server registrations they share, step by step, with
other commands, crashes and failures in between. Line numbers are those of
`src/`. `PROJECT.json` lists, for every definition, the lines it models.

## The system

`ua` is a Python command-line program, not a daemon. Every command is a process
that reads and writes shared state and exits; systemd units, a timer, the apt
hooks and the package's maintainer scripts start more of them. What is
concurrent in this system is *processes on files*, and what is hard is what
happens when they overlap, die halfway, or resume on what an earlier one left.

| Component | State it keeps | Operations | Hard because | Correct when |
|---|---|---|---|---|
| Lock and command gate (`cli.py` 101-186, 1006-1067; `config.py` 104-138, 323-386) | `private/lock` (pid and command), "Operation in progress" in `notices.json` | take, check, recover from a dead holder, release, clear on an exception | test and set are separate system calls; a stale lock is unlinked by name; `delete_cache` deletes it too | one command at a time; a dead command's lock is recovered; every command ends; nothing is left behind |
| Attachment (`cli.py` 480-774, `contract.py`, `config.py`) | `private/machine-token.json`, `private/machine-id`, the server's registrations, each command's copy of the token | attach, detach, refresh, enable, disable | the attached check is made before the lock; server answers get lost; crashes between disk and server | no service without a token; no registration lost track of; no command works on an old token |
| Apt-repository services (`entitlements/repo.py`, `base.py`, `esm.py`, `cis.py`, `cc.py`, `apt.py`) | source list, credentials line, key, index files, pin file of each service | enable, disable, contract deltas, clean-up after a failure | a dozen files and commands, any can fail; deltas apply to what an old contract configured; cached status | enabled means completely configured, disabled means no credentials and pinned; a refresh enables nothing |
| FIPS and incompatible services (`fips.py`, `base.py` 177-243) | packages, notices, the kernel's option now and at the next boot | enable, disable, contract changes, detach, status, setting up again at boot | needs a reboot; asking whether it can be enabled disables others | never both of two incompatible services; status agrees with the kernel |
| Livepatch (`livepatch.py`) | snap and its configuration | enable, disable, deltas | re-setup on changed directives | as for the others |
| Contract data (`contract.py` 233-388, `util.py` 145-288, `lib/upgrade_lts_contract.py`) | the contract on disk, and what each service was last set up for | a loop over all services after an attach, a refresh, a release upgrade | only what *changed* is applied, and once; a delta missed is never seen again; the series is part of it | every service is set up as the contract on disk says |
| apt credentials file (`apt.py` 227-283) | lines of `90ubuntu-advantage` | add, remove | one file for all services, apt takes the first match, lines match by prefix | each repository is fetched with its own service's token, none is left behind |
| Status report and cache (`config.py` 388-596, `status.py`) | `status.json` | compute, save, report | saved by some commands only, read by deltas and at boot | agrees with the services when it decides something |
| Notices (`config.py` 152-182) | `notices.json` | add, remove, read | read-modify-write without a lock | a notice is there while its condition is |
| Boot commands and release upgrades (`lib/reboot_cmds.py`, `lib/upgrade_lts_contract.py`, postinst) | marker file, notices | mark, run at boot, retry on a held lock, give up | `sys.exit` in steps, power cuts, the package marks without the lock | the marker is cleared only when the work is done |
| Cloud identity and auto-attach (`clouds/`, `cli.py` 699-761) | `instance-id` | detect the cloud, re-attach a cloned image | instance id cached and compared across boots | a clone gets an attachment of its own |
| Security fix (`security.py`) | none of its own | group packages, attach, enable, renew, install | several prompts and failures under one verdict | "resolved" only when every affected package is fixed |
| APT and MOTD messages (`lib/ua_update_messaging.py`, `apt-hook/`, `update-motd.d/`) | template files, announcement, disclaimer | rewrite from the contract's expiry and what is enabled | a timer and commands write them at once, piece by piece; day boundaries | in the end each message is the one due |
| HTTP client, subprocesses (`serviceclient.py`, `util.py`) | none | request, run, retry | timeouts | answers or fails |
| Configuration, packaging, tests, demo, tools | static | - | - | - |

How they interact: a command takes the lock, may talk to the contract server,
writes the contract to disk, then has each service react to what changed in it;
services run apt commands and write the apt configuration; all commands write
notices and most write the status cache. Messaging and `ua status` read those
files at any time without the lock. The maintainer scripts and the timers do
not take the lock either.

## Modules

| Module | Content |
|---|---|
| `ExclusiveLock` | abstract specification: one owner, recovered from dead owners only |
| `LockFile` | the lock as the code has it, one system call a step; refines `ExclusiveLock` |
| `LockFileProofs` | its inductive invariant, safety theorems and refinement |
| `AttachState` | token, machine id, registrations and services under the five commands |
| `AttachStateProofs` | its inductive invariant and theorems |
| `RepoEntitlement` | the apt files of one service under all commands |
| `RepoEntitlementProofs` | its inductive invariant and theorems |
| `ServiceConflicts` | FIPS, FIPS Updates and Livepatch under attach, enable, disable, contract changes, detach, status, the boot-time removal of holds, and reboots |
| `ServiceConflictsProofs` | its inductive invariant and theorems |
| `FixPlan` | what `ua fix` computes from the API's answers: statuses, fixed versions, pockets |
| `SecurityFix` | `ua fix` as a process among others, run again on what it left |
| `SecurityFixProofs` | lemmas on `FixPlan`'s operators, its inductive invariant and theorems |
| `BootCommands` | auto-attach and the deferred work at boot, cloned disks, power cuts |
| `BootCommandsProofs` | its inductive invariant and theorems |
| `AptAuth` | the credentials file as a sequence of lines, with its two functions |
| `ContractDeltas` | a changing contract reaching all services through one loop, over `AptAuth` |
| `ContractDeltasProofs` | lemmas on the file's two functions, its inductive invariant and theorems |
| `Messages` | the files MOTD and apt show, written by two processes at once |
| `MessagesProofs` | its inductive invariant and theorems |
| `MC...` | instances of the above for TLC |

Each later module takes as one step what an earlier one shows: `AttachState`
takes the lock atomically, which `LockFile` gives up to its first *breach*, and
`RepoEntitlement` runs one command at a time and has the contract change in one
step, which is `AttachState`'s subject. `ServiceConflicts` sets up and removes a
repository in one step, which is `RepoEntitlement`'s. `ContractDeltas` does the
same for all services, to follow the loop over them and the file they share.
`BootCommands` takes the services' part of the boot work as one bit of work due,
and `SecurityFix` takes attach, detach and enable as single steps with every
result that `AttachState` and `RepoEntitlement` show them to have.

**Breaches.** The code does not give all that its documentation promises. Where
it does not, a history variable `breach` (in `AttachState` also `leaked` and
`kept`) names the exact step that went wrong, and a property says that nothing
*else* goes wrong: "locked parts overlap only after one of these four", "a running command loses its
notice only in one of these ways".
Breaches never guard an action. `ContractDeltas` has the same for each service
(`lapses`), and `SecurityFix` for each run of the command (`breaches`). Three of
the promises are also checked as they stand, by runs expected to be violated.

### LockFile

`pc[p]` is the next system call of process `p`, `phase[p]` the code that is
making it. `CheckExists` ... `UnlinkStale` are `check_lock_info` (104-138);
`NoticeRead` ... `WriteLock` are `write_cache("lock")`, which adds the notice
first, then truncates, then writes; the second notice is `assert_lock_file`'s
own (`cli.py` 118-124). The bodies are reduced to what they do to the lock:
`cfg.status()` looks at it, `_detach` deletes it with the rest of the cache, and
auto-attach then goes on without it. `delete_cache` (`config.py` 346-349) comes to
`notices.json` after the lock, and deletes that file whole, whatever a command
that has taken the lock in between put there: `NoticesUnlink`, breach
"late_delete". `NoticesGone` is its `unlink` of a file that went after the test. `DeleteNotice` ... `DeleteUnlink` are
`delete_cache_key("lock")` wherever it is called from. `Raise` is an exception
that reaches `main_error_handler`. `Interrupt` is Ctrl-C at any step, `Crash` a
kill at any step. A pid is used once: pid reuse by the system is not modelled.
A non-root user cannot see into the private directory, so `os.path.exists` is
false there.

### AttachState

A process is a command; the machine token an attach by `p` obtains is named
`p`. `CheckAttached` is the decorator's check, before `TakeLock`, and fills the
process's copy of the token. Server failures come in two kinds: before and
after the server acted. `DeleteLock` covers the three places that delete the
lock file, none of which looks at whose it is. An interrupt at a step is a
failure or a crash of that step. Deltas after an attach try every service and
note the failures; those of a refresh are `RepoEntitlement`'s.

### RepoEntitlement

One service of one of three kinds by `repo_pin_priority`: "none", "never" (ESM,
which on disable removes only its credentials and pins its source off) and
"priority" (FIPS). `pc` walks through `setup_apt_config`, `install_packages`,
`remove_apt_config` and `process_contract_deltas` one file or apt command at a
time; `then` and `refetch` are `remove_apt_config`'s caller and argument. The
contract (entitled, url) changes arbitrarily in `UpdateContract`. `Applied` is
what `apt-cache policy` shows; apt itself is external: `apt-get update` fetches
the indexes of the listed source. Package names, suites, tokens and file
contents are abstracted; that a service is applicable is taken as given, and the
expiry of a service's access, which the code notes is not in use, is left out.
A delta of a service that vanished from the contract is never processed, which
is the same as a delta that is missed (breach "missed"). `ConfigureEsm` is the
package's postinst, which takes no lock.

### ServiceConflicts

FIPS and FIPS Updates share a metapackage (`meta`), whose scripts, which are
external, set the kernel option that the *next* boot has (`boot`); `proc` is
`/proc/sys/crypto/fips_enabled` of this one, "absent" on an ordinary kernel.
`Enabled` is `application_status`, which for FIPS depends on `proc`, and `Noted`
what asking for it does to `notices.json`. `CanEnable` and `HandleIncompatible`
are asked in two places, by an enable and by a contract change, and `then` says
which (`Decide` is the contract change's next step). `Looks` is what a question
for a service's status answers: `canonical-livepatch status`, when it fails after
its retries, is read as disabled (`livepatch.py` 202-210), so that a FIPS service can
be set up beside a Livepatch that is on ("unseen"). `yes` is `assume_yes`, which
`process_entitlement_delta` sets from `allow_enable`. `Suits` stands for all of
`applicability_status` that is not about other services. An attach brings
a contract whose services follow as contract changes. `Detach`, `DetachNext` and
`Forget` are `_detach`: what is seen enabled is disabled, one service after the
other and whatever comes of it, then token, notices and `reboot_cmds`' marker go;
a reboot that is still needed is no longer announced ("forgotten"). `FixHolds` to
`TellHeld` are `fix_pro_pkg_holds`, which sets FIPS up again by the cached status
("stale"), installs without `enable`'s clean-up and removes the reboot notice,
that of its own installation included ("hushed"); `due` says that the marker was
found at this boot. `InstallPackages` may fail after the metapackage is configured,
which leaves a boot option that nothing announces ("partial"). The holds
themselves, cloud metapackages and the list of packages are left out. `process_contract_deltas` of
Livepatch also enables on an obligation spelt `enabledByDefault`, which no
contract has, so that branch is not there. `HandleIncompatible` disables
Livepatch without its `can_disable`, since it has just found it enabled.

### FixPlan and SecurityFix

`FixPlan` has the pure part as operators: `MergeCve` keeps of two statuses the one
with the lower version, `MergeUsn` of two fixes the higher, `PocketsFor` lets a
source take its pocket from any of its binaries (the code takes whichever comes
last in a dictionary, which is any). Versions are numbers; the archive
(`Offered`, `Candidate`) is external. `SecurityFix` reads the answers one at a
time, in any subset the API may give, then walks through the pockets:
`UpgradeStandard`, `UpgradeEsm` and the prompts they lead to. `action_enable`
returning 0 after a failure is `EnableSwallows`. Between any two steps the
contract may end (`Lapse`), another command may turn a service off (`Withdraw`,
a detach's disables included), a detach may end (`DetachElsewhere`), and an
unattended upgrade may install. The end of a detach, this command's or another's,
is `DeleteCache`: the token and all notices go, and with them the notice of a
reboot still owed, which is then "lost". `fix` asks which beta services to leave
out (`security.py` 527-531), by the services' names, of a function that knows only
the pockets' names (748-756) and so finds none: no fix is ever left out, and the
module has no such filter. `need` records the highest version any
notice asked for: a reference that does not go through the code's merging.
`get_cves`, which nothing calls, and all texts are left out.

### BootCommands

One machine and its clone: instance ids and machine ids 1 and 2. `CompareIds` to
`AttachMachine` are `action_auto_attach`, `RetryLock` to `TellDone`
`lib/reboot_cmds.py`, in the order systemd gives them. `ExitProcess` is
`sys.exit` in a step, which no handler catches: the lock stays, and is stale.
`due` is the work an upgrade left, which only the steps that do it take away.
`fix_pro_pkg_holds` catches whatever `setup_apt_config`, the step that removes the
holds, raises (68-77) and goes on: `HoldsStay` is the run that then has nothing to
install and ends as if done, with the holds there and the marker gone ("held"). A
detach takes it all away, as nothing is left to apply it to. The server is
external: whether it goes by the machine id or by the token of a DELETE is left
open (`Deleted`). A power cut is possible at every step, postinst's two included.
`TakeLock` and `ReleaseLock` are any other command.

### AptAuth and ContractDeltas

`AptAuth` is the file as lines. The expression that reads a line stops at the
first "/", so it finds a host where a path is meant (`MatchedRepo`); `Rewritten` is
what then becomes of the line. `LinesWithout` is what a removal leaves, of one
repository or, in a detach, of several. Which line apt uses (`ServedToken`) is
external. The server gives no two services the same repository (`Urls`,
`UrlsAssumption`), as a line says nothing of the service it is for.
`ContractDeltas` has the loop of `process_entitlements_delta` with one step for
each service, in the order of the names, and one action for each way through
`process_entitlement_delta` and the services' `process_contract_deltas`:
`DeltaUnentitled`, `DeltaDefault`, `Rewrite`, `RewriteFails`, `Settled`, and
`DeltaFails` for an exception. `past` and `new` are what the loop was given,
`contract` what is on disk; after `ReadContracts` of the upgrade script the two
differ. The script compares the contract's two releases with each other and not
with what is configured: `Missed` is a service whose source has neither url,
because the contract was changed between the upgrade and the script. `Listed` is
`_check_apt_url_is_applied`, which looks for the new url anywhere in the source
file (`repo.py` 182): a url that is a part of the one there (`Contained`, a relation
of urls given as a constant) counts as applied, and the service keeps the old
source (lapse "source"). The cached status is taken to be the true one; `RepoEntitlement` has the
case where it is not. An overlay of the machine token, a setting for tests, is
left out.

### Messages

Two updaters, "command" (attach, detach, enable and disable of an ESM service
run one at their end) and "timer". Each reads the contract once and asks for
services' statuses when the code does, `esm-infra`'s twice. The four templates of
a service say the same thing and are one text; `left` is the days the process has
read. Changes of the machine, kills included, are bounded (`MaxChanges`); the timer
is not. `FirstDay` and `LastDay` bound the days of a contract.

## Runs

| Run | Instance | What it shows |
|---|---|---|
| `lock_safe` | 3 processes, detach and auto-attach (the commands that also delete the lock), crashes | locked parts overlap only after a named breach; the lock is its user's own; the notice is there, up to a named breach; nothing is left at rest; refinement of `ExclusiveLock` |
| `lock_ends` | 2 processes, every command, crashes and interrupts, fairness | every command ends, `status --wait` included, and root's `--wait` does not miss a command |
| `lock_torn` (violation) | 3 processes one after the other, crashes | a kill between open and write leaves a file no command can parse or remove |
| `attach_safe` | 4 processes, 2 services, all commands, all faults | services need a token; registrations accounted for; copies current; tokens not replaced |
| `repo_safe` | 3 kinds, 2 urls, all faults | credentials exactly while enabled; pinned off while disabled; unentitled means inactive; refresh enables nothing; an enable configures everything whatever it starts from |
| `conflicts_safe` | 3 services, attach, enable, disable, contract changes, detach, boot-time hold removal, all faults, reboots | FIPS and Livepatch both on only after one of three named breaches; without a breach an enabled FIPS service boots into FIPS, a needed reboot is announced and an announced one needed |
| `conflicts_kept` (violation) | 3 services, all faults | a contract change of a FIPS service disables Livepatch and enables nothing |
| `fix_safe` | 2 CVEs, 3 notices, 2 sources with 3 binaries, 3 pockets, two runs of the command | "resolved" means fixed and what is not fixed is listed, up to a breach; a pending reboot keeps its notice unless a detach, by whichever command, deletes it; a renewal is asked for when it is due, or was when the expiry was read |
| `fix_resolved` (violation) | the same | an enable that failed counts as done, and the issue as resolved |
| `boot_safe` | 1 machine and its clone, 2 package upgrades, 3 retries, fairness | work left for the boot keeps its marker up to a breach; a clone ends up attached as itself and takes nobody else's seat away; every boot ends |
| `contract_safe` | 3 services on one host, 2 contract updates, 1 release upgrade | every service is set up as the contract says, is fetched with its own token, and leaves no credentials, up to its lapses |
| `messages_safe` | 2 updaters, 2 services, 4 kinds of release, 3 changes or kills, fairness | whatever the interleaving, in the end every message is the one due |

**Bounds.** Three processes give every pairwise race over the lock together
with a third command that recovers or overwrites what the pair left (the file
one removes may be that of a second and be missed by the third). Four commands
give attach, detach, attach and one more, the shortest history in which a copy
from the first attachment could meet the second. A service's url changes
between two values: the code compares the old and the new and no third. In
`repo_safe` and `conflicts_safe` the sequence of commands is unbounded; a history is not followed
beyond its second breach (`MCBreachBound`), after which nearly no property says
anything; in `lock_safe` a history with a breach of the lock itself is not followed
beyond its third, as only the type invariant speaks of it after the first. In `fix_safe` two CVEs and three notices are the fewest in which
statuses, versions and pockets of one source disagree with one another, and the three sets of installed packages have all,
one or none of a source's binaries; the second run begins on whatever the first
left. Two package upgrades let one come while the other's work is being done;
more only repeat that. In `contract_safe` the three services have a bare host
with a path under it, a url that changes with the contract, in one direction to one that is a part of it, one that changes
with the release and on the older one with the contract too (so that an update
between an upgrade and its script can be missed), a rotated token, and an entitlement that ends or vanishes; two
updates are a change and a change of the change, and five lines are more than
three services can need, so that duplicates appear. In `messages_safe` the periods of notice and of
grace are one day each, so that within five days every boundary is crossed, and
three changes or kills let one come in each of two overlapping updates and one
after both. Processes are symmetric, services too; the runs with liveness do not
use symmetry. `CHECK_DEADLOCK FALSE` is there because commands do come to an
end: when all of them have, nothing is left to do.

**Fairness.** `FairSpec` has weak fairness of `Step(p)` for every process: one
that has started is scheduled by the operating system and its body's commands
(apt, HTTP with timeouts) come back. Nothing is assumed of starts, crashes or
interrupts. No fairness is needed between processes: a command that finds the
lock held fails, and does not wait. `BootCommands` has weak fairness of the boot's
own steps: systemd runs the units it has started; nothing makes a machine boot
or another command release the lock. `Messages` has weak fairness of each updater
that runs and of the timer (`OnCalendar` in `ua-messaging.timer`): a machine
that is switched off for good promises nothing.

## What is proved

TLAPS checks these for every value of the modules' constants: any number of
processes in `LockFile` and `AttachState`, of services and urls in
`ContractDeltas`, of packages, notices and versions in `SecurityFix`, of boots'
updates and retries in `BootCommands`, any set of faults in each, and any lengths
of the two periods in `Messages`. The two ESM services and two writers of
`Messages` and the three services of `ServiceConflicts` are fixed by their modules,
as by the code. Every invariant of a passing
run is a theorem, and so are the action properties. Each argument has its
inductive invariant, which TLC also finds to hold on the instance of the run, a
lemma for each part of it and action that can disturb the part, and a theorem
for each property.

*LockFile.* The inductive invariant `LockInv` is `TypeOK`, `GateInv` (steps that
acquire happen at the gate), `StalePidIsDead`, `OrphanInv` and `LockIsOwned`.
Exclusion is not inductive by itself: it needs the lock file to *be* the pid of
whoever is in the locked part (`LockIsOwned`), which needs that a stale pid
belongs to a process that has ended for good, or a removal could hit a live
owner; and that no unlinked file is still being written (`OrphanInv`), or a
write could not reach the name. `Exclusive` follows: two processes would both
be the lock's content. `NoticeInv` adds who takes the lock file and the notice
away again (`DeleteInv`, `SnapInv`), and that without a breach each of them
belongs to a command that has yet to do so (`RestInv`). `NoticeWhileHeld`
follows up to the breaches that name how a notice is lost, the detach that
deletes `notices.json` after its own lock among them; and, without interrupts, `CleanAtRest`: nothing handles an interrupt
between the opening and the writing of the lock file, and the torn file stays
(run `lock_torn` reaches it by a kill). `WaitSeesCommand` is an action property of
`LockInv`. `Refinement` shows each step to be a step of
`ExclusiveLock` or a stutter, from the same invariant.

*AttachState.* `AttachInv` is `TypeOK`, `Shape` (what a `pc` says of the command,
its copy and its list, breached or not) and, without a breach, `Guarded`: the
process inside is the holder, its copy is empty or the token on disk, and how
far a detach has come says which services and registrations can be left.
`ServicesNeedToken`, `SeatsAccounted`, `NoStaleCopy` and `NotReplaced` follow.

*RepoEntitlement.* A service between commands is `Off` or `On`; `RepoInv` says of
every step in between which files are written and which are gone
(`SettingUp`, `Removing`), so that a failure finds what it has to undo.
`Written` is the part that needs no absence of breaches: an enable writes every
file itself, whatever is there, hence `EnableComplete`. `WasOn` is what makes it
inductive across a contract update: the service is on for the contract as it
was, and only the delta at hand knows that. `CredentialsFollow`, `PinKept`,
`UnentitledOff` and `RefreshEnablesNothing` follow.

*ServiceConflicts.* Exclusion needs `Exclusive`: Livepatch on means no FIPS
service is *set up*, which is more than not enabled, because one that is set up
may become enabled by a reboot alone; and at the step that sets one up Livepatch
is already off, or was not seen ("unseen"); and from the question to the client's start Livepatch comes on
only with none set up, or on a kernel without fips=1. These ways out and a stale
cached status at boot are the breaches that `NeverBoth` names. `Bootable` ties the kernel option to the metapackage and says at
which steps a service may be without it; `Told` and `Noticed` relate the notices
to the option of this boot and the next, up to a breach: a detach that deletes the
notices with a reboot pending is one. `NeverTogether`, `EnabledBoots`,
`RebootTold` and `TellsTheTruth` follow.

*SecurityFix.* That "resolved" means fixed is a chain through the whole command.
`MergedInv`: what the notices are merged into is, for each installed package, the
highest version any of them asked for; this is where `Max` of a set of versions
is needed, which exists by `MaxVersion`. `PlanInv`: every affected source is in
the list or in a pocket's group, and every installed package of a group is to be
upgraded or new enough. `GoneInv`: what was to be upgraded from a pocket the
command has gone through is upgraded, or the whole group is listed. `SnapInv`
keeps it true while others install: versions only grow. `NothingOmitted` and
`ResolvedMeansFixed` follow, `RebootRemembered` from `RebootInv`, and the action
property `RenewalWhenDue` from the types.

*BootCommands.* `PendingMarked` needs that only an attached machine has work due
(`DueInv`). `AttachedAsItself` needs that a saved id is this machine's or the
original's (`IdsInv`), and that a token next to this machine's id is its own
(`TokenInv`), which in turn needs that auto-attach asks for one only when there is
none. `LockKept` is proved along with them: boot commands run under the lock,
auto-attach up to where it deletes it with the rest of the cache. The action
property `DetachAsItself` follows from the same invariant.

*ContractDeltas.* A service of which nothing was missed has kept step
(`StepInv`): while the loop has still to come to it, it is set up as the *old*
contract says, afterwards as the new one does, and between a release upgrade and
the end of its script as either release says. `GoneInv` says that its lines in the
credentials file are for its own present repository, `ServedInv` that the first line
apt may use for it is its own, with the token of the contract the loop has or
will set it up for. Two facts on the file carry these: what is left by
`LinesWithout`, and what line is the first to serve a repository after
`AddAptAuthConfEntry`. They are lemmas
about any file (`WithoutLines`, `WithoutFirst`, `AddLines`, `AddKeepsFirst`,
`AddedFirst`), from facts on `FlattenSeq` for sequences of at most one element each,
and from `EveryStep`, which gets induction up to a length from the least element
of a set. `InStep`, `CredentialsGone` and `CredentialsServed` follow. In the
first attempt `StepInv` was not inductive: an update of the contract between a
release's upgrade and its script leaves a source with neither of the two urls the
script compares. It is now the lapse `Missed`, and the instance of
`contract_safe` has a url for which it happens.

*Messages.* `WritesDue`, the step that writes what it computed without having
been overtaken writes what is due, needs that the text for a day, whichever side of
the two periods' bounds it is on, is what a reader should be told (`TextIsDue`),
that no service is on without a contract (`EnabledInv`), and that a process that
found a service on has read one (`ReadInv`). It says what one process does, where
`MessagesCatchUp` says what becomes of all of them; no run checks it.

Assumptions: the constants' typing (`LockAssumption`, `AttachAssumption`,
`RepoAssumption`, `ConflictsAssumption`, `PlanAssumption`, `FixAssumption`,
`BootAssumption`, `MessagesAssumption`, `ContainedAssumption`, and of `DeltasAssumption` also that a
service is in the loop once); that the host of a host is itself
(`AptAuthAssumption`); that services do not share repositories
(`UrlsAssumption`). TLC evaluates them in the runs. `NothingLeft` also assumes
that there are no interrupts. No axioms.

*Only model-checked.* `EveryCommandEnds`, `BootEnds` and `MessagesCatchUp`:
liveness, which the prover cannot do.

## Where code and documentation disagree

Three are shown by a run of their own:

1. A dead command's lock is removed (`config.py` 107): not an empty one, on which
   every later command fails (`lock_torn`).
2. "When we are enabling the entitlement we can directly ask the user if those
   entitlements can be disabled": a contract change disables Livepatch without
   enabling FIPS (`conflicts_kept`).
3. "True if enable performed" (`security.py` 1026): also when it was not, and the
   issue is then reported resolved (`fix_resolved`).

The others are breaches, leaks or lapses of a model, so that the properties of
the passing runs hold up to them:

4. Exclusive access (`cli.py` 102): the check and the write of the lock are not
   one operation (`LockFile`).
5. `status --wait` by a user other than root does not wait: the file is in a
   directory he cannot see into (`LockFile`; `WaitSeesCommand` is about root's).
6. "Detach will disable the following service": or not, when the disable is
   refused (`kept` of `AttachState`).
7. "Report the attached machine should be detached": not after a fresh attach,
   which caches no machine id ("no machine-id" of `AttachState`).
8. "Leave unauthenticated APT sources on disk with never pinning": a failed
   enable leaves one without a pin (`RepoEntitlement`).
9. "Add or replace an apt auth line" (`apt.py` 227): a line for a path is never
   replaced, since only its host is read; a second one is put in front of it. A
   new line for a bare host replaces every line of the host, other services'
   included (`AptAuth`, lapse "token").
10. An entitlement that vanishes from the contract keeps its service, and so
    does a detach after that; a delta that failed or was cut short is not tried
    again; a url that is a part of the old one counts as applied, since
    `_check_apt_url_is_applied` looks for it anywhere in the file (`repo.py` 182);
    and a url the contract changes between a release upgrade and its script is
    not noticed by the script (`ContractDeltas`, lapse "source").
11. `ua-reboot-cmds` gives up the work of a release upgrade, marker and all, when
    its script fails ("gaveup" of `BootCommands`), removes a marker that a later
    upgrade has just put there ("raced"), leaves FIPS holds alone when the
    status cache does not have FIPS as enabled ("skipped"), and takes a failed
    removal of the holds for a done one when no package is left to install
    ("held", `reboot_cmds.py` 68-77).
12. The no-warranty disclaimer is one file of two services: `esm-apps`' is there
    until `esm-infra`'s replaces it. On a release not yet in active ESM the
    messages of a disabled `esm-infra` stay as they were (`SkipOrWriteInfra`), and
    `ua refresh` leaves all messages to the timer (`Messages`).
13. `ua fix` is to leave out the fixes of services in beta, and leaves out none:
    it looks them up by the wrong names (`security.py` 527-531, 748-756).
14. A detach deletes every notice, not only its own: that of a command that has
    just taken the lock ("late_delete" of `LockFile`), and that of a reboot still
    needed ("forgotten" of `ServiceConflicts`, "lost" in `owed` of `SecurityFix`).

The breaches of `ServiceConflicts` name more that no document speaks of: FIPS
enabled again on its kernel in disabled state does not keep Livepatch out
("switched off"); a Livepatch whose status command fails is taken for disabled and
left on under FIPS ("unseen"), and `reboot_cmds` may set FIPS up beside it from a
cached status ("stale"), and takes back the notice of the reboot its own
installation needs ("hushed"); an installation that fails late leaves the kernel
option without a service ("partial"); disabling FIPS takes FIPS Updates' kernel option along
("shared"); and notices stay after FIPS is disabled before the reboot, enabled
again before it, or its kernel removed ("early", "undone", "kernel").

## Plan

Done: every component of the inventory that has state of its own: lock,
attachment, apt-repository services, services that exclude each other, contract
deltas and credentials file, security fix, boot commands and auto-attach,
messages. Each has its inductive invariant and the theorems that follow from it.

Next: a statement of `Messages` about what a reader may see while updaters
overlap, beyond `WritesDue`; the loop of `ContractDeltas` as a refinement of a
specification that applies a contract to all services at once.

## Not modelled

The C++ and Go apt hooks and the wording of the messages are text output.
Requests and commands either answer or fail after their retries, and both are
inputs of the modules, so HTTP and subprocesses have no module. The
configuration is read once by a process. Of the packaging, postinst's parts with
state are in `RepoEntitlement` and `BootCommands`; the rest runs with no command of the
client in between. The status report's tables and the detection of a cloud
are answers without state. There is no clock: a contract is over or not, and the
difference between UTC and local time near its end (`security.py` 1116) is
outside the models.
