---------------------------- MODULE AttachState ----------------------------
(***************************************************************************)
(* The attachment of the machine: what `ua attach`, `detach`, `refresh`,   *)
(* `enable` and `disable` do to the machine token and the machine id on    *)
(* disk, to the registration kept by the contract server and to the        *)
(* services, with the in-memory copy of the token each command carries.    *)
(*                                                                         *)
(* The lock is taken in one step here, which is what LockFile provides up  *)
(* to its first breach; the deletions of it are those of the code, those   *)
(* that hit another command's lock included.  The attached check of        *)
(* assert_attached and assert_not_attached comes before the lock.          *)
(***************************************************************************)
CONSTANTS
  Pids,      (* one command each; an attach by p gets the machine token p  *)
  None,
  Services,  (* entitled services, all of them enabled by default          *)
  Commands,  (* the commands run                                           *)
  Faults     (* "crash": a process dies; "server": a request fails or its  *)
             (* answer is lost; "refuse": a service's disable returns      *)
             (* False; "service": enabling or disabling one raises         *)

ASSUME AttachAssumption ==
  /\ None \notin Pids
  /\ Commands \subseteq {"attach", "detach", "refresh", "enable", "disable"}
  /\ Faults \subseteq {"crash", "server", "refuse", "service"}

VARIABLES
  token,       (* machine-token.json: the attach it is from, or None       *)
  idCached,    (* private/machine-id holds this machine's id               *)
  registered,  (* the machine tokens the contract server honours           *)
  enabled,     (* the services that are enabled on the machine             *)
  holder,      (* the pid in the lock file, or None                        *)
  pc,          (* next step of each process                                *)
  cmd,         (* command of each process                                  *)
  tok,         (* cfg._machine_token of each process                       *)
  todo,        (* the services a process still has to go through           *)
  leaked,      (* history: the tokens that stay registered, by the reason  *)
  kept,        (* history: services a detach went past without disabling   *)
  breach       (* history: ways the lock or the attached check was evaded  *)

vars == <<token, idCached, registered, enabled, holder, pc, cmd, tok, todo,
          leaked, kept, breach>>

disk == <<token, idCached>>
history == <<leaked, kept, breach>>

(* The steps between taking the lock and giving it up.                     *)
Inside == {"request", "write", "write_id", "delta", "service", "prompt",
           "disable", "report", "del_id", "del_token", "del_lock"}
Live == Inside \union {"check", "lock", "tail", "release", "abort"}
Dead == {"ok", "failed", "crashed"}

(* Why a registration may outlive the machine's use of it.                 *)
Leaks == {"no machine-id", "lost answer", "crash"}

Alive(p) == pc[p] \in Live

Goto(p, l) == pc' = [pc EXCEPT ![p] = l]
Transition(p, from, to) == pc[p] = from /\ Goto(p, to)

(* cfg.machine_token: the file is read again while the copy is empty.      *)
MachineToken(p) == IF tok[p] # None THEN tok[p] ELSE token
Leak(t, why) == leaked' = [leaked EXCEPT ![why] = @ \union {t}]

-----------------------------------------------------------------------------
Init ==
  /\ token = None /\ idCached = FALSE
  /\ registered = {} /\ enabled = {}
  /\ holder = None
  /\ pc = [p \in Pids |-> "unborn"]
  /\ cmd \in [Pids -> Commands]
  /\ tok = [p \in Pids |-> None]
  /\ todo = [p \in Pids |-> {}]
  /\ leaked = [why \in Leaks |-> {}] /\ kept = {} /\ breach = {}

Start(p) ==
  /\ Transition(p, "unborn", "check")
  /\ UNCHANGED <<disk, registered, enabled, holder, cmd, tok, todo, history>>

(* assert_not_attached for attach, assert_attached for the others          *)
CheckAttached(p) ==
  /\ pc[p] = "check"
  /\ tok' = [tok EXCEPT ![p] = MachineToken(p)]
  /\ Goto(p, IF (cmd[p] = "attach") <=> (MachineToken(p) = None)
               THEN "lock" ELSE "failed")
  /\ UNCHANGED <<disk, registered, enabled, holder, cmd, todo, history>>

FirstStep(p) ==
  IF cmd[p] = "detach" THEN "prompt"
  ELSE IF cmd[p] = "disable" THEN "service" ELSE "request"

(* assert_lock_file: a lock that is free, or left by a dead command, is    *)
(* taken; the token may have changed since the attached check.             *)
TakeLock(p) ==
  /\ Transition(p, "lock", FirstStep(p))
  /\ holder # None => ~Alive(holder)
  /\ holder' = p
  /\ breach' = IF tok[p] # token THEN breach \union {"stale_check"} ELSE breach
  /\ UNCHANGED <<disk, registered, enabled, cmd, tok, todo, leaked, kept>>

LockHeld(p) ==
  /\ Transition(p, "lock", "failed")
  /\ holder # None /\ Alive(holder)
  /\ UNCHANGED <<disk, registered, enabled, holder, cmd, tok, todo, history>>

-----------------------------------------------------------------------------
(* request_updated_contract *)

(* Mutant: the server registers what the machine's token file says.        *)
AttachRequestUnsigned(p) ==
  /\ pc[p] = "request" /\ cmd[p] = "attach" /\ Goto(p, "write")
  /\ registered' = registered \union {MachineToken(p)}
  /\ UNCHANGED <<disk, enabled, holder, cmd, tok, todo, history>>

(* attach: an unattached machine presents its contract token.  The answer  *)
(* may be an error, or be lost after the server has registered the machine;*)
(* a machine that has been attached meanwhile is a RuntimeError.           *)
AttachRequest(p) ==
  /\ pc[p] = "request" /\ cmd[p] = "attach"
  /\ tok' = [tok EXCEPT ![p] = MachineToken(p)]
  /\ \/ /\ MachineToken(p) # None
        /\ Goto(p, "abort") /\ UNCHANGED <<registered, leaked>>
     \/ /\ MachineToken(p) = None
        /\ registered' = registered \union {p}
        /\ Goto(p, "write") /\ UNCHANGED leaked
     \/ /\ MachineToken(p) = None /\ "server" \in Faults
        /\ Goto(p, "release") /\ UNCHANGED <<registered, leaked>>
     \/ /\ MachineToken(p) = None /\ "server" \in Faults
        /\ registered' = registered \union {p}
        /\ Leak(p, "lost answer") /\ Goto(p, "release")
  /\ UNCHANGED <<disk, enabled, holder, cmd, todo, kept, breach>>

(* refresh and enable present the machine token they carry.  A failure     *)
(* ends refresh and is ignored by enable.                                  *)
RefreshRequest(p) ==
  /\ pc[p] = "request" /\ cmd[p] \in {"refresh", "enable"}
  /\ \/ tok[p] \in registered /\ Goto(p, "write")
     \/ /\ tok[p] \notin registered \/ "server" \in Faults
        /\ Goto(p, IF cmd[p] = "enable" THEN "service" ELSE "abort")
  /\ UNCHANGED <<disk, registered, enabled, holder, cmd, tok, todo, history>>

(* Mutant: an update, too, writes a registration of its own.               *)
WriteTokenOwn(p) ==
  /\ pc[p] = "write"
  /\ token' = p
  /\ tok' = [tok EXCEPT ![p] = None]
  /\ Goto(p, IF cmd[p] = "attach" THEN "delta" ELSE "write_id")
  /\ UNCHANGED <<idCached, registered, enabled, holder, cmd, todo, history>>

(* write_cache("machine-token"), which forgets the copy in memory.  attach *)
(* goes on to the new entitlements; an update also caches the machine id.  *)
WriteToken(p) ==
  /\ pc[p] = "write"
  /\ token' = IF cmd[p] = "attach" THEN p ELSE tok[p]
  /\ tok' = [tok EXCEPT ![p] = None]
  /\ \/ /\ cmd[p] = "attach" /\ Goto(p, "delta")
        /\ \E s \in {Services, {}} : todo' = [todo EXCEPT ![p] = s] \* allow_enable
     \/ cmd[p] # "attach" /\ Goto(p, "write_id") /\ UNCHANGED todo
  /\ UNCHANGED <<idCached, registered, enabled, holder, cmd, history>>

WriteMachineId(p) ==
  /\ Transition(p, "write_id", IF cmd[p] = "enable" THEN "service" ELSE "release")
  /\ idCached' = TRUE
  /\ tok' = [tok EXCEPT ![p] = MachineToken(p)]
  /\ UNCHANGED <<token, registered, enabled, holder, cmd, todo, history>>

(* process_entitlements_delta after an attach: each service is enabled or  *)
(* its failure is noted, and the next one is tried.                        *)
DeltaService(p) ==
  /\ Transition(p, "delta", "delta")
  /\ \E s \in todo[p] :
       /\ todo' = [todo EXCEPT ![p] = @ \ {s}]
       /\ \/ enabled' = enabled \union {s}
          \/ "service" \in Faults /\ UNCHANGED enabled
  /\ UNCHANGED <<disk, registered, holder, cmd, tok, history>>

DeltasDone(p) ==
  /\ Transition(p, "delta", "release")
  /\ todo[p] = {}
  /\ UNCHANGED <<disk, registered, enabled, holder, cmd, tok, todo, history>>

-----------------------------------------------------------------------------
(* action_enable and action_disable, for one service.  Both look at the    *)
(* copy of the token only (contract_status).                               *)
EnableService(p) ==
  /\ pc[p] = "service" /\ cmd[p] = "enable"
  /\ \/ /\ \E s \in Services : enabled' = enabled \union {s}
        /\ Goto(p, "release")
     \/ /\ "service" \in Faults
        /\ Goto(p, "release") \/ Goto(p, "abort")
        /\ UNCHANGED enabled
  /\ UNCHANGED <<disk, registered, holder, cmd, tok, todo, history>>

DisableService(p) ==
  /\ pc[p] = "service" /\ cmd[p] = "disable"
  /\ \/ /\ \E s \in Services : enabled' = enabled \ {s}
        /\ Goto(p, "release")
     \/ "refuse" \in Faults /\ Goto(p, "release") /\ UNCHANGED enabled
     \/ "service" \in Faults /\ Goto(p, "abort") /\ UNCHANGED enabled
  /\ UNCHANGED <<disk, registered, holder, cmd, tok, todo, history>>

-----------------------------------------------------------------------------
(* _detach *)

(* The enabled services are collected and the user is asked; No returns 1. *)
DetachPrompt(p) ==
  /\ pc[p] = "prompt"
  /\ \/ Goto(p, "disable") /\ todo' = [todo EXCEPT ![p] = enabled]
     \/ Goto(p, "release") /\ UNCHANGED todo
  /\ UNCHANGED <<disk, registered, enabled, holder, cmd, tok, history>>

(* ent.disable(silent=True): the result is not looked at.                  *)
DetachDisable(p) ==
  /\ pc[p] = "disable"
  /\ \E s \in todo[p] :
       /\ todo' = [todo EXCEPT ![p] = @ \ {s}]
       /\ \/ /\ enabled' = enabled \ {s}
             /\ Goto(p, "disable") /\ UNCHANGED kept
          \/ /\ "refuse" \in Faults
             /\ kept' = kept \union {s}
             /\ Goto(p, "disable") /\ UNCHANGED enabled
          \/ /\ "service" \in Faults
             /\ Goto(p, "abort") /\ UNCHANGED <<enabled, kept>>
  /\ UNCHANGED <<disk, registered, holder, cmd, tok, leaked, breach>>

(* Mutant: the detach goes on after the first service.                     *)
DetachDisabledEarly(p) ==
  /\ Transition(p, "disable", "report")
  /\ UNCHANGED <<disk, registered, enabled, holder, cmd, tok, todo, history>>

DetachDisabled(p) ==
  /\ Transition(p, "disable", "report")
  /\ todo[p] = {}
  /\ UNCHANGED <<disk, registered, enabled, holder, cmd, tok, todo, history>>

(* Mutant: an error of the server is ignored.                              *)
DetachReportIgnored(p) ==
  /\ Transition(p, "report", "del_id")
  /\ idCached
  /\ \/ registered' = registered \ {tok[p]}
     \/ "server" \in Faults /\ UNCHANGED registered
  /\ UNCHANGED <<disk, enabled, holder, cmd, tok, todo, history>>

(* detach_machine_from_contract: the server is told only when the cached   *)
(* machine id is that of this machine.                                     *)
DetachReport(p) ==
  /\ pc[p] = "report"
  /\ \/ /\ ~idCached
        /\ Leak(tok[p], "no machine-id") /\ Goto(p, "del_id")
        /\ UNCHANGED registered
     \/ /\ idCached
        /\ registered' = registered \ {tok[p]}
        /\ Goto(p, "del_id") /\ UNCHANGED leaked
     \/ /\ idCached
        /\ tok[p] \notin registered \/ "server" \in Faults
        /\ Goto(p, "abort") /\ UNCHANGED <<registered, leaked>>
     \/ /\ idCached /\ "server" \in Faults
        /\ registered' = registered \ {tok[p]}
        /\ Goto(p, "abort") /\ UNCHANGED leaked
  /\ UNCHANGED <<disk, enabled, holder, cmd, tok, todo, kept, breach>>

(* delete_cache, in the order of data_paths.                               *)
DeleteMachineId(p) ==
  /\ Transition(p, "del_id", "del_token")
  /\ idCached' = FALSE
  /\ UNCHANGED <<token, registered, enabled, holder, cmd, tok, todo, history>>

(* Mutant: the copy in memory outlives the file.                           *)
DeleteTokenFile(p) ==
  /\ Transition(p, "del_token", "del_lock")
  /\ token' = None
  /\ UNCHANGED <<idCached, registered, enabled, holder, cmd, tok, todo, history>>

DeleteToken(p) ==
  /\ Transition(p, "del_token", "del_lock")
  /\ token' = None
  /\ tok' = [tok EXCEPT ![p] = None]
  /\ UNCHANGED <<idCached, registered, enabled, holder, cmd, todo, history>>

-----------------------------------------------------------------------------
(* delete_cache_key("lock"): inside delete_cache, after the command has    *)
(* returned, and in main_error_handler.  Whose lock it is is not looked at.*)
DeleteLock(p) ==
  /\ \/ Transition(p, "del_lock", "tail")
     \/ Transition(p, "tail", "ok")        \* after update_ua_messages
     \/ Transition(p, "release", "ok")
     \/ Transition(p, "abort", "failed")
  /\ holder' = None
  /\ breach' = IF holder \notin {None, p}
                 THEN breach \union {"foreign_delete"} ELSE breach
  /\ tok' = [tok EXCEPT ![p] = None]
  /\ todo' = [todo EXCEPT ![p] = {}]
  /\ UNCHANGED <<disk, registered, enabled, cmd, leaked, kept>>

(* The process dies; what is on disk and at the server stays.              *)
Crash(p) ==
  /\ "crash" \in Faults
  /\ Alive(p)
  /\ Goto(p, "crashed")
  /\ tok' = [tok EXCEPT ![p] = None]
  /\ todo' = [todo EXCEPT ![p] = {}]
  /\ IF pc[p] = "write" /\ cmd[p] = "attach"
       THEN Leak(p, "crash") ELSE UNCHANGED leaked
  /\ UNCHANGED <<disk, registered, enabled, holder, cmd, kept, breach>>

-----------------------------------------------------------------------------
Contract(p) == AttachRequest(p) \/ RefreshRequest(p) \/ WriteToken(p)
                 \/ WriteMachineId(p) \/ DeltaService(p) \/ DeltasDone(p)
Detach(p) == DetachPrompt(p) \/ DetachDisable(p) \/ DetachDisabled(p)
               \/ DetachReport(p) \/ DeleteMachineId(p) \/ DeleteToken(p)

Step(p) ==
  \/ Start(p) \/ CheckAttached(p) \/ TakeLock(p) \/ LockHeld(p)
  \/ Contract(p) \/ EnableService(p) \/ DisableService(p) \/ Detach(p)
  \/ DeleteLock(p) \/ Crash(p)

Next == \E p \in Pids : Step(p)

Spec == Init /\ [][Next]_vars

-----------------------------------------------------------------------------
(* Properties *)

TypeOK ==
  /\ token \in Pids \union {None}
  /\ idCached \in BOOLEAN
  /\ registered \subseteq Pids
  /\ enabled \subseteq Services
  /\ holder \in Pids \union {None}
  /\ pc \in [Pids -> Live \union Dead \union {"unborn"}]
  /\ cmd \in [Pids -> Commands]
  /\ tok \in [Pids -> Pids \union {None}]
  /\ todo \in [Pids -> SUBSET Services]
  /\ leaked \in [Leaks -> SUBSET (Pids \union {None})]
  /\ kept \subseteq Services
  /\ breach \subseteq {"stale_check", "foreign_delete"}

(* A machine with no token has no service enabled, at every moment and     *)
(* after any crash, except for those whose disable was refused during a    *)
(* detach, and as long as no command evaded the check or the lock.         *)
NoServiceUnattached == breach = {} /\ token = None => enabled \subseteq kept

(* An attachment is never replaced by another one: the token file changes  *)
(* from one attach to another only through a detach.                       *)
TokenNotReplaced ==
  [][breach = {} /\ token # None => token' \in {token, None}]_vars

(* Every registration the server keeps is the machine's current one, one   *)
(* about to be written by the attach that got it, or one of the named      *)
(* leaks: the ways a contract seat can stay taken.                         *)
RegistrationsAccounted ==
  breach = {} =>
    \A t \in registered :
      \/ t = token
      \/ cmd[t] = "attach" /\ pc[t] = "write"
      \/ \E why \in Leaks : t \in leaked[why]

(* While the lock and the check are not evaded, commands that carry a copy *)
(* of the token inside the lock carry the one on disk.                     *)
CopyIsCurrent ==
  breach = {} =>
    \A p \in Pids : pc[p] \in Inside => tok[p] \in {token, None}

=============================================================================
