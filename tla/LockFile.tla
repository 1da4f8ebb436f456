------------------------------ MODULE LockFile ------------------------------
(***************************************************************************)
(* The advisory lock that every state-changing `ua` command takes          *)
(* (uaclient/cli.py: assert_lock_file, main_error_handler; config.py:      *)
(* check_lock_info, write_cache, delete_cache_key, status), one system     *)
(* call at a time: the lock file is tested, read, its pid looked up,       *)
(* unlinked when stale, truncated, written and removed by separate steps,  *)
(* and any other command may run between two of them.                      *)
(*                                                                         *)
(* A process of Pids runs one command and is never started again, so a     *)
(* pid names one command: pid reuse by the operating system is not here.   *)
(***************************************************************************)
CONSTANTS
  Pids,      (* process ids of the commands that may be run                *)
  Absent,    (* no lock file; also "no pid", the -1 of check_lock_info     *)
  Torn,      (* a lock file opened for writing and not yet written         *)
  Commands,  (* the commands the processes run                             *)
  Faults,    (* which of "crash" and "interrupt" may hit a process         *)
  Overlap    (* FALSE: a command starts only when no other one is running  *)

(* Commands that take the lock, by what their body does with it: "refresh" *)
(* leaves it alone; "enable" (also disable, attach) ends with cfg.status();*)
(* "detach" deletes it with the rest of the cache, and after it the        *)
(* notices; "auto-attach" may detach first and then attaches.              *)
Locking == {"refresh", "enable", "detach", "auto-attach"}

(* Commands that only look at it: `ua status` by root, `ua status --wait`  *)
(* by root and by another user.                                            *)
Reporting == {"status", "wait", "user wait"}
Waiting == {"wait", "user wait"}

ASSUME LockAssumption ==
  /\ Absent \notin Pids
  /\ Torn \notin Pids
  /\ Absent # Torn
  /\ Commands \subseteq Locking \union Reporting
  /\ Faults \subseteq {"crash", "interrupt"}
  /\ Overlap \in BOOLEAN

VARIABLES
  lock,     (* the lock file: Absent, Torn, or the pid written in it       *)
  orphan,   (* processes whose open lock file was unlinked before the write*)
  notices,  (* the "Operation in progress" entries of notices.json         *)
  pc,       (* the next step of each process                               *)
  phase,    (* the code each process is in, see Phases                     *)
  cmd,      (* the command each process runs                               *)
  seen,     (* lock_pid in check_lock_info; Absent stands for -1           *)
  snap,     (* the notices a read-modify-write of notices.json has read    *)
  breach    (* history: the ways a file was changed on a stale view of it  *)

vars == <<lock, orphan, notices, pc, phase, cmd, seen, snap, breach>>

Dead == {"ok", "held", "error", "crashed"}
Live == {"exists", "load", "ps", "unlink", "note_read", "note_write",
         "create", "content", "renote_read", "renote_write", "body",
         "del_notice", "del_exists", "del_unlink", "all_unlink",
         "st_read", "st_write", "report"}

(* gate: the prologue of assert_lock_file.  body: the decorated function.  *)
(* drop: delete_cache inside _detach, up to the lock.  resume: the rest of *)
(* delete_cache and the function after it.                                 *)
(* release: the epilogue of assert_lock_file.  clear: main_error_handler.  *)
(* status: the status command.                                             *)
Phases == {"gate", "body", "drop", "resume", "release", "clear", "status"}

(* overwrite: a lock file that was not there at the check was truncated.   *)
(* stale_unlink: the file removed as stale is not the file examined.       *)
(* foreign_delete: a command deleted a lock file that another one wrote.   *)
(* dropped: auto-attach went on after _detach had deleted its lock.        *)
LockBreaches == {"overwrite", "stale_unlink", "foreign_delete", "dropped"}

(* notice_race: notices.json changed between the read and the write.       *)
(* foreign_notice: the notice deleted is that of another command's lock.   *)
(* late_delete: delete_cache, its own lock deleted, deleted notices.json   *)
(* while the lock was another command's.                                   *)
Breaches == LockBreaches \union {"notice_race", "foreign_notice", "late_delete"}

Alive(p) == pc[p] \in Live

(* Mutant: the lock is armed only once the body has returned.              *)
ArmedLate(p) == phase[p] = "release"

(* The processes that main_error_handler would clear the lock for          *)
(* (_CLEAR_LOCK_FILE is set).                                              *)
Armed(p) == phase[p] \in {"body", "drop", "resume", "release"}

(* The processes that count on the lock: from the write of their pid until *)
(* the decorated function returns, or has itself deleted the lock and only *)
(* messages are left to update.                                            *)
Critical(p) ==
  /\ Alive(p)
  /\ \/ pc[p] \in {"renote_read", "renote_write"}
     \/ phase[p] \in {"body", "drop"}
     \/ phase[p] = "resume" /\ cmd[p] = "auto-attach"

Goto(p, l) == pc' = [pc EXCEPT ![p] = l]
Enter(p, f) == phase' = [phase EXCEPT ![p] = f]
Record(b, cond) == breach' = IF cond THEN breach \union {b} ELSE breach

(* An exception reaches main_error_handler, which deletes the lock when it *)
(* is armed; the handler itself is not guarded by another one.             *)
Raise(p) ==
  /\ IF Armed(p)
       THEN Goto(p, "del_notice") /\ Enter(p, "clear")
       ELSE Goto(p, "error") /\ UNCHANGED phase
  /\ seen' = [seen EXCEPT ![p] = Absent]
  /\ snap' = [snap EXCEPT ![p] = {}]

(* unlink(2) of the lock file: writers keep an open, unnamed file.         *)
Unlink ==
  /\ lock' = Absent
  /\ orphan' = orphan \union {q \in Pids : pc[q] = "content"}

-----------------------------------------------------------------------------
Init ==
  /\ lock = Absent
  /\ orphan = {}
  /\ notices = {}
  /\ pc = [p \in Pids |-> "unborn"]
  /\ phase = [p \in Pids |-> "gate"]
  /\ cmd \in [Pids -> Commands]
  /\ seen = [p \in Pids |-> Absent]
  /\ snap = [p \in Pids |-> {}]
  /\ breach = {}

Start(p) ==
  /\ pc[p] = "unborn"
  /\ Overlap \/ \A q \in Pids : ~Alive(q)
  /\ Goto(p, "exists")
  /\ Enter(p, IF cmd[p] \in Locking THEN "gate" ELSE "status")
  /\ UNCHANGED <<lock, orphan, notices, cmd, seen, snap, breach>>

-----------------------------------------------------------------------------
(* check_lock_info *)

Root(p) == cmd[p] # "user wait"

AfterCheck(p) ==
  IF phase[p] = "gate" THEN "note_read"
  ELSE IF Root(p) THEN "st_read" ELSE "report"

(* Mutant: only a command that takes the lock looks at it.                 *)
CheckExistsAtGate(p) ==
  /\ pc[p] = "exists"
  /\ Goto(p, IF lock = Absent \/ phase[p] # "gate" THEN AfterCheck(p) ELSE "load")
  /\ UNCHANGED <<lock, orphan, notices, phase, cmd, seen, snap, breach>>

(* The lock file is in the private directory (data_paths, mode 0700):      *)
(* os.path.exists is false there for anyone but root.                      *)
CheckExists(p) ==
  /\ pc[p] = "exists"
  /\ Goto(p, IF lock = Absent \/ ~Root(p) THEN AfterCheck(p) ELSE "load")
  /\ UNCHANGED <<lock, orphan, notices, phase, cmd, seen, snap, breach>>

(* Mutant: what is in the file is not parsed.                              *)
CheckLoadUnparsed(p) ==
  /\ pc[p] = "load"
  /\ seen' = [seen EXCEPT ![p] = lock]
  /\ Goto(p, "ps")
  /\ UNCHANGED <<lock, orphan, notices, phase, cmd, snap, breach>>

(* A file that is gone, or empty, is an exception nobody expects.          *)
CheckLoad(p) ==
  /\ pc[p] = "load"
  /\ IF lock \in Pids
       THEN /\ seen' = [seen EXCEPT ![p] = lock]
            /\ Goto(p, "ps")
            /\ UNCHANGED <<phase, snap>>
       ELSE Raise(p)
  /\ UNCHANGED <<lock, orphan, notices, cmd, breach>>

(* `ps` finds the pid: the lock is held.                                   *)
CheckHeld(p) ==
  /\ pc[p] = "ps"
  /\ Alive(seen[p])
  /\ IF phase[p] = "gate"
       THEN Goto(p, "held") /\ seen' = [seen EXCEPT ![p] = Absent]
       ELSE Goto(p, AfterCheck(p)) /\ UNCHANGED seen
  /\ UNCHANGED <<lock, orphan, notices, phase, cmd, snap, breach>>

(* Mutant: the pid is not looked up.                                       *)
CheckStaleUnchecked(p) ==
  /\ pc[p] = "ps" /\ Goto(p, "unlink")
  /\ UNCHANGED <<lock, orphan, notices, phase, cmd, seen, snap, breach>>

CheckStale(p) ==
  /\ pc[p] = "ps"
  /\ ~Alive(seen[p])
  /\ Goto(p, "unlink")
  /\ UNCHANGED <<lock, orphan, notices, phase, cmd, seen, snap, breach>>

UnlinkStale(p) ==
  /\ pc[p] = "unlink"
  /\ IF lock = Absent
       THEN Raise(p) /\ UNCHANGED <<lock, orphan, breach>>
       ELSE /\ Unlink
            /\ Record("stale_unlink", lock # seen[p])
            /\ Goto(p, AfterCheck(p))
            /\ seen' = [seen EXCEPT ![p] = Absent]
            /\ UNCHANGED <<phase, snap>>
  /\ UNCHANGED <<notices, cmd>>

-----------------------------------------------------------------------------
(* assert_lock_file: write_cache("lock"), add_notice, arm, call *)

(* add_notice reads the notices and, a step later, writes them back with   *)
(* its own; it is called by write_cache before the lock file is written    *)
(* and once more by assert_lock_file after it.                             *)
NoticeRead(p) ==
  /\ pc[p] \in {"note_read", "renote_read"}
  /\ snap' = [snap EXCEPT ![p] = notices]
  /\ Goto(p, IF pc[p] = "note_read" THEN "note_write" ELSE "renote_write")
  /\ UNCHANGED <<lock, orphan, notices, phase, cmd, seen, breach>>

NoticeWrite(p) ==
  /\ pc[p] \in {"note_write", "renote_write"}
  /\ IF cmd[p] \in snap[p]
       THEN UNCHANGED <<notices, breach>>
       ELSE /\ notices' = snap[p] \union {cmd[p]}
            /\ Record("notice_race", notices # snap[p])
  /\ snap' = [snap EXCEPT ![p] = {}]
  /\ IF pc[p] = "note_write"
       THEN Goto(p, "create") /\ UNCHANGED phase
       ELSE Goto(p, "body") /\ Enter(p, "body")
  /\ UNCHANGED <<lock, orphan, cmd, seen>>

(* write_file: open(filename, "wb") truncates whatever is there.           *)
CreateLock(p) ==
  /\ pc[p] = "create"
  /\ lock' = Torn
  /\ Record("overwrite", lock # Absent)
  /\ Goto(p, "content")
  /\ UNCHANGED <<orphan, notices, phase, cmd, seen, snap>>

(* Mutant: the pid is still in the writer's buffer when the body begins.   *)
WriteLockUnflushed(p) ==
  /\ pc[p] = "content" /\ Goto(p, "renote_read")
  /\ orphan' = orphan \ {p}
  /\ UNCHANGED <<lock, notices, phase, cmd, seen, snap, breach>>

WriteLock(p) ==
  /\ pc[p] = "content"
  /\ lock' = IF p \in orphan THEN lock ELSE p
  /\ orphan' = orphan \ {p}
  /\ Goto(p, "renote_read")
  /\ UNCHANGED <<notices, phase, cmd, seen, snap, breach>>

-----------------------------------------------------------------------------
(* The decorated function, as far as it touches the lock *)

BodyRefresh(p) ==
  /\ pc[p] = "body" /\ phase[p] = "body"
  /\ cmd[p] \in {"refresh", "detach"}   \* a declined detach returns 1
  /\ Goto(p, "del_notice") /\ Enter(p, "release")
  /\ UNCHANGED <<lock, orphan, notices, cmd, seen, snap, breach>>

(* enable, disable and attach end with cfg.status(), which looks at the    *)
(* lock itself.                                                            *)
BodyStatus(p) ==
  /\ pc[p] = "body"
  /\ \/ phase[p] = "body" /\ cmd[p] \in {"enable", "auto-attach"}
     \/ phase[p] = "resume" /\ cmd[p] = "auto-attach"
  /\ Goto(p, "exists")
  /\ UNCHANGED <<lock, orphan, notices, phase, cmd, seen, snap, breach>>

(* _detach: delete_cache deletes every cache key, "lock" among them, and   *)
(* goes on to the notices.                                                 *)
BodyDetach(p) ==
  /\ pc[p] = "body" /\ phase[p] = "body"
  /\ cmd[p] \in {"detach", "auto-attach"}
  /\ Goto(p, "del_notice") /\ Enter(p, "drop")
  /\ UNCHANGED <<lock, orphan, notices, cmd, seen, snap, breach>>

(* _detach after delete_cache: update_ua_messages and return.              *)
DetachReturns(p) ==
  /\ pc[p] = "body" /\ phase[p] = "resume" /\ cmd[p] = "detach"
  /\ Goto(p, "del_notice") /\ Enter(p, "release")
  /\ UNCHANGED <<lock, orphan, notices, cmd, seen, snap, breach>>

BodyFails(p) ==
  /\ pc[p] = "body"
  /\ Raise(p)
  /\ UNCHANGED <<lock, orphan, notices, cmd, breach>>

-----------------------------------------------------------------------------
(* delete_cache_key("lock") *)

(* Mutant: _detach deletes the cache before it does its work.              *)
AfterDeleteThenWork(p) ==
  \/ phase[p] = "drop" /\ Goto(p, "body") /\ Enter(p, "body")
  \/ phase[p] = "release" /\ Goto(p, "ok") /\ UNCHANGED phase
  \/ phase[p] \notin {"drop", "release"} /\ Goto(p, "error") /\ UNCHANGED phase

(* delete_cache comes to "notices" after "lock" and unlinks the file if    *)
(* os.path.exists finds one then.  None is found when there are no notices *)
(* at all, or when the dict had them first (its order is arbitrary before  *)
(* Python 3.6) and they went with the lock's own.                          *)
AfterDelete(p) ==
  \/ phase[p] = "drop" /\ Goto(p, "all_unlink") /\ Enter(p, "resume")
  \/ phase[p] = "drop" /\ Goto(p, "body") /\ Enter(p, "resume")
  \/ phase[p] = "release" /\ Goto(p, "ok") /\ UNCHANGED phase
  \/ phase[p] \notin {"drop", "release"} /\ Goto(p, "error") /\ UNCHANGED phase

(* remove_notice("", "Operation in progress.*"): whatever was read, no     *)
(* such entry is written back.                                             *)
DeleteNotice(p) ==
  /\ pc[p] = "del_notice"
  /\ notices' = {}
  /\ Record("foreign_notice", lock \notin {Absent, p})
  /\ Goto(p, "del_exists")
  /\ UNCHANGED <<lock, orphan, phase, cmd, seen, snap>>

DeleteExists(p) ==
  /\ pc[p] = "del_exists"
  /\ IF lock = Absent
       THEN AfterDelete(p)
       ELSE Goto(p, "del_unlink") /\ UNCHANGED phase
  /\ UNCHANGED <<lock, orphan, notices, cmd, seen, snap, breach>>

DeleteUnlink(p) ==
  /\ pc[p] = "del_unlink"
  /\ IF lock = Absent
       THEN Raise(p) /\ UNCHANGED <<lock, orphan, breach>>
       ELSE /\ Unlink
            /\ breach' = breach
                 \union (IF lock # p THEN {"foreign_delete"} ELSE {})
                 \union (IF phase[p] = "drop" /\ cmd[p] = "auto-attach"
                           THEN {"dropped"} ELSE {})
            /\ AfterDelete(p)
            /\ UNCHANGED <<seen, snap>>
  /\ UNCHANGED <<notices, cmd>>

-----------------------------------------------------------------------------
(* delete_cache_key("notices"), without the lock *)

NoticesUnlink(p) ==
  /\ pc[p] = "all_unlink"
  /\ notices' = {}
  /\ Record("late_delete", lock \notin {Absent, p})
  /\ Goto(p, "body")
  /\ UNCHANGED <<lock, orphan, phase, cmd, seen, snap>>

(* Another command removed the file in between, as remove_notice does with *)
(* its last entry.                                                         *)
NoticesGone(p) ==
  /\ pc[p] = "all_unlink"
  /\ notices = {}
  /\ Raise(p)
  /\ UNCHANGED <<lock, orphan, notices, cmd, breach>>

-----------------------------------------------------------------------------
(* UAConfig.status after the check, and action_status *)

(* Root removes its own reboot notice, which rewrites all of notices.json, *)
(* unless a reboot is still needed.                                        *)
StatusRead(p) ==
  /\ pc[p] = "st_read"
  /\ \/ Goto(p, "report") /\ UNCHANGED snap
     \/ Goto(p, "st_write") /\ snap' = [snap EXCEPT ![p] = notices]
  /\ UNCHANGED <<lock, orphan, notices, phase, cmd, seen, breach>>

(* Mutant: status removes every notice, not its own.                       *)
StatusWriteNothing(p) ==
  /\ pc[p] = "st_write" /\ Goto(p, "report")
  /\ notices' = {}
  /\ Record("notice_race", notices # snap[p])
  /\ snap' = [snap EXCEPT ![p] = {}]
  /\ UNCHANGED <<lock, orphan, phase, cmd, seen>>

StatusWrite(p) ==
  /\ pc[p] = "st_write"
  /\ notices' = snap[p]
  /\ Record("notice_race", notices # snap[p])
  /\ snap' = [snap EXCEPT ![p] = {}]
  /\ Goto(p, "report")
  /\ UNCHANGED <<lock, orphan, phase, cmd, seen>>

(* Mutant: the pid seen in one round is still there in the next.           *)
ReportStale(p) ==
  /\ pc[p] = "report"
  /\ IF phase[p] = "status"
       THEN /\ Goto(p, IF cmd[p] \in Waiting /\ seen[p] # Absent
                         THEN "exists" ELSE "ok")
            /\ UNCHANGED phase
       ELSE Goto(p, "del_notice") /\ Enter(p, "release")
  /\ UNCHANGED <<lock, orphan, notices, cmd, seen, snap, breach>>

(* --wait asks again while the lock was active; a status called at the end *)
(* of a body returns to assert_lock_file.                                  *)
Report(p) ==
  /\ pc[p] = "report"
  /\ \/ /\ phase[p] = "status"
        /\ IF cmd[p] \in Waiting /\ seen[p] # Absent
             THEN Goto(p, "exists")
             ELSE Goto(p, "ok")
        /\ UNCHANGED phase
     \/ /\ phase[p] # "status"
        /\ Goto(p, "del_notice") /\ Enter(p, "release")
  /\ seen' = [seen EXCEPT ![p] = Absent]
  /\ UNCHANGED <<lock, orphan, notices, cmd, snap, breach>>

-----------------------------------------------------------------------------
(* Faults *)

(* KeyboardInterrupt at any point is handled as any exception is.          *)
Interrupt(p) ==
  /\ "interrupt" \in Faults
  /\ Alive(p)
  /\ Raise(p)
  /\ orphan' = orphan \ {p}
  /\ UNCHANGED <<lock, notices, cmd, breach>>

(* SIGKILL, power loss, or the SystemExit that reboot_cmds raises in its   *)
(* body: the process ends and nothing is cleaned up.                       *)
Crash(p) ==
  /\ "crash" \in Faults
  /\ Alive(p)
  /\ Goto(p, "crashed") /\ Enter(p, "gate")
  /\ seen' = [seen EXCEPT ![p] = Absent]
  /\ snap' = [snap EXCEPT ![p] = {}]
  /\ orphan' = orphan \ {p}
  /\ UNCHANGED <<lock, notices, cmd, breach>>

-----------------------------------------------------------------------------
Check(p) == CheckExists(p) \/ CheckLoad(p) \/ CheckHeld(p) \/ CheckStale(p)
              \/ UnlinkStale(p)
Acquire(p) == NoticeRead(p) \/ NoticeWrite(p) \/ CreateLock(p) \/ WriteLock(p)
Body(p) == BodyRefresh(p) \/ BodyStatus(p) \/ BodyDetach(p)
             \/ DetachReturns(p) \/ BodyFails(p)
Delete(p) == DeleteNotice(p) \/ DeleteExists(p) \/ DeleteUnlink(p)
DeleteAll(p) == NoticesUnlink(p) \/ NoticesGone(p)
Status(p) == StatusRead(p) \/ StatusWrite(p) \/ Report(p)

Step(p) == Check(p) \/ Acquire(p) \/ Body(p) \/ Delete(p) \/ DeleteAll(p)
             \/ Status(p)
Fault(p) == Interrupt(p) \/ Crash(p)

Next == \E p \in Pids : Start(p) \/ Step(p) \/ Fault(p)

Spec == Init /\ [][Next]_vars

(* A started process keeps running: the operating system schedules it, and *)
(* the commands its body runs come to an end.                              *)
FairSpec == Spec /\ \A p \in Pids : WF_vars(Step(p))

-----------------------------------------------------------------------------
(* Properties *)

TypeOK ==
  /\ lock \in Pids \union {Absent, Torn}
  /\ orphan \subseteq Pids
  /\ notices \subseteq Locking
  /\ pc \in [Pids -> Live \union Dead \union {"unborn"}]
  /\ phase \in [Pids -> Phases]
  /\ cmd \in [Pids -> Commands]
  /\ seen \in [Pids -> Pids \union {Absent}]
  /\ snap \in [Pids -> SUBSET Locking]
  /\ breach \subseteq Breaches

(* "Decorator asserting exclusive access to lock file" (cli.py:102): no    *)
(* two commands are inside their locked part at the same time.             *)
MutualExclusion ==
  \A p, q \in Pids : Critical(p) /\ Critical(q) => p = q

(* The abstract lock this one implements until the first breach.           *)
Excl == INSTANCE ExclusiveLock WITH
  None <- Absent,
  owner <- IF lock = Torn THEN Absent ELSE lock,
  inside <- {p \in Pids : Critical(p)},
  dead <- {p \in Pids : pc[p] \in Dead},
  broken <- breach \intersect LockBreaches # {}

(* Every history of lock files and commands is one of ExclusiveLock: a     *)
(* lock is acquired when nobody owns it and no locked part runs, released  *)
(* by its owner, and recovered from a dead owner only.                     *)
ImplementsExclusiveLock == Excl!Spec

(* What the code does give: the locked parts overlap only after one of the *)
(* named breaches, each of which is a file changed on a stale view of it.  *)
(* There is no other way in, whatever crashes and interrupts happen.       *)
ExclusiveUnlessBreached == breach \intersect LockBreaches = {} => MutualExclusion

(* The lock file a command counts on is the one it wrote, and the file is  *)
(* half-written only by one command at a time, again up to a breach.       *)
LockIsOwned ==
  breach \intersect LockBreaches = {} =>
    \A p \in Pids :
      /\ Critical(p) => lock = p
      /\ pc[p] = "content" => /\ lock = Torn
                              /\ \A q \in Pids : pc[q] = "content" => q = p

(* What check_lock_info knows when it unlinks a stale file: the pid it read *)
(* belonged to a command that has ended, for good.                         *)
StalePidIsDead ==
  \A p \in Pids :
    /\ lock = p => pc[p] # "unborn"
    /\ pc[p] = "ps" => seen[p] \in Pids /\ pc[seen[p]] # "unborn"
    /\ pc[p] = "unlink" => seen[p] \in Pids /\ pc[seen[p]] \in Dead

(* `ua status` announces the running operation: its notice is there as     *)
(* long as the command is in its locked part, unless notices.json or the   *)
(* lock was changed on a stale view, for another command's lock, or by a   *)
(* detach that had already deleted its own.                                *)
NoticeWhileHeld ==
  breach = {} =>
    \A p \in Pids : Critical(p) /\ phase[p] = "body" => cmd[p] \in notices

(* Commands that have all ended of themselves, failed ones included, leave *)
(* no lock file and no notice behind, up to a breach; a killed one may.    *)
CleanAtRest ==
  breach = {} /\ (\A p \in Pids : pc[p] \in {"unborn", "ok", "held", "error"})
    => lock = Absent /\ notices = {}

(* "Block waiting on ua to complete" (cli.py:424): root's `ua status       *)
(* --wait` does not take a command in its locked part for no command, up   *)
(* to a breach. Another user's always does: the file is out of sight.      *)
WaitSeesCommand ==
  [][\A p \in Pids :
       /\ cmd[p] \in Waiting /\ Root(p) /\ CheckExists(p)
       /\ breach \intersect LockBreaches = {}
       /\ \E q \in Pids : Critical(q)
       => pc'[p] = "load"]_vars

(* "If process claiming the lock is no longer present, remove the lock     *)
(* file" (config.py:107): a root command that runs alone is not stopped by *)
(* the lock file of a dead one.                                            *)
DeadLockRemoved == \A p \in Pids : phase[p] = "gate" => pc[p] # "error"

(* Every command ends, the waiting ones too.                               *)
EveryCommandEnds == \A p \in Pids : Alive(p) ~> pc[p] \in Dead

=============================================================================
