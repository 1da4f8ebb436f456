------------------------------- MODULE Messages -------------------------------
(***************************************************************************)
(* The files in messages/ that MOTD and apt show of the two ESM services   *)
(* (lib/ua_update_messaging.py): written by a command at its end and twice *)
(* a day by a timer, two processes that take no lock from one another,     *)
(* each reading the state piece by piece and writing file by file.         *)
(*                                                                         *)
(* The four templates of a service say the same and are one text here; how *)
(* the hooks render them is left out.  External: the timer, the calendar   *)
(* and distro-info, which tells what kind of release this is.              *)
(***************************************************************************)
EXTENDS Integers

CONSTANTS
  Grace, Pending,   (* CONTRACT_EXPIRY_GRACE_PERIOD_DAYS, .._PENDING_DAYS  *)
  FirstDay, LastDay,  (* bound: the remaining days of a contract           *)
  MaxChanges        (* bound: changes of what the messages are about, and  *)
                    (* updaters killed                                     *)

ASSUME MessagesAssumption ==
  /\ Grace \in Nat /\ Pending \in Nat /\ MaxChanges \in Nat
  /\ FirstDay \in Int /\ LastDay \in Int /\ FirstDay < -Grace /\ Pending < LastDay

Services == {"apps", "infra"}
Updaters == {"command", "timer"}

VARIABLES
  release,   (* "trusty" and "esm": in active ESM; "lts": not yet;         *)
             (* "interim": not an LTS                                      *)
  beta,      (* features.allow_beta                                        *)
  attached, days,   (* the contract and the days it has left               *)
  enabled,   (* the ESM services that are on                               *)
  text,      (* what the templates of a service say                        *)
  warranty,  (* the file ubuntu-no-warranty is there                       *)
  announce,  (* the file motd-esm-announce is there                        *)
  pc,        (* where each updater is                                      *)
  left,      (* the days it has read; NoContract without a contract        *)
  on,        (* whether it has found the service at hand enabled           *)
  changes    (* changes so far                                             *)

machine == <<release, beta, attached, days, enabled>>
files == <<text, warranty, announce>>
process == <<pc, left, on>>
vars == <<machine, files, process, changes>>

NoContract == LastDay + 1
ActiveEsm == release \in {"trusty", "esm"}
IsLts == release # "interim"

Texts == {<<"none", 0>>, <<"disabled", 0>>, <<"expired", 0>>}
           \union ({"soon"} \X (0..Pending)) \union ({"grace"} \X (0..Grace))

(* Mutant: the day the contract ends is not counted among the last ones.   *)
ExpiryOffByOne(l) ==
  IF l = NoContract THEN "none"
  ELSE IF 0 < l /\ l <= Pending THEN "soon"
  ELSE IF -Grace <= l /\ l < 0 THEN "grace"
  ELSE IF l < -Grace THEN "expired" ELSE "active"

(* get_contract_expiry_status                                              *)
Expiry(l) ==
  IF l = NoContract THEN "none"
  ELSE IF 0 <= l /\ l <= Pending THEN "soon"
  ELSE IF -Grace <= l /\ l < 0 THEN "grace"
  ELSE IF l < -Grace THEN "expired" ELSE "active"

(* Mutant: the days of grace are counted the wrong way.                    *)
TextWrongSign(l, e) ==
  IF ~e THEN IF Expiry(l) = "expired" THEN <<"none", 0>> ELSE <<"disabled", 0>>
  ELSE CASE Expiry(l) = "soon" -> <<"soon", l>>
         [] Expiry(l) = "grace" -> <<"grace", Grace - l>>
         [] Expiry(l) = "expired" -> <<"expired", 0>>
         [] OTHER -> <<"none", 0>>

(* What the templates say of a service that is enabled, or is not.         *)
Text(l, e) ==
  IF ~e THEN IF Expiry(l) = "expired" THEN <<"none", 0>> ELSE <<"disabled", 0>>
  ELSE CASE Expiry(l) = "soon" -> <<"soon", l>>
         [] Expiry(l) = "grace" -> <<"grace", Grace + l>>
         [] Expiry(l) = "expired" -> <<"expired", 0>>
         [] OTHER -> <<"none", 0>>

Init ==
  /\ release \in {"trusty", "esm", "lts", "interim"} /\ beta \in BOOLEAN
  /\ attached = FALSE /\ days = LastDay /\ enabled = {}
  /\ text = [s \in Services |-> <<"none", 0>>]
  /\ warranty = FALSE /\ announce = FALSE
  /\ pc = [u \in Updaters |-> "done"] /\ left = [u \in Updaters |-> NoContract]
  /\ on = [u \in Updaters |-> FALSE] /\ changes = 0

-----------------------------------------------------------------------------
(* What changes, and who updates the messages then *)

Change == changes < MaxChanges /\ changes' = changes + 1
Begin(u) ==
  /\ pc' = [pc EXCEPT ![u] = "start"]
  /\ left' = [left EXCEPT ![u] = NoContract] /\ on' = [on EXCEPT ![u] = FALSE]
NoCommand == pc["command"] = "done"

Attach ==
  /\ NoCommand /\ ~attached /\ Change
  /\ attached' = TRUE /\ days' \in FirstDay..LastDay /\ enabled' \in SUBSET Services
  /\ Begin("command")
  /\ UNCHANGED <<release, beta, files>>

Detach ==
  /\ NoCommand /\ attached /\ Change
  /\ attached' = FALSE /\ enabled' = {}
  /\ Begin("command")
  /\ UNCHANGED <<release, beta, days, files>>

(* ESMBaseEntitlement.enable and disable.                                  *)
EnableOrDisable ==
  /\ NoCommand /\ attached /\ Change
  /\ \E s \in Services : enabled' = IF s \in enabled THEN enabled \ {s} ELSE enabled \union {s}
  /\ Begin("command")
  /\ UNCHANGED <<release, beta, attached, days, files>>

(* `ua refresh` does not update the messages.                              *)
Refresh ==
  /\ NoCommand /\ attached /\ Change
  /\ days' \in FirstDay..LastDay
  /\ UNCHANGED <<release, beta, attached, enabled, files, process>>

DayPasses ==
  /\ Change /\ days > FirstDay /\ days' = days - 1
  /\ UNCHANGED <<release, beta, attached, enabled, files, process>>

EndOfSupport ==
  /\ Change /\ release = "lts" /\ release' = "esm"
  /\ UNCHANGED <<beta, attached, days, enabled, files, process>>

(* With the reboot that goes with it.                                      *)
ReleaseUpgrade ==
  /\ Change /\ release' \in {"lts", "interim"} \ {release}
  /\ pc' = [u \in Updaters |-> "done"]
  /\ UNCHANGED <<beta, attached, days, enabled, files, left, on>>

TimerFires ==
  /\ pc["timer"] = "done" /\ Begin("timer")
  /\ UNCHANGED <<machine, files, changes>>

Killed(u) ==
  /\ pc[u] # "done" /\ Change
  /\ pc' = [pc EXCEPT ![u] = "done"]
  /\ UNCHANGED <<machine, files, left, on>>

-----------------------------------------------------------------------------
(* update_apt_and_motd_messages *)

Step(u, from, to) == pc[u] = from /\ pc' = [pc EXCEPT ![u] = to]
AppsShown == release # "trusty" /\ beta

(* A release that is not an LTS has no messages.                           *)
RemoveAll(u) ==
  /\ Step(u, "start", "done") /\ ~IsLts
  /\ text' = [s \in Services |-> <<"none", 0>>]
  /\ warranty' = FALSE /\ announce' = FALSE
  /\ UNCHANGED <<machine, left, on, changes>>

(* write_esm_announcement_message.  The contract is read here, and not     *)
(* again by this process.                                                  *)
WriteAnnouncement(u) ==
  /\ Step(u, "start", IF AppsShown THEN "apps" ELSE "infra") /\ IsLts
  /\ announce' = (AppsShown /\ "apps" \notin enabled)
  /\ left' = [left EXCEPT ![u] = IF attached THEN days ELSE NoContract]
  /\ UNCHANGED <<machine, text, warranty, on, changes>>

(* The process finds a service enabled, by what apt says now.              *)
Finds(u, s) == left[u] # NoContract /\ s \in enabled

(* Without esm-infra or active ESM its files are left as they are.         *)
SkipOrWriteInfra(u) ==
  /\ Step(u, "infra", IF Finds(u, "infra") \/ ActiveEsm THEN "infra_status" ELSE "done")
  /\ UNCHANGED <<machine, files, left, on, changes>>

ReadStatus(u) ==
  /\ \/ Step(u, "apps", "apps_warranty")
        /\ on' = [on EXCEPT ![u] = Finds(u, "apps")]
     \/ Step(u, "infra_status", "infra_warranty")
        /\ on' = [on EXCEPT ![u] = Finds(u, "infra")]
  /\ UNCHANGED <<machine, files, left, changes>>

(* Both services write the one file, esm-infra after esm-apps.             *)
WriteWarranty(u) ==
  /\ \/ Step(u, "apps_warranty", "apps_write")
     \/ Step(u, "infra_warranty", "infra_write")
  /\ warranty' = (on[u] /\ left[u] < -Grace /\ ActiveEsm)
  /\ UNCHANGED <<machine, text, announce, left, on, changes>>

WriteTemplates(u) ==
  /\ \/ /\ Step(u, "apps_write", "infra")
        /\ text' = [text EXCEPT !["apps"] = Text(left[u], on[u])]
     \/ /\ Step(u, "infra_write", "done")
        /\ text' = [text EXCEPT !["infra"] = Text(left[u], on[u])]
  /\ UNCHANGED <<machine, warranty, announce, left, on, changes>>

Update(u) ==
  \/ RemoveAll(u) \/ WriteAnnouncement(u) \/ SkipOrWriteInfra(u) \/ ReadStatus(u)
  \/ WriteWarranty(u) \/ WriteTemplates(u)

Next ==
  \/ Attach \/ Detach \/ EnableOrDisable \/ Refresh \/ DayPasses
  \/ EndOfSupport \/ ReleaseUpgrade \/ TimerFires
  \/ \E u \in Updaters : Update(u) \/ Killed(u)

(* The timer goes on firing, and an updater that runs gets on.             *)
Spec == Init /\ [][Next]_vars /\ WF_vars(TimerFires) /\ \A u \in Updaters : WF_vars(Update(u))

-----------------------------------------------------------------------------
(* Properties *)

(* Every variable keeps its type; the days a message tells are those of    *)
(* its period.                                                             *)
TypeOK ==
  /\ release \in {"trusty", "esm", "lts", "interim"} /\ beta \in BOOLEAN
  /\ attached \in BOOLEAN /\ days \in FirstDay..LastDay /\ enabled \subseteq Services
  /\ text \in [Services -> Texts] /\ warranty \in BOOLEAN /\ announce \in BOOLEAN
  /\ pc \in [Updaters -> {"done", "start", "apps", "apps_warranty", "apps_write",
                          "infra", "infra_status", "infra_warranty", "infra_write"}]
  /\ left \in [Updaters -> FirstDay..NoContract] /\ on \in [Updaters -> BOOLEAN]
  /\ changes \in 0..MaxChanges

(* What a reader of the messages should be told of a service the release   *)
(* has messages about.                                                     *)
Told(s) == IF s = "apps" THEN IsLts /\ AppsShown
           ELSE IsLts /\ (ActiveEsm \/ "infra" \in enabled)
Expired == attached /\ days < -Grace
Due(s) ==
  IF s \notin enabled THEN IF Expired THEN "none" ELSE "disabled"
  ELSE IF Expired THEN "expired"
  ELSE IF days < 0 THEN "grace"
  ELSE IF days <= Pending THEN "soon" ELSE "none"
DueDays(s) ==
  IF Due(s) = "soon" THEN days ELSE IF Due(s) = "grace" THEN Grace + days ELSE 0

(* Whatever the order in which a command's update, the timer's and the     *)
(* changes themselves ran, and wherever one was killed, in the end every   *)
(* message is the one due today, the announcement is there exactly for     *)
(* those who can use it, and the warranty is disclaimed exactly for an     *)
(* esm-infra that expired in active ESM.  (While an update is under way    *)
(* the disclaimer of esm-apps is there, until esm-infra's replaces it.)    *)
MessagesCatchUp ==
  <>[](/\ \A s \in Services : Told(s) => text[s] = <<Due(s), DueDays(s)>>
       /\ ~IsLts => text = [s \in Services |-> <<"none", 0>>]
       /\ announce <=> IsLts /\ AppsShown /\ "apps" \notin enabled
       /\ (\A u \in Updaters : pc[u] = "done") /\ (Told("infra") \/ ~IsLts) =>
            (warranty <=> ActiveEsm /\ "infra" \in enabled /\ Expired))

=============================================================================
