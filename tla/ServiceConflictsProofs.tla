------------------------ MODULE ServiceConflictsProofs ------------------------
(* Proofs about ServiceConflicts.                                          *)
EXTENDS ServiceConflicts, TLAPS

(* Only a FIPS service has a repository set up here, or excludes Livepatch, *)
(* and only on an attached machine.                                        *)
Routed ==
  /\ pc \in {"setup", "conflict"} => svc \in Fips
  /\ pc # "idle" => attached

(* Livepatch is off while a FIPS service is set up, and about to be, and   *)
(* comes on only with no such service or a kernel without fips=1.          *)
Exclusive ==
  breach \intersect LivepatchBreaches = {} =>
    /\ lp => setup = {}
    /\ pc = "setup" => ~lp
    /\ pc \in {"client", "config", "token", "lp_on"} /\ setup # {} => proc = "0"

(* The kernel option comes with the metapackage, and a service that is set *)
(* up has both, unless it is being enabled or disabled.                    *)
Bootable ==
  /\ meta = (boot = "1")
  /\ setup # {} =>
       \/ boot = "1"
       \/ setup = {svc} /\ (pc = "cleanup" \/ (pc = "install" /\ then = "enable"))
  /\ pc \in {"setup", "install"} /\ then = "decide" => boot = "1"
  /\ pc = "tell" => boot = "1" /\ flag
  /\ pc \in {"cleanup", "rm_tell"} => ~meta /\ flag

(* What is pending is noted, or about to be.                               *)
Told ==
  /\ boot = "1" /\ proc = "absent" => "reboot" \in notices \/ pc \in {"tell", "holds_tell"}
  /\ boot = "0" /\ proc = "1" => "disable" \in notices \/ pc \in {"cleanup", "rm_tell"}

(* What is noted is pending.                                               *)
Noticed ==
  /\ "reboot" \in notices => boot = "1"
  /\ "disable" \in notices => boot # "1"
  /\ "manual" \in notices => proc # "absent"

ConflictsInv ==
  /\ TypeOK /\ Routed
  /\ Exclusive
  /\ breach = {} => Bootable /\ Told /\ Noticed

-----------------------------------------------------------------------------
(* Every step keeps the invariant.                                         *)

LEMMA CanEnableStep ==
  ASSUME ConflictsInv, CanEnable PROVE ConflictsInv'
<1>. USE DEF Goto, Transition, Begin, Exit, contract, kernel, memory,
       CanEnable, Refused, Allowed, Applicable, Looks, Enabled, Noted, Record
<1>1. TypeOK'
  <2>1. entitled' \subseteq Services /\ left' \subseteq Services
    BY DEF ConflictsInv, TypeOK, Fips, Services
  <2>2. setup' \subseteq Fips /\ notices' \subseteq Notices /\ breach' \subseteq Breaches
    BY DEF ConflictsInv, TypeOK, Routed, Fips, Notices, Breaches, LivepatchBreaches
  <2>3. /\ lp' \in BOOLEAN /\ meta' \in BOOLEAN /\ flag' \in BOOLEAN
        /\ yes' \in BOOLEAN /\ obliged' \in BOOLEAN
        /\ attached' \in BOOLEAN /\ due' \in BOOLEAN
    BY DEF ConflictsInv, TypeOK
  <2>4. /\ boot' \in {"absent", "0", "1"} /\ proc' \in {"absent", "0", "1"}
        /\ op' \in {"none", "enable", "disable", "delta", "detach", "boot"}
        /\ svc' \in Services
        /\ then' \in {"enable", "decide"} /\ pc' \in Steps
    BY DEF ConflictsInv, TypeOK, Fips, Services, Steps
  <2>. QED BY <2>1, <2>2, <2>3, <2>4 DEF TypeOK
<1>2. Routed'
  BY DEF ConflictsInv, Routed
<1>3. Exclusive'
  BY DEF ConflictsInv, Routed, Exclusive, TypeOK, Fips, Services, LivepatchBreaches
<1>4. ASSUME breach' = {} PROVE Bootable' /\ Told' /\ Noticed'
  <2>1. breach = {}
    BY <1>4
  <2>2. Bootable'
    BY <1>4, <2>1 DEF ConflictsInv, TypeOK, Bootable, Fips, Services
  <2>3. Told'
    BY <1>4, <2>1 DEF ConflictsInv, TypeOK, Bootable, Told, Notices
  <2>4. Noticed'
    BY <1>4, <2>1 DEF ConflictsInv, TypeOK, Bootable, Noticed, Notices
  <2>. QED BY <2>2, <2>3, <2>4
<1>. QED BY <1>1, <1>2, <1>3, <1>4 DEF ConflictsInv

LEMMA HandleIncompatibleStep ==
  ASSUME ConflictsInv, HandleIncompatible PROVE ConflictsInv'
<1>. USE DEF Goto, Transition, Begin, Exit, contract, kernel, memory,
       HandleIncompatible, Refused, Allowed
<1>1. TypeOK'
  <2>1. entitled' \subseteq Services /\ left' \subseteq Services
    BY DEF ConflictsInv, TypeOK, Fips, Services
  <2>2. setup' \subseteq Fips /\ notices' \subseteq Notices /\ breach' \subseteq Breaches
    BY DEF ConflictsInv, TypeOK, Routed, Fips, Notices, Breaches, LivepatchBreaches
  <2>3. /\ lp' \in BOOLEAN /\ meta' \in BOOLEAN /\ flag' \in BOOLEAN
        /\ yes' \in BOOLEAN /\ obliged' \in BOOLEAN
        /\ attached' \in BOOLEAN /\ due' \in BOOLEAN
    BY DEF ConflictsInv, TypeOK
  <2>4. /\ boot' \in {"absent", "0", "1"} /\ proc' \in {"absent", "0", "1"}
        /\ op' \in {"none", "enable", "disable", "delta", "detach", "boot"}
        /\ svc' \in Services
        /\ then' \in {"enable", "decide"} /\ pc' \in Steps
    BY DEF ConflictsInv, TypeOK, Fips, Services, Steps
  <2>. QED BY <2>1, <2>2, <2>3, <2>4 DEF TypeOK
<1>2. Routed'
  BY DEF ConflictsInv, Routed
<1>3. Exclusive'
  BY DEF ConflictsInv, Routed, Exclusive, TypeOK, Fips, Services, LivepatchBreaches
<1>4. ASSUME breach' = {} PROVE Bootable' /\ Told' /\ Noticed'
  <2>1. breach = {}
    BY <1>4
  <2>2. Bootable'
    BY <1>4, <2>1 DEF ConflictsInv, TypeOK, Bootable, Fips, Services
  <2>3. Told'
    BY <1>4, <2>1 DEF ConflictsInv, TypeOK, Bootable, Told, Notices
  <2>4. Noticed'
    BY <1>4, <2>1 DEF ConflictsInv, TypeOK, Bootable, Noticed, Notices
  <2>. QED BY <2>2, <2>3, <2>4
<1>. QED BY <1>1, <1>2, <1>3, <1>4 DEF ConflictsInv

LEMMA EnableStep ==
  ASSUME ConflictsInv, Enable PROVE ConflictsInv'
<1>. USE DEF Goto, Transition, Begin, Exit, contract, kernel, memory,
       Enable
<1>1. TypeOK'
  <2>1. entitled' \subseteq Services /\ left' \subseteq Services
    BY DEF ConflictsInv, TypeOK, Fips, Services
  <2>2. setup' \subseteq Fips /\ notices' \subseteq Notices /\ breach' \subseteq Breaches
    BY DEF ConflictsInv, TypeOK, Routed, Fips, Notices, Breaches, LivepatchBreaches
  <2>3. /\ lp' \in BOOLEAN /\ meta' \in BOOLEAN /\ flag' \in BOOLEAN
        /\ yes' \in BOOLEAN /\ obliged' \in BOOLEAN
        /\ attached' \in BOOLEAN /\ due' \in BOOLEAN
    BY DEF ConflictsInv, TypeOK
  <2>4. /\ boot' \in {"absent", "0", "1"} /\ proc' \in {"absent", "0", "1"}
        /\ op' \in {"none", "enable", "disable", "delta", "detach", "boot"}
        /\ svc' \in Services
        /\ then' \in {"enable", "decide"} /\ pc' \in Steps
    BY DEF ConflictsInv, TypeOK, Fips, Services, Steps
  <2>. QED BY <2>1, <2>2, <2>3, <2>4 DEF TypeOK
<1>2. Routed'
  BY DEF ConflictsInv, Routed
<1>3. Exclusive'
  BY DEF ConflictsInv, Routed, Exclusive, TypeOK, Fips, Services, LivepatchBreaches
<1>4. ASSUME breach' = {} PROVE Bootable' /\ Told' /\ Noticed'
  <2>1. breach = {}
    BY <1>4
  <2>2. Bootable'
    BY <1>4, <2>1 DEF ConflictsInv, TypeOK, Bootable, Fips, Services
  <2>3. Told'
    BY <1>4, <2>1 DEF ConflictsInv, TypeOK, Bootable, Told, Notices
  <2>4. Noticed'
    BY <1>4, <2>1 DEF ConflictsInv, TypeOK, Bootable, Noticed, Notices
  <2>. QED BY <2>2, <2>3, <2>4
<1>. QED BY <1>1, <1>2, <1>3, <1>4 DEF ConflictsInv

LEMMA SetupAptConfigStep ==
  ASSUME ConflictsInv, SetupAptConfig PROVE ConflictsInv'
<1>. USE DEF Goto, Transition, Begin, Exit, contract, kernel, memory,
       SetupAptConfig
<1>1. TypeOK'
  <2>1. entitled' \subseteq Services /\ left' \subseteq Services
    BY DEF ConflictsInv, TypeOK, Fips, Services
  <2>2. setup' \subseteq Fips /\ notices' \subseteq Notices /\ breach' \subseteq Breaches
    BY DEF ConflictsInv, TypeOK, Routed, Fips, Notices, Breaches, LivepatchBreaches
  <2>3. /\ lp' \in BOOLEAN /\ meta' \in BOOLEAN /\ flag' \in BOOLEAN
        /\ yes' \in BOOLEAN /\ obliged' \in BOOLEAN
        /\ attached' \in BOOLEAN /\ due' \in BOOLEAN
    BY DEF ConflictsInv, TypeOK
  <2>4. /\ boot' \in {"absent", "0", "1"} /\ proc' \in {"absent", "0", "1"}
        /\ op' \in {"none", "enable", "disable", "delta", "detach", "boot"}
        /\ svc' \in Services
        /\ then' \in {"enable", "decide"} /\ pc' \in Steps
    BY DEF ConflictsInv, TypeOK, Fips, Services, Steps
  <2>. QED BY <2>1, <2>2, <2>3, <2>4 DEF TypeOK
<1>2. Routed'
  BY DEF ConflictsInv, Routed
<1>3. Exclusive'
  BY DEF ConflictsInv, Routed, Exclusive, TypeOK, Fips, Services, LivepatchBreaches
<1>4. ASSUME breach' = {} PROVE Bootable' /\ Told' /\ Noticed'
  <2>1. breach = {}
    BY <1>4
  <2>2. Bootable'
    BY <1>4, <2>1 DEF ConflictsInv, TypeOK, Bootable, Fips, Services
  <2>3. Told'
    BY <1>4, <2>1 DEF ConflictsInv, TypeOK, Bootable, Told, Notices
  <2>4. Noticed'
    BY <1>4, <2>1 DEF ConflictsInv, TypeOK, Bootable, Noticed, Notices
  <2>. QED BY <2>2, <2>3, <2>4
<1>. QED BY <1>1, <1>2, <1>3, <1>4 DEF ConflictsInv

LEMMA InstallPackagesStep ==
  ASSUME ConflictsInv, InstallPackages PROVE ConflictsInv'
<1>. USE DEF Goto, Transition, Begin, Exit, contract, kernel, memory,
       InstallPackages, MetaInstalled, Record
<1>1. TypeOK'
  <2>1. entitled' \subseteq Services /\ left' \subseteq Services
    BY DEF ConflictsInv, TypeOK, Fips, Services
  <2>2. setup' \subseteq Fips /\ notices' \subseteq Notices /\ breach' \subseteq Breaches
    BY DEF ConflictsInv, TypeOK, Routed, Fips, Notices, Breaches, LivepatchBreaches
  <2>3. /\ lp' \in BOOLEAN /\ meta' \in BOOLEAN /\ flag' \in BOOLEAN
        /\ yes' \in BOOLEAN /\ obliged' \in BOOLEAN
        /\ attached' \in BOOLEAN /\ due' \in BOOLEAN
    BY DEF ConflictsInv, TypeOK
  <2>4. /\ boot' \in {"absent", "0", "1"} /\ proc' \in {"absent", "0", "1"}
        /\ op' \in {"none", "enable", "disable", "delta", "detach", "boot"}
        /\ svc' \in Services
        /\ then' \in {"enable", "decide"} /\ pc' \in Steps
    BY DEF ConflictsInv, TypeOK, Fips, Services, Steps
  <2>. QED BY <2>1, <2>2, <2>3, <2>4 DEF TypeOK
<1>2. Routed'
  BY DEF ConflictsInv, Routed
<1>3. Exclusive'
  BY DEF ConflictsInv, Routed, Exclusive, TypeOK, Fips, Services, LivepatchBreaches
<1>4. ASSUME breach' = {} PROVE Bootable' /\ Told' /\ Noticed'
  <2>1. breach = {}
    BY <1>4
  <2>2. Bootable'
    BY <1>4, <2>1 DEF ConflictsInv, TypeOK, Bootable, Fips, Services
  <2>3. Told'
    BY <1>4, <2>1 DEF ConflictsInv, TypeOK, Bootable, Told, Notices
  <2>4. Noticed'
    BY <1>4, <2>1 DEF ConflictsInv, TypeOK, Bootable, Noticed, Notices
  <2>. QED BY <2>2, <2>3, <2>4
<1>. QED BY <1>1, <1>2, <1>3, <1>4 DEF ConflictsInv

LEMMA TellStep ==
  ASSUME ConflictsInv, Tell PROVE ConflictsInv'
<1>. USE DEF Goto, Transition, Begin, Exit, contract, kernel, memory,
       Tell
<1>1. TypeOK'
  <2>1. entitled' \subseteq Services /\ left' \subseteq Services
    BY DEF ConflictsInv, TypeOK, Fips, Services
  <2>2. setup' \subseteq Fips /\ notices' \subseteq Notices /\ breach' \subseteq Breaches
    BY DEF ConflictsInv, TypeOK, Routed, Fips, Notices, Breaches, LivepatchBreaches
  <2>3. /\ lp' \in BOOLEAN /\ meta' \in BOOLEAN /\ flag' \in BOOLEAN
        /\ yes' \in BOOLEAN /\ obliged' \in BOOLEAN
        /\ attached' \in BOOLEAN /\ due' \in BOOLEAN
    BY DEF ConflictsInv, TypeOK
  <2>4. /\ boot' \in {"absent", "0", "1"} /\ proc' \in {"absent", "0", "1"}
        /\ op' \in {"none", "enable", "disable", "delta", "detach", "boot"}
        /\ svc' \in Services
        /\ then' \in {"enable", "decide"} /\ pc' \in Steps
    BY DEF ConflictsInv, TypeOK, Fips, Services, Steps
  <2>. QED BY <2>1, <2>2, <2>3, <2>4 DEF TypeOK
<1>2. Routed'
  BY DEF ConflictsInv, Routed
<1>3. Exclusive'
  BY DEF ConflictsInv, Routed, Exclusive, TypeOK, Fips, Services, LivepatchBreaches
<1>4. ASSUME breach' = {} PROVE Bootable' /\ Told' /\ Noticed'
  <2>1. breach = {}
    BY <1>4
  <2>2. Bootable'
    BY <1>4, <2>1 DEF ConflictsInv, TypeOK, Bootable, Fips, Services
  <2>3. Told'
    BY <1>4, <2>1 DEF ConflictsInv, TypeOK, Bootable, Told, Notices
  <2>4. Noticed'
    BY <1>4, <2>1 DEF ConflictsInv, TypeOK, Bootable, Noticed, Notices
  <2>. QED BY <2>2, <2>3, <2>4
<1>. QED BY <1>1, <1>2, <1>3, <1>4 DEF ConflictsInv

LEMMA InstallClientStep ==
  ASSUME ConflictsInv, InstallClient PROVE ConflictsInv'
<1>. USE DEF Goto, Transition, Begin, Exit, contract, kernel, memory,
       InstallClient
<1>1. TypeOK'
  <2>1. entitled' \subseteq Services /\ left' \subseteq Services
    BY DEF ConflictsInv, TypeOK, Fips, Services
  <2>2. setup' \subseteq Fips /\ notices' \subseteq Notices /\ breach' \subseteq Breaches
    BY DEF ConflictsInv, TypeOK, Routed, Fips, Notices, Breaches, LivepatchBreaches
  <2>3. /\ lp' \in BOOLEAN /\ meta' \in BOOLEAN /\ flag' \in BOOLEAN
        /\ yes' \in BOOLEAN /\ obliged' \in BOOLEAN
        /\ attached' \in BOOLEAN /\ due' \in BOOLEAN
    BY DEF ConflictsInv, TypeOK
  <2>4. /\ boot' \in {"absent", "0", "1"} /\ proc' \in {"absent", "0", "1"}
        /\ op' \in {"none", "enable", "disable", "delta", "detach", "boot"}
        /\ svc' \in Services
        /\ then' \in {"enable", "decide"} /\ pc' \in Steps
    BY DEF ConflictsInv, TypeOK, Fips, Services, Steps
  <2>. QED BY <2>1, <2>2, <2>3, <2>4 DEF TypeOK
<1>2. Routed'
  BY DEF ConflictsInv, Routed
<1>3. Exclusive'
  BY DEF ConflictsInv, Routed, Exclusive, TypeOK, Fips, Services, LivepatchBreaches
<1>4. ASSUME breach' = {} PROVE Bootable' /\ Told' /\ Noticed'
  <2>1. breach = {}
    BY <1>4
  <2>2. Bootable'
    BY <1>4, <2>1 DEF ConflictsInv, TypeOK, Bootable, Fips, Services
  <2>3. Told'
    BY <1>4, <2>1 DEF ConflictsInv, TypeOK, Bootable, Told, Notices
  <2>4. Noticed'
    BY <1>4, <2>1 DEF ConflictsInv, TypeOK, Bootable, Noticed, Notices
  <2>. QED BY <2>2, <2>3, <2>4
<1>. QED BY <1>1, <1>2, <1>3, <1>4 DEF ConflictsInv

LEMMA ConfigureLivepatchStep ==
  ASSUME ConflictsInv, ConfigureLivepatch PROVE ConflictsInv'
<1>. USE DEF Goto, Transition, Begin, Exit, contract, kernel, memory,
       ConfigureLivepatch
<1>1. TypeOK'
  <2>1. entitled' \subseteq Services /\ left' \subseteq Services
    BY DEF ConflictsInv, TypeOK, Fips, Services
  <2>2. setup' \subseteq Fips /\ notices' \subseteq Notices /\ breach' \subseteq Breaches
    BY DEF ConflictsInv, TypeOK, Routed, Fips, Notices, Breaches, LivepatchBreaches
  <2>3. /\ lp' \in BOOLEAN /\ meta' \in BOOLEAN /\ flag' \in BOOLEAN
        /\ yes' \in BOOLEAN /\ obliged' \in BOOLEAN
        /\ attached' \in BOOLEAN /\ due' \in BOOLEAN
    BY DEF ConflictsInv, TypeOK
  <2>4. /\ boot' \in {"absent", "0", "1"} /\ proc' \in {"absent", "0", "1"}
        /\ op' \in {"none", "enable", "disable", "delta", "detach", "boot"}
        /\ svc' \in Services
        /\ then' \in {"enable", "decide"} /\ pc' \in Steps
    BY DEF ConflictsInv, TypeOK, Fips, Services, Steps
  <2>. QED BY <2>1, <2>2, <2>3, <2>4 DEF TypeOK
<1>2. Routed'
  BY DEF ConflictsInv, Routed
<1>3. Exclusive'
  BY DEF ConflictsInv, Routed, Exclusive, TypeOK, Fips, Services, LivepatchBreaches
<1>4. ASSUME breach' = {} PROVE Bootable' /\ Told' /\ Noticed'
  <2>1. breach = {}
    BY <1>4
  <2>2. Bootable'
    BY <1>4, <2>1 DEF ConflictsInv, TypeOK, Bootable, Fips, Services
  <2>3. Told'
    BY <1>4, <2>1 DEF ConflictsInv, TypeOK, Bootable, Told, Notices
  <2>4. Noticed'
    BY <1>4, <2>1 DEF ConflictsInv, TypeOK, Bootable, Noticed, Notices
  <2>. QED BY <2>2, <2>3, <2>4
<1>. QED BY <1>1, <1>2, <1>3, <1>4 DEF ConflictsInv

LEMMA ProcessTokenStep ==
  ASSUME ConflictsInv, ProcessToken PROVE ConflictsInv'
<1>. USE DEF Goto, Transition, Begin, Exit, contract, kernel, memory,
       ProcessToken, Looks, Enabled
<1>1. TypeOK'
  <2>1. entitled' \subseteq Services /\ left' \subseteq Services
    BY DEF ConflictsInv, TypeOK, Fips, Services
  <2>2. setup' \subseteq Fips /\ notices' \subseteq Notices /\ breach' \subseteq Breaches
    BY DEF ConflictsInv, TypeOK, Routed, Fips, Notices, Breaches, LivepatchBreaches
  <2>3. /\ lp' \in BOOLEAN /\ meta' \in BOOLEAN /\ flag' \in BOOLEAN
        /\ yes' \in BOOLEAN /\ obliged' \in BOOLEAN
        /\ attached' \in BOOLEAN /\ due' \in BOOLEAN
    BY DEF ConflictsInv, TypeOK
  <2>4. /\ boot' \in {"absent", "0", "1"} /\ proc' \in {"absent", "0", "1"}
        /\ op' \in {"none", "enable", "disable", "delta", "detach", "boot"}
        /\ svc' \in Services
        /\ then' \in {"enable", "decide"} /\ pc' \in Steps
    BY DEF ConflictsInv, TypeOK, Fips, Services, Steps
  <2>. QED BY <2>1, <2>2, <2>3, <2>4 DEF TypeOK
<1>2. Routed'
  BY DEF ConflictsInv, Routed
<1>3. Exclusive'
  BY DEF ConflictsInv, Routed, Exclusive, TypeOK, Fips, Services, LivepatchBreaches
<1>4. ASSUME breach' = {} PROVE Bootable' /\ Told' /\ Noticed'
  <2>1. breach = {}
    BY <1>4
  <2>2. Bootable'
    BY <1>4, <2>1 DEF ConflictsInv, TypeOK, Bootable, Fips, Services
  <2>3. Told'
    BY <1>4, <2>1 DEF ConflictsInv, TypeOK, Bootable, Told, Notices
  <2>4. Noticed'
    BY <1>4, <2>1 DEF ConflictsInv, TypeOK, Bootable, Noticed, Notices
  <2>. QED BY <2>2, <2>3, <2>4
<1>. QED BY <1>1, <1>2, <1>3, <1>4 DEF ConflictsInv

LEMMA EnableClientStep ==
  ASSUME ConflictsInv, EnableClient PROVE ConflictsInv'
<1>. USE DEF Goto, Transition, Begin, Exit, contract, kernel, memory,
       EnableClient, Record
<1>1. TypeOK'
  <2>1. entitled' \subseteq Services /\ left' \subseteq Services
    BY DEF ConflictsInv, TypeOK, Fips, Services
  <2>2. setup' \subseteq Fips /\ notices' \subseteq Notices /\ breach' \subseteq Breaches
    BY DEF ConflictsInv, TypeOK, Routed, Fips, Notices, Breaches, LivepatchBreaches
  <2>3. /\ lp' \in BOOLEAN /\ meta' \in BOOLEAN /\ flag' \in BOOLEAN
        /\ yes' \in BOOLEAN /\ obliged' \in BOOLEAN
        /\ attached' \in BOOLEAN /\ due' \in BOOLEAN
    BY DEF ConflictsInv, TypeOK
  <2>4. /\ boot' \in {"absent", "0", "1"} /\ proc' \in {"absent", "0", "1"}
        /\ op' \in {"none", "enable", "disable", "delta", "detach", "boot"}
        /\ svc' \in Services
        /\ then' \in {"enable", "decide"} /\ pc' \in Steps
    BY DEF ConflictsInv, TypeOK, Fips, Services, Steps
  <2>. QED BY <2>1, <2>2, <2>3, <2>4 DEF TypeOK
<1>2. Routed'
  BY DEF ConflictsInv, Routed
<1>3. Exclusive'
  BY DEF ConflictsInv, Routed, Exclusive, TypeOK, Fips, Services, LivepatchBreaches
<1>4. ASSUME breach' = {} PROVE Bootable' /\ Told' /\ Noticed'
  <2>1. breach = {}
    BY <1>4
  <2>2. Bootable'
    BY <1>4, <2>1 DEF ConflictsInv, TypeOK, Bootable, Fips, Services
  <2>3. Told'
    BY <1>4, <2>1 DEF ConflictsInv, TypeOK, Bootable, Told, Notices
  <2>4. Noticed'
    BY <1>4, <2>1 DEF ConflictsInv, TypeOK, Bootable, Noticed, Notices
  <2>. QED BY <2>2, <2>3, <2>4
<1>. QED BY <1>1, <1>2, <1>3, <1>4 DEF ConflictsInv

LEMMA DisableStep ==
  ASSUME ConflictsInv, Disable PROVE ConflictsInv'
<1>. USE DEF Goto, Transition, Begin, Exit, contract, kernel, memory,
       Disable, FirstRemoval, Looks, Enabled, NotedBy, Noted
<1>1. TypeOK'
  <2>1. entitled' \subseteq Services /\ left' \subseteq Services
    BY DEF ConflictsInv, TypeOK, Fips, Services
  <2>2. setup' \subseteq Fips /\ notices' \subseteq Notices /\ breach' \subseteq Breaches
    BY DEF ConflictsInv, TypeOK, Routed, Fips, Notices, Breaches, LivepatchBreaches
  <2>3. /\ lp' \in BOOLEAN /\ meta' \in BOOLEAN /\ flag' \in BOOLEAN
        /\ yes' \in BOOLEAN /\ obliged' \in BOOLEAN
        /\ attached' \in BOOLEAN /\ due' \in BOOLEAN
    BY DEF ConflictsInv, TypeOK
  <2>4. /\ boot' \in {"absent", "0", "1"} /\ proc' \in {"absent", "0", "1"}
        /\ op' \in {"none", "enable", "disable", "delta", "detach", "boot"}
        /\ svc' \in Services
        /\ then' \in {"enable", "decide"} /\ pc' \in Steps
    BY DEF ConflictsInv, TypeOK, Fips, Services, Steps
  <2>. QED BY <2>1, <2>2, <2>3, <2>4 DEF TypeOK
<1>2. Routed'
  BY DEF ConflictsInv, Routed
<1>3. Exclusive'
  BY DEF ConflictsInv, Routed, Exclusive, TypeOK, Fips, Services, LivepatchBreaches
<1>4. ASSUME breach' = {} PROVE Bootable' /\ Told' /\ Noticed'
  <2>1. breach = {}
    BY <1>4
  <2>2. Bootable'
    BY <1>4, <2>1 DEF ConflictsInv, TypeOK, Bootable, Fips, Services
  <2>3. Told'
    BY <1>4, <2>1 DEF ConflictsInv, TypeOK, Bootable, Told, Notices
  <2>4. Noticed'
    BY <1>4, <2>1 DEF ConflictsInv, TypeOK, Bootable, Noticed, Notices
  <2>. QED BY <2>2, <2>3, <2>4
<1>. QED BY <1>1, <1>2, <1>3, <1>4 DEF ConflictsInv

LEMMA DisableClientStep ==
  ASSUME ConflictsInv, DisableClient PROVE ConflictsInv'
<1>. USE DEF Goto, Transition, Begin, Exit, contract, kernel, memory,
       DisableClient, Disabled
<1>1. TypeOK'
  <2>1. entitled' \subseteq Services /\ left' \subseteq Services
    BY DEF ConflictsInv, TypeOK, Fips, Services
  <2>2. setup' \subseteq Fips /\ notices' \subseteq Notices /\ breach' \subseteq Breaches
    BY DEF ConflictsInv, TypeOK, Routed, Fips, Notices, Breaches, LivepatchBreaches
  <2>3. /\ lp' \in BOOLEAN /\ meta' \in BOOLEAN /\ flag' \in BOOLEAN
        /\ yes' \in BOOLEAN /\ obliged' \in BOOLEAN
        /\ attached' \in BOOLEAN /\ due' \in BOOLEAN
    BY DEF ConflictsInv, TypeOK
  <2>4. /\ boot' \in {"absent", "0", "1"} /\ proc' \in {"absent", "0", "1"}
        /\ op' \in {"none", "enable", "disable", "delta", "detach", "boot"}
        /\ svc' \in Services
        /\ then' \in {"enable", "decide"} /\ pc' \in Steps
    BY DEF ConflictsInv, TypeOK, Fips, Services, Steps
  <2>. QED BY <2>1, <2>2, <2>3, <2>4 DEF TypeOK
<1>2. Routed'
  BY DEF ConflictsInv, Routed
<1>3. Exclusive'
  BY DEF ConflictsInv, Routed, Exclusive, TypeOK, Fips, Services, LivepatchBreaches
<1>4. ASSUME breach' = {} PROVE Bootable' /\ Told' /\ Noticed'
  <2>1. breach = {}
    BY <1>4
  <2>2. Bootable'
    BY <1>4, <2>1 DEF ConflictsInv, TypeOK, Bootable, Fips, Services
  <2>3. Told'
    BY <1>4, <2>1 DEF ConflictsInv, TypeOK, Bootable, Told, Notices
  <2>4. Noticed'
    BY <1>4, <2>1 DEF ConflictsInv, TypeOK, Bootable, Noticed, Notices
  <2>. QED BY <2>2, <2>3, <2>4
<1>. QED BY <1>1, <1>2, <1>3, <1>4 DEF ConflictsInv

LEMMA RemovePackagesStep ==
  ASSUME ConflictsInv, RemovePackages PROVE ConflictsInv'
<1>. USE DEF Goto, Transition, Begin, Exit, contract, kernel, memory,
       RemovePackages
<1>1. TypeOK'
  <2>1. entitled' \subseteq Services /\ left' \subseteq Services
    BY DEF ConflictsInv, TypeOK, Fips, Services
  <2>2. setup' \subseteq Fips /\ notices' \subseteq Notices /\ breach' \subseteq Breaches
    BY DEF ConflictsInv, TypeOK, Routed, Fips, Notices, Breaches, LivepatchBreaches
  <2>3. /\ lp' \in BOOLEAN /\ meta' \in BOOLEAN /\ flag' \in BOOLEAN
        /\ yes' \in BOOLEAN /\ obliged' \in BOOLEAN
        /\ attached' \in BOOLEAN /\ due' \in BOOLEAN
    BY DEF ConflictsInv, TypeOK
  <2>4. /\ boot' \in {"absent", "0", "1"} /\ proc' \in {"absent", "0", "1"}
        /\ op' \in {"none", "enable", "disable", "delta", "detach", "boot"}
        /\ svc' \in Services
        /\ then' \in {"enable", "decide"} /\ pc' \in Steps
    BY DEF ConflictsInv, TypeOK, Fips, Services, Steps
  <2>. QED BY <2>1, <2>2, <2>3, <2>4 DEF TypeOK
<1>2. Routed'
  BY DEF ConflictsInv, Routed
<1>3. Exclusive'
  BY DEF ConflictsInv, Routed, Exclusive, TypeOK, Fips, Services, LivepatchBreaches
<1>4. ASSUME breach' = {} PROVE Bootable' /\ Told' /\ Noticed'
  <2>1. breach = {}
    BY <1>4
  <2>2. Bootable'
    BY <1>4, <2>1 DEF ConflictsInv, TypeOK, Bootable, Fips, Services
  <2>3. Told'
    BY <1>4, <2>1 DEF ConflictsInv, TypeOK, Bootable, Told, Notices
  <2>4. Noticed'
    BY <1>4, <2>1 DEF ConflictsInv, TypeOK, Bootable, Noticed, Notices
  <2>. QED BY <2>2, <2>3, <2>4
<1>. QED BY <1>1, <1>2, <1>3, <1>4 DEF ConflictsInv

LEMMA CleanupStep ==
  ASSUME ConflictsInv, Cleanup PROVE ConflictsInv'
<1>. USE DEF Goto, Transition, Begin, Exit, contract, kernel, memory,
       Cleanup, Record
<1>1. TypeOK'
  <2>1. entitled' \subseteq Services /\ left' \subseteq Services
    BY DEF ConflictsInv, TypeOK, Fips, Services
  <2>2. setup' \subseteq Fips /\ notices' \subseteq Notices /\ breach' \subseteq Breaches
    BY DEF ConflictsInv, TypeOK, Routed, Fips, Notices, Breaches, LivepatchBreaches
  <2>3. /\ lp' \in BOOLEAN /\ meta' \in BOOLEAN /\ flag' \in BOOLEAN
        /\ yes' \in BOOLEAN /\ obliged' \in BOOLEAN
        /\ attached' \in BOOLEAN /\ due' \in BOOLEAN
    BY DEF ConflictsInv, TypeOK
  <2>4. /\ boot' \in {"absent", "0", "1"} /\ proc' \in {"absent", "0", "1"}
        /\ op' \in {"none", "enable", "disable", "delta", "detach", "boot"}
        /\ svc' \in Services
        /\ then' \in {"enable", "decide"} /\ pc' \in Steps
    BY DEF ConflictsInv, TypeOK, Fips, Services, Steps
  <2>. QED BY <2>1, <2>2, <2>3, <2>4 DEF TypeOK
<1>2. Routed'
  BY DEF ConflictsInv, Routed
<1>3. Exclusive'
  BY DEF ConflictsInv, Routed, Exclusive, TypeOK, Fips, Services, LivepatchBreaches
<1>4. ASSUME breach' = {} PROVE Bootable' /\ Told' /\ Noticed'
  <2>1. breach = {}
    BY <1>4
  <2>2. Bootable'
    BY <1>4, <2>1 DEF ConflictsInv, TypeOK, Bootable, Fips, Services
  <2>3. Told'
    BY <1>4, <2>1 DEF ConflictsInv, TypeOK, Bootable, Told, Notices
  <2>4. Noticed'
    BY <1>4, <2>1 DEF ConflictsInv, TypeOK, Bootable, Noticed, Notices
  <2>. QED BY <2>2, <2>3, <2>4
<1>. QED BY <1>1, <1>2, <1>3, <1>4 DEF ConflictsInv

LEMMA TellDisabledStep ==
  ASSUME ConflictsInv, TellDisabled PROVE ConflictsInv'
<1>. USE DEF Goto, Transition, Begin, Exit, contract, kernel, memory,
       TellDisabled, Disabled
<1>1. TypeOK'
  <2>1. entitled' \subseteq Services /\ left' \subseteq Services
    BY DEF ConflictsInv, TypeOK, Fips, Services
  <2>2. setup' \subseteq Fips /\ notices' \subseteq Notices /\ breach' \subseteq Breaches
    BY DEF ConflictsInv, TypeOK, Routed, Fips, Notices, Breaches, LivepatchBreaches
  <2>3. /\ lp' \in BOOLEAN /\ meta' \in BOOLEAN /\ flag' \in BOOLEAN
        /\ yes' \in BOOLEAN /\ obliged' \in BOOLEAN
        /\ attached' \in BOOLEAN /\ due' \in BOOLEAN
    BY DEF ConflictsInv, TypeOK
  <2>4. /\ boot' \in {"absent", "0", "1"} /\ proc' \in {"absent", "0", "1"}
        /\ op' \in {"none", "enable", "disable", "delta", "detach", "boot"}
        /\ svc' \in Services
        /\ then' \in {"enable", "decide"} /\ pc' \in Steps
    BY DEF ConflictsInv, TypeOK, Fips, Services, Steps
  <2>. QED BY <2>1, <2>2, <2>3, <2>4 DEF TypeOK
<1>2. Routed'
  BY DEF ConflictsInv, Routed
<1>3. Exclusive'
  BY DEF ConflictsInv, Routed, Exclusive, TypeOK, Fips, Services, LivepatchBreaches
<1>4. ASSUME breach' = {} PROVE Bootable' /\ Told' /\ Noticed'
  <2>1. breach = {}
    BY <1>4
  <2>2. Bootable'
    BY <1>4, <2>1 DEF ConflictsInv, TypeOK, Bootable, Fips, Services
  <2>3. Told'
    BY <1>4, <2>1 DEF ConflictsInv, TypeOK, Bootable, Told, Notices
  <2>4. Noticed'
    BY <1>4, <2>1 DEF ConflictsInv, TypeOK, Bootable, Noticed, Notices
  <2>. QED BY <2>2, <2>3, <2>4
<1>. QED BY <1>1, <1>2, <1>3, <1>4 DEF ConflictsInv

LEMMA DropServiceStep ==
  ASSUME ConflictsInv, DropService PROVE ConflictsInv'
<1>. USE DEF Goto, Transition, Begin, Exit, contract, kernel, memory,
       DropService, FirstRemoval, Looks, Enabled, NotedBy, Noted
<1>1. TypeOK'
  <2>1. entitled' \subseteq Services /\ left' \subseteq Services
    BY DEF ConflictsInv, TypeOK, Fips, Services
  <2>2. setup' \subseteq Fips /\ notices' \subseteq Notices /\ breach' \subseteq Breaches
    BY DEF ConflictsInv, TypeOK, Routed, Fips, Notices, Breaches, LivepatchBreaches
  <2>3. /\ lp' \in BOOLEAN /\ meta' \in BOOLEAN /\ flag' \in BOOLEAN
        /\ yes' \in BOOLEAN /\ obliged' \in BOOLEAN
        /\ attached' \in BOOLEAN /\ due' \in BOOLEAN
    BY DEF ConflictsInv, TypeOK
  <2>4. /\ boot' \in {"absent", "0", "1"} /\ proc' \in {"absent", "0", "1"}
        /\ op' \in {"none", "enable", "disable", "delta", "detach", "boot"}
        /\ svc' \in Services
        /\ then' \in {"enable", "decide"} /\ pc' \in Steps
    BY DEF ConflictsInv, TypeOK, Fips, Services, Steps
  <2>. QED BY <2>1, <2>2, <2>3, <2>4 DEF TypeOK
<1>2. Routed'
  BY DEF ConflictsInv, Routed
<1>3. Exclusive'
  BY DEF ConflictsInv, Routed, Exclusive, TypeOK, Fips, Services, LivepatchBreaches
<1>4. ASSUME breach' = {} PROVE Bootable' /\ Told' /\ Noticed'
  <2>1. breach = {}
    BY <1>4
  <2>2. Bootable'
    BY <1>4, <2>1 DEF ConflictsInv, TypeOK, Bootable, Fips, Services
  <2>3. Told'
    BY <1>4, <2>1 DEF ConflictsInv, TypeOK, Bootable, Told, Notices
  <2>4. Noticed'
    BY <1>4, <2>1 DEF ConflictsInv, TypeOK, Bootable, Noticed, Notices
  <2>. QED BY <2>2, <2>3, <2>4
<1>. QED BY <1>1, <1>2, <1>3, <1>4 DEF ConflictsInv

LEMMA ContractChangeStep ==
  ASSUME ConflictsInv, ContractChange PROVE ConflictsInv'
<1>. USE DEF Goto, Transition, Begin, Exit, contract, kernel, memory,
       ContractChange
<1>1. TypeOK'
  <2>1. entitled' \subseteq Services /\ left' \subseteq Services
    BY DEF ConflictsInv, TypeOK, Fips, Services
  <2>2. setup' \subseteq Fips /\ notices' \subseteq Notices /\ breach' \subseteq Breaches
    BY DEF ConflictsInv, TypeOK, Routed, Fips, Notices, Breaches, LivepatchBreaches
  <2>3. /\ lp' \in BOOLEAN /\ meta' \in BOOLEAN /\ flag' \in BOOLEAN
        /\ yes' \in BOOLEAN /\ obliged' \in BOOLEAN
        /\ attached' \in BOOLEAN /\ due' \in BOOLEAN
    BY DEF ConflictsInv, TypeOK
  <2>4. /\ boot' \in {"absent", "0", "1"} /\ proc' \in {"absent", "0", "1"}
        /\ op' \in {"none", "enable", "disable", "delta", "detach", "boot"}
        /\ svc' \in Services
        /\ then' \in {"enable", "decide"} /\ pc' \in Steps
    BY DEF ConflictsInv, TypeOK, Fips, Services, Steps
  <2>. QED BY <2>1, <2>2, <2>3, <2>4 DEF TypeOK
<1>2. Routed'
  BY DEF ConflictsInv, Routed
<1>3. Exclusive'
  BY DEF ConflictsInv, Routed, Exclusive, TypeOK, Fips, Services, LivepatchBreaches
<1>4. ASSUME breach' = {} PROVE Bootable' /\ Told' /\ Noticed'
  <2>1. breach = {}
    BY <1>4
  <2>2. Bootable'
    BY <1>4, <2>1 DEF ConflictsInv, TypeOK, Bootable, Fips, Services
  <2>3. Told'
    BY <1>4, <2>1 DEF ConflictsInv, TypeOK, Bootable, Told, Notices
  <2>4. Noticed'
    BY <1>4, <2>1 DEF ConflictsInv, TypeOK, Bootable, Noticed, Notices
  <2>. QED BY <2>2, <2>3, <2>4
<1>. QED BY <1>1, <1>2, <1>3, <1>4 DEF ConflictsInv

LEMMA AttachStep ==
  ASSUME ConflictsInv, Attach PROVE ConflictsInv'
<1>. USE DEF Goto, Transition, Begin, Exit, contract, kernel, memory,
       Attach
<1>1. TypeOK'
  <2>1. entitled' \subseteq Services /\ left' \subseteq Services
    BY DEF ConflictsInv, TypeOK, Fips, Services
  <2>2. setup' \subseteq Fips /\ notices' \subseteq Notices /\ breach' \subseteq Breaches
    BY DEF ConflictsInv, TypeOK, Routed, Fips, Notices, Breaches, LivepatchBreaches
  <2>3. /\ lp' \in BOOLEAN /\ meta' \in BOOLEAN /\ flag' \in BOOLEAN
        /\ yes' \in BOOLEAN /\ obliged' \in BOOLEAN
        /\ attached' \in BOOLEAN /\ due' \in BOOLEAN
    BY DEF ConflictsInv, TypeOK
  <2>4. /\ boot' \in {"absent", "0", "1"} /\ proc' \in {"absent", "0", "1"}
        /\ op' \in {"none", "enable", "disable", "delta", "detach", "boot"}
        /\ svc' \in Services
        /\ then' \in {"enable", "decide"} /\ pc' \in Steps
    BY DEF ConflictsInv, TypeOK, Fips, Services, Steps
  <2>. QED BY <2>1, <2>2, <2>3, <2>4 DEF TypeOK
<1>2. Routed'
  BY DEF ConflictsInv, Routed
<1>3. Exclusive'
  BY DEF ConflictsInv, Routed, Exclusive, TypeOK, Fips, Services, LivepatchBreaches
<1>4. ASSUME breach' = {} PROVE Bootable' /\ Told' /\ Noticed'
  <2>1. breach = {}
    BY <1>4
  <2>2. Bootable'
    BY <1>4, <2>1 DEF ConflictsInv, TypeOK, Bootable, Fips, Services
  <2>3. Told'
    BY <1>4, <2>1 DEF ConflictsInv, TypeOK, Bootable, Told, Notices
  <2>4. Noticed'
    BY <1>4, <2>1 DEF ConflictsInv, TypeOK, Bootable, Noticed, Notices
  <2>. QED BY <2>2, <2>3, <2>4
<1>. QED BY <1>1, <1>2, <1>3, <1>4 DEF ConflictsInv

LEMMA DetachStep ==
  ASSUME ConflictsInv, Detach PROVE ConflictsInv'
<1>. USE DEF Goto, Transition, Begin, Exit, contract, kernel, memory,
       Detach, Looks, Enabled, Noted
<1>1. TypeOK'
  <2>1. entitled' \subseteq Services /\ left' \subseteq Services
    BY DEF ConflictsInv, TypeOK, Fips, Services
  <2>2. setup' \subseteq Fips /\ notices' \subseteq Notices /\ breach' \subseteq Breaches
    BY DEF ConflictsInv, TypeOK, Routed, Fips, Notices, Breaches, LivepatchBreaches
  <2>3. /\ lp' \in BOOLEAN /\ meta' \in BOOLEAN /\ flag' \in BOOLEAN
        /\ yes' \in BOOLEAN /\ obliged' \in BOOLEAN
        /\ attached' \in BOOLEAN /\ due' \in BOOLEAN
    BY DEF ConflictsInv, TypeOK
  <2>4. /\ boot' \in {"absent", "0", "1"} /\ proc' \in {"absent", "0", "1"}
        /\ op' \in {"none", "enable", "disable", "delta", "detach", "boot"}
        /\ svc' \in Services
        /\ then' \in {"enable", "decide"} /\ pc' \in Steps
    BY DEF ConflictsInv, TypeOK, Fips, Services, Steps
  <2>. QED BY <2>1, <2>2, <2>3, <2>4 DEF TypeOK
<1>2. Routed'
  BY DEF ConflictsInv, Routed
<1>3. Exclusive'
  BY DEF ConflictsInv, Routed, Exclusive, TypeOK, Fips, Services, LivepatchBreaches
<1>4. ASSUME breach' = {} PROVE Bootable' /\ Told' /\ Noticed'
  <2>1. breach = {}
    BY <1>4
  <2>2. Bootable'
    BY <1>4, <2>1 DEF ConflictsInv, TypeOK, Bootable, Fips, Services
  <2>3. Told'
    BY <1>4, <2>1 DEF ConflictsInv, TypeOK, Bootable, Told, Notices
  <2>4. Noticed'
    BY <1>4, <2>1 DEF ConflictsInv, TypeOK, Bootable, Noticed, Notices
  <2>. QED BY <2>2, <2>3, <2>4
<1>. QED BY <1>1, <1>2, <1>3, <1>4 DEF ConflictsInv

LEMMA DetachNextStep ==
  ASSUME ConflictsInv, DetachNext PROVE ConflictsInv'
<1>. USE DEF Goto, Transition, Begin, Exit, contract, kernel, memory,
       DetachNext, FirstRemoval, Looks, Enabled, NotedBy, Noted
<1>1. TypeOK'
  <2>1. entitled' \subseteq Services /\ left' \subseteq Services
    BY DEF ConflictsInv, TypeOK, Fips, Services
  <2>2. setup' \subseteq Fips /\ notices' \subseteq Notices /\ breach' \subseteq Breaches
    BY DEF ConflictsInv, TypeOK, Routed, Fips, Notices, Breaches, LivepatchBreaches
  <2>3. /\ lp' \in BOOLEAN /\ meta' \in BOOLEAN /\ flag' \in BOOLEAN
        /\ yes' \in BOOLEAN /\ obliged' \in BOOLEAN
        /\ attached' \in BOOLEAN /\ due' \in BOOLEAN
    BY DEF ConflictsInv, TypeOK
  <2>4. /\ boot' \in {"absent", "0", "1"} /\ proc' \in {"absent", "0", "1"}
        /\ op' \in {"none", "enable", "disable", "delta", "detach", "boot"}
        /\ svc' \in Services
        /\ then' \in {"enable", "decide"} /\ pc' \in Steps
    BY DEF ConflictsInv, TypeOK, Fips, Services, Steps
  <2>. QED BY <2>1, <2>2, <2>3, <2>4 DEF TypeOK
<1>2. Routed'
  BY DEF ConflictsInv, Routed
<1>3. Exclusive'
  BY DEF ConflictsInv, Routed, Exclusive, TypeOK, Fips, Services, LivepatchBreaches
<1>4. ASSUME breach' = {} PROVE Bootable' /\ Told' /\ Noticed'
  <2>1. breach = {}
    BY <1>4
  <2>2. Bootable'
    BY <1>4, <2>1 DEF ConflictsInv, TypeOK, Bootable, Fips, Services
  <2>3. Told'
    BY <1>4, <2>1 DEF ConflictsInv, TypeOK, Bootable, Told, Notices
  <2>4. Noticed'
    BY <1>4, <2>1 DEF ConflictsInv, TypeOK, Bootable, Noticed, Notices
  <2>. QED BY <2>2, <2>3, <2>4
<1>. QED BY <1>1, <1>2, <1>3, <1>4 DEF ConflictsInv

LEMMA ForgetStep ==
  ASSUME ConflictsInv, Forget PROVE ConflictsInv'
<1>. USE DEF Goto, Transition, Begin, Exit, contract, kernel, memory,
       Forget, RebootPending, Record
<1>1. TypeOK'
  <2>1. entitled' \subseteq Services /\ left' \subseteq Services
    BY DEF ConflictsInv, TypeOK, Fips, Services
  <2>2. setup' \subseteq Fips /\ notices' \subseteq Notices /\ breach' \subseteq Breaches
    BY DEF ConflictsInv, TypeOK, Routed, Fips, Notices, Breaches, LivepatchBreaches
  <2>3. /\ lp' \in BOOLEAN /\ meta' \in BOOLEAN /\ flag' \in BOOLEAN
        /\ yes' \in BOOLEAN /\ obliged' \in BOOLEAN
        /\ attached' \in BOOLEAN /\ due' \in BOOLEAN
    BY DEF ConflictsInv, TypeOK
  <2>4. /\ boot' \in {"absent", "0", "1"} /\ proc' \in {"absent", "0", "1"}
        /\ op' \in {"none", "enable", "disable", "delta", "detach", "boot"}
        /\ svc' \in Services
        /\ then' \in {"enable", "decide"} /\ pc' \in Steps
    BY DEF ConflictsInv, TypeOK, Fips, Services, Steps
  <2>. QED BY <2>1, <2>2, <2>3, <2>4 DEF TypeOK
<1>2. Routed'
  BY DEF ConflictsInv, Routed
<1>3. Exclusive'
  BY DEF ConflictsInv, Routed, Exclusive, TypeOK, Fips, Services, LivepatchBreaches
<1>4. ASSUME breach' = {} PROVE Bootable' /\ Told' /\ Noticed'
  <2>1. breach = {}
    BY <1>4
  <2>2. Bootable'
    BY <1>4, <2>1 DEF ConflictsInv, TypeOK, Bootable, Fips, Services
  <2>3. Told'
    BY <1>4, <2>1 DEF ConflictsInv, TypeOK, Bootable, Told, Notices
  <2>4. Noticed'
    BY <1>4, <2>1 DEF ConflictsInv, TypeOK, Bootable, Noticed, Notices
  <2>. QED BY <2>2, <2>3, <2>4
<1>. QED BY <1>1, <1>2, <1>3, <1>4 DEF ConflictsInv

LEMMA FixHoldsStep ==
  ASSUME ConflictsInv, FixHolds PROVE ConflictsInv'
<1>. USE DEF Goto, Transition, Begin, Exit, contract, kernel, memory,
       FixHolds
<1>1. TypeOK'
  <2>1. entitled' \subseteq Services /\ left' \subseteq Services
    BY DEF ConflictsInv, TypeOK, Fips, Services
  <2>2. setup' \subseteq Fips /\ notices' \subseteq Notices /\ breach' \subseteq Breaches
    BY DEF ConflictsInv, TypeOK, Routed, Fips, Notices, Breaches, LivepatchBreaches
  <2>3. /\ lp' \in BOOLEAN /\ meta' \in BOOLEAN /\ flag' \in BOOLEAN
        /\ yes' \in BOOLEAN /\ obliged' \in BOOLEAN
        /\ attached' \in BOOLEAN /\ due' \in BOOLEAN
    BY DEF ConflictsInv, TypeOK
  <2>4. /\ boot' \in {"absent", "0", "1"} /\ proc' \in {"absent", "0", "1"}
        /\ op' \in {"none", "enable", "disable", "delta", "detach", "boot"}
        /\ svc' \in Services
        /\ then' \in {"enable", "decide"} /\ pc' \in Steps
    BY DEF ConflictsInv, TypeOK, Fips, Services, Steps
  <2>. QED BY <2>1, <2>2, <2>3, <2>4 DEF TypeOK
<1>2. Routed'
  BY DEF ConflictsInv, Routed
<1>3. Exclusive'
  BY DEF ConflictsInv, Routed, Exclusive, TypeOK, Fips, Services, LivepatchBreaches
<1>4. ASSUME breach' = {} PROVE Bootable' /\ Told' /\ Noticed'
  <2>1. breach = {}
    BY <1>4
  <2>2. Bootable'
    BY <1>4, <2>1 DEF ConflictsInv, TypeOK, Bootable, Fips, Services
  <2>3. Told'
    BY <1>4, <2>1 DEF ConflictsInv, TypeOK, Bootable, Told, Notices
  <2>4. Noticed'
    BY <1>4, <2>1 DEF ConflictsInv, TypeOK, Bootable, Noticed, Notices
  <2>. QED BY <2>2, <2>3, <2>4
<1>. QED BY <1>1, <1>2, <1>3, <1>4 DEF ConflictsInv

LEMMA RemoveHoldsStep ==
  ASSUME ConflictsInv, RemoveHolds PROVE ConflictsInv'
<1>. USE DEF Goto, Transition, Begin, Exit, contract, kernel, memory,
       RemoveHolds, Record
<1>1. TypeOK'
  <2>1. entitled' \subseteq Services /\ left' \subseteq Services
    BY DEF ConflictsInv, TypeOK, Fips, Services
  <2>2. setup' \subseteq Fips /\ notices' \subseteq Notices /\ breach' \subseteq Breaches
    BY DEF ConflictsInv, TypeOK, Routed, Fips, Notices, Breaches, LivepatchBreaches
  <2>3. /\ lp' \in BOOLEAN /\ meta' \in BOOLEAN /\ flag' \in BOOLEAN
        /\ yes' \in BOOLEAN /\ obliged' \in BOOLEAN
        /\ attached' \in BOOLEAN /\ due' \in BOOLEAN
    BY DEF ConflictsInv, TypeOK
  <2>4. /\ boot' \in {"absent", "0", "1"} /\ proc' \in {"absent", "0", "1"}
        /\ op' \in {"none", "enable", "disable", "delta", "detach", "boot"}
        /\ svc' \in Services
        /\ then' \in {"enable", "decide"} /\ pc' \in Steps
    BY DEF ConflictsInv, TypeOK, Fips, Services, Steps
  <2>. QED BY <2>1, <2>2, <2>3, <2>4 DEF TypeOK
<1>2. Routed'
  BY DEF ConflictsInv, Routed
<1>3. Exclusive'
  BY DEF ConflictsInv, Routed, Exclusive, TypeOK, Fips, Services, LivepatchBreaches
<1>4. ASSUME breach' = {} PROVE Bootable' /\ Told' /\ Noticed'
  <2>1. breach = {}
    BY <1>4
  <2>2. Bootable'
    BY <1>4, <2>1 DEF ConflictsInv, TypeOK, Bootable, Fips, Services
  <2>3. Told'
    BY <1>4, <2>1 DEF ConflictsInv, TypeOK, Bootable, Told, Notices
  <2>4. Noticed'
    BY <1>4, <2>1 DEF ConflictsInv, TypeOK, Bootable, Noticed, Notices
  <2>. QED BY <2>2, <2>3, <2>4
<1>. QED BY <1>1, <1>2, <1>3, <1>4 DEF ConflictsInv

LEMMA InstallHeldStep ==
  ASSUME ConflictsInv, InstallHeld PROVE ConflictsInv'
<1>. USE DEF Goto, Transition, Begin, Exit, contract, kernel, memory,
       InstallHeld, MetaInstalled, Record
<1>1. TypeOK'
  <2>1. entitled' \subseteq Services /\ left' \subseteq Services
    BY DEF ConflictsInv, TypeOK, Fips, Services
  <2>2. setup' \subseteq Fips /\ notices' \subseteq Notices /\ breach' \subseteq Breaches
    BY DEF ConflictsInv, TypeOK, Routed, Fips, Notices, Breaches, LivepatchBreaches
  <2>3. /\ lp' \in BOOLEAN /\ meta' \in BOOLEAN /\ flag' \in BOOLEAN
        /\ yes' \in BOOLEAN /\ obliged' \in BOOLEAN
        /\ attached' \in BOOLEAN /\ due' \in BOOLEAN
    BY DEF ConflictsInv, TypeOK
  <2>4. /\ boot' \in {"absent", "0", "1"} /\ proc' \in {"absent", "0", "1"}
        /\ op' \in {"none", "enable", "disable", "delta", "detach", "boot"}
        /\ svc' \in Services
        /\ then' \in {"enable", "decide"} /\ pc' \in Steps
    BY DEF ConflictsInv, TypeOK, Fips, Services, Steps
  <2>. QED BY <2>1, <2>2, <2>3, <2>4 DEF TypeOK
<1>2. Routed'
  BY DEF ConflictsInv, Routed
<1>3. Exclusive'
  BY DEF ConflictsInv, Routed, Exclusive, TypeOK, Fips, Services, LivepatchBreaches
<1>4. ASSUME breach' = {} PROVE Bootable' /\ Told' /\ Noticed'
  <2>1. breach = {}
    BY <1>4
  <2>2. Bootable'
    BY <1>4, <2>1 DEF ConflictsInv, TypeOK, Bootable, Fips, Services
  <2>3. Told'
    BY <1>4, <2>1 DEF ConflictsInv, TypeOK, Bootable, Told, Notices
  <2>4. Noticed'
    BY <1>4, <2>1 DEF ConflictsInv, TypeOK, Bootable, Noticed, Notices
  <2>. QED BY <2>2, <2>3, <2>4
<1>. QED BY <1>1, <1>2, <1>3, <1>4 DEF ConflictsInv

LEMMA TellHeldStep ==
  ASSUME ConflictsInv, TellHeld PROVE ConflictsInv'
<1>. USE DEF Goto, Transition, Begin, Exit, contract, kernel, memory,
       TellHeld, Record
<1>1. TypeOK'
  <2>1. entitled' \subseteq Services /\ left' \subseteq Services
    BY DEF ConflictsInv, TypeOK, Fips, Services
  <2>2. setup' \subseteq Fips /\ notices' \subseteq Notices /\ breach' \subseteq Breaches
    BY DEF ConflictsInv, TypeOK, Routed, Fips, Notices, Breaches, LivepatchBreaches
  <2>3. /\ lp' \in BOOLEAN /\ meta' \in BOOLEAN /\ flag' \in BOOLEAN
        /\ yes' \in BOOLEAN /\ obliged' \in BOOLEAN
        /\ attached' \in BOOLEAN /\ due' \in BOOLEAN
    BY DEF ConflictsInv, TypeOK
  <2>4. /\ boot' \in {"absent", "0", "1"} /\ proc' \in {"absent", "0", "1"}
        /\ op' \in {"none", "enable", "disable", "delta", "detach", "boot"}
        /\ svc' \in Services
        /\ then' \in {"enable", "decide"} /\ pc' \in Steps
    BY DEF ConflictsInv, TypeOK, Fips, Services, Steps
  <2>. QED BY <2>1, <2>2, <2>3, <2>4 DEF TypeOK
<1>2. Routed'
  BY DEF ConflictsInv, Routed
<1>3. Exclusive'
  BY DEF ConflictsInv, Routed, Exclusive, TypeOK, Fips, Services, LivepatchBreaches
<1>4. ASSUME breach' = {} PROVE Bootable' /\ Told' /\ Noticed'
  <2>1. breach = {}
    BY <1>4
  <2>2. Bootable'
    BY <1>4, <2>1 DEF ConflictsInv, TypeOK, Bootable, Fips, Services
  <2>3. Told'
    BY <1>4, <2>1 DEF ConflictsInv, TypeOK, Bootable, Told, Notices
  <2>4. Noticed'
    BY <1>4, <2>1 DEF ConflictsInv, TypeOK, Bootable, Noticed, Notices
  <2>. QED BY <2>2, <2>3, <2>4
<1>. QED BY <1>1, <1>2, <1>3, <1>4 DEF ConflictsInv

LEMMA DecideStep ==
  ASSUME ConflictsInv, Decide PROVE ConflictsInv'
<1>. USE DEF Goto, Transition, Begin, Exit, contract, kernel, memory,
       Decide
<1>1. TypeOK'
  <2>1. entitled' \subseteq Services /\ left' \subseteq Services
    BY DEF ConflictsInv, TypeOK, Fips, Services
  <2>2. setup' \subseteq Fips /\ notices' \subseteq Notices /\ breach' \subseteq Breaches
    BY DEF ConflictsInv, TypeOK, Routed, Fips, Notices, Breaches, LivepatchBreaches
  <2>3. /\ lp' \in BOOLEAN /\ meta' \in BOOLEAN /\ flag' \in BOOLEAN
        /\ yes' \in BOOLEAN /\ obliged' \in BOOLEAN
        /\ attached' \in BOOLEAN /\ due' \in BOOLEAN
    BY DEF ConflictsInv, TypeOK
  <2>4. /\ boot' \in {"absent", "0", "1"} /\ proc' \in {"absent", "0", "1"}
        /\ op' \in {"none", "enable", "disable", "delta", "detach", "boot"}
        /\ svc' \in Services
        /\ then' \in {"enable", "decide"} /\ pc' \in Steps
    BY DEF ConflictsInv, TypeOK, Fips, Services, Steps
  <2>. QED BY <2>1, <2>2, <2>3, <2>4 DEF TypeOK
<1>2. Routed'
  BY DEF ConflictsInv, Routed
<1>3. Exclusive'
  BY DEF ConflictsInv, Routed, Exclusive, TypeOK, Fips, Services, LivepatchBreaches
<1>4. ASSUME breach' = {} PROVE Bootable' /\ Told' /\ Noticed'
  <2>1. breach = {}
    BY <1>4
  <2>2. Bootable'
    BY <1>4, <2>1 DEF ConflictsInv, TypeOK, Bootable, Fips, Services
  <2>3. Told'
    BY <1>4, <2>1 DEF ConflictsInv, TypeOK, Bootable, Told, Notices
  <2>4. Noticed'
    BY <1>4, <2>1 DEF ConflictsInv, TypeOK, Bootable, Noticed, Notices
  <2>. QED BY <2>2, <2>3, <2>4
<1>. QED BY <1>1, <1>2, <1>3, <1>4 DEF ConflictsInv

LEMMA DirectivesStep ==
  ASSUME ConflictsInv, Directives PROVE ConflictsInv'
<1>. USE DEF Goto, Transition, Begin, Exit, contract, kernel, memory,
       Directives, Enabled, NotedBy, Noted
<1>1. TypeOK'
  <2>1. entitled' \subseteq Services /\ left' \subseteq Services
    BY DEF ConflictsInv, TypeOK, Fips, Services
  <2>2. setup' \subseteq Fips /\ notices' \subseteq Notices /\ breach' \subseteq Breaches
    BY DEF ConflictsInv, TypeOK, Routed, Fips, Notices, Breaches, LivepatchBreaches
  <2>3. /\ lp' \in BOOLEAN /\ meta' \in BOOLEAN /\ flag' \in BOOLEAN
        /\ yes' \in BOOLEAN /\ obliged' \in BOOLEAN
        /\ attached' \in BOOLEAN /\ due' \in BOOLEAN
    BY DEF ConflictsInv, TypeOK
  <2>4. /\ boot' \in {"absent", "0", "1"} /\ proc' \in {"absent", "0", "1"}
        /\ op' \in {"none", "enable", "disable", "delta", "detach", "boot"}
        /\ svc' \in Services
        /\ then' \in {"enable", "decide"} /\ pc' \in Steps
    BY DEF ConflictsInv, TypeOK, Fips, Services, Steps
  <2>. QED BY <2>1, <2>2, <2>3, <2>4 DEF TypeOK
<1>2. Routed'
  BY DEF ConflictsInv, Routed
<1>3. Exclusive'
  BY DEF ConflictsInv, Routed, Exclusive, TypeOK, Fips, Services, LivepatchBreaches
<1>4. ASSUME breach' = {} PROVE Bootable' /\ Told' /\ Noticed'
  <2>1. breach = {}
    BY <1>4
  <2>2. Bootable'
    BY <1>4, <2>1 DEF ConflictsInv, TypeOK, Bootable, Fips, Services
  <2>3. Told'
    BY <1>4, <2>1 DEF ConflictsInv, TypeOK, Bootable, Told, Notices
  <2>4. Noticed'
    BY <1>4, <2>1 DEF ConflictsInv, TypeOK, Bootable, Noticed, Notices
  <2>. QED BY <2>2, <2>3, <2>4
<1>. QED BY <1>1, <1>2, <1>3, <1>4 DEF ConflictsInv

LEMMA EndStep ==
  ASSUME ConflictsInv, End PROVE ConflictsInv'
<1>. USE DEF Goto, Transition, Begin, Exit, contract, kernel, memory,
       End, Noted
<1>1. TypeOK'
  <2>1. entitled' \subseteq Services /\ left' \subseteq Services
    BY DEF ConflictsInv, TypeOK, Fips, Services
  <2>2. setup' \subseteq Fips /\ notices' \subseteq Notices /\ breach' \subseteq Breaches
    BY DEF ConflictsInv, TypeOK, Routed, Fips, Notices, Breaches, LivepatchBreaches
  <2>3. /\ lp' \in BOOLEAN /\ meta' \in BOOLEAN /\ flag' \in BOOLEAN
        /\ yes' \in BOOLEAN /\ obliged' \in BOOLEAN
        /\ attached' \in BOOLEAN /\ due' \in BOOLEAN
    BY DEF ConflictsInv, TypeOK
  <2>4. /\ boot' \in {"absent", "0", "1"} /\ proc' \in {"absent", "0", "1"}
        /\ op' \in {"none", "enable", "disable", "delta", "detach", "boot"}
        /\ svc' \in Services
        /\ then' \in {"enable", "decide"} /\ pc' \in Steps
    BY DEF ConflictsInv, TypeOK, Fips, Services, Steps
  <2>. QED BY <2>1, <2>2, <2>3, <2>4 DEF TypeOK
<1>2. Routed'
  BY DEF ConflictsInv, Routed
<1>3. Exclusive'
  BY DEF ConflictsInv, Routed, Exclusive, TypeOK, Fips, Services, LivepatchBreaches
<1>4. ASSUME breach' = {} PROVE Bootable' /\ Told' /\ Noticed'
  <2>1. breach = {}
    BY <1>4
  <2>2. Bootable'
    BY <1>4, <2>1 DEF ConflictsInv, TypeOK, Bootable, Fips, Services
  <2>3. Told'
    BY <1>4, <2>1 DEF ConflictsInv, TypeOK, Bootable, Told, Notices
  <2>4. Noticed'
    BY <1>4, <2>1 DEF ConflictsInv, TypeOK, Bootable, Noticed, Notices
  <2>. QED BY <2>2, <2>3, <2>4
<1>. QED BY <1>1, <1>2, <1>3, <1>4 DEF ConflictsInv

LEMMA StatusStep ==
  ASSUME ConflictsInv, Status PROVE ConflictsInv'
<1>. USE DEF Goto, Transition, Begin, Exit, contract, kernel, memory,
       Status, Noted
<1>1. TypeOK'
  <2>1. entitled' \subseteq Services /\ left' \subseteq Services
    BY DEF ConflictsInv, TypeOK, Fips, Services
  <2>2. setup' \subseteq Fips /\ notices' \subseteq Notices /\ breach' \subseteq Breaches
    BY DEF ConflictsInv, TypeOK, Routed, Fips, Notices, Breaches, LivepatchBreaches
  <2>3. /\ lp' \in BOOLEAN /\ meta' \in BOOLEAN /\ flag' \in BOOLEAN
        /\ yes' \in BOOLEAN /\ obliged' \in BOOLEAN
        /\ attached' \in BOOLEAN /\ due' \in BOOLEAN
    BY DEF ConflictsInv, TypeOK
  <2>4. /\ boot' \in {"absent", "0", "1"} /\ proc' \in {"absent", "0", "1"}
        /\ op' \in {"none", "enable", "disable", "delta", "detach", "boot"}
        /\ svc' \in Services
        /\ then' \in {"enable", "decide"} /\ pc' \in Steps
    BY DEF ConflictsInv, TypeOK, Fips, Services, Steps
  <2>. QED BY <2>1, <2>2, <2>3, <2>4 DEF TypeOK
<1>2. Routed'
  BY DEF ConflictsInv, Routed
<1>3. Exclusive'
  BY DEF ConflictsInv, Routed, Exclusive, TypeOK, Fips, Services, LivepatchBreaches
<1>4. ASSUME breach' = {} PROVE Bootable' /\ Told' /\ Noticed'
  <2>1. breach = {}
    BY <1>4
  <2>2. Bootable'
    BY <1>4, <2>1 DEF ConflictsInv, TypeOK, Bootable, Fips, Services
  <2>3. Told'
    BY <1>4, <2>1 DEF ConflictsInv, TypeOK, Bootable, Told, Notices
  <2>4. Noticed'
    BY <1>4, <2>1 DEF ConflictsInv, TypeOK, Bootable, Noticed, Notices
  <2>. QED BY <2>2, <2>3, <2>4
<1>. QED BY <1>1, <1>2, <1>3, <1>4 DEF ConflictsInv

LEMMA CrashStep ==
  ASSUME ConflictsInv, Crash PROVE ConflictsInv'
<1>. USE DEF Goto, Transition, Begin, Exit, contract, kernel, memory,
       Crash
<1>1. TypeOK'
  <2>1. entitled' \subseteq Services /\ left' \subseteq Services
    BY DEF ConflictsInv, TypeOK, Fips, Services
  <2>2. setup' \subseteq Fips /\ notices' \subseteq Notices /\ breach' \subseteq Breaches
    BY DEF ConflictsInv, TypeOK, Routed, Fips, Notices, Breaches, LivepatchBreaches
  <2>3. /\ lp' \in BOOLEAN /\ meta' \in BOOLEAN /\ flag' \in BOOLEAN
        /\ yes' \in BOOLEAN /\ obliged' \in BOOLEAN
        /\ attached' \in BOOLEAN /\ due' \in BOOLEAN
    BY DEF ConflictsInv, TypeOK
  <2>4. /\ boot' \in {"absent", "0", "1"} /\ proc' \in {"absent", "0", "1"}
        /\ op' \in {"none", "enable", "disable", "delta", "detach", "boot"}
        /\ svc' \in Services
        /\ then' \in {"enable", "decide"} /\ pc' \in Steps
    BY DEF ConflictsInv, TypeOK, Fips, Services, Steps
  <2>. QED BY <2>1, <2>2, <2>3, <2>4 DEF TypeOK
<1>2. Routed'
  BY DEF ConflictsInv, Routed
<1>3. Exclusive'
  BY DEF ConflictsInv, Routed, Exclusive, TypeOK, Fips, Services, LivepatchBreaches
<1>4. ASSUME breach' = {} PROVE Bootable' /\ Told' /\ Noticed'
  <2>1. breach = {}
    BY <1>4
  <2>2. Bootable'
    BY <1>4, <2>1 DEF ConflictsInv, TypeOK, Bootable, Fips, Services
  <2>3. Told'
    BY <1>4, <2>1 DEF ConflictsInv, TypeOK, Bootable, Told, Notices
  <2>4. Noticed'
    BY <1>4, <2>1 DEF ConflictsInv, TypeOK, Bootable, Noticed, Notices
  <2>. QED BY <2>2, <2>3, <2>4
<1>. QED BY <1>1, <1>2, <1>3, <1>4 DEF ConflictsInv

LEMMA RebootStep ==
  ASSUME ConflictsInv, Reboot PROVE ConflictsInv'
<1>. USE DEF Goto, Transition, Begin, Exit, contract, kernel, memory,
       Reboot, Record
<1>1. TypeOK'
  <2>1. entitled' \subseteq Services /\ left' \subseteq Services
    BY DEF ConflictsInv, TypeOK, Fips, Services
  <2>2. setup' \subseteq Fips /\ notices' \subseteq Notices /\ breach' \subseteq Breaches
    BY DEF ConflictsInv, TypeOK, Routed, Fips, Notices, Breaches, LivepatchBreaches
  <2>3. /\ lp' \in BOOLEAN /\ meta' \in BOOLEAN /\ flag' \in BOOLEAN
        /\ yes' \in BOOLEAN /\ obliged' \in BOOLEAN
        /\ attached' \in BOOLEAN /\ due' \in BOOLEAN
    BY DEF ConflictsInv, TypeOK
  <2>4. /\ boot' \in {"absent", "0", "1"} /\ proc' \in {"absent", "0", "1"}
        /\ op' \in {"none", "enable", "disable", "delta", "detach", "boot"}
        /\ svc' \in Services
        /\ then' \in {"enable", "decide"} /\ pc' \in Steps
    BY DEF ConflictsInv, TypeOK, Fips, Services, Steps
  <2>. QED BY <2>1, <2>2, <2>3, <2>4 DEF TypeOK
<1>2. Routed'
  BY DEF ConflictsInv, Routed
<1>3. Exclusive'
  BY DEF ConflictsInv, Routed, Exclusive, TypeOK, Fips, Services, LivepatchBreaches
<1>4. ASSUME breach' = {} PROVE Bootable' /\ Told' /\ Noticed'
  <2>1. breach = {}
    BY <1>4
  <2>2. Bootable'
    BY <1>4, <2>1 DEF ConflictsInv, TypeOK, Bootable, Fips, Services
  <2>3. Told'
    BY <1>4, <2>1 DEF ConflictsInv, TypeOK, Bootable, Told, Notices
  <2>4. Noticed'
    BY <1>4, <2>1 DEF ConflictsInv, TypeOK, Bootable, Noticed, Notices
  <2>. QED BY <2>2, <2>3, <2>4
<1>. QED BY <1>1, <1>2, <1>3, <1>4 DEF ConflictsInv

LEMMA RemoveKernelStep ==
  ASSUME ConflictsInv, RemoveKernel PROVE ConflictsInv'
<1>. USE DEF Goto, Transition, Begin, Exit, contract, kernel, memory,
       RemoveKernel
<1>1. TypeOK'
  <2>1. entitled' \subseteq Services /\ left' \subseteq Services
    BY DEF ConflictsInv, TypeOK, Fips, Services
  <2>2. setup' \subseteq Fips /\ notices' \subseteq Notices /\ breach' \subseteq Breaches
    BY DEF ConflictsInv, TypeOK, Routed, Fips, Notices, Breaches, LivepatchBreaches
  <2>3. /\ lp' \in BOOLEAN /\ meta' \in BOOLEAN /\ flag' \in BOOLEAN
        /\ yes' \in BOOLEAN /\ obliged' \in BOOLEAN
        /\ attached' \in BOOLEAN /\ due' \in BOOLEAN
    BY DEF ConflictsInv, TypeOK
  <2>4. /\ boot' \in {"absent", "0", "1"} /\ proc' \in {"absent", "0", "1"}
        /\ op' \in {"none", "enable", "disable", "delta", "detach", "boot"}
        /\ svc' \in Services
        /\ then' \in {"enable", "decide"} /\ pc' \in Steps
    BY DEF ConflictsInv, TypeOK, Fips, Services, Steps
  <2>. QED BY <2>1, <2>2, <2>3, <2>4 DEF TypeOK
<1>2. Routed'
  BY DEF ConflictsInv, Routed
<1>3. Exclusive'
  BY DEF ConflictsInv, Routed, Exclusive, TypeOK, Fips, Services, LivepatchBreaches
<1>4. ASSUME breach' = {} PROVE Bootable' /\ Told' /\ Noticed'
  <2>1. breach = {}
    BY <1>4
  <2>2. Bootable'
    BY <1>4, <2>1 DEF ConflictsInv, TypeOK, Bootable, Fips, Services
  <2>3. Told'
    BY <1>4, <2>1 DEF ConflictsInv, TypeOK, Bootable, Told, Notices
  <2>4. Noticed'
    BY <1>4, <2>1 DEF ConflictsInv, TypeOK, Bootable, Noticed, Notices
  <2>. QED BY <2>2, <2>3, <2>4
<1>. QED BY <1>1, <1>2, <1>3, <1>4 DEF ConflictsInv

-----------------------------------------------------------------------------
(* The invariant holds at the start, and the steps above are all there are. *)
LEMMA InitInv == ASSUME Init PROVE ConflictsInv
BY DEF Init, ConflictsInv, TypeOK, Routed, Exclusive, Bootable, Told, Noticed, Fips, Services,
  Notices, Steps, Breaches, LivepatchBreaches

LEMMA NextInv == ASSUME ConflictsInv, [Next]_vars PROVE ConflictsInv'
<1>1. CASE UNCHANGED vars
  <2>. USE <1>1 DEF vars, contract, kernel, memory
  <2>1. TypeOK'
    BY DEF ConflictsInv, TypeOK
  <2>2. Routed' /\ Exclusive'
    BY DEF ConflictsInv, Routed, Exclusive
  <2>3. breach' = {} => Bootable' /\ Told' /\ Noticed'
    BY DEF ConflictsInv, Bootable, Told, Noticed
  <2>. QED BY <2>1, <2>2, <2>3 DEF ConflictsInv
<1>2. CASE EnableSteps
  BY <1>2, CanEnableStep, HandleIncompatibleStep, SetupAptConfigStep, InstallPackagesStep,
    TellStep, InstallClientStep, ConfigureLivepatchStep, ProcessTokenStep, EnableClientStep
    DEF EnableSteps
<1>3. CASE DisableSteps
  BY <1>3, DisableClientStep, RemovePackagesStep, CleanupStep, TellDisabledStep
    DEF DisableSteps
<1>4. CASE Enable \/ Disable \/ DropService \/ ContractChange \/ Attach
  BY <1>4, EnableStep, DisableStep, DropServiceStep, ContractChangeStep, AttachStep
<1>5. CASE Decide \/ Directives \/ End
  BY <1>5, DecideStep, DirectivesStep, EndStep
<1>6. CASE Status \/ Crash \/ Reboot \/ RemoveKernel
  BY <1>6, StatusStep, CrashStep, RebootStep, RemoveKernelStep
<1>7. CASE DetachSteps \/ BootSteps
  BY <1>7, DetachStep, DetachNextStep, ForgetStep, FixHoldsStep, RemoveHoldsStep,
    InstallHeldStep, TellHeldStep
    DEF DetachSteps, BootSteps
<1>. QED BY <1>1, <1>2, <1>3, <1>4, <1>5, <1>6, <1>7 DEF Next

(* What the properties below rest on holds in every reachable state,       *)
(* whatever faults there are (fips.py, livepatch.py and base.py).          *)
THEOREM InvariantHolds == Spec => []ConflictsInv
<1>. QED BY InitInv, NextInv, PTL DEF Spec

(* The files, the kernel and the command at hand keep their types.         *)
THEOREM TypeCorrect == Spec => []TypeOK
<1>1. ConflictsInv => TypeOK
  BY DEF ConflictsInv
<1>. QED BY <1>1, InvariantHolds, PTL

(* FIPS and Livepatch are never on together (livepatch.py:33-66 and        *)
(* base.py:177-243), through every command, fault, crash and reboot, up to *)
(* the three breaches that NeverBoth names.                                *)
THEOREM NeverTogether == Spec => []NeverBoth
<1>1. ConflictsInv => NeverBoth
  BY DEF ConflictsInv, Exclusive, NeverBoth, Enabled, Fips, TypeOK
<1>. QED BY <1>1, InvariantHolds, PTL

(* An enabled FIPS service has its kernel option (fips.py:214-237 and      *)
(* repo.py:245-284).                                                       *)
THEOREM EnabledBoots == Spec => []FipsBootable
<1>1. ConflictsInv => FipsBootable
  BY DEF ConflictsInv, Bootable, FipsBootable, Enabled, Fips, TypeOK
<1>. QED BY <1>1, InvariantHolds, PTL

(* A needed reboot is announced (fips.py:51-67 and 183-212), up to the     *)
(* named breaches, the notices a detach deletes among them.                *)
THEOREM RebootTold == Spec => []PendingRebootTold
<1>1. ConflictsInv => PendingRebootTold
  BY DEF ConflictsInv, Told, PendingRebootTold
<1>. QED BY <1>1, InvariantHolds, PTL

(* An announced reboot is needed (fips.py:51-67 and 183-212).              *)
THEOREM TellsTheTruth == Spec => []NoticesTrue
<1>1. ConflictsInv => NoticesTrue
  BY DEF ConflictsInv, Noticed, NoticesTrue, Noted, TypeOK
<1>. QED BY <1>1, InvariantHolds, PTL

=============================================================================
