-------------------------- MODULE SecurityFixProofs --------------------------
(***************************************************************************)
(* Theorems about SecurityFix for every set of packages, every answer of   *)
(* the security API and every number of runs of `ua fix`.                  *)
(***************************************************************************)
EXTENDS SecurityFix, WellFoundedInduction, TLAPS

(* The pockets the command has gone through.                               *)
Gone == IF at = "standard" THEN {} ELSE IF at = "infra" THEN {"standard"}
        ELSE IF at = "apps" THEN {"standard", "infra"} ELSE Pockets

(* The command has got as far as its plan, and has not been stopped since. *)
Planned ==
  \/ pc \in Pcs \ {"idle", "cves", "usns"}
  \/ pc = "idle" /\ verdict \in {"resolved", "unresolved", "reboot"}

(* The prompts are about a pocket of a service, apt about any pocket.      *)
AtInv ==
  /\ pc \in {"attach", "renew", "service", "enable"} => at \in EsmPockets
  /\ pc = "apt" => at \in Pockets
  /\ pc = "idle" => at = "done"

(* No package is older than as the command began.                          *)
SnapInv == \A b \in Binaries : installed[b] >= snap[b]

(* A fix is some notice's fix, and it is the highest one.                  *)
MergedInv ==
  /\ \A b \in Binaries : merged[b].version > 0 =>
       \E i \in 1..NUsns : merged[b] = Usn[i].fixes[b]
  /\ \A b \in Binaries : merged[b].version = need[b]

(* Every affected source is in the list or in the group of a pocket, each  *)
(* installed package of a group has a fix, and is to be upgraded to it or  *)
(* new enough; its fix is in the pocket it is upgraded from.               *)
PlanInv ==
  Planned =>
    /\ \A s \in Affected(statuses) : s \in listed \/ \E p \in Pockets : s \in group[p]
    /\ \A p \in Pockets : \A s \in group[p] : \A b \in InstalledOf(snap, s) :
         merged[b].version > 0 /\ (b \in todo[p] \/ snap[b] >= merged[b].version)
    /\ "mixed" \notin breaches =>
         \A p \in Pockets : \A b \in todo[p] : merged[b].version > 0 /\ merged[b].pocket = p

(* apt runs for a pocket it reads.                                         *)
AptInv ==
  pc = "apt" /\ breaches = {} => at \in {"standard"} \union enabled

(* What was to be upgraded from a pocket that is gone through has been     *)
(* upgraded, or all of its sources are in the list.                        *)
GoneInv ==
  Planned /\ breaches = {} =>
    \A p \in Gone : \/ group[p] \subseteq listed
                    \/ \A b \in todo[p] : installed[b] >= merged[b].version

VerdictInv ==
  /\ pc # "idle" => verdict = "none"
  /\ verdict = "resolved" => listed = {}

(* A reboot that is owed is asked for by the system, and by a notice as    *)
(* soon as the command that upgraded something is over.                    *)
RebootInv ==
  /\ pc \in {"attach", "renew", "service", "enable", "apt"} => ~allInstalled
  /\ owed = "yes" => rebootFlag
  /\ owed = "yes" /\ ~notice => pc # "idle" /\ ~allInstalled
  /\ pc = "idle" /\ owed = "yes" /\ verdict = "resolved" => allInstalled

FixInv ==
  /\ TypeOK /\ AtInv /\ SnapInv /\ MergedInv /\ PlanInv /\ AptInv
  /\ GoneInv /\ VerdictInv /\ RebootInv

-----------------------------------------------------------------------------
(* Lemmas about FixPlan's operators *)

(* A non-empty set of versions has a highest one, which Max is.            *)
LEMMA MaxVersion ==
  ASSUME NEW S \in SUBSET Versions, S # {}
  PROVE  Max(S) \in S /\ \A v \in S : Max(S) >= v
<1>. DEFINE Less == OpToRel(<, Nat)
            Gaps == {g \in Nat : \E v \in S : g = Top - v}
<1>1. Top \in Nat
  BY PlanAssumption
<1>2. \A g, h \in Nat : g < h => <<g, h>> \in Less
  BY DEF OpToRel
<1>3. PICK v \in S : TRUE
  OBVIOUS
<1>4. Gaps \subseteq Nat /\ Top - v \in Gaps
  BY <1>1, <1>3 DEF Versions
<1>5. IsWellFoundedOn(Less, Nat)
  BY NatLessThanWellFounded
<1>6. PICK g \in Gaps : \A h \in Gaps : <<h, g>> \notin Less
  <2>. HIDE DEF Less, Gaps
  <2>1. QED
    BY <1>4, <1>5, WFMin
<1>7. PICK w \in S : g = Top - w
  BY <1>6
<1>8. \A u \in S : w >= u
  <2>1. TAKE u \in S
  <2>2. u \in Nat /\ u <= Top /\ w \in Nat /\ w <= Top
    BY <1>1 DEF Versions
  <2>3. Top - u \in Gaps /\ Top - w \in Nat
    BY <1>1, <2>2
  <2>4. ~(Top - u < Top - w)
    BY <1>2, <1>6, <1>7, <2>3
  <2>5. QED
    BY <1>1, <2>2, <2>4
<1>9. QED
  BY <1>8 DEF Max

(* Of two versions Max is the higher one.                                  *)
LEMMA MaxOfTwo ==
  ASSUME NEW v \in Versions, NEW w \in Versions
  PROVE  Max({v, w}) \in Versions /\ Max({v, w}) >= v /\ Max({v, w}) >= w
         /\ Max({v, w}) \in {v, w}
  BY MaxVersion, {v, w} \in SUBSET Versions

(* The notices' fixes are fixes.                                           *)
LEMMA UsnTypes ==
  ASSUME NEW i \in 1..NUsns
  PROVE  /\ Usn[i].sources \subseteq Sources
         /\ \A b \in Binaries : Usn[i].fixes[b] \in Fixes
  BY PlanAssumption

(* What the archive offers in a pocket is at least what any notice has     *)
(* there.                                                                  *)
LEMMA OfferedBounds ==
  ASSUME NEW p \in Pockets, NEW b \in Binaries
  PROVE  /\ Offered(p, b) \in Versions
         /\ \A i \in 1..NUsns : Usn[i].fixes[b].pocket = p =>
              Offered(p, b) >= Usn[i].fixes[b].version
<1>. DEFINE Published == {0} \union {Usn[i].fixes[b].version :
              i \in {j \in 1..NUsns : Usn[j].fixes[b].pocket = p}}
<1>1. Published \in SUBSET Versions /\ Published # {}
  BY UsnTypes, PlanAssumption DEF Fixes, Versions
<1>2. Offered(p, b) = Max(Published)
  BY DEF Offered
<1>3. \A i \in 1..NUsns :
        Usn[i].fixes[b].pocket = p => Usn[i].fixes[b].version \in Published
  OBVIOUS
<1>. HIDE DEF Published
<1>4. QED
  BY <1>1, <1>2, <1>3, MaxVersion

(* apt upgrades to at least what any pocket it reads offers.               *)
LEMMA CandidateBounds ==
  ASSUME NEW reads \in SUBSET Pockets, reads # {}, NEW b \in Binaries
  PROVE  /\ Candidate(b, reads) \in Versions
         /\ \A p \in reads : Candidate(b, reads) >= Offered(p, b)
<1>. DEFINE Offers == {Offered(p, b) : p \in reads}
<1>1. Offers \in SUBSET Versions /\ Offers # {}
  BY OfferedBounds
<1>2. Candidate(b, reads) = Max(Offers)
  BY DEF Candidate
<1>3. \A p \in reads : Offered(p, b) \in Offers
  OBVIOUS
<1>. HIDE DEF Offers
<1>4. QED
  BY <1>1, <1>2, <1>3, MaxVersion

(* The two merges return statuses and fixes.                               *)
LEMMA MergeTypes ==
  /\ \A f \in [Sources -> Statuses], c \in 1..NCves, v \in [Binaries -> Versions] :
       MergeCve(f, Cve[c], v) \in [Sources -> Statuses]
  /\ \A m \in [Binaries -> Fixes], i \in 1..NUsns :
       MergeUsn(m, Usn[i]) \in [Binaries -> Fixes]
  BY UsnTypes, PlanAssumption DEF MergeCve, MergeUsn

-----------------------------------------------------------------------------
(* The steps *)

(* Each step keeps the Boolean variables Boolean.                          *)
LEMMA StepFlags ==
  ASSUME TypeOK, [Next]_vars
  PROVE  /\ lapsed' \in BOOLEAN /\ rebootFlag' \in BOOLEAN /\ notice' \in BOOLEAN
         /\ root' \in BOOLEAN
         /\ ok' \in BOOLEAN /\ allInstalled' \in BOOLEAN
<1>. USE DEF TypeOK, machine, answers, plan, result, history, DeleteCache, Goto, NextPocket, Stop,
       Fail, AtPocket, Answered
<1>1. CASE Start
  BY <1>1 DEF Start
<1>2. CASE ReadCve
  BY <1>2 DEF ReadCve
<1>3. CASE CvesRead
  BY <1>3 DEF CvesRead
<1>4. CASE ReadUsn
  BY <1>4 DEF ReadUsn
<1>5. CASE QueryFails
  BY <1>5 DEF QueryFails
<1>6. CASE Unaffected
  BY <1>6 DEF Unaffected
<1>7. CASE MetadataIncomplete
  BY <1>7 DEF MetadataIncomplete
<1>8. CASE Plan
  BY <1>8 DEF Plan
<1>9. CASE PassPocket
  BY <1>9 DEF PassPocket
<1>10. CASE SkipPocket
  BY <1>10 DEF SkipPocket
<1>11. CASE NotRoot
  BY <1>11 DEF NotRoot
<1>12. CASE UpgradeStandard
  BY <1>12 DEF UpgradeStandard
<1>13. CASE UpgradeEsm
  BY <1>13 DEF UpgradeEsm
<1>14. CASE Cancel
  BY <1>14 DEF Cancel
<1>15. CASE AttachSucceeds
  BY <1>15 DEF AttachSucceeds
<1>16. CASE AttachFails
  BY <1>16 DEF AttachFails
<1>17. CASE DetachToRenew
  BY <1>17 DEF DetachToRenew
<1>18. CASE DetachFails
  BY <1>18 DEF DetachFails
<1>19. CASE ServiceActive
  BY <1>19 DEF ServiceActive
<1>20. CASE ServiceOff
  BY <1>20 DEF ServiceOff
<1>21. CASE ServiceRefused
  BY <1>21 DEF ServiceRefused
<1>22. CASE EnableSucceeds
  BY <1>22 DEF EnableSucceeds
<1>23. CASE EnableSwallows
  BY <1>23 DEF EnableSwallows
<1>24. CASE Install
  BY <1>24 DEF Install
<1>25. CASE Raise
  BY <1>25 DEF Raise
<1>26. CASE Conclude
  BY <1>26 DEF Conclude
<1>27. CASE Lapse
  BY <1>27 DEF Lapse
<1>28. CASE Withdraw
  BY <1>28 DEF Withdraw
<1>29. CASE UpgradeUnattended
  BY <1>29 DEF UpgradeUnattended
<1>30. CASE Reboot
  BY <1>30 DEF Reboot
<1>31. CASE SaveStatus
  BY <1>31 DEF SaveStatus
<1>32. CASE UNCHANGED vars
  BY <1>32 DEF vars
<1>33. CASE DetachElsewhere
  BY <1>33 DEF DetachElsewhere
<1>34. QED
  BY <1>1, <1>2, <1>3, <1>4, <1>5, <1>6, <1>7, <1>8, <1>9, <1>10, <1>11,
     <1>12, <1>13, <1>14, <1>15, <1>16, <1>17, <1>18, <1>19, <1>20, <1>21,
     <1>22, <1>23, <1>24, <1>25, <1>26, <1>27, <1>28, <1>29, <1>30, <1>31,
     <1>32, <1>33
     DEF Next, Query, Prepare, Pocket, Subscribe, Service, Finish, World

(* Each step keeps every variable in its type.                             *)
LEMMA StepTypes ==
  ASSUME TypeOK, AtInv, [Next]_vars
  PROVE  TypeOK'
<1>. USE StepFlags
   DEF TypeOK, AtInv, machine, answers, plan, result, history, Pcs, Verdicts,
       Breaches, Pockets, EsmPockets, After, DeleteCache, Goto, NextPocket, Stop, Fail,
       AtPocket, Answered
<1>1. CASE Start
  <2>1. 0 \in 0..NCves /\ 0 \in 0..NUsns /\ 0 \in Versions /\ fixes' \in 0..MaxFixes
    BY <1>1, PlanAssumption, FixAssumption DEF Start, Versions
  <2>2. /\ statuses' \in [Sources -> Statuses] /\ merged' \in [Binaries -> Fixes]
    BY <1>1, <2>1, FixAssumption DEF Start, Statuses, Fixes, NoStatus, NoFix
  <2>3. QED
    BY <1>1, <2>1, <2>2 DEF Start
<1>2. CASE ReadCve
  <2>1. /\ cveAt' \in 1..NCves
        /\ statuses' \in [Sources -> Statuses]
    BY <1>2, PlanAssumption, MergeTypes DEF ReadCve
  <2>2. QED
    BY <1>2, <2>1, PlanAssumption DEF ReadCve
<1>3. CASE CvesRead
  BY <1>3 DEF CvesRead
<1>4. CASE ReadUsn
  <2>1. PICK i \in (usnAt + 1)..NUsns :
          /\ usnAt' = i
          /\ merged' = MergeUsn(merged, Usn[i])
          /\ sourced' = sourced \union Usn[i].sources
          /\ need' = [b \in Binaries |-> Max({need[b], Usn[i].fixes[b].version})]
    BY <1>4 DEF ReadUsn
  <2>2. i \in 1..NUsns
    BY PlanAssumption
  <2>3. merged' \in [Binaries -> Fixes] /\ sourced' \subseteq Sources
    BY <2>1, <2>2, MergeTypes, UsnTypes
  <2>4. ASSUME NEW b \in Binaries
        PROVE  Max({need[b], Usn[i].fixes[b].version}) \in Versions
    BY <2>2, UsnTypes, MaxOfTwo DEF Fixes
  <2>5. need' \in [Binaries -> Versions]
    BY <2>1, <2>4
  <2>6. QED
    BY <1>4, <2>1, <2>2, <2>3, <2>5, PlanAssumption DEF ReadUsn
<1>5. CASE QueryFails
  BY <1>5 DEF QueryFails
<1>6. CASE Unaffected
  BY <1>6 DEF Unaffected
<1>7. CASE MetadataIncomplete
  BY <1>7 DEF MetadataIncomplete
<1>8. CASE Plan
  <2>1. /\ group' \in [Pockets -> SUBSET Sources]
        /\ todo' \in [Pockets -> SUBSET Binaries]
        /\ breaches' \in SUBSET Breaches
    BY <1>8 DEF Plan, Group, Outdated, Released, Affected
  <2>2. listed' \in SUBSET Sources
    BY <1>8 DEF Plan, Affected
  <2>3. QED
    BY <1>8, <2>1, <2>2 DEF Plan
<1>9. CASE PassPocket
  BY <1>9 DEF PassPocket
<1>10. CASE SkipPocket
  BY <1>10 DEF SkipPocket
<1>11. CASE NotRoot
  BY <1>11 DEF NotRoot
<1>12. CASE UpgradeStandard
  BY <1>12 DEF UpgradeStandard
<1>13. CASE UpgradeEsm
  BY <1>13 DEF UpgradeEsm
<1>14. CASE Cancel
  BY <1>14 DEF Cancel
<1>15. CASE AttachSucceeds
  BY <1>15 DEF AttachSucceeds
<1>16. CASE AttachFails
  <2>1. /\ contract' \in {"none", "first", "renewed"} /\ enabled' \in SUBSET EsmPockets
        /\ listed' \in SUBSET Sources
    BY <1>16 DEF AttachFails
  <2>2. QED
    BY <1>16, <2>1 DEF AttachFails
<1>17. CASE DetachToRenew
  BY <1>17 DEF DetachToRenew
<1>18. CASE DetachFails
  BY <1>18 DEF DetachFails
<1>19. CASE ServiceActive
  BY <1>19 DEF ServiceActive
<1>20. CASE ServiceOff
  BY <1>20 DEF ServiceOff
<1>21. CASE ServiceRefused
  BY <1>21 DEF ServiceRefused
<1>22. CASE EnableSucceeds
  BY <1>22 DEF EnableSucceeds
<1>23. CASE EnableSwallows
  BY <1>23 DEF EnableSwallows
<1>24. CASE Install
  <2>1. ASSUME NEW b \in Binaries
        PROVE  Max({installed[b], Candidate(b, {"standard"} \union enabled)}) \in Versions
    BY CandidateBounds, MaxOfTwo DEF EsmPockets
  <2>2. installed' \in [Binaries -> Versions]
    BY <1>24, <2>1 DEF Install
  <2>3. at' \in Pockets \union {"done"} /\ pc' = "pocket"
    BY <1>24 DEF Install, NextPocket, After
  <2>4. QED
    BY <1>24, <2>2, <2>3 DEF Install
<1>25. CASE Raise
  BY <1>25 DEF Raise
<1>26. CASE Conclude
  BY <1>26 DEF Conclude, Verdict
<1>27. CASE Lapse
  BY <1>27 DEF Lapse
<1>28. CASE Withdraw
  BY <1>28 DEF Withdraw
<1>29. CASE UpgradeUnattended
  <2>1. ASSUME NEW b \in Binaries
        PROVE  Max({installed[b], Offered("standard", b)}) \in Versions
    BY OfferedBounds, MaxOfTwo
  <2>2. installed' \in [Binaries -> Versions]
    BY <1>29, <2>1, PlanAssumption DEF UpgradeUnattended, Versions
  <2>3. QED
    BY <1>29, <2>2 DEF UpgradeUnattended
<1>30. CASE Reboot
  BY <1>30 DEF Reboot
<1>31. CASE SaveStatus
  BY <1>31 DEF SaveStatus
<1>32. CASE UNCHANGED vars
  BY <1>32 DEF vars
<1>33. CASE DetachElsewhere
  BY <1>33 DEF DetachElsewhere
<1>34. QED
  BY <1>1, <1>2, <1>3, <1>4, <1>5, <1>6, <1>7, <1>8, <1>9, <1>10, <1>11,
     <1>12, <1>13, <1>14, <1>15, <1>16, <1>17, <1>18, <1>19, <1>20, <1>21,
     <1>22, <1>23, <1>24, <1>25, <1>26, <1>27, <1>28, <1>29, <1>30, <1>31,
     <1>32, <1>33
     DEF Next, Query, Prepare, Pocket, Subscribe, Service, Finish, World

(* Prompts stay with their pocket.                                         *)
LEMMA StepAt ==
  ASSUME TypeOK, AtInv, [Next]_vars
  PROVE  AtInv'
<1>. USE DEF TypeOK, AtInv, machine, answers, plan, result, history, Pcs, Pockets,
       EsmPockets, After, DeleteCache, Goto, NextPocket, Stop, Fail, AtPocket, Answered
<1>1. CASE Start
  BY <1>1 DEF Start
<1>2. CASE ReadCve
  BY <1>2 DEF ReadCve
<1>3. CASE CvesRead
  BY <1>3 DEF CvesRead
<1>4. CASE ReadUsn
  BY <1>4 DEF ReadUsn
<1>5. CASE QueryFails
  BY <1>5 DEF QueryFails
<1>6. CASE Unaffected
  BY <1>6 DEF Unaffected
<1>7. CASE MetadataIncomplete
  BY <1>7 DEF MetadataIncomplete
<1>8. CASE Plan
  BY <1>8 DEF Plan
<1>9. CASE PassPocket
  BY <1>9 DEF PassPocket
<1>10. CASE SkipPocket
  BY <1>10 DEF SkipPocket
<1>11. CASE NotRoot
  BY <1>11 DEF NotRoot
<1>12. CASE UpgradeStandard
  BY <1>12 DEF UpgradeStandard
<1>13. CASE UpgradeEsm
  BY <1>13 DEF UpgradeEsm
<1>14. CASE Cancel
  BY <1>14 DEF Cancel
<1>15. CASE AttachSucceeds
  BY <1>15 DEF AttachSucceeds
<1>16. CASE AttachFails
  BY <1>16 DEF AttachFails
<1>17. CASE DetachToRenew
  BY <1>17 DEF DetachToRenew
<1>18. CASE DetachFails
  BY <1>18 DEF DetachFails
<1>19. CASE ServiceActive
  BY <1>19 DEF ServiceActive
<1>20. CASE ServiceOff
  BY <1>20 DEF ServiceOff
<1>21. CASE ServiceRefused
  BY <1>21 DEF ServiceRefused
<1>22. CASE EnableSucceeds
  BY <1>22 DEF EnableSucceeds
<1>23. CASE EnableSwallows
  BY <1>23 DEF EnableSwallows
<1>24. CASE Install
  BY <1>24 DEF Install
<1>25. CASE Raise
  BY <1>25 DEF Raise
<1>26. CASE Conclude
  BY <1>26 DEF Conclude
<1>27. CASE Lapse
  BY <1>27 DEF Lapse
<1>28. CASE Withdraw
  BY <1>28 DEF Withdraw
<1>29. CASE UpgradeUnattended
  BY <1>29 DEF UpgradeUnattended
<1>30. CASE Reboot
  BY <1>30 DEF Reboot
<1>31. CASE SaveStatus
  BY <1>31 DEF SaveStatus
<1>32. CASE UNCHANGED vars
  BY <1>32 DEF vars
<1>33. CASE DetachElsewhere
  BY <1>33 DEF DetachElsewhere
<1>34. QED
  BY <1>1, <1>2, <1>3, <1>4, <1>5, <1>6, <1>7, <1>8, <1>9, <1>10, <1>11,
     <1>12, <1>13, <1>14, <1>15, <1>16, <1>17, <1>18, <1>19, <1>20, <1>21,
     <1>22, <1>23, <1>24, <1>25, <1>26, <1>27, <1>28, <1>29, <1>30, <1>31,
     <1>32, <1>33
     DEF Next, Query, Prepare, Pocket, Subscribe, Service, Finish, World

(* There is no verdict while the command runs, and a resolved one has an   *)
(* empty list.                                                             *)
LEMMA StepVerdict ==
  ASSUME TypeOK, VerdictInv, [Next]_vars
  PROVE  VerdictInv'
<1>. USE DEF TypeOK, VerdictInv, machine, answers, plan, result, history, DeleteCache, Goto,
       NextPocket, Stop, Fail, AtPocket, Answered
<1>1. CASE Start
  BY <1>1 DEF Start
<1>2. CASE ReadCve
  BY <1>2 DEF ReadCve
<1>3. CASE CvesRead
  BY <1>3 DEF CvesRead
<1>4. CASE ReadUsn
  BY <1>4 DEF ReadUsn
<1>5. CASE QueryFails
  BY <1>5 DEF QueryFails
<1>6. CASE Unaffected
  BY <1>6 DEF Unaffected
<1>7. CASE MetadataIncomplete
  BY <1>7 DEF MetadataIncomplete
<1>8. CASE Plan
  BY <1>8 DEF Plan
<1>9. CASE PassPocket
  BY <1>9 DEF PassPocket
<1>10. CASE SkipPocket
  BY <1>10 DEF SkipPocket
<1>11. CASE NotRoot
  BY <1>11 DEF NotRoot
<1>12. CASE UpgradeStandard
  BY <1>12 DEF UpgradeStandard
<1>13. CASE UpgradeEsm
  BY <1>13 DEF UpgradeEsm
<1>14. CASE Cancel
  BY <1>14 DEF Cancel
<1>15. CASE AttachSucceeds
  BY <1>15 DEF AttachSucceeds
<1>16. CASE AttachFails
  BY <1>16 DEF AttachFails
<1>17. CASE DetachToRenew
  BY <1>17 DEF DetachToRenew
<1>18. CASE DetachFails
  BY <1>18 DEF DetachFails
<1>19. CASE ServiceActive
  BY <1>19 DEF ServiceActive
<1>20. CASE ServiceOff
  BY <1>20 DEF ServiceOff
<1>21. CASE ServiceRefused
  BY <1>21 DEF ServiceRefused
<1>22. CASE EnableSucceeds
  BY <1>22 DEF EnableSucceeds
<1>23. CASE EnableSwallows
  BY <1>23 DEF EnableSwallows
<1>24. CASE Install
  BY <1>24 DEF Install
<1>25. CASE Raise
  BY <1>25 DEF Raise
<1>26. CASE Conclude
  BY <1>26 DEF Conclude, Verdict
<1>27. CASE Lapse
  BY <1>27 DEF Lapse
<1>28. CASE Withdraw
  BY <1>28 DEF Withdraw
<1>29. CASE UpgradeUnattended
  BY <1>29 DEF UpgradeUnattended
<1>30. CASE Reboot
  BY <1>30 DEF Reboot
<1>31. CASE SaveStatus
  BY <1>31 DEF SaveStatus
<1>32. CASE UNCHANGED vars
  BY <1>32 DEF vars
<1>33. CASE DetachElsewhere
  BY <1>33 DEF DetachElsewhere
<1>34. QED
  BY <1>1, <1>2, <1>3, <1>4, <1>5, <1>6, <1>7, <1>8, <1>9, <1>10, <1>11,
     <1>12, <1>13, <1>14, <1>15, <1>16, <1>17, <1>18, <1>19, <1>20, <1>21,
     <1>22, <1>23, <1>24, <1>25, <1>26, <1>27, <1>28, <1>29, <1>30, <1>31,
     <1>32, <1>33
     DEF Next, Query, Prepare, Pocket, Subscribe, Service, Finish, World

(* What an upgrade owes the user is told when its command is over.         *)
LEMMA StepReboot ==
  ASSUME TypeOK, RebootInv, VerdictInv, [Next]_vars
  PROVE  RebootInv'
<1>. USE DEF TypeOK, RebootInv, VerdictInv, machine, answers, plan, result, history,
       DeleteCache, Goto, NextPocket, Stop, Fail, AtPocket, Answered
<1>1. CASE Start
  BY <1>1 DEF Start
<1>2. CASE ReadCve
  BY <1>2 DEF ReadCve
<1>3. CASE CvesRead
  BY <1>3 DEF CvesRead
<1>4. CASE ReadUsn
  BY <1>4 DEF ReadUsn
<1>5. CASE QueryFails
  BY <1>5 DEF QueryFails
<1>6. CASE Unaffected
  BY <1>6 DEF Unaffected
<1>7. CASE MetadataIncomplete
  BY <1>7 DEF MetadataIncomplete
<1>8. CASE Plan
  BY <1>8 DEF Plan
<1>9. CASE PassPocket
  BY <1>9 DEF PassPocket
<1>10. CASE SkipPocket
  BY <1>10 DEF SkipPocket
<1>11. CASE NotRoot
  BY <1>11 DEF NotRoot
<1>12. CASE UpgradeStandard
  BY <1>12 DEF UpgradeStandard
<1>13. CASE UpgradeEsm
  BY <1>13 DEF UpgradeEsm
<1>14. CASE Cancel
  BY <1>14 DEF Cancel
<1>15. CASE AttachSucceeds
  BY <1>15 DEF AttachSucceeds
<1>16. CASE AttachFails
  BY <1>16 DEF AttachFails
<1>17. CASE DetachToRenew
  BY <1>17 DEF DetachToRenew
<1>18. CASE DetachFails
  BY <1>18 DEF DetachFails
<1>19. CASE ServiceActive
  BY <1>19 DEF ServiceActive
<1>20. CASE ServiceOff
  BY <1>20 DEF ServiceOff
<1>21. CASE ServiceRefused
  BY <1>21 DEF ServiceRefused
<1>22. CASE EnableSucceeds
  BY <1>22 DEF EnableSucceeds
<1>23. CASE EnableSwallows
  BY <1>23 DEF EnableSwallows
<1>24. CASE Install
  BY <1>24 DEF Install
<1>25. CASE Raise
  BY <1>25 DEF Raise
<1>26. CASE Conclude
  BY <1>26 DEF Conclude, Verdict
<1>27. CASE Lapse
  BY <1>27 DEF Lapse
<1>28. CASE Withdraw
  BY <1>28 DEF Withdraw
<1>29. CASE UpgradeUnattended
  BY <1>29 DEF UpgradeUnattended
<1>30. CASE Reboot
  BY <1>30 DEF Reboot
<1>31. CASE SaveStatus
  BY <1>31 DEF SaveStatus
<1>32. CASE UNCHANGED vars
  BY <1>32 DEF vars
<1>33. CASE DetachElsewhere
  BY <1>33 DEF DetachElsewhere
<1>34. QED
  BY <1>1, <1>2, <1>3, <1>4, <1>5, <1>6, <1>7, <1>8, <1>9, <1>10, <1>11,
     <1>12, <1>13, <1>14, <1>15, <1>16, <1>17, <1>18, <1>19, <1>20, <1>21,
     <1>22, <1>23, <1>24, <1>25, <1>26, <1>27, <1>28, <1>29, <1>30, <1>31,
     <1>32, <1>33
     DEF Next, Query, Prepare, Pocket, Subscribe, Service, Finish, World

(* The steps that read the issue and plan its fix.                         *)
Preparing == Start \/ ReadCve \/ ReadUsn \/ Plan

(* What the other steps keep.                                              *)
LEMMA LaterStep ==
  ASSUME TypeOK, [Next]_vars, ~Preparing
  PROVE  /\ UNCHANGED <<answers, plan, need>>
         /\ listed \subseteq listed' /\ breaches \subseteq breaches'
         /\ Planned' => Planned
         /\ \A b \in Binaries : installed'[b] >= installed[b]
<1>1. \A b \in Binaries : installed[b] \in Nat /\ installed[b] >= installed[b]
  BY PlanAssumption DEF TypeOK, Versions
<1>. USE <1>1
   DEF TypeOK, Planned, Pcs, machine, answers, plan, result, history,
       Goto, NextPocket, Stop, Fail, AtPocket, Answered
<1>2. CASE CvesRead
  BY <1>2 DEF CvesRead
<1>3. CASE QueryFails
  BY <1>3 DEF QueryFails
<1>4. CASE Unaffected
  BY <1>4 DEF Unaffected
<1>5. CASE MetadataIncomplete
  BY <1>5 DEF MetadataIncomplete
<1>6. CASE PassPocket
  BY <1>6 DEF PassPocket
<1>7. CASE SkipPocket
  BY <1>7 DEF SkipPocket
<1>8. CASE NotRoot
  BY <1>8 DEF NotRoot
<1>9. CASE UpgradeStandard
  BY <1>9 DEF UpgradeStandard
<1>10. CASE UpgradeEsm
  BY <1>10 DEF UpgradeEsm
<1>11. CASE Cancel
  BY <1>11 DEF Cancel
<1>12. CASE AttachSucceeds
  BY <1>12 DEF AttachSucceeds
<1>13. CASE AttachFails
  BY <1>13 DEF AttachFails
<1>14. CASE DetachToRenew
  BY <1>14 DEF DetachToRenew
<1>15. CASE DetachFails
  BY <1>15 DEF DetachFails
<1>16. CASE ServiceActive
  BY <1>16 DEF ServiceActive
<1>17. CASE ServiceOff
  BY <1>17 DEF ServiceOff
<1>18. CASE ServiceRefused
  BY <1>18 DEF ServiceRefused
<1>19. CASE EnableSucceeds
  BY <1>19 DEF EnableSucceeds
<1>20. CASE EnableSwallows
  BY <1>20 DEF EnableSwallows
<1>21. CASE Install
  <2>1. ASSUME NEW b \in Binaries
        PROVE  installed'[b] >= installed[b]
    <3>1. {"standard"} \union enabled \in SUBSET Pockets
      BY DEF Pockets, EsmPockets
    <3>2. Max({installed[b], Candidate(b, {"standard"} \union enabled)}) >= installed[b]
      BY <3>1, CandidateBounds, MaxOfTwo
    <3>3. QED
      BY <1>21, <3>2 DEF Install
  <2>2. QED
    BY <1>21, <2>1 DEF Install, NextPocket
<1>22. CASE Raise
  BY <1>22 DEF Raise
<1>23. CASE Conclude
  BY <1>23 DEF Conclude
<1>24. CASE Lapse
  BY <1>24 DEF Lapse
<1>25. CASE Withdraw
  BY <1>25 DEF Withdraw
<1>26. CASE UpgradeUnattended
  <2>1. ASSUME NEW b \in Binaries
        PROVE  installed'[b] >= installed[b]
    BY <1>26, OfferedBounds, MaxOfTwo, PlanAssumption DEF UpgradeUnattended, Versions, Pockets
  <2>2. QED
    BY <1>26, <2>1 DEF UpgradeUnattended
<1>27. CASE Reboot
  BY <1>27 DEF Reboot
<1>28. CASE SaveStatus
  BY <1>28 DEF SaveStatus
<1>29. CASE UNCHANGED vars
  BY <1>29 DEF vars
<1>30. CASE DetachElsewhere
  BY <1>30 DEF DetachElsewhere
<1>31. QED
  BY <1>2, <1>3, <1>4, <1>5, <1>6, <1>7, <1>8, <1>9, <1>10, <1>11, <1>12,
     <1>13, <1>14, <1>15, <1>16, <1>17, <1>18, <1>19, <1>20, <1>21, <1>22,
     <1>23, <1>24, <1>25, <1>26, <1>27, <1>28, <1>29, <1>30
     DEF Next, Query, Prepare, Pocket, Subscribe, Service, Finish, World,
         Preparing

(* Packages only get newer.                                                *)
LEMMA StepSnap ==
  ASSUME TypeOK, TypeOK', SnapInv, [Next]_vars
  PROVE  SnapInv'
<1>1. \A b \in Binaries : installed[b] \in Nat /\ installed'[b] \in Nat /\ snap[b] \in Nat
  BY PlanAssumption DEF TypeOK, Versions
<1>. USE <1>1 DEF SnapInv, machine, answers
<1>2. CASE Start
  BY <1>2 DEF Start
<1>3. CASE ReadCve \/ ReadUsn \/ Plan
  BY <1>3 DEF ReadCve, ReadUsn, Plan
<1>4. CASE ~Preparing
  BY <1>4, LaterStep
<1>5. QED
  BY <1>2, <1>3, <1>4 DEF Preparing

(* The fix of a package is the highest of the notices read so far.         *)
LEMMA StepMerged ==
  ASSUME TypeOK, TypeOK', MergedInv, [Next]_vars
  PROVE  MergedInv'
<1>. USE DEF MergedInv
<1>1. CASE Start
  BY <1>1, PlanAssumption DEF Start, NoFix
<1>2. CASE ReadCve \/ Plan
  BY <1>2 DEF ReadCve, Plan, answers, history
<1>3. CASE ReadUsn
  <2>1. PICK i \in (usnAt + 1)..NUsns :
          /\ merged' = MergeUsn(merged, Usn[i])
          /\ need' = [b \in Binaries |-> Max({need[b], Usn[i].fixes[b].version})]
    BY <1>3 DEF ReadUsn
  <2>2. i \in 1..NUsns
    BY <1>3, PlanAssumption DEF ReadUsn, TypeOK
  <2>3. ASSUME NEW b \in Binaries
        PROVE  /\ merged[b] \in Fixes /\ Usn[i].fixes[b] \in Fixes
               /\ need[b] \in Versions
               /\ merged'[b] = IF Usn[i].fixes[b].version > merged[b].version
                               THEN Usn[i].fixes[b] ELSE merged[b]
    BY <2>1, <2>2, UsnTypes, PlanAssumption DEF TypeOK, MergeUsn, Versions
  <2>4. ASSUME NEW b \in Binaries, merged'[b].version > 0
        PROVE  \E j \in 1..NUsns : merged'[b] = Usn[j].fixes[b]
    BY <2>2, <2>3, <2>4
  <2>5. ASSUME NEW b \in Binaries
        PROVE  merged'[b].version = need'[b]
    <3>1. merged[b].version = need[b]
      BY <2>1, <2>5
    <3>2. /\ need'[b] \in {need[b], Usn[i].fixes[b].version}
          /\ need'[b] >= need[b] /\ need'[b] >= Usn[i].fixes[b].version
      BY <2>1, <2>3, MaxOfTwo DEF Fixes
    <3>3. need[b] \in Nat /\ Usn[i].fixes[b].version \in Nat
      BY <2>3, PlanAssumption DEF Fixes, Versions
    <3>4. QED
      BY <2>3, <3>1, <3>2, <3>3
  <2>6. QED
    BY <2>2, <2>4, <2>5
<1>4. CASE ~Preparing
  BY <1>4, LaterStep DEF answers
<1>5. QED
  BY <1>1, <1>2, <1>3, <1>4 DEF Preparing

(* The plan leaves out no affected source and no installed package.        *)
LEMMA StepPlan ==
  ASSUME TypeOK, TypeOK', VerdictInv, PlanInv, [Next]_vars
  PROVE  PlanInv'
<1>1. CASE Start \/ ReadCve \/ ReadUsn
  BY <1>1 DEF Start, ReadCve, ReadUsn, Planned, PlanInv, VerdictInv, Pcs
<1>2. CASE Plan
  <2>. DEFINE released == Released(statuses, sourced)
  <2>1. PICK pocketOf \in [Sources -> Pockets] :
          /\ group' = [p \in Pockets |-> Group(released, pocketOf, p)]
          /\ todo' = [p \in Pockets |->
                        Outdated(Group(released, pocketOf, p), merged, snap)]
          /\ breaches' = IF Strays(released, pocketOf) = {} THEN breaches
                         ELSE breaches \union {"mixed"}
    BY <1>2 DEF Plan
  <2>2. /\ listed' = Affected(statuses) \ released
        /\ ~FixMissing(released, merged, snap)
        /\ UNCHANGED <<statuses, merged, snap>>
    BY <1>2 DEF Plan, answers
  <2>3. released \subseteq Sources
    BY DEF Released, Affected
  <2>4. \A b \in Binaries : merged[b].version \in Nat /\ snap[b] \in Nat
    BY PlanAssumption DEF TypeOK, Fixes, Versions
  <2>5. \A p \in Pockets :
          /\ group'[p] = {s \in released : pocketOf[s] = p}
          /\ todo'[p] = {b \in Binaries : /\ SourceOf[b] \in group'[p]
                                         /\ snap[b] > 0 /\ snap[b] < merged[b].version}
    BY <2>1 DEF Group, Outdated
  <2>6. ASSUME NEW s \in Affected(statuses)
        PROVE  s \in listed' \/ \E p \in Pockets : s \in group'[p]
    BY <2>2, <2>3, <2>5
  <2>7. ASSUME NEW p \in Pockets, NEW s \in group'[p], NEW b \in InstalledOf(snap, s)
        PROVE  merged[b].version > 0 /\ (b \in todo'[p] \/ snap[b] >= merged[b].version)
    <3>1. b \in Binaries /\ SourceOf[b] = s /\ snap[b] > 0 /\ s \in released
      BY <2>5, <2>7 DEF InstalledOf, BinariesOf
    <3>2. merged[b].version > 0
      BY <2>2, <2>4, <2>7, <3>1 DEF FixMissing
    <3>3. QED
      BY <2>4, <2>5, <3>1, <3>2
  <2>8. ASSUME "mixed" \notin breaches', NEW p \in Pockets, NEW b \in todo'[p]
        PROVE  merged[b].version > 0 /\ merged[b].pocket = p
    <3>1. /\ b \in Binaries /\ snap[b] > 0 /\ snap[b] < merged[b].version
          /\ SourceOf[b] \in released /\ pocketOf[SourceOf[b]] = p
      BY <2>5, <2>8
    <3>2. b \notin Strays(released, pocketOf)
      BY <2>1, <2>8
    <3>3. QED
      BY <2>4, <3>1, <3>2 DEF Strays, Outdated
  <2>9. Affected(statuses)' = Affected(statuses)
        /\ \A s : InstalledOf(snap, s)' = InstalledOf(snap, s)
    BY <2>2 DEF Affected, InstalledOf
  <2>. HIDE DEF released
  <2>10. QED
    BY <2>2, <2>6, <2>7, <2>8, <2>9 DEF PlanInv
<1>3. CASE ~Preparing
  <2>1. Affected(statuses)' = Affected(statuses)
        /\ \A s : InstalledOf(snap, s)' = InstalledOf(snap, s)
    BY <1>3, LaterStep DEF Affected, InstalledOf, answers
  <2>2. QED
    BY <1>3, <2>1, LaterStep DEF PlanInv, answers, plan
<1>4. QED
  BY <1>1, <1>2, <1>3 DEF Preparing

(* apt is run for the standard pockets, or a service that is on, unless an *)
(* enable was taken for done or the service was turned off.                *)
LEMMA StepApt ==
  ASSUME TypeOK, AptInv, [Next]_vars
  PROVE  AptInv'
<1>. USE DEF TypeOK, AptInv, machine, answers, plan, result, history, Pcs, Pockets,
       EsmPockets, Breaches, DeleteCache, Goto, NextPocket, Stop, Fail, AtPocket,
       Answered
<1>1. CASE Start
  BY <1>1 DEF Start
<1>2. CASE ReadCve
  BY <1>2 DEF ReadCve
<1>3. CASE CvesRead
  BY <1>3 DEF CvesRead
<1>4. CASE ReadUsn
  BY <1>4 DEF ReadUsn
<1>5. CASE QueryFails
  BY <1>5 DEF QueryFails
<1>6. CASE Unaffected
  BY <1>6 DEF Unaffected
<1>7. CASE MetadataIncomplete
  BY <1>7 DEF MetadataIncomplete
<1>8. CASE Plan
  BY <1>8 DEF Plan
<1>9. CASE PassPocket
  BY <1>9 DEF PassPocket
<1>10. CASE SkipPocket
  BY <1>10 DEF SkipPocket
<1>11. CASE NotRoot
  BY <1>11 DEF NotRoot
<1>12. CASE UpgradeStandard
  BY <1>12 DEF UpgradeStandard
<1>13. CASE UpgradeEsm
  BY <1>13 DEF UpgradeEsm
<1>14. CASE Cancel
  BY <1>14 DEF Cancel
<1>15. CASE AttachSucceeds
  BY <1>15 DEF AttachSucceeds
<1>16. CASE AttachFails
  BY <1>16 DEF AttachFails
<1>17. CASE DetachToRenew
  BY <1>17 DEF DetachToRenew
<1>18. CASE DetachFails
  BY <1>18 DEF DetachFails
<1>19. CASE ServiceActive
  BY <1>19 DEF ServiceActive
<1>20. CASE ServiceOff
  BY <1>20 DEF ServiceOff
<1>21. CASE ServiceRefused
  BY <1>21 DEF ServiceRefused
<1>22. CASE EnableSucceeds
  BY <1>22 DEF EnableSucceeds
<1>23. CASE EnableSwallows
  BY <1>23 DEF EnableSwallows
<1>24. CASE Install
  BY <1>24 DEF Install
<1>25. CASE Raise
  BY <1>25 DEF Raise
<1>26. CASE Conclude
  BY <1>26 DEF Conclude
<1>27. CASE Lapse
  BY <1>27 DEF Lapse
<1>28. CASE Withdraw
  BY <1>28 DEF Withdraw
<1>29. CASE UpgradeUnattended
  BY <1>29 DEF UpgradeUnattended
<1>30. CASE Reboot
  BY <1>30 DEF Reboot
<1>31. CASE SaveStatus
  BY <1>31 DEF SaveStatus
<1>32. CASE UNCHANGED vars
  BY <1>32 DEF vars
<1>33. CASE DetachElsewhere
  BY <1>33 DEF DetachElsewhere
<1>34. QED
  BY <1>1, <1>2, <1>3, <1>4, <1>5, <1>6, <1>7, <1>8, <1>9, <1>10, <1>11,
     <1>12, <1>13, <1>14, <1>15, <1>16, <1>17, <1>18, <1>19, <1>20, <1>21,
     <1>22, <1>23, <1>24, <1>25, <1>26, <1>27, <1>28, <1>29, <1>30, <1>31,
     <1>32, <1>33
     DEF Next, Query, Prepare, Pocket, Subscribe, Service, Finish, World

(* The pocket at hand is left behind, upgraded or listed.                  *)
LEMMA PocketDone ==
  ASSUME TypeOK, TypeOK', AtInv, MergedInv, PlanInv, AptInv, GoneInv, VerdictInv,
         [Next]_vars, ~Preparing, Planned', breaches' = {}, at' # at
  PROVE  /\ Planned /\ at \in Pockets /\ Gone' = Gone \union {at}
         /\ \/ group[at] \subseteq listed'
            \/ \A b \in todo[at] : installed'[b] >= merged[b].version
<1>. USE DEF TypeOK, AtInv, Planned, Pcs, Gone, After, Pockets, EsmPockets, Preparing,
             machine, answers, plan, result, history, AtPocket, DeleteCache, Goto, Stop
<1>1. CASE PassPocket
  BY <1>1 DEF PassPocket, NextPocket
<1>2. CASE SkipPocket
  BY <1>2 DEF SkipPocket, NextPocket
<1>3. CASE NotRoot
  BY <1>3 DEF NotRoot, Fail, NextPocket
<1>4. CASE Cancel
  BY <1>4 DEF Cancel, Fail, NextPocket
<1>5. CASE AttachFails
  BY <1>5 DEF AttachFails, Fail, NextPocket
<1>6. CASE ServiceRefused
  BY <1>6 DEF ServiceRefused, Fail, NextPocket
<1>7. CASE Install
  <2>1. /\ pc = "apt" /\ breaches = {} /\ at \in Pockets
        /\ Planned /\ Gone' = Gone \union {at}
    BY <1>7 DEF Install, NextPocket
  <2>2. at \in {"standard"} \union enabled
    BY <2>1 DEF AptInv
  <2>3. ASSUME NEW b \in todo[at]
        PROVE  installed'[b] >= merged[b].version
    <3>1. b \in Binaries /\ merged[b].version > 0 /\ merged[b].pocket = at
      BY <2>1 DEF PlanInv
    <3>2. PICK i \in 1..NUsns : merged[b] = Usn[i].fixes[b]
      BY <3>1 DEF MergedInv
    <3>. DEFINE reads == {"standard"} \union enabled
                best == Candidate(b, reads)
    <3>3. reads \in SUBSET Pockets /\ reads # {} /\ at \in reads
      BY <2>2
    <3>4. /\ Offered(at, b) \in Versions /\ Offered(at, b) >= merged[b].version
          /\ best \in Versions /\ best >= Offered(at, b)
      <4>. HIDE DEF reads, TypeOK, AtInv, Gone, After, Planned, Pockets, EsmPockets
      <4>1. QED
        BY <2>1, <3>1, <3>2, <3>3, OfferedBounds, CandidateBounds
    <3>5. /\ installed'[b] = Max({installed[b], best})
          /\ installed[b] \in Versions /\ merged[b].version \in Versions
      BY <1>7, <3>1 DEF Install, Fixes
    <3>. HIDE DEF best, TypeOK, AtInv, Gone, After, Planned, Pockets, EsmPockets
    <3>6. installed'[b] >= best /\ installed'[b] \in Versions
      BY <3>4, <3>5, MaxOfTwo
    <3>7. \A v \in Versions : v \in Nat
      BY PlanAssumption DEF Versions
    <3>8. QED
      BY <3>4, <3>5, <3>6, <3>7
  <2>4. QED
    BY <2>1, <2>3
<1>8. CASE CvesRead
  BY <1>8 DEF CvesRead
<1>9. CASE QueryFails
  BY <1>9 DEF QueryFails
<1>10. CASE Unaffected
  BY <1>10 DEF Unaffected
<1>11. CASE MetadataIncomplete
  BY <1>11 DEF MetadataIncomplete
<1>12. CASE UpgradeStandard
  BY <1>12 DEF UpgradeStandard
<1>13. CASE UpgradeEsm
  BY <1>13 DEF UpgradeEsm
<1>14. CASE AttachSucceeds
  BY <1>14 DEF AttachSucceeds
<1>15. CASE DetachToRenew
  BY <1>15 DEF DetachToRenew
<1>16. CASE DetachFails
  BY <1>16 DEF DetachFails
<1>17. CASE ServiceActive
  BY <1>17 DEF ServiceActive
<1>18. CASE ServiceOff
  BY <1>18 DEF ServiceOff
<1>19. CASE EnableSucceeds
  BY <1>19 DEF EnableSucceeds
<1>20. CASE EnableSwallows
  BY <1>20 DEF EnableSwallows
<1>21. CASE Raise
  BY <1>21 DEF Raise
<1>22. CASE Conclude
  BY <1>22 DEF Conclude
<1>23. CASE Lapse
  BY <1>23 DEF Lapse
<1>24. CASE Withdraw
  BY <1>24 DEF Withdraw
<1>25. CASE UpgradeUnattended
  BY <1>25 DEF UpgradeUnattended
<1>26. CASE Reboot
  BY <1>26 DEF Reboot
<1>27. CASE SaveStatus
  BY <1>27 DEF SaveStatus
<1>28. CASE UNCHANGED vars
  BY <1>28 DEF vars
<1>29. CASE DetachElsewhere
  BY <1>29 DEF DetachElsewhere
<1>30. QED
  BY <1>1, <1>2, <1>3, <1>4, <1>5, <1>6, <1>7, <1>8, <1>9, <1>10, <1>11,
     <1>12, <1>13, <1>14, <1>15, <1>16, <1>17, <1>18, <1>19, <1>20, <1>21,
     <1>22, <1>23, <1>24, <1>25, <1>26, <1>27, <1>28, <1>29
     DEF Next, Query, Prepare, Pocket, Subscribe, Service, Finish, World

(* Each pocket that is gone through is upgraded or listed.                 *)
LEMMA StepGone ==
  ASSUME TypeOK, TypeOK', AtInv, MergedInv, PlanInv, AptInv, GoneInv, VerdictInv,
         [Next]_vars
  PROVE  GoneInv'
<1>1. CASE Start \/ ReadCve \/ ReadUsn
  BY <1>1 DEF Start, ReadCve, ReadUsn, Planned, GoneInv, VerdictInv, Pcs
<1>2. CASE Plan
  BY <1>2 DEF Plan, GoneInv, Gone
<1>3. CASE ~Preparing
  <2>1. SUFFICES ASSUME Planned', breaches' = {}, NEW p \in Gone'
                 PROVE  \/ group'[p] \subseteq listed'
                        \/ \A b \in todo'[p] : installed'[b] >= merged'[b].version
    BY DEF GoneInv
  <2>2. /\ UNCHANGED <<group, todo, merged>> /\ listed \subseteq listed'
        /\ Planned /\ breaches = {}
        /\ \A b \in Binaries : installed'[b] >= installed[b]
    BY <1>3, <2>1, LaterStep DEF answers, plan
  <2>3. ASSUME p \in Gone
        PROVE  \/ group[p] \subseteq listed'
               \/ \A b \in todo[p] : installed'[b] >= merged[b].version
    <3>1. p \in Pockets /\ todo[p] \subseteq Binaries
      BY <2>3 DEF Gone, Pockets, TypeOK
    <3>2. \A b \in Binaries : /\ installed[b] \in Nat /\ installed'[b] \in Nat
                              /\ merged[b].version \in Nat
      BY PlanAssumption DEF TypeOK, Fixes, Versions
    <3>3. CASE group[p] \subseteq listed
      BY <2>2, <3>3
    <3>4. CASE \A b \in todo[p] : installed[b] >= merged[b].version
      BY <2>2, <3>1, <3>2, <3>4
    <3>5. QED
      BY <2>2, <2>3, <3>3, <3>4 DEF GoneInv
  <2>4. CASE at' = at
    <3>1. Gone' = Gone
      BY <2>4 DEF Gone
    <3>2. QED
      BY <2>1, <2>2, <2>3, <3>1
  <2>5. CASE at' # at
    BY <1>3, <2>1, <2>2, <2>3, <2>5, PocketDone
  <2>6. QED
    BY <2>4, <2>5
<1>4. QED
  BY <1>1, <1>2, <1>3 DEF Preparing

-----------------------------------------------------------------------------
LEMMA InitInv == Init => FixInv
<1>. SUFFICES ASSUME Init PROVE FixInv
  OBVIOUS
<1>1. /\ 0 \in 0..NCves /\ 0 \in 0..NUsns /\ 0 \in Versions /\ fixes \in 0..MaxFixes
      /\ installed \in [Binaries -> Versions]
      /\ \A b \in Binaries : installed[b] >= installed[b]
  BY PlanAssumption, FixAssumption DEF Init, Versions
<1>2. /\ statuses \in [Sources -> Statuses] /\ merged \in [Binaries -> Fixes]
  BY <1>1 DEF Init, Statuses, Fixes, NoStatus, NoFix, Pockets
<1>3. TypeOK
  BY <1>1, <1>2 DEF Init, TypeOK, Pcs, Verdicts, Breaches
<1>4. AtInv /\ SnapInv /\ AptInv /\ VerdictInv /\ RebootInv
  BY <1>1 DEF Init, AtInv, SnapInv, AptInv, VerdictInv, RebootInv
<1>5. MergedInv
  BY PlanAssumption DEF Init, MergedInv, NoFix
<1>6. PlanInv /\ GoneInv
  BY DEF Init, PlanInv, GoneInv, Planned, Pcs
<1>7. QED
  BY <1>3, <1>4, <1>5, <1>6 DEF FixInv

LEMMA NextInv == FixInv /\ [Next]_vars => FixInv'
  BY StepTypes, StepAt, StepSnap, StepMerged, StepPlan, StepApt, StepGone,
     StepVerdict, StepReboot DEF FixInv

(* The inductive invariant holds of every behaviour.                       *)
THEOREM InvariantHolds == Spec => []FixInv
  BY InitInv, NextInv, PTL DEF Spec

(* Every variable of `ua fix` stays in its type.                           *)
THEOREM TypeCorrect == Spec => []TypeOK
  BY InvariantHolds, PTL DEF FixInv

(* When `ua fix` comes to a verdict, each affected source package is fixed *)
(* or in its list of those still affected, unless one of the breaches      *)
(* happened, for any packages, answers of the API and runs.                *)
THEOREM AllListedOrFixed == Spec => []NothingOmitted
<1>1. FixInv => NothingOmitted
  <2>. SUFFICES ASSUME FixInv, pc = "idle", breaches = {},
                       verdict \in {"resolved", "unresolved", "reboot"},
                       NEW s \in Affected(statuses), s \notin listed
                PROVE  Fixed(s)
    BY DEF NothingOmitted
  <2>. USE DEF FixInv
  <2>1. Planned /\ Gone = Pockets
    BY DEF Planned, Gone, AtInv
  <2>2. PICK p \in Pockets : s \in group[p]
    BY <2>1 DEF PlanInv
  <2>3. \A b \in todo[p] : installed[b] >= merged[b].version
    BY <2>1, <2>2 DEF GoneInv
  <2>4. ASSUME NEW b \in InstalledOf(snap, s)
        PROVE  need[b] > 0 /\ installed[b] >= need[b]
    <3>1. b \in Binaries /\ snap[b] > 0
      BY DEF InstalledOf, BinariesOf
    <3>2. /\ merged[b].version > 0
          /\ b \in todo[p] \/ snap[b] >= merged[b].version
      BY <2>1, <2>2 DEF PlanInv
    <3>3. merged[b].version = need[b] /\ installed[b] >= snap[b]
      BY <3>1 DEF MergedInv, SnapInv
    <3>4. installed[b] \in Nat /\ snap[b] \in Nat /\ need[b] \in Nat
      BY <3>1, PlanAssumption DEF TypeOK, Versions
    <3>5. QED
      BY <2>3, <3>2, <3>3, <3>4
  <2>5. QED
    BY <2>4 DEF Fixed
<1>2. QED
  BY <1>1, InvariantHolds, PTL

(* An issue called resolved is fixed, unless one of the breaches happened. *)
THEOREM ResolvedIsFixed == Spec => []ResolvedMeansFixed
<1>1. FixInv /\ NothingOmitted => ResolvedMeansFixed
  BY DEF FixInv, VerdictInv, NothingOmitted, ResolvedMeansFixed
<1>2. QED
  BY <1>1, AllListedOrFixed, InvariantHolds, PTL

(* The notice of a reboot outlives everything but the reboot, a detach and *)
(* a fix that did not go through.                                          *)
THEOREM RebootKept == Spec => []RebootRemembered
<1>1. FixInv => RebootRemembered
  BY DEF FixInv, RebootInv, RebootRemembered
<1>2. QED
  BY <1>1, InvariantHolds, PTL

(* The user is asked to renew only a contract that is over, or one that    *)
(* was replaced or given up after this command read its expiry.            *)
THEOREM RenewalJustified == Spec => RenewalWhenDue
<1>1. TypeOK /\ [Next]_vars =>
        [pc' = "renew" /\ pc # "renew" =>
           Over(contract) \/ (contract # "first" /\ expiryOf = "first")]_vars
  <2>. SUFFICES ASSUME TypeOK, Next, pc' = "renew", pc # "renew"
                PROVE  Over(contract) \/ (contract # "first" /\ expiryOf = "first")
    OBVIOUS
  <2>1. UpgradeEsm
    BY DEF Next, Query, Prepare, Pocket, Subscribe, Service, Finish, World,
           Goto, NextPocket, Stop, Fail, Start, ReadCve, CvesRead, ReadUsn, QueryFails, Unaffected, MetadataIncomplete, Plan, PassPocket, SkipPocket, NotRoot, UpgradeStandard, Cancel, AttachSucceeds, AttachFails, DetachToRenew, DetachFails, ServiceActive, ServiceOff, ServiceRefused, EnableSucceeds, EnableSwallows, Install, Raise, Conclude, Lapse, Withdraw, DetachElsewhere, UpgradeUnattended, Reboot, SaveStatus
  <2>2. QED
    BY <2>1 DEF UpgradeEsm, Goto, Over, Attached, TypeOK
<1>2. QED
  BY <1>1, TypeCorrect, PTL DEF Spec, RenewalWhenDue

=============================================================================
