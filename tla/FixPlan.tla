------------------------------- MODULE FixPlan -------------------------------
(***************************************************************************)
(* What `ua fix` computes from the security API's answers                  *)
(* (uaclient/security.py): the status of each affected source package, the *)
(* version each binary package is fixed in, the packages to upgrade and    *)
(* the pocket to upgrade them from.  Versions are numbers, 0 for "none";   *)
(* the order of dpkg --compare-versions is that of the numbers.            *)
(***************************************************************************)
EXTENDS Naturals, FiniteSetsExt

CONSTANTS
  Sources,     (* source packages                                          *)
  Binaries,    (* binary packages                                          *)
  SourceOf,    (* the source package of each binary package                *)
  NCves, Cve,  (* the CVEs the API can answer with: for each, the status   *)
               (* of every source package                                  *)
  NUsns, Usn,  (* the notices it can answer with: for each, "sources", the *)
               (* source packages with a "source" entry, and "fixes", the  *)
               (* version and pocket of every binary package               *)
  Top          (* the highest version                                      *)

Pockets == {"standard", "infra", "apps"}
EsmPockets == {"infra", "apps"}
Versions == 0..Top

(* "needed" stands for the statuses of a package without a fix, "absent"   *)
(* for a package the CVE says nothing of.                                  *)
Statuses == [status : {"absent", "not-affected", "needed", "released"},
             version : Versions, pocket : Pockets]
Fixes == [version : Versions, pocket : Pockets]

ASSUME PlanAssumption ==
  /\ NCves \in Nat /\ NUsns \in Nat /\ Top \in Nat
  /\ SourceOf \in [Binaries -> Sources]
  /\ Cve \in [1..NCves -> [Sources -> Statuses]]
  /\ Usn \in [1..NUsns -> [sources : SUBSET Sources, fixes : [Binaries -> Fixes]]]

NoStatus == [status |-> "absent", version |-> 0, pocket |-> "standard"]
NoFix == [version |-> 0, pocket |-> "standard"]

BinariesOf(s) == {b \in Binaries : SourceOf[b] = s}
InstalledOf(snap, s) == {b \in BinariesOf(s) : snap[b] > 0}

(* One more CVE of the issue: of two statuses the one with the LOWER fixed *)
(* version is kept, and no fixed version is the lowest.                    *)
MergeCve(statuses, cve, snap) ==
  [s \in Sources |->
    IF \/ cve[s].status \in {"absent", "not-affected"}
       \/ InstalledOf(snap, s) = {}
       \/ statuses[s].status # "absent" /\ statuses[s].version <= cve[s].version
    THEN statuses[s] ELSE cve[s]]

(* Mutant: the fix read last is kept.                                      *)
MergeUsnLast(merged, usn) ==
  [b \in Binaries |->
    IF usn.fixes[b].version > 0 THEN usn.fixes[b] ELSE merged[b]]

(* One more notice: of two fixes of a binary the HIGHER version is kept.   *)
(* No pocket is left out: the filter for beta services looks for a service *)
(* under names that none has (fix_security_issue_id and                    *)
(* _get_service_for_pocket disagree on them).                              *)
MergeUsn(merged, usn) ==
  [b \in Binaries |->
    IF usn.fixes[b].version > merged[b].version THEN usn.fixes[b] ELSE merged[b]]

Affected(statuses) == {s \in Sources : statuses[s].status # "absent"}

(* A package with a "source" entry in a notice counts as released.         *)
Released(statuses, sourced) ==
  {s \in Affected(statuses) : s \in sourced \/ statuses[s].status = "released"}

(* It takes its pocket from any one of its binary packages.                *)
PocketsFor(statuses, sourced, merged, s) ==
  LET known == {b \in BinariesOf(s) : merged[b].version > 0}
  IN  IF s \in sourced /\ known # {} THEN {merged[b].pocket : b \in known}
      ELSE {statuses[s].pocket}

(* An installed binary package that no notice names a fixed version of.    *)
FixMissing(released, merged, snap) ==
  \E s \in released : \E b \in InstalledOf(snap, s) : merged[b].version = 0

Group(released, pocketOf, p) == {s \in released : pocketOf[s] = p}

(* The binary packages of a group that are older than their fix.           *)
Outdated(group, merged, snap) ==
  {b \in Binaries : /\ SourceOf[b] \in group
                    /\ snap[b] > 0
                    /\ snap[b] < merged[b].version}

-----------------------------------------------------------------------------
(* The archive: a pocket has the highest version published in it, and apt  *)
(* upgrades to the highest version of the pockets it reads.                *)
Offered(p, b) ==
  Max({0} \union {Usn[i].fixes[b].version :
                    i \in {j \in 1..NUsns : Usn[j].fixes[b].pocket = p}})

Candidate(b, reads) == Max({Offered(p, b) : p \in reads})

=============================================================================
