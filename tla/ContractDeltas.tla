---------------------------- MODULE ContractDeltas ----------------------------
(***************************************************************************)
(* How a change of the contract reaches all the services: the loop of      *)
(* process_entitlements_delta (uaclient/contract.py) over the entitlements *)
(* as config.py and util.py read them for a series, for attach, refresh    *)
(* and the script of a release upgrade (lib/upgrade_lts_contract.py), with *)
(* the credentials file of AptAuth the services share.                     *)
(*                                                                         *)
(* RepoEntitlement has one service file by file; here a service is         *)
(* configured or not, in one step, which fails or not, and the cached      *)
(* status is the one the service has.                                      *)
(***************************************************************************)
EXTENDS Naturals, AptAuth

CONSTANTS
  Names,       (* the services, sorted by name                             *)
  Offers,      (* for each service, the entitlements a contract may have   *)
  Absent,      (* no entitlement; no repository configured                 *)
  Contained,   (* the repositories whose urls the text of a repository's   *)
               (* source contains: its own, its host, and any other whose  *)
               (* url is a part of its own                                 *)
  MaxUpdates,  (* bound: contract updates                                  *)
  MaxLines     (* bound: lines of the credentials file                     *)

Services == Range(Names)
Series == {1, 2}     (* the release before and after an upgrade            *)
Contracts == {c \in [Services -> UNION Range(Offers)] :
                \A s \in Services : c[s] \in Offers[s]}
Nothing == [s \in Services |-> Absent]
Urls(s) == {e.url[r] : e \in Offers[s] \ {Absent}, r \in Series}

ASSUME DeltasAssumption ==
  /\ Absent \notin Repos /\ MaxUpdates \in Nat /\ MaxLines \in Nat
  /\ Names \in Seq(Services)
  /\ \A i, j \in DOMAIN Names : Names[i] = Names[j] => i = j
  /\ DOMAIN Offers = Services
  /\ \A s \in Services : Offers[s] \subseteq
       [entitled : BOOLEAN, url : [Series -> Repos], token : Tokens] \union {Absent}
  /\ Absent \notin [entitled : BOOLEAN, url : Repos, token : Tokens]

ASSUME ContainedAssumption ==
  /\ Contained \in [Repos -> SUBSET Repos]
  /\ \A r \in Repos : {r, Host[r]} \subseteq Contained[r]

(* The contract server gives each service repositories of its own.         *)
ASSUME UrlsAssumption ==
  \A s, t \in Services : s # t => Urls(s) \intersect Urls(t) = {}

VARIABLES
  series,    (* the release that is running                                *)
  contract,  (* machine-token.json                                         *)
  applied,   (* the repository a service's source has, or Absent           *)
  file,      (* the credentials file                                       *)
  op,        (* "attach", "refresh" or "upgrade" while its loop runs       *)
  next,      (* the loop's place in Names                                  *)
  past, new, (* the entitlements the loop compares                         *)
  read,      (* what the upgrade script has read and not yet processed     *)
  (* history *)
  on,        (* the services that were enabled and should still be         *)
  outstanding,  (* the release was upgraded, the script has not been run   *)
  updates,   (* contract updates so far                                    *)
  lapses   (* for each service, how it fell out of step                  *)

data == <<series, contract, applied, file>>
loop == <<op, next, past, new>>
history == <<on, outstanding, updates, lapses>>
vars == <<data, loop, read, history>>

(* "token": its credentials are not its own present ones, for its token    *)
(* was rotated or its line gave way to that of a bare host; enabling it    *)
(* anew mends that.  "source": its repository may not be the contract's,   *)
(* or have left credentials behind: a change missed, a service the         *)
(* contract no longer names, a url that is a part of the old one, a url    *)
(* changed once more before the upgrade script came to it.                 *)
Lapses == {"none", "token", "source"}
Lapse(s, kind, cond) ==
  lapses' = IF cond /\ lapses[s] # "source" THEN [lapses EXCEPT ![s] = kind] ELSE lapses

(* apply_series_overrides and UAConfig.entitlements.                       *)
SeriesView(e, r) ==
  IF e = Absent THEN Absent
  ELSE [entitled |-> e.entitled, url |-> e.url[r], token |-> e.token]
Entitlements(c, r) == [s \in Services |-> SeriesView(c[s], r)]
Current(s) == SeriesView(contract[s], series)

(* application_status: apt lists the url the contract has now.             *)
Active(s) == Current(s) # Absent /\ applied[s] = Current(s).url
CanEnable(s) == Current(s) # Absent /\ Current(s).entitled /\ ~Active(s)
Configured(s) == applied[s] # Absent

Init ==
  /\ series = 1 /\ contract = Nothing /\ applied = Nothing /\ file = <<>>
  /\ op = "none" /\ next = 1 /\ past = Nothing /\ new = Nothing
  /\ read = {}
  /\ on = {} /\ outstanding = FALSE /\ updates = 0
  /\ lapses = [s \in Services |-> "none"]

-----------------------------------------------------------------------------
(* One service's part of the shared files *)

(* setup_apt_config.  The credentials of a service replaced or rotated are *)
(* good again; a source that was there for another url is overwritten, and *)
(* its credentials line stays.                                             *)
Configure(s, lines) ==
  LET v == Current(s)
      Kept(t) == applied[t] = Absent \/ applied[t] = v.url \/ Host[applied[t]] # v.url
      Mended == IF lapses[s] = "token" THEN "none" ELSE lapses[s]
      Left == \E i \in DOMAIN lines : lines[i].repo = applied[s] /\ applied[s] # v.url
  IN /\ file' = AddAptAuthConfEntry(lines, v.url, v.token)
     /\ Len(file') <= MaxLines
     /\ applied' = [applied EXCEPT ![s] = v.url]
     /\ lapses' = [t \in Services |->
          IF t = s THEN IF Left THEN "source" ELSE Mended
          ELSE IF Kept(t) \/ lapses[t] = "source" THEN lapses[t] ELSE "token"]

(* remove_apt_config                                                       *)
Unconfigure(s) ==
  /\ file' = RemoveRepoFromAptAuthFile(file, Current(s).url)
  /\ applied' = [applied EXCEPT ![s] = Absent]

-----------------------------------------------------------------------------
(* Commands that change the contract *)

Idle == op = "none"

Start(o, p, n) ==
  /\ op' = o /\ next' = 1 /\ past' = p /\ new' = n

(* request_updated_contract: the new contract is on disk, and no longer in *)
(* memory, before the loop begins.                                         *)
UpdateContract ==
  /\ Idle /\ updates < MaxUpdates
  /\ contract' \in Contracts \ {Nothing}
  /\ Start(IF contract = Nothing THEN "attach" ELSE "refresh",
           Entitlements(contract, series), Entitlements(contract', series))
  /\ updates' = updates + 1
  /\ on' = {s \in on : contract'[s] # Absent /\ contract'[s].entitled}
  /\ UNCHANGED <<series, applied, file, read, outstanding, lapses>>

ReleaseUpgrade ==
  /\ Idle /\ series = 1
  /\ series' = 2 /\ outstanding' = (contract # Nothing)
  /\ UNCHANGED <<contract, applied, file, loop, read, on, updates, lapses>>

(* process_contract_delta_after_apt_lock reads the entitlements of both    *)
(* releases, waits for apt's lock, and goes by what it has read.           *)
ReadContracts ==
  /\ Idle /\ outstanding /\ read = {} /\ contract # Nothing
  /\ read' = {contract}
  /\ UNCHANGED <<data, loop, history>>

ProcessRead ==
  /\ Idle /\ \E c \in read : Start("upgrade", Entitlements(c, 1), Entitlements(c, 2))
  /\ read' = {}
  /\ UNCHANGED <<data, history>>

-----------------------------------------------------------------------------
(* process_entitlement_delta, in the order of the names *)

Each(s) == ~Idle /\ next <= Len(Names) /\ s = Names[next]

(* Mutant: the loop skips a service after each one it has processed.       *)
ContinueSkipping == next' = next + 2 /\ UNCHANGED <<op, past, new, read>>

Continue == next' = next + 1 /\ UNCHANGED <<op, past, new, read>>

Untouched == UNCHANGED <<series, contract, on, outstanding, updates>>

(* Mutant: only keys that were not there before are deltas.                *)
DictDeltasAdded(o, n) ==
  IF o = Absent THEN {"entitled", "url", "token"} ELSE {}

(* get_dict_deltas: the keys that changed.                                 *)
DictDeltas(o, n) ==
  IF o = Absent THEN {"entitled", "url", "token"}
  ELSE {k \in {"entitled", "url", "token"} : o[k] # n[k]}

Deltas(s) == IF new[s] = Absent THEN {} ELSE DictDeltas(past[s], new[s])
Unentitled(s) == past[s] # Absent /\ "entitled" \in Deltas(s) /\ ~new[s].entitled

(* The status a delta goes by: the cached one when directives changed.     *)
DeltaStatus(s) == IF "url" \in Deltas(s) THEN Configured(s) ELSE Active(s)

(* The upgrade script has read another url than the source has, because a  *)
(* contract update came between the release's upgrade and the script.      *)
Missed(s) == op = "upgrade" /\ new[s] # Absent /\ applied[s] # new[s].url

(* The loop is over the names in the new contract.                         *)
NoDelta(s) ==
  /\ Each(s) /\ Deltas(s) = {}
  /\ Continue
  /\ Lapse(s, "source", Configured(s) /\ (new[s] = Absent \/ Missed(s)))
  /\ UNCHANGED <<applied, file>> /\ Untouched

(* A service that is no longer covered is disabled, when it is found.      *)
DeltaUnentitled(s) ==
  /\ Each(s) /\ Unentitled(s) /\ Continue /\ Untouched
  /\ IF DeltaStatus(s) /\ Active(s)
       THEN Unconfigure(s) /\ UNCHANGED lapses
       ELSE UNCHANGED <<applied, file>> /\ Lapse(s, "source", Configured(s))

(* enableByDefault: with allow_enable the service is enabled, else it is   *)
(* only mentioned and the rest of the delta passed over.                   *)
DeltaDefault(s) ==
  /\ Each(s) /\ Deltas(s) # {} /\ ~Unentitled(s) /\ CanEnable(s)
  /\ Continue /\ UNCHANGED <<series, contract, outstanding, updates>>
  /\ IF op \in {"attach", "upgrade"}
       THEN Configure(s, file) /\ on' = on \union {s}
       ELSE Lapse(s, "source", Configured(s)) /\ UNCHANGED <<applied, file, on>>

(* _check_apt_url_is_applied looks for the url anywhere in the source, so  *)
(* it finds one that is a part of the url there.                           *)
Listed(s, u) == Configured(s) /\ u \in Contained[applied[s]]

Rewrites(s) == "url" \in Deltas(s) /\ DeltaStatus(s) /\ ~Listed(s, new[s].url)

(* What is removed before the service is set up anew: the old url's line   *)
(* and, by remove_apt_config, the present url's.                           *)
Cleared(s) ==
  LET now == RemoveRepoFromAptAuthFile(file, Current(s).url)
  IN IF past[s] = Absent THEN now ELSE RemoveRepoFromAptAuthFile(now, past[s].url)

(* The changed url of an enabled service.                                  *)
Rewrite(s) ==
  /\ Each(s) /\ ~Unentitled(s) /\ Rewrites(s) /\ Current(s) # Absent
  /\ Continue /\ Untouched
  /\ Configure(s, Cleared(s))

(* setup_apt_config fails after all was removed; the error is told.        *)
RewriteFails(s) ==
  /\ Each(s) /\ ~Unentitled(s) /\ Rewrites(s) /\ Current(s) # Absent
  /\ Continue /\ UNCHANGED <<series, contract, outstanding, updates>>
  /\ file' = Cleared(s) /\ applied' = [applied EXCEPT ![s] = Absent]
  /\ on' = on \ {s}
  /\ Lapse(s, "source", \E i \in DOMAIN file' : file'[i].repo = applied[s])

(* Nothing the service has to be set up for.                               *)
Settled(s) ==
  /\ Each(s) /\ Deltas(s) # {} /\ ~Unentitled(s) /\ ~Rewrites(s)
  /\ Continue /\ UNCHANGED <<applied, file>> /\ Untouched
  /\ IF ~DeltaStatus(s) \/ ("url" \in Deltas(s) /\ new[s].url # applied[s])
       THEN Lapse(s, "source", Configured(s))
       ELSE Lapse(s, "token", Configured(s) /\ "token" \in Deltas(s))

(* An exception is logged and the loop goes on; what it would have done is *)
(* not done, then or at the next refresh.                                  *)
DeltaFails(s) ==
  /\ Each(s) /\ Deltas(s) # {}
  /\ Continue /\ UNCHANGED <<applied, file>> /\ Untouched
  /\ Lapse(s, "source", Configured(s))

Return ==
  /\ op' = "none" /\ next' = 1 /\ past' = Nothing /\ new' = Nothing
  /\ outstanding' = (outstanding /\ op # "upgrade")

Finish ==
  /\ ~Idle /\ next > Len(Names) /\ Return
  /\ UNCHANGED <<data, read, on, updates, lapses>>

(* The rest of the services do not see the change, and never will.         *)
Crash ==
  /\ ~Idle /\ next <= Len(Names) /\ Return
  /\ lapses' = [s \in Services |->
       IF /\ Configured(s) /\ (past[s] # new[s] \/ Missed(s))
          /\ \E i \in next..Len(Names) : Names[i] = s
       THEN "source" ELSE lapses[s]]
  /\ UNCHANGED <<data, read, on, updates>>

-----------------------------------------------------------------------------
(* Commands on one service, and detach *)

Enable(s) ==
  /\ Idle /\ CanEnable(s) /\ Configure(s, file)
  /\ on' = on \union {s}
  /\ UNCHANGED <<series, contract, loop, read, outstanding, updates>>

Disable(s) ==
  /\ Idle /\ Active(s) /\ Unconfigure(s)
  /\ on' = on \ {s}
  /\ UNCHANGED <<series, contract, loop, read, outstanding, updates, lapses>>

(* _detach disables what it finds active at the contract's url.            *)
Detach ==
  /\ Idle /\ contract # Nothing
  /\ LET gone == {s \in Services : Active(s)}
     IN /\ applied' = [s \in Services |-> IF s \in gone THEN Absent ELSE applied[s]]
        /\ file' = LinesWithout(file, {applied[s] : s \in gone})
        /\ lapses' = [s \in Services |-> IF applied'[s] = Absent THEN lapses[s]
                          ELSE "source"]
  /\ contract' = Nothing /\ on' = {} /\ outstanding' = FALSE
  /\ UNCHANGED <<series, loop, read, updates>>

Delta(s) ==
  \/ NoDelta(s) \/ DeltaUnentitled(s) \/ DeltaDefault(s) \/ Rewrite(s)
  \/ RewriteFails(s) \/ Settled(s) \/ DeltaFails(s)

Next ==
  \/ UpdateContract \/ ReleaseUpgrade \/ ReadContracts \/ ProcessRead
  \/ Finish \/ Crash \/ Detach
  \/ \E s \in Services : Delta(s) \/ Enable(s) \/ Disable(s)

Spec == Init /\ [][Next]_vars

-----------------------------------------------------------------------------
(* Properties *)

(* Every variable keeps its type.                                          *)
TypeOK ==
  /\ series \in Series /\ contract \in Contracts \union {Nothing}
  /\ applied \in [Services -> Repos \union {Absent}]
  /\ file \in Seq(Lines)
  /\ op \in {"none", "attach", "refresh", "upgrade"} /\ next \in 1..Len(Names)+1
  /\ read \subseteq Contracts
  /\ on \subseteq Services /\ outstanding \in BOOLEAN /\ updates \in 0..MaxUpdates
  /\ lapses \in [Services -> Lapses]

(* Between commands a service is configured, with the contract's own url   *)
(* for this release, exactly when it was enabled and is still covered,     *)
(* unless one of the named lapses put it out of step.                    *)
InStep ==
  Idle /\ ~outstanding => \A s \in Services : lapses[s] = "none" =>
    applied[s] = IF s \in on THEN Current(s).url ELSE Absent

(* apt fetches a service's repository with that service's own present      *)
(* token, whatever the order in which the lines of all services came to    *)
(* be in the file.                                                         *)
CredentialsServed ==
  Idle => \A s \in Services : lapses[s] = "none" /\ Configured(s) =>
    ServedToken(file, applied[s]) = {Current(s).token}

(* No credentials are left for a repository whose service is not           *)
(* configured.                                                             *)
CredentialsGone ==
  Idle => \A s \in Services, line \in Range(file) :
    lapses[s] = "none" /\ line.repo \in Urls(s) => applied[s] = line.repo

=============================================================================
