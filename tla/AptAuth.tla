------------------------------- MODULE AptAuth -------------------------------
(***************************************************************************)
(* The credentials file apt reads (auth.conf.d/90ubuntu-advantage) as the  *)
(* sequence of its lines, and the two functions of uaclient/apt.py that    *)
(* rewrite it.  All services share the file, and apt takes the first line  *)
(* whose "machine" is a prefix of the url it fetches (external).           *)
(***************************************************************************)
EXTENDS Sequences, SequencesExt

CONSTANTS
  Repos,     (* repositories: a host, or a host and a path                 *)
  Tokens,    (* passwords                                                  *)
  Host       (* the host of a repository; a bare host is its own           *)

ASSUME AptAuthAssumption ==
  /\ Host \in [Repos -> Repos]
  /\ \A r \in Repos : Host[Host[r]] = Host[r]

Lines == [repo : Repos, token : Tokens]

(* The expression that reads a line stops at the first "/".                *)
MatchedRepo(line) == Host[line.repo]

(* Mutant: the new line goes after the more general one.                   *)
RewrittenAfter(line, new) ==
  IF MatchedRepo(line) = new.repo THEN <<new>>
  ELSE IF MatchedRepo(line) = Host[new.repo] THEN <<line, new>>
  ELSE <<line>>

(* What becomes of a line when a new one is added: it is replaced when the *)
(* new repository is what was read, and kept behind the new line when what *)
(* was read is a part of it.                                               *)
Rewritten(line, new) ==
  IF MatchedRepo(line) = new.repo THEN <<new>>
  ELSE IF MatchedRepo(line) = Host[new.repo] THEN <<new, line>>
  ELSE <<line>>

AddAptAuthConfEntry(file, repo, token) ==
  LET new == [repo |-> repo, token |-> token]
      lines == [i \in DOMAIN file |-> Rewritten(file[i], new)]
  IN IF \E line \in Range(file) : MatchedRepo(line) = Host[repo]
     THEN FlattenSeq(lines)
     ELSE Append(file, new)

(* Mutant: only the first of the lines is removed.                         *)
RemoveFirstFromAptAuthFile(file, repo) ==
  LET at == {i \in DOMAIN file : file[i].repo = repo}
  IN IF at = {} THEN file
     ELSE RemoveAt(file, CHOOSE i \in at : \A j \in at : i <= j)

(* The lines that are not for one of the repositories, in their order.     *)
LinesWithout(file, repos) ==
  FlattenSeq([i \in DOMAIN file |-> IF file[i].repo \in repos THEN <<>> ELSE <<file[i]>>])

RemoveRepoFromAptAuthFile(file, repo) == LinesWithout(file, {repo})

(* apt: the lines it may use for a repository, and the one it uses.        *)
Serves(line, repo) == line.repo \in {repo, Host[repo]}

ServedToken(file, repo) ==
  LET serving == {i \in DOMAIN file : Serves(file[i], repo)}
  IN {file[i].token : i \in {j \in serving : \A k \in serving : j <= k}}

=============================================================================
