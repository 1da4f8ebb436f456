--------------------------- MODULE ExclusiveLock ---------------------------
(***************************************************************************)
(* What a lock file with a pid in it is meant to give the commands of      *)
(* `ua`: one owner at a time, a lock that outlives an owner that died, and *)
(* that is taken from a dead owner only.  Once the promise is broken       *)
(* nothing more is said.                                                   *)
(***************************************************************************)
CONSTANTS Pids, None   (* None is not a process *)

VARIABLES
  owner,   (* the command the lock belongs to, or None                     *)
  inside,  (* the commands in their locked part                            *)
  dead,    (* the commands that have ended                                 *)
  broken   (* the promise no longer holds                                  *)

ovars == <<owner, inside, dead, broken>>

Init == owner = None /\ inside = {} /\ dead = {} /\ broken = FALSE

Acquire(p) ==
  /\ owner = None /\ inside = {} /\ p \notin dead
  /\ owner' = p /\ inside' = {p} /\ UNCHANGED dead

(* The owner leaves its locked part; the lock goes with it or stays until  *)
(* it is deleted.                                                          *)
Leave(p) ==
  /\ owner = p /\ inside' = inside \ {p}
  /\ owner' \in {p, None} /\ dead' \in {dead, dead \union {p}}

(* Any command, owner or not, may end: the lock stays if it did not go.    *)
End(p) ==
  /\ dead' = dead \union {p} /\ inside' = inside \ {p} /\ UNCHANGED owner

Release(p) ==
  /\ owner = p /\ p \notin inside
  /\ owner' = None /\ UNCHANGED inside /\ dead' \in {dead, dead \union {p}}

Recover == owner \in dead /\ owner' = None /\ UNCHANGED <<inside, dead>>

Break == broken' = TRUE

Next ==
  \/ broken /\ UNCHANGED broken
  \/ Break
  \/ /\ ~broken /\ UNCHANGED broken
     /\ Recover \/ \E p \in Pids : Acquire(p) \/ Leave(p) \/ End(p) \/ Release(p)

Spec == Init /\ [][Next]_ovars

=============================================================================
