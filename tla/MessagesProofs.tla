---------------------------- MODULE MessagesProofs ----------------------------
(***************************************************************************)
(* Theorems about Messages for every length of the periods of notice and   *)
(* of grace.                                                               *)
(***************************************************************************)
EXTENDS Messages, TLAPS

(* A process that begins has found no service; one that found a service    *)
(* has read a contract.                                                    *)
ReadInv ==
  \A u \in Updaters :
    /\ pc[u] = "start" => ~on[u]
    /\ on[u] => left[u] # NoContract

(* Services are on only with a contract.                                   *)
EnabledInv == ~attached => enabled = {}

MessagesInv == TypeOK /\ ReadInv /\ EnabledInv

(* What a process would read now.                                          *)
DaysNow == IF attached THEN days ELSE NoContract

-----------------------------------------------------------------------------
(* A text tells days of its own period, whatever day it is computed for.   *)
LEMMA TextTypes ==
  ASSUME NEW l \in Int, NEW e \in BOOLEAN
  PROVE  Text(l, e) \in Texts
<1>. USE MessagesAssumption
<1>1. CASE l # NoContract /\ 0 <= l /\ l <= Pending
  BY <1>1 DEF Text, Expiry, Texts
<1>2. CASE l # NoContract /\ -Grace <= l /\ l < 0
  BY <1>2 DEF Text, Expiry, Texts
<1>3. CASE \/ l = NoContract
           \/ ~(0 <= l /\ l <= Pending) /\ ~(-Grace <= l /\ l < 0)
  BY <1>3 DEF Text, Expiry, Texts
<1>4. QED
  BY <1>1, <1>2, <1>3

(* What is written for the contract and the service as they are is what a  *)
(* reader should be told, at every boundary of the two periods.            *)
LEMMA TextIsDue ==
  ASSUME TypeOK, EnabledInv, NEW s \in Services
  PROVE  Text(DaysNow, s \in enabled) = <<Due(s), DueDays(s)>>
<1>. USE MessagesAssumption DEF TypeOK
<1>1. days \in Int /\ days # NoContract /\ -Grace \in Int
  BY DEF NoContract
<1>2. CASE ~attached
  BY <1>2 DEF EnabledInv, DaysNow, Text, Expiry, Due, DueDays, Expired
<1>3. CASE attached /\ s \notin enabled
  BY <1>1, <1>3 DEF DaysNow, Text, Expiry, Due, DueDays, Expired
<1>4. CASE attached /\ s \in enabled
  <2>1. CASE days < -Grace
    BY <1>1, <1>4, <2>1 DEF DaysNow, Text, Expiry, Due, DueDays, Expired
  <2>2. CASE ~(days < -Grace) /\ days < 0
    BY <1>1, <1>4, <2>2 DEF DaysNow, Text, Expiry, Due, DueDays, Expired
  <2>3. CASE 0 <= days
    BY <1>1, <1>4, <2>3 DEF DaysNow, Text, Expiry, Due, DueDays, Expired
  <2>4. QED
    BY <1>1, <2>1, <2>2, <2>3
<1>5. QED
  BY <1>2, <1>3, <1>4

(* The truth values stay truth values.                                     *)
LEMMA StepFlags ==
  ASSUME TypeOK, Next
  PROVE  /\ beta' \in BOOLEAN /\ attached' \in BOOLEAN
         /\ warranty' \in BOOLEAN /\ announce' \in BOOLEAN
         /\ on' \in [Updaters -> BOOLEAN]
<1>. DEFINE Flags == /\ beta' \in BOOLEAN /\ attached' \in BOOLEAN
                     /\ warranty' \in BOOLEAN /\ announce' \in BOOLEAN
                     /\ on' \in [Updaters -> BOOLEAN]
<1>. USE DEF TypeOK, Begin, machine, files, process, Updaters, Finds
<1>1. CASE Attach
  BY <1>1 DEF Attach
<1>2. CASE Detach
  BY <1>2 DEF Detach
<1>3. CASE EnableOrDisable
  BY <1>3 DEF EnableOrDisable
<1>4. CASE Refresh
  BY <1>4 DEF Refresh
<1>5. CASE DayPasses
  BY <1>5 DEF DayPasses
<1>6. CASE EndOfSupport
  BY <1>6 DEF EndOfSupport
<1>7. CASE ReleaseUpgrade
  BY <1>7 DEF ReleaseUpgrade
<1>8. CASE TimerFires
  BY <1>8 DEF TimerFires
<1>9. ASSUME NEW u \in Updaters, RemoveAll(u)
      PROVE  Flags
  BY <1>9 DEF RemoveAll
<1>10. ASSUME NEW u \in Updaters, WriteAnnouncement(u)
      PROVE  Flags
  BY <1>10 DEF WriteAnnouncement
<1>11. ASSUME NEW u \in Updaters, SkipOrWriteInfra(u)
      PROVE  Flags
  BY <1>11 DEF SkipOrWriteInfra
<1>12. ASSUME NEW u \in Updaters, ReadStatus(u)
      PROVE  Flags
  BY <1>12 DEF ReadStatus
<1>13. ASSUME NEW u \in Updaters, WriteWarranty(u)
      PROVE  Flags
  BY <1>13 DEF WriteWarranty
<1>14. ASSUME NEW u \in Updaters, WriteTemplates(u)
      PROVE  Flags
  BY <1>14 DEF WriteTemplates
<1>15. ASSUME NEW u \in Updaters, Killed(u)
      PROVE  Flags
  BY <1>15 DEF Killed
<1>16. QED
  BY <1>1, <1>2, <1>3, <1>4, <1>5, <1>6, <1>7, <1>8, <1>9, <1>10, <1>11,
     <1>12, <1>13, <1>14, <1>15
     DEF Next, Update

(* Every step keeps the types.                                             *)
LEMMA StepTypes ==
  ASSUME TypeOK, Next
  PROVE  TypeOK'
<1>. USE StepFlags, MessagesAssumption DEF TypeOK, Begin, Change, Step,
         machine, files, process, Updaters, Services, NoContract
<1>1. CASE Attach
  BY <1>1 DEF Attach
<1>2. CASE Detach
  BY <1>2 DEF Detach
<1>3. CASE EnableOrDisable
  BY <1>3 DEF EnableOrDisable
<1>4. CASE Refresh
  BY <1>4 DEF Refresh
<1>5. CASE DayPasses
  BY <1>5 DEF DayPasses
<1>6. CASE EndOfSupport
  BY <1>6 DEF EndOfSupport
<1>7. CASE ReleaseUpgrade
  BY <1>7 DEF ReleaseUpgrade
<1>8. CASE TimerFires
  BY <1>8 DEF TimerFires
<1>9. ASSUME NEW u \in Updaters, RemoveAll(u)
      PROVE  TypeOK'
  <2>1. text' \in [Services -> Texts]
    BY <1>9 DEF RemoveAll, Texts
  <2>2. QED
    BY <1>9, <2>1 DEF RemoveAll
<1>10. ASSUME NEW u \in Updaters, WriteAnnouncement(u)
      PROVE  TypeOK'
  BY <1>10 DEF WriteAnnouncement
<1>11. ASSUME NEW u \in Updaters, SkipOrWriteInfra(u)
      PROVE  TypeOK'
  BY <1>11 DEF SkipOrWriteInfra
<1>12. ASSUME NEW u \in Updaters, ReadStatus(u)
      PROVE  TypeOK'
  BY <1>12 DEF ReadStatus
<1>13. ASSUME NEW u \in Updaters, WriteWarranty(u)
      PROVE  TypeOK'
  BY <1>13 DEF WriteWarranty
<1>14. ASSUME NEW u \in Updaters, WriteTemplates(u)
      PROVE  TypeOK'
  <2>1. Text(left[u], on[u]) \in Texts
    BY TextTypes
  <2>2. text' \in [Services -> Texts]
    BY <1>14, <2>1 DEF WriteTemplates
  <2>3. QED
    BY <1>14, <2>2 DEF WriteTemplates
<1>15. ASSUME NEW u \in Updaters, Killed(u)
      PROVE  TypeOK'
  BY <1>15 DEF Killed
<1>16. QED
  BY <1>1, <1>2, <1>3, <1>4, <1>5, <1>6, <1>7, <1>8, <1>9, <1>10, <1>11,
     <1>12, <1>13, <1>14, <1>15
     DEF Next, Update

(* What a process has read stays consistent.                               *)
LEMMA StepRead ==
  ASSUME MessagesInv, Next
  PROVE  ReadInv' /\ EnabledInv'
<1>. USE MessagesAssumption DEF MessagesInv, TypeOK, ReadInv, EnabledInv,
         Begin, Step, Finds, machine, files, process, Updaters
<1>1. CASE Attach
  BY <1>1 DEF Attach
<1>2. CASE Detach
  BY <1>2 DEF Detach
<1>3. CASE EnableOrDisable
  BY <1>3 DEF EnableOrDisable
<1>4. CASE Refresh
  BY <1>4 DEF Refresh
<1>5. CASE DayPasses
  BY <1>5 DEF DayPasses
<1>6. CASE EndOfSupport
  BY <1>6 DEF EndOfSupport
<1>7. CASE ReleaseUpgrade
  BY <1>7 DEF ReleaseUpgrade
<1>8. CASE TimerFires
  BY <1>8 DEF TimerFires
<1>9. ASSUME NEW u \in Updaters, RemoveAll(u)
      PROVE  ReadInv' /\ EnabledInv'
  BY <1>9 DEF RemoveAll
<1>10. ASSUME NEW u \in Updaters, WriteAnnouncement(u)
      PROVE  ReadInv' /\ EnabledInv'
  BY <1>10 DEF WriteAnnouncement
<1>11. ASSUME NEW u \in Updaters, SkipOrWriteInfra(u)
      PROVE  ReadInv' /\ EnabledInv'
  BY <1>11 DEF SkipOrWriteInfra
<1>12. ASSUME NEW u \in Updaters, ReadStatus(u)
      PROVE  ReadInv' /\ EnabledInv'
  BY <1>12 DEF ReadStatus
<1>13. ASSUME NEW u \in Updaters, WriteWarranty(u)
      PROVE  ReadInv' /\ EnabledInv'
  BY <1>13 DEF WriteWarranty
<1>14. ASSUME NEW u \in Updaters, WriteTemplates(u)
      PROVE  ReadInv' /\ EnabledInv'
  BY <1>14 DEF WriteTemplates
<1>15. ASSUME NEW u \in Updaters, Killed(u)
      PROVE  ReadInv' /\ EnabledInv'
  BY <1>15 DEF Killed
<1>16. QED
  BY <1>1, <1>2, <1>3, <1>4, <1>5, <1>6, <1>7, <1>8, <1>9, <1>10, <1>11,
     <1>12, <1>13, <1>14, <1>15
     DEF Next, Update

-----------------------------------------------------------------------------
LEMMA InitInv == Init => MessagesInv
<1>. SUFFICES ASSUME Init PROVE MessagesInv
  OBVIOUS
<1>1. /\ beta \in BOOLEAN /\ attached \in BOOLEAN /\ warranty \in BOOLEAN
      /\ announce \in BOOLEAN /\ on \in [Updaters -> BOOLEAN]
  BY DEF Init
<1>2. TypeOK
  BY <1>1, MessagesAssumption DEF Init, TypeOK, Texts, NoContract
<1>3. QED
  BY <1>2 DEF Init, MessagesInv, ReadInv, EnabledInv

LEMMA NextInv == MessagesInv /\ [Next]_vars => MessagesInv'
<1>1. CASE MessagesInv /\ Next
  BY <1>1, StepTypes, StepRead DEF MessagesInv
<1>2. CASE MessagesInv /\ UNCHANGED vars
  BY <1>2 DEF vars, machine, files, process, MessagesInv, TypeOK,
              ReadInv, EnabledInv
<1>3. QED
  BY <1>1, <1>2

(* The inductive invariant holds of every behaviour.                       *)
THEOREM InvariantHolds == Spec => []MessagesInv
  BY InitInv, NextInv, PTL DEF Spec

(* Every variable keeps its type; a message about the last days or the     *)
(* days of grace tells days of that period, whichever two processes wrote  *)
(* and whenever the contract changed between their reads and their writes. *)
THEOREM TypeCorrect == Spec => []TypeOK
  BY InvariantHolds, PTL DEF MessagesInv

(* A process that writes what it read of a contract and of a service which *)
(* have not changed since writes the message that is due.                  *)
WritesDue ==
  [][\A u \in Updaters, s \in Services :
       /\ WriteTemplates(u) /\ text'[s] # text[s]
       /\ left[u] = DaysNow /\ (on[u] <=> s \in enabled)
       => text'[s] = <<Due(s), DueDays(s)>>]_vars

(* However many processes rewrite the messages at once, one that writes    *)
(* from what is still true writes the template the contract's expiry and   *)
(* the service's status call for (write_apt_and_motd_templates).           *)
THEOREM WritesWhatIsDue == Spec => WritesDue
<1>1. ASSUME MessagesInv, NEW u \in Updaters, NEW s \in Services,
             WriteTemplates(u), text'[s] # text[s],
             left[u] = DaysNow, on[u] <=> s \in enabled
      PROVE  text'[s] = <<Due(s), DueDays(s)>>
  <2>1. text'[s] = Text(left[u], on[u])
    BY <1>1 DEF WriteTemplates, MessagesInv, TypeOK
  <2>2. on[u] = (s \in enabled)
    BY <1>1 DEF MessagesInv, TypeOK
  <2>3. QED
    BY <1>1, <2>1, <2>2, TextIsDue DEF MessagesInv
<1>2. MessagesInv /\ [Next]_vars =>
        [\A u \in Updaters, s \in Services :
           /\ WriteTemplates(u) /\ text'[s] # text[s]
           /\ left[u] = DaysNow /\ (on[u] <=> s \in enabled)
           => text'[s] = <<Due(s), DueDays(s)>>]_vars
  BY <1>1
<1>3. QED
  BY <1>2, InvariantHolds, PTL DEF Spec, WritesDue

=============================================================================
