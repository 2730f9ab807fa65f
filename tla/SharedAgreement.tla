--------------------------- MODULE SharedAgreement ---------------------------
(***************************************************************************)
(* What the agents promise about one negotiated meeting, without the       *)
(* machinery: the keystone of docs/ARCHITECTURE.md section 3.2, one        *)
(* canonical agreement that both sides refer to.                           *)
(*                                                                         *)
(*   - The initiator offers some instants, once.                           *)
(*   - An agreement is made once, on an offered instant, and never changes.*)
(*   - It is shared with the counterpart after it has been made.           *)
(*   - The initiator commits its calendar only to a shared agreement (in   *)
(*     the in-process simulation nothing is shared, and it commits at      *)
(*     once).                                                              *)
(*   - The counterpart commits to a shared agreement only, to the very     *)
(*     agreement the initiator holds, and never takes it back.             *)
(***************************************************************************)
CONSTANTS
  Ids,          \* the meetings negotiated
  Terms,        \* what can be agreed: records with a field slot
  InProcess,    \* may an initiator commit without sharing?
  None          \* no agreement yet

VARIABLES
  offered,      \* offered[m]: the instants the initiator named
  agreed,       \* agreed[m]: the canonical agreement, or None
  shared,       \* the meetings whose agreement the counterpart can reach
  committed,    \* the meetings the initiator holds in its calendar
  seen          \* seen[m]: the agreement the counterpart committed to, or None

avars == <<offered, agreed, shared, committed, seen>>

AInit ==
  /\ offered = [m \in Ids |-> {}]
  /\ agreed = [m \in Ids |-> None]
  /\ shared = {}
  /\ committed = {}
  /\ seen = [m \in Ids |-> None]

(* Any instants may be offered: x' = [x EXCEPT ![m] = x'[m]] says that only *)
(* m's entry changes.                                                      *)
Offer(m) ==
  /\ offered[m] = {}
  /\ agreed[m] = None
  /\ offered' = [offered EXCEPT ![m] = offered'[m]]
  /\ UNCHANGED <<agreed, shared, committed, seen>>

MakeAgreement(m) ==
  /\ agreed[m] = None
  /\ agreed'[m] \in Terms
  /\ agreed'[m].slot \in offered[m]
  /\ agreed' = [agreed EXCEPT ![m] = agreed'[m]]

Agree(m) ==
  /\ MakeAgreement(m)
  /\ UNCHANGED <<offered, shared, committed, seen>>

AgreeInProcess(m) ==
  /\ InProcess
  /\ MakeAgreement(m)
  /\ committed' = committed \cup {m}
  /\ UNCHANGED <<offered, shared, seen>>

Share(m) ==
  /\ agreed[m] # None
  /\ shared' = shared \cup {m}
  /\ UNCHANGED <<offered, agreed, committed, seen>>

CommitInitiator(m) ==
  /\ m \in shared
  /\ committed' = committed \cup {m}
  /\ UNCHANGED <<offered, agreed, shared, seen>>

CommitCounterpart(m) ==
  /\ m \in shared
  /\ seen' = [seen EXCEPT ![m] = agreed[m]]
  /\ UNCHANGED <<offered, agreed, shared, committed>>

ANext ==
  \E m \in Ids :
    \/ Offer(m)
    \/ Agree(m)
    \/ AgreeInProcess(m)
    \/ Share(m)
    \/ CommitInitiator(m)
    \/ CommitCounterpart(m)

ASpec == AInit /\ [][ANext]_avars

=============================================================================
