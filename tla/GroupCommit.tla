----------------------------- MODULE GroupCommit -----------------------------
(***************************************************************************)
(* What the four-party negotiation promises, without exchanges, listeners  *)
(* or ledgers.  One slot is fixed, once, among those common to all peers,  *)
(* and it is the earliest of them; the peers confirm that slot one after   *)
(* another, in the coordinator's order; success is declared when all have, *)
(* "no common slot" only when there is none.  A run may fail at any time   *)
(* before its outcome is declared: the peers that confirmed stay confirmed *)
(* (nobody takes a confirmation back), and no other peer ever confirms,    *)
(* but for one that could not be stopped from answering.                   *)
(***************************************************************************)
EXTENDS Naturals, Sequences

CONSTANTS Order, None

VARIABLES
  common,      \* the slots free for everybody
  slot,        \* the slot fixed, or None
  confirmed,   \* the positions of the peers that have confirmed it
  outcome      \* "open", "success", "no_common_slot", "failing" (one answer
               \* may still come) or "failed"

gvars == <<common, slot, confirmed, outcome>>

GInit ==
  /\ slot = None
  /\ confirmed = {}
  /\ outcome = "open"

Fix ==
  /\ outcome = "open"
  /\ slot = None
  /\ slot' \in common
  /\ \A other \in common : slot' <= other
  /\ UNCHANGED <<common, confirmed, outcome>>

NextConfirms ==
  /\ slot # None
  /\ \E i \in DOMAIN Order \ confirmed :
       /\ 1 .. i - 1 \subseteq confirmed
       /\ confirmed' = confirmed \cup {i}

ConfirmNext ==
  /\ outcome = "open"
  /\ NextConfirms
  /\ UNCHANGED <<common, slot, outcome>>

Succeed ==
  /\ outcome = "open"
  /\ slot # None
  /\ confirmed = DOMAIN Order
  /\ outcome' = "success"
  /\ UNCHANGED <<common, slot, confirmed>>

NoCommonSlot ==
  /\ outcome = "open"
  /\ common = {}
  /\ outcome' = "no_common_slot"
  /\ UNCHANGED <<common, slot, confirmed>>

Fail ==
  /\ outcome = "open"
  /\ outcome' \in {"failing", "failed"}
  /\ UNCHANGED <<common, slot, confirmed>>

(* The last answer, to the query or to the confirmation.                   *)
AnswerLate ==
  /\ outcome = "failing"
  /\ outcome' = "failed"
  /\ NextConfirms \/ UNCHANGED confirmed
  /\ UNCHANGED <<common, slot>>

GNext == Fix \/ ConfirmNext \/ Succeed \/ NoCommonSlot \/ Fail \/ AnswerLate

GSpec == GInit /\ [][GNext]_gvars

=============================================================================
