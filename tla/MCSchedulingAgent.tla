-------------------------- MODULE MCSchedulingAgent --------------------------
(***************************************************************************)
(* Instances of SchedulingAgent for TLC.                                   *)
(***************************************************************************)
EXTENDS SchedulingAgent, TLC

CONSTANTS alice, bob, t1, t2, k1, k2

(* 15:00 today, then 14:00 tomorrow.  Bob has a standing event at 15:30, so *)
(* his scripted reasoner passes over the first; once the second is booked  *)
(* he is busy at both, on any day.                                         *)
MCOffers == {<<900, 2280>>}

MCDurations == {60}

MCInitialEvents ==
  alice :> <<>> @@
  bob :> <<[time |-> 930, duration |-> 30, of |-> None]>>

(* Bob's policy lets no durations out. *)
MCDiscloses ==
  alice :> [p \in Principals |-> Fields] @@
  bob :> [p \in Principals |-> {"candidates"}]

MCReasoner == alice :> "llm" @@ bob :> "scripted"

=============================================================================
