---------------------------- MODULE MCAgentInbox ----------------------------
(***************************************************************************)
(* The sandbox registry of the api: alice and bob with empty calendars and *)
(* scripted reasoners, whose policies are the default ones, and two        *)
(* requests made on a Thursday, so that the three candidates lie on        *)
(* Friday, Monday and Tuesday.                                             *)
(***************************************************************************)
EXTENDS AgentInbox, TLC

CONSTANTS alice, bob, r1, r2

MCToday == 3
MCOffers == {DefaultCandidates(MCToday)}
MCDurations == {45}
MCInitialEvents == [p \in Principals |-> <<>>]
MCDiscloses == [p \in Principals |-> [q \in Principals |-> Fields]]
MCReasoner == [p \in Principals |-> "scripted"]

=============================================================================
