------------------------ MODULE MCCascadingReschedule ------------------------
(***************************************************************************)
(* The scenario's calendars, in minutes of 2 June: Marius's review at      *)
(* 10:00, the sync with Atlas at 14:00 and the 1-on-1 at 15:30; Atlas is   *)
(* taken to be free at 15:30 (where Marius is not), 16:00 and 17:00.       *)
(***************************************************************************)
EXTENDS CascadingReschedule, TLC

Event(start, duration, title, attendees) ==
  [start |-> start, duration |-> duration, title |-> title,
   attendees |-> attendees]

MCIris == <<Event(540, 60, "standup", {}), Event(660, 30, "focus", {})>>
MCMarius == <<Event(600, 60, "review", {}),
              Event(840, 45, "sync", {"atlas"}),
              Event(930, 30, "one", {})>>
MCAtlasFree == <<930, 960, 1020>>
MCRequest == [slot |-> 840, duration |-> 30]

=============================================================================
