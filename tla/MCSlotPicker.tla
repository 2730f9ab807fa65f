---------------------------- MODULE MCSlotPicker ----------------------------
(***************************************************************************)
(* A week that begins on Monday 00:00.  The calendars are all choices      *)
(* among a block at the start of Thursday, one that begins in the middle   *)
(* of a slot on Friday, everything from then to Monday noon, a block that  *)
(* is over before the day starts, and a reversed one.  The references are  *)
(* on and off the grid, at night, late on a Friday and in a weekend.       *)
(***************************************************************************)
EXTENDS SlotPicker, TLC

At(day, hour, minute) == day * Day + hour * 60 + minute

MCBlocks == {<<At(3, 9, 0), At(3, 12, 0)>>, <<At(4, 15, 10), At(4, 15, 50)>>,
             <<At(4, 15, 50), At(7, 12, 0)>>, <<At(7, 7, 0), At(7, 9, 0)>>,
             <<At(8, 12, 0), At(8, 11, 0)>>}
MCCalendars == SUBSET MCBlocks \cup {{<<0, At(14, 0, 0)>>}}
MCReferences == {At(3, 9, 0), At(3, 23, 41), At(4, 14, 59), At(4, 16, 31),
                 At(5, 10, 0), At(6, 23, 50), At(0, 5, 0)}
MCDurations == {5, 45, 240, 449}

=============================================================================
