-------------------------------- MODULE Slots --------------------------------
(***************************************************************************)
(* The working-hour grid of phase_1/slot_picker.py.  An instant is the     *)
(* number of minutes since a Monday at 00:00 UTC; a reference time with    *)
(* seconds counts as the minute after it, which neither the rounding nor   *)
(* the end of the window can tell.  A calendar is the set of its busy      *)
(* intervals <<start, end>>, half-open.                                    *)
(***************************************************************************)
EXTENDS Naturals, FiniteSets

Day == 24 * 60
Granularity == 30           \* _SLOT_GRANULARITY
WorkdayStart == 9 * 60      \* _WORKDAY_START
WorkdayEnd == 17 * 60       \* _WORKDAY_END
Lookahead == 7 * Day        \* _LOOKAHEAD_DAYS

(* A meeting this long that starts before WorkdayEnd may end after         *)
(* midnight.                                                               *)
Long == Day - WorkdayEnd + Granularity

Clock(t) == t % Day
Midnight(t) == t - Clock(t)
Weekday(t) == (t \div Day) % 7
IsWeekend(t) == Weekday(t) >= 5

(* _round_up_to_slot *)
RoundUp(t) == ((t + Granularity - 1) \div Granularity) * Granularity

(* Faulty variant: today's workday again. *)
WorkdayOfToday(t) == Midnight(t) + WorkdayStart

(* _start_of_next_workday *)
NextWorkday(t) ==
  LET days == CASE Weekday(t) = 4 -> 3
                [] Weekday(t) = 5 -> 2
                [] OTHER          -> 1
  IN  Midnight(t) + days * Day + WorkdayStart

(* Faulty variant: a block inside the meeting goes unnoticed. *)
StartsInAny(start, end, busy) ==
  \E block \in busy : block[1] <= start /\ start < block[2]

(* _overlaps_any *)
OverlapsAny(start, end, busy) ==
  \E block \in busy : start < block[2] /\ block[1] < end

(* find_free_candidates compares the end of the meeting as a time of day.  *)
EndsByClock(t, duration) == Clock(t + duration) <= WorkdayEnd

IsFree(t, busy, duration) == ~ OverlapsAny(t, t + duration, busy)

(* The slot starts on the working-hour grid.                               *)
InWorkday(t) ==
  /\ t % Granularity = 0
  /\ ~ IsWeekend(t)
  /\ Clock(t) >= WorkdayStart
  /\ Clock(t) < WorkdayEnd

-----------------------------------------------------------------------------
(* "the entire [slot_start, slot_start + duration] interval is clear of    *)
(* every busy block"                                                       *)
IsClear(t, busy, duration) ==
  \A block \in busy : t + duration <= block[1] \/ block[2] <= t

(* What the module's docstring calls a free slot: on the grid, over by     *)
(* 17:00 of its day, and clear.                                            *)
IsProper(t, busy, duration) ==
  /\ InWorkday(t)
  /\ t + duration <= Midnight(t) + WorkdayEnd
  /\ IsClear(t, busy, duration)

Grid(reference) ==
  {Granularity * k : k \in RoundUp(reference) \div Granularity ..
                           (reference + Lookahead - 1) \div Granularity}

(* The first `limit' of the free slots in the seven days from reference:   *)
(* what find_free_candidates returns (SlotPicker).                         *)
FreeCandidates(busy, duration, reference, limit) ==
  LET free == {t \in Grid(reference) : IsProper(t, busy, duration)} IN
  {t \in free : Cardinality({earlier \in free : earlier < t}) < limit}

=============================================================================
