----------------------------- MODULE SlotPicker -----------------------------
(***************************************************************************)
(* find_free_candidates (phase_1/slot_picker.py): one pass over the grid   *)
(* from the reference time, skipping nights and weekends, that stops at    *)
(* the first `Limit' free slots or at the end of the seven-day window.     *)
(* One step is one iteration of the loop in _iter_workday_slots, with the  *)
(* loop body of find_free_candidates when the iteration yields a slot.     *)
(***************************************************************************)
EXTENDS Slots, Sequences

CONSTANTS
  Calendars,    \* the busy calendars considered
  Durations,    \* duration_minutes
  References,   \* reference_time
  Limit         \* num_candidates

ASSUME PickerAssumption ==
  /\ Calendars \subseteq SUBSET (Nat \X Nat)
  /\ Durations \subseteq Nat
  /\ References \subseteq Nat
  /\ Limit \in Nat \ {0}

VARIABLES
  busy, duration, reference,   \* the arguments
  stage,                       \* "start", "search", "done" or "raised"
  cursor,                      \* where _iter_workday_slots is
  found                        \* candidates

arguments == <<busy, duration, reference>>
vars == <<busy, duration, reference, stage, cursor, found>>

EndOfWindow == reference + Lookahead

Init ==
  /\ busy \in Calendars
  /\ duration \in Durations
  /\ reference \in References
  /\ stage = "start"
  /\ cursor = RoundUp(reference)
  /\ found = <<>>

(* _parse_busy: an empty or reversed interval is an error. *)
ParseBusy ==
  /\ stage = "start"
  /\ stage' = IF \E block \in busy : block[2] <= block[1] THEN "raised"
              ELSE "search"
  /\ UNCHANGED <<arguments, cursor, found>>

(* Before 09:00 the cursor is set to 09:00 of the same day. *)
Slot == IF Clock(cursor) < WorkdayStart THEN Midnight(cursor) + WorkdayStart
        ELSE cursor

(* The cursor's turn at a weekend or after hours. *)
SkipToWorkday ==
  /\ stage = "search"
  /\ cursor < EndOfWindow
  /\ IsWeekend(cursor) \/ Clock(cursor) >= WorkdayEnd
  /\ cursor' = NextWorkday(cursor)
  /\ UNCHANGED <<arguments, stage, found>>

Yields ==
  /\ stage = "search"
  /\ cursor < EndOfWindow
  /\ ~ IsWeekend(cursor)
  /\ Clock(cursor) < WorkdayEnd

(* Faulty variant: the search resumes after the meeting found. *)
TakeAndJump ==
  /\ Yields
  /\ EndsByClock(Slot, duration)
  /\ IsFree(Slot, busy, duration)
  /\ found' = Append(found, Slot)
  /\ stage' = IF Len(found') >= Limit THEN "done" ELSE stage
  /\ cursor' = RoundUp(Slot + duration)
  /\ UNCHANGED arguments

Take ==
  /\ Yields
  /\ EndsByClock(Slot, duration)
  /\ IsFree(Slot, busy, duration)
  /\ found' = Append(found, Slot)
  /\ stage' = IF Len(found') >= Limit THEN "done" ELSE stage
  /\ cursor' = Slot + Granularity
  /\ UNCHANGED arguments

Pass ==
  /\ Yields
  /\ ~ (EndsByClock(Slot, duration) /\ IsFree(Slot, busy, duration))
  /\ cursor' = Slot + Granularity
  /\ UNCHANGED <<arguments, stage, found>>

Exhaust ==
  /\ stage = "search"
  /\ cursor >= EndOfWindow
  /\ stage' = "done"
  /\ UNCHANGED <<arguments, cursor, found>>

Next == ParseBusy \/ SkipToWorkday \/ Take \/ Pass \/ Exhaust

Spec == Init /\ [][Next]_vars /\ WF_vars(Next)

-----------------------------------------------------------------------------
Answer == {found[i] : i \in DOMAIN found}

(* The values have their shapes.                                           *)
TypeOK ==
  /\ busy \in Calendars
  /\ duration \in Durations
  /\ reference \in References
  /\ stage \in {"start", "search", "done", "raised"}
  /\ cursor \in Nat
  /\ found \in Seq(Nat)

(* No more slots than asked for are found; they are in order, none lies    *)
(* outside the window, and each is on the grid and clear of every busy     *)
(* block, whatever the duration (find_free_candidates).                    *)
FoundAreFree ==
  /\ Len(found) <= Limit
  /\ \A i, j \in DOMAIN found : i < j => found[i] < found[j]
  /\ \A i \in DOMAIN found :
       /\ reference <= found[i]
       /\ found[i] < EndOfWindow
       /\ found[i] < cursor
       /\ InWorkday(found[i])
       /\ IsClear(found[i], busy, duration)

(* The search skips no free slot: what the answer holds is exactly the     *)
(* first free slots of the seven days (find_free_candidates's docstring:   *)
(* "Return the first num_candidates free slots after reference_time").     *)
AnswerIsFirstFree ==
  stage = "done" =>
    Answer = FreeCandidates(busy, duration, reference, Limit)

(* Every pass over the grid ends, however much of it is busy.              *)
SearchEnds == <>(stage \in {"done", "raised"})

(* "Slot grid: weekdays only (Mon-Fri), 09:00-17:00 UTC": no meeting       *)
(* offered ends after 17:00 of the day it starts on.                       *)
MeetingsEndInWorkday ==
  \A i \in DOMAIN found : found[i] + duration <= Midnight(found[i]) + WorkdayEnd

=============================================================================
