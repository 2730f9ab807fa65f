------------------------------- MODULE Calendar -------------------------------
(***************************************************************************)
(* CalendarObject (meshycal/calendar_object.py): the events a user's       *)
(* scheduling agent books into and reads when it answers a proposal.       *)
(*                                                                         *)
(* An instant ("2026-06-01T14:00:00Z" in the code) is a minute number, day *)
(* 0 starting at minute 0.  An event keeps the clock time only ("HH:MM",   *)
(* here 0..1439) and no date: the code projects it on whatever day is      *)
(* asked about.  The field `of' stands for the event's title and           *)
(* attendees; it names the meeting the event was booked for.               *)
(***************************************************************************)
EXTENDS Integers, Sequences

MinutesPerDay == 1440

Instants == Nat
ClockTimes == 0 .. MinutesPerDay - 1

(* Faulty variant: the event keeps the full instant. *)
ClockTimeWithDate(instant) == instant

(* _hhmm_from_iso: the date of the instant is dropped. *)
ClockTime(instant) == instant % MinutesPerDay

Midnight(instant) == instant - ClockTime(instant)

Events(Titles) == [time : ClockTimes, duration : Nat, of : Titles]

Calendars(Titles) == [events : Seq(Events(Titles)), version : Nat]

-----------------------------------------------------------------------------
(* book(): append and bump the version; nothing is checked. *)
Book(cal, time, duration, of) ==
  [events  |-> Append(cal.events,
                      [time |-> time, duration |-> duration, of |-> of]),
   version |-> cal.version + 1]

(* The instant an event starts on the day of `instant'. *)
EventStart(event, instant) == Midnight(instant) + event.time

(* is_busy_at(): does [slot, slot + duration) meet an event of slot's day? *)
BusyAt(events, slot, duration) ==
  \E i \in DOMAIN events :
    /\ EventStart(events[i], slot) < slot + duration
    /\ EventStart(events[i], slot) + events[i].duration > slot

=============================================================================
