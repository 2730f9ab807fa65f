--------------------------- MODULE SlotPickerProofs ---------------------------
(***************************************************************************)
(* The search for free slots, for any calendar, reference time and number  *)
(* of candidates: what it finds is free, and for meetings shorter than a   *)
(* night it finds exactly the first free slots of the week.                *)
(***************************************************************************)
EXTENDS SlotPicker, SequenceTheorems, FiniteSetTheorems, TLAPS

-----------------------------------------------------------------------------
(* Days and clocks *)

(* An instant is its day and its clock time.                               *)
LEMMA Split ==
  ASSUME NEW t \in Nat
  PROVE  /\ t \div Day \in Nat
         /\ Clock(t) \in 0 .. Day - 1
         /\ t = Day * (t \div Day) + Clock(t)
         /\ Midnight(t) = Day * (t \div Day)
         /\ Weekday(t) \in 0 .. 6
BY DEF Day, Clock, Midnight, Weekday

LEMMA Divides ==
  ASSUME NEW q \in Nat, NEW c \in 0 .. Day - 1, NEW t \in Nat, t = Day * q + c
  PROVE  t \div Day = q /\ Clock(t) = c /\ Midnight(t) = Day * q
BY DEF Day, Clock, Midnight

(* The rounded time is on the grid and less than a slot away.              *)
LEMMA Rounds ==
  ASSUME NEW t \in Nat
  PROVE  /\ RoundUp(t) \in Nat
         /\ RoundUp(t) % Granularity = 0
         /\ t <= RoundUp(t) /\ RoundUp(t) < t + Granularity
BY DEF RoundUp, Granularity

(* A later day has a later midnight.                                       *)
LEMMA DaysInOrder ==
  ASSUME NEW t \in Nat, NEW u \in Nat, t <= u
  PROVE  /\ t \div Day <= u \div Day
         /\ t \div Day = u \div Day => Clock(t) <= Clock(u)
BY DEF Day, Clock

(* The next workday begins at 09:00 of a day one to three days later.      *)
LEMMA NextWorkdayBegins ==
  ASSUME NEW t \in Nat
  PROVE  \E days \in 1 .. 3 :
           /\ NextWorkday(t) = Day * ((t \div Day) + days) + WorkdayStart
           /\ days = 3 => Weekday(t) = 4
           /\ days = 2 => Weekday(t) = 5
<1>1. \E days \in 1 .. 3 :
        /\ NextWorkday(t) = Midnight(t) + days * Day + WorkdayStart
        /\ days = 3 => Weekday(t) = 4
        /\ days = 2 => Weekday(t) = 5
  BY Split DEF NextWorkday
<1>2. PICK days \in 1 .. 3 :
        /\ NextWorkday(t) = Midnight(t) + days * Day + WorkdayStart
        /\ days = 3 => Weekday(t) = 4
        /\ days = 2 => Weekday(t) = 5
  BY <1>1
<1>3. Midnight(t) = Day * (t \div Day) /\ t \div Day \in Nat
  BY Split
<1> DEFINE q == t \div Day
<1> HIDE DEF q
<1>4. q \in Nat /\ Midnight(t) = Day * q
  BY <1>3 DEF q
<1>5. Midnight(t) + days * Day = Day * (q + days)
  BY <1>4 DEF Day
<1> QED BY <1>2, <1>5 DEF q

(* The jump to the next workday skips no working time.                     *)
LEMMA SkipsNoWork ==
  ASSUME NEW t \in Nat, IsWeekend(t) \/ Clock(t) >= WorkdayEnd,
         NEW u \in Nat, t <= u, u < NextWorkday(t)
  PROVE  ~ InWorkday(u)
<1> DEFINE q == t \div Day
           r == u \div Day
<1>1. PICK days \in 1 .. 3 :
        /\ NextWorkday(t) = Day * (q + days) + WorkdayStart
        /\ days = 3 => Weekday(t) = 4
        /\ days = 2 => Weekday(t) = 5
  BY NextWorkdayBegins
<1>2. /\ q \in Nat /\ r \in Nat /\ q <= r
      /\ Clock(u) \in 0 .. Day - 1 /\ u = Day * r + Clock(u)
      /\ Weekday(t) = q % 7 /\ Weekday(u) = r % 7
      /\ r = q => Clock(t) <= Clock(u)
      /\ Clock(t) \in 0 .. Day - 1
  BY Split, DaysInOrder DEF Weekday
<1> HIDE DEF q, r
<1> DEFINE v == Clock(u)
           m == r - (q + days)
<1> HIDE DEF v, m
<1>3. r <= q + days /\ (r = q + days => Clock(u) < WorkdayStart)
  <2>1. v \in 0 .. Day - 1 /\ m \in Int /\ r = (q + days) + m
    BY <1>2 DEF v, m
  <2>2. Day * r + v < Day * (q + days) + WorkdayStart
    BY <1>1, <1>2 DEF v
  <2>3. Day * m + v < WorkdayStart
    BY <2>1, <2>2, <1>2 DEF Day, WorkdayStart
  <2>4. m <= 0 /\ (m = 0 => v < WorkdayStart)
    BY <2>1, <2>3 DEF Day, WorkdayStart
  <2> QED BY <2>1, <2>4, <1>2 DEF v
<1>4. CASE r = q
  BY <1>2, <1>4 DEF InWorkday, IsWeekend, WorkdayEnd
<1>5. CASE r = q + days
  BY <1>2, <1>3, <1>5 DEF InWorkday, WorkdayStart
<1>6. CASE q < r /\ r < q + days
  <2>1. r % 7 \in {5, 6}
    BY <1>1, <1>2, <1>6
  <2> QED BY <1>2, <2>1 DEF InWorkday, IsWeekend
<1> QED BY <1>1, <1>2, <1>3, <1>4, <1>5, <1>6

(* Between midnight and 09:00 there is no working time.                    *)
LEMMA MorningIsNoWork ==
  ASSUME NEW t \in Nat, Clock(t) < WorkdayStart,
         NEW u \in Nat, t <= u, u < Midnight(t) + WorkdayStart
  PROVE  ~ InWorkday(u)
<1>1. u \div Day = t \div Day /\ Clock(u) < WorkdayStart
  BY Split DEF Day, WorkdayStart, Clock
<1>2. Clock(u) \in Nat
  BY Split
<1> QED BY <1>1, <1>2 DEF InWorkday, WorkdayStart

(* The slot that the cursor's turn is about (Slot, for any cursor).        *)
SlotFrom(t) == IF Clock(t) < WorkdayStart THEN Midnight(t) + WorkdayStart ELSE t

(* It is a slot of the working week, at the cursor or at 09:00; half an    *)
(* hour later the morning is over.                                         *)
LEMMA SlotsInDay ==
  ASSUME NEW t \in Nat, t % Granularity = 0, ~ IsWeekend(t), Clock(t) < WorkdayEnd
  PROVE  /\ SlotFrom(t) \in Nat /\ t <= SlotFrom(t) /\ InWorkday(SlotFrom(t))
         /\ Clock(SlotFrom(t)) <= WorkdayEnd - Granularity
         /\ Clock(t) >= WorkdayStart => SlotFrom(t) = t
         /\ SlotFrom(t) <= t + WorkdayStart
         /\ (SlotFrom(t) + Granularity) % Granularity = 0
         /\ Clock(SlotFrom(t) + Granularity) >= WorkdayStart
<1> DEFINE q == t \div Day
           c == Clock(t)
           s == SlotFrom(t)
<1>1. /\ q \in Nat /\ c \in 0 .. Day - 1 /\ t = Day * q + c
      /\ Midnight(t) = Day * q /\ c < WorkdayEnd
  BY Split
<1>2. q % 7 < 5
  BY Split DEF IsWeekend, Weekday
<1>3. s = IF c < WorkdayStart THEN Day * q + WorkdayStart ELSE t
  BY <1>1 DEF SlotFrom
<1>4. Clock(t) = c /\ SlotFrom(t) = s
  OBVIOUS
<1> HIDE DEF q, c, s
<1>7. /\ s \in Nat /\ s % Granularity = 0 /\ s \div Day = q
      /\ Clock(s) >= WorkdayStart /\ Clock(s) \in 0 .. Day - 1
      /\ Clock(s) < WorkdayEnd
      /\ t <= s /\ s <= t + WorkdayStart
      /\ c >= WorkdayStart => s = t
  <2>1. CASE c < WorkdayStart
    <3>1. s = Day * q + WorkdayStart
      BY <1>3, <2>1
    <3>2. WorkdayStart \in 0 .. Day - 1
      BY DEF WorkdayStart, Day
    <3>3. s \in Nat /\ s % Granularity = 0
      BY <1>1, <3>1 DEF WorkdayStart, Day, Granularity
    <3>4. s \div Day = q /\ Clock(s) = WorkdayStart
      BY <1>1, <3>1, <3>2, <3>3, Divides
    <3>5. t <= s /\ s <= t + WorkdayStart
      BY <1>1, <2>1, <3>1 DEF WorkdayStart, Day
    <3>6. ~ c >= WorkdayStart
      BY <1>1, <2>1 DEF WorkdayStart, Day
    <3> QED BY <3>2, <3>3, <3>4, <3>5, <3>6 DEF WorkdayStart, WorkdayEnd
  <2>2. CASE ~ c < WorkdayStart
    <3>1. s = t
      BY <1>3, <2>2
    <3>2. c >= WorkdayStart
      BY <1>1, <2>2 DEF WorkdayStart, Day
    <3>3. s \div Day = q /\ Clock(s) = c
      BY <1>1, <3>1, Divides
    <3> QED BY <1>1, <3>1, <3>2, <3>3 DEF WorkdayStart
  <2> QED BY <2>1, <2>2
<1> DEFINE d == Clock(s)
<1>8. s = Day * q + d
  BY <1>7, Split
<1> HIDE DEF d
<1>9. d \in 0 .. Day - 1 /\ d < WorkdayEnd /\ d >= WorkdayStart
  BY <1>7 DEF d
<1>10. d % Granularity = 0
  BY <1>1, <1>7, <1>8, <1>9 DEF Day, Granularity
<1>11. d <= WorkdayEnd - Granularity
  BY <1>9, <1>10 DEF WorkdayEnd, Granularity, Day
<1>12. Clock(s + Granularity) = d + Granularity
  <2>1. d + Granularity \in 0 .. Day - 1 /\ s + Granularity = Day * q + (d + Granularity)
    BY <1>1, <1>7, <1>8, <1>9, <1>11 DEF WorkdayEnd, Granularity, Day
  <2>2. s + Granularity \in Nat
    BY <1>7 DEF Granularity
  <2> QED BY <1>1, <2>1, <2>2, Divides
<1>13. (s + Granularity) % Granularity = 0
  BY <1>7 DEF Granularity
<1>14. InWorkday(s)
  <2>1. ~ IsWeekend(s)
    <3>1. Weekday(s) = q % 7
      BY <1>7 DEF Weekday
    <3> QED BY <1>1, <1>2, <3>1 DEF IsWeekend
  <2> QED BY <1>7, <2>1 DEF InWorkday
<1>15. d + Granularity >= WorkdayStart
  BY <1>9 DEF Granularity, WorkdayStart, Day
<1> QED
  BY <1>4, <1>7, <1>11, <1>12, <1>13, <1>14, <1>15 DEF d

(* A meeting that does not run into the next day ends at the sum.          *)
LEMMA SameDay ==
  ASSUME NEW t \in Nat, NEW length \in Nat, Clock(t) + length < Day
  PROVE  Clock(t + length) = Clock(t) + length
<1> DEFINE q == t \div Day
           c == Clock(t)
<1>1. q \in Nat /\ c \in 0 .. Day - 1 /\ t = Day * q + c
  BY Split
<1>2. c + length < Day
  OBVIOUS
<1> HIDE DEF q, c
<1>3. Day * q \in Nat
  BY <1>1 DEF Day
<1>6. c + length \in 0 .. Day - 1 /\ t + length \in Nat
  <2>1. c \in Nat
    BY <1>1 DEF Day
  <2> QED BY <1>2, <2>1 DEF Day
<1>4. t + length = Day * q + (c + length)
  BY <1>1, <1>3 DEF Day
<1>5. Clock(t + length) = c + length
  BY <1>1, <1>4, <1>6, Divides
<1> QED BY <1>5 DEF c

(* Comparing the end as a time of day is enough for a meeting that is over *)
(* by midnight.                                                            *)
LEMMA EndsInWorkday ==
  ASSUME NEW t \in Nat, NEW length \in Nat, Clock(t) + length < Day
  PROVE  EndsByClock(t, length) <=> t + length <= Midnight(t) + WorkdayEnd
<1>1. Clock(t + length) = Clock(t) + length
  BY SameDay
<1>2. t = Midnight(t) + Clock(t) /\ Midnight(t) \in Nat /\ Clock(t) \in Nat
  <2>1. /\ t \div Day \in Nat /\ Clock(t) \in 0 .. Day - 1
        /\ t = Day * (t \div Day) + Clock(t) /\ Midnight(t) = Day * (t \div Day)
    BY Split
  <2> DEFINE q == t \div Day
             c == Clock(t)
  <2>2. q \in Nat /\ c \in 0 .. Day - 1 /\ t = Day * q + c /\ Midnight(t) = Day * q
    BY <2>1
  <2> HIDE DEF q, c
  <2>3. t = Midnight(t) + c /\ Midnight(t) \in Nat /\ c \in Nat
    BY <2>2 DEF Day
  <2> QED BY <2>3 DEF c
<1> QED BY <1>1, <1>2 DEF EndsByClock, WorkdayEnd

LEMMA GridIsNat == ASSUME NEW from \in Nat PROVE Grid(from) \subseteq Nat
<1>1. /\ RoundUp(from) \div Granularity \in Nat
      /\ (from + Lookahead - 1) \div Granularity \in Nat
  BY Rounds DEF Granularity, Lookahead, Day
<1>2. \A k \in RoundUp(from) \div Granularity ..
                (from + Lookahead - 1) \div Granularity : Granularity * k \in Nat
  <2> DEFINE a == RoundUp(from) \div Granularity
             b == (from + Lookahead - 1) \div Granularity
  <2>1. a \in Nat /\ b \in Nat
    BY <1>1
  <2> HIDE DEF a, b
  <2>2. \A k \in a .. b : Granularity * k \in Nat
    BY <2>1 DEF Granularity
  <2> QED BY <2>2 DEF a, b
<1> QED BY <1>2 DEF Grid

(* The grid is the multiples of half an hour in the window.                *)
LEMMA OnGrid ==
  ASSUME NEW from \in Nat, NEW t \in Nat
  PROVE  t \in Grid(from) <=> /\ t % Granularity = 0
                             /\ RoundUp(from) <= t
                             /\ t < from + Lookahead
<1>1. RoundUp(from) \in Nat /\ RoundUp(from) % Granularity = 0
  BY Rounds
<1>2. \A k \in Nat : t = Granularity * k =>
        /\ t % Granularity = 0
        /\ (k >= RoundUp(from) \div Granularity) <=> RoundUp(from) <= t
        /\ (k <= (from + Lookahead - 1) \div Granularity) <=> t < from + Lookahead
  BY <1>1 DEF Granularity, Lookahead, Day
<1>3. t % Granularity = 0 => t \div Granularity \in Nat /\ t = Granularity * (t \div Granularity)
  BY DEF Granularity
<1>4. /\ RoundUp(from) \div Granularity \in Nat
      /\ (from + Lookahead - 1) \div Granularity \in Nat
  BY <1>1 DEF Granularity, Lookahead, Day
<1> DEFINE a == RoundUp(from) \div Granularity
           b == (from + Lookahead - 1) \div Granularity
<1>5. a \in Nat /\ b \in Nat
      /\ \A k \in Nat : t = Granularity * k =>
           (k \in a .. b <=> RoundUp(from) <= t /\ t < from + Lookahead)
  <2>1. a \in Nat /\ b \in Nat
    BY <1>4
  <2> HIDE DEF a, b
  <2>2. \A k \in Nat : t = Granularity * k =>
          ((k >= a) <=> RoundUp(from) <= t) /\ ((k <= b) <=> t < from + Lookahead)
    BY <1>2 DEF a, b
  <2> QED BY <2>1, <2>2
<1>6. t \in Grid(from) <=> \E k \in a .. b : t = Granularity * k
  BY DEF Grid
<1> HIDE DEF a, b
<1>7. \A k \in a .. b : k \in Nat
  BY <1>5
<1> QED BY <1>2, <1>3, <1>5, <1>6, <1>7

-----------------------------------------------------------------------------
(* The search *)

(* A slot the search may take.                                             *)
Candidate(slot) ==
  /\ slot \in Nat
  /\ RoundUp(reference) <= slot
  /\ slot < EndOfWindow
  /\ InWorkday(slot)
  /\ Clock(slot) <= WorkdayEnd - Granularity
  /\ EndsByClock(slot, duration)
  /\ IsClear(slot, busy, duration)

CursorOnGrid ==
  /\ cursor % Granularity = 0
  /\ RoundUp(reference) <= cursor
  /\ Clock(cursor) < WorkdayStart => cursor = RoundUp(reference)

FoundAreCandidates ==
  /\ \A i \in 1 .. Len(found) : Candidate(found[i]) /\ found[i] < cursor
  /\ \A i, j \in 1 .. Len(found) : i < j => found[i] < found[j]

EndsAtLimit ==
  /\ Len(found) <= Limit
  /\ stage \in {"start", "search"} => Len(found) < Limit
  /\ stage = "done" => Len(found) = Limit \/ cursor >= EndOfWindow

(* Every free slot behind the cursor has been found.                       *)
NothingSkipped ==
  \A t \in Nat :
    /\ RoundUp(reference) <= t
    /\ t < cursor
    /\ IsProper(t, busy, duration)
    => \E i \in 1 .. Len(found) : found[i] = t

IInv ==
  /\ TypeOK
  /\ CursorOnGrid
  /\ FoundAreCandidates
  /\ EndsAtLimit
  /\ NothingSkipped

USE PickerAssumption

LEMMA InitIInv == Init => IInv
<1> SUFFICES ASSUME Init PROVE IInv
  OBVIOUS
<1>1. reference \in Nat /\ Limit \in Nat \ {0} /\ Len(found) = 0
  BY DEF Init
<1>2. /\ RoundUp(reference) \in Nat /\ RoundUp(reference) % Granularity = 0
  BY <1>1, Rounds
<1>3. TypeOK
  BY <1>2 DEF Init, TypeOK
<1>4. CursorOnGrid
  BY <1>2 DEF Init, CursorOnGrid
<1>5. FoundAreCandidates /\ EndsAtLimit
  BY <1>1 DEF Init, FoundAreCandidates, EndsAtLimit
<1>6. NothingSkipped
  BY <1>2 DEF Init, NothingSkipped
<1> QED BY <1>3, <1>4, <1>5, <1>6 DEF IInv

(* The slot of the cursor's turn.                                          *)
LEMMA SlotIsCandidate ==
  ASSUME IInv, Yields
  PROVE  /\ Slot \in Nat /\ cursor <= Slot /\ Slot < EndOfWindow /\ InWorkday(Slot)
         /\ Clock(Slot) <= WorkdayEnd - Granularity
         /\ (Slot + Granularity) % Granularity = 0
         /\ Clock(Slot + Granularity) >= WorkdayStart
<1>1. /\ cursor \in Nat /\ cursor % Granularity = 0 /\ reference \in Nat
      /\ ~ IsWeekend(cursor) /\ Clock(cursor) < WorkdayEnd /\ cursor < EndOfWindow
  BY DEF IInv, TypeOK, CursorOnGrid, Yields
<1>2. Slot = SlotFrom(cursor)
  BY DEF Slot, SlotFrom
<1>3. /\ Slot \in Nat /\ cursor <= Slot /\ InWorkday(Slot)
      /\ Clock(Slot) <= WorkdayEnd - Granularity
      /\ Clock(cursor) >= WorkdayStart => Slot = cursor
      /\ Slot <= cursor + WorkdayStart
      /\ (Slot + Granularity) % Granularity = 0
      /\ Clock(Slot + Granularity) >= WorkdayStart
  BY <1>1, <1>2, SlotsInDay
<1>4. Slot < EndOfWindow
  <2>1. CASE Clock(cursor) >= WorkdayStart
    BY <1>1, <1>3, <2>1
  <2>2. CASE Clock(cursor) < WorkdayStart
    <3>1. cursor = RoundUp(reference) /\ cursor < reference + Granularity
      BY <1>1, <2>2, Rounds DEF IInv, CursorOnGrid
    <3> QED BY <1>1, <1>3, <3>1
        DEF EndOfWindow, Lookahead, WorkdayStart, Granularity, Day
  <2>3. Clock(cursor) \in Nat
    BY <1>1, Split
  <2> QED BY <2>1, <2>2, <2>3 DEF WorkdayStart
<1> QED BY <1>3, <1>4

(* Between the cursor and half an hour after its slot, only the slot can   *)
(* be working time.                                                        *)
LEMMA OnlySlot ==
  ASSUME IInv, Yields, NEW t \in Nat, cursor <= t, t < Slot + Granularity, InWorkday(t)
  PROVE  t = Slot
<1>1. /\ cursor \in Nat /\ Slot \in Nat /\ cursor <= Slot /\ InWorkday(Slot)
  BY SlotIsCandidate DEF IInv, TypeOK
<1>2. ~ t < Slot
  <2> SUFFICES ASSUME t < Slot PROVE FALSE
    OBVIOUS
  <2>1. CASE Clock(cursor) < WorkdayStart
    <3>1. Slot = Midnight(cursor) + WorkdayStart
      BY <2>1 DEF Slot
    <3> QED BY <1>1, <2>1, <3>1, MorningIsNoWork
  <2>2. CASE ~ Clock(cursor) < WorkdayStart
    BY <1>1, <2>2 DEF Slot
  <2> QED BY <2>1, <2>2
<1>3. t % Granularity = 0 /\ Slot % Granularity = 0
  BY <1>1 DEF InWorkday
<1> DEFINE s == Slot
<1>4. s \in Nat /\ ~ t < s /\ t < s + Granularity /\ s % Granularity = 0
  BY <1>1, <1>2, <1>3
<1> HIDE DEF s
<1>5. t = s
  BY <1>3, <1>4 DEF Granularity
<1> QED BY <1>5 DEF s

(* The search's step over the slot: only the slot may have to be added.    *)
LEMMA StepsOverSlot ==
  ASSUME IInv, Yields, cursor' = Slot + Granularity, UNCHANGED arguments,
         \A i \in 1 .. Len(found) : \E j \in 1 .. Len(found') : found'[j] = found[i],
         IsProper(Slot, busy, duration) => \E i \in 1 .. Len(found') : found'[i] = Slot
  PROVE  CursorOnGrid' /\ NothingSkipped' /\ cursor' \in Nat
<1>1. /\ Slot \in Nat /\ cursor <= Slot
      /\ (Slot + Granularity) % Granularity = 0
      /\ Clock(Slot + Granularity) >= WorkdayStart
      /\ cursor \in Nat /\ reference \in Nat /\ RoundUp(reference) <= cursor
  BY SlotIsCandidate DEF IInv, TypeOK, CursorOnGrid
<1>2. RoundUp(reference) \in Nat /\ Clock(Slot + Granularity) \in Nat
  BY <1>1, Rounds, Split DEF Granularity
<1>3. cursor' \in Nat /\ cursor < cursor'
  BY <1>1 DEF Granularity
<1>4. CursorOnGrid'
  <2>1. ~ Clock(Slot + Granularity) < WorkdayStart
    BY <1>1, <1>2 DEF WorkdayStart
  <2>2. RoundUp(reference) <= cursor'
    BY <1>1, <1>2, <1>3
  <2> QED BY <1>1, <2>1, <2>2 DEF CursorOnGrid, arguments
<1>5. NothingSkipped'
  <2> SUFFICES ASSUME NEW t \in Nat, RoundUp(reference) <= t, t < cursor',
                      IsProper(t, busy, duration)
               PROVE  \E i \in 1 .. Len(found') : found'[i] = t
    BY DEF NothingSkipped, arguments
  <2>1. CASE t < cursor
    BY <2>1 DEF IInv, NothingSkipped
  <2>2. CASE ~ t < cursor
    <3>1. cursor <= t /\ InWorkday(t)
      BY <1>1, <2>2 DEF IsProper
    <3>2. t = Slot
      BY <3>1, OnlySlot
    <3> QED BY <3>2
  <2> QED BY <2>1, <2>2
<1> QED BY <1>3, <1>4, <1>5

(* A proper slot passes the two tests of find_free_candidates.             *)
LEMMA ProperPasses ==
  ASSUME IInv, NEW slot \in Nat, IsProper(slot, busy, duration)
  PROVE  EndsByClock(slot, duration) /\ IsFree(slot, busy, duration)
<1>1. duration \in Nat
  BY DEF IInv, TypeOK
<1>2. \A block \in busy : block[1] \in Nat /\ block[2] \in Nat
  BY DEF IInv, TypeOK
<1>3. IsFree(slot, busy, duration)
  <2>1. \A block \in busy : ~ (slot < block[2] /\ block[1] < slot + duration)
    BY <1>1, <1>2 DEF IsProper, IsClear
  <2> QED BY <2>1 DEF IsFree, OverlapsAny
<1>4. Clock(slot) + duration < Day
  <2>1. /\ slot \div Day \in Nat /\ Clock(slot) \in 0 .. Day - 1
        /\ slot = Day * (slot \div Day) + Clock(slot)
        /\ Midnight(slot) = Day * (slot \div Day)
    BY Split
  <2> DEFINE q == slot \div Day
             c == Clock(slot)
  <2>2. /\ q \in Nat /\ c \in 0 .. Day - 1 /\ slot = Day * q + c
        /\ Midnight(slot) = Day * q
    BY <2>1
  <2> HIDE DEF q, c
  <2>3. Day * q + c + duration <= Day * q + WorkdayEnd
    BY <2>2 DEF IsProper
  <2>4. c + duration < Day
    BY <1>1, <2>2, <2>3 DEF Day, WorkdayEnd
  <2> QED BY <2>4 DEF c
<1> QED BY <1>1, <1>3, <1>4, EndsInWorkday DEF IsProper

(* What the search takes is clear.                                         *)
LEMMA FreeIsClear ==
  ASSUME IInv, NEW slot \in Nat, IsFree(slot, busy, duration)
  PROVE  IsClear(slot, busy, duration)
<1>1. duration \in Nat /\ \A block \in busy : block[1] \in Nat /\ block[2] \in Nat
  BY DEF IInv, TypeOK
<1>2. \A block \in busy : ~ (slot < block[2] /\ block[1] < slot + duration)
  BY DEF IsFree, OverlapsAny
<1> QED BY <1>1, <1>2 DEF IsClear

-----------------------------------------------------------------------------
(* The invariant *)

LEMMA SkipPreserves == IInv /\ SkipToWorkday => IInv'
<1> SUFFICES ASSUME IInv, SkipToWorkday PROVE IInv'
  OBVIOUS
<1>1. /\ cursor \in Nat /\ reference \in Nat /\ RoundUp(reference) \in Nat
      /\ RoundUp(reference) <= cursor
  BY Rounds DEF IInv, TypeOK, CursorOnGrid
<1>2. PICK days \in 1 .. 3 :
        NextWorkday(cursor) = Day * ((cursor \div Day) + days) + WorkdayStart
  BY <1>1, NextWorkdayBegins
<1>3. /\ cursor \div Day \in Nat /\ Clock(cursor) \in 0 .. Day - 1
      /\ cursor = Day * (cursor \div Day) + Clock(cursor)
  BY <1>1, Split
<1> DEFINE q == (cursor \div Day) + days
           c == Clock(cursor)
           next == NextWorkday(cursor)
<1>4. q \in Nat /\ next = Day * q + WorkdayStart /\ next \in Nat /\ cursor < next
  <2> DEFINE p == cursor \div Day
  <2>1. p \in Nat /\ c \in 0 .. Day - 1 /\ cursor = Day * p + c /\ q = p + days
        /\ next = Day * q + WorkdayStart
    BY <1>2, <1>3
  <2> HIDE DEF p, q, c, next
  <2> QED BY <2>1 DEF Day, WorkdayStart
<1> HIDE DEF q
<1>5. next % Granularity = 0 /\ Clock(next) = WorkdayStart
  <2> HIDE DEF next
  <2>1. next % Granularity = 0
    BY <1>4 DEF Day, WorkdayStart, Granularity
  <2>2. WorkdayStart \in 0 .. Day - 1
    BY DEF WorkdayStart, Day
  <2> QED BY <1>4, <2>1, <2>2, Divides
<1>6. /\ cursor' = next /\ UNCHANGED <<arguments, stage, found>>
      /\ stage = "search" /\ cursor < EndOfWindow
      /\ IsWeekend(cursor) \/ Clock(cursor) >= WorkdayEnd
  BY DEF SkipToWorkday
<1>7. TypeOK'
  BY <1>4, <1>6 DEF IInv, TypeOK, arguments
<1>8. CursorOnGrid'
  <2>1. RoundUp(reference) <= next /\ ~ Clock(next) < WorkdayStart
    BY <1>1, <1>4, <1>5 DEF WorkdayStart
  <2> QED BY <1>5, <1>6, <2>1 DEF CursorOnGrid, arguments
<1>9. FoundAreCandidates'
  <2>1. \A i \in 1 .. Len(found) : found[i] < next
    BY <1>1, <1>4 DEF IInv, FoundAreCandidates, Candidate
  <2> QED BY <1>6, <2>1
      DEF IInv, FoundAreCandidates, Candidate, EndOfWindow, arguments
<1>10. EndsAtLimit'
  BY <1>6 DEF IInv, EndsAtLimit
<1>11. NothingSkipped'
  <2> SUFFICES ASSUME NEW t \in Nat, RoundUp(reference) <= t, t < next,
                      IsProper(t, busy, duration)
               PROVE  \E i \in 1 .. Len(found) : found[i] = t
    BY <1>6 DEF NothingSkipped, arguments
  <2>1. t < cursor
    <3> SUFFICES ASSUME ~ t < cursor PROVE FALSE
      OBVIOUS
    <3>1. cursor <= t
      BY <1>1
    <3>2. ~ InWorkday(t)
      BY <1>1, <1>6, <3>1, SkipsNoWork
    <3> QED BY <3>2 DEF IsProper
  <2> QED BY <2>1 DEF IInv, NothingSkipped
<1> QED BY <1>7, <1>8, <1>9, <1>10, <1>11 DEF IInv

LEMMA PassPreserves == IInv /\ Pass => IInv'
<1> SUFFICES ASSUME IInv, Pass PROVE IInv'
  OBVIOUS
<1>1. Yields /\ cursor' = Slot + Granularity /\ UNCHANGED <<arguments, stage, found>>
  BY DEF Pass
<1>2. Slot \in Nat /\ cursor <= Slot /\ cursor \in Nat /\ cursor < cursor'
  BY <1>1, SlotIsCandidate DEF IInv, TypeOK, Granularity
<1>3. ~ IsProper(Slot, busy, duration)
  BY <1>2, ProperPasses DEF Pass
<1>4. CursorOnGrid' /\ NothingSkipped' /\ cursor' \in Nat
  BY <1>1, <1>3, StepsOverSlot
<1>5. TypeOK'
  BY <1>1, <1>4 DEF IInv, TypeOK, arguments
<1>6. FoundAreCandidates'
  <2>1. \A i \in 1 .. Len(found) : found[i] < cursor'
    BY <1>2, <1>4 DEF IInv, FoundAreCandidates, Candidate
  <2> QED BY <1>1, <2>1
      DEF IInv, FoundAreCandidates, Candidate, EndOfWindow, arguments
<1>7. EndsAtLimit'
  BY <1>1 DEF IInv, EndsAtLimit, Yields
<1> QED BY <1>4, <1>5, <1>6, <1>7 DEF IInv

LEMMA TakePreserves == IInv /\ Take => IInv'
<1> SUFFICES ASSUME IInv, Take PROVE IInv'
  OBVIOUS
<1>1. /\ Yields /\ cursor' = Slot + Granularity /\ UNCHANGED arguments
      /\ EndsByClock(Slot, duration) /\ IsFree(Slot, busy, duration)
      /\ found' = Append(found, Slot)
      /\ stage' = IF Len(found') >= Limit THEN "done" ELSE stage
      /\ stage = "search"
  BY DEF Take, Yields
<1>2. /\ Slot \in Nat /\ cursor <= Slot /\ cursor \in Nat /\ Slot < cursor'
      /\ cursor < cursor' /\ Slot < EndOfWindow /\ InWorkday(Slot)
      /\ Clock(Slot) <= WorkdayEnd - Granularity
  BY <1>1, SlotIsCandidate DEF IInv, TypeOK, Granularity
<1> DEFINE n == Len(found)
<1>3. /\ n \in Nat /\ n < Limit /\ Limit \in Nat
      /\ found' \in Seq(Nat) /\ Len(found') = n + 1
      /\ \A i \in 1 .. n : found'[i] = found[i]
      /\ found'[n + 1] = Slot
  <2>1. found \in Seq(Nat) /\ n < Limit
    BY <1>1 DEF IInv, TypeOK, EndsAtLimit
  <2> QED BY <1>1, <1>2, <2>1, AppendProperties, LenProperties
<1> HIDE DEF n
<1>4. \A i \in 1 .. n + 1 : i \in 1 .. n \/ i = n + 1
  BY <1>3
<1>5. CursorOnGrid' /\ NothingSkipped' /\ cursor' \in Nat
  <2>1. \A i \in 1 .. Len(found) : \E j \in 1 .. Len(found') : found'[j] = found[i]
    BY <1>3 DEF n
  <2>2. \E i \in 1 .. Len(found') : found'[i] = Slot
    BY <1>3
  <2> QED BY <1>1, <2>1, <2>2, StepsOverSlot
<1>6. TypeOK'
  BY <1>1, <1>3, <1>5 DEF IInv, TypeOK, arguments
<1>7. Candidate(Slot)
  <2>1. IsClear(Slot, busy, duration)
    BY <1>1, <1>2, FreeIsClear
  <2>2. RoundUp(reference) <= Slot
    <3>1. reference \in Nat /\ RoundUp(reference) <= cursor
      BY DEF IInv, TypeOK, CursorOnGrid
    <3> QED BY <1>2, <3>1, Rounds
  <2> QED BY <1>1, <1>2, <2>1, <2>2 DEF Candidate
<1>8. \A i \in 1 .. n : Candidate(found[i]) /\ found[i] < cursor /\ found[i] \in Nat
  BY DEF IInv, FoundAreCandidates, Candidate, n
<1>9. \A i \in 1 .. n + 1 : Candidate(found'[i]) /\ found'[i] < cursor'
  <2> SUFFICES ASSUME NEW i \in 1 .. n + 1
               PROVE  Candidate(found'[i]) /\ found'[i] < cursor'
    OBVIOUS
  <2>1. CASE i \in 1 .. n
    <3>1. found'[i] = found[i]
      BY <1>3, <2>1
    <3>2. found[i] < cursor'
      BY <1>2, <1>5, <1>8, <2>1
    <3> QED BY <1>8, <2>1, <3>1, <3>2
  <2>2. CASE i = n + 1
    BY <1>2, <1>3, <1>7, <2>2
  <2> QED BY <1>4, <2>1, <2>2
<1>10. \A i, j \in 1 .. n + 1 : i < j => found'[i] < found'[j]
  <2> SUFFICES ASSUME NEW i \in 1 .. n + 1, NEW j \in 1 .. n + 1, i < j
               PROVE  found'[i] < found'[j]
    OBVIOUS
  <2>1. i \in 1 .. n
    BY <1>3
  <2>2. CASE j \in 1 .. n
    <3>1. found[i] < found[j]
      BY <2>1, <2>2 DEF IInv, FoundAreCandidates, n
    <3> QED BY <1>3, <2>1, <2>2, <3>1
  <2>3. CASE j = n + 1
    <3>1. found[i] < Slot
      BY <1>2, <1>8, <2>1
    <3> QED BY <1>3, <2>1, <2>3, <3>1
  <2> QED BY <1>4, <2>2, <2>3
<1>11. FoundAreCandidates'
  BY <1>1, <1>3, <1>9, <1>10
     DEF FoundAreCandidates, Candidate, EndOfWindow, arguments
<1>12. EndsAtLimit'
  BY <1>1, <1>3 DEF EndsAtLimit
<1> QED BY <1>5, <1>6, <1>11, <1>12 DEF IInv

(* The invariant is inductive.                                             *)
LEMMA NextPreserves == IInv /\ [Next]_vars => IInv'
<1> SUFFICES ASSUME IInv, [Next]_vars PROVE IInv'
  OBVIOUS
<1>1. CASE ParseBusy
  <2>1. UNCHANGED <<arguments, cursor, found>> /\ stage' \in {"search", "raised"}
        /\ stage = "start"
    BY <1>1 DEF ParseBusy
  <2>2. TypeOK'
    BY <2>1 DEF IInv, TypeOK, arguments
  <2>3. CursorOnGrid' /\ FoundAreCandidates' /\ NothingSkipped'
    BY <2>1 DEF IInv, CursorOnGrid, FoundAreCandidates, NothingSkipped, Candidate,
                EndOfWindow, arguments
  <2>4. EndsAtLimit'
    BY <2>1 DEF IInv, EndsAtLimit
  <2> QED BY <2>2, <2>3, <2>4 DEF IInv
<1>2. CASE SkipToWorkday
  BY <1>2, SkipPreserves
<1>3. CASE Take
  BY <1>3, TakePreserves
<1>4. CASE Pass
  BY <1>4, PassPreserves
<1>5. CASE Exhaust
  <2>1. /\ UNCHANGED <<arguments, cursor, found>> /\ stage' = "done"
        /\ cursor >= EndOfWindow /\ stage = "search"
    BY <1>5 DEF Exhaust
  <2>2. TypeOK'
    BY <2>1 DEF IInv, TypeOK, arguments
  <2>3. CursorOnGrid' /\ FoundAreCandidates' /\ NothingSkipped'
    BY <2>1 DEF IInv, CursorOnGrid, FoundAreCandidates, NothingSkipped, Candidate,
                EndOfWindow, arguments
  <2>4. EndsAtLimit'
    BY <2>1 DEF IInv, EndsAtLimit, EndOfWindow, arguments
  <2> QED BY <2>2, <2>3, <2>4 DEF IInv
<1>6. CASE UNCHANGED vars
  BY <1>6 DEF IInv, TypeOK, CursorOnGrid, FoundAreCandidates, NothingSkipped,
              EndsAtLimit, Candidate, EndOfWindow, vars
<1> QED BY <1>1, <1>2, <1>3, <1>4, <1>5, <1>6 DEF Next

(* Every pass over the grid keeps to it, for any calendar and duration.    *)
THEOREM SearchInvariant == Spec => []IInv
BY InitIInv, NextPreserves, PTL DEF Spec

(* The values always have their shapes (find_free_candidates's locals).    *)
THEOREM TypeCorrect == Spec => []TypeOK
<1>1. IInv => TypeOK
  BY DEF IInv
<1> QED BY <1>1, SearchInvariant, PTL

(* What find_free_candidates has collected is never more than asked for,   *)
(* in order, on the working-hour grid, in the window and clear of every    *)
(* busy block, for meetings of any length.                                 *)
THEOREM FoundSlotsAreFree == Spec => []FoundAreFree
<1>1. IInv => FoundAreFree
  <2> SUFFICES ASSUME IInv PROVE FoundAreFree
    OBVIOUS
  <2>1. DOMAIN found = 1 .. Len(found)
    BY LenProperties DEF IInv, TypeOK
  <2>2. \A i \in 1 .. Len(found) : reference <= found[i]
    <3> SUFFICES ASSUME NEW i \in 1 .. Len(found) PROVE reference <= found[i]
      OBVIOUS
    <3>1. /\ reference \in Nat /\ found[i] \in Nat /\ RoundUp(reference) <= found[i]
      BY DEF IInv, TypeOK, FoundAreCandidates, Candidate
    <3>2. RoundUp(reference) \in Nat /\ reference <= RoundUp(reference)
      BY <3>1, Rounds
    <3> QED BY <3>1, <3>2
  <2> QED BY <2>1, <2>2
      DEF IInv, FoundAreFree, FoundAreCandidates, EndsAtLimit, Candidate
<1> QED BY <1>1, SearchInvariant, PTL

-----------------------------------------------------------------------------
(* Meetings shorter than a night *)

(* Every duration is below Long: a meeting that starts by 16:30 then ends   *)
(* before the next midnight, and its end's time of day does not wrap.      *)
Short == \A length \in Durations : length < Long

(* What has been found is free in the docstring's sense.                   *)
LEMMA FoundAreProper ==
  ASSUME Short, IInv, NEW i \in 1 .. Len(found)
  PROVE  /\ found[i] \in Grid(reference)
         /\ IsProper(found[i], busy, duration)
<1>1. /\ duration \in Nat /\ duration < Long /\ reference \in Nat
      /\ Candidate(found[i])
  BY DEF Short, IInv, TypeOK, FoundAreCandidates
<1> DEFINE slot == found[i]
           c == Clock(slot)
<1>2. slot \in Nat /\ c \in Nat /\ c <= WorkdayEnd - Granularity /\ InWorkday(slot)
  <2>1. slot \in Nat /\ c <= WorkdayEnd - Granularity /\ InWorkday(slot)
    BY <1>1 DEF Candidate
  <2>2. c \in 0 .. Day - 1
    BY <2>1, Split
  <2> HIDE DEF c, slot
  <2> QED BY <2>1, <2>2
<1>3. Clock(slot) + duration < Day
  <2> HIDE DEF c
  <2>1. c + duration < Day
    BY <1>1, <1>2 DEF Long, Day, WorkdayEnd, Granularity
  <2> QED BY <2>1 DEF c
<1>4. slot + duration <= Midnight(slot) + WorkdayEnd
  BY <1>1, <1>2, <1>3, EndsInWorkday DEF Candidate
<1>5. slot \in Grid(reference)
  BY <1>1, <1>2, OnGrid DEF Candidate, InWorkday, EndOfWindow
<1> QED BY <1>1, <1>4, <1>5 DEF Candidate, IsProper

(* The first slots found are as many as their indices.                     *)
LEMMA FoundAreDistinct ==
  ASSUME IInv, NEW n \in 0 .. Len(found)
  PROVE  LET first == {found[j] : j \in 1 .. n}
         IN  IsFiniteSet(first) /\ Cardinality(first) = n
<1> DEFINE first == {found[j] : j \in 1 .. n}
           f == [j \in 1 .. n |-> found[j]]
<1>1. Len(found) \in Nat /\ n \in Nat /\ \A j \in 1 .. n : j \in 1 .. Len(found)
  BY LenProperties DEF IInv, TypeOK
<1>2. IsFiniteSet(1 .. n) /\ Cardinality(1 .. n) = n
  <2>1. /\ IsFiniteSet(1 .. n)
        /\ Cardinality(1 .. n) = IF 1 > n THEN 0 ELSE n - 1 + 1
    BY <1>1, FS_Interval
  <2> QED BY <1>1, <2>1
<1>3. f \in Surjection(1 .. n, first)
  BY DEF Surjection
<1>4. \A j, k \in 1 .. n : found[j] = found[k] => j = k
  <2> SUFFICES ASSUME NEW j \in 1 .. n, NEW k \in 1 .. n, found[j] = found[k], j < k
               PROVE  FALSE
    BY <1>1
  <2>1. found[j] < found[k] /\ found[j] \in Nat /\ found[k] \in Nat
    BY <1>1 DEF IInv, FoundAreCandidates, Candidate
  <2> QED BY <2>1
<1>5. f \in Injection(1 .. n, first)
  BY <1>4 DEF Injection, IsInjective
<1> HIDE DEF f, first
<1>6. IsFiniteSet(first) /\ Cardinality(first) = n
  BY <1>2, <1>3, <1>5, FS_Surjection
<1> QED BY <1>6 DEF first

(* The slots found before one of them are its predecessors among all free  *)
(* slots, so that there are as many as its position says.                  *)
LEMMA Predecessors ==
  ASSUME Short, IInv, NEW i \in 1 .. Len(found)
  PROVE  Cardinality({t \in Grid(reference) :
                        IsProper(t, busy, duration) /\ t < found[i]}) < Limit
<1> DEFINE earlier == {t \in Grid(reference) :
                         IsProper(t, busy, duration) /\ t < found[i]}
           image == {found[j] : j \in 1 .. (i - 1)}
<1>1. /\ Len(found) \in Nat /\ Len(found) <= Limit /\ Limit \in Nat /\ i \in Nat
      /\ reference \in Nat /\ cursor \in Nat
  BY LenProperties DEF IInv, TypeOK, EndsAtLimit
<1>2. found[i] \in Nat /\ found[i] < cursor
  BY DEF IInv, FoundAreCandidates, Candidate
<1>3. earlier \subseteq image
  <2> SUFFICES ASSUME NEW t \in earlier PROVE t \in image
    OBVIOUS
  <2>1. t \in Nat
    BY <1>1, GridIsNat
  <2>2. RoundUp(reference) <= t /\ t < cursor
    BY <1>1, <1>2, <2>1, OnGrid
  <2>3. PICK j \in 1 .. Len(found) : found[j] = t
    BY <2>1, <2>2 DEF IInv, NothingSkipped
  <2>4. j < i
    <3> SUFFICES ASSUME ~ j < i PROVE FALSE
      OBVIOUS
    <3>1. i < j \/ i = j
      BY <1>1
    <3>2. i < j => found[i] < found[j]
      BY DEF IInv, FoundAreCandidates
    <3> QED BY <1>2, <2>1, <2>3, <3>1, <3>2
  <2> QED BY <1>1, <2>3, <2>4
<1>4. IsFiniteSet(image) /\ Cardinality(image) = i - 1
  <2>1. i - 1 \in 0 .. Len(found)
    BY <1>1
  <2> QED BY <2>1, FoundAreDistinct
<1>5. Cardinality(earlier) <= Cardinality(image) /\ Cardinality(earlier) \in Nat
  BY <1>3, <1>4, FS_Subset, FS_CardinalityType
<1> HIDE DEF earlier, image
<1>6. Cardinality(earlier) < Limit
  BY <1>1, <1>4, <1>5
<1> QED BY <1>6 DEF earlier

(* When the search has stopped at the limit, as many free slots lie before *)
(* any that it has not found.                                              *)
LEMMA OthersAreLater ==
  ASSUME Short, IInv, stage = "done",
         NEW slot \in Grid(reference), IsProper(slot, busy, duration), slot \notin Answer
  PROVE  ~ (Cardinality({t \in Grid(reference) :
                           IsProper(t, busy, duration) /\ t < slot}) < Limit)
<1> DEFINE earlier == {t \in Grid(reference) : IsProper(t, busy, duration) /\ t < slot}
           all == {found[j] : j \in 1 .. Len(found)}
<1>1. /\ Len(found) \in Nat /\ Limit \in Nat /\ reference \in Nat /\ cursor \in Nat
      /\ DOMAIN found = 1 .. Len(found)
  BY LenProperties DEF IInv, TypeOK
<1>2. /\ slot \in Nat /\ RoundUp(reference) <= slot /\ slot < EndOfWindow
      /\ EndOfWindow \in Nat
  <2>1. slot \in Nat
    BY <1>1, GridIsNat
  <2> QED BY <1>1, <2>1, OnGrid DEF EndOfWindow, Lookahead, Day
<1>3. cursor <= slot
  <2>1. slot < cursor => \E i \in 1 .. Len(found) : found[i] = slot
    BY <1>2 DEF IInv, NothingSkipped
  <2>2. ~ slot < cursor
    BY <1>1, <2>1 DEF Answer
  <2> QED BY <1>1, <1>2, <2>2
<1>4. Len(found) = Limit
  <2>1. ~ cursor >= EndOfWindow
    BY <1>1, <1>2, <1>3
  <2> QED BY <2>1 DEF IInv, EndsAtLimit
<1>5. IsFiniteSet(all) /\ Cardinality(all) = Limit
  <2>1. Len(found) \in 0 .. Len(found)
    BY <1>1
  <2> QED BY <1>4, <2>1, FoundAreDistinct
<1>6. all \subseteq earlier
  <2> SUFFICES ASSUME NEW j \in 1 .. Len(found) PROVE found[j] \in earlier
    OBVIOUS
  <2>1. found[j] \in Grid(reference) /\ IsProper(found[j], busy, duration)
    BY FoundAreProper
  <2>2. found[j] < cursor /\ found[j] \in Nat
    BY DEF IInv, FoundAreCandidates, Candidate
  <2> QED BY <1>1, <1>2, <1>3, <2>1, <2>2
<1>7. IsFiniteSet(earlier)
  <2>1. earlier \in SUBSET Nat /\ \A t \in earlier : t <= slot
    BY <1>1, <1>2, GridIsNat
  <2> HIDE DEF earlier
  <2> QED BY <1>2, <2>1, FS_BoundedSetOfNaturals
<1>8. Cardinality(all) <= Cardinality(earlier) /\ Cardinality(earlier) \in Nat
  BY <1>6, <1>7, FS_Subset, FS_CardinalityType
<1> HIDE DEF earlier, all
<1>9. ~ (Cardinality(earlier) < Limit)
  BY <1>1, <1>5, <1>8
<1> QED BY <1>9 DEF earlier

(* For meetings shorter than the night, what find_free_candidates returns  *)
(* is exactly the first free slots of the seven days.                      *)
THEOREM AnswerIsExact ==
  ASSUME Short
  PROVE  Spec => []AnswerIsFirstFree
<1>1. IInv => AnswerIsFirstFree
  <2> SUFFICES ASSUME IInv, stage = "done"
               PROVE  Answer = FreeCandidates(busy, duration, reference, Limit)
    BY DEF AnswerIsFirstFree
  <2> DEFINE before(slot) == {t \in Grid(reference) :
                                IsProper(t, busy, duration) /\ t < slot}
  <2>1. FreeCandidates(busy, duration, reference, Limit) =
          {t \in Grid(reference) : IsProper(t, busy, duration)
                                  /\ Cardinality(before(t)) < Limit}
    <3> DEFINE free == {t \in Grid(reference) : IsProper(t, busy, duration)}
    <3>1. \A t : {earlier \in free : earlier < t} = before(t)
      OBVIOUS
    <3>2. FreeCandidates(busy, duration, reference, Limit) =
            {t \in free : Cardinality({earlier \in free : earlier < t}) < Limit}
      BY DEF FreeCandidates
    <3>3. FreeCandidates(busy, duration, reference, Limit) =
            {t \in free : Cardinality(before(t)) < Limit}
      BY <3>1, <3>2
    <3> QED BY <3>3
  <2>2. DOMAIN found = 1 .. Len(found)
    BY LenProperties DEF IInv, TypeOK
  <2>3. \A i \in 1 .. Len(found) :
          found[i] \in FreeCandidates(busy, duration, reference, Limit)
    BY <2>1, FoundAreProper, Predecessors
  <2>4. \A slot \in FreeCandidates(busy, duration, reference, Limit) : slot \in Answer
    BY <2>1, OthersAreLater
  <2> QED BY <2>2, <2>3, <2>4 DEF Answer
<1> QED BY <1>1, SearchInvariant, PTL

(* For meetings shorter than the night, none ends after 17:00 of its day,  *)
(* although find_free_candidates compares times of day only.               *)
THEOREM ShortMeetingsEndInWorkday ==
  ASSUME Short
  PROVE  Spec => []MeetingsEndInWorkday
<1>1. IInv => MeetingsEndInWorkday
  <2> SUFFICES ASSUME IInv, NEW i \in DOMAIN found
               PROVE  found[i] + duration <= Midnight(found[i]) + WorkdayEnd
    BY DEF MeetingsEndInWorkday
  <2>1. DOMAIN found = 1 .. Len(found)
    BY LenProperties DEF IInv, TypeOK
  <2> QED BY <2>1, FoundAreProper DEF IsProper
<1> QED BY <1>1, SearchInvariant, PTL

=============================================================================
