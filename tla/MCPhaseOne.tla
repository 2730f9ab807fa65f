----------------------------- MODULE MCPhaseOne -----------------------------
(***************************************************************************)
(* A run on a Wednesday at 08:07.  Generated calendars with their blocks   *)
(* at 9, at 10 or at changing hours, and the calendars of the tests: a     *)
(* morning that is full, all but one slot of the week, the whole week.     *)
(***************************************************************************)
EXTENDS PhaseOne, TLC

At(day, hour, minute) == day * Day + hour * 60 + minute

MCReference == At(2, 8, 7)
MCChoices == {[d \in 0 .. 6 |-> 9],
              [d \in 0 .. 6 |-> IF d % 2 = 0 THEN 10 ELSE 16]}
MCCalendars == {{<<At(2, 9, 0), At(2, 10, 45)>>},
                {<<0, At(3, 11, 0)>>, <<At(3, 11, 40), At(14, 0, 0)>>},
                {<<0, At(14, 0, 0)>>}}

=============================================================================
