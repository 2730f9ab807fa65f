-------------------------- MODULE SettlementProofs --------------------------
(***************************************************************************)
(* Proofs about what is settled when a call of SchedulingAgent returns:    *)
(* the receiver's marks, cache and calendar, the owner's booking, and the  *)
(* handles a poll has dealt with.  None of it depends on how the polls of  *)
(* an agent overlap.                                                       *)
(***************************************************************************)
EXTENDS SchedulingAgentProofs

-----------------------------------------------------------------------------
(* The inductive invariants, each relative to AgreementInv *)

(* A mark has a cached state, a subscription and a booking behind it, and  *)
(* a poll that fetches has its subscription.                               *)
MarksComplete ==
  /\ \A t \in Tasks : t \in processed <=> received[t] # None
  /\ \A t \in processed : t \in subscribed /\ BookedAt(task[t].peer, t)
  /\ \A k \in Polls : poll[k].pc = "fetching" => poll[k].cur \in subscribed

(* A proposal that returned an acceptance has booked it. *)
ReturnsBooked ==
  \A t \in Tasks :
    task[t].pc = "done" /\ task[t].reply # <<>> =>
      objects[t] # None /\ BookedAt(task[t].me, t)

(* A suspended poll still holds whatever of its snapshot is not marked. *)
Covered(k) ==
  Polling(k) => poll[k].snapshot \subseteq
                  processed \cup poll[k].todo \cup {poll[k].cur}

PollsCoverSnapshot == \A k \in Polls : Covered(k)

SettlementInv ==
  /\ AgreementInv
  /\ MarksComplete
  /\ ReturnsBooked
  /\ PollsCoverSnapshot

-----------------------------------------------------------------------------
(* Which meetings a calendar holds *)

(* book() adds one meeting to one calendar. *)
LEMMA BookingShows ==
  ASSUME TypeOK, NEW p \in Principals, NEW time, NEW duration, NEW t \in Tasks,
         calendar' = [calendar EXCEPT ![p] = Book(@, time, duration, t)]
  PROVE  \A q \in Principals, s \in Tasks :
           BookedAt(q, s)' <=> BookedAt(q, s) \/ (q = p /\ s = t)
<1>1. PICK n \in Nat \ {0} : Appended(p, n, time, duration, t)
  BY BookEffect
<1> SUFFICES ASSUME NEW q \in Principals, NEW s \in Tasks
             PROVE  BookedAt(q, s)' <=> BookedAt(q, s) \/ (q = p /\ s = t)
  OBVIOUS
<1>2. CASE q # p
  BY <1>1, <1>2 DEF Appended, BookedAt
<1>3. CASE q = p
  <2>1. \A m \in DOMAIN calendar'[p].events :
          \/ m = n /\ calendar'[p].events[m].of = t
          \/ /\ m \in DOMAIN calendar[p].events
             /\ calendar'[p].events[m] = calendar[p].events[m]
    BY <1>1 DEF Appended
  <2>2. \A m \in DOMAIN calendar[p].events :
          /\ m \in DOMAIN calendar'[p].events
          /\ calendar'[p].events[m] = calendar[p].events[m]
    BY <1>1 DEF Appended
  <2>3. n \in DOMAIN calendar'[p].events /\ calendar'[p].events[n].of = t
    BY <1>1 DEF Appended
  <2> QED BY <1>3, <2>1, <2>2, <2>3 DEF BookedAt
<1> QED BY <1>2, <1>3

(* What the three booking steps do to the calendars. *)
LEMMA BookOwnShows ==
  ASSUME AgreementInv, NEW t \in Tasks, NEW k \in Polls \cup {None},
         BookOwn(t, k)
  PROVE  /\ task[t].me \in Principals
         /\ \A q \in Principals, s \in Tasks :
              BookedAt(q, s)' <=> BookedAt(q, s) \/ (q = task[t].me /\ s = t)
<1>1. task[t].me \in Principals
  BY DEF BookOwn, AgreementInv, ObjectsMatchTasks
<1>2. /\ TypeOK
      /\ calendar' = [calendar EXCEPT ![task[t].me] =
                        Book(@, ClockTime(Head(task[t].reply)),
                             task[t].agreed, t)]
  BY DEF BookOwn, AgreementInv
<1> QED BY <1>1, <1>2, BookingShows

LEMMA BookInProcessShows ==
  ASSUME AgreementInv, NEW t \in Tasks, BookInProcess(t)
  PROVE  /\ task[t].me \in Principals
         /\ \A q \in Principals, s \in Tasks :
              BookedAt(q, s)' <=> BookedAt(q, s) \/ (q = task[t].me /\ s = t)
<1>1. task[t].me \in Principals
  BY DEF BookInProcess, CreateMeeting, AgreementInv, ObjectsMatchTasks
<1>2. /\ TypeOK
      /\ calendar' = [calendar EXCEPT ![task[t].me] =
                        Book(@, ClockTime(Head(task[t].reply)),
                             task[t].agreed, t)]
  BY DEF BookInProcess, AgreementInv
<1> QED BY <1>1, <1>2, BookingShows

LEMMA FetchShows ==
  ASSUME AgreementInv, NEW k \in Polls, FetchAndBook(k)
  PROVE  /\ poll[k].me \in Principals
         /\ poll[k].cur \in handles
         /\ task[poll[k].cur].peer = poll[k].me
         /\ \A q \in Principals, s \in Tasks :
              BookedAt(q, s)' <=>
                BookedAt(q, s) \/ (q = poll[k].me /\ s = poll[k].cur)
<1> DEFINE h == poll[k].cur
           state == Scoped(objects[h])
<1>1. /\ poll[k].me \in Principals /\ h \in handles /\ h \in Tasks
      /\ task[h].peer = poll[k].me
  BY HandleParties DEF FetchAndBook, Polling, AgreementInv, PollsHoldHandles
<1>2. calendar' = [calendar EXCEPT ![poll[k].me] =
                     Book(@, ClockTime(state.slot), state.duration, h)]
  BY DEF FetchAndBook
<1> HIDE DEF state
<1> QED BY <1>1, <1>2, BookingShows DEF AgreementInv

(* The other steps leave the calendars alone. *)
LEMMA OnlyThreeBook ==
  ASSUME [Next]_vars, \A t \in Tasks : ~BookInProcess(t),
         \A t \in Tasks, k \in Polls \cup {None} : ~BookOwn(t, k),
         \A k \in Polls : ~FetchAndBook(k)
  PROVE  UNCHANGED calendar
BY DEF Next, TaskNext, PollNext, vars, StartListener, Propose, SendFails,
       Return, ReturnRejected, RaiseWithoutListener, PromoteMeeting,
       HandleIncoming, StoreHandle, StartPoll, Subscribe, PollFails, LoseRequest

(* No meeting leaves a calendar. *)
LEMMA BookingsStay ==
  ASSUME AgreementInv, [Next]_vars
  PROVE  \A q \in Principals, s \in Tasks : BookedAt(q, s) => BookedAt(q, s)'
<1>1. ASSUME UNCHANGED calendar
      PROVE  \A q \in Principals, s \in Tasks : BookedAt(q, s) => BookedAt(q, s)'
  BY <1>1 DEF BookedAt
<1> QED BY <1>1, OnlyThreeBook, BookOwnShows, BookInProcessShows, FetchShows

-----------------------------------------------------------------------------
(* MarksComplete is preserved *)

(* The pc and the snapshot with which a poll goes on. *)
LEMMA VisitCovers ==
  ASSUME TypeOK, NEW k \in Polls, NEW rec \in PollRecords, NEW rest, NEW seen,
         Visit(k, rec, rest, seen)
  PROVE  /\ \A j \in Polls : j # k => poll'[j] = poll[j]
         /\ \/ poll'[k].pc = "done" /\ rest \subseteq seen
            \/ /\ poll'[k].pc = "subscribing"
               /\ poll'[k].snapshot = rec.snapshot
               /\ rest \subseteq seen \cup poll'[k].todo \cup {poll'[k].cur}
<1>1. DOMAIN poll = Polls
  BY DEF TypeOK
<1>2. \A j \in Polls : j # k => poll'[j] = poll[j]
  BY <1>1 DEF Visit
<1>3. CASE /\ rest \ seen = {}
           /\ poll' = [poll EXCEPT ![k] = [IdlePoll EXCEPT !.pc = "done"]]
  <2>1. poll'[k] = [IdlePoll EXCEPT !.pc = "done"]
    BY <1>1, <1>3
  <2> QED BY <1>2, <1>3, <2>1 DEF IdlePoll
<1>4. ASSUME NEW h \in rest \ seen,
             poll' = [poll EXCEPT ![k] =
                        [rec EXCEPT !.pc = "subscribing",
                                    !.todo = (rest \ seen) \ {h}, !.cur = h]]
      PROVE  /\ poll'[k].pc = "subscribing"
             /\ poll'[k].snapshot = rec.snapshot
             /\ rest \subseteq seen \cup poll'[k].todo \cup {poll'[k].cur}
  <2>1. poll'[k] = [rec EXCEPT !.pc = "subscribing",
                               !.todo = (rest \ seen) \ {h}, !.cur = h]
    BY <1>1, <1>4
  <2>2. /\ poll'[k].pc = "subscribing"
        /\ poll'[k].snapshot = rec.snapshot
        /\ poll'[k].todo = (rest \ seen) \ {h}
        /\ poll'[k].cur = h
    BY <2>1 DEF PollRecords
  <2> QED BY <2>2
<1> QED BY <1>2, <1>3, <1>4 DEF Visit

(* A poll starts with everything of its snapshot marked or held. *)
LEMMA BeginPollCovers ==
  ASSUME TypeOK, NEW k \in Polls, NEW me \in Principals \cup {None},
         NEW peer \in Principals \cup {None}, BeginPoll(k, me, peer)
  PROVE  /\ ~Polling(k)
         /\ \A j \in Polls : j # k => poll'[j] = poll[j]
         /\ poll'[k].pc # "fetching"
         /\ Polling(k)' => poll'[k].snapshot \subseteq
                             processed \cup poll'[k].todo \cup {poll'[k].cur}
<1> DEFINE snapshot == {t \in handles : task[t].peer = me}
           rec == [poll[k] EXCEPT !.me = me, !.peer = peer,
                                  !.snapshot = snapshot]
<1>1. snapshot \in SUBSET Tasks
  BY DEF TypeOK
<1>2. rec \in PollRecords /\ rec.snapshot = snapshot
  BY <1>1 DEF TypeOK, PollRecords
<1>3. ~Polling(k) /\ Visit(k, rec, snapshot, processed)
  BY DEF BeginPoll
<1> HIDE DEF rec, snapshot
<1> QED BY <1>2, <1>3, VisitCovers DEF Polling

(* Every step does one of these to the polls. *)
LEMMA PollsStep ==
  ASSUME AgreementInv, [Next]_vars
  PROVE  \/ UNCHANGED <<poll, processed, received, subscribed>>
         \/ \E k \in Polls, me \in Principals \cup {None},
               peer \in Principals \cup {None} :
              /\ BeginPoll(k, me, peer)
              /\ UNCHANGED <<processed, received, subscribed>>
         \/ \E k \in Polls : Subscribe(k) \/ FetchAndBook(k) \/ PollFails(k)
<1>1. ASSUME NEW t \in Tasks, NEW k \in Polls \cup {None},
             ReturnRejected(t, k) \/ BookOwn(t, k)
      PROVE  /\ UNCHANGED <<processed, received, subscribed>>
             /\ \/ UNCHANGED poll
                \/ k \in Polls /\ BeginPoll(k, task[t].peer, task[t].me)
  BY <1>1 DEF ReturnRejected, BookOwn, Continue
<1>2. \A t \in Tasks : /\ task[t].me \in Principals \cup {None}
                       /\ task[t].peer \in Principals \cup {None}
  BY DEF AgreementInv, TypeOK, TaskRecords
<1>3. ASSUME NEW k \in Polls, PollNext(k)
      PROVE  \/ \E me \in Principals, peer \in Principals :
                  /\ BeginPoll(k, me, peer)
                  /\ UNCHANGED <<processed, received, subscribed>>
             \/ Subscribe(k) \/ FetchAndBook(k) \/ PollFails(k)
  BY <1>3 DEF PollNext, StartPoll
<1>4. ASSUME \A t \in Tasks : ~Return(t), \A k \in Polls : ~PollNext(k)
      PROVE  UNCHANGED <<poll, processed, received, subscribed>>
  BY <1>4
  DEF Next, TaskNext, vars, StartListener, Propose, SendFails,
      RaiseWithoutListener, BookInProcess, PromoteMeeting, HandleIncoming,
      StoreHandle, LoseRequest
<1> QED BY <1>1, <1>2, <1>3, <1>4 DEF Return

LEMMA MarksStay ==
  ASSUME AgreementInv, MarksComplete, [Next]_vars,
         UNCHANGED <<processed, received>>, subscribed \subseteq subscribed',
         \A k \in Polls :
           poll'[k].pc = "fetching" => poll'[k].cur \in subscribed'
  PROVE  MarksComplete'
<1>1. Keeps
  BY NextAgreement
<1>2. ASSUME NEW t \in processed
      PROVE  t \in subscribed' /\ BookedAt(task[t].peer, t)'
  <2>1. /\ t \in Tasks /\ task[t].peer \in Principals
        /\ task'[t].peer = task[t].peer
    BY <1>1, HandleParties DEF AgreementInv, HandlesHaveObjects, TypeOK, Keeps
  <2>2. t \in subscribed /\ BookedAt(task[t].peer, t)
    BY DEF MarksComplete
  <2>3. \A q \in Principals : BookedAt(q, t) => BookedAt(q, t)'
    BY <2>1, BookingsStay
  <2> QED BY <2>1, <2>2, <2>3 DEF BookedAt
<1> QED BY <1>2 DEF MarksComplete

(* Every step keeps marks, caches and calendars of the receivers in accord. *)
LEMMA NextMarks ==
  ASSUME AgreementInv, MarksComplete, [Next]_vars
  PROVE  MarksComplete'
<1>1. CASE UNCHANGED <<poll, processed, received, subscribed>>
  BY <1>1, MarksStay DEF MarksComplete
<1>2. ASSUME NEW k \in Polls, NEW me \in Principals \cup {None},
             NEW peer \in Principals \cup {None}, BeginPoll(k, me, peer),
             UNCHANGED <<processed, received, subscribed>>
      PROVE  MarksComplete'
  <2>1. /\ poll'[k].pc # "fetching"
        /\ \A j \in Polls : j # k => poll'[j] = poll[j]
    BY <1>2, BeginPollCovers DEF AgreementInv
  <2> QED BY <1>2, <2>1, MarksStay DEF MarksComplete
<1>3. ASSUME NEW k \in Polls, Subscribe(k) PROVE MarksComplete'
  <2>1. poll[k] \in PollRecords /\ DOMAIN poll = Polls
    BY DEF AgreementInv, TypeOK
  <2>2. /\ poll'[k].cur = poll[k].cur
        /\ \A j \in Polls : j # k => poll'[j] = poll[j]
    BY <1>3, <2>1 DEF Subscribe, PollRecords
  <2> QED BY <1>3, <2>2, MarksStay DEF Subscribe, MarksComplete
<1>4. ASSUME NEW k \in Polls, PollFails(k) PROVE MarksComplete'
  <2>1. DOMAIN poll = Polls
    BY DEF AgreementInv, TypeOK
  <2>2. /\ poll'[k].pc = "failed"
        /\ \A j \in Polls : j # k => poll'[j] = poll[j]
    BY <1>4, <2>1 DEF PollFails, IdlePoll
  <2>3. /\ UNCHANGED <<processed, received>>
        /\ subscribed \subseteq subscribed'
    BY <1>4 DEF PollFails
  <2> QED BY <2>2, <2>3, MarksStay DEF MarksComplete
<1>5. ASSUME NEW k \in Polls, FetchAndBook(k) PROVE MarksComplete'
  <2> DEFINE h == poll[k].cur
  <2>1. /\ processed' = processed \cup {h}
        /\ received' = [received EXCEPT ![h] = Scoped(objects[h])]
        /\ UNCHANGED <<task, subscribed>>
        /\ poll[k].pc = "fetching"
    BY <1>5 DEF FetchAndBook
  <2>2. /\ h \in Tasks /\ h \in handles /\ poll[k].me \in Principals
        /\ task[h].peer = poll[k].me
        /\ \A q \in Principals, s \in Tasks :
             BookedAt(q, s)' <=> BookedAt(q, s) \/ (q = poll[k].me /\ s = h)
    BY <1>5, FetchShows DEF AgreementInv, TypeOK
  <2>3. /\ poll'[k].pc # "fetching"
        /\ \A j \in Polls : j # k => poll'[j] = poll[j]
    <3>1. /\ poll[k] \in PollRecords
          /\ Visit(k, poll[k], poll[k].todo, processed')
      BY <1>5 DEF FetchAndBook, AgreementInv, TypeOK
    <3> QED BY <3>1, VisitCovers DEF AgreementInv
  <2>4. received'[h] # None
    <3>1. objects[h] \in Meetings
      BY <2>2, HandleParties DEF AgreementInv, TypeOK
    <3>2. Scoped(objects[h]) \in States
      BY <3>1 DEF Meetings, Scoped, States
    <3>3. received'[h] = Scoped(objects[h])
      BY <2>1, <2>2 DEF AgreementInv, TypeOK
    <3> QED BY <3>2, <3>3, NoneIsNoMeeting
  <2>5. \A t \in Tasks : t # h => received'[t] = received[t]
    BY <2>1 DEF AgreementInv, TypeOK
  <2>6. ASSUME NEW t \in processed'
        PROVE  t \in subscribed /\ BookedAt(task[t].peer, t)'
    <3>1. CASE t = h
      <4>1. PICK q \in Principals : q = poll[k].me
        BY <2>2
      <4>2. BookedAt(q, t)'
        BY <2>2, <3>1, <4>1
      <4>3. task'[t].peer = q /\ t \in subscribed
        BY <2>1, <2>2, <3>1, <4>1 DEF MarksComplete
      <4> QED BY <2>1, <4>2, <4>3 DEF BookedAt
    <3>2. CASE t # h
      <4>1. t \in processed /\ t \in handles
        BY <2>1, <3>2 DEF AgreementInv, HandlesHaveObjects, TypeOK
      <4>2. task[t].peer \in Principals /\ t \in Tasks
        BY <4>1, HandleParties DEF AgreementInv
      <4>3. t \in subscribed /\ BookedAt(task[t].peer, t)
        BY <4>1 DEF MarksComplete
      <4>4. \A q \in Principals : BookedAt(q, t) => BookedAt(q, t)'
        BY <2>2, <4>2
      <4> QED BY <2>1, <4>2, <4>3, <4>4 DEF BookedAt
    <3> QED BY <3>1, <3>2
  <2>7. \A t \in Tasks : t \in processed' <=> received'[t] # None
    BY <2>1, <2>2, <2>4, <2>5 DEF MarksComplete
  <2>8. \A j \in Polls : poll'[j].pc = "fetching" => poll'[j].cur \in subscribed'
    BY <2>1, <2>3 DEF MarksComplete
  <2> HIDE DEF h
  <2> QED BY <2>1, <2>6, <2>7, <2>8 DEF MarksComplete, BookedAt
<1> QED BY <1>1, <1>2, <1>3, <1>4, <1>5, PollsStep

-----------------------------------------------------------------------------
(* PollsCoverSnapshot is preserved *)

LEMMA CoveredOn ==
  ASSUME NEW j \in Polls, Covered(j), poll'[j] = poll[j],
         processed \subseteq processed'
  PROVE  Covered(j)'
BY DEF Covered, Polling

(* Every step keeps each poll answerable for all of its snapshot. *)
LEMMA NextCovers ==
  ASSUME AgreementInv, PollsCoverSnapshot, [Next]_vars
  PROVE  PollsCoverSnapshot'
<1>0. processed \subseteq processed'
  BY NextAgreement DEF Keeps
<1>1. CASE UNCHANGED <<poll, processed, received, subscribed>>
  BY <1>1 DEF PollsCoverSnapshot, Covered, Polling
<1>2. ASSUME NEW k \in Polls, NEW me \in Principals \cup {None},
             NEW peer \in Principals \cup {None}, BeginPoll(k, me, peer),
             UNCHANGED processed
      PROVE  PollsCoverSnapshot'
  <2>1. /\ \A j \in Polls : j # k => poll'[j] = poll[j]
        /\ Covered(k)'
    BY <1>2, BeginPollCovers DEF AgreementInv, Covered
  <2> QED BY <1>0, <2>1, CoveredOn DEF PollsCoverSnapshot
<1>3. ASSUME NEW k \in Polls, Subscribe(k) PROVE PollsCoverSnapshot'
  <2>1. poll[k] \in PollRecords /\ DOMAIN poll = Polls
    BY DEF AgreementInv, TypeOK
  <2>2. \A j \in Polls : j # k => poll'[j] = poll[j]
    BY <1>3, <2>1 DEF Subscribe
  <2>3. /\ poll'[k].snapshot = poll[k].snapshot
        /\ poll'[k].todo = poll[k].todo
        /\ poll'[k].cur = poll[k].cur
        /\ Polling(k)
    BY <1>3, <2>1 DEF Subscribe, PollRecords, Polling
  <2>4. Covered(k)'
    BY <1>0, <2>3 DEF PollsCoverSnapshot, Covered
  <2> QED BY <1>0, <2>2, <2>4, CoveredOn DEF PollsCoverSnapshot
<1>4. ASSUME NEW k \in Polls, PollFails(k) PROVE PollsCoverSnapshot'
  <2>1. /\ poll'[k].pc = "failed"
        /\ \A j \in Polls : j # k => poll'[j] = poll[j]
    BY <1>4 DEF PollFails, IdlePoll, AgreementInv, TypeOK
  <2> QED BY <1>0, <2>1, CoveredOn DEF PollsCoverSnapshot, Covered, Polling
<1>5. ASSUME NEW k \in Polls, FetchAndBook(k) PROVE PollsCoverSnapshot'
  <2>1. /\ poll[k] \in PollRecords /\ Polling(k)
        /\ processed' = processed \cup {poll[k].cur}
        /\ Visit(k, poll[k], poll[k].todo, processed')
    BY <1>5 DEF FetchAndBook, AgreementInv, TypeOK, Polling
  <2>2. /\ \A j \in Polls : j # k => poll'[j] = poll[j]
        /\ \/ poll'[k].pc = "done"
           \/ /\ poll'[k].snapshot = poll[k].snapshot
              /\ poll[k].todo \subseteq
                   processed' \cup poll'[k].todo \cup {poll'[k].cur}
    BY <2>1, VisitCovers DEF AgreementInv
  <2>3. Covered(k)'
    BY <2>1, <2>2 DEF PollsCoverSnapshot, Covered, Polling
  <2> QED BY <1>0, <2>2, <2>3, CoveredOn DEF PollsCoverSnapshot
<1> QED BY <1>1, <1>2, <1>3, <1>4, <1>5, PollsStep

-----------------------------------------------------------------------------
(* ReturnsBooked is preserved *)

(* A proposal returns by one of three steps of its own, and only once. *)
LEMMA ReturnStep ==
  ASSUME AgreementInv, [Next]_vars, NEW t \in Tasks, task'[t].pc = "done"
  PROVE  \/ task'[t] = task[t]
         \/ \E k \in Polls \cup {None} : ReturnRejected(t, k) \/ BookOwn(t, k)
         \/ BookInProcess(t)
<1> USE DEF AgreementInv
<1> SUFFICES ASSUME \A k \in Polls \cup {None} :
                      ~ReturnRejected(t, k) /\ ~BookOwn(t, k),
                    ~BookInProcess(t)
             PROVE  task'[t] = task[t]
  OBVIOUS
<1>1. ASSUME NEW s \in Tasks, NEW pc, pc # "done", Goto(s, pc)
      PROVE  task'[t] = task[t]
  BY <1>1, GotoEffect
<1>2. ASSUME NEW s \in Tasks, s # t, Goto(s, "done")
      PROVE  task'[t] = task[t]
  BY <1>2, GotoEffect
<1>3. ASSUME NEW s \in Tasks, TaskNext(s) PROVE task'[t] = task[t]
  <2>1. ASSUME NEW me \in Principals, NEW peer \in Principals,
               NEW cands \in Offers, NEW duration \in Durations,
               Propose(s, me, peer, cands, duration)
        PROVE  task'[t] = task[t]
    BY <2>1 DEF Propose, TypeOK
  <2>2. CASE SendFails(s)
    BY <2>2, <1>1 DEF SendFails
  <2>3. CASE Return(s)
    BY <2>3, <1>2 DEF Return, ReturnRejected, BookOwn
  <2>4. CASE RaiseWithoutListener(s)
    BY <2>4, <1>1 DEF RaiseWithoutListener
  <2>5. CASE BookInProcess(s)
    BY <2>5, <1>2 DEF BookInProcess
  <2>6. CASE PromoteMeeting(s)
    BY <2>6, <1>1 DEF PromoteMeeting
  <2>7. CASE HandleIncoming(s)
    BY <2>7, HandleIncomingEffect
  <2>8. CASE StoreHandle(s)
    BY <2>8, <1>1 DEF StoreHandle, Goto
  <2> QED BY <1>3, <2>1, <2>2, <2>3, <2>4, <2>5, <2>6, <2>7, <2>8 DEF TaskNext
<1>4. ASSUME \A s \in Tasks : ~TaskNext(s) PROVE UNCHANGED task
  BY <1>4
  DEF Next, PollNext, vars, StartListener, StartPoll, Subscribe, FetchAndBook,
      PollFails, LoseRequest
<1> QED BY <1>3, <1>4

(* Every step keeps the returned acceptances booked. *)
LEMMA NextReturns ==
  ASSUME AgreementInv, ReturnsBooked, [Next]_vars
  PROVE  ReturnsBooked'
<1>1. Keeps
  BY NextAgreement
<1> SUFFICES ASSUME NEW t \in Tasks, task'[t].pc = "done",
                    task'[t].reply # <<>>
             PROVE  objects'[t] # None /\ BookedAt(task[t].me, t)'
  BY DEF ReturnsBooked
<1>2. ASSUME NEW q \in Principals, q = task[t].me, task[t].pc # "idle",
             objects'[t] # None, BookedAt(q, t)'
      PROVE  objects'[t] # None /\ BookedAt(task[t].me, t)'
  BY <1>1, <1>2 DEF Keeps, BookedAt
<1>3. CASE task'[t] = task[t]
  <2>1. /\ objects[t] # None /\ BookedAt(task[t].me, t)
        /\ task[t].pc # "idle" /\ task[t].me \in Principals
    BY <1>3 DEF ReturnsBooked, AgreementInv, ObjectsMatchTasks
  <2>2. objects'[t] # None
    BY <1>1, <2>1 DEF Keeps
  <2>3. \A q \in Principals : BookedAt(q, t) => BookedAt(q, t)'
    BY BookingsStay
  <2> QED BY <1>2, <2>1, <2>2, <2>3
<1>4. ASSUME NEW k \in Polls \cup {None}, ReturnRejected(t, k) PROVE FALSE
  <2>1. task[t].reply = <<>> /\ Goto(t, "done") /\ TypeOK
    BY <1>4 DEF ReturnRejected, AgreementInv
  <2> QED BY <2>1, GotoEffect
<1>5. ASSUME NEW k \in Polls \cup {None}, BookOwn(t, k)
      PROVE  objects'[t] # None /\ BookedAt(task[t].me, t)'
  <2>1. /\ task[t].me \in Principals
        /\ \A q \in Principals : q = task[t].me => BookedAt(q, t)'
    BY <1>5, BookOwnShows
  <2>2. task[t].pc = "acknowledged" /\ objects'[t] # None
    BY <1>5 DEF BookOwn, AgreementInv, ObjectsMatchTasks
  <2> QED BY <1>2, <2>1, <2>2
<1>6. CASE BookInProcess(t)
  <2>1. /\ task[t].me \in Principals
        /\ \A q \in Principals : q = task[t].me => BookedAt(q, t)'
    BY <1>6, BookInProcessShows
  <2>2. objects'[t] # None
    BY <1>6, CreateMeetingEffect DEF BookInProcess, AgreementInv
  <2>3. task[t].pc = "answered"
    BY <1>6 DEF BookInProcess, CreateMeeting
  <2> QED BY <1>2, <2>1, <2>2, <2>3
<1> QED BY <1>3, <1>4, <1>5, <1>6, ReturnStep

-----------------------------------------------------------------------------
(* The theorems *)

(* Nothing is marked, returned or polled initially. *)
LEMMA InitSettlement == Init => SettlementInv
<1> SUFFICES ASSUME Init PROVE SettlementInv
  OBVIOUS
<1>1. AgreementInv
  BY InitAgreement
<1>2. MarksComplete /\ PollsCoverSnapshot
  BY DEF Init, IdlePoll, MarksComplete, PollsCoverSnapshot, Covered, Polling
<1>3. ReturnsBooked
  BY DEF Init, IdleTask, ReturnsBooked
<1> QED BY <1>1, <1>2, <1>3 DEF SettlementInv

(* The inductive invariant holds in every state of every run. *)
THEOREM SettlementInvariant == Spec => []SettlementInv
<1>1. SettlementInv /\ [Next]_vars => SettlementInv'
  BY NextAgreement, NextMarks, NextReturns, NextCovers DEF SettlementInv
<1> QED BY <1>1, InitSettlement, PTL DEF Spec

(* A handle counts as processed exactly when its meeting is in the          *)
(* receiver's calendar and in its cache, and its owner then has the         *)
(* subscription: a poll that fails between two awaits of                    *)
(* subscribe_to_pending_meetings leaves nothing half done.                  *)
THEOREM MarksAreBookings == Spec => []ProcessedIsBooked
<1>1. SettlementInv => ProcessedIsBooked
  <2> SUFFICES ASSUME SettlementInv, NEW t \in Tasks
               PROVE  /\ t \in processed <=> received[t] # None
                      /\ t \in processed <=>
                           (Peer(t) # None /\ BookedAt(Peer(t), t))
                      /\ t \in processed => t \in subscribed
    BY DEF ProcessedIsBooked
  <2> USE DEF SettlementInv
  <2>1. /\ t \in processed <=> received[t] # None
        /\ t \in processed => t \in subscribed
    BY DEF MarksComplete
  <2>2. ASSUME t \in processed
        PROVE  Peer(t) # None /\ BookedAt(Peer(t), t)
    <3>1. task[t].peer \in Principals
      BY <2>2, HandleParties DEF AgreementInv, HandlesHaveObjects
    <3> QED BY <2>2, <3>1, NoneAssumption DEF MarksComplete, Peer
  <2>3. ASSUME Peer(t) # None, BookedAt(Peer(t), t)
        PROVE  t \in processed
    <3>1. task[t].peer \in Principals
      BY <2>3 DEF AgreementInv, TypeOK, TaskRecords, Peer
    <3>2. PICK i \in DOMAIN calendar[task[t].peer].events :
            calendar[task[t].peer].events[i].of = t
      BY <2>3 DEF BookedAt, Peer
    <3>3. BookingRecorded(task[t].peer, calendar[task[t].peer].events[i])
      BY <3>1, <3>2 DEF AgreementInv, BookingsRecorded
    <3>4. t # None
      BY NoneAssumption
    <3>5. objects[t] # None /\ (task[t].peer = task[t].me \/ t \in processed)
      BY <3>2, <3>3, <3>4 DEF BookingRecorded
    <3>6. task[t].me # task[t].peer
      BY <3>5 DEF AgreementInv, ObjectsMatchTasks
    <3> QED BY <3>5, <3>6
  <2> QED BY <2>1, <2>2, <2>3
<1> QED BY <1>1, SettlementInvariant, PTL

(* In terms of the invariant: which proposals have returned an acceptance. *)
LEMMA ReturnsAreBookings == SettlementInv => OwnerBooksOnReturn
<1> SUFFICES ASSUME SettlementInv, NEW t \in Tasks
             PROVE  (task[t].pc = "done" /\ task[t].reply # <<>>) <=>
                      (Owner(t) # None /\ BookedAt(Owner(t), t))
  BY DEF OwnerBooksOnReturn
<1> USE DEF SettlementInv
<1>1. ASSUME task[t].pc = "done", task[t].reply # <<>>
      PROVE  Owner(t) # None /\ BookedAt(Owner(t), t)
  <2>1. task[t].me \in Principals
    BY <1>1 DEF AgreementInv, ObjectsMatchTasks
  <2> QED BY <1>1, <2>1, NoneAssumption DEF ReturnsBooked, Owner
<1>2. ASSUME Owner(t) # None, BookedAt(Owner(t), t)
      PROVE  task[t].pc = "done" /\ task[t].reply # <<>>
  <2>1. task[t].me \in Principals
    BY <1>2 DEF AgreementInv, TypeOK, TaskRecords, Owner
  <2>2. PICK i \in DOMAIN calendar[task[t].me].events :
          calendar[task[t].me].events[i].of = t
    BY <1>2 DEF BookedAt, Owner
  <2>3. BookingRecorded(task[t].me, calendar[task[t].me].events[i])
    BY <2>1, <2>2 DEF AgreementInv, BookingsRecorded
  <2>4. t # None
    BY NoneAssumption
  <2>5. /\ objects[t] # None
        /\ task[t].pc = "done" \/ task[t].me = task[t].peer
    BY <2>2, <2>3, <2>4 DEF BookingRecorded
  <2> QED BY <2>5 DEF AgreementInv, ObjectsMatchTasks
<1> QED BY <1>1, <1>2

(* propose_meeting_to returns with an acceptance exactly when the meeting   *)
(* is in the initiator's calendar: one that raised has booked nothing       *)
(* there.                                                                   *)
THEOREM OwnerBooksExactlyOnReturn == Spec => []OwnerBooksOnReturn
<1> QED BY ReturnsAreBookings, SettlementInvariant, PTL

(* A poll that returns has left no handle behind that was there when it     *)
(* began: each is processed, whatever other polls did in between.           *)
THEOREM FinishedPollsAreComplete == Spec => FinishedPollMissesNothing
<1>1. SettlementInv /\ [Next]_vars =>
        \A k \in Polls : Polling(k) /\ poll'[k].pc = "done" =>
                           poll[k].snapshot \subseteq processed'
  <2> SUFFICES ASSUME SettlementInv, [Next]_vars, NEW k \in Polls,
                      Polling(k), poll'[k].pc = "done"
               PROVE  poll[k].snapshot \subseteq processed'
    OBVIOUS
  <2> USE DEF SettlementInv
  <2>1. ASSUME NEW j \in Polls, NEW me \in Principals \cup {None},
               NEW peer \in Principals \cup {None}, BeginPoll(j, me, peer)
        PROVE  FALSE
    BY <2>1, BeginPollCovers DEF AgreementInv, Polling
  <2>2. ASSUME NEW j \in Polls, Subscribe(j) PROVE FALSE
    BY <2>2 DEF Subscribe, AgreementInv, TypeOK, PollRecords, Polling
  <2>3. ASSUME NEW j \in Polls, PollFails(j) PROVE FALSE
    BY <2>3 DEF PollFails, IdlePoll, AgreementInv, TypeOK, Polling
  <2>4. ASSUME NEW j \in Polls, FetchAndBook(j)
        PROVE  poll[k].snapshot \subseteq processed'
    <3>1. /\ poll[j] \in PollRecords
          /\ processed' = processed \cup {poll[j].cur}
          /\ Visit(j, poll[j], poll[j].todo, processed')
      BY <2>4 DEF FetchAndBook, AgreementInv, TypeOK
    <3>2. j = k
      BY <3>1, VisitCovers DEF AgreementInv, Polling
    <3>3. poll[k].todo \subseteq processed'
      BY <3>1, <3>2, VisitCovers DEF AgreementInv
    <3> QED BY <3>1, <3>2, <3>3 DEF PollsCoverSnapshot, Covered
  <2>5. CASE UNCHANGED <<poll, processed, received, subscribed>>
    BY <2>5 DEF Polling
  <2> QED BY <2>1, <2>2, <2>3, <2>4, <2>5, PollsStep
<1>2. SettlementInv /\ [Next]_vars =>
        [\A k \in Polls : Polling(k) /\ poll'[k].pc = "done" =>
                            poll[k].snapshot \subseteq processed']_vars
  BY <1>1
<1> QED BY <1>2, SettlementInvariant, PTL DEF Spec, FinishedPollMissesNothing

-----------------------------------------------------------------------------
(***************************************************************************)
(* SchedulingAgent implements SharedAgreement: under the mapping of the    *)
(* instance Shared, every step of the agents is a step of the abstract     *)
(* agreement or changes nothing of it.                                     *)
(***************************************************************************)

(* The mapping, as operators of the concrete state *)

OfferedMap == [t \in Tasks |-> Offered(t)]

AgreedMap ==
  [t \in Tasks |-> IF objects[t] = None THEN None ELSE Scoped(objects[t])]

(* The initiators' bookings, and what comes to the same: the proposals that *)
(* returned an acceptance.                                                  *)
Committed == {t \in Tasks : Owner(t) # None /\ BookedAt(Owner(t), t)}

Accepted == {t \in Tasks : task[t].pc = "done" /\ task[t].reply # <<>>}

(* The initiator has committed exactly when its call returned an acceptance. *)
LEMMA CommittedAreAccepted == SettlementInv => Committed = Accepted
BY ReturnsAreBookings DEF OwnerBooksOnReturn, Committed, Accepted

(* An answer is one of the slots its task offered, and a task that has not  *)
(* begun offers nothing.                                                    *)
AnswersOffered ==
  \A t \in Tasks :
    /\ task[t].reply # <<>> => Head(task[t].reply) \in Offered(t)
    /\ task[t].pc = "idle" => Offered(t) = {}

RefinementInv == SettlementInv /\ AnswersOffered

-----------------------------------------------------------------------------
(* What the steps do to the offers and answers *)

(* Goto keeps them. *)
LEMMA GotoKeepsAnswers ==
  ASSUME TypeOK, NEW t \in Tasks, NEW pc, Goto(t, pc)
  PROVE  \A s \in Tasks : /\ task'[s].reply = task[s].reply
                          /\ Offered(s)' = Offered(s)
<1>1. task[t] \in TaskRecords /\ DOMAIN task = Tasks
  BY DEF TypeOK
<1>2. task'[t] = [task[t] EXCEPT !.pc = pc]
  BY <1>1 DEF Goto
<1>3. task'[t].reply = task[t].reply /\ task'[t].cands = task[t].cands
  BY <1>1, <1>2 DEF TaskRecords
<1>4. \A s \in Tasks : s # t => task'[s] = task[s]
  BY <1>1 DEF Goto
<1> QED BY <1>3, <1>4 DEF Offered

(* An answered proposal keeps its offer; nothing but its answer changes. *)
LEMMA HandleIncomingAnswers ==
  ASSUME TypeOK, NEW t \in Tasks, HandleIncoming(t)
  PROVE  /\ \A s \in Tasks : Offered(s)' = Offered(s)
         /\ \A s \in Tasks : s # t => task'[s] = task[s]
         /\ \/ task'[t] = task[t]
            \/ /\ task[t].pc = "proposing" /\ task'[t].pc = "answered"
               /\ task'[t].reply # <<>> =>
                    Head(task'[t].reply) \in Offered(t)
<1>1. \A s \in Tasks : s # t => task'[s] = task[s]
  BY HandleIncomingEffect
<1>2. \A s \in Tasks : Offered(s)' = Offered(s)
  BY HandleIncomingEffect DEF Offered
<1>3. ASSUME NEW i \in DOMAIN task[t].cands, task'[t].reply = <<task[t].cands[i]>>
      PROVE  Head(task'[t].reply) \in Offered(t)
  <2>1. Head(task'[t].reply) = task[t].cands[i]
    BY <1>3
  <2> QED BY <2>1 DEF Offered
<1> QED BY <1>1, <1>2, <1>3, HandleIncomingEffect

(* Every step keeps the answers among the candidates that were offered. *)
LEMMA NextAnswers ==
  ASSUME SettlementInv, AnswersOffered, [Next]_vars
  PROVE  AnswersOffered'
<1> USE DEF SettlementInv, AgreementInv
<1>1. ASSUME NEW t \in Tasks, NEW pc, pc # "idle", Goto(t, pc)
      PROVE  AnswersOffered'
  <2>1. \A s \in Tasks : task'[s].pc = "idle" => task[s].pc = "idle"
    BY <1>1, GotoEffect
  <2> QED BY <1>1, <2>1, GotoKeepsAnswers DEF AnswersOffered
<1>2. CASE UNCHANGED task
  BY <1>2 DEF AnswersOffered, Offered
<1>3. ASSUME NEW t \in Tasks, TaskNext(t) PROVE AnswersOffered'
  <2>1. ASSUME NEW me \in Principals, NEW peer \in Principals,
               NEW cands \in Offers, NEW duration \in Durations,
               Propose(t, me, peer, cands, duration)
        PROVE  AnswersOffered'
    <3>1. /\ task'[t].reply = <<>> /\ task'[t].pc = "proposing"
          /\ \A s \in Tasks : s # t => task'[s] = task[s]
      BY <2>1 DEF Propose, TypeOK
    <3> QED BY <3>1 DEF AnswersOffered, Offered
  <2>2. CASE HandleIncoming(t)
    BY <2>2, HandleIncomingAnswers DEF AnswersOffered
  <2>3. CASE StoreHandle(t)
    BY <2>3, <1>1, <1>2 DEF StoreHandle, Goto
  <2> QED
    BY <1>1, <1>3, <2>1, <2>2, <2>3
    DEF TaskNext, SendFails, Return, ReturnRejected, BookOwn,
        RaiseWithoutListener, BookInProcess, PromoteMeeting
<1>4. ASSUME \A t \in Tasks : ~TaskNext(t) PROVE UNCHANGED task
  BY <1>4
  DEF Next, PollNext, vars, StartListener, StartPoll, Subscribe, FetchAndBook,
      PollFails, LoseRequest
<1> QED BY <1>2, <1>3, <1>4

(* Nothing is answered initially. *)
LEMMA InitAnswers == Init => AnswersOffered
BY DEF Init, IdleTask, AnswersOffered, Offered

-----------------------------------------------------------------------------
(* The steps of the abstract agreement *)

(* The same fact of the successor state. *)
LEMMA CommittedNext == (SettlementInv => Committed = Accepted)'
BY CommittedAreAccepted, PTL

(* Each abstract action, in terms of the mapping. *)
LEMMA AbstractStutter ==
  ASSUME UNCHANGED <<OfferedMap, AgreedMap, handles, Committed, received>>
  PROVE  UNCHANGED Shared!avars
BY DEF Shared!avars, OfferedMap, AgreedMap, Committed

LEMMA AbstractOffer ==
  ASSUME NEW t \in Tasks, OfferedMap[t] = {}, AgreedMap[t] = None,
         OfferedMap' = [OfferedMap EXCEPT ![t] = OfferedMap'[t]],
         UNCHANGED <<AgreedMap, handles, Committed, received>>
  PROVE  Shared!ANext
BY DEF Shared!ANext, Shared!Offer, OfferedMap, AgreedMap, Committed

LEMMA AbstractAgree ==
  ASSUME NEW t \in Tasks, AgreedMap[t] = None, AgreedMap'[t] \in States,
         AgreedMap'[t].slot \in OfferedMap[t],
         AgreedMap' = [AgreedMap EXCEPT ![t] = AgreedMap'[t]],
         UNCHANGED <<OfferedMap, handles, received>>,
         \/ UNCHANGED Committed
         \/ SingleProcess # {} /\ Committed' = Committed \cup {t}
  PROVE  Shared!ANext
BY DEF Shared!ANext, Shared!Agree, Shared!AgreeInProcess,
       Shared!MakeAgreement, OfferedMap, AgreedMap, Committed

LEMMA AbstractShare ==
  ASSUME NEW t \in Tasks, AgreedMap[t] # None, handles' = handles \cup {t},
         UNCHANGED <<OfferedMap, AgreedMap, Committed, received>>
  PROVE  Shared!ANext
BY DEF Shared!ANext, Shared!Share, OfferedMap, AgreedMap, Committed

LEMMA AbstractCommitInitiator ==
  ASSUME NEW t \in Tasks, t \in handles, Committed' = Committed \cup {t},
         UNCHANGED <<OfferedMap, AgreedMap, handles, received>>
  PROVE  Shared!ANext
BY DEF Shared!ANext, Shared!CommitInitiator, OfferedMap, AgreedMap, Committed

LEMMA AbstractCommitCounterpart ==
  ASSUME NEW t \in Tasks, t \in handles,
         received' = [received EXCEPT ![t] = AgreedMap[t]],
         UNCHANGED <<OfferedMap, AgreedMap, handles, Committed>>
  PROVE  Shared!ANext
BY DEF Shared!ANext, Shared!CommitCounterpart, OfferedMap, AgreedMap, Committed

-----------------------------------------------------------------------------
(* The steps of the agents *)

(* Moving a task keeps the offers; it changes who has accepted only when it *)
(* returns with an answer.                                                  *)
LEMMA GotoMapped ==
  ASSUME TypeOK, NEW t \in Tasks, task[t].pc # "done", NEW pc, Goto(t, pc)
  PROVE  /\ UNCHANGED OfferedMap
         /\ Accepted' = IF pc = "done" /\ task[t].reply # <<>>
                        THEN Accepted \cup {t} ELSE Accepted
<1>1. /\ \A s \in Tasks : /\ task'[s].reply = task[s].reply
                          /\ Offered(s)' = Offered(s)
      /\ task'[t].pc = pc
      /\ \A s \in Tasks : s # t => task'[s] = task[s]
  BY GotoKeepsAnswers, GotoEffect
<1>2. UNCHANGED OfferedMap
  BY <1>1 DEF OfferedMap
<1>3. \A s \in Tasks :
        s \in Accepted' <=>
          s \in Accepted \/ (s = t /\ pc = "done" /\ task[t].reply # <<>>)
  BY <1>1 DEF Accepted
<1> QED BY <1>2, <1>3 DEF Accepted

(* Creating the object makes the agreement, on an offered slot. *)
LEMMA CreateMeetingMapped ==
  ASSUME TypeOK, ObjectsMatchTasks, AnswersOffered, NEW t \in Tasks,
         CreateMeeting(t)
  PROVE  /\ AgreedMap[t] = None
         /\ AgreedMap'[t] \in States
         /\ AgreedMap'[t].slot \in OfferedMap[t]
         /\ AgreedMap' = [AgreedMap EXCEPT ![t] = AgreedMap'[t]]
<1>0. objects'[t] = [owner |-> task[t].me, peer |-> task[t].peer,
                     slot |-> Head(task[t].reply),
                     duration |-> task[t].agreed, updated |-> clock]
  BY CreateMeetingEffect
<1>1. /\ objects[t] = None /\ objects'[t] # None
      /\ objects'[t].slot = Head(task[t].reply)
      /\ \A s \in Tasks : s # t => objects'[s] = objects[s]
  <2>1. objects'[t].slot = Head(task[t].reply)
    BY <1>0
  <2> QED BY <2>1, CreateMeetingEffect
<1>2. objects'[t] \in Meetings
  BY CreateMeetingEffect, CreateMeetingRecord
<1>3. AgreedMap[t] = None /\ AgreedMap'[t] = Scoped(objects'[t])
  BY <1>1 DEF AgreedMap, Scoped
<1>4. AgreedMap'[t] \in States /\ AgreedMap'[t].slot = Head(task[t].reply)
  BY <1>1, <1>2, <1>3 DEF Meetings, States, Scoped
<1>5. AgreedMap' = [AgreedMap EXCEPT ![t] = AgreedMap'[t]]
  BY <1>1 DEF AgreedMap, Scoped
<1>6. Head(task[t].reply) \in OfferedMap[t]
  BY DEF CreateMeeting, AnswersOffered, OfferedMap
<1> QED BY <1>3, <1>4, <1>5, <1>6

(* Every step of the agents is a step of the abstract agreement, or a stutter. *)
LEMMA NextImplements ==
  ASSUME RefinementInv, SettlementInv', [Next]_vars
  PROVE  [Shared!ANext]_(Shared!avars)
<1> USE DEF RefinementInv, SettlementInv, AgreementInv
<1>0. Committed = Accepted /\ Committed' = Accepted'
  BY CommittedAreAccepted, CommittedNext
<1>1. ASSUME NEW t \in Tasks, NEW me \in Principals, NEW peer \in Principals,
             NEW cands \in Offers, NEW duration \in Durations,
             Propose(t, me, peer, cands, duration)
      PROVE  Shared!ANext
  <2>1. /\ task[t].pc = "idle" /\ task'[t].pc = "proposing"
        /\ \A s \in Tasks : s # t => task'[s] = task[s]
        /\ UNCHANGED <<objects, handles, received>>
    BY <1>1 DEF Propose, TypeOK
  <2>2. OfferedMap[t] = {} /\ AgreedMap[t] = None
    BY <2>1 DEF AnswersOffered, ObjectsMatchTasks, OfferedMap, AgreedMap
  <2>3. OfferedMap' = [OfferedMap EXCEPT ![t] = OfferedMap'[t]]
    BY <2>1 DEF OfferedMap, Offered
  <2>4. UNCHANGED <<AgreedMap, Committed>>
    BY <1>0, <2>1 DEF AgreedMap, Accepted
  <2> QED BY <2>1, <2>2, <2>3, <2>4, AbstractOffer
<1>2. ASSUME NEW t \in Tasks, NEW pc \in {"done", "failed"}, Goto(t, pc),
             task[t].pc # "done", pc = "done" => task[t].reply = <<>>,
             UNCHANGED <<objects, handles, received>>
      PROVE  UNCHANGED Shared!avars
  <2>1. UNCHANGED <<OfferedMap, Accepted>>
    BY <1>2, GotoMapped
  <2>2. UNCHANGED AgreedMap
    BY <1>2 DEF AgreedMap
  <2> QED BY <1>0, <1>2, <2>1, <2>2, AbstractStutter
<1>3. ASSUME NEW t \in Tasks, NEW pc \in {"promoting", "failed"},
             CreateMeeting(t), Goto(t, pc), UNCHANGED <<handles, received>>
      PROVE  Shared!ANext
  <2>1. UNCHANGED <<OfferedMap, Accepted>>
    BY <1>3, GotoMapped DEF CreateMeeting
  <2> QED BY <1>0, <1>3, <2>1, CreateMeetingMapped, AbstractAgree
<1>4. ASSUME NEW t \in Tasks, BookInProcess(t) PROVE Shared!ANext
  <2>1. /\ CreateMeeting(t) /\ Goto(t, "done") /\ SingleProcess # {}
        /\ UNCHANGED <<handles, received>>
    BY <1>4 DEF BookInProcess
  <2>2. UNCHANGED OfferedMap /\ Accepted' = Accepted \cup {t}
    BY <2>1, GotoMapped DEF CreateMeeting
  <2> QED BY <1>0, <2>1, <2>2, CreateMeetingMapped, AbstractAgree
<1>5. ASSUME NEW t \in Tasks, NEW k \in Polls \cup {None}, BookOwn(t, k)
      PROVE  Shared!ANext
  <2>1. /\ task[t].pc = "acknowledged" /\ Goto(t, "done")
        /\ UNCHANGED <<objects, handles, received>>
    BY <1>5 DEF BookOwn
  <2>2. task[t].reply # <<>> /\ t \in handles
    BY <2>1 DEF ObjectsMatchTasks, HandlesHaveObjects
  <2>3. UNCHANGED OfferedMap /\ Accepted' = Accepted \cup {t}
    BY <2>1, <2>2, GotoMapped
  <2>4. UNCHANGED AgreedMap
    BY <2>1 DEF AgreedMap
  <2> QED BY <1>0, <2>1, <2>2, <2>3, <2>4, AbstractCommitInitiator
<1>6. ASSUME NEW t \in Tasks, HandleIncoming(t) PROVE UNCHANGED Shared!avars
  <2>1. UNCHANGED <<objects, handles, received>>
    BY <1>6 DEF HandleIncoming
  <2>2. UNCHANGED <<OfferedMap, AgreedMap, Accepted>>
    BY <1>6, <2>1, HandleIncomingAnswers DEF OfferedMap, AgreedMap, Accepted
  <2> QED BY <1>0, <2>1, <2>2, AbstractStutter
<1>7. ASSUME NEW t \in Tasks, StoreHandle(t) PROVE Shared!ANext
  <2>1. /\ handles' = handles \cup {t} /\ objects[t] # None
        /\ UNCHANGED <<objects, received>>
    BY <1>7 DEF StoreHandle, HandlesHaveObjects
  <2>2. UNCHANGED <<OfferedMap, Accepted>>
    <3>1. CASE task[t].pc = "promoting"
      <4>1. Goto(t, "acknowledged")
        BY <1>7, <3>1 DEF StoreHandle, Goto
      <4> QED BY <3>1, <4>1, GotoMapped
    <3>2. CASE task[t].pc # "promoting"
      BY <1>7, <3>2 DEF StoreHandle, OfferedMap, Offered, Accepted
    <3> QED BY <3>1, <3>2
  <2>3. UNCHANGED AgreedMap /\ AgreedMap[t] # None
    <3>1. Scoped(objects[t]) \in States
      BY <2>1 DEF TypeOK, Meetings, Scoped, States
    <3> QED BY <2>1, <3>1, NoneIsNoMeeting DEF AgreedMap
  <2> QED BY <1>0, <2>1, <2>2, <2>3, AbstractShare
<1>8. ASSUME NEW k \in Polls, FetchAndBook(k) PROVE Shared!ANext
  <2>1. /\ poll[k].cur \in handles /\ poll[k].cur \in Tasks
        /\ objects[poll[k].cur] # None
    BY <1>8, FetchShows, HandleParties
  <2>2. /\ received' = [received EXCEPT ![poll[k].cur] =
                          Scoped(objects[poll[k].cur])]
        /\ UNCHANGED <<task, objects, handles>>
    BY <1>8 DEF FetchAndBook
  <2>3. AgreedMap[poll[k].cur] = Scoped(objects[poll[k].cur])
    BY <2>1 DEF AgreedMap
  <2>4. UNCHANGED <<OfferedMap, AgreedMap, Accepted>>
    BY <2>2 DEF OfferedMap, Offered, AgreedMap, Accepted
  <2> QED BY <1>0, <2>1, <2>2, <2>3, <2>4, AbstractCommitCounterpart
<1>9. ASSUME UNCHANGED <<task, objects, handles, received>>
      PROVE  UNCHANGED Shared!avars
  <2>1. UNCHANGED <<OfferedMap, AgreedMap, Accepted>>
    BY <1>9 DEF OfferedMap, Offered, AgreedMap, Accepted
  <2> QED BY <1>0, <1>9, <2>1, AbstractStutter
<1>10. ASSUME NEW t \in Tasks, TaskNext(t) PROVE [Shared!ANext]_(Shared!avars)
  <2>1. CASE SendFails(t)
    BY <1>2, <2>1 DEF SendFails
  <2>2. ASSUME NEW k \in Polls \cup {None}, ReturnRejected(t, k)
        PROVE  UNCHANGED Shared!avars
    BY <1>2, <2>2 DEF ReturnRejected
  <2>3. CASE RaiseWithoutListener(t)
    BY <1>3, <2>3 DEF RaiseWithoutListener
  <2>4. CASE PromoteMeeting(t)
    BY <1>3, <2>4 DEF PromoteMeeting
  <2> QED
    BY <1>1, <1>4, <1>5, <1>6, <1>7, <1>10, <2>1, <2>2, <2>3, <2>4
    DEF TaskNext, Return
<1>11. ASSUME NEW k \in Polls, PollNext(k) PROVE [Shared!ANext]_(Shared!avars)
  <2>1. ASSUME ~FetchAndBook(k)
        PROVE  UNCHANGED <<task, objects, handles, received>>
    BY <1>11, <2>1 DEF PollNext, StartPoll, Subscribe, PollFails
  <2> QED BY <1>8, <1>9, <2>1
<1>12. ASSUME \A t \in Tasks : ~TaskNext(t), \A k \in Polls : ~PollNext(k)
       PROVE  UNCHANGED <<task, objects, handles, received>>
  BY <1>12 DEF Next, vars, StartListener, LoseRequest
<1> QED BY <1>9, <1>10, <1>11, <1>12

-----------------------------------------------------------------------------
(* The theorem *)

(* The initial states of the agents map to those of the abstract agreement. *)
LEMMA InitImplements == Init => Shared!AInit
<1> SUFFICES ASSUME Init PROVE Shared!AInit
  OBVIOUS
<1>1. OfferedMap = [t \in Tasks |-> {}]
  BY InitAnswers DEF Init, IdleTask, AnswersOffered, OfferedMap
<1>2. AgreedMap = [t \in Tasks |-> None]
  BY DEF Init, AgreedMap
<1>3. Committed = {}
  BY DEF Init, IdleTask, Owner, Committed
<1> QED BY <1>1, <1>2, <1>3
    DEF Init, Shared!AInit, OfferedMap, AgreedMap, Committed

(* The agents implement SharedAgreement: an agreement is made once, on an   *)
(* offered slot, and never changes; it is shared after it was made; and     *)
(* both calendars are committed to shared agreements only, the counterpart  *)
(* to the very one that the initiator holds.                                *)
THEOREM AgentsImplementSharedAgreement == Spec => AgreementIsShared
<1>1. Init => RefinementInv
  BY InitSettlement, InitAnswers DEF RefinementInv
<1>2. RefinementInv /\ [Next]_vars => RefinementInv'
  BY NextAgreement, NextMarks, NextReturns, NextCovers, NextAnswers
  DEF RefinementInv, SettlementInv
<1>3. RefinementInv /\ RefinementInv' /\ [Next]_vars
        => [Shared!ANext]_(Shared!avars)
  BY NextImplements DEF RefinementInv
<1> QED
  BY <1>1, <1>2, <1>3, InitImplements, PTL DEF Spec, AgreementIsShared, Shared!ASpec

=============================================================================
