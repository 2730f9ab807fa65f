------------------------ MODULE SchedulingAgentProofs ------------------------
(***************************************************************************)
(* Proofs about SchedulingAgent, for every set of principals, tasks and    *)
(* polls, every assignment of reasoners and every list of candidates.      *)
(***************************************************************************)
EXTENDS SchedulingAgent, SequenceTheorems, TLAPS

-----------------------------------------------------------------------------
(* The inductive invariant *)

(* Where a proposal stands, and that its object records what was answered. *)
ObjectsMatchTasks ==
  \A t \in Tasks :
    /\ task[t].pc # "idle" =>
         /\ task[t].me \in Principals
         /\ task[t].peer \in Principals
         /\ task[t].me # task[t].peer
    /\ task[t].pc \in {"idle", "proposing", "answered"} => objects[t] = None
    /\ task[t].pc \in {"promoting", "acknowledged"} => objects[t] # None
    /\ objects[t] # None =>
         /\ objects[t].owner = task[t].me
         /\ objects[t].peer = task[t].peer
         /\ task[t].reply # <<>>
         /\ objects[t].slot = Head(task[t].reply)
         /\ objects[t].duration = task[t].agreed

(* Handles are made from objects and survive their task. *)
HandlesHaveObjects ==
  \A t \in Tasks :
    /\ <<"promote", t>> \in wire => objects[t] # None
    /\ t \in handles => objects[t] # None
    /\ task[t].pc = "acknowledged" => t \in handles
    /\ t \in processed => t \in handles

(* A suspended poll works on handles its agent has received. *)
PollsHoldHandles ==
  \A k \in Polls : Polling(k) =>
    /\ poll[k].me \in Principals
    /\ poll[k].cur \in handles
    /\ poll[k].todo \subseteq handles
    /\ poll[k].cur \notin poll[k].todo
    /\ task[poll[k].cur].peer = poll[k].me
    /\ \A h \in poll[k].todo : task[h].peer = poll[k].me

(* Without overlapping polls, nobody else processes what a poll holds. *)
PollsAreExclusive ==
  /\ \A j, k \in Polls :
       Polling(j) /\ Polling(k) /\ poll[j].me = poll[k].me => j = k
  /\ \A k \in Polls : Polling(k) =>
       /\ poll[k].cur \notin processed
       /\ poll[k].todo \cap processed = {}

(* Every event booked for a task is at its owner, which is then done, or   *)
(* at its peer, which has then processed the handle.                       *)
BookingRecorded(p, e) ==
  e.of # None =>
    /\ objects[e.of] # None
    /\ e.time = ClockTime(objects[e.of].slot)
    /\ e.duration = objects[e.of].duration
    /\ \/ /\ p = task[e.of].me
          /\ task[e.of].pc = "done"
          /\ e.of \in handles \/ p \in SingleProcess
       \/ /\ p = task[e.of].peer
          /\ e.of \in processed

BookingsRecorded ==
  \A p \in Principals : \A i \in DOMAIN calendar[p].events :
    BookingRecorded(p, calendar[p].events[i])

AgreementInv ==
  /\ TypeOK
  /\ ObjectsMatchTasks
  /\ HandlesHaveObjects
  /\ PollsHoldHandles
  /\ BookingsRecorded

ExclusiveInv ==
  /\ AgreementInv
  /\ PollsAreExclusive
  /\ BookedOnce

-----------------------------------------------------------------------------
(* Lemmas about the operators *)

(* The clock time of an instant is one. *)
LEMMA ClockTimeTyped ==
  \A instant \in Instants : ClockTime(instant) \in ClockTimes
BY DEF ClockTime, ClockTimes, Instants, MinutesPerDay

(* book() keeps a calendar a calendar. *)
LEMMA BookTyped ==
  ASSUME NEW Titles, NEW cal \in Calendars(Titles), NEW time \in ClockTimes,
         NEW duration \in Nat, NEW of \in Titles
  PROVE  Book(cal, time, duration, of) \in Calendars(Titles)
<1>1. [time |-> time, duration |-> duration, of |-> of] \in Events(Titles)
  BY DEF Events
<1>2. cal.events \in Seq(Events(Titles)) /\ cal.version \in Nat
  BY DEF Calendars
<1>3. Append(cal.events, [time |-> time, duration |-> duration, of |-> of])
        \in Seq(Events(Titles))
  BY <1>1, <1>2
<1> QED BY <1>2, <1>3 DEF Book, Calendars

(* A reasoner answers with one of the candidates or with none. *)
LEMMA VerdictsListed ==
  ASSUME NEW p, NEW cands \in Seq(Instants), NEW duration,
         NEW v \in Verdicts(p, cands, duration)
  PROVE  v = <<>> \/ \E i \in DOMAIN cands : v = <<cands[i]>>
BY DEF Verdicts, ScriptedVerdicts, LLMVerdicts

LEMMA VerdictsTyped ==
  ASSUME NEW p, NEW cands \in Seq(Instants), NEW duration,
         NEW v \in Verdicts(p, cands, duration)
  PROVE  v \in Answers
<1>1. v = <<>> \/ \E i \in DOMAIN cands : v = <<cands[i]>>
  BY VerdictsListed
<1>2. <<>> \in Answers
  BY DEF Answers
<1>3. \A i \in DOMAIN cands : cands[i] \in Instants
  OBVIOUS
<1>4. \A x \in Instants : <<x>> \in Answers
  BY DEF Answers
<1> QED BY <1>1, <1>2, <1>3, <1>4

(* Narrowing leaves a list as it is, or nothing of it. *)
LEMMA NarrowedTyped ==
  ASSUME NEW cands, NEW duration \in Nat, NEW fields
  PROVE  /\ Narrowed(cands, duration, fields).cands \in {cands, <<>>}
         /\ Narrowed(cands, duration, fields).duration \in Nat
BY DEF Narrowed, DefaultDuration

(* What the peer hears of a proposal, and what it can have answered. *)
LEMMA RepliesTyped ==
  ASSUME TypeOK, NEW t \in Tasks
  PROVE  /\ Heard(t).cands \in {task[t].cands, <<>>}
         /\ Heard(t).cands \in Seq(Instants)
         /\ \A v : /\ Reply(t, v).cands \in {v, <<>>}
                  /\ Reply(t, v).duration \in Nat
<1>1. task[t].cands \in Seq(Instants) /\ task[t].duration \in Nat
  BY DEF TypeOK, TaskRecords
<1>2. Heard(t).cands \in {task[t].cands, <<>>} /\ Heard(t).duration \in Nat
  BY <1>1, NarrowedTyped DEF Heard
<1>3. Heard(t).cands \in Seq(Instants)
  <2>1. <<>> \in Seq(Instants)
    OBVIOUS
  <2> QED BY <1>1, <1>2, <2>1, Zenon
<1>4. \A v : Reply(t, v).cands \in {v, <<>>} /\ Reply(t, v).duration \in Nat
  BY <1>2, NarrowedTyped DEF Reply
<1> QED BY <1>2, <1>3, <1>4

-----------------------------------------------------------------------------
(* Types *)

(* Booking the slot of an answer or of an object. *)
LEMMA CalendarTyped ==
  ASSUME TypeOK, NEW p \in Principals, NEW instant \in Instants,
         NEW duration \in Nat, NEW t \in Tasks,
         calendar' = [calendar EXCEPT ![p] =
                        Book(@, ClockTime(instant), duration, t)]
  PROVE  calendar' \in [Principals -> Calendars(Tasks \cup {None})]
<1>1. calendar[p] \in Calendars(Tasks \cup {None})
  BY DEF TypeOK
<1>2. Book(calendar[p], ClockTime(instant), duration, t)
        \in Calendars(Tasks \cup {None})
  BY <1>1, BookTyped, ClockTimeTyped
<1> QED BY <1>2 DEF TypeOK

(* Going on to the next handle. *)
LEMMA VisitTyped ==
  ASSUME TypeOK, NEW k \in Polls, NEW rec \in PollRecords,
         NEW rest \in SUBSET Tasks, NEW seen, Visit(k, rec, rest, seen)
  PROVE  poll' \in [Polls -> PollRecords]
<1>1. IdlePoll \in PollRecords /\ [IdlePoll EXCEPT !.pc = "done"] \in PollRecords
  BY DEF IdlePoll, PollRecords
<1>2. \A h \in rest \ seen :
        [rec EXCEPT !.pc = "subscribing", !.todo = (rest \ seen) \ {h}, !.cur = h]
          \in PollRecords
  BY DEF PollRecords
<1> QED BY <1>1, <1>2 DEF TypeOK, Visit

LEMMA BeginPollTyped ==
  ASSUME TypeOK, NEW k \in Polls, NEW me \in Principals \cup {None},
         NEW peer \in Principals \cup {None}, BeginPoll(k, me, peer)
  PROVE  poll' \in [Polls -> PollRecords]
<1> DEFINE snapshot == {t \in handles : task[t].peer = me}
           rec == [poll[k] EXCEPT !.me = me, !.peer = peer,
                                  !.snapshot = snapshot]
<1>1. snapshot \in SUBSET Tasks
  BY DEF TypeOK
<1>2. rec \in PollRecords
  BY <1>1 DEF TypeOK, PollRecords
<1>3. Visit(k, rec, snapshot, processed)
  BY DEF BeginPoll
<1> HIDE DEF snapshot, rec
<1> QED BY <1>1, <1>2, <1>3, VisitTyped

LEMMA ContinueTyped ==
  ASSUME TypeOK, NEW t \in Tasks, NEW k \in Polls \cup {None}, Continue(t, k)
  PROVE  poll' \in [Polls -> PollRecords]
<1>1. CASE k = None
  BY <1>1 DEF Continue, TypeOK
<1>2. CASE k # None
  <2>1. task[t].peer \in Principals \cup {None} /\ task[t].me \in Principals \cup {None}
    BY DEF TypeOK, TaskRecords
  <2> QED BY <1>2, <2>1, BeginPollTyped DEF Continue
<1> QED BY <1>1, <1>2

(* Goto changes the place of a task only. *)
LEMMA GotoTyped ==
  ASSUME TypeOK, NEW t \in Tasks,
         NEW pc \in {"idle", "proposing", "answered", "promoting",
                     "acknowledged", "done", "failed"},
         Goto(t, pc)
  PROVE  task' \in [Tasks -> TaskRecords]
<1>1. task[t] \in TaskRecords
  BY DEF TypeOK
<1>2. [task[t] EXCEPT !.pc = pc] \in TaskRecords
  BY <1>1 DEF TaskRecords
<1> QED BY <1>2 DEF TypeOK, Goto

(* The initial states are well typed; then one lemma for each action. *)
LEMMA InitTyped == Init => TypeOK
<1> SUFFICES ASSUME Init PROVE TypeOK
  OBVIOUS
<1>1. IdleTask \in TaskRecords
  BY DEF IdleTask, TaskRecords, Answers
<1>2. IdlePoll \in PollRecords
  BY DEF IdlePoll, PollRecords
<1>3. \A p \in Principals :
        [events |-> InitialEvents[p], version |-> 0]
          \in Calendars(Tasks \cup {None})
  <2> SUFFICES ASSUME NEW p \in Principals
               PROVE  InitialEvents[p] \in Seq(Events(Tasks \cup {None}))
    BY DEF Calendars
  <2>1. InitialEvents[p] \in Seq(Events({None}))
    BY InitialEventsAssumption
  <2>2. Events({None}) \subseteq Events(Tasks \cup {None})
    BY DEF Events
  <2> QED BY <2>1, <2>2, SeqMonotonic
<1> QED BY <1>1, <1>2, <1>3 DEF Init, TypeOK

LEMMA ProposeTyped ==
  ASSUME TypeOK, NEW t \in Tasks, NEW me \in Principals,
         NEW peer \in Principals, NEW cands \in Offers,
         NEW duration \in Durations, Propose(t, me, peer, cands, duration)
  PROVE  TypeOK'
<1>1. [pc |-> "proposing", me |-> me, peer |-> peer, cands |-> cands,
       duration |-> duration, reply |-> <<>>, agreed |-> 0] \in TaskRecords
  BY OffersAssumption DEF TaskRecords, Answers
<1>2. task' \in [Tasks -> TaskRecords]
  BY <1>1 DEF TypeOK, Propose
<1>3. wire' \subseteq {"proposal", "promote"} \X Tasks
  BY DEF TypeOK, Propose
<1> QED BY <1>2, <1>3 DEF TypeOK, Propose

LEMMA SendFailsTyped ==
  ASSUME TypeOK, NEW t \in Tasks, SendFails(t)
  PROVE  TypeOK'
<1>1. task' \in [Tasks -> TaskRecords]
  BY GotoTyped DEF SendFails
<1> QED BY <1>1 DEF TypeOK, SendFails

LEMMA ReturnRejectedTyped ==
  ASSUME TypeOK, NEW t \in Tasks, NEW k \in Polls \cup {None},
         ReturnRejected(t, k)
  PROVE  TypeOK'
<1>1. task' \in [Tasks -> TaskRecords]
  BY GotoTyped DEF ReturnRejected
<1>2. poll' \in [Polls -> PollRecords]
  BY ContinueTyped DEF ReturnRejected
<1> QED BY <1>1, <1>2 DEF TypeOK, ReturnRejected

(* An answered task was started by somebody: part of ObjectsMatchTasks, and *)
(* what makes the new object a meeting.                                     *)
LEMMA CreateMeetingRecord ==
  ASSUME TypeOK, ObjectsMatchTasks, NEW t \in Tasks, CreateMeeting(t)
  PROVE  [owner |-> task[t].me, peer |-> task[t].peer,
          slot |-> Head(task[t].reply), duration |-> task[t].agreed,
          updated |-> clock] \in Meetings
<1>1. task[t].me \in Principals /\ task[t].peer \in Principals
  BY DEF CreateMeeting, ObjectsMatchTasks
<1>2. task[t].reply \in Seq(Instants) /\ task[t].agreed \in Nat
  BY DEF TypeOK, TaskRecords, Answers
<1>3. Head(task[t].reply) \in Instants
  BY <1>2 DEF CreateMeeting
<1> QED BY <1>1, <1>2, <1>3 DEF Meetings, TypeOK

LEMMA CreateMeetingTyped ==
  ASSUME TypeOK, ObjectsMatchTasks, NEW t \in Tasks, CreateMeeting(t)
  PROVE  /\ objects' \in [Tasks -> Meetings \cup {None}]
         /\ clock' \in Nat
         /\ task[t].me \in Principals
         /\ Head(task[t].reply) \in Instants
         /\ task[t].agreed \in Nat
<1>1. task[t].me \in Principals
  BY DEF CreateMeeting, ObjectsMatchTasks
<1>2. task[t].reply \in Seq(Instants) /\ task[t].agreed \in Nat
  BY DEF TypeOK, TaskRecords, Answers
<1>3. Head(task[t].reply) \in Instants
  BY <1>2 DEF CreateMeeting
<1>4. [owner |-> task[t].me, peer |-> task[t].peer,
       slot |-> Head(task[t].reply), duration |-> task[t].agreed,
       updated |-> clock] \in Meetings
  BY CreateMeetingRecord
<1> QED BY <1>1, <1>2, <1>3, <1>4 DEF CreateMeeting, TypeOK

LEMMA RaiseWithoutListenerTyped ==
  ASSUME TypeOK, ObjectsMatchTasks, NEW t \in Tasks, RaiseWithoutListener(t)
  PROVE  TypeOK'
<1>1. task' \in [Tasks -> TaskRecords]
  BY GotoTyped DEF RaiseWithoutListener
<1>2. objects' \in [Tasks -> Meetings \cup {None}] /\ clock' \in Nat
  BY CreateMeetingTyped DEF RaiseWithoutListener
<1> QED BY <1>1, <1>2 DEF TypeOK, RaiseWithoutListener

LEMMA BookInProcessTyped ==
  ASSUME TypeOK, ObjectsMatchTasks, NEW t \in Tasks, BookInProcess(t)
  PROVE  TypeOK'
<1>1. task' \in [Tasks -> TaskRecords]
  BY GotoTyped DEF BookInProcess
<1>2. /\ objects' \in [Tasks -> Meetings \cup {None}] /\ clock' \in Nat
      /\ task[t].me \in Principals /\ Head(task[t].reply) \in Instants
      /\ task[t].agreed \in Nat
  BY CreateMeetingTyped DEF BookInProcess
<1>3. calendar' \in [Principals -> Calendars(Tasks \cup {None})]
  BY <1>2, CalendarTyped DEF BookInProcess
<1> QED BY <1>1, <1>2, <1>3 DEF TypeOK, BookInProcess

LEMMA PromoteMeetingTyped ==
  ASSUME TypeOK, ObjectsMatchTasks, NEW t \in Tasks, PromoteMeeting(t)
  PROVE  TypeOK'
<1>1. task' \in [Tasks -> TaskRecords]
  BY GotoTyped DEF PromoteMeeting
<1>2. objects' \in [Tasks -> Meetings \cup {None}] /\ clock' \in Nat
  BY CreateMeetingTyped DEF PromoteMeeting
<1>3. wire' \subseteq {"proposal", "promote"} \X Tasks
  BY DEF TypeOK, PromoteMeeting
<1> QED BY <1>1, <1>2, <1>3 DEF TypeOK, PromoteMeeting

LEMMA BookOwnTyped ==
  ASSUME TypeOK, ObjectsMatchTasks, NEW t \in Tasks,
         NEW k \in Polls \cup {None}, BookOwn(t, k)
  PROVE  TypeOK'
<1>1. task' \in [Tasks -> TaskRecords]
  BY GotoTyped DEF BookOwn
<1>2. poll' \in [Polls -> PollRecords]
  BY ContinueTyped DEF BookOwn
<1>3. /\ task[t].me \in Principals
      /\ task[t].reply # <<>>
      /\ task[t].reply \in Seq(Instants)
      /\ task[t].agreed \in Nat
  BY DEF BookOwn, ObjectsMatchTasks, TypeOK, TaskRecords, Answers
<1>4. Head(task[t].reply) \in Instants
  BY <1>3
<1>5. calendar' \in [Principals -> Calendars(Tasks \cup {None})]
  BY <1>3, <1>4, CalendarTyped DEF BookOwn
<1> QED BY <1>1, <1>2, <1>5 DEF TypeOK, BookOwn

LEMMA HandleIncomingTyped ==
  ASSUME TypeOK, NEW t \in Tasks, HandleIncoming(t)
  PROVE  TypeOK'
<1>1. PICK v \in Verdicts(task[t].peer, Heard(t).cands, Heard(t).duration) :
        /\ lastVerdict' = [lastVerdict EXCEPT ![task[t].peer] = v]
        /\ task' = IF task[t].pc = "proposing"
                   THEN [task EXCEPT ![t].pc = "answered",
                                     ![t].reply = Reply(t, v).cands,
                                     ![t].agreed = Reply(t, v).duration]
                   ELSE task
  BY DEF HandleIncoming
<1> DEFINE reply == Reply(t, v).cands
           agreed == Reply(t, v).duration
<1>2. v \in Answers
  BY RepliesTyped, VerdictsTyped
<1>3. reply \in Answers /\ agreed \in Nat
  <2>1. <<>> \in Answers
    BY DEF Answers
  <2>2. reply \in {v, <<>>} /\ agreed \in Nat
    BY RepliesTyped
  <2> QED BY <1>2, <2>1, <2>2, Zenon
<1> HIDE DEF reply, agreed
<1>4. task' \in [Tasks -> TaskRecords]
  <2>1. task[t] \in TaskRecords
    BY DEF TypeOK
  <2>2. [task[t] EXCEPT !.pc = "answered", !.reply = reply, !.agreed = agreed]
          \in TaskRecords
    BY <1>3, <2>1 DEF TaskRecords
  <2>3. \/ task' = task
        \/ task' = [task EXCEPT ![t] = [task[t] EXCEPT !.pc = "answered", !.reply = reply,
                                                      !.agreed = agreed]]
    BY <1>1 DEF TypeOK, reply, agreed
  <2> QED BY <2>2, <2>3 DEF TypeOK
<1>5. lastVerdict' \in [Principals -> Answers \cup {None}]
  BY <1>1, <1>2 DEF TypeOK
<1> QED BY <1>4, <1>5 DEF TypeOK, HandleIncoming

(* What an answer changes of the tasks. *)
LEMMA HandleIncomingEffect ==
  ASSUME TypeOK, NEW t \in Tasks, HandleIncoming(t)
  PROVE  /\ \A s \in Tasks : s # t => task'[s] = task[s]
         /\ \/ task' = task
            \/ /\ task[t].pc = "proposing"
               /\ task'[t].pc = "answered"
               /\ task'[t].me = task[t].me
               /\ task'[t].peer = task[t].peer
               /\ task'[t].cands = task[t].cands
               /\ \/ task'[t].reply = <<>>
                  \/ \E i \in DOMAIN task[t].cands :
                       task'[t].reply = <<task[t].cands[i]>>
<1>1. PICK v \in Verdicts(task[t].peer, Heard(t).cands, Heard(t).duration) :
        task' = IF task[t].pc = "proposing"
                THEN [task EXCEPT ![t].pc = "answered",
                                  ![t].reply = Reply(t, v).cands,
                                  ![t].agreed = Reply(t, v).duration]
                ELSE task
  BY DEF HandleIncoming
<1> DEFINE reply == Reply(t, v).cands
           agreed == Reply(t, v).duration
<1>2. task[t] \in TaskRecords /\ DOMAIN task = Tasks
  BY DEF TypeOK
<1>3. v = <<>> \/ \E i \in DOMAIN task[t].cands : v = <<task[t].cands[i]>>
  <2>1. v = <<>> \/ \E i \in DOMAIN Heard(t).cands : v = <<Heard(t).cands[i]>>
    BY RepliesTyped, VerdictsListed
  <2>2. CASE Heard(t).cands = task[t].cands
    BY <2>1, <2>2
  <2>3. CASE Heard(t).cands = <<>>
    BY <2>1, <2>3
  <2> QED BY <2>2, <2>3, RepliesTyped
<1>4. reply \in {v, <<>>}
  BY RepliesTyped
<1>5. task' = task
      \/ /\ task[t].pc = "proposing"
         /\ task' = [task EXCEPT ![t].pc = "answered", ![t].reply = reply,
                                 ![t].agreed = agreed]
  BY <1>1
<1> HIDE DEF reply, agreed
<1>6. \A s \in Tasks : s # t => task'[s] = task[s]
  BY <1>2, <1>5
<1>7. ASSUME task' # task
      PROVE  task'[t] = [task[t] EXCEPT !.pc = "answered", !.reply = reply,
                                        !.agreed = agreed]
  BY <1>2, <1>5, <1>7
<1>8. ASSUME task' # task
      PROVE  /\ task'[t].pc = "answered"
             /\ task'[t].me = task[t].me
             /\ task'[t].peer = task[t].peer
             /\ task'[t].cands = task[t].cands
             /\ task'[t].reply = reply
  BY <1>2, <1>7, <1>8 DEF TaskRecords
<1> QED BY <1>3, <1>4, <1>5, <1>6, <1>8

LEMMA StoreHandleTyped ==
  ASSUME TypeOK, NEW t \in Tasks, StoreHandle(t)
  PROVE  TypeOK'
<1>1. task' \in [Tasks -> TaskRecords]
  BY GotoTyped DEF TypeOK, Goto, StoreHandle
<1> QED BY <1>1 DEF TypeOK, StoreHandle

LEMMA PollStepTyped ==
  ASSUME TypeOK, ObjectsMatchTasks, PollsHoldHandles, NEW k \in Polls,
         PollNext(k)
  PROVE  TypeOK'
<1>1. ASSUME NEW me \in Principals, NEW peer \in Principals,
             StartPoll(k, me, peer)
      PROVE  TypeOK'
  <2>1. poll' \in [Polls -> PollRecords]
    BY <1>1, BeginPollTyped DEF StartPoll
  <2> QED BY <1>1, <2>1 DEF TypeOK, StartPoll
<1>2. CASE Subscribe(k)
  <2>1. poll' \in [Polls -> PollRecords]
    BY <1>2 DEF TypeOK, PollRecords, Subscribe
  <2>2. poll[k].cur \in Tasks
    BY <1>2 DEF Subscribe, PollsHoldHandles, Polling, TypeOK
  <2> QED BY <1>2, <2>1, <2>2 DEF TypeOK, Subscribe
<1>3. CASE FetchAndBook(k)
  <2> DEFINE h == poll[k].cur
  <2>1. /\ h \in Tasks /\ poll[k].me \in Principals
        /\ poll[k].todo \in SUBSET Tasks
    BY <1>3 DEF FetchAndBook, PollsHoldHandles, Polling, TypeOK
  <2>2. objects[h] \in Meetings
    BY <1>3, <2>1 DEF FetchAndBook, AsksOwner, TypeOK
  <2>3. /\ Scoped(objects[h]) \in States
        /\ Scoped(objects[h]).slot \in Instants
        /\ Scoped(objects[h]).duration \in Nat
    BY <2>2 DEF Scoped, States, Meetings
  <2>4. received' \in [Tasks -> States \cup {None}]
    BY <1>3, <2>3 DEF FetchAndBook, TypeOK
  <2>5. calendar' \in [Principals -> Calendars(Tasks \cup {None})]
    <3>1. calendar' = [calendar EXCEPT ![poll[k].me] =
                         Book(@, ClockTime(Scoped(objects[h]).slot),
                              Scoped(objects[h]).duration, h)]
      BY <1>3 DEF FetchAndBook
    <3> QED BY <2>1, <2>3, <3>1, CalendarTyped
  <2>6. poll' \in [Polls -> PollRecords]
    <3>1. poll[k] \in PollRecords
      BY DEF TypeOK
    <3>2. Visit(k, poll[k], poll[k].todo, processed')
      BY <1>3 DEF FetchAndBook
    <3> QED BY <2>1, <3>1, <3>2, VisitTyped
  <2> QED BY <1>3, <2>1, <2>4, <2>5, <2>6 DEF TypeOK, FetchAndBook
<1>4. CASE PollFails(k)
  <2>1. [IdlePoll EXCEPT !.pc = "failed"] \in PollRecords
    BY DEF IdlePoll, PollRecords
  <2>2. poll' \in [Polls -> PollRecords]
    BY <1>4, <2>1 DEF TypeOK, PollFails
  <2>3. poll[k].cur \in Tasks
    BY <1>4 DEF PollFails, PollsHoldHandles, TypeOK
  <2> QED BY <1>4, <2>2, <2>3 DEF TypeOK, PollFails
<1> QED BY <1>1, <1>2, <1>3, <1>4 DEF PollNext

(* Every step keeps the types, given where the tasks and polls stand. *)
LEMMA NextTyped ==
  ASSUME TypeOK, ObjectsMatchTasks, PollsHoldHandles, [Next]_vars
  PROVE  TypeOK'
<1>1. ASSUME NEW p \in Principals, StartListener(p) PROVE TypeOK'
  BY <1>1 DEF TypeOK, StartListener
<1>2. ASSUME NEW t \in Tasks, TaskNext(t) PROVE TypeOK'
  <2>1. ASSUME NEW k \in Polls \cup {None},
               ReturnRejected(t, k) \/ BookOwn(t, k)
        PROVE  TypeOK'
    BY <2>1, ReturnRejectedTyped, BookOwnTyped
  <2> QED
    BY <1>2, <2>1, ProposeTyped, SendFailsTyped, RaiseWithoutListenerTyped,
       BookInProcessTyped, PromoteMeetingTyped, HandleIncomingTyped,
       StoreHandleTyped
    DEF TaskNext, Return
<1>3. ASSUME NEW k \in Polls, PollNext(k) PROVE TypeOK'
  BY <1>3, PollStepTyped
<1>4. ASSUME NEW m \in wire, LoseRequest(m) PROVE TypeOK'
  BY <1>4 DEF TypeOK, LoseRequest
<1>5. CASE UNCHANGED vars
  BY <1>5 DEF vars, TypeOK
<1> QED BY <1>1, <1>2, <1>3, <1>4, <1>5 DEF Next

-----------------------------------------------------------------------------
(* What no step takes back *)

(* A handle, a processed mark, an object and a returned proposal stay, a    *)
(* proposal that has started keeps its parties, and one that has made its   *)
(* object keeps the answer it was made from.                                *)
Keeps ==
  /\ handles \subseteq handles'
  /\ processed \subseteq processed'
  /\ \A t \in Tasks :
       /\ task[t].pc # "idle" =>
            /\ task'[t].pc # "idle"
            /\ task'[t].me = task[t].me
            /\ task'[t].peer = task[t].peer
       /\ objects[t] # None =>
            /\ objects'[t] = objects[t]
            /\ task'[t].reply = task[t].reply
            /\ task'[t].agreed = task[t].agreed
       /\ task[t].pc = "done" => task'[t].pc = "done"

(* The effect of Goto, field by field. *)
LEMMA GotoEffect ==
  ASSUME TypeOK, NEW t \in Tasks, NEW pc, Goto(t, pc)
  PROVE  /\ task'[t].pc = pc
         /\ \A s \in Tasks :
              /\ s # t => task'[s] = task[s]
              /\ task'[s].me = task[s].me
              /\ task'[s].peer = task[s].peer
              /\ task'[s].reply = task[s].reply
              /\ task'[s].agreed = task[s].agreed
<1>1. task[t] \in TaskRecords /\ DOMAIN task = Tasks
  BY DEF TypeOK
<1>2. task'[t] = [task[t] EXCEPT !.pc = pc]
  BY <1>1 DEF Goto
<1>3. \A s \in Tasks : s # t => task'[s] = task[s]
  BY <1>1 DEF Goto
<1> QED BY <1>1, <1>2, <1>3 DEF TaskRecords

(* The effect of CreateMeeting. *)
LEMMA CreateMeetingEffect ==
  ASSUME TypeOK, ObjectsMatchTasks, NEW t \in Tasks, CreateMeeting(t)
  PROVE  /\ objects[t] = None
         /\ objects'[t] = [owner |-> task[t].me, peer |-> task[t].peer,
                           slot |-> Head(task[t].reply),
                           duration |-> task[t].agreed, updated |-> clock]
         /\ objects'[t] # None
         /\ \A s \in Tasks : s # t => objects'[s] = objects[s]
<1>1. task[t].pc = "answered"
  BY DEF CreateMeeting
<1>2. objects[t] = None
  BY <1>1 DEF ObjectsMatchTasks
<1>3. DOMAIN objects = Tasks
  BY DEF TypeOK
<1>4. objects'[t] = [owner |-> task[t].me, peer |-> task[t].peer,
                     slot |-> Head(task[t].reply),
                     duration |-> task[t].agreed, updated |-> clock]
  BY <1>3 DEF CreateMeeting
<1>5. objects'[t] # None
  BY <1>4, CreateMeetingRecord, NoneIsNoMeeting
<1>6. \A s \in Tasks : s # t => objects'[s] = objects[s]
  BY <1>3 DEF CreateMeeting
<1> QED BY <1>2, <1>4, <1>5, <1>6

LEMMA MakingAgreementKeeps ==
  ASSUME TypeOK, ObjectsMatchTasks, NEW t \in Tasks, CreateMeeting(t),
         NEW pc \in {"promoting", "done", "failed"}, Goto(t, pc),
         UNCHANGED <<handles, processed>>
  PROVE  Keeps
<1>1. task[t].pc = "answered"
  BY DEF CreateMeeting
<1>2. \A s \in Tasks : /\ task'[s].me = task[s].me
                       /\ task'[s].peer = task[s].peer
                       /\ task'[s].reply = task[s].reply
                       /\ task'[s].agreed = task[s].agreed
  BY GotoEffect
<1>3. task'[t].pc = pc /\ \A s \in Tasks : s # t => task'[s] = task[s]
  BY GotoEffect
<1>4. \A s \in Tasks : objects[s] # None => objects'[s] = objects[s]
  BY CreateMeetingEffect
<1> QED BY <1>1, <1>2, <1>3, <1>4 DEF Keeps

(* No step takes any of it back. *)
LEMMA NextKeeps ==
  ASSUME TypeOK, ObjectsMatchTasks, [Next]_vars
  PROVE  Keeps
<1>1. ASSUME NEW t \in Tasks, TaskNext(t) PROVE Keeps
  <2>1. ASSUME NEW me \in Principals, NEW peer \in Principals,
               NEW cands \in Offers, NEW duration \in Durations,
               Propose(t, me, peer, cands, duration)
        PROVE  Keeps
    <3>1. \A s \in Tasks : task[s].pc # "idle" => task'[s] = task[s]
      BY <2>1 DEF Propose, TypeOK
    <3>2. objects[t] = None
      BY <2>1 DEF Propose, ObjectsMatchTasks
    <3>3. \A s \in Tasks : objects[s] # None => task'[s] = task[s]
      BY <2>1, <3>2 DEF Propose, TypeOK
    <3> QED BY <2>1, <3>1, <3>3 DEF Propose, Keeps
  <2>2. CASE SendFails(t)
    BY <2>2, GotoEffect DEF SendFails, Keeps
  <2>3. ASSUME NEW k \in Polls \cup {None}, ReturnRejected(t, k) PROVE Keeps
    BY <2>3, GotoEffect DEF ReturnRejected, Keeps
  <2>4. ASSUME NEW k \in Polls \cup {None}, BookOwn(t, k) PROVE Keeps
    BY <2>4, GotoEffect DEF BookOwn, Keeps
  <2>5. CASE RaiseWithoutListener(t)
    BY <2>5, MakingAgreementKeeps DEF RaiseWithoutListener
  <2>6. CASE BookInProcess(t)
    BY <2>6, MakingAgreementKeeps DEF BookInProcess
  <2>7. CASE PromoteMeeting(t)
    BY <2>7, MakingAgreementKeeps DEF PromoteMeeting
  <2>8. CASE HandleIncoming(t)
    <3>1. task[t].pc = "proposing" => objects[t] = None
      BY DEF ObjectsMatchTasks
    <3> QED BY <2>8, <3>1, HandleIncomingEffect DEF HandleIncoming, Keeps
  <2>9. CASE StoreHandle(t)
    <3>1. CASE task[t].pc = "promoting"
      BY <2>9, <3>1, GotoEffect DEF StoreHandle, Goto, Keeps
    <3>2. CASE task[t].pc # "promoting"
      BY <2>9, <3>2 DEF StoreHandle, Keeps
    <3> QED BY <3>1, <3>2
  <2> QED
    BY <1>1, <2>1, <2>2, <2>3, <2>4, <2>5, <2>6, <2>7, <2>8, <2>9
    DEF TaskNext, Return
<1>2. ASSUME NEW k \in Polls, PollNext(k) PROVE Keeps
  BY <1>2 DEF PollNext, StartPoll, Subscribe, FetchAndBook, PollFails, Keeps
<1>3. ASSUME NEW p \in Principals, StartListener(p) PROVE Keeps
  BY <1>3 DEF StartListener, Keeps
<1>4. ASSUME NEW m \in wire, LoseRequest(m) PROVE Keeps
  BY <1>4 DEF LoseRequest, Keeps
<1>5. CASE UNCHANGED vars
  BY <1>5 DEF vars, Keeps
<1> QED BY <1>1, <1>2, <1>3, <1>4, <1>5 DEF Next

-----------------------------------------------------------------------------
(* ObjectsMatchTasks is preserved *)

(* The part of ObjectsMatchTasks that is about one task. *)
Matches(t) ==
  /\ task[t].pc # "idle" =>
       /\ task[t].me \in Principals
       /\ task[t].peer \in Principals
       /\ task[t].me # task[t].peer
  /\ task[t].pc \in {"idle", "proposing", "answered"} => objects[t] = None
  /\ task[t].pc \in {"promoting", "acknowledged"} => objects[t] # None
  /\ objects[t] # None =>
       /\ objects[t].owner = task[t].me
       /\ objects[t].peer = task[t].peer
       /\ task[t].reply # <<>>
       /\ objects[t].slot = Head(task[t].reply)
       /\ objects[t].duration = task[t].agreed

LEMMA ObjectsMatchEach == ObjectsMatchTasks <=> \A t \in Tasks : Matches(t)
BY DEF ObjectsMatchTasks, Matches

(* A step that moves one task and creates no object. *)
LEMMA GotoMatches ==
  ASSUME TypeOK, ObjectsMatchTasks, NEW t \in Tasks,
         NEW pc \in {"acknowledged", "done", "failed"}, Goto(t, pc),
         UNCHANGED objects, task[t].pc # "idle",
         pc = "acknowledged" => objects[t] # None
  PROVE  ObjectsMatchTasks'
<1>1. /\ task'[t].pc = pc
      /\ \A s \in Tasks :
           /\ s # t => task'[s] = task[s]
           /\ task'[s].me = task[s].me
           /\ task'[s].peer = task[s].peer
           /\ task'[s].reply = task[s].reply
           /\ task'[s].agreed = task[s].agreed
  BY GotoEffect
<1>2. \A s \in Tasks : Matches(s)
  BY ObjectsMatchEach
<1>3. Matches(t)'
  BY <1>1, <1>2 DEF Matches
<1>4. \A s \in Tasks : s # t => Matches(s)'
  BY <1>1, <1>2 DEF Matches
<1> QED BY <1>3, <1>4, ObjectsMatchEach DEF ObjectsMatchTasks, Matches

(* A step that moves one task and creates its object. *)
LEMMA CreateMeetingMatches ==
  ASSUME TypeOK, ObjectsMatchTasks, NEW t \in Tasks, CreateMeeting(t),
         NEW pc \in {"promoting", "done", "failed"}, Goto(t, pc)
  PROVE  ObjectsMatchTasks'
<1>1. /\ task'[t].pc = pc
      /\ \A s \in Tasks :
           /\ s # t => task'[s] = task[s]
           /\ task'[s].me = task[s].me
           /\ task'[s].peer = task[s].peer
           /\ task'[s].reply = task[s].reply
           /\ task'[s].agreed = task[s].agreed
  BY GotoEffect
<1>2. \A s \in Tasks : Matches(s)
  BY ObjectsMatchEach
<1>3. task[t].pc = "answered" /\ task[t].reply # <<>>
  BY DEF CreateMeeting
<1>4. /\ objects'[t] = [owner |-> task[t].me, peer |-> task[t].peer,
                        slot |-> Head(task[t].reply),
                        duration |-> task[t].agreed, updated |-> clock]
      /\ objects'[t] # None
      /\ \A s \in Tasks : s # t => objects'[s] = objects[s]
  BY CreateMeetingEffect
<1>5. Matches(t)'
  BY <1>1, <1>2, <1>3, <1>4 DEF Matches
<1>6. \A s \in Tasks : s # t => Matches(s)'
  BY <1>1, <1>2, <1>4 DEF Matches
<1> QED BY <1>5, <1>6 DEF ObjectsMatchTasks, Matches

(* Every step keeps each task and its object in accord. *)
LEMMA NextObjects ==
  ASSUME TypeOK, ObjectsMatchTasks, [Next]_vars
  PROVE  ObjectsMatchTasks'
<1>1. ASSUME NEW t \in Tasks, TaskNext(t) PROVE ObjectsMatchTasks'
  <2>1. ASSUME NEW me \in Principals, NEW peer \in Principals,
               NEW cands \in Offers, NEW duration \in Durations,
               Propose(t, me, peer, cands, duration)
        PROVE  ObjectsMatchTasks'
    <3>1. \A s \in Tasks : Matches(s)
      BY ObjectsMatchEach
    <3>2. /\ task'[t] = [pc |-> "proposing", me |-> me, peer |-> peer,
                         cands |-> cands, duration |-> duration,
                         reply |-> <<>>, agreed |-> 0]
          /\ \A s \in Tasks : s # t => task'[s] = task[s]
      BY <2>1 DEF Propose, TypeOK
    <3>3. Matches(t)'
      BY <2>1, <3>1, <3>2 DEF Propose, Matches
    <3>4. \A s \in Tasks : s # t => Matches(s)'
      BY <2>1, <3>1, <3>2 DEF Propose, Matches
    <3> QED BY <3>3, <3>4 DEF ObjectsMatchTasks, Matches
  <2>2. CASE SendFails(t)
    <3>1. Goto(t, "failed") /\ task[t].pc # "idle" /\ UNCHANGED objects
      BY <2>2 DEF SendFails
    <3> QED BY <3>1, GotoMatches
  <2>3. ASSUME NEW k \in Polls \cup {None}, ReturnRejected(t, k)
        PROVE  ObjectsMatchTasks'
    <3>1. Goto(t, "done") /\ task[t].pc # "idle" /\ UNCHANGED objects
      BY <2>3 DEF ReturnRejected
    <3> QED BY <3>1, GotoMatches
  <2>4. ASSUME NEW k \in Polls \cup {None}, BookOwn(t, k)
        PROVE  ObjectsMatchTasks'
    <3>1. Goto(t, "done") /\ task[t].pc # "idle" /\ UNCHANGED objects
      BY <2>4 DEF BookOwn
    <3> QED BY <3>1, GotoMatches
  <2>5. CASE RaiseWithoutListener(t)
    BY <2>5, CreateMeetingMatches DEF RaiseWithoutListener
  <2>6. CASE BookInProcess(t)
    BY <2>6, CreateMeetingMatches DEF BookInProcess
  <2>7. CASE PromoteMeeting(t)
    BY <2>7, CreateMeetingMatches DEF PromoteMeeting
  <2>8. CASE HandleIncoming(t)
    <3>1. \A s \in Tasks : Matches(s)
      BY ObjectsMatchEach
    <3>2. UNCHANGED objects
      BY <2>8 DEF HandleIncoming
    <3>3. Matches(t)'
      BY <2>8, <3>1, <3>2, HandleIncomingEffect DEF Matches
    <3>4. \A s \in Tasks : s # t => Matches(s)'
      BY <2>8, <3>1, <3>2, HandleIncomingEffect DEF Matches
    <3> QED BY <3>3, <3>4 DEF ObjectsMatchTasks, Matches
  <2>9. CASE StoreHandle(t)
    <3>1. CASE task[t].pc = "promoting"
      <4>1. Goto(t, "acknowledged") /\ UNCHANGED objects
        BY <2>9, <3>1 DEF StoreHandle, Goto
      <4>2. objects[t] # None
        BY <3>1 DEF ObjectsMatchTasks
      <4> QED BY <3>1, <4>1, <4>2, GotoMatches
    <3>2. CASE task[t].pc # "promoting"
      BY <2>9, <3>2 DEF StoreHandle, ObjectsMatchTasks
    <3> QED BY <3>1, <3>2
  <2> QED
    BY <1>1, <2>1, <2>2, <2>3, <2>4, <2>5, <2>6, <2>7, <2>8, <2>9
    DEF TaskNext, Return
<1>2. ASSUME NEW k \in Polls, PollNext(k) PROVE ObjectsMatchTasks'
  BY <1>2
  DEF PollNext, StartPoll, Subscribe, FetchAndBook, PollFails, ObjectsMatchTasks
<1>3. ASSUME NEW p \in Principals, StartListener(p) PROVE ObjectsMatchTasks'
  BY <1>3 DEF StartListener, ObjectsMatchTasks
<1>4. ASSUME NEW m \in wire, LoseRequest(m) PROVE ObjectsMatchTasks'
  BY <1>4 DEF LoseRequest, ObjectsMatchTasks
<1>5. CASE UNCHANGED vars
  BY <1>5 DEF vars, ObjectsMatchTasks
<1> QED BY <1>1, <1>2, <1>3, <1>4, <1>5 DEF Next

-----------------------------------------------------------------------------
(* HandlesHaveObjects is preserved *)

LEMMA HandlesGrow ==
  ASSUME Keeps, HandlesHaveObjects,
         \A s \in Tasks :
           /\ <<"promote", s>> \in wire' =>
                <<"promote", s>> \in wire \/ objects'[s] # None
           /\ s \in handles' => s \in handles \/ objects[s] # None
           /\ task'[s].pc = "acknowledged" =>
                task[s].pc = "acknowledged" \/ s \in handles'
           /\ s \in processed' => s \in processed \/ s \in handles
  PROVE  HandlesHaveObjects'
BY DEF Keeps, HandlesHaveObjects

LEMMA GotoHandles ==
  ASSUME TypeOK, Keeps, HandlesHaveObjects, NEW t \in Tasks,
         NEW pc \in {"promoting", "done", "failed"}, Goto(t, pc),
         UNCHANGED <<wire, handles, processed>>
  PROVE  HandlesHaveObjects'
<1>1. task'[t].pc = pc /\ \A s \in Tasks : s # t => task'[s] = task[s]
  BY GotoEffect
<1> QED BY <1>1, HandlesGrow

(* Every step keeps an object behind each handle, and a handle behind each mark. *)
LEMMA NextHandles ==
  ASSUME TypeOK, Keeps, ObjectsMatchTasks, HandlesHaveObjects,
         PollsHoldHandles, [Next]_vars
  PROVE  HandlesHaveObjects'
<1>1. ASSUME NEW t \in Tasks, TaskNext(t) PROVE HandlesHaveObjects'
  <2>1. ASSUME NEW me \in Principals, NEW peer \in Principals,
               NEW cands \in Offers, NEW duration \in Durations,
               Propose(t, me, peer, cands, duration)
        PROVE  HandlesHaveObjects'
    <3>1. task'[t].pc = "proposing" /\ \A s \in Tasks : s # t => task'[s] = task[s]
      BY <2>1 DEF Propose, TypeOK
    <3>2. \A s \in Tasks : <<"promote", s>> \in wire' => <<"promote", s>> \in wire
      BY <2>1 DEF Propose
    <3> QED BY <2>1, <3>1, <3>2, HandlesGrow DEF Propose
  <2>2. CASE SendFails(t)
    <3>1. Goto(t, "failed") /\ UNCHANGED <<wire, handles, processed>>
      BY <2>2 DEF SendFails
    <3> QED BY <3>1, GotoHandles
  <2>3. ASSUME NEW k \in Polls \cup {None}, ReturnRejected(t, k)
        PROVE  HandlesHaveObjects'
    <3>1. Goto(t, "done") /\ UNCHANGED <<wire, handles, processed>>
      BY <2>3 DEF ReturnRejected
    <3> QED BY <3>1, GotoHandles
  <2>4. ASSUME NEW k \in Polls \cup {None}, BookOwn(t, k)
        PROVE  HandlesHaveObjects'
    <3>1. Goto(t, "done") /\ UNCHANGED <<wire, handles, processed>>
      BY <2>4 DEF BookOwn
    <3> QED BY <3>1, GotoHandles
  <2>5. CASE RaiseWithoutListener(t)
    <3>1. Goto(t, "failed") /\ UNCHANGED <<wire, handles, processed>>
      BY <2>5 DEF RaiseWithoutListener
    <3> QED BY <3>1, GotoHandles
  <2>6. CASE BookInProcess(t)
    <3>1. Goto(t, "done") /\ UNCHANGED <<wire, handles, processed>>
      BY <2>6 DEF BookInProcess
    <3> QED BY <3>1, GotoHandles
  <2>7. CASE PromoteMeeting(t)
    <3>1. /\ Goto(t, "promoting") /\ CreateMeeting(t)
          /\ UNCHANGED <<handles, processed>>
          /\ wire' = wire \cup {<<"promote", t>>}
      BY <2>7 DEF PromoteMeeting
    <3>2. task'[t].pc = "promoting" /\ \A s \in Tasks : s # t => task'[s] = task[s]
      BY <3>1, GotoEffect
    <3>3. objects'[t] # None
      BY <3>1, CreateMeetingEffect
    <3> QED BY <3>1, <3>2, <3>3, HandlesGrow
  <2>8. CASE HandleIncoming(t)
    <3>1. PICK v : task' = IF task[t].pc = "proposing"
                           THEN [task EXCEPT ![t].pc = "answered", ![t].reply = v]
                           ELSE task
      BY <2>8 DEF HandleIncoming
    <3>2. task[t] \in TaskRecords /\ DOMAIN task = Tasks
      BY DEF TypeOK
    <3>3. \A s \in Tasks : s # t => task'[s] = task[s]
      BY <3>1, <3>2
    <3>4. task'[t].pc = "answered" \/ task'[t].pc = task[t].pc
      BY <3>1, <3>2 DEF TaskRecords
    <3> QED BY <2>8, <3>3, <3>4, HandlesGrow DEF HandleIncoming
  <2>9. CASE StoreHandle(t)
    <3>1. \A s \in Tasks : s # t => task'[s] = task[s]
      BY <2>9 DEF StoreHandle, TypeOK
    <3>2. objects[t] # None
      BY <2>9 DEF StoreHandle, HandlesHaveObjects
    <3> QED BY <2>9, <3>1, <3>2, HandlesGrow DEF StoreHandle
  <2> QED
    BY <1>1, <2>1, <2>2, <2>3, <2>4, <2>5, <2>6, <2>7, <2>8, <2>9
    DEF TaskNext, Return
<1>2. ASSUME NEW k \in Polls, PollNext(k) PROVE HandlesHaveObjects'
  <2>1. UNCHANGED <<task, wire, handles>>
    BY <1>2 DEF PollNext, StartPoll, Subscribe, FetchAndBook, PollFails
  <2>2. processed' \subseteq processed \cup handles
    BY <1>2
    DEF PollNext, StartPoll, Subscribe, FetchAndBook, PollFails,
        PollsHoldHandles, Polling
  <2> QED BY <2>1, <2>2, HandlesGrow
<1>3. ASSUME NEW p \in Principals, StartListener(p) PROVE HandlesHaveObjects'
  BY <1>3 DEF StartListener, HandlesHaveObjects
<1>4. ASSUME NEW m \in wire, LoseRequest(m) PROVE HandlesHaveObjects'
  <2>1. UNCHANGED <<task, handles, processed>> /\ wire' \subseteq wire
    BY <1>4 DEF LoseRequest
  <2> QED BY <2>1, HandlesGrow
<1>5. CASE UNCHANGED vars
  BY <1>5 DEF vars, HandlesHaveObjects
<1> QED BY <1>1, <1>2, <1>3, <1>4, <1>5 DEF Next

-----------------------------------------------------------------------------
(* PollsHoldHandles is preserved *)

(* The part of PollsHoldHandles that is about one poll. *)
Holds(k) ==
  Polling(k) =>
    /\ poll[k].me \in Principals
    /\ poll[k].cur \in handles
    /\ poll[k].todo \subseteq handles
    /\ poll[k].cur \notin poll[k].todo
    /\ task[poll[k].cur].peer = poll[k].me
    /\ \A h \in poll[k].todo : task[h].peer = poll[k].me

LEMMA HoldsEach == PollsHoldHandles <=> \A k \in Polls : Holds(k)
BY DEF PollsHoldHandles, Holds

(* What a handle says of its task. *)
LEMMA HandleParties ==
  ASSUME ObjectsMatchTasks, HandlesHaveObjects, TypeOK, NEW h \in handles
  PROVE  /\ h \in Tasks
         /\ objects[h] # None
         /\ task[h].pc # "idle"
         /\ task[h].peer \in Principals
         /\ task[h].me # task[h].peer
<1>1. h \in Tasks
  BY DEF TypeOK
<1>2. objects[h] # None
  BY <1>1 DEF HandlesHaveObjects
<1>3. task[h].pc # "idle"
  BY <1>1, <1>2 DEF ObjectsMatchTasks
<1> QED BY <1>1, <1>2, <1>3 DEF ObjectsMatchTasks

(* The effect of going on to the next handle: k is over, or holds a rest    *)
(* that is not processed.                                                   *)
LEMMA VisitEffect ==
  ASSUME TypeOK, NEW k \in Polls, NEW rec \in PollRecords, NEW rest, NEW seen,
         Visit(k, rec, rest, seen)
  PROVE  /\ \A j \in Polls : j # k => poll'[j] = poll[j]
         /\ Polling(k)' =>
              /\ poll'[k].me = rec.me
              /\ poll'[k].cur \in rest \ seen
              /\ poll'[k].todo = (rest \ seen) \ {poll'[k].cur}
<1>1. DOMAIN poll = Polls
  BY DEF TypeOK
<1>2. \A j \in Polls : j # k => poll'[j] = poll[j]
  BY <1>1 DEF Visit
<1>3. CASE rest \ seen = {} /\ poll' = [poll EXCEPT ![k] = [IdlePoll EXCEPT !.pc = "done"]]
  <2>1. poll'[k] = [IdlePoll EXCEPT !.pc = "done"]
    BY <1>1, <1>3
  <2>2. poll'[k].pc = "done"
    BY <2>1 DEF IdlePoll
  <2> QED BY <1>2, <2>2 DEF Polling
<1>4. ASSUME NEW h \in rest \ seen,
             poll' = [poll EXCEPT ![k] =
                        [rec EXCEPT !.pc = "subscribing",
                                    !.todo = (rest \ seen) \ {h}, !.cur = h]]
      PROVE  /\ poll'[k].me = rec.me
             /\ poll'[k].cur \in rest \ seen
             /\ poll'[k].todo = (rest \ seen) \ {poll'[k].cur}
  <2>1. poll'[k] = [rec EXCEPT !.pc = "subscribing",
                               !.todo = (rest \ seen) \ {h}, !.cur = h]
    BY <1>1, <1>4
  <2> QED BY <2>1 DEF PollRecords
<1> QED BY <1>2, <1>3, <1>4 DEF Visit

LEMMA BeginPollEffect ==
  ASSUME TypeOK, NEW k \in Polls, NEW me \in Principals \cup {None},
         NEW peer \in Principals \cup {None}, BeginPoll(k, me, peer)
  PROVE  /\ \A j \in Polls : j # k => poll'[j] = poll[j]
         /\ ~PollsOverlap => \A j \in Polls : Polling(j) => poll[j].me # me
         /\ Polling(k)' =>
              /\ poll'[k].me = me
              /\ poll'[k].cur \in handles
              /\ poll'[k].todo \subseteq handles
              /\ poll'[k].cur \notin poll'[k].todo
              /\ task[poll'[k].cur].peer = me
              /\ \A h \in poll'[k].todo : task[h].peer = me
              /\ poll'[k].cur \notin processed
              /\ poll'[k].todo \cap processed = {}
<1> DEFINE snapshot == {t \in handles : task[t].peer = me}
           rec == [poll[k] EXCEPT !.me = me, !.peer = peer,
                                  !.snapshot = snapshot]
<1>1. snapshot \in SUBSET Tasks
  BY DEF TypeOK
<1>2. rec \in PollRecords /\ rec.me = me
  BY <1>1 DEF TypeOK, PollRecords
<1>3. Visit(k, rec, snapshot, processed)
  BY DEF BeginPoll
<1>4. ~PollsOverlap => \A j \in Polls : Polling(j) => poll[j].me # me
  BY DEF BeginPoll
<1> HIDE DEF rec
<1>5. /\ \A j \in Polls : j # k => poll'[j] = poll[j]
      /\ Polling(k)' =>
           /\ poll'[k].me = me
           /\ poll'[k].cur \in snapshot \ processed
           /\ poll'[k].todo = (snapshot \ processed) \ {poll'[k].cur}
  BY <1>2, <1>3, VisitEffect
<1> QED BY <1>4, <1>5

(* A suspended poll keeps its hold whatever the others do. *)
LEMMA HoldsOn ==
  ASSUME TypeOK, Keeps, ObjectsMatchTasks, HandlesHaveObjects,
         NEW j \in Polls, Holds(j),
         poll'[j].me = poll[j].me, poll'[j].cur = poll[j].cur,
         poll'[j].todo = poll[j].todo, Polling(j)' => Polling(j)
  PROVE  Holds(j)'
<1>1. \A h \in handles : h \in handles' /\ task'[h].peer = task[h].peer
  BY HandleParties DEF Keeps
<1> QED BY <1>1 DEF Holds

LEMMA HoldsFromStart ==
  ASSUME TypeOK, Keeps, ObjectsMatchTasks, HandlesHaveObjects,
         PollsHoldHandles, NEW k \in Polls, NEW me \in Principals \cup {None},
         NEW peer \in Principals \cup {None}, BeginPoll(k, me, peer)
  PROVE  PollsHoldHandles'
<1>1. \A h \in handles : /\ h \in handles'
                         /\ task'[h].peer = task[h].peer
                         /\ task[h].peer \in Principals
  BY HandleParties DEF Keeps
<1>2. Holds(k)'
  <2>1. Polling(k)' =>
          /\ poll'[k].me = me
          /\ poll'[k].cur \in handles
          /\ poll'[k].todo \subseteq handles
          /\ poll'[k].cur \notin poll'[k].todo
          /\ task[poll'[k].cur].peer = me
          /\ \A h \in poll'[k].todo : task[h].peer = me
    BY BeginPollEffect
  <2> QED BY <1>1, <2>1 DEF Holds
<1>3. ASSUME NEW j \in Polls, j # k PROVE Holds(j)'
  <2>1. poll'[j] = poll[j]
    BY <1>3, BeginPollEffect
  <2> QED BY <2>1, HoldsOn, HoldsEach DEF Polling
<1> QED BY <1>2, <1>3 DEF PollsHoldHandles, Holds

LEMMA HoldsWithPollsUnchanged ==
  ASSUME TypeOK, Keeps, ObjectsMatchTasks, HandlesHaveObjects,
         PollsHoldHandles, UNCHANGED poll
  PROVE  PollsHoldHandles'
<1>1. ASSUME NEW j \in Polls PROVE Holds(j)'
  BY HoldsOn, HoldsEach DEF Polling
<1> QED BY <1>1 DEF PollsHoldHandles, Holds

LEMMA HoldsAfterContinue ==
  ASSUME TypeOK, Keeps, ObjectsMatchTasks, HandlesHaveObjects,
         PollsHoldHandles, NEW t \in Tasks, NEW k \in Polls \cup {None},
         Continue(t, k)
  PROVE  PollsHoldHandles'
<1>1. CASE k = None
  BY <1>1, HoldsWithPollsUnchanged DEF Continue
<1>2. CASE k # None
  <2>1. task[t].peer \in Principals \cup {None} /\ task[t].me \in Principals \cup {None}
    BY DEF TypeOK, TaskRecords
  <2>2. k \in Polls /\ BeginPoll(k, task[t].peer, task[t].me)
    BY <1>2 DEF Continue
  <2> QED BY <2>1, <2>2, HoldsFromStart
<1> QED BY <1>1, <1>2

(* Every step keeps the polls working on handles that their agent received. *)
LEMMA NextPolls ==
  ASSUME TypeOK, Keeps, ObjectsMatchTasks, HandlesHaveObjects,
         PollsHoldHandles, [Next]_vars
  PROVE  PollsHoldHandles'
<1>1. ASSUME NEW t \in Tasks, TaskNext(t) PROVE PollsHoldHandles'
  <2>1. ASSUME NEW k \in Polls \cup {None},
               ReturnRejected(t, k) \/ BookOwn(t, k)
        PROVE  PollsHoldHandles'
    BY <2>1, HoldsAfterContinue DEF ReturnRejected, BookOwn
  <2>2. ASSUME ~Return(t) PROVE UNCHANGED poll
    BY <1>1, <2>2
    DEF TaskNext, Propose, SendFails, RaiseWithoutListener, BookInProcess,
        PromoteMeeting, HandleIncoming, StoreHandle
  <2> QED BY <2>1, <2>2, HoldsWithPollsUnchanged DEF Return
<1>2. ASSUME NEW k \in Polls, PollNext(k) PROVE PollsHoldHandles'
  <2>1. ASSUME NEW me \in Principals, NEW peer \in Principals,
               StartPoll(k, me, peer)
        PROVE  PollsHoldHandles'
    BY <2>1, HoldsFromStart DEF StartPoll
  <2>2. ASSUME Subscribe(k) \/ FetchAndBook(k) \/ PollFails(k),
               NEW j \in Polls, j # k
        PROVE  Holds(j)'
    <3>1. poll'[j] = poll[j]
      <4>1. CASE Subscribe(k)
        BY <2>2, <4>1 DEF Subscribe, TypeOK
      <4>2. CASE FetchAndBook(k)
        BY <2>2, <4>2, VisitEffect DEF FetchAndBook, TypeOK
      <4>3. CASE PollFails(k)
        BY <2>2, <4>3 DEF PollFails, TypeOK
      <4> QED BY <2>2, <4>1, <4>2, <4>3
    <3> QED BY <3>1, HoldsOn, HoldsEach DEF Polling
  <2>3. CASE Subscribe(k)
    <3>1. poll[k] \in PollRecords /\ DOMAIN poll = Polls
      BY DEF TypeOK
    <3>2. poll'[k] = [poll[k] EXCEPT !.pc = "fetching"]
      BY <2>3, <3>1 DEF Subscribe
    <3>3. /\ poll'[k].me = poll[k].me
          /\ poll'[k].cur = poll[k].cur
          /\ poll'[k].todo = poll[k].todo
      BY <3>1, <3>2 DEF PollRecords
    <3>4. Polling(k)
      BY <2>3 DEF Subscribe, Polling
    <3>5. Holds(k)'
      BY <3>3, <3>4, HoldsOn, HoldsEach
    <3> QED BY <2>2, <2>3, <3>5 DEF PollsHoldHandles, Holds
  <2>4. CASE FetchAndBook(k)
    <3>1. poll[k] \in PollRecords /\ Visit(k, poll[k], poll[k].todo, processed')
      BY <2>4 DEF FetchAndBook, TypeOK
    <3>2. Polling(k)' =>
            /\ poll'[k].me = poll[k].me
            /\ poll'[k].cur \in poll[k].todo \ processed'
            /\ poll'[k].todo = (poll[k].todo \ processed') \ {poll'[k].cur}
      BY <3>1, VisitEffect
    <3>3. Polling(k) /\ Holds(k) /\ UNCHANGED <<task, handles>>
      BY <2>4, HoldsEach DEF FetchAndBook, Polling
    <3>4. Holds(k)'
      BY <3>2, <3>3 DEF Holds
    <3> QED BY <2>2, <2>4, <3>4 DEF PollsHoldHandles, Holds
  <2>5. CASE PollFails(k)
    <3>1. poll'[k] = [IdlePoll EXCEPT !.pc = "failed"]
      BY <2>5 DEF PollFails, TypeOK
    <3>2. Holds(k)'
      BY <3>1 DEF IdlePoll, Holds, Polling
    <3> QED BY <2>2, <2>5, <3>2 DEF PollsHoldHandles, Holds
  <2> QED BY <1>2, <2>1, <2>3, <2>4, <2>5 DEF PollNext
<1>3. ASSUME NEW p \in Principals, StartListener(p) PROVE PollsHoldHandles'
  BY <1>3, HoldsWithPollsUnchanged DEF StartListener
<1>4. ASSUME NEW m \in wire, LoseRequest(m) PROVE PollsHoldHandles'
  BY <1>4, HoldsWithPollsUnchanged DEF LoseRequest
<1>5. CASE UNCHANGED vars
  BY <1>5, HoldsWithPollsUnchanged DEF vars
<1> QED BY <1>1, <1>2, <1>3, <1>4, <1>5 DEF Next

-----------------------------------------------------------------------------
(* BookingsRecorded is preserved *)

(* An event that is in a calendar names a task or nothing. *)
LEMMA EventTyped ==
  ASSUME TypeOK, NEW p \in Principals, NEW i \in DOMAIN calendar[p].events
  PROVE  calendar[p].events[i] \in Events(Tasks \cup {None})
<1>1. calendar[p].events \in Seq(Events(Tasks \cup {None}))
  BY DEF TypeOK, Calendars
<1> QED BY <1>1

(* A step books p's n-th event, and nothing else. *)
Appended(p, n, time, duration, t) ==
  /\ \A q \in Principals : q # p => calendar'[q] = calendar[q]
  /\ DOMAIN calendar'[p].events = 1 .. n
  /\ DOMAIN calendar[p].events = 1 .. n - 1
  /\ \A i \in DOMAIN calendar[p].events :
       calendar'[p].events[i] = calendar[p].events[i]
  /\ calendar'[p].events[n] =
       [time |-> time, duration |-> duration, of |-> t]

(* book() adds one event, at the end of one calendar. *)
LEMMA BookEffect ==
  ASSUME TypeOK, NEW p \in Principals, NEW time, NEW duration, NEW t,
         calendar' = [calendar EXCEPT ![p] = Book(@, time, duration, t)]
  PROVE  \E n \in Nat \ {0} : Appended(p, n, time, duration, t)
<1> DEFINE event == [time |-> time, duration |-> duration, of |-> t]
           events == calendar[p].events
<1>1. DOMAIN calendar = Principals
  BY DEF TypeOK
<1>2. events \in Seq(Events(Tasks \cup {None}))
  BY DEF TypeOK, Calendars
<1>3. calendar'[p].events = Append(events, event)
  BY <1>1 DEF Book
<1>4. \A q \in Principals : q # p => calendar'[q] = calendar[q]
  BY <1>1
<1> HIDE DEF event, events
<1>5. PICK n \in Nat \ {0} : n = Len(events) + 1
  BY <1>2
<1>6. /\ DOMAIN events = 1 .. n - 1
      /\ DOMAIN Append(events, event) = 1 .. n
      /\ \A i \in 1 .. n - 1 : Append(events, event)[i] = events[i]
      /\ Append(events, event)[n] = event
  BY <1>2, <1>5
<1> QED BY <1>3, <1>4, <1>6 DEF event, events, Appended

(* What is recorded stays so. *)
LEMMA RecordStays ==
  ASSUME TypeOK, Keeps, ObjectsMatchTasks, NEW p \in Principals,
         NEW e \in Events(Tasks \cup {None}), BookingRecorded(p, e)
  PROVE  BookingRecorded(p, e)'
<1>1. CASE e.of = None
  BY <1>1 DEF BookingRecorded
<1>2. CASE e.of # None
  <2>1. e.of \in Tasks
    BY <1>2 DEF Events
  <2>2. objects[e.of] # None /\ task[e.of].pc # "idle"
    BY <1>2, <2>1 DEF BookingRecorded, ObjectsMatchTasks
  <2>3. /\ objects'[e.of] = objects[e.of]
        /\ task'[e.of].me = task[e.of].me
        /\ task'[e.of].peer = task[e.of].peer
        /\ task[e.of].pc = "done" => task'[e.of].pc = "done"
        /\ e.of \in handles => e.of \in handles'
        /\ e.of \in processed => e.of \in processed'
    BY <2>1, <2>2 DEF Keeps
  <2> QED BY <1>2, <2>2, <2>3 DEF BookingRecorded
<1> QED BY <1>1, <1>2

LEMMA CalendarsUnchanged ==
  ASSUME TypeOK, Keeps, ObjectsMatchTasks, BookingsRecorded, UNCHANGED calendar
  PROVE  BookingsRecorded'
<1> SUFFICES ASSUME NEW p \in Principals, NEW i \in DOMAIN calendar[p].events
             PROVE  BookingRecorded(p, calendar[p].events[i])'
  BY DEF BookingsRecorded
<1>1. calendar[p].events[i] \in Events(Tasks \cup {None})
  BY EventTyped
<1>2. BookingRecorded(p, calendar[p].events[i])
  BY DEF BookingsRecorded
<1> DEFINE e == calendar[p].events[i]
<1>3. e' = e
  OBVIOUS
<1> QED BY <1>1, <1>2, <1>3, RecordStays DEF BookingRecorded

LEMMA BookingAdded ==
  ASSUME TypeOK, Keeps, ObjectsMatchTasks, BookingsRecorded,
         NEW p \in Principals, NEW time, NEW duration, NEW t \in Tasks,
         calendar' = [calendar EXCEPT ![p] = Book(@, time, duration, t)],
         objects'[t] # None,
         time = ClockTime(objects'[t].slot),
         duration = objects'[t].duration,
         \/ /\ p = task'[t].me
            /\ task'[t].pc = "done"
            /\ t \in handles' \/ p \in SingleProcess
         \/ p = task'[t].peer /\ t \in processed'
  PROVE  BookingsRecorded'
<1> SUFFICES ASSUME NEW q \in Principals, NEW i \in DOMAIN calendar'[q].events
             PROVE  BookingRecorded(q, calendar[q].events[i])'
  BY DEF BookingsRecorded
<1>1. PICK n \in Nat \ {0} : Appended(p, n, time, duration, t)
  BY BookEffect
<1>2. PICK e : e = calendar'[q].events[i]
  OBVIOUS
<1>3. CASE q = p /\ i = n
  <2>1. e = [time |-> time, duration |-> duration, of |-> t]
    BY <1>1, <1>2, <1>3 DEF Appended
  <2>2. e.time = time /\ e.duration = duration /\ e.of = t
    BY <2>1
  <2>3. BookingRecorded(p, e)'
    BY <2>2 DEF BookingRecorded
  <2> QED BY <1>2, <1>3, <2>3 DEF BookingRecorded
<1>4. CASE ~(q = p /\ i = n)
  <2>1. i \in DOMAIN calendar[q].events /\ e = calendar[q].events[i]
    BY <1>1, <1>2, <1>4 DEF Appended
  <2>2. e \in Events(Tasks \cup {None})
    BY <2>1, EventTyped
  <2>3. BookingRecorded(q, e)
    BY <2>1 DEF BookingsRecorded
  <2>4. BookingRecorded(q, e)'
    BY <2>2, <2>3, RecordStays
  <2> QED BY <1>2, <2>4 DEF BookingRecorded
<1> QED BY <1>3, <1>4

(* Every step keeps each booking recorded by a returned task or a mark. *)
LEMMA NextBookings ==
  ASSUME TypeOK, Keeps, ObjectsMatchTasks, HandlesHaveObjects,
         PollsHoldHandles, BookingsRecorded, [Next]_vars
  PROVE  BookingsRecorded'
<1>1. ASSUME NEW t \in Tasks, NEW k \in Polls \cup {None}, BookOwn(t, k)
      PROVE  BookingsRecorded'
  <2>1. /\ task[t].pc = "acknowledged" /\ Goto(t, "done")
        /\ UNCHANGED <<objects, handles>>
        /\ calendar' = [calendar EXCEPT ![task[t].me] =
                          Book(@, ClockTime(Head(task[t].reply)),
                               task[t].agreed, t)]
    BY <1>1 DEF BookOwn
  <2>2. /\ task'[t].pc = "done" /\ task'[t].me = task[t].me
        /\ task[t].me \in Principals /\ t \in handles
        /\ objects[t] # None
        /\ objects[t].slot = Head(task[t].reply)
        /\ objects[t].duration = task[t].agreed
    BY <2>1, GotoEffect DEF ObjectsMatchTasks, HandlesHaveObjects
  <2> QED BY <2>1, <2>2, BookingAdded
<1>2. ASSUME NEW t \in Tasks, BookInProcess(t) PROVE BookingsRecorded'
  <2>1. /\ CreateMeeting(t) /\ Goto(t, "done")
        /\ task[t].me \in SingleProcess
        /\ calendar' = [calendar EXCEPT ![task[t].me] =
                          Book(@, ClockTime(Head(task[t].reply)),
                               task[t].agreed, t)]
    BY <1>2 DEF BookInProcess
  <2>2. /\ task'[t].pc = "done" /\ task'[t].me = task[t].me
        /\ task[t].me \in Principals
    BY <2>1, GotoEffect DEF CreateMeeting, ObjectsMatchTasks
  <2>3. /\ objects'[t] # None
        /\ objects'[t].slot = Head(task[t].reply)
        /\ objects'[t].duration = task[t].agreed
    <3>1. /\ objects'[t] = [owner |-> task[t].me, peer |-> task[t].peer,
                            slot |-> Head(task[t].reply),
                            duration |-> task[t].agreed, updated |-> clock]
          /\ objects'[t] # None
      BY <2>1, CreateMeetingEffect
    <3> QED BY <3>1
  <2> QED BY <2>1, <2>2, <2>3, BookingAdded
<1>3. ASSUME NEW k \in Polls, FetchAndBook(k) PROVE BookingsRecorded'
  <2> DEFINE h == poll[k].cur
             state == Scoped(objects[h])
  <2>1. /\ calendar' = [calendar EXCEPT ![poll[k].me] =
                          Book(@, ClockTime(state.slot), state.duration, h)]
        /\ processed' = processed \cup {h}
        /\ UNCHANGED <<task, objects>>
    BY <1>3 DEF FetchAndBook
  <2>2. /\ poll[k].me \in Principals /\ h \in Tasks
        /\ task[h].peer = poll[k].me /\ objects[h] # None
    BY <1>3, HandleParties DEF FetchAndBook, Polling, PollsHoldHandles
  <2>3. state.slot = objects[h].slot /\ state.duration = objects[h].duration
    BY DEF Scoped
  <2> HIDE DEF state
  <2> QED BY <2>1, <2>2, <2>3, BookingAdded
<1>4. ASSUME \A t \in Tasks : ~BookInProcess(t),
             \A t \in Tasks, k \in Polls \cup {None} : ~BookOwn(t, k),
             \A k \in Polls : ~FetchAndBook(k)
      PROVE  UNCHANGED calendar
  BY <1>4
  DEF Next, TaskNext, PollNext, vars, StartListener, Propose, SendFails, Return,
      ReturnRejected, RaiseWithoutListener, PromoteMeeting, HandleIncoming,
      StoreHandle, StartPoll, Subscribe, PollFails, LoseRequest
<1> QED BY <1>1, <1>2, <1>3, <1>4, CalendarsUnchanged

-----------------------------------------------------------------------------
(* The theorems that hold however the polls overlap *)

(* Initially nothing is proposed, stored or booked. *)
LEMMA InitAgreement == Init => AgreementInv
<1> SUFFICES ASSUME Init PROVE AgreementInv
  OBVIOUS
<1>1. TypeOK
  BY InitTyped
<1>2. ObjectsMatchTasks /\ HandlesHaveObjects
  BY DEF Init, IdleTask, ObjectsMatchTasks, HandlesHaveObjects
<1>3. PollsHoldHandles
  BY DEF Init, IdlePoll, PollsHoldHandles, Polling
<1>4. BookingsRecorded
  <2> SUFFICES ASSUME NEW p \in Principals, NEW i \in DOMAIN calendar[p].events
               PROVE  calendar[p].events[i].of = None
    BY DEF BookingsRecorded, BookingRecorded
  <2>1. calendar[p].events = InitialEvents[p]
    BY DEF Init
  <2>2. InitialEvents[p] \in Seq(Events({None}))
    BY InitialEventsAssumption
  <2>3. InitialEvents[p][i] \in Events({None})
    BY <2>1, <2>2
  <2> QED BY <2>1, <2>3 DEF Events
<1> QED BY <1>1, <1>2, <1>3, <1>4 DEF AgreementInv

(* The invariant is inductive. *)
LEMMA NextAgreement == AgreementInv /\ [Next]_vars => AgreementInv' /\ Keeps
<1> SUFFICES ASSUME AgreementInv, [Next]_vars PROVE AgreementInv' /\ Keeps
  OBVIOUS
<1> USE DEF AgreementInv
<1>1. Keeps
  BY NextKeeps
<1>2. TypeOK'
  BY NextTyped
<1>3. ObjectsMatchTasks'
  BY NextObjects
<1>4. HandlesHaveObjects'
  BY <1>1, NextHandles
<1>5. PollsHoldHandles'
  BY <1>1, NextPolls
<1>6. BookingsRecorded'
  BY <1>1, NextBookings
<1> QED BY <1>1, <1>2, <1>3, <1>4, <1>5, <1>6

(* The inductive invariant holds in every state of every run. *)
THEOREM AgreementInvariant == Spec => []AgreementInv
<1>1. Init => AgreementInv
  BY InitAgreement
<1>2. AgreementInv /\ [Next]_vars => AgreementInv'
  BY NextAgreement
<1> QED BY <1>1, <1>2, PTL DEF Spec

(* Every variable of the agents keeps its type. *)
THEOREM TypeCorrect == Spec => []TypeOK
<1>1. AgreementInv => TypeOK
  BY DEF AgreementInv
<1> QED BY <1>1, AgreementInvariant, PTL

(* Whatever is in a calendar was agreed: it lies at the clock time of the   *)
(* canonical object, in the calendar of one of the object's two parties,    *)
(* and the counterpart holds the handle unless the owner's agent is an      *)
(* in-process one.                                                          *)
THEOREM BookingsAreAgreed == Spec => []BookingsAgreed
<1>1. AgreementInv => BookingsAgreed
  <2> SUFFICES ASSUME AgreementInv, NEW p \in Principals,
                      NEW i \in DOMAIN calendar[p].events,
                      calendar[p].events[i].of # None
               PROVE  LET event == calendar[p].events[i]
                          t == event.of
                      IN  /\ Agreed(t)
                          /\ event.time = ClockTime(objects[t].slot)
                          /\ event.duration = objects[t].duration
                          /\ \/ /\ p = objects[t].owner
                                /\ t \in handles \/ p \in SingleProcess
                             \/ p = objects[t].peer /\ t \in handles
    BY DEF BookingsAgreed
  <2> DEFINE event == calendar[p].events[i]
             t == event.of
  <2>1. t \in Tasks
    BY EventTyped DEF AgreementInv, Events
  <2>2. BookingRecorded(p, event)
    BY DEF AgreementInv, BookingsRecorded
  <2>3. t \in processed => t \in handles
    BY <2>1 DEF AgreementInv, HandlesHaveObjects
  <2>4. objects[t] # None =>
          objects[t].owner = task[t].me /\ objects[t].peer = task[t].peer
    BY <2>1 DEF AgreementInv, ObjectsMatchTasks
  <2> QED BY <2>2, <2>3, <2>4 DEF BookingRecorded, Agreed
<1> QED BY <1>1, AgreementInvariant, PTL

(* No step takes a handle, a processed mark, an agreement or a returned     *)
(* proposal back, and no agreement is ever changed.                         *)
THEOREM NothingTakenBack == Spec => [][Keeps]_vars
<1>1. AgreementInv /\ [Next]_vars => Keeps
  BY NextAgreement
<1> QED BY <1>1, AgreementInvariant, PTL DEF Spec

-----------------------------------------------------------------------------
(* Booking once, when the polls of one agent do not overlap *)

(* The part of PollsAreExclusive that is about one poll. *)
HoldsUnprocessed(k) ==
  Polling(k) =>
    /\ poll[k].cur \notin processed
    /\ poll[k].todo \cap processed = {}

LEMMA ExclusiveAfterStart ==
  ASSUME ~PollsOverlap, TypeOK, PollsAreExclusive, UNCHANGED processed,
         NEW k \in Polls, NEW me \in Principals \cup {None},
         NEW peer \in Principals \cup {None}, BeginPoll(k, me, peer)
  PROVE  PollsAreExclusive'
<1>1. /\ \A j \in Polls : j # k => poll'[j] = poll[j]
      /\ \A j \in Polls : Polling(j) => poll[j].me # me
      /\ Polling(k)' =>
           /\ poll'[k].me = me
           /\ poll'[k].cur \notin processed
           /\ poll'[k].todo \cap processed = {}
  BY BeginPollEffect
<1>2. \A j \in Polls : HoldsUnprocessed(j)'
  BY <1>1 DEF PollsAreExclusive, HoldsUnprocessed, Polling
<1>3. \A i, j \in Polls :
        Polling(i)' /\ Polling(j)' /\ poll'[i].me = poll'[j].me => i = j
  BY <1>1 DEF PollsAreExclusive, Polling
<1> QED BY <1>2, <1>3 DEF PollsAreExclusive, HoldsUnprocessed

LEMMA ExclusiveUnchanged ==
  ASSUME PollsAreExclusive, UNCHANGED <<poll, processed>>
  PROVE  PollsAreExclusive'
BY DEF PollsAreExclusive, Polling

(* While polls do not overlap, every step keeps them exclusive. *)
LEMMA NextExclusive ==
  ASSUME ~PollsOverlap, AgreementInv, PollsAreExclusive, [Next]_vars
  PROVE  PollsAreExclusive'
<1> USE DEF AgreementInv
<1>1. ASSUME NEW t \in Tasks, NEW k \in Polls \cup {None},
             ReturnRejected(t, k) \/ BookOwn(t, k)
      PROVE  PollsAreExclusive'
  <2>1. Continue(t, k) /\ UNCHANGED processed
    BY <1>1 DEF ReturnRejected, BookOwn
  <2>2. CASE k = None
    BY <2>1, <2>2, ExclusiveUnchanged DEF Continue
  <2>3. CASE k # None
    <3>1. task[t].peer \in Principals \cup {None} /\ task[t].me \in Principals \cup {None}
      BY DEF TypeOK, TaskRecords
    <3>2. k \in Polls /\ BeginPoll(k, task[t].peer, task[t].me)
      BY <2>1, <2>3 DEF Continue
    <3> QED BY <2>1, <3>1, <3>2, ExclusiveAfterStart
  <2> QED BY <2>2, <2>3
<1>2. ASSUME NEW k \in Polls, NEW me \in Principals, NEW peer \in Principals,
             StartPoll(k, me, peer)
      PROVE  PollsAreExclusive'
  BY <1>2, ExclusiveAfterStart DEF StartPoll
<1>3. ASSUME NEW k \in Polls, Subscribe(k) PROVE PollsAreExclusive'
  <2>1. /\ poll[k] \in PollRecords /\ DOMAIN poll = Polls
        /\ Polling(k) /\ UNCHANGED processed
    BY <1>3 DEF TypeOK, Subscribe, Polling
  <2>2. /\ poll'[k] = [poll[k] EXCEPT !.pc = "fetching"]
        /\ \A j \in Polls : j # k => poll'[j] = poll[j]
    BY <1>3, <2>1 DEF Subscribe
  <2>3. /\ poll'[k].me = poll[k].me
        /\ poll'[k].cur = poll[k].cur
        /\ poll'[k].todo = poll[k].todo
    BY <2>1, <2>2 DEF PollRecords
  <2>4. \A j \in Polls : /\ Polling(j)' => Polling(j)
                         /\ poll'[j].me = poll[j].me
                         /\ poll'[j].cur = poll[j].cur
                         /\ poll'[j].todo = poll[j].todo
    BY <2>1, <2>2, <2>3 DEF Polling
  <2> QED BY <2>1, <2>4 DEF PollsAreExclusive
<1>4. ASSUME NEW k \in Polls, FetchAndBook(k) PROVE PollsAreExclusive'
  <2>1. /\ poll[k] \in PollRecords /\ Polling(k)
        /\ Visit(k, poll[k], poll[k].todo, processed')
        /\ processed' = processed \cup {poll[k].cur}
        /\ task[poll[k].cur].peer = poll[k].me
    BY <1>4 DEF TypeOK, FetchAndBook, Polling, PollsHoldHandles
  <2>2. /\ \A j \in Polls : j # k => poll'[j] = poll[j]
        /\ Polling(k)' =>
             /\ poll'[k].me = poll[k].me
             /\ poll'[k].cur \in poll[k].todo \ processed'
             /\ poll'[k].todo = (poll[k].todo \ processed') \ {poll'[k].cur}
    BY <2>1, VisitEffect
  <2>3. HoldsUnprocessed(k)'
    BY <2>2 DEF HoldsUnprocessed
  <2>4. ASSUME NEW j \in Polls, j # k PROVE HoldsUnprocessed(j)'
    <3>1. SUFFICES ASSUME Polling(j)
                   PROVE  /\ poll[j].cur \notin processed'
                          /\ poll[j].todo \cap processed' = {}
      BY <2>2, <2>4 DEF HoldsUnprocessed, Polling
    <3>2. poll[j].me # poll[k].me
      BY <2>1, <2>4, <3>1 DEF PollsAreExclusive
    <3>3. poll[k].cur # poll[j].cur /\ poll[k].cur \notin poll[j].todo
      BY <2>1, <3>1, <3>2 DEF PollsHoldHandles
    <3> QED BY <2>1, <3>1, <3>3 DEF PollsAreExclusive
  <2>5. \A i, j \in Polls :
          Polling(i)' /\ Polling(j)' /\ poll'[i].me = poll'[j].me => i = j
    BY <2>1, <2>2 DEF PollsAreExclusive, Polling
  <2> QED BY <2>3, <2>4, <2>5 DEF PollsAreExclusive, HoldsUnprocessed
<1>5. ASSUME NEW k \in Polls, PollFails(k) PROVE PollsAreExclusive'
  <2>1. /\ poll'[k] = [IdlePoll EXCEPT !.pc = "failed"]
        /\ \A j \in Polls : j # k => poll'[j] = poll[j]
        /\ UNCHANGED processed
    BY <1>5 DEF PollFails, TypeOK
  <2>2. ~Polling(k)'
    BY <2>1 DEF IdlePoll, Polling
  <2> QED BY <2>1, <2>2 DEF PollsAreExclusive, Polling
<1>6. ASSUME \A t \in Tasks, k \in Polls \cup {None} :
               ~ReturnRejected(t, k) /\ ~BookOwn(t, k),
             \A k \in Polls : ~PollNext(k)
      PROVE  UNCHANGED <<poll, processed>>
  BY <1>6
  DEF Next, TaskNext, vars, StartListener, Propose, SendFails, Return,
      RaiseWithoutListener, BookInProcess, PromoteMeeting, HandleIncoming,
      StoreHandle, LoseRequest
<1> QED
  BY <1>1, <1>2, <1>3, <1>4, <1>5, <1>6, ExclusiveUnchanged DEF PollNext

(* A booking keeps BookedOnce when the meeting was not in the calendar. *)
LEMMA BookedOnceMore ==
  ASSUME TypeOK, BookedOnce, NEW p \in Principals, NEW time, NEW duration,
         NEW t \in Tasks,
         calendar' = [calendar EXCEPT ![p] = Book(@, time, duration, t)],
         \A i \in DOMAIN calendar[p].events : calendar[p].events[i].of # t
  PROVE  BookedOnce'
<1>1. PICK n \in Nat \ {0} : Appended(p, n, time, duration, t)
  BY BookEffect
<1> SUFFICES ASSUME NEW q \in Principals,
                    NEW i \in DOMAIN calendar'[q].events,
                    NEW j \in DOMAIN calendar'[q].events,
                    calendar'[q].events[i].of # None,
                    calendar'[q].events[i].of = calendar'[q].events[j].of
             PROVE  i = j
  BY DEF BookedOnce
<1>2. CASE q # p
  BY <1>1, <1>2 DEF Appended, BookedOnce
<1>3. CASE q = p
  <2>1. \A m \in DOMAIN calendar'[p].events :
          \/ m = n /\ calendar'[p].events[m].of = t
          \/ /\ m \in DOMAIN calendar[p].events
             /\ calendar'[p].events[m] = calendar[p].events[m]
    BY <1>1 DEF Appended
  <2> QED BY <1>3, <2>1 DEF BookedOnce
<1> QED BY <1>2, <1>3

(* While polls are exclusive, no step books a meeting a second time. *)
LEMMA NextBookedOnce ==
  ASSUME AgreementInv, PollsAreExclusive, BookedOnce, [Next]_vars
  PROVE  BookedOnce'
<1> USE DEF AgreementInv
<1>1. \A p \in Principals : \A i \in DOMAIN calendar[p].events :
        LET t == calendar[p].events[i].of
        IN  t # None =>
              /\ objects[t] # None
              /\ \/ p = task[t].me /\ task[t].pc = "done"
                 \/ p = task[t].peer /\ t \in processed
  BY DEF BookingsRecorded, BookingRecorded
<1>2. ASSUME NEW t \in Tasks, NEW k \in Polls \cup {None}, BookOwn(t, k)
      PROVE  BookedOnce'
  <2>1. /\ task[t].pc = "acknowledged"
        /\ calendar' = [calendar EXCEPT ![task[t].me] =
                          Book(@, ClockTime(Head(task[t].reply)),
                               task[t].agreed, t)]
    BY <1>2 DEF BookOwn
  <2>2. task[t].me \in Principals /\ task[t].me # task[t].peer
    BY <2>1 DEF ObjectsMatchTasks
  <2>3. \A i \in DOMAIN calendar[task[t].me].events :
          calendar[task[t].me].events[i].of # t
    BY <1>1, <2>1, <2>2, NoneAssumption
  <2> QED BY <2>1, <2>2, <2>3, BookedOnceMore
<1>3. ASSUME NEW t \in Tasks, BookInProcess(t) PROVE BookedOnce'
  <2>1. /\ task[t].pc = "answered"
        /\ calendar' = [calendar EXCEPT ![task[t].me] =
                          Book(@, ClockTime(Head(task[t].reply)),
                               task[t].agreed, t)]
    BY <1>3 DEF BookInProcess, CreateMeeting
  <2>2. task[t].me \in Principals /\ objects[t] = None
    BY <2>1 DEF ObjectsMatchTasks
  <2>3. \A i \in DOMAIN calendar[task[t].me].events :
          calendar[task[t].me].events[i].of # t
    BY <1>1, <2>2, NoneAssumption
  <2> QED BY <2>1, <2>2, <2>3, BookedOnceMore
<1>4. ASSUME NEW k \in Polls, FetchAndBook(k) PROVE BookedOnce'
  <2> DEFINE h == poll[k].cur
             state == Scoped(objects[h])
  <2>1. calendar' = [calendar EXCEPT ![poll[k].me] =
                       Book(@, ClockTime(state.slot), state.duration, h)]
    BY <1>4 DEF FetchAndBook
  <2>2. /\ poll[k].me \in Principals /\ h \in Tasks
        /\ task[h].peer = poll[k].me /\ task[h].me # poll[k].me
        /\ h \notin processed
    BY <1>4, HandleParties
    DEF FetchAndBook, Polling, PollsHoldHandles, PollsAreExclusive
  <2> HIDE DEF h, state
  <2>3. \A i \in DOMAIN calendar[poll[k].me].events :
          calendar[poll[k].me].events[i].of # h
    BY <1>1, <2>2, NoneAssumption
  <2> QED BY <2>1, <2>2, <2>3, BookedOnceMore
<1>5. ASSUME \A t \in Tasks : ~BookInProcess(t),
             \A t \in Tasks, k \in Polls \cup {None} : ~BookOwn(t, k),
             \A k \in Polls : ~FetchAndBook(k)
      PROVE  UNCHANGED calendar
  BY <1>5
  DEF Next, TaskNext, PollNext, vars, StartListener, Propose, SendFails, Return,
      ReturnRejected, RaiseWithoutListener, PromoteMeeting, HandleIncoming,
      StoreHandle, StartPoll, Subscribe, PollFails, LoseRequest
<1>6. UNCHANGED calendar => BookedOnce'
  BY DEF BookedOnce
<1> QED BY <1>2, <1>3, <1>4, <1>5, <1>6

(* Initially no poll is suspended and no meeting is booked. *)
LEMMA InitBookedOnce == Init => PollsAreExclusive /\ BookedOnce
<1> SUFFICES ASSUME Init PROVE PollsAreExclusive /\ BookedOnce
  OBVIOUS
<1>1. PollsAreExclusive
  BY DEF Init, IdlePoll, PollsAreExclusive, Polling
<1>2. ASSUME NEW p \in Principals, NEW i \in DOMAIN calendar[p].events
      PROVE  calendar[p].events[i].of = None
  <2>1. BookingRecorded(p, calendar[p].events[i])
    BY InitAgreement DEF AgreementInv, BookingsRecorded
  <2>2. calendar[p].events[i] \in Events(Tasks \cup {None})
    BY InitTyped, EventTyped
  <2>3. \A t \in Tasks : objects[t] = None
    BY DEF Init
  <2> QED BY <2>1, <2>2, <2>3 DEF BookingRecorded, Events
<1> QED BY <1>1, <1>2 DEF BookedOnce

(* A meeting is entered in a calendar at most once, whatever is lost and    *)
(* however often a poll is retried, if the polls of one agent do not        *)
(* overlap.  (Run overlapping_polls shows that they must not.)              *)
THEOREM MeetingsBookedOnce ==
  ASSUME ~PollsOverlap
  PROVE  Spec => []BookedOnce
<1>1. Init => ExclusiveInv
  BY InitAgreement, InitBookedOnce DEF ExclusiveInv
<1>2. ExclusiveInv /\ [Next]_vars => ExclusiveInv'
  BY NextAgreement, NextExclusive, NextBookedOnce DEF ExclusiveInv
<1>3. ExclusiveInv => BookedOnce
  BY DEF ExclusiveInv
<1> QED BY <1>1, <1>2, <1>3, PTL DEF Spec

=============================================================================
