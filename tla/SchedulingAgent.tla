--------------------------- MODULE SchedulingAgent ---------------------------
(***************************************************************************)
(* The scheduling agents of meshycal/scheduling_agent.py: one per          *)
(* principal, each with a calendar, an object store and a reasoner,        *)
(* talking through the Mesherra trust layer.                               *)
(*                                                                         *)
(* All coroutines of a process share one event loop, so a step of this     *)
(* module is the code between two awaits.  A proposal task is one call of  *)
(* propose_meeting_to, a poll one call of subscribe_to_pending_meetings;   *)
(* any number of either may be suspended at an await at the same time.     *)
(* A task makes at most one MeetingObject, so the task's name is also the  *)
(* name of its object and of the promotion handle that refers to it (a     *)
(* handle has exactly one receiver, the task's peer).                      *)
(*                                                                         *)
(* Mesherra is not part of the repository.  Its calls are modelled by what *)
(* the code relies on: a request is served at most once, send_to returns   *)
(* after the peer served the request or raises at any time before, and a   *)
(* request whose sender gave up may still be served.                       *)
(***************************************************************************)
EXTENDS Calendar

CONSTANTS
  Principals,       \* the users, one scheduling agent each
  Tasks,            \* calls of propose_meeting_to
  Polls,            \* calls of subscribe_to_pending_meetings, reusable
  Offers,           \* candidate lists a caller may propose
  Durations,        \* meeting lengths a caller may propose
  Reasoner,         \* Reasoner[p]: "scripted" or "llm"
  Discloses,        \* Discloses[p][q]: fields that get through from p to q
  SingleProcess,    \* agents built with single_process_mode=True
  InitialEvents,    \* InitialEvents[p]: what p's calendar holds at the start
  PollsOverlap,     \* may two polls of one agent be suspended together?
  None              \* no value

ASSUME OffersAssumption ==
  /\ Offers \subseteq Seq(Instants)
  /\ Durations \subseteq Nat \ {0}

(* The fields of a proposal or answer that are read again. *)
Fields == {"candidates", "duration_minutes"}

ASSUME AgentsAssumption ==
  /\ Discloses \in [Principals -> [Principals -> SUBSET Fields]]
  /\ Reasoner \in [Principals -> {"scripted", "llm"}]
  /\ SingleProcess \subseteq Principals
  /\ PollsOverlap \in BOOLEAN

ASSUME NoneAssumption ==
  /\ None \notin Tasks
  /\ None \notin Polls
  /\ None \notin Principals

(* default_candidate_slots: the next three weekdays at 14:00, whatever the  *)
(* calendar holds.  Day 0 is a Monday.                                     *)
DefaultCandidates(today) ==
  LET IsWeekday(day) == day % 7 < 5
      days == SelectSeq([i \in 1 .. 7 |-> today + i], IsWeekday)
  IN  [i \in 1 .. 3 |-> days[i] * MinutesPerDay + 14 * 60]

(* An event is booked for a task's meeting, or was there from the start. *)
ASSUME InitialEventsAssumption ==
  InitialEvents \in [Principals -> Seq(Events({None}))]

-----------------------------------------------------------------------------

VARIABLES
  listening,    \* principals whose agent has a listener URL (_my_url)
  task,         \* the proposal tasks
  wire,         \* requests sent and not yet served: <<"proposal" | "promote", t>>
  lastVerdict,  \* _last_verdict of each agent
  objects,      \* the MeetingObjects, each in its owner's object store
  clock,        \* creation order of the objects (updated_at)
  handles,      \* promotion handles stored at their receiver
  subscribed,   \* handles with an active subscription at their owner
  received,     \* _received_meeting_states
  processed,    \* _processed_meeting_handles
  poll,         \* the polls
  calendar      \* each agent's CalendarObject

vars == <<listening, task, wire, lastVerdict, objects, clock, handles,
          subscribed, received, processed, poll, calendar>>

(* A negotiation's answer: the candidates field of the payload of an       *)
(* ACCEPTANCE, the chosen slot alone or, for a rejection, nothing.         *)
Answers == {a \in Seq(Instants) : Len(a) <= 1}

Meetings == [owner : Principals, peer : Principals, slot : Instants,
             duration : Nat, updated : Nat]

(* What MEETING_SCOPE_FIELDS lets the counterpart see: not the attendees. *)
Scoped(meeting) == [slot |-> meeting.slot, duration |-> meeting.duration]

States == [slot : Instants, duration : Nat]

ASSUME NoneIsNoMeeting == None \notin Meetings /\ None \notin States

TaskRecords ==
  [pc : {"idle", "proposing", "answered", "promoting", "acknowledged",
         "done", "failed"},
   me : Principals \cup {None}, peer : Principals \cup {None},
   cands : Seq(Instants), duration : Nat, reply : Answers, agreed : Nat]

IdleTask ==
  [pc |-> "idle", me |-> None, peer |-> None, cands |-> <<>>,
   duration |-> 0, reply |-> <<>>, agreed |-> 0]

PollRecords ==
  [pc : {"idle", "subscribing", "fetching", "done", "failed"},
   me : Principals \cup {None}, peer : Principals \cup {None},
   snapshot : SUBSET Tasks, todo : SUBSET Tasks, cur : Tasks \cup {None}]

IdlePoll ==
  [pc |-> "idle", me |-> None, peer |-> None, snapshot |-> {}, todo |-> {},
   cur |-> None]

TypeOK ==
  /\ listening \subseteq Principals
  /\ task \in [Tasks -> TaskRecords]
  /\ wire \subseteq {"proposal", "promote"} \X Tasks
  /\ lastVerdict \in [Principals -> Answers \cup {None}]
  /\ objects \in [Tasks -> Meetings \cup {None}]
  /\ clock \in Nat
  /\ handles \subseteq Tasks
  /\ subscribed \subseteq Tasks
  /\ received \in [Tasks -> States \cup {None}]
  /\ processed \subseteq Tasks
  /\ poll \in [Polls -> PollRecords]
  /\ calendar \in [Principals -> Calendars(Tasks \cup {None})]

Init ==
  /\ listening = {}
  /\ task = [t \in Tasks |-> IdleTask]
  /\ wire = {}
  /\ lastVerdict = [p \in Principals |-> None]
  /\ objects = [t \in Tasks |-> None]
  /\ clock = 0
  /\ handles = {}
  /\ subscribed = {}
  /\ received = [t \in Tasks |-> None]
  /\ processed = {}
  /\ poll = [k \in Polls |-> IdlePoll]
  /\ calendar = [p \in Principals |-> [events  |-> InitialEvents[p],
                                       version |-> 0]]

-----------------------------------------------------------------------------
(* Helpers *)

Goto(t, pc) == task' = [task EXCEPT ![t].pc = pc]

Polling(k) == poll[k].pc \in {"subscribing", "fetching"}

(* ScriptedReasoner: the first candidate the calendar is free at. *)
ScriptedVerdicts(events, cands, duration) ==
  LET Free(i) == ~BusyAt(events, cands[i], duration)
  IN  IF \E i \in DOMAIN cands : Free(i)
      THEN {<<cands[i]>> : i \in {j \in DOMAIN cands :
              Free(j) /\ \A h \in DOMAIN cands : h < j => ~Free(h)}}
      ELSE {<<>>}

(* Faulty variant: a slot the model made up is taken as it is. *)
LLMVerdictsUnguarded(cands) ==
  {<<>>} \cup {<<cands[i] + 60>> : i \in DOMAIN cands}

(* The LLM reasoners: any listed candidate or none.  A slot that is not    *)
(* listed is turned into a rejection, and a failed or malformed call falls *)
(* back on the scripted answer, which is among these.                      *)
LLMVerdicts(cands) == {<<>>} \cup {<<cands[i]>> : i \in DOMAIN cands}

Verdicts(p, cands, duration) ==
  IF Reasoner[p] = "scripted"
  THEN ScriptedVerdicts(calendar[p].events, cands, duration)
  ELSE LLMVerdicts(cands)

DefaultDuration == 30   \* payload.get("duration_minutes", 30)

(* A payload as it is read, narrowed by the author's outbound and the      *)
(* reader's inbound policy: no list is an empty one.                       *)
Narrowed(cands, duration, fields) ==
  [cands    |-> IF "candidates" \in fields THEN cands ELSE <<>>,
   duration |-> IF "duration_minutes" \in fields THEN duration
                ELSE DefaultDuration]

(* The proposal, as the peer reads it. *)
Heard(t) ==
  Narrowed(task[t].cands, task[t].duration,
           Discloses[task[t].me][task[t].peer])

(* The peer's answer, as _extract_acceptance reads it. *)
Reply(t, verdict) ==
  Narrowed(verdict, Heard(t).duration, Discloses[task[t].peer][task[t].me])

(* The next handle the poll's loop works on: any of the rest (the order is *)
(* the object store's) that is not yet processed; without one the poll     *)
(* returns.  `done' is the processed set the loop's check reads.           *)
Visit(k, rec, rest, done) ==
  LET pending == rest \ done
  IN  \/ /\ pending = {}
         /\ poll' = [poll EXCEPT ![k] = [IdlePoll EXCEPT !.pc = "done"]]
      \/ \E h \in pending :
           poll' = [poll EXCEPT ![k] =
                      [rec EXCEPT !.pc = "subscribing",
                                  !.todo = pending \ {h}, !.cur = h]]

(* subscribe_to_pending_meetings of agent `me', up to its first await. *)
BeginPoll(k, me, peer) ==
  LET snapshot == {t \in handles : task[t].peer = me}
  IN  /\ ~Polling(k)
      /\ PollsOverlap \/ \A j \in Polls : Polling(j) => poll[j].me # me
      /\ Visit(k, [poll[k] EXCEPT !.me = me, !.peer = peer,
                                  !.snapshot = snapshot],
               snapshot, processed)

(* What the caller of a finished proposal does in the same step: nothing,  *)
(* or poll at the peer, as SchedulingAgentInbox.submit_new does.           *)
Continue(t, k) ==
  IF k = None THEN UNCHANGED poll ELSE BeginPoll(k, task[t].peer, task[t].me)

-----------------------------------------------------------------------------
(* The initiator: propose_meeting_to *)

(* start_listener: from now on the agent has a URL. *)
StartListener(p) ==
  /\ p \notin listening
  /\ listening' = listening \cup {p}
  /\ UNCHANGED <<task, wire, lastVerdict, objects, clock, handles,
                 subscribed, received, processed, poll, calendar>>

(* Build the payload and send the PROPOSAL. *)
Propose(t, me, peer, cands, duration) ==
  /\ task[t].pc = "idle"
  /\ me # peer
  /\ task' = [task EXCEPT ![t] =
                [pc |-> "proposing", me |-> me, peer |-> peer,
                 cands |-> cands, duration |-> duration, reply |-> <<>>,
                 agreed |-> 0]]
  /\ wire' = wire \cup {<<"proposal", t>>}
  /\ UNCHANGED <<listening, lastVerdict, objects, clock, handles,
                 subscribed, received, processed, poll, calendar>>

(* Faulty variant: an exception of the PROMOTE is swallowed. *)
SendFailsQuietly(t) ==
  /\ task[t].pc \in {"proposing", "answered", "promoting", "acknowledged"}
  /\ Goto(t, IF task[t].pc \in {"promoting", "acknowledged"}
             THEN "done" ELSE "failed")
  /\ UNCHANGED <<listening, wire, lastVerdict, objects, clock, handles,
                 subscribed, received, processed, poll, calendar>>

(* Faulty variant: PROMOTE waits for its answer without a time limit. *)
SendFailsOnProposal(t) ==
  /\ task[t].pc \in {"proposing", "answered"}
  /\ Goto(t, "failed")
  /\ UNCHANGED <<listening, wire, lastVerdict, objects, clock, handles,
                 subscribed, received, processed, poll, calendar>>

(* send_to raises: the request or its answer is lost, or the transport     *)
(* gives up waiting.  Nothing in the code catches it or undoes what the    *)
(* task did before.                                                        *)
SendFails(t) ==
  /\ task[t].pc \in {"proposing", "answered", "promoting", "acknowledged"}
  /\ Goto(t, "failed")
  /\ UNCHANGED <<listening, wire, lastVerdict, objects, clock, handles,
                 subscribed, received, processed, poll, calendar>>

(* A request is lost on the way. *)
LoseRequest(m) ==
  /\ m \in wire
  /\ wire' = wire \ {m}
  /\ UNCHANGED <<listening, task, lastVerdict, objects, clock, handles,
                 subscribed, received, processed, poll, calendar>>

(* _extract_acceptance finds no slot: the call returns. *)
ReturnRejected(t, k) ==
  /\ task[t].pc = "answered"
  /\ task[t].reply = <<>>
  /\ Goto(t, "done")
  /\ Continue(t, k)
  /\ UNCHANGED <<listening, wire, lastVerdict, objects, clock, handles,
                 subscribed, received, processed, calendar>>

(* Faulty variant: the object names the first candidate, not the answer. *)
CreateFirstCandidate(t) ==
  /\ task[t].pc = "answered"
  /\ task[t].reply # <<>>
  /\ objects' = [objects EXCEPT ![t] =
                   [owner |-> task[t].me, peer |-> task[t].peer,
                    slot |-> task[t].cands[1],
                    duration |-> task[t].agreed, updated |-> clock]]
  /\ clock' = clock + 1

(* create_object, reached on every answer that names a slot.  Slot and     *)
(* duration are the answer's; nothing compares them with the proposal.     *)
CreateMeeting(t) ==
  /\ task[t].pc = "answered"
  /\ task[t].reply # <<>>
  /\ objects' = [objects EXCEPT ![t] =
                   [owner |-> task[t].me, peer |-> task[t].peer,
                    slot |-> Head(task[t].reply),
                    duration |-> task[t].agreed, updated |-> clock]]
  /\ clock' = clock + 1

(* Without a listener the call raises, but the object has been created. *)
RaiseWithoutListener(t) ==
  /\ CreateMeeting(t)
  /\ task[t].me \notin listening \cup SingleProcess
  /\ Goto(t, "failed")
  /\ UNCHANGED <<listening, wire, lastVerdict, handles, subscribed,
                 received, processed, poll, calendar>>

(* In the in-process mode an initiator without a listener, as the sandbox's  *)
(* sender is, books its own calendar and promotes nothing.                  *)
BookInProcess(t) ==
  /\ CreateMeeting(t)
  /\ task[t].me \in SingleProcess \ listening
  /\ Goto(t, "done")
  /\ calendar' = [calendar EXCEPT ![task[t].me] =
                    Book(@, ClockTime(Head(task[t].reply)),
                         task[t].agreed, t)]
  /\ UNCHANGED <<listening, wire, lastVerdict, handles, subscribed,
                 received, processed, poll>>

(* Create the object, promote it and send the handle with PROMOTE. *)
PromoteMeeting(t) ==
  /\ CreateMeeting(t)
  /\ task[t].me \in listening
  /\ Goto(t, "promoting")
  /\ wire' = wire \cup {<<"promote", t>>}
  /\ UNCHANGED <<listening, lastVerdict, handles, subscribed, received,
                 processed, poll, calendar>>

(* Faulty variant: the duration asked for is booked, not the answer's. *)
BookOwnAsAsked(t, k) ==
  /\ task[t].pc = "acknowledged"
  /\ Goto(t, "done")
  /\ calendar' = [calendar EXCEPT ![task[t].me] =
                    Book(@, ClockTime(Head(task[t].reply)),
                         task[t].duration, t)]
  /\ Continue(t, k)
  /\ UNCHANGED <<listening, wire, lastVerdict, objects, clock, handles,
                 subscribed, received, processed>>

(* PROMOTE has been acknowledged: book at the initiator and return. *)
BookOwn(t, k) ==
  /\ task[t].pc = "acknowledged"
  /\ Goto(t, "done")
  /\ calendar' = [calendar EXCEPT ![task[t].me] =
                    Book(@, ClockTime(Head(task[t].reply)),
                         task[t].agreed, t)]
  /\ Continue(t, k)
  /\ UNCHANGED <<listening, wire, lastVerdict, objects, clock, handles,
                 subscribed, received, processed>>

-----------------------------------------------------------------------------
(* The counterpart: inbound handlers *)

(* _handle_incoming: ask the reasoner, remember its verdict and answer     *)
(* with the duration heard.  Nothing is booked and the slot is not held.   *)
HandleIncoming(t) ==
  /\ <<"proposal", t>> \in wire
  /\ task[t].peer \in listening
  /\ \E v \in Verdicts(task[t].peer, Heard(t).cands, Heard(t).duration) :
       /\ lastVerdict' = [lastVerdict EXCEPT ![task[t].peer] = v]
       /\ task' = IF task[t].pc = "proposing"
                  THEN [task EXCEPT ![t].pc = "answered",
                                    ![t].reply = Reply(t, v).cands,
                                    ![t].agreed = Reply(t, v).duration]
                  ELSE task
  /\ wire' = wire \ {<<"proposal", t>>}
  /\ UNCHANGED <<listening, objects, clock, handles, subscribed, received,
                 processed, poll, calendar>>

(* The trust layer stores an incoming handle; the agent is not told. *)
StoreHandle(t) ==
  /\ <<"promote", t>> \in wire
  /\ task[t].peer \in listening
  /\ handles' = handles \cup {t}
  /\ task' = IF task[t].pc = "promoting"
             THEN [task EXCEPT ![t].pc = "acknowledged"] ELSE task
  /\ wire' = wire \ {<<"promote", t>>}
  /\ UNCHANGED <<listening, lastVerdict, objects, clock, subscribed,
                 received, processed, poll, calendar>>

-----------------------------------------------------------------------------
(* The counterpart: subscribe_to_pending_meetings *)

StartPoll(k, me, peer) ==
  /\ me # peer
  /\ BeginPoll(k, me, peer)
  /\ UNCHANGED <<listening, task, wire, lastVerdict, objects, clock,
                 handles, subscribed, received, processed, calendar>>

(* The agent the poll was told to ask owns the current handle's object.    *)
(* One peer_url serves every handle of the loop, whoever owns it.          *)
AsksOwner(k) ==
  /\ objects[poll[k].cur] # None
  /\ objects[poll[k].cur].owner = poll[k].peer
  /\ poll[k].peer \in listening

(* Faulty variant: the handle is marked processed before it is fetched. *)
SubscribeMarksProcessed(k) ==
  /\ poll[k].pc = "subscribing"
  /\ AsksOwner(k)
  /\ subscribed' = subscribed \cup {poll[k].cur}
  /\ processed' = processed \cup {poll[k].cur}
  /\ poll' = [poll EXCEPT ![k].pc = "fetching"]
  /\ UNCHANGED <<listening, task, wire, lastVerdict, objects, clock,
                 handles, received, calendar>>

(* subscribe_to_object returns; the fetch is sent. *)
Subscribe(k) ==
  /\ poll[k].pc = "subscribing"
  /\ AsksOwner(k)
  /\ subscribed' = subscribed \cup {poll[k].cur}
  /\ poll' = [poll EXCEPT ![k].pc = "fetching"]
  /\ UNCHANGED <<listening, task, wire, lastVerdict, objects, clock,
                 handles, received, processed, calendar>>

(* Faulty variant: the handle is not marked processed. *)
FetchAndBookUnmarked(k) ==
  LET h == poll[k].cur
      state == Scoped(objects[h])
  IN  /\ poll[k].pc = "fetching"
      /\ AsksOwner(k)
      /\ received' = [received EXCEPT ![h] = state]
      /\ calendar' = [calendar EXCEPT ![poll[k].me] =
                        Book(@, ClockTime(state.slot), state.duration, h)]
      /\ Visit(k, poll[k], poll[k].todo, processed)
      /\ UNCHANGED <<listening, task, wire, lastVerdict, objects, clock,
                     handles, subscribed, processed>>

(* fetch_object returns: cache the state, book it, mark the handle         *)
(* processed and go on to the next one.  The check of the processed set    *)
(* was made before the two awaits and is not made again.                   *)
FetchAndBook(k) ==
  LET h == poll[k].cur
      state == Scoped(objects[h])
  IN  /\ poll[k].pc = "fetching"
      /\ AsksOwner(k)
      /\ received' = [received EXCEPT ![h] = state]
      /\ calendar' = [calendar EXCEPT ![poll[k].me] =
                        Book(@, ClockTime(state.slot), state.duration, h)]
      /\ processed' = processed \cup {h}
      /\ Visit(k, poll[k], poll[k].todo, processed')
      /\ UNCHANGED <<listening, task, wire, lastVerdict, objects, clock,
                     handles, subscribed>>

(* Faulty variant: an exception ends the loop and the poll returns. *)
PollFailsQuietly(k) ==
  /\ Polling(k)
  /\ poll' = [poll EXCEPT ![k] = [IdlePoll EXCEPT !.pc = "done"]]
  /\ UNCHANGED <<listening, task, wire, lastVerdict, objects, clock,
                 handles, subscribed, received, processed, calendar>>

(* Faulty variant: the call is retried at once and without end. *)
PollRetries(k) ==
  /\ Polling(k)
  /\ poll' = [poll EXCEPT ![k].pc = "subscribing"]
  /\ UNCHANGED <<listening, task, wire, lastVerdict, objects, clock,
                 handles, subscribed, received, processed, calendar>>

(* subscribe_to_object or fetch_object raises and the poll is abandoned.   *)
(* The owner may have recorded a subscription whose answer was lost.       *)
PollFails(k) ==
  /\ Polling(k)
  /\ poll' = [poll EXCEPT ![k] = [IdlePoll EXCEPT !.pc = "failed"]]
  /\ \/ UNCHANGED subscribed
     \/ /\ poll[k].pc = "subscribing"
        /\ AsksOwner(k)
        /\ subscribed' = subscribed \cup {poll[k].cur}
  /\ UNCHANGED <<listening, task, wire, lastVerdict, objects, clock,
                 handles, received, processed, calendar>>

-----------------------------------------------------------------------------

Return(t) ==
  \E k \in Polls \cup {None} : ReturnRejected(t, k) \/ BookOwn(t, k)

TaskNext(t) ==
  \/ \E me \in Principals, peer \in Principals, cands \in Offers,
        duration \in Durations : Propose(t, me, peer, cands, duration)
  \/ SendFails(t)
  \/ Return(t)
  \/ RaiseWithoutListener(t)
  \/ BookInProcess(t)
  \/ PromoteMeeting(t)
  \/ HandleIncoming(t)
  \/ StoreHandle(t)

PollNext(k) ==
  \/ \E me \in Principals, peer \in Principals : StartPoll(k, me, peer)
  \/ Subscribe(k)
  \/ FetchAndBook(k)
  \/ PollFails(k)

Next ==
  \/ \E p \in Principals : StartListener(p)
  \/ \E t \in Tasks : TaskNext(t)
  \/ \E k \in Polls : PollNext(k)
  \/ \E m \in wire : LoseRequest(m)

(* Every await ends, by an answer or by an exception, and the event loop   *)
(* resumes a coroutine whose await has ended.  Nobody is obliged to        *)
(* propose, poll or start a listener.                                      *)
Fairness ==
  /\ \A t \in Tasks :
       WF_vars(SendFails(t) \/ Return(t) \/ RaiseWithoutListener(t)
               \/ BookInProcess(t) \/ PromoteMeeting(t))
  /\ \A k \in Polls : WF_vars(Subscribe(k) \/ FetchAndBook(k) \/ PollFails(k))

Spec == Init /\ [][Next]_vars

FairSpec == Spec /\ Fairness

-----------------------------------------------------------------------------
(* What the calendars and object stores say of a meeting *)

Owner(t) == task[t].me
Peer(t) == task[t].peer

BookedAt(p, t) ==
  \E i \in DOMAIN calendar[p].events : calendar[p].events[i].of = t

Agreed(t) == objects[t] # None

(* A meeting is entered in a calendar at most once, however many polls see *)
(* its handle, and however often a poll is retried after it failed in the  *)
(* middle (subscribe_to_pending_meetings calls itself idempotent).  It     *)
(* takes polls of one agent that do not overlap: see PollsOverlap.         *)
BookedOnce ==
  \A p \in Principals :
    \A i, j \in DOMAIN calendar[p].events :
      /\ calendar[p].events[i].of # None
      /\ calendar[p].events[i].of = calendar[p].events[j].of
      => i = j

(* Whatever is in a calendar was agreed: the event lies at the clock time  *)
(* of the canonical object, in the calendar of one of its two parties, and *)
(* the counterpart holds the handle (in the in-process mode there is       *)
(* none).  The initiator books what it was answered, the counterpart what  *)
(* it fetched; nothing compares the two.                                   *)
BookingsAgreed ==
  \A p \in Principals : \A i \in DOMAIN calendar[p].events :
    LET event == calendar[p].events[i]
        t == event.of
    IN  t # None =>
          /\ Agreed(t)
          /\ event.time = ClockTime(objects[t].slot)
          /\ event.duration = objects[t].duration
          /\ \/ p = objects[t].owner /\ (t \in handles \/ p \in SingleProcess)
             \/ p = objects[t].peer /\ t \in handles

(* A handle counts as processed exactly when its meeting is in the         *)
(* receiver's calendar and in the cache the inbox reads, and by then its   *)
(* owner has the subscription: a poll that fails between its awaits leaves *)
(* none of the three half done.                                            *)
ProcessedIsBooked ==
  \A t \in Tasks :
    /\ t \in processed <=> received[t] # None
    /\ t \in processed <=> (Peer(t) # None /\ BookedAt(Peer(t), t))
    /\ t \in processed => t \in subscribed

(* A poll that returns has left no handle behind that was there when it    *)
(* began, whatever other polls did in between: each is processed, that is  *)
(* booked.                                                                 *)
FinishedPollMissesNothing ==
  [][\A k \in Polls :
       Polling(k) /\ poll'[k].pc = "done" =>
         poll[k].snapshot \subseteq processed']_vars

(* propose_meeting_to returns with an acceptance exactly when the meeting  *)
(* is in the initiator's calendar; when it raises, the calendar is as      *)
(* before, even if the counterpart got the handle.                         *)
OwnerBooksOnReturn ==
  \A t \in Tasks :
    (task[t].pc = "done" /\ task[t].reply # <<>>) <=>
      (Owner(t) # None /\ BookedAt(Owner(t), t))

(* Every proposal and every poll ends, by a result or by an exception,     *)
(* whatever is lost.                                                       *)
ProposalsEnd ==
  \A t \in Tasks : task[t].pc # "idle" ~> task[t].pc \in {"done", "failed"}

PollsEnd == \A k \in Polls : Polling(k) ~> ~Polling(k)

(* The agents keep the promise of SharedAgreement.  An agreement is shared *)
(* when the counterpart has the handle, and each side is committed when    *)
(* its calendar holds the event.                                           *)
Offered(t) == {task[t].cands[i] : i \in DOMAIN task[t].cands}

Shared == INSTANCE SharedAgreement WITH
  Ids <- Tasks,
  Terms <- States,
  InProcess <- (SingleProcess # {}),
  offered <- [t \in Tasks |-> Offered(t)],
  agreed <- [t \in Tasks |->
               IF objects[t] = None THEN None ELSE Scoped(objects[t])],
  shared <- handles,
  committed <- {t \in Tasks : Owner(t) # None /\ BookedAt(Owner(t), t)},
  seen <- received

AgreementIsShared == Shared!ASpec

=============================================================================
