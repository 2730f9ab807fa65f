-------------------------- MODULE AgentInboxProofs --------------------------
(***************************************************************************)
(* Proofs about AgentInbox: its requests are calls of the agents, so that  *)
(* what is proved of SchedulingAgent holds of the inbox too, and the cards *)
(* it shows and answers with are settled meetings.                         *)
(***************************************************************************)
EXTENDS AgentInbox, SettlementProofs, WellFoundedInduction

-----------------------------------------------------------------------------
(* The inductive invariant, relative to SettlementInv *)

(* A request's poll follows its proposal, and begins once. *)
PollsFollow == \A r \in Tasks : poll[r].pc # "idle" => task[r].pc = "done"

(* The receiver has the handle of a proposal that returned an acceptance.  *)
(* The poll that follows has it in its snapshot, and has dealt with it when *)
(* it returns.                                                             *)
Followed(r) ==
  task[r].reply # <<>> =>
    /\ task[r].pc = "done" => r \in handles
    /\ Polling(r) => r \in poll[r].snapshot
    /\ poll[r].pc = "done" => r \in processed

AcceptancesFollowed == \A r \in Tasks : Followed(r)

(* The objects carry the times at which they were created. *)
ObjectsDated == \A t \in Tasks : objects[t] # None => objects[t].updated < clock

(* A client that got a card got one of the agent's own meetings with the   *)
(* peer, after the poll.                                                   *)
AnswersWith(r, m) ==
  /\ response[r] = Card(m)
  /\ poll[r].pc = "done"
  /\ m \in OwnedCards(Owner(r))
  /\ objects[m].peer = Peer(r)

CardsChosen ==
  \A r \in Tasks :
    response[r] \in {NoResponse, Failure} \/ \E m \in Tasks : AnswersWith(r, m)

InboxInv ==
  /\ SettlementInv
  /\ PollsFollow
  /\ AcceptancesFollowed
  /\ ObjectsDated
  /\ response \in [Tasks -> {NoResponse, Failure} \cup {Card(m) : m \in Tasks}]
  /\ CardsChosen

-----------------------------------------------------------------------------
(* Every step of the inbox is a step of the agents *)

LEMMA InboxStepIsAgentStep == [InboxNext]_ivars => [Next]_vars
<1> SUFFICES ASSUME [InboxNext]_ivars PROVE [Next]_vars
  OBVIOUS
<1>1. CASE UNCHANGED ivars
  BY <1>1 DEF ivars
<1>2. ASSUME StartUp PROVE Next
  BY <1>2 DEF StartUp, Next
<1>3. ASSUME NEW r \in Tasks, SubmitNew(r) PROVE TaskNext(r)
  BY <1>3, InboxAssumption DEF SubmitNew, TaskNext
<1>4. ASSUME NEW r \in Tasks, Negotiate(r) PROVE TaskNext(r)
  BY <1>4, InboxAssumption DEF Negotiate, TaskNext, Return
<1>5. ASSUME NEW r \in Tasks, PollPeer(r) PROVE r \in Polls /\ PollNext(r)
  BY <1>5, InboxAssumption DEF PollPeer, PollNext
<1>6. ASSUME NEW r \in Tasks, HandleIncoming(r) \/ StoreHandle(r)
      PROVE  TaskNext(r)
  BY <1>6 DEF TaskNext
<1>7. ASSUME NEW m \in wire, LoseRequest(m) PROVE Next
  BY <1>7 DEF Next
<1> QED BY <1>1, <1>2, <1>3, <1>4, <1>5, <1>6, <1>7 DEF InboxNext, Resume, Next

(* A process that serves the inbox is one in which the agents run: what    *)
(* holds of SchedulingAgent holds of it.                                   *)
THEOREM InboxRunsTheAgents == InboxSpec => Spec
<1>1. InboxInit => Init
  BY DEF InboxInit
<1> QED BY <1>1, InboxStepIsAgentStep, PTL DEF InboxSpec, Spec

-----------------------------------------------------------------------------
(* The newest of some meetings *)

(* Of the meetings in a set, all created before `clock', one is the newest. *)
LEMMA NewestExists ==
  ASSUME clock \in Nat, NEW found, found # {},
         \A m \in found : objects[m].updated \in Nat /\ objects[m].updated < clock
  PROVE  \E m \in found : \A n \in found : objects[n].updated <= objects[m].updated
<1> DEFINE R == OpToRel(<, Nat)
           T == {clock - objects[m].updated : m \in found}
<1>1. T \subseteq Nat /\ T # {}
  OBVIOUS
<1>2. IsWellFoundedOn(R, Nat)
  BY NatLessThanWellFounded
<1>3. PICK x \in T : \A y \in T : ~ (<<y, x>> \in R)
  BY <1>1, <1>2, WFMin
<1>4. \A y \in T : ~ (y < x)
  BY <1>1, <1>3 DEF OpToRel
<1>5. PICK m \in found : x = clock - objects[m].updated
  BY <1>3
<1>6. ASSUME NEW n \in found PROVE objects[n].updated <= objects[m].updated
  <2>1. ~ (clock - objects[n].updated < clock - objects[m].updated)
    BY <1>4, <1>5
  <2> QED BY <2>1
<1> QED BY <1>6

(* What submit_new finds.                                                  *)
LEMMA NewestWithFinds ==
  TypeOK /\ ObjectsDated =>
    \A me \in Principals, peer \in Principals :
      \/ NewestWith(me, peer) = Failure
      \/ \E m \in Tasks :
           /\ NewestWith(me, peer) = Card(m)
           /\ m \in OwnedCards(me)
           /\ objects[m].peer = peer
<1> SUFFICES ASSUME TypeOK, ObjectsDated,
                    NEW me \in Principals, NEW peer \in Principals
             PROVE  \/ NewestWith(me, peer) = Failure
                    \/ \E m \in Tasks :
                         /\ NewestWith(me, peer) = Card(m)
                         /\ m \in OwnedCards(me)
                         /\ objects[m].peer = peer
  OBVIOUS
<1> DEFINE found == {m \in OwnedCards(me) : objects[m].peer = peer}
           Newest(m) == \A n \in found : objects[n].updated <= objects[m].updated
<1>1. CASE found = {}
  BY <1>1 DEF NewestWith
<1>2. CASE found # {}
  <2>1. \A m \in found : /\ m \in Tasks
                         /\ objects[m].updated \in Nat
                         /\ objects[m].updated < clock
    BY DEF OwnedCards, Agreed, TypeOK, Meetings, ObjectsDated
  <2>2. \E m \in found : Newest(m)
    BY <1>2, <2>1, NewestExists DEF TypeOK
  <2>3. (CHOOSE m \in found : Newest(m)) \in found
    BY <2>2
  <2>4. NewestWith(me, peer) = Card(CHOOSE m \in found : Newest(m))
    BY <1>2 DEF NewestWith
  <2> QED BY <2>1, <2>3, <2>4
<1> QED BY <1>1, <1>2

(* The same fact of the successor state. *)
LEMMA NewestWithFindsNext ==
  (TypeOK /\ ObjectsDated =>
     \A me \in Principals, peer \in Principals :
       \/ NewestWith(me, peer) = Failure
       \/ \E m \in Tasks :
            /\ NewestWith(me, peer) = Card(m)
            /\ m \in OwnedCards(me)
            /\ objects[m].peer = peer)'
BY NewestWithFinds, PTL

-----------------------------------------------------------------------------
(* ObjectsDated is preserved *)

(* Only create_object makes an object, and it dates it.                    *)
LEMMA ObjectsStep ==
  ASSUME [Next]_vars
  PROVE  \/ UNCHANGED <<objects, clock>>
         \/ \E t \in Tasks : CreateMeeting(t)
BY DEF Next, vars, TaskNext, PollNext, StartListener, Propose, SendFails,
       Return, ReturnRejected, BookOwn, RaiseWithoutListener, BookInProcess,
       PromoteMeeting, HandleIncoming, StoreHandle, StartPoll, Subscribe,
       FetchAndBook, PollFails, LoseRequest

LEMMA NextDated ==
  ASSUME AgreementInv, ObjectsDated, [Next]_vars
  PROVE  ObjectsDated'
<1> USE DEF AgreementInv
<1>1. CASE UNCHANGED <<objects, clock>>
  BY <1>1 DEF ObjectsDated
<1>2. ASSUME NEW t \in Tasks, CreateMeeting(t) PROVE ObjectsDated'
  <2>1. clock \in Nat /\ clock' = clock + 1
    BY <1>2 DEF TypeOK, CreateMeeting
  <2>2. objects'[t].updated = clock
    <3>1. objects'[t] = [owner |-> task[t].me, peer |-> task[t].peer,
                         slot |-> Head(task[t].reply),
                         duration |-> task[t].agreed, updated |-> clock]
      BY <1>2, CreateMeetingEffect
    <3> QED BY <3>1
  <2>3. ASSUME NEW s \in Tasks, s # t, objects'[s] # None
        PROVE  objects'[s].updated < clock'
    <3>1. objects'[s] = objects[s]
      BY <1>2, <2>3, CreateMeetingEffect
    <3>2. objects[s].updated \in Nat /\ objects[s].updated < clock
      BY <2>3, <3>1 DEF ObjectsDated, TypeOK, Meetings
    <3> QED BY <2>1, <3>1, <3>2
  <2> QED BY <2>1, <2>2, <2>3 DEF ObjectsDated
<1> QED BY <1>1, <1>2, ObjectsStep

-----------------------------------------------------------------------------
(* PollsFollow and AcceptancesFollowed are preserved *)

(* A request whose task and poll do not change. *)
LEMMA FollowsOn ==
  ASSUME PollsFollow, AcceptancesFollowed, Keeps, NEW q \in Tasks,
         task'[q] = task[q], poll'[q] = poll[q]
  PROVE  /\ poll'[q].pc # "idle" => task'[q].pc = "done"
         /\ Followed(q)'
BY DEF PollsFollow, AcceptancesFollowed, Followed, Polling, Keeps

(* Steps that move no poll and return no proposal. *)
LEMMA FollowsWithoutPolls ==
  ASSUME PollsFollow, AcceptancesFollowed, Keeps, UNCHANGED poll,
         \A q \in Tasks :
           task'[q].pc = "done" =>
             task[q].pc = "done" /\ task'[q].reply = task[q].reply
  PROVE  PollsFollow' /\ AcceptancesFollowed'
<1>1. ASSUME NEW q \in Tasks
      PROVE  /\ poll'[q].pc # "idle" => task'[q].pc = "done"
             /\ Followed(q)'
  <2>1. poll'[q].pc # "idle" => task'[q].pc = "done" /\ task[q].pc = "done"
    BY DEF PollsFollow, Keeps
  <2>2. ASSUME task'[q].reply # <<>>
        PROVE  /\ task'[q].pc = "done" => q \in handles'
               /\ Polling(q)' => q \in poll'[q].snapshot
               /\ poll'[q].pc = "done" => q \in processed'
    BY <2>1, <2>2 DEF AcceptancesFollowed, Followed, Polling, Keeps
  <2> QED BY <2>1, <2>2 DEF Followed
<1> QED BY <1>1 DEF PollsFollow, AcceptancesFollowed

(* The poll that begins when a proposal returns. *)
LEMMA PollBegins ==
  ASSUME TypeOK, NEW r \in Tasks, Continue(r, r)
  PROVE  /\ \A q \in Tasks : q # r => poll'[q] = poll[q]
         /\ LET snapshot == {t \in handles : task[t].peer = task[r].peer} IN
            \/ poll'[r].pc = "done" /\ snapshot \subseteq processed
            \/ poll'[r].pc = "subscribing" /\ poll'[r].snapshot = snapshot
<1> DEFINE snapshot == {t \in handles : task[t].peer = task[r].peer}
           rec == [poll[r] EXCEPT !.me = task[r].peer, !.peer = task[r].me,
                                  !.snapshot = snapshot]
<1>1. r \in Polls /\ r # None /\ Polls = Tasks
  BY InboxAssumption, NoneAssumption
<1>2. BeginPoll(r, task[r].peer, task[r].me)
  BY <1>1 DEF Continue
<1>3. Visit(r, rec, snapshot, processed)
  BY <1>2 DEF BeginPoll
<1>4. snapshot \in SUBSET Tasks
  BY DEF TypeOK
<1>5. rec \in PollRecords /\ rec.snapshot = snapshot
  <2>1. poll[r] \in PollRecords /\ task[r] \in TaskRecords
    BY <1>1 DEF TypeOK
  <2> QED BY <1>4, <2>1 DEF PollRecords, TaskRecords
<1> HIDE DEF rec, snapshot
<1>6. /\ \A q \in Polls : q # r => poll'[q] = poll[q]
      /\ \/ poll'[r].pc = "done" /\ snapshot \subseteq processed
         \/ poll'[r].pc = "subscribing" /\ poll'[r].snapshot = snapshot
  BY <1>1, <1>3, <1>5, VisitCovers
<1> QED BY <1>1, <1>6 DEF snapshot

(* A step of a request's poll. *)
LEMMA PollGoesOn ==
  ASSUME SettlementInv, NEW r \in Tasks, PollPeer(r)
  PROVE  /\ Polling(r)
         /\ \A q \in Tasks : q # r => poll'[q] = poll[q]
         /\ \/ poll'[r].pc = "failed"
            \/ poll'[r].pc = "done" /\ poll[r].snapshot \subseteq processed'
            \/ Polling(r)' /\ poll'[r].snapshot = poll[r].snapshot
<1> USE DEF SettlementInv, AgreementInv
<1>1. r \in Polls /\ Polls = Tasks /\ poll[r] \in PollRecords /\ DOMAIN poll = Tasks
  BY InboxAssumption DEF TypeOK
<1>2. CASE Subscribe(r)
  BY <1>1, <1>2 DEF Subscribe, Polling, PollRecords
<1>3. CASE PollFails(r)
  BY <1>1, <1>3 DEF PollFails, IdlePoll
<1>4. CASE FetchAndBook(r)
  <2>1. /\ processed' = processed \cup {poll[r].cur}
        /\ Visit(r, poll[r], poll[r].todo, processed')
        /\ Polling(r)
    BY <1>4 DEF FetchAndBook, Polling
  <2>2. /\ \A q \in Polls : q # r => poll'[q] = poll[q]
        /\ \/ poll'[r].pc = "done" /\ poll[r].todo \subseteq processed'
           \/ /\ poll'[r].pc = "subscribing"
              /\ poll'[r].snapshot = poll[r].snapshot
    BY <1>1, <2>1, VisitCovers
  <2>3. poll[r].snapshot \subseteq processed \cup poll[r].todo \cup {poll[r].cur}
    BY <1>1, <2>1 DEF PollsCoverSnapshot, Covered
  <2> QED BY <1>1, <2>1, <2>2, <2>3 DEF Polling
<1> QED BY <1>2, <1>3, <1>4 DEF PollPeer

(* A proposal that returns: rejected, or acknowledged and booked. *)
LEMMA ProposalReturns ==
  ASSUME SettlementInv, NEW r \in Tasks,
         ReturnRejected(r, r) \/ BookOwn(r, r)
  PROVE  /\ task[r].pc # "done" /\ task'[r].pc = "done"
         /\ task'[r].reply = task[r].reply
         /\ task[r].reply # <<>> => r \in handles
         /\ \A q \in Tasks : q # r => task'[q] = task[q]
         /\ Continue(r, r)
         /\ UNCHANGED <<handles, processed>>
<1> USE DEF SettlementInv, AgreementInv
<1>1. /\ Goto(r, "done") /\ Continue(r, r)
      /\ UNCHANGED <<handles, processed>>
  BY DEF ReturnRejected, BookOwn
<1>2. \/ task[r].pc = "answered" /\ task[r].reply = <<>>
      \/ task[r].pc = "acknowledged"
  BY DEF ReturnRejected, BookOwn
<1>3. task[r].reply # <<>> => r \in handles
  BY <1>2 DEF HandlesHaveObjects
<1> QED BY <1>1, <1>2, <1>3, GotoEffect

LEMMA NextFollows ==
  ASSUME SettlementInv, PollsFollow, AcceptancesFollowed, [InboxNext]_ivars
  PROVE  PollsFollow' /\ AcceptancesFollowed'
<1> USE DEF SettlementInv, AgreementInv
<1>1. Keeps
  BY InboxStepIsAgentStep, NextKeeps
<1>2. task \in [Tasks -> TaskRecords]
  BY DEF TypeOK
<1>3. CASE UNCHANGED <<task, poll>>
  BY <1>1, <1>3, FollowsWithoutPolls
<1>4. ASSUME NEW r \in Tasks, SubmitNew(r)
      PROVE  PollsFollow' /\ AcceptancesFollowed'
  <2>1. \A q \in Tasks :
          task'[q].pc = "done" =>
            task[q].pc = "done" /\ task'[q].reply = task[q].reply
    BY <1>2, <1>4 DEF SubmitNew, Propose
  <2>2. UNCHANGED poll
    BY <1>4 DEF SubmitNew, Propose
  <2> QED BY <1>1, <2>1, <2>2, FollowsWithoutPolls
<1>5. ASSUME NEW r \in Tasks, HandleIncoming(r) \/ StoreHandle(r)
      PROVE  PollsFollow' /\ AcceptancesFollowed'
  <2>1. \A q \in Tasks :
          task'[q].pc = "done" =>
            task[q].pc = "done" /\ task'[q].reply = task[q].reply
    <3>1. task[r] \in TaskRecords /\ DOMAIN task = Tasks
      BY <1>2
    <3>2. \A q \in Tasks : q # r => task'[q] = task[q]
      BY <1>5, <3>1 DEF HandleIncoming, StoreHandle
    <3>3. task'[r] = task[r] \/ task'[r].pc \in {"answered", "acknowledged"}
      <4>2. ASSUME task' = [task EXCEPT ![r].pc = "acknowledged"]
            PROVE  task'[r].pc = "acknowledged"
        BY <3>1, <4>2 DEF TaskRecords
      <4>3. CASE HandleIncoming(r)
        BY <1>2, <4>3, HandleIncomingEffect
      <4>4. CASE StoreHandle(r)
        BY <4>2, <4>4 DEF StoreHandle
      <4> QED BY <1>5, <4>3, <4>4
    <3> QED BY <3>2, <3>3
  <2>2. UNCHANGED poll
    BY <1>5 DEF HandleIncoming, StoreHandle
  <2> QED BY <1>1, <2>1, <2>2, FollowsWithoutPolls
<1>6. ASSUME NEW r \in Tasks, SendFails(r) \/ PromoteMeeting(r)
      PROVE  PollsFollow' /\ AcceptancesFollowed'
  <2>1. /\ Goto(r, "failed") \/ Goto(r, "promoting")
        /\ UNCHANGED poll
    BY <1>6 DEF SendFails, PromoteMeeting
  <2>2. \A q \in Tasks :
          task'[q].pc = "done" =>
            task[q].pc = "done" /\ task'[q].reply = task[q].reply
    BY <2>1, GotoEffect
  <2> QED BY <1>1, <2>1, <2>2, FollowsWithoutPolls
<1>7. ASSUME NEW r \in Tasks, ReturnRejected(r, r) \/ BookOwn(r, r)
      PROVE  PollsFollow' /\ AcceptancesFollowed'
  <2>1. /\ task'[r].pc = "done"
        /\ task'[r].reply = task[r].reply
        /\ task[r].reply # <<>> => r \in handles
        /\ \A q \in Tasks : q # r => task'[q] = task[q]
        /\ UNCHANGED <<handles, processed>>
        /\ Continue(r, r)
    BY <1>7, ProposalReturns
  <2>2. /\ \A q \in Tasks : q # r => poll'[q] = poll[q]
        /\ LET snapshot == {t \in handles : task[t].peer = task[r].peer} IN
           \/ poll'[r].pc = "done" /\ snapshot \subseteq processed
           \/ poll'[r].pc = "subscribing" /\ poll'[r].snapshot = snapshot
    BY <2>1, PollBegins
  <2>3. Followed(r)'
    BY <2>1, <2>2 DEF Followed, Polling
  <2>4. \A q \in Tasks : q # r =>
          /\ poll'[q].pc # "idle" => task'[q].pc = "done"
          /\ Followed(q)'
    BY <1>1, <2>1, <2>2, FollowsOn
  <2> QED BY <2>1, <2>3, <2>4 DEF PollsFollow, AcceptancesFollowed
<1>8. ASSUME NEW r \in Tasks, PollPeer(r)
      PROVE  PollsFollow' /\ AcceptancesFollowed'
  <2>1. UNCHANGED <<task, handles>>
    BY <1>8 DEF PollPeer, Subscribe, FetchAndBook, PollFails
  <2>2. /\ Polling(r)
        /\ \A q \in Tasks : q # r => poll'[q] = poll[q]
        /\ \/ poll'[r].pc = "failed"
           \/ poll'[r].pc = "done" /\ poll[r].snapshot \subseteq processed'
           \/ Polling(r)' /\ poll'[r].snapshot = poll[r].snapshot
    BY <1>8, PollGoesOn
  <2>3. task'[r].pc = "done"
    BY <2>1, <2>2 DEF PollsFollow, Polling
  <2>4. Followed(r)'
    <3>1. task[r].reply # <<>> => r \in handles /\ r \in poll[r].snapshot
      BY <2>1, <2>2, <2>3 DEF AcceptancesFollowed, Followed
    <3> QED BY <2>1, <2>2, <3>1 DEF Followed, Polling
  <2>5. \A q \in Tasks : q # r =>
          /\ poll'[q].pc # "idle" => task'[q].pc = "done"
          /\ Followed(q)'
    BY <1>1, <2>1, <2>2, FollowsOn
  <2> QED BY <2>3, <2>4, <2>5 DEF PollsFollow, AcceptancesFollowed
<1>9. CASE UNCHANGED ivars
  BY <1>3, <1>9 DEF ivars, vars
<1>10. CASE StartUp \/ \E m \in wire : LoseRequest(m)
  BY <1>3, <1>10 DEF StartUp, StartListener, LoseRequest
<1> QED BY <1>4, <1>5, <1>6, <1>7, <1>8, <1>9, <1>10
        DEF InboxNext, Resume, Negotiate

-----------------------------------------------------------------------------
(* CardsChosen is preserved *)

(* What Respond answers is a failure or what submit_new finds after the    *)
(* poll.                                                                   *)
LEMMA RespondAnswers ==
  ASSUME response \in [Tasks -> {NoResponse, Failure} \cup {Card(m) : m \in Tasks}],
         SettlementInv', PollsFollow', ObjectsDated',
         NEW r \in Tasks, Respond(r)
  PROVE  /\ response' \in [Tasks -> {NoResponse, Failure} \cup
                                      {Card(m) : m \in Tasks}]
         /\ \A q \in Tasks : q # r => response'[q] = response[q]
         /\ \/ response'[r] = response[r]
            \/ response'[r] = Failure
            \/ \E m \in Tasks : AnswersWith(r, m)'
<1> USE DEF SettlementInv, AgreementInv
<1>1. CASE response' = [response EXCEPT ![r] = Failure]
  BY <1>1
<1>2. CASE response' = response
  BY <1>2
<1>3. ASSUME poll'[r].pc = "done",
             response' = [response EXCEPT ![r] = NewestWith(Owner(r), Peer(r))']
      PROVE  /\ response' \in [Tasks -> {NoResponse, Failure} \cup
                                          {Card(m) : m \in Tasks}]
             /\ \A q \in Tasks : q # r => response'[q] = response[q]
             /\ \/ response'[r] = Failure
                \/ \E m \in Tasks : AnswersWith(r, m)'
  <2>1. task'[r].pc = "done"
    BY <1>3 DEF PollsFollow
  <2>2. Owner(r)' \in Principals /\ Peer(r)' \in Principals
    BY <2>1 DEF ObjectsMatchTasks, Owner, Peer
  <2>3. \/ NewestWith(Owner(r), Peer(r))' = Failure
        \/ \E m \in Tasks :
             /\ NewestWith(Owner(r), Peer(r))' = Card(m)
             /\ (m \in OwnedCards(Owner(r)))'
             /\ objects'[m].peer = Peer(r)'
    BY <2>2, NewestWithFindsNext
  <2>4. response'[r] = NewestWith(Owner(r), Peer(r))'
    BY <1>3
  <2>5. \A q \in Tasks : q # r => response'[q] = response[q]
    BY <1>3
  <2>6. response' \in [Tasks -> {NoResponse, Failure} \cup
                                  {Card(m) : m \in Tasks}]
    BY <1>3, <2>3
  <2> QED BY <1>3, <2>3, <2>4, <2>5, <2>6 DEF AnswersWith
<1> QED BY <1>1, <1>2, <1>3 DEF Respond

(* An answer that was given keeps its grounds. *)
LEMMA AnswersStay ==
  ASSUME AgreementInv, PollsFollow, Keeps, NEW q \in Tasks, NEW m \in Tasks,
         AnswersWith(q, m), response'[q] = response[q], poll'[q] = poll[q]
  PROVE  AnswersWith(q, m)'
<1>1. task[q].pc = "done"
  BY DEF PollsFollow, AnswersWith
<1>2. task'[q].me = task[q].me /\ task'[q].peer = task[q].peer
  BY <1>1 DEF Keeps
<1>3. objects[m] # None /\ objects'[m] = objects[m]
  BY DEF AnswersWith, OwnedCards, Agreed, Keeps
<1> QED BY <1>2, <1>3 DEF AnswersWith, OwnedCards, Agreed, Owner, Peer

LEMMA NextCards ==
  ASSUME InboxInv, [InboxNext]_ivars,
         SettlementInv', PollsFollow', ObjectsDated'
  PROVE  /\ response' \in [Tasks -> {NoResponse, Failure} \cup
                                      {Card(m) : m \in Tasks}]
         /\ CardsChosen'
<1> USE DEF InboxInv, SettlementInv, AgreementInv
<1>1. Keeps
  BY InboxStepIsAgentStep, NextKeeps
<1>2. CASE UNCHANGED <<response, poll>>
  BY <1>1, <1>2, AnswersStay DEF CardsChosen
<1>3. ASSUME NEW r \in Tasks, Resume(r)
      PROVE  /\ response' \in [Tasks -> {NoResponse, Failure} \cup
                                          {Card(m) : m \in Tasks}]
             /\ CardsChosen'
  <2>1. /\ response' \in [Tasks -> {NoResponse, Failure} \cup
                                     {Card(m) : m \in Tasks}]
        /\ \A q \in Tasks : q # r => response'[q] = response[q]
        /\ \/ response'[r] = response[r]
           \/ response'[r] = Failure
           \/ \E m \in Tasks : AnswersWith(r, m)'
    BY <1>3, RespondAnswers DEF Resume
  <2>2. \A q \in Tasks : q # r => poll'[q] = poll[q]
    <3>1. CASE ReturnRejected(r, r) \/ BookOwn(r, r)
      BY <3>1, ProposalReturns, PollBegins
    <3>2. CASE PollPeer(r)
      BY <3>2, PollGoesOn
    <3>3. CASE SendFails(r) \/ PromoteMeeting(r)
      BY <3>3 DEF SendFails, PromoteMeeting
    <3> QED BY <1>3, <3>1, <3>2, <3>3 DEF Resume, Negotiate
  <2>3. \A m \in Tasks : ~ AnswersWith(r, m)
    <3>1. poll[r].pc # "done"
      <4>1. CASE Negotiate(r)
        <5>1. task[r].pc # "done"
          BY <4>1 DEF Negotiate, SendFails, PromoteMeeting, CreateMeeting,
                      ReturnRejected, BookOwn
        <5> QED BY <5>1 DEF PollsFollow
      <4>2. CASE PollPeer(r)
        BY <4>2, PollGoesOn DEF Polling
      <4> QED BY <1>3, <4>1, <4>2 DEF Resume
    <3> QED BY <3>1 DEF AnswersWith
  <2>4. ASSUME NEW q \in Tasks
        PROVE  \/ response'[q] \in {NoResponse, Failure}
               \/ \E m \in Tasks : AnswersWith(q, m)'
    <3>1. CASE q = r
      BY <2>1, <2>3, <3>1 DEF CardsChosen
    <3>2. CASE q # r
      BY <1>1, <2>1, <2>2, <3>2, AnswersStay DEF CardsChosen
    <3> QED BY <3>1, <3>2
  <2> QED BY <2>1, <2>4 DEF CardsChosen
<1>4. CASE UNCHANGED ivars
  BY <1>2, <1>4 DEF ivars, vars
<1>5. ASSUME StartUp \/ \E m \in wire : LoseRequest(m), UNCHANGED response
      PROVE  UNCHANGED <<response, poll>>
  BY <1>5 DEF StartUp, StartListener, LoseRequest
<1>6. ASSUME NEW r \in Tasks, UNCHANGED response,
             SubmitNew(r) \/ HandleIncoming(r) \/ StoreHandle(r)
      PROVE  UNCHANGED <<response, poll>>
  BY <1>6 DEF SubmitNew, Propose, HandleIncoming, StoreHandle
<1> QED BY <1>2, <1>3, <1>4, <1>5, <1>6 DEF InboxNext

-----------------------------------------------------------------------------
(* The theorems *)

LEMMA InboxInvInit == InboxInit => InboxInv
<1> SUFFICES ASSUME InboxInit PROVE InboxInv
  OBVIOUS
<1>1. SettlementInv
  BY InitSettlement DEF InboxInit
<1>2. PollsFollow /\ AcceptancesFollowed
  <2>1. Polls = Tasks
    BY InboxAssumption
  <2>2. \A r \in Tasks : poll[r] = IdlePoll /\ task[r] = IdleTask
    BY <2>1 DEF InboxInit, Init
  <2> QED BY <2>2 DEF IdlePoll, IdleTask, PollsFollow, AcceptancesFollowed,
                      Followed
<1>3. ObjectsDated
  BY DEF InboxInit, Init, ObjectsDated
<1>4. /\ response \in [Tasks -> {NoResponse, Failure} \cup {Card(m) : m \in Tasks}]
      /\ CardsChosen
  BY DEF InboxInit, CardsChosen
<1> QED BY <1>1, <1>2, <1>3, <1>4 DEF InboxInv

LEMMA InboxInvNext == InboxInv /\ [InboxNext]_ivars => InboxInv'
<1> SUFFICES ASSUME InboxInv, [InboxNext]_ivars PROVE InboxInv'
  OBVIOUS
<1> USE DEF InboxInv
<1>1. [Next]_vars
  BY InboxStepIsAgentStep
<1>2. SettlementInv'
  BY <1>1, NextAgreement, NextMarks, NextReturns, NextCovers DEF SettlementInv
<1>3. PollsFollow' /\ AcceptancesFollowed'
  BY NextFollows
<1>4. ObjectsDated'
  BY <1>1, NextDated DEF SettlementInv
<1>5. /\ response' \in [Tasks -> {NoResponse, Failure} \cup
                                   {Card(m) : m \in Tasks}]
      /\ CardsChosen'
  BY <1>2, <1>3, <1>4, NextCards
<1> QED BY <1>2, <1>3, <1>4, <1>5

(* The inductive invariant of the inbox, for any principals, any number of *)
(* requests, and any calendars and reasoners.                              *)
THEOREM InboxInvariant == InboxSpec => []InboxInv
<1> QED BY InboxInvInit, InboxInvNext, PTL DEF InboxSpec

(* Responses are errors or cards of meetings. *)
THEOREM ResponsesAreTyped == InboxSpec => []InboxTypeOK
<1>1. InboxInv => InboxTypeOK
  BY DEF InboxInv, SettlementInv, AgreementInv, InboxTypeOK
<1> QED BY <1>1, InboxInvariant, PTL

(* The agents' marks in the inbox: what list_cards reads from the cache is *)
(* booked and subscribed, however the polls of the requests overlap.       *)
THEOREM InboxMarksAreBookings == InboxSpec => []ProcessedIsBooked
<1> QED BY InboxRunsTheAgents, MarksAreBookings, PTL

(* A card is of a meeting with the counterpart the request was made to,    *)
(* owned by its maker, and is sent only after the proposal has returned.   *)
THEOREM CardsAreWithPeer == InboxSpec => []CardIsWithPeer
<1>1. InboxInv => CardIsWithPeer
  <2> SUFFICES ASSUME InboxInv, NEW r \in Tasks, response[r].status = "card"
               PROVE  /\ task[r].pc = "done"
                      /\ objects[response[r].meeting].owner = Owner(r)
                      /\ objects[response[r].meeting].peer = Peer(r)
    BY DEF CardIsWithPeer
  <2>1. response[r] \notin {NoResponse, Failure}
    BY DEF NoResponse, Failure
  <2>2. PICK m \in Tasks : AnswersWith(r, m)
    BY <2>1 DEF InboxInv, CardsChosen
  <2>3. response[r].meeting = m
    BY <2>2 DEF AnswersWith, Card
  <2> QED BY <2>2, <2>3 DEF InboxInv, PollsFollow, AnswersWith, OwnedCards
<1> QED BY <1>1, InboxInvariant, PTL

(* A client that gets the card of its own meeting may rely on both sides:  *)
(* the initiator has booked it, and the counterpart has fetched, cached    *)
(* and booked it before the answer is sent.                                *)
THEOREM OwnCardsAreSettled == InboxSpec => []OwnCardIsSettled
<1>1. InboxInv /\ ProcessedIsBooked => OwnCardIsSettled
  <2> SUFFICES ASSUME InboxInv, ProcessedIsBooked,
                      NEW r \in Tasks, response[r] = Card(r)
               PROVE  /\ BookedAt(Owner(r), r)
                      /\ BookedAt(Peer(r), r)
                      /\ r \in ReceivedCards(Peer(r))
    BY DEF OwnCardIsSettled
  <2> USE DEF InboxInv, SettlementInv, AgreementInv
  <2>1. PICK m \in Tasks : AnswersWith(r, m)
    BY DEF CardsChosen, NoResponse, Failure, Card
  <2>2. m = r
    BY <2>1 DEF AnswersWith, Card
  <2>3. objects[r] # None /\ poll[r].pc = "done"
    BY <2>1, <2>2 DEF AnswersWith, OwnedCards, Agreed
  <2>4. task[r].pc = "done" /\ task[r].reply # <<>>
    BY <2>3 DEF PollsFollow, ObjectsMatchTasks
  <2>5. BookedAt(Owner(r), r)
    BY <2>4 DEF ReturnsBooked, Owner
  <2>6. r \in handles /\ r \in processed
    BY <2>3, <2>4 DEF AcceptancesFollowed, Followed
  <2> QED BY <2>5, <2>6 DEF ProcessedIsBooked, ReceivedCards
<1> QED BY <1>1, InboxInvariant, InboxMarksAreBookings, PTL

=============================================================================
