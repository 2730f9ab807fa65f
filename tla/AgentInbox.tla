----------------------------- MODULE AgentInbox -----------------------------
(***************************************************************************)
(* The api's inbox (meshycal/api/agent_inbox.py) over the scheduling       *)
(* agents of one process: POST /api/meetings runs submit_new, which        *)
(* proposes, polls at the peer and answers with a card.                    *)
(*                                                                         *)
(* A request is a proposal task of SchedulingAgent and owns the poll of    *)
(* the same name.  submit_new has no await of its own: what it does after  *)
(* the agent's call returns happens in that call's last step.              *)
(***************************************************************************)
EXTENDS SchedulingAgent

CONSTANT Today      \* the day the requests are made

ASSUME InboxAssumption ==
  /\ Polls = Tasks
  /\ Today \in Nat
  /\ DefaultCandidates(Today) \in Offers

VARIABLE response   \* response[r]: what the client of request r was sent

ivars == <<vars, response>>

NoResponse == [status |-> "none", meeting |-> None]
Failure == [status |-> "error", meeting |-> None]
Card(m) == [status |-> "card", meeting |-> m]

InboxTypeOK ==
  /\ TypeOK
  /\ response \in [Tasks -> {NoResponse, Failure} \cup {Card(m) : m \in Tasks}]

InboxInit == Init /\ response = [r \in Tasks |-> NoResponse]

-----------------------------------------------------------------------------

(* list_cards: every meeting the agent owns is shown as accepted, and every *)
(* meeting it has a handle and a fetched state of.                          *)
OwnedCards(p) == {m \in Tasks : Agreed(m) /\ objects[m].owner = p}

ReceivedCards(p) == {m \in handles : Peer(m) = p /\ received[m] # None}

Cards(p) == OwnedCards(p) \cup ReceivedCards(p)

(* Faulty variant: meetings the peer proposed are considered too. *)
NewestOfAllCards(me, peer) ==
  LET found == {m \in Cards(me) : peer \in {objects[m].owner, objects[m].peer}}
      Newest(m) == \A n \in found : objects[n].updated <= objects[m].updated
  IN  IF found = {} THEN Failure ELSE Card(CHOOSE m \in found : Newest(m))

(* The end of submit_new: the newest of the agent's own meetings with the  *)
(* peer, and an error if there is none.                                    *)
NewestWith(me, peer) ==
  LET found == {m \in OwnedCards(me) : objects[m].peer = peer}
      Newest(m) == \A n \in found : objects[n].updated <= objects[m].updated
  IN  IF found = {} THEN Failure ELSE Card(CHOOSE m \in found : Newest(m))

(* Faulty variant: the answer does not wait for the poll. *)
RespondBeforePoll(r) ==
  response' =
    IF task'[r].pc = "failed" \/ poll'[r].pc = "failed"
    THEN [response EXCEPT ![r] = Failure]
    ELSE IF task'[r].pc = "done"
         THEN [response EXCEPT ![r] = NewestWith(Owner(r), Peer(r))']
         ELSE response

(* Faulty variant: nobody answers when the poll at the peer raises. *)
RespondUnlessPollFails(r) ==
  response' =
    IF task'[r].pc = "failed"
    THEN [response EXCEPT ![r] = Failure]
    ELSE IF poll'[r].pc = "done"
         THEN [response EXCEPT ![r] = NewestWith(Owner(r), Peer(r))']
         ELSE response

(* What the request's client gets once the agents' step is made: an error  *)
(* if an exception left submit_new, the card after the poll.               *)
Respond(r) ==
  response' =
    IF task'[r].pc = "failed" \/ poll'[r].pc = "failed"
    THEN [response EXCEPT ![r] = Failure]
    ELSE IF poll'[r].pc = "done"
         THEN [response EXCEPT ![r] = NewestWith(Owner(r), Peer(r))']
         ELSE response

-----------------------------------------------------------------------------

(* The lifespan of the app: all listeners are up before it serves. *)
StartUp == \E p \in Principals : StartListener(p)

Serving == listening = Principals

(* POST /api/meetings, up to its first await. *)
SubmitNew(r) ==
  /\ Serving
  /\ \E me \in Principals, peer \in Principals, duration \in Durations :
       Propose(r, me, peer, DefaultCandidates(Today), duration)

(* The request resumes: the proposal comes back, with an answer or an      *)
(* exception, or goes on; when it returns, the poll at the peer follows.   *)
Negotiate(r) ==
  SendFails(r) \/ PromoteMeeting(r) \/ ReturnRejected(r, r) \/ BookOwn(r, r)

(* The request resumes in the peer's subscribe_to_pending_meetings. *)
PollPeer(r) == Subscribe(r) \/ FetchAndBook(r) \/ PollFails(r)

Resume(r) == (Negotiate(r) \/ PollPeer(r)) /\ Respond(r)

InboxNext ==
  \/ StartUp /\ UNCHANGED response
  \/ \E r \in Tasks :
       \/ SubmitNew(r) /\ UNCHANGED response
       \/ Resume(r)
       \/ (HandleIncoming(r) \/ StoreHandle(r)) /\ UNCHANGED response
  \/ \E m \in wire : LoseRequest(m) /\ UNCHANGED response

(* The server resumes every request whose await has ended.  Clients need   *)
(* not submit.                                                             *)
InboxFairness == \A r \in Tasks : WF_ivars(Resume(r))

InboxSpec == InboxInit /\ [][InboxNext]_ivars /\ InboxFairness

-----------------------------------------------------------------------------

Submitted(r) == task[r].pc # "idle"
Answered(r) == response[r] # NoResponse

(* A client that gets the card of its own meeting may rely on both sides:  *)
(* the counterpart has fetched, cached and booked it before the answer is  *)
(* sent, also when polls of other requests overlap with this one's.        *)
OwnCardIsSettled ==
  \A r \in Tasks :
    response[r] = Card(r) =>
      /\ BookedAt(Owner(r), r)
      /\ BookedAt(Peer(r), r)
      /\ r \in ReceivedCards(Peer(r))

(* A card is never of a meeting with somebody else, and a client is told   *)
(* of a failure whenever its exchange with the peer broke off.             *)
CardIsWithPeer ==
  \A r \in Tasks : response[r].status = "card" =>
    /\ task[r].pc = "done"
    /\ objects[response[r].meeting].owner = Owner(r)
    /\ objects[response[r].meeting].peer = Peer(r)

(* Every request is answered. *)
EverySubmitAnswered == \A r \in Tasks : Submitted(r) ~> Answered(r)

-----------------------------------------------------------------------------
(* What the repository says and the code does not do *)

(* agent_inbox.py:248 picks "the freshly-created MeetingObject": the card  *)
(* a client gets is that of the meeting its own request made.              *)
CardIsFreshlyCreated ==
  \A r \in Tasks : response[r].status = "card" => response[r].meeting = r

(* models.py:22, "accepted - both sides agreed; sitting on the user's      *)
(* calendar": once no request is in progress, every accepted card of an    *)
(* inbox is in that user's calendar.                                       *)
AcceptedIsOnCalendar ==
  (\A r \in Tasks : Submitted(r) => Answered(r)) =>
    \A p \in Principals : \A m \in Cards(p) : BookedAt(p, m)

=============================================================================
