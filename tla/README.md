# TLA+ models of MeshyCal

MeshyCal lets the scheduling agents of several people agree on a meeting. The agents talk
through Mesherra, a trust layer that signs, filters and records what crosses the wire and
that is not part of the repository. This directory holds TLA+ modules of the agents, of the
HTTP inbox above them, of the demo's negotiations (two, three and four parties) and of the
sandbox server; TLC configurations that check them on small instances; and TLAPS proofs, for every
instance, of all the invariants that the runs check, of the action properties and of both
refinements.

    tlc -workers 2 -config MCSchedulingAgent.cfg MCSchedulingAgent
    tlapm SchedulingAgentProofs.tla       (and the other modules named ...Proofs)

## 1. The system

| Component | State | Operations | Talks to |
|---|---|---|---|
| `CalendarObject` (`meshycal/calendar_object.py`) | list of events (clock time, duration, title), version | `book`, `remove_event`, `is_busy_at`, `free_slots` | owned by one agent |
| `SchedulingAgent` (`meshycal/scheduling_agent.py`) | calendar, last verdict, listener URL, processed handles, cache of received states | `start_listener`, `propose_meeting_to`, `_handle_incoming`, `subscribe_to_pending_meetings`, `_handle_object_update`, `close` | the other agents, through Mesherra |
| `MeetingObject` (`meshycal/meeting_object.py`) | the canonical meeting, in the object store of its owner only | create | reaches the peer as a promotion handle, a subscription and a fetch |
| Reasoners (`meshycal/reasoners/`) | none | `evaluate_proposal`: accept one candidate or none | called by `_handle_incoming`; the LLM ones await a provider |
| `SchedulingAgentInbox` (`meshycal/api/agent_inbox.py`) | none of its own | `list_cards`, `find_detail`, `submit_new` | the agents of both principals, in one process |
| API application (`meshycal/api/app.py`, `principals.py`) | registry of principals | lifespan (start all listeners), GET, POST | the inbox |
| Policies (`meshycal/policy_template.py`, `phase_1/policy_template.py`) | fixed documents; in the sandbox, lists of fields that a PUT sets | none | read by Mesherra |
| Phase 1 demo (`demos/phase_1`) | fixtures, two ledger files, payload files | one proposal; accept, counter or reject; teardown; sixteen checks of the files | Mesherra |
| Slot picker (`phase_1/slot_picker.py`) | a cursor over the week | `find_free_candidates`, `pick_acceptable_slot` | both Phase 1 agents |
| Group negotiation (`group_negotiation.py`) | one run's records and ledgers | three queries, intersection, three confirmations | Mesherra |
| Cascading reschedule (`cascading.py`) | one run's captured payloads and ledgers | nested send: Atlas before the answer to Iris | Mesherra |
| Sandbox sessions (`sandbox_session.py`) | sessions with principals, keys and a sliding expiry | create, get, upsert, delete principal, destroy, sweep | the endpoints of `main.py` |
| Sandbox runner (`sandbox_runner.py`, `main.py`) | two throw-away agents per run | run | scheduling agents in the in-process mode |
| Web client (`web/`) | none that matters here | renders cards | API |

**One meeting between agents.** The initiator sends a PROPOSAL with candidate slots. The
peer's reasoner answers with one of them or none; the peer books nothing. On an acceptance
the initiator creates the `MeetingObject`, promotes it (which makes a handle), sends the
handle with PROMOTE, and when that is acknowledged books its own calendar. The peer learns
of the meeting only by polling: for each handle that it has not processed it subscribes at
the owner, fetches the state, caches it, books it and marks the handle. The api makes that
poll on the peer's behalf, inside the initiator's POST.

**The negotiations of the demos** use no objects: what was agreed is what the ledgers of
both sides say. In Phase 1 one proposal gets one answer, and the files are checked
afterwards. In the group negotiation Iris queries each peer, intersects the answers, and has
each peer confirm the earliest common slot, one exchange after another. In the cascade
Marius, asked by Iris for an occupied slot, moves the occupying meeting with Atlas inside
the handler of Iris's request, and answers after that.

**What is hard.** Everything runs on one event loop per process, so code between two awaits
is atomic and nothing else is:

- two polls of one agent, two POSTs, a proposal and its mirror image, or a sandbox run and
  the requests that change its session interleave at every await;
- a request, or only its answer, may be lost, and a sender may give up on a request that is
  served afterwards. Fields of a request or an answer may be withheld by the policy of either
  side, and are then read as their defaults. Hardly any exception is caught and nothing that was done before it is
  undone, so every await splits "object created", "handle delivered", "owner booked", "peer
  booked" and "peer marked", or "first peer confirmed" and "second peer confirmed";
- in the cascade a handler awaits a send of its own; either sender may give up first;
- checks made before an await (the processed set, the session's principals) are not repeated
  after it;
- results are put together afterwards from shared state: the newest card, the last verdict,
  positions in a ledger that holds two exchanges nested in one another;
- things opened are closed on some paths only, and the teardowns themselves have awaits that
  may raise;
- the slot search walks a week with a cursor that jumps over nights and weekends, and
  compares times of day.

**What makes it correct.** Each calendar event corresponds to one canonical agreement, which
both parties can reach; no meeting is booked twice; marks, cache and calendar of the
receiver never tell different stories; a slot is confirmed only when it suits everybody, and
accepted only when it is really free; evidence in the ledgers backs every result, and checks
of the evidence never pass over a row that is not as it was signed; a key is used only with the
configuration it came with; an ended session stays ended; every call ends. `PROJECT.json`
lists the hazards line by line with the properties that guard them.

## 2. The modules

| Module | Models |
|---|---|
| `Calendar` | `CalendarObject`: instants as minutes, events that keep only a clock time, `Book`, `BusyAt` |
| `SchedulingAgent` | all agents, their object stores, and the messages between them |
| `SharedAgreement` | abstract: offer, agree once, share, commit on either side |
| `AgentInbox` | the api's requests over the agents of one process |
| `Exchange` | one bilateral exchange as the demo servers use it: residues and ledgers |
| `GroupNegotiation` | `run_four_party` for N peers |
| `GroupCommit` | abstract: fix the earliest common slot, confirm it peer by peer, declare an outcome |
| `CascadingReschedule` | `run_cascading` with its nested handlers |
| `Slots` | the working-hour grid of the slot picker, and what a free slot is |
| `SlotPicker` | `find_free_candidates`, one loop iteration per step |
| `PhaseOne` | `run_demo` with both agents, the teardown and the checks |
| `Sandbox` | session store, endpoints and runs of the sandbox server |
| `SchedulingAgentProofs`, `SettlementProofs` | theorems about `SchedulingAgent` |
| `AgentInboxProofs`, `GroupNegotiationProofs`, `CascadingRescheduleProofs`, `SlotPickerProofs`, `PhaseOneProofs`, `SandboxProofs` | theorems about the module they name |
| `MC...` | instances for TLC |

`AgentInbox` composes with `SchedulingAgent` (it extends it and adds the requests to its
steps), `GroupNegotiation` and `CascadingReschedule` are built on `Exchange`, `PhaseOne` and
`SlotPicker` on `Slots`, `Sandbox` on `Calendar`.

Definitions whose comment begins with *Faulty variant* are not part of any specification.
They record a bug that someone could plausibly make in the definition after them, and each
property is known to fail under one of them.

### SchedulingAgent

A *task* is one call of `propose_meeting_to`, a *poll* one call of
`subscribe_to_pending_meetings`; `task[t].pc` and `poll[k].pc` name the await the call is
suspended at. A task makes at most one object, and the object one handle, so both carry the
task's name: `objects[t]` is the entry in the owner's store, `t \in handles` says that the
peer's agent has the handle, `t \in subscribed` that the owner has a subscription for it.
`received`, `processed`, `lastVerdict` and `calendar` are the agent's fields of these names;
`wire` holds the requests sent and not yet served.

| Action | Code |
|---|---|
| `StartListener` | `start_listener` sets `_my_url` |
| `Propose` | payload built, PROPOSAL sent, up to the first await |
| `HandleIncoming` | `_handle_incoming` at the peer: reasoner, last verdict, answer |
| `ReturnRejected` | no slot in the answer: the call returns |
| `RaiseWithoutListener`, `BookInProcess`, `PromoteMeeting` | object created, then the three ways on: no URL, in-process mode, PROMOTE |
| `StoreHandle` | Mesherra stores the handle at the receiver and acknowledges |
| `BookOwn` | the owner books and the call returns |
| `SendFails`, `LoseRequest` | a send raises; a request is lost |
| `StartPoll` | the poll up to its first await (or its return) |
| `Subscribe`, `FetchAndBook` | the continuation of each await of the loop; `FetchAndBook` caches, books, marks and goes on to the next handle in one step, as the code does |
| `PollFails` | an exception leaves the loop; the owner may have recorded the subscription all the same |

A returning call may poll at the peer in the same step (`Continue`), because that is how
`submit_new` uses it; on its own this is a caller that does nothing in between.

`Heard` is the proposal as the peer's agent reads it and `Reply` the answer as
`_extract_acceptance` does: each through the sender's outbound and the reader's inbound
policy (`Discloses`), without `candidates` an empty list, without `duration_minutes` 30 minutes.
`task[t].agreed` is the duration read from the answer, which the object and the owner's
booking take.

Mesherra is modelled by what `scheduling_agent.py` relies on: a request is served at most
once, `send_to` returns after the request was served or raises at any moment before, and a
request that was given up may still be served.

### AgentInbox

A request is a task together with the poll of the same name. `submit_new` has no await of
its own, so `Respond`, what it does after the agent's call returns, is part of the agents'
last step (`Resume`). `Cards` is `list_cards`, `NewestWith` the search for the card that
answers the POST.

### Exchange, GroupNegotiation, CascadingReschedule

A ledger is the sequence of its residues, and a payload stands for its own hash. The
receiving side writes a residue before its handler runs and one after, the sending side both
when the answer is there: so a ledger of the receiver can be ahead, or stay half written.

In `GroupNegotiation`, `stage` is the await of `run_four_party` (and of `_run_bilateral`
inside it), `current` the exchange under way: 1..N are the queries, N+1..2N the
confirmations. `captured` is the dictionary the peers' handlers write to. `Serve` is the
peer's gateway with its handler; it can happen after `GiveUp`, until `Abandon` stops the
listener, or for good when stopping it raises (`StopRaises`). `Decide` intersects the answers and picks the earliest, `Report` is the
`FourPartyResult`. The code has three peers; the module has `Order`, any sequence of them.

In `CascadingReschedule`, `stage` is the await of `run_cascading` and `handler` that of
Marius's handler, which runs inside the send of Iris. `MariusHandles` is the handler up to
its own send (the reasoner, the box, the proposal to Atlas), `AtlasServes` Atlas's handler,
`MariusAccepts` and `MariusRaises` the two ends of Marius's send, `IrisReturns` those of
Iris's. `StopListener`, which may raise, and `Report` follow. The handlers may run on after the
run has ended (`HandlersNext`). The scripted reasoner is exact; any other one
proposes any slot and title, or raises. Reports read fixed positions of the ledgers
(`ExchangesFrom`), and the calendars shown are computed from the proposal and from literals
(`CalendarsAfter`), as in the code.

### Slots, SlotPicker, PhaseOne

`SlotPicker` has one step for each iteration of `_iter_workday_slots`, joined with the body of
`find_free_candidates` when it yields: `SkipToWorkday`, `Take`, `Pass`, `Exhaust`.
`FreeCandidates` in `Slots` says what the search returns in one expression; that the search
returns it is checked and proved, and `PhaseOne` uses the expression.

`PhaseOne` is `run_demo`: `Boot` and `Open` are the steps that open something and may raise
(before and inside the `try`), `Propose` is `run_agent_a`, `Serve` agent B's gateway and
handler (`FailToServe` when that raises), `Return` the end of A's send, `StopListener` and
`Teardown` the two `finally` blocks, `WritePayloads` the sidecar files. `Teardown` closes one
thing per step, in the order of the code; each of these steps may raise, which puts the thing
into `broken` and leaves `run_demo` at once, and when the listener's stop raises the outer
block still runs. `EditRow` and `EditSidecar` are somebody changing a ledger row or a payload
file between the run and the checks; the first is what check 3 exists for. Check 13 finds a
payload file by its name and does not hash it again (`run_demo.py:817`), so that a file changed
in a way that keeps the accepted slot passes. `EvaluateAssertions`
evaluates the numbered checks. Numbers 2, 4, 8 and 9 compare fields that Mesherra writes
(principal ids, chain links) and are left out.

### Sandbox

`sessions[t]` is a `_SessionRecord`: expiry, principals, keys. Every access goes through
`GetSession`, which sweeps all expired sessions and then refreshes the one asked for. A PUT
has a number, so that a key and a configuration can be told to be of one PUT; a session's
defaults have number 0. A run is suspended while the listener starts (`starting`), while the
proposal is under way (`waiting`) and while the listener stops (`stopping`); other requests
and the other run interleave there. `FreeSlots` is `CalendarObject.free_slots` with its
fallback to busy slots, `Reasoner` the factory's fallback to the scripted reasoner without a
key, `BookAnswer` the sender's agent in its in-process mode. The settings of a PUT include what
its policy lets out and in; `Heard` and `Answered` are proposal and answer after both
policies, while `Finish` draws the result up from the recipient's own verdict, as the code
does.

### Abstractions

- Titles, locations, attendees, display names, the agreement hash and the ledgers carry no
  behaviour in `SchedulingAgent` and are left out there. An event's title is represented by
  the meeting it is for.
- An agent does not propose to itself, nor poll at itself (`me # peer` in `Propose` and
  `StartPoll`). The api does not exclude it (`app.py:134`); what Mesherra does with a message to
  oneself is not to be seen in the repository, and no claim is made for it.
- LLM reasoners answer with any listed candidate or none, whatever the calendar holds. The
  fallback to the scripted answer after a provider failure is among these answers, so the
  await on the provider adds no behaviour and `HandleIncoming` is one step.
- A list of candidates is the set of its instants where the code keeps it in order of time.
- Signatures are Mesherra's and do not fail other than as an exception of the call; in
  `PhaseOne` a residue keeps what was signed, since a check depends on it. Policy
  enforcement removes the fields of a payload that its author's policy does not let out
  (`Scoped`) or its reader's does not let in (`ARCHITECTURE.md:255`); in `SchedulingAgent` and
  `Sandbox` these are any of the two fields that are read again. Handle expiry is left out.
- Pushed object updates only write a debug line in the code. No code changes a meeting after
  it is created, so none are sent.

## 3. The runs

| Run | Question | Result |
|---|---|---|
| `scheduling_agent` | do calendars, stores, marks and caches stay consistent, do the agents implement `SharedAgreement`, does every call end? | holds |
| `agent_inbox` | is what a card says true of both sides when polls overlap, and is each POST answered? | holds |
| `group_negotiation` | is only the earliest common slot ever confirmed, is every result backed by the ledgers, is there one listener at a time, does the run implement `GroupCommit`, does it end? | holds |
| `cascading_reschedule` | is Iris accepted only after Atlas, are result and calendars what was agreed, does the cascade end whichever send or stop fails? | holds |
| `slot_picker` | does the search return exactly the first free slots, and does it end? | holds |
| `phase_one` | do the checks pass only when B accepted and no ledger row was edited, and always when no file was; does the answer suit both; has the listener what it needs; is what stays open only what would not close, and what that kept from being closed? | holds |
| `sandbox` | do runs use one snapshot of the session, do ended sessions stay ended, is what is booked what was agreed, whatever the policies withhold, is it over an event of the sender's only if nothing was free, are runs idempotent? | holds |
| `overlapping_polls` | `BookedOnce`, for two POSTs to one counterparty | violated |
| `fresh_card` | `CardIsFreshlyCreated`: the card is of the meeting this request made | violated |
| `accepted_card` | `AcceptedIsOnCalendar`: an accepted card is in its user's calendar | violated |
| `long_meeting` | `MeetingsEndInWorkday`, for an eight-hour meeting | violated |
| `withheld_fields` | `SuccessIsBooked`: a success has booked the meeting it reports | violated |

**Bounds.** `scheduling_agent` has two principals, two proposals, in either direction, two
polls that may be reused any number of times, and one candidate list of two slots. One agent
has an LLM reasoner, the other a scripted one in the in-process mode, with or without a
listener; its standing event makes the first candidate busy, so that it accepts the second,
and after a booking it rejects both. Its policy lets no duration out: the meeting of 60 minutes
that is asked for becomes one of 30 when it answers, and the other agent reads 30 in its
proposals. Two proposals are what it takes for a mirror image, for
two handles pending at one receiver, and for a late answer beside another task; two polls
are what it takes for one to fail and another to retry, or for two agents to poll at once.
Events are projected on any day and durations cross a candidate's neighbour, so scripted
rejections occur. `agent_inbox` has two requests in either direction, each with its own poll, on
empty calendars and the three default candidates, of which a weekend lies between the first
two. Two requests are the least that lets polls overlap. Three agents, where one poll
meets handles of two owners, are not covered by a run: the api registers two.

`group_negotiation` has the code's three peers and candidates, and gives each peer every
subset of four blocks: one that ends when the first candidate starts, one inside it, and the
two that take out the others. So every pattern of common slots occurs, from none to all,
with a failure at every await of the six exchanges. `cascading_reschedule` has the code's
calendars; Atlas's first free slot is one where Marius is busy. `slot_picker` has all
combinations of four blocks (at a day's start, off the grid, over a weekend, before work),
a reversed one, a full fortnight, references on and off the grid, at night and in a weekend,
and durations from 5 to 449 minutes. `phase_one` has generated calendars and three that
leave one slot or none, one or three candidates, an earlier run's files or none, and
`MaxEdits = 2` edits of rows or payload files: enough for the two rows of one exchange to be
changed alike, or for a row and a file.
`sandbox` has one token, two users, two runs, `MaxPuts = 2` and `MaxNow = 3` ticks with a
time to live of 1, so that a session can expire during a run; the configurations force the
scripted, the fallback and the LLM answer, and withhold the slot from an answer or the
duration from a proposal or an answer. The two runs are interchangeable (symmetry).

**`PollsOverlap`.** In `scheduling_agent` the polls of one agent do not overlap, because
`BookedOnce` is false otherwise: that is the finding below. Under `agent_inbox` they do, and
everything but `BookedOnce` still holds.

**Fairness.** Every await ends, by an answer or by an exception, and the event loop then
resumes the coroutine: weak fairness of the continuation of each suspended task and poll
(`Fairness`, `InboxFairness`), and of the steps of the one coroutine and its handlers in
`GroupNegotiation`, `CascadingReschedule`, `SlotPicker` and `PhaseOne` (where requests being
served and files being edited are not among the fair steps). It is not assumed that any
message arrives: a lost one ends in an exception. That `send_to` has a time limit is a
property of Mesherra's transport, and `ProposalsEnd` fails without it. Nobody is obliged to
propose, to poll or to start a listener. `Sandbox` has no fairness: clients may stop, and
nothing is claimed to happen. Runs stop when all tasks are done, so deadlock is not checked;
that the runs do not stop earlier is what the liveness properties say.

## 4. Findings

1. **A meeting can be booked twice.** `subscribe_to_pending_meetings` says it is idempotent
   (`scheduling_agent.py:436`), but it looks at the processed set before two awaits and adds
   to it after them. Two concurrent POSTs to one counterparty make two such polls.
2. **The card of a POST may be of another meeting.** `submit_new` looks for "the
   freshly-created MeetingObject" (`agent_inbox.py:248`) and takes the newest one with the
   counterparty: another request's, or, after a rejection, an old one.
3. **"Accepted" does not mean "on the calendar".** Every owned object is shown as accepted,
   "sitting on the user's calendar" (`api/models.py:22`), also when PROMOTE failed after the
   object was created and nothing was booked.
4. **Long meetings run past midnight.** `find_free_candidates` compares the end of a meeting
   as a time of day, so that one that ends at or after midnight counts as early. The
   docstring says "09:00–17:00 UTC" (`slot_picker.py:18`), and the schema admits 480
   minutes: such a meeting is offered at 16:00, and at 16:30. Below 450 minutes the comparison is right,
   which is proved.
5. **A reported success may have booked nothing, or half an hour.** The sandbox's result is read
   from the recipient's verdict (`sandbox_runner.py:284`): "Both calendars gain a signed meeting"
   (331), of the length asked for. The sender's agent books what is left in the answer after
   both policies: nothing without `candidates`, 30 minutes without `duration_minutes`, as with
   the policy of the PUT at `test_sandbox.py:164`. `BookingIsAgreed` is what does hold.

Differences that are no finding of a run, because no later state depends on them, the words
leave room, or it takes more than the code sets up:

- `SCENARIO_3_DESIGN.md:455` says that a `try/finally` closes "all listeners/stores/ledgers
  cleanly"; `cascading.py` closes stores and ledgers on the successful path only (692–698),
  and starts the listeners outside the `try` (489–508), so that Marius's stays up when
  Atlas's fails to start.
- `SANDBOX_BACKEND_DESIGN.md:348` has a 409 for a deletion that leaves fewer than two
  principals; the endpoint deletes.
- `SANDBOX_ARCHITECTURE.md:290` says that the idle limit drops a key; the sweep runs only
  when some session is asked for, so a key outlives the limit while nobody asks.
- `reasoner.py:72` picks a slot that "doesn't collide" with the calendar, and compares
  starting times only.
- `sandbox_runner.py:331` tells of a meeting in both calendars; only the sender's agent
  books, in its throw-away copy. (Finding 5 is about that one.)
- `free_slots` offers busy slots when none is free, and says that the recipient's reasoner
  "will handle the rejection cleanly" (`calendar_object.py:154`). The recipient knows only its
  own calendar; when it is free it accepts, and the sender's agent books over an event of its
  own. That this happens only when nothing was free is `AgreedSlotSuitsSender`.
- `subscribe_to_pending_meetings` is to pick up "any received MeetingObject handles"
  (`scheduling_agent.py:426`), but asks the one `peer_url` it is given for all of them. With two
  owners' handles pending, each poll raises at the one its peer does not own. It takes a
  third principal, and the api's sandbox has two (`principals.py:157`).
- The comment on the teardown of `run_demo.py` (224–227) speaks of the order only. Its awaits are
  not guarded: when one raises, what comes after it stays open. The same holds of the two
  stops in `cascading.py` (555–556) and of the one in `group_negotiation.py` (351).

## 5. What is proved

Eight modules prove, for all values of the constants:

| Module | Theorem | Statement |
|---|---|---|
| `SchedulingAgentProofs` | `TypeCorrect` | `Spec => []TypeOK` |
| | `AgreementInvariant` | `Spec => []AgreementInv`, the inductive invariant |
| | `BookingsAreAgreed` | every event lies at the clock time of a canonical object and is as long as that says, at one of its two parties, and the counterpart holds the handle |
| | `NothingTakenBack` | `Spec => [][Keeps]_vars`: agreements, handles, processed marks and finished proposals are final |
| | `MeetingsBookedOnce` | if polls of one agent do not overlap, `Spec => []BookedOnce` |
| `SettlementProofs` | `SettlementInvariant` | its inductive strengthening |
| | `MarksAreBookings` | a handle is processed exactly when its meeting is booked and cached at the receiver |
| | `OwnerBooksExactlyOnReturn` | the initiator has booked exactly the proposals that returned an acceptance |
| | `FinishedPollsAreComplete` | a poll that returns leaves no handle of its snapshot unprocessed |
| | `AgentsImplementSharedAgreement` | `Spec => AgreementIsShared`: the refinement |
| `AgentInboxProofs` | `InboxRunsTheAgents` | `InboxSpec => Spec`: what holds of the agents holds of the inbox |
| | `InboxInvariant`, `ResponsesAreTyped` | the inductive invariant, the types |
| | `InboxMarksAreBookings` | `InboxSpec => []ProcessedIsBooked` |
| | `OwnCardsAreSettled` | `InboxSpec => []OwnCardIsSettled` |
| | `CardsAreWithPeer` | `InboxSpec => []CardIsWithPeer` |
| `GroupNegotiationProofs` | `NegotiationInvariant`, `TypeCorrect` | the inductive invariant, the types |
| | `OnlyTheCommonSlotIsConfirmed` | `Spec => []ConfirmedSlotIsCommon`, for any number of peers |
| | `OneListenerAtATime` | `Spec => []ListenersAreSequential` |
| | `RunImplementsGroupCommit` | `Spec => ImplementsGroupCommit`: the refinement |
| | `LedgersBackTheRecords`, `ReportsAreBacked` | the invariant of the evidence, and `Spec => []ReportIsBacked` |
| `CascadingRescheduleProofs` | `CascadeInvariant`, `TypeCorrect` | the inductive invariant, the types |
| | `MariusAcceptsAfterAtlas` | `Spec => []AcceptsAfterAtlas` |
| | `LedgersBackTheResult`, `ResultsAreBacked` | the invariant of the evidence, and `Spec => []ResultIsBacked` |
| | `CalendarsShownAreAgreed` | `Spec => []CalendarsAreAgreed` |
| `SlotPickerProofs` | `SearchInvariant`, `TypeCorrect` | the inductive invariant, the types |
| | `FoundSlotsAreFree` | `Spec => []FoundAreFree`, for any duration |
| | `AnswerIsExact` | under 450 minutes, `Spec => []AnswerIsFirstFree` |
| | `ShortMeetingsEndInWorkday` | under 450 minutes, `Spec => []MeetingsEndInWorkday` |
| `PhaseOneProofs` | `DemoInvariant`, `TypeCorrect` | the inductive invariant, the types |
| | `ChecksAreTrue` | `Spec => []ChecksTellTheTruth` |
| | `AnswersSuitBoth` | `Spec => []AnswerSuitsBoth` |
| | `ListenerIsServed` | `Spec => []ListenerHasItsResources` |
| | `TeardownLeavesWhatBroke` | `Spec => []NothingIsLeftUp` |
| `SandboxProofs` | `SandboxInvariant`, `TypeCorrect` | the inductive invariant, the types |
| | `KeysComeWithTheirConfiguration` | `Spec => []RunUsesOneSnapshot` |
| | `EndedSessionsStayEnded` | `Spec => DeadSessionsStayDead` |
| | `BookingsAreAgreed` | `Spec => []BookingIsAgreed` |
| | `AgreedSlotsSuitSenders` | `Spec => []AgreedSlotSuitsSender` |
| | `RunsLeaveNothingBehind` | `Spec => []RunsAreIdempotent` |

**Assumptions.** Those on the constants, named in each module and evaluated by TLC:
candidates are instants and durations positive, reasoners are of the two kinds, the initial
events carry no meeting's name, peers are distinct and Iris is not among them, the bounds
are numbers, and `None` is none of the values it stands beside. The api's default candidates
are among the lists that agents may offer (`InboxAssumption`), and the demo's meeting is
shorter than the time from 16:30 to midnight (`Duration < Long`; the code has a constant of
30 minutes). `MeetingsBookedOnce` also assumes `~PollsOverlap`, without which it is false, and
the last two theorems about the slot search that durations are `Short`, without which they
are (finding 4). `CalendarsShownAreAgreed` rests on `FixtureAssumption`: the code computes the
calendars it shows from literals, and they are right because the meeting with Atlas lasts
the 45 minutes that its copy is given, titles name one event each, and the events that are
not moved leave the requested time free. TLC evaluates that assumption on the code's own
fixtures. So the coincidence of the literals is checked for these fixtures and assumed by the
theorem, which says that nothing else about them is needed: for other calendars the code may
show something that nobody agreed to.

**The agents.** `BookingsAgreed` is not inductive: it does not say why the event that a
step adds agrees with the object. `AgreementInv` adds what is needed.

- `ObjectsMatchTasks`: where a task stands, whether it has an object, and that the object
  records what was read from the answer, slot and duration. `BookOwn` books the answer, the
  object says the same, and the receiver books the object: policies may change what was asked
  for, but not one of the three alone.
- `HandlesHaveObjects`: a PROMOTE on the wire, a stored handle, an acknowledgement and a mark
  each imply the one before, also when the task that made them has failed.
- `PollsHoldHandles`: the handles a suspended poll works on were received by its agent, so
  `FetchAndBook` books at the object's peer.
- `BookingsRecorded`: every booking is at an owner whose task is done or at a peer that has
  marked the handle. It ties calendars to program counters, which is what `BookedOnce`
  needs: before the booking step the task is not done, or the handle not marked.

For `BookedOnce`, `PollsAreExclusive` adds that one agent has one poll suspended and that
nothing it still holds is marked. Each conjunct has a lemma with one step per action, and
each is preserved under `Keeps`, the monotonicity of the other variables, which is proved
first and is a theorem of its own.

`SettlementInv` is `AgreementInv` with three more conjuncts. `MarksComplete` ties the marks to
the cache, the subscription and the calendar, and needs the subscription of a poll that is
already fetching. `ReturnsBooked` is the half of `OwnerBooksOnReturn` that `BookingsRecorded`
does not give. `PollsCoverSnapshot` says that a suspended poll still holds whatever of its
snapshot is unmarked, which at its last step leaves nothing. None of this assumes that polls
do not overlap: two overlapping polls may book twice, but neither half finishes a handle.

For the refinement, `AnswersOffered` adds that an answer is one of the candidates its own
proposal sent. `Propose` maps to `Offer`, `PromoteMeeting` and `RaiseWithoutListener` to
`Agree`, `BookInProcess` to `AgreeInProcess`, `StoreHandle` to `Share`, `BookOwn` to
`CommitInitiator` and `FetchAndBook` to `CommitCounterpart`; every other step is a stutter. The
initiator's commitments are read off the calendars, which a step of another meeting must be
shown to leave alone; by `SettlementInv` they are the proposals that returned an acceptance,
and those are easy to follow.

**The inbox.** Every step of `AgentInbox` is a step of the agents or a stutter, also when the
answer to a POST is put together within it; so the invariants of the agents hold here,
and none of those used needs polls apart. `InboxInv` adds what the order of the two calls in a
POST gives: the poll begins when the proposal has returned (`PollsFollow`), an acceptance that
returned has its handle at the peer, so that handle is in the snapshot of the poll that
follows and is marked when it returns (`AcceptancesFollowed`). `OwnCardIsSettled` is then the
owner's booking at its return and the receiver's at the mark, each of which exists whichever
poll made it. That `NewestWith` finds a meeting at all when the agent owns one needs the
creation times to be numbers below the clock (`ObjectsDated`): any set of such
numbers has a greatest.

**The group negotiation.** A confirmation in a ledger says nothing of the other calendars, so
the invariant follows the run: `Serving` (whose listener is up, and what an unserved request
says, also after Iris has given up), `Answers` (which exchanges are answered, and that an
answer is what the handler computes), `Recorded` (the records are those answers), `Chosen` (the
slot chosen is the earliest of `Common`, which is defined from the calendars), and
`Confirmations`. The step that matters is `Decide`: the intersection of N recorded answers is
`Common`. `Decide` maps to `Fix`, `Serve` of a confirmation to `ConfirmNext`, `Report` to
`Succeed` or `NoCommonSlot`, the exceptions to `Fail`. A late `Serve`, between `GiveUp` and
`Abandon`, is a `ConfirmNext` before the `Fail`; one that comes after `StopRaises`, when the run
has failed already, is `AnswerLate`, of which there is at most one (`NextConfirms`).

For `ReportIsBacked`, `Backed` says entry by entry what each ledger holds: Iris two for each
exchange that returned, a peer two for its query and two for its confirmation, as far as
these were served, also when Iris has given up. The record of an exchange quotes these
entries when it is made, and the ledgers only grow. Both the records and the result read a
ledger by task (`ByTasks`, given by the rank of each entry among those asked for, which needs no
recursion), and the lemma behind each reading is `ConsecutiveByTasks`: when the entries of some
tasks lie together, reading them gives that segment.

**The cascade.** `Nesting` says that Marius's handler runs once and in which order the two
requests are out, `Ledgers` what each ledger can hold by then, `Acceptances` that each
acceptance rests on the one below it: an entry with Iris, on Marius's answer, on Atlas's
answer, on the entry in Atlas's ledger. Ledgers only grow, so the evidence stays.

`EntriesLogged` gives the ledgers outright, by what the handlers have done: Marius's holds his
question to Atlas and its answer between Iris's question and her answer, which is why the
fixed positions of `ExchangesFrom` are right. `Proposed` says that what Marius moved is
something his reasoner can have picked from his calendar; for the scripted one, the
blocking event goes to a slot at which nothing starts.

**The slot search.** The invariant says that the cursor is on the grid and before 09:00 only
where the search began, that what was found could be taken (`Candidate`), and that no proper
slot behind the cursor is missing (`NothingSkipped`). Its heart are the lemmas that neither
the jump to the next workday (`SkipsNoWork`) nor the one to 09:00 (`MorningIsNoWork`) passes
over working time. `AnswerIsExact` then counts: the predecessors of the i-th slot found, among
all free ones, are the i-1 found before it, and when the search stopped at its limit any
free slot not found has `Limit` before it.

**The demo.** `ResourcesOK` and `RegistrationOK` list what is open at each stage; both `finally`
blocks start from several of these sets, since every step may raise. `BrokenOK` says what can
have broken by then: B's listener, and at most one thing of the outer block, since that ends
with the first; so what is open at the end is that one and what is closed after it
(`LeftOver`). `ExchangeOK` says that
what was proposed, sent and answered are the values computed from the calendars, and
`LedgersOK` that a file has both its rows or none until the checks; then each is an edit of
the row written (`EditsOf`), which never touches what was signed. `ChecksAreTrue` has two
directions. Rows and payload files as they were written pass every check, number by number. Conversely, a changed
field fails the check of the signature of that row, and an answer that is no acceptance the
check of its operation; both rows being edited alike does not help, since a
signature covers what its own row says. `AnswerSuitsBoth` rests on what `FreeCandidates`
returns (`Slots`): a subset of the grid, free for the calendar it was computed from, and empty
only when nothing is free, for which the free slots are shown to have an earliest one.

**The sandbox.** Records carry `Matches`: the key kept for a principal is the one that came
with its configuration. It is preserved because PUT and DELETE write both in one step, and
`StartRun` copies both in one step. For `EndedSessionsStayEnded` every action is shown to keep
only sessions that were live: `GetSession` returns nothing that it should have swept.

`SInv` follows the values of a run. `Faithful` says at each of its stages what its record holds:
candidates computed from the sender's calendar, the agent's calendar as copied until the
booking, a verdict that its reasoner could give for the proposal as it was heard, a booking of
the answer as it was read, a success that is the verdict. `EntriesOK` is about everything the server holds for a user of a session, in the
store or in a run that was started from it (`Held`): two entries of one PUT are equal,
because numbers are used once and the entry is never changed afterwards. So two runs that
name the same PUTs started from equal calendars, and a scripted recipient has one
answer. `Held` keeps the entries of runs whose session has since been changed or destroyed: a run
that ends late is compared with one that started later.

**Only model-checked.** Liveness: `ProposalsEnd`, `PollsEnd`, `EverySubmitAnswered`, `RunEnds`,
`CascadeEnds`, `SearchEnds` and `DemoEnds` hold under weak fairness, and TLAPS reaches neither
`ENABLED` nor rules for fairness. Every invariant and every other temporal property of the
passing runs has a theorem. Of `PhaseOne`, `FreeCandidates` is what it proves about; that the
loop returns it is `AnswerIsExact`, a theorem about `SlotPicker`, and the two are joined by
both modules using the one definition.

## 6. What is left

1. Restart of an agent, once the code has a way to recover: today the registry makes new keys
   and empty calendars at every start, and the comment at `scheduling_agent.py:137` defers
   the rest.

## 7. Not modelled

The web client and the static pages (they render what the servers return), the provider
calls and prompts of the LLM reasoners, field validation of request bodies, the api's reading
paths other than `list_cards`, the ports, CORS and settings of the servers, the demos' printed
transcripts, labels and timings, `remove_event` (nothing calls it), and Mesherra itself beyond
section 2. `run_two_party` (`scenarios.py`) is a single exchange with a fixed answer; `Exchange`
models its residues, and there is no run of its own. Exclusion between proposals in flight (two
peers accepting overlapping slots) is nowhere promised by the code and so not a property. No
module models a crash: nothing in the repository reads state back after one, except the Phase
1 checks, which read the ledger files cold and are modelled.
