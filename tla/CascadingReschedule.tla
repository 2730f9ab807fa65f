------------------------- MODULE CascadingReschedule -------------------------
(***************************************************************************)
(* run_cascading (phase_4_prototype/server/cascading.py): Iris asks Marius *)
(* for a slot that Marius has given to Atlas.  Inside the handler of that  *)
(* request Marius's reasoner picks another slot, Marius agrees it with     *)
(* Atlas in an exchange of its own (task 2), and only then answers Iris    *)
(* (task 1).                                                               *)
(*                                                                         *)
(* Both sends wait for a handler; each may raise at any time, and what was *)
(* sent may be served although the sender has given up.  A handler that    *)
(* was running when its listener stopped may still finish.                 *)
(***************************************************************************)
EXTENDS Exchange, Integers, FiniteSets

CONSTANTS
  IrisCalendar,     \* IRIS_SYNTHETIC_CALENDAR: a sequence of events
  MariusCalendar,   \* MARIUS_SYNTHETIC_CALENDAR
  AtlasFreeSlots,   \* ATLAS_INFERRED_FREE_SLOTS: a sequence of instants
  Request,          \* what Iris asks for: [slot, duration]
  Reasoners,        \* "scripted", and "injected" for any other reasoner
  None

Titles == {MariusCalendar[i].title : i \in DOMAIN MariusCalendar}
Slots == {Request.slot} \cup {AtlasFreeSlots[i] : i \in DOMAIN AtlasFreeSlots}
Proposals == [slot : Slots, title : Titles]
DefaultDuration == 45
Terms == [slot : Slots, duration : Nat]

(* A list of CalendarEvents. *)
IsCalendar(calendar) ==
  calendar \in Seq([start     : Nat,
                    duration  : Nat,
                    title     : {calendar[i].title : i \in DOMAIN calendar},
                    attendees : SUBSET UNION {calendar[i].attendees :
                                                i \in DOMAIN calendar}])

ASSUME CascadeAssumption ==
  /\ Request \in [slot : Nat, duration : Nat]
  /\ AtlasFreeSlots \in Seq(Nat)
  /\ IsCalendar(IrisCalendar)
  /\ IsCalendar(MariusCalendar)
  /\ Reasoners \subseteq {"scripted", "injected"}
  /\ None \notin Terms

VARIABLES
  reasoner,     \* the reasoner this run was given
  stage,        \* where run_cascading is
  handler,      \* where Marius's handler is
  listening,    \* the principals whose listener is up
  stores,       \* are the policy stores and ledgers open?
  asked,        \* the requests sent and not served, by task
  answered,     \* answered[t]: the terms its handler accepted, or None
  proposal,     \* reasoner_proposal_box
  ledger,       \* the provenance ledgers
  result        \* the CascadingResult, or None

vars == <<reasoner, stage, handler, listening, stores, asked, answered,
          proposal, ledger, result>>

Stages == {"start", "start_atlas", "send", "wait", "stop", "stop_atlas",
           "abandon", "abandon_atlas", "report", "done", "raised"}

Ended == stage \in {"done", "raised"}

-----------------------------------------------------------------------------
Occupied(calendar) == {calendar[i].start : i \in DOMAIN calendar}

(* The first position of a sequence that satisfies Test, as a set. *)
First(seq, Test(_)) ==
  {i \in DOMAIN seq : Test(seq[i]) /\ \A j \in 1 .. i - 1 : ~ Test(seq[j])}

(* ScriptedReasoner: the first event that starts at the requested slot     *)
(* must have Atlas as an attendee; it goes to Atlas's first free slot at   *)
(* which no event of the calendar starts.  The empty set is None.          *)
ScriptedProposals ==
  LET Blocks(event) == event.start = Request.slot
      IsOpen(slot) == slot \notin Occupied(MariusCalendar)
  IN  {[slot |-> AtlasFreeSlots[j], title |-> MariusCalendar[i].title] :
         i \in {k \in First(MariusCalendar, Blocks) :
                  "atlas" \in MariusCalendar[k].attendees},
         j \in First(AtlasFreeSlots, IsOpen)}

PossibleProposals ==
  IF reasoner = "scripted" THEN ScriptedProposals ELSE Proposals

(* The length of the meeting to move: the blocking event's, or 45. *)
MovedDuration ==
  LET Blocks(event) == event.start = Request.slot
      blocking == First(MariusCalendar, Blocks)
  IN  IF blocking = {} THEN DefaultDuration
      ELSE MariusCalendar[CHOOSE i \in blocking : TRUE].duration

(* Faulty variant: every event is moved. *)
MoveAll(calendar, title, slot) ==
  [i \in DOMAIN calendar |-> [calendar[i] EXCEPT !.start = slot]]

(* _calendar_after_move *)
AfterMove(calendar, title, slot) ==
  [i \in DOMAIN calendar |->
     IF calendar[i].title = title THEN [calendar[i] EXCEPT !.start = slot]
     ELSE calendar[i]]

(* _calendar_after_add *)
AfterAdd(calendar, slot, duration, title, attendee) ==
  Append(calendar, [start |-> slot, duration |-> duration, title |-> title,
                    attendees |-> {attendee}])

Overlap(start1, duration1, start2, duration2) ==
  start1 < start2 + duration2 /\ start2 < start1 + duration1

(* What the result's calendars take for granted of the literals they are   *)
(* made from: the meeting with Atlas lasts the 45 minutes that Atlas's     *)
(* copy is given, a title names one event, and only one event is in the    *)
(* way of the request, as is none of the slots it can move to.             *)
Blocking == {i \in DOMAIN MariusCalendar : MariusCalendar[i].start = Request.slot}

ASSUME FixtureAssumption ==
  /\ MovedDuration = DefaultDuration
  /\ \A i, j \in DOMAIN MariusCalendar :
       MariusCalendar[i].title = MariusCalendar[j].title => i = j
  /\ \A i, j \in Blocking : i = j
  /\ \A i \in DOMAIN MariusCalendar \ Blocking :
       ~ Overlap(MariusCalendar[i].start, MariusCalendar[i].duration,
                 Request.slot, Request.duration)
  /\ \A j \in DOMAIN AtlasFreeSlots :
       AtlasFreeSlots[j] \notin Occupied(MariusCalendar) =>
         ~ Overlap(AtlasFreeSlots[j], MovedDuration,
                   Request.slot, Request.duration)

-----------------------------------------------------------------------------
Init ==
  /\ reasoner \in Reasoners
  /\ stage = "start"
  /\ handler = "idle"
  /\ listening = {}
  /\ stores = "open"
  /\ asked = {}
  /\ answered = [t \in 1 .. 2 |-> None]
  /\ proposal = None
  /\ ledger = [p \in {"iris", "marius", "atlas"} |-> <<>>]
  /\ result = None

(* Marius's listener, then Atlas's; neither start is inside the try.       *)
StartListener(from, who, to) ==
  /\ stage = from
  /\ \/ stage' = to /\ listening' = listening \cup {who}
     \/ stage' = "raised" /\ UNCHANGED listening
  /\ UNCHANGED <<reasoner, handler, stores, asked, answered, proposal, ledger,
                 result>>

IrisSends ==
  /\ stage = "send"
  /\ stage' = "wait"
  /\ asked' = {1}
  /\ UNCHANGED <<reasoner, handler, listening, stores, answered, proposal,
                 ledger, result>>

(* Faulty variant: Marius answers Iris first and asks Atlas afterwards. *)
MariusAcceptsFirst ==
  /\ 1 \in asked
  /\ "marius" \in listening
  /\ \E p \in PossibleProposals :
       /\ proposal' = p
       /\ handler' = "waiting"
       /\ asked' = {2}
       /\ answered' = [answered EXCEPT ![1] = Request]
       /\ ledger' = [ledger EXCEPT !["marius"] =
                       LogAnswered(LogReceived(@, 1, Request), 1, Request)]
  /\ UNCHANGED <<reasoner, stage, listening, stores, result>>

(* Marius's handler up to its send: the reasoner answers (nothing, or by   *)
(* raising: the handler raises and Iris's send fails), the box is set, and *)
(* the proposal to Atlas leaves.                                           *)
MariusHandles ==
  /\ 1 \in asked
  /\ "marius" \in listening
  /\ ledger' = [ledger EXCEPT !["marius"] = LogReceived(@, 1, Request)]
  /\ \/ \E p \in PossibleProposals :
          /\ proposal' = p
          /\ handler' = "waiting"
          /\ asked' = {2}
          /\ UNCHANGED answered
     \/ /\ reasoner = "injected" \/ PossibleProposals = {}
        /\ handler' = "raised"
        /\ asked' = {}
        /\ UNCHANGED <<answered, proposal>>
  /\ UNCHANGED <<reasoner, stage, listening, stores, result>>

Move == [slot |-> proposal.slot, duration |-> MovedDuration]

(* atlas_handler accepts the first candidate unconditionally. *)
AtlasServes ==
  /\ 2 \in asked
  /\ "atlas" \in listening
  /\ asked' = {}
  /\ answered' = [answered EXCEPT ![2] = Move]
  /\ ledger' = [ledger EXCEPT !["atlas"] =
                  LogAnswered(LogReceived(@, 2, Move), 2, Move)]
  /\ UNCHANGED <<reasoner, stage, handler, listening, stores, proposal, result>>

(* Faulty variant: the answer repeats the terms agreed with Atlas. *)
AcceptedTermsOfMove == Move

(* iris_acceptance_payload *)
AcceptedTerms == Request

(* Marius's send returned: both its residues, then the acceptance. *)
MariusAccepts ==
  /\ handler = "waiting"
  /\ answered[2] # None
  /\ handler' = "accepted"
  /\ answered' = [answered EXCEPT ![1] = AcceptedTerms]
  /\ ledger' = [ledger EXCEPT !["marius"] =
                  LogAnswered(LogSent(@, 2, Move, answered[2]),
                              1, AcceptedTerms)]
  /\ UNCHANGED <<reasoner, stage, listening, stores, asked, proposal, result>>

(* Marius's send raised; what it sent may still reach Atlas. *)
MariusRaises ==
  /\ handler = "waiting"
  /\ handler' = "raised"
  /\ UNCHANGED <<reasoner, stage, listening, stores, asked, answered, proposal,
                 ledger, result>>

(* Faulty variant: Iris waits for an acceptance, whatever comes back. *)
IrisReturnsOnAcceptance ==
  /\ stage = "wait"
  /\ answered[1] # None
  /\ stage' = "stop"
  /\ ledger' = [ledger EXCEPT !["iris"] = LogSent(@, 1, Request, answered[1])]
  /\ UNCHANGED <<reasoner, handler, listening, stores, asked, answered,
                 proposal, result>>

(* Iris's send returns with the acceptance, or raises: on an error, or on  *)
(* a time limit of its own.                                                *)
IrisReturns ==
  /\ stage = "wait"
  /\ \/ /\ answered[1] # None
        /\ stage' = "stop"
        /\ ledger' = [ledger EXCEPT !["iris"] =
                        LogSent(@, 1, Request, answered[1])]
     \/ /\ stage' = "abandon"
        /\ UNCHANGED ledger
  /\ UNCHANGED <<reasoner, handler, listening, stores, asked, answered,
                 proposal, result>>

(* finally: both listeners are stopped, then the result is drawn up or the *)
(* CascadeAbortedError leaves run_cascading.  A stopped listener serves    *)
(* nothing any more; if stopping it raises, it and what comes after it in  *)
(* the block stay up.                                                      *)
StopListener(from, who, task, to) ==
  /\ stage = from
  /\ \/ /\ stage' = to
        /\ listening' = listening \ {who}
        /\ asked' = asked \ {task}
     \/ /\ stage' = "raised"
        /\ UNCHANGED <<listening, asked>>
  /\ UNCHANGED <<reasoner, handler, stores, answered, proposal, ledger, result>>

(* Faulty variant: the moved meeting's hashes are read from Marius's first *)
(* two entries.                                                            *)
ExchangesMisread(i, m, a) ==
  <<[task |-> 1, proposed |-> i[1].payload, accepted |-> i[2].payload],
    [task |-> 2, proposed |-> m[1].payload, accepted |-> a[2].payload],
    [task |-> 1, proposed |-> m[1].payload, accepted |-> m[4].payload]>>

(* The three BilateralExchangeDTOs, from the entries' positions in Iris's, *)
(* Marius's and Atlas's ledgers.                                           *)
ExchangesFrom(i, m, a) ==
  <<[task |-> 1, proposed |-> i[1].payload, accepted |-> i[2].payload],
    [task |-> 2, proposed |-> m[2].payload, accepted |-> a[2].payload],
    [task |-> 1, proposed |-> m[1].payload, accepted |-> m[4].payload]>>

(* The calendars the result shows; nothing is written anywhere. *)
CalendarsAfter ==
  [iris   |-> AfterAdd(IrisCalendar, Request.slot, Request.duration,
                       "synthetic-iris-marius-meeting", "marius"),
   marius |-> AfterMove(MariusCalendar, proposal.title, proposal.slot),
   atlas  |-> AfterAdd(<<>>, proposal.slot, DefaultDuration, proposal.title,
                       "marius")]

Report ==
  /\ stage = "report"
  /\ LET shown == [iris   |-> ByTask(ledger["iris"], 1),
                   marius |-> ByTasks(ledger["marius"], {1, 2}),
                   atlas  |-> ByTask(ledger["atlas"], 2)]
     IN  result' = [ledgers   |-> shown,
                    exchanges |-> ExchangesFrom(shown.iris, shown.marius,
                                                shown.atlas),
                    after     |-> CalendarsAfter]
  /\ stores' = "closed"
  /\ stage' = "done"
  /\ UNCHANGED <<reasoner, handler, listening, asked, answered, proposal,
                 ledger>>

(* The handlers run on when the run has ended.                             *)
HandlersNext == MariusHandles \/ MariusAccepts \/ MariusRaises \/ AtlasServes

Next ==
  \/ StartListener("start", "marius", "start_atlas")
  \/ StartListener("start_atlas", "atlas", "send")
  \/ IrisSends
  \/ HandlersNext
  \/ IrisReturns
  \/ StopListener("stop", "marius", 1, "stop_atlas")
  \/ StopListener("stop_atlas", "atlas", 2, "report")
  \/ StopListener("abandon", "marius", 1, "abandon_atlas")
  \/ StopListener("abandon_atlas", "atlas", 2, "raised")
  \/ Report

(* Every await of run_cascading and of the handlers returns or raises.     *)
Spec == Init /\ [][Next]_vars /\ WF_vars(Next)

-----------------------------------------------------------------------------
Payloads == {Request} \cup [slot : Slots, duration : {MovedDuration}]

(* Values of the right shape; at most four residues in Marius's ledger.    *)
TypeOK ==
  /\ reasoner \in Reasoners
  /\ stage \in Stages
  /\ handler \in {"idle", "waiting", "accepted", "raised"}
  /\ listening \subseteq {"marius", "atlas"}
  /\ stores \in {"open", "closed"}
  /\ asked \subseteq 1 .. 2
  /\ answered \in [1 .. 2 -> {None} \cup Payloads]
  /\ proposal \in {None} \cup Proposals
  /\ \A p \in DOMAIN ledger :
       /\ ledger[p] \in Seq(ResiduesOf(1 .. 2, Payloads))
       /\ Len(ledger[p]) <= (IF p = "marius" THEN 4 ELSE 2)

Accepted(p, task, terms) ==
  \E i \in DOMAIN ledger[p] :
    ledger[p][i] = Residue("emit", "acceptance", task, terms)

(* "Only after Atlas confirms does Marius accept" (SCENARIO_3_DESIGN.md):  *)
(* whatever is lost and whoever gives up, an acceptance of Iris's request  *)
(* in anybody's ledger means that Atlas has accepted the move, and that it *)
(* is the request that was accepted.                                       *)
AcceptsAfterAtlas ==
  \A p \in {"iris", "marius"} :
    \A i \in DOMAIN ledger[p] :
      /\ ledger[p][i].task = 1
      /\ ledger[p][i].operation = "acceptance"
      => /\ ledger[p][i].payload = Request
         /\ Accepted("atlas", 2, Move)
         /\ Accepted("marius", 1, Request)

(* A result's evidence: Marius's one chain holds the table of              *)
(* SCENARIO_3_DESIGN.md in that order, and each of the three exchanges     *)
(* shows the hashes that both of its sides have in their ledgers.          *)
ResultIsBacked ==
  result # None =>
    LET m == result.ledgers.marius
        onlyPart(from, to) == SubSeq(m, from, to)
        sides == <<[sender |-> result.ledgers.iris,
                    receiver |-> onlyPart(1, 1) \o onlyPart(4, 4)],
                   [sender |-> onlyPart(2, 3), receiver |-> result.ledgers.atlas],
                   [sender |-> result.ledgers.iris,
                    receiver |-> onlyPart(1, 1) \o onlyPart(4, 4)]>>
    IN  /\ [k \in DOMAIN m |-> m[k].task] = <<1, 2, 2, 1>>
        /\ \A x \in 1 .. 3 :
             /\ Fits(sides[x].sender, sides[x].receiver)
             /\ result.exchanges[x].proposed = sides[x].receiver[1].payload
             /\ result.exchanges[x].accepted = sides[x].sender[2].payload

(* The calendars shown are those the three agreed on: Iris gains what      *)
(* Marius accepted, Atlas what Atlas accepted; with the scripted reasoner  *)
(* Marius has moved exactly the meeting with Atlas, to the slot and for    *)
(* the time Atlas accepted, and the requested slot is free.                *)
CalendarsAreAgreed ==
  result # None =>
    LET moved == result.ledgers.atlas[2].payload
        gained == result.ledgers.iris[2].payload
        Last(calendar) == calendar[Len(calendar)]
        Is(event, terms) == /\ event.start = terms.slot
                            /\ event.duration = terms.duration
    IN  /\ Is(Last(result.after.iris), gained)
        /\ Is(Last(result.after.atlas), moved)
        /\ reasoner = "scripted" =>
             \A i \in DOMAIN MariusCalendar :
               LET was == MariusCalendar[i]
                   event == result.after.marius[i]
               IN  /\ ~ Overlap(event.start, event.duration,
                                Request.slot, Request.duration)
                   /\ IF was.start = Request.slot
                        THEN Is(event, moved) /\ "atlas" \in event.attendees
                        ELSE event = was

(* The run reports or raises, whichever of the nested sends fails.         *)
CascadeEnds == <>Ended

=============================================================================
