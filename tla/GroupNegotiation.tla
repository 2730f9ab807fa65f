--------------------------- MODULE GroupNegotiation ---------------------------
(***************************************************************************)
(* run_four_party (phase_4_prototype/server/group_negotiation.py): Iris    *)
(* asks every peer in turn which of her candidates it can make, intersects *)
(* the answers, and asks every peer in turn to confirm the earliest common *)
(* slot.  With N peers, exchanges 1 .. N are the queries (A1, A2, A3) and  *)
(* N+1 .. 2N the confirmations (B1, B2, B3); an exchange's number is also  *)
(* its task id.                                                            *)
(*                                                                         *)
(* A list of candidates is the set of its instants (minutes): the code     *)
(* keeps Iris's order everywhere and sorts before it picks.  Any call of   *)
(* Mesherra may raise; a request Iris gave up on may still be served until *)
(* the peer's listener has stopped.                                        *)
(***************************************************************************)
EXTENDS Exchange, FiniteSets

CONSTANTS
  Iris,
  Order,        \* the peers, in the order Iris asks them
  Candidates,   \* _IRIS_CANDIDATES
  Duration,     \* duration_minutes
  Schedules,    \* the _BUSY_BLOCKS considered: peer -> set of <<start, end>>
  None

Peers == {Order[i] : i \in DOMAIN Order}
Principals == Peers \cup {Iris}

ASSUME GroupAssumption ==
  /\ Order \in Seq(Principals)
  /\ Len(Order) > 0
  /\ \A i, j \in DOMAIN Order : Order[i] = Order[j] => i = j
  /\ Iris \notin Peers

ASSUME SlotsAssumption ==
  /\ Candidates \subseteq Nat
  /\ Duration \in Nat
  /\ Schedules \subseteq [Peers -> SUBSET (Nat \X Nat)]
  /\ None \notin Candidates
  /\ \A slots \in SUBSET Candidates : None # slots

N == Len(Order)
Exchanges == 1 .. 2 * N
Peer(k) == IF k <= N THEN Order[k] ELSE Order[k - N]

VARIABLES
  busy,         \* the peers' busy blocks in this run
  current,      \* the exchange under way
  stage,        \* where run_four_party is in it
  listening,    \* the peers whose listener is up
  request,      \* what Iris sent and the peer has not served, or None
  captured,     \* captured[k]: what the handler of exchange k answered
  ledger,       \* the provenance ledgers
  records,      \* the BilateralExchangeRecords made so far
  chosen,       \* chosen_slot
  result        \* the FourPartyResult, or None

vars == <<busy, current, stage, listening, request, captured, ledger,
          records, chosen, result>>

Stages == {"start", "send", "wait", "stop", "abandon", "decide", "report",
           "done", "raised", "unstopped"}

-----------------------------------------------------------------------------
(* Faulty variant: only the slot's start is tested. *)
SlotsAvailableByStart(candidates, blocks) ==
  {slot \in candidates :
     \A block \in blocks : ~ (block[1] <= slot /\ slot < block[2])}

(* _slots_available: half-open intervals. *)
SlotsAvailable(candidates, blocks) ==
  {slot \in candidates :
     \A block \in blocks : ~ (slot < block[2] /\ block[1] < slot + Duration)}

(* What Iris proposes in exchange k, and the peer's handler for its phase. *)
Proposal(k) == IF k <= N THEN Candidates ELSE {chosen}

Answer(k, proposal) ==
  IF k <= N THEN SlotsAvailable(proposal, busy[Peer(k)]) ELSE proposal

-----------------------------------------------------------------------------
Init ==
  /\ busy \in Schedules
  /\ current = 1
  /\ stage = "start"
  /\ listening = {}
  /\ request = None
  /\ captured = [k \in Exchanges |-> None]
  /\ ledger = [p \in Principals |-> <<>>]
  /\ records = <<>>
  /\ chosen = None
  /\ result = None

(* start_listener is called outside the try: if it raises (the probed port *)
(* was taken meanwhile) the run ends there.                                *)
StartListener ==
  /\ stage = "start"
  /\ listening' = listening \cup {Peer(current)}
  /\ stage' = "send"
  /\ UNCHANGED <<busy, current, request, captured, ledger, records, chosen,
                 result>>

StartListenerRaises ==
  /\ stage = "start"
  /\ stage' = "raised"
  /\ UNCHANGED <<busy, current, listening, request, captured, ledger, records,
                 chosen, result>>

Send ==
  /\ stage = "send"
  /\ request' = Proposal(current)
  /\ stage' = "wait"
  /\ UNCHANGED <<busy, current, listening, captured, ledger, records, chosen,
                 result>>

(* The peer's gateway logs the request, runs the handler and logs the      *)
(* answer; the handler leaves what it answered in `captured'.              *)
Serve ==
  /\ request # None
  /\ Peer(current) \in listening
  /\ LET answer == Answer(current, request) IN
     /\ captured' = [captured EXCEPT ![current] = answer]
     /\ ledger' = [ledger EXCEPT ![Peer(current)] =
                     LogAnswered(LogReceived(@, current, request),
                                 current, answer)]
  /\ request' = None
  /\ UNCHANGED <<busy, current, stage, listening, records, chosen, result>>

Return ==
  /\ stage = "wait"
  /\ captured[current] # None
  /\ ledger' = [ledger EXCEPT ![Iris] =
                  LogSent(@, current, Proposal(current), captured[current])]
  /\ stage' = "stop"
  /\ UNCHANGED <<busy, current, listening, request, captured, records, chosen,
                 result>>

(* Faulty variant: no finally around the send. *)
GiveUpAtOnce ==
  /\ stage = "wait"
  /\ stage' = "raised"
  /\ UNCHANGED <<busy, current, listening, request, captured, ledger, records,
                 chosen, result>>

GiveUp ==
  /\ stage = "wait"
  /\ stage' = "abandon"
  /\ UNCHANGED <<busy, current, listening, request, captured, ledger, records,
                 chosen, result>>

(* finally: the listener is stopped; then the record is read from captured *)
(* and from both ledgers.                                                  *)
Record ==
  [task |-> current, response |-> captured[current],
   iris |-> ByTask(ledger[Iris], current),
   peer |-> ByTask(ledger[Peer(current)], current)]

(* Faulty variant: the counter runs on past the last exchange. *)
StopCountsOn ==
  /\ stage = "stop"
  /\ listening' = listening \ {Peer(current)}
  /\ records' = Append(records, Record)
  /\ stage' = CASE current = N     -> "decide"
                [] current = 2 * N -> "report"
                [] OTHER           -> "start"
  /\ current' = current + 1
  /\ UNCHANGED <<busy, request, captured, ledger, chosen, result>>

Stop ==
  /\ stage = "stop"
  /\ listening' = listening \ {Peer(current)}
  /\ records' = Append(records, Record)
  /\ stage' = CASE current = N     -> "decide"
                [] current = 2 * N -> "report"
                [] OTHER           -> "start"
  /\ current' = IF current \in {N, 2 * N} THEN current ELSE current + 1
  /\ UNCHANGED <<busy, request, captured, ledger, chosen, result>>

(* The exception leaves run_four_party: no store is closed, nobody who     *)
(* confirmed is told.                                                      *)
Abandon ==
  /\ stage = "abandon"
  /\ listening' = listening \ {Peer(current)}
  /\ request' = None
  /\ stage' = "raised"
  /\ UNCHANGED <<busy, current, captured, ledger, records, chosen, result>>

(* Stopping the listener raises: the run ends with it still up, and what   *)
(* was sent and not yet served may still be.                               *)
StopRaises ==
  /\ stage \in {"stop", "abandon"}
  /\ stage' = "unstopped"
  /\ UNCHANGED <<busy, current, listening, request, captured, ledger, records,
                 chosen, result>>

(* after_atlas: Iris's candidates that every peer answered.                *)
Intersection ==
  {slot \in Candidates : \A i \in DOMAIN Order : slot \in records[i].response}

(* Faulty variant: the last peer's answer is left out of the intersection. *)
DecideWithoutLast ==
  LET common == {slot \in Candidates :
                   \A i \in DOMAIN Order \ {N} : slot \in records[i].response}
  IN
  /\ stage = "decide"
  /\ IF common = {}
       THEN /\ stage' = "report"
            /\ UNCHANGED <<current, chosen>>
       ELSE /\ chosen' \in common
            /\ \A other \in common : chosen' <= other
            /\ current' = N + 1
            /\ stage' = "start"
  /\ UNCHANGED <<busy, listening, request, captured, ledger, records, result>>

(* Faulty variant: without a common slot everybody is asked again. *)
DecideOrAskAgain ==
  /\ stage = "decide"
  /\ IF Intersection = {}
       THEN /\ current' = 1
            /\ records' = <<>>
            /\ captured' = [k \in Exchanges |-> None]
            /\ ledger' = [p \in Principals |-> <<>>]
            /\ UNCHANGED chosen
       ELSE /\ chosen' \in Intersection
            /\ \A other \in Intersection : chosen' <= other
            /\ current' = N + 1
            /\ UNCHANGED <<records, captured, ledger>>
  /\ stage' = "start"
  /\ UNCHANGED <<busy, listening, request, result>>

Decide ==
  /\ stage = "decide"
  /\ IF Intersection = {}
       THEN /\ stage' = "report"
            /\ UNCHANGED <<current, chosen>>
       ELSE /\ chosen' \in Intersection
            /\ \A other \in Intersection : chosen' <= other
            /\ current' = N + 1
            /\ stage' = "start"
  /\ UNCHANGED <<busy, listening, request, captured, ledger, records, result>>

(* Faulty variant: the summaries stop at the query exchanges. *)
QueriesOnly(i) == {i}

(* The exchanges with the i-th peer that a summary covers. *)
Covered(i) == IF chosen = None THEN {i} ELSE {i, N + i}

Report ==
  /\ stage = "report"
  /\ result' =
       [success   |-> chosen # None,
        slot      |-> chosen,
        exchanges |-> records,
        iris      |-> ByTasks(ledger[Iris],
                              {records[k].task : k \in DOMAIN records}),
        summaries |-> [i \in DOMAIN Order |->
                         ByTasks(ledger[Order[i]], Covered(i))]]
  /\ stage' = "done"
  /\ UNCHANGED <<busy, current, listening, request, captured, ledger, records,
                 chosen>>

Next ==
  \/ StartListener
  \/ StartListenerRaises
  \/ Send
  \/ Serve
  \/ Return
  \/ GiveUp
  \/ Stop
  \/ Abandon
  \/ StopRaises
  \/ Decide
  \/ Report

(* run_four_party is one coroutine; each of its awaits returns or raises.  *)
Spec == Init /\ [][Next]_vars /\ WF_vars(Next)

-----------------------------------------------------------------------------
(* Only values of the right shape: the ledgers hold residues of this run's *)
(* exchanges, and the result carries one record per exchange made.         *)
TypeOK ==
  /\ busy \in Schedules
  /\ current \in Exchanges
  /\ stage \in Stages
  /\ listening \subseteq Peers
  /\ request \in {None} \cup SUBSET Candidates
  /\ captured \in [Exchanges -> {None} \cup SUBSET Candidates]
  /\ \A p \in Principals :
       ledger[p] \in Seq(ResiduesOf(Exchanges, SUBSET Candidates))
  /\ Len(records) <= 2 * N
  /\ chosen \in Candidates \cup {None}
  /\ result # None => Len(result.exchanges) \in {N, 2 * N}

(* The slots that suit everybody, from the calendars and not from the      *)
(* answers.                                                                *)
Common ==
  {slot \in Candidates :
     \A p \in Peers, block \in UNION {busy[q] : q \in Peers} :
       block \in busy[p] =>
         (slot + Duration <= block[1] \/ block[2] <= slot)}

(* Whatever failed before or fails later, a peer's ledger holds a          *)
(* confirmation only for the earliest slot that is free in every peer's    *)
(* calendar (run_four_party, the two phases and the intersection between). *)
ConfirmedSlotIsCommon ==
  \A p \in Peers :
    \A i \in DOMAIN ledger[p] :
      ledger[p][i].task > N =>
        \E slot \in Common :
          /\ ledger[p][i].payload = {slot}
          /\ \A other \in Common : slot <= other

(* A result is backed by the ledgers.  Success: every exchange's tesserae  *)
(* fit, Iris's ledger is their union in order, and every peer's summary    *)
(* ends with its confirmation of the reported slot.  No common slot: there *)
(* is none, and nobody was asked to confirm.                               *)
ReportIsBacked ==
  result # None =>
    /\ \A k \in DOMAIN result.exchanges :
         LET record == result.exchanges[k] IN
         /\ record.task = k
         /\ Fits(record.iris, record.peer)
         /\ record.response = record.peer[2].payload
         /\ \A j \in 1 .. 2 : result.iris[2 * (k - 1) + j] = record.iris[j]
    /\ Len(result.iris) = 2 * Len(result.exchanges)
    /\ IF result.success
         THEN \A i \in DOMAIN Order :
                /\ Len(result.summaries[i]) = 4
                /\ result.summaries[i][4] =
                     Residue("emit", "acceptance", N + i, {result.slot})
         ELSE /\ Common = {}
              /\ \A i \in DOMAIN Order : ledger[Order[i]] = result.summaries[i]

(* "Each bilateral's listener is stopped before the next one starts"       *)
(* (SCENARIO_2_DESIGN.md): one listener at a time, and none when the run   *)
(* has ended, unless stopping it is what ended the run.                    *)
ListenersAreSequential ==
  /\ Cardinality(listening) <= 1
  /\ stage \in {"done", "raised", "decide"} => listening = {}

(* The run answers or raises: no failure leaves it waiting.                *)
RunEnds == <>(stage \in {"done", "raised", "unstopped"})

(* The run implements the abstract group commitment.                       *)
Outcome ==
  CASE stage = "raised"                         -> "failed"
    [] stage = "unstopped" /\ request = None    -> "failed"
    [] stage = "unstopped" /\ request # None    -> "failing"
    [] stage = "done" /\ chosen # None          -> "success"
    [] stage = "done" /\ chosen = None          -> "no_common_slot"
    [] OTHER                                    -> "open"

Confirmed == {i \in DOMAIN Order : captured[N + i] # None}

Abstract == INSTANCE GroupCommit
            WITH common <- Common, slot <- chosen, confirmed <- Confirmed,
                 outcome <- Outcome

(* Every step of the run is a step of the group commitment or none.        *)
ImplementsGroupCommit == Abstract!GSpec

=============================================================================
