------------------------------ MODULE PhaseOne ------------------------------
(***************************************************************************)
(* The two-agent demo (phase_1): run_demo brings up a directory, two       *)
(* policy stores and agent B's listener, lets agent A propose its first    *)
(* free slots, tears everything down, and checks what the two ledgers on   *)
(* disk say of the negotiation.                                            *)
(*                                                                         *)
(* A payload's hash stands for the payload.  A residue is signed: its      *)
(* `signed' is what was signed, and the signature verifies when that is    *)
(* still what the row says.  A list of slots is the set of its instants;   *)
(* the code keeps them in order.  Any call may raise where the code awaits,*)
(* opens, stops or closes something; what could not be stopped or closed   *)
(* counts as open.                                                         *)
(***************************************************************************)
EXTENDS Slots, Sequences

CONSTANTS
  Reference,        \* reference_time
  Choices,          \* rng.sample's choices: the hour of each day's busy block
  OtherCalendars,   \* calendars the generator does not make
  Duration,         \* duration_minutes
  Limits,           \* the num_candidates considered for agent A
  MaxEdits,         \* bound: how many edits of the files follow the run
  None

Sides == {"a", "b"}
CounterLimit == 3   \* _DEFAULT_NUM_COUNTER_CANDIDATES
BlockHours == {9, 10, 11, 13, 14, 15, 16}

ASSUME PhaseOneAssumption ==
  /\ Reference \in Nat
  /\ Choices \subseteq [0 .. 6 -> BlockHours]
  /\ OtherCalendars \subseteq SUBSET (Nat \X Nat)
  /\ Duration \in Nat
  /\ Duration < Long
  /\ Limits \subseteq Nat \ {0}
  /\ MaxEdits \in Nat

VARIABLES
  calendar,     \* the busy intervals in the two fixtures
  limit,        \* num_candidates
  stage,        \* where run_demo is
  error,        \* has the run's try block been left by an exception?
  up,           \* the listeners, stores and clients that are open
  registered,   \* the principals whose key the directory publishes
  broken,       \* those of `up' whose stopping or closing has raised
  proposal,     \* what A built, before its airlock
  request,      \* what A sent and B has not served, or None
  answer,       \* the response of B's gateway, or None
  ledger,       \* the rows of the two ledger files
  sidecars,     \* the payload files: what each holds, by the payload it is named for
  edits,        \* edits of the files since the run
  failures      \* the numbers of the failed assertions, or None

vars == <<calendar, limit, stage, error, up, registered, broken, proposal,
          request, answer, ledger, sidecars, edits, failures>>

inputs == <<calendar, limit>>
resources == <<up, registered, broken>>
exchange == <<proposal, request, answer>>
evidence == <<ledger, sidecars, edits, failures>>

-----------------------------------------------------------------------------
(* generate_calendar: one block on each weekday of the week that begins on *)
(* the day of the reference time.                                          *)
Fixture(hourOf) ==
  LET Start(day) == Midnight(Reference) + day * Day + hourOf[day] * 60 IN
  {<<Start(day), Start(day) + 60>> : day \in {d \in 0 .. 6 : ~ IsWeekend(Start(d))}}

Calendars == {Fixture(hourOf) : hourOf \in Choices} \cup OtherCalendars

(* The fields of a payload: A's own, those the default policy lets out,    *)
(* and the two of B's answers.                                             *)
Payload(slots, fields) == [slots |-> slots, fields |-> fields]

Payloads == [slots : SUBSET Nat, fields : {"rich", "scoped", "bare"}]

(* The airlock and _strip_blocked_fields. *)
Scoped(payload) ==
  IF payload.fields = "rich" THEN [payload EXCEPT !.fields = "scoped"]
  ELSE payload

Row(task, action, operation, payload) ==
  [task |-> task, action |-> action, operation |-> operation,
   payload |-> payload, signed |-> <<action, operation, payload>>]

(* What an earlier run in the same directory left there. *)
EarlierRow == Row("earlier", "emit", "proposal", Payload({}, "scoped"))

(* No payload file is there. *)
NoFiles == [name \in {} |-> None]

Init ==
  /\ calendar \in [Sides -> Calendars]
  /\ limit \in Limits
  /\ stage = "clean"
  /\ error = FALSE
  /\ up = {}
  /\ registered = {}
  /\ broken = {}
  /\ proposal = None
  /\ request = None
  /\ answer = None
  /\ ledger \in {[s \in Sides |-> <<>>], [s \in Sides |-> <<EarlierRow>>]}
  /\ sidecars = NoFiles
  /\ edits = 0
  /\ failures = None

-----------------------------------------------------------------------------
(* Faulty variant: the sidecars go, the ledger files stay. *)
CleanSidecarsOnly ==
  /\ stage = "clean"
  /\ sidecars' = NoFiles
  /\ stage' = "directory_store"
  /\ UNCHANGED <<inputs, error, resources, exchange, ledger, edits, failures>>

(* _clean_prior_run *)
CleanPriorRun ==
  /\ stage = "clean"
  /\ ledger' = [s \in Sides |-> <<>>]
  /\ sidecars' = NoFiles
  /\ stage' = "directory_store"
  /\ UNCHANGED <<inputs, error, resources, exchange, edits, failures>>

(* Before the try: an exception leaves run_demo at once. *)
Boot(what, to) ==
  /\ stage = what
  /\ \/ up' = up \cup {what} /\ stage' = to
     \/ stage' = "raised" /\ UNCHANGED up
  /\ UNCHANGED <<inputs, error, registered, broken, exchange, evidence>>

(* A step of the try block that opens something, or raises. *)
Open(from, what, to) ==
  /\ stage = from
  /\ \/ up' = up \cup {what} /\ stage' = to /\ UNCHANGED error
     \/ error' = TRUE /\ stage' = "close_client_a" /\ UNCHANGED up
  /\ UNCHANGED <<inputs, registered, broken, exchange, evidence>>

Register(from, who, to) ==
  /\ stage = from
  /\ \/ registered' = registered \cup {who} /\ stage' = to /\ UNCHANGED error
     \/ error' = TRUE /\ stage' = "close_client_a" /\ UNCHANGED registered
  /\ UNCHANGED <<inputs, up, broken, exchange, evidence>>

(* run_agent_a: without a free slot it raises, and so may its send.        *)
Propose ==
  LET candidates == FreeCandidates(calendar["a"], Duration, Reference, limit)
      rich == Payload(candidates, "rich")
  IN
  /\ stage = "propose"
  /\ IF candidates = {}
       THEN /\ error' = TRUE
            /\ stage' = "listener_b"
            /\ UNCHANGED <<proposal, request>>
       ELSE /\ proposal' = rich
            /\ request' = Scoped(rich)
            /\ stage' = "wait"
            /\ UNCHANGED error
  /\ UNCHANGED <<inputs, resources, answer, evidence>>

(* Faulty variant: every candidate that is free is accepted. *)
AcceptAll(busy, candidates) ==
  {t \in candidates : IsFree(t, busy, Duration)}

(* pick_acceptable_slot: the first candidate that is free, as a set. *)
PickAcceptable(busy, candidates) ==
  LET free == {t \in candidates : IsFree(t, busy, Duration)} IN
  {t \in free : \A other \in free : t <= other}

(* The handler of configure_agent_b. *)
AnswerTo(candidates) ==
  LET picked == PickAcceptable(calendar["b"], candidates)
      counter == FreeCandidates(calendar["b"], Duration, Reference, CounterLimit)
      Says(operation, slots) ==
        [operation |-> operation, payload |-> Payload(slots, "bare")]
  IN  CASE picked # {}                  -> Says("acceptance", picked)
        [] picked = {} /\ counter # {}  -> Says("counter", counter)
        [] picked = {} /\ counter = {}  -> Says("rejection", candidates)

Received == Row("demo", "receive", "proposal", request)

(* B's gateway, which looks A's key up before it logs a proposal, can be   *)
(* reached; A may have given up meanwhile.                                 *)
Reachable ==
  /\ request # None
  /\ {"listener_b", "client_b", "directory"} \subseteq up

(* The gateway logs the proposal, runs the handler and logs its answer.    *)
Serve ==
  /\ Reachable
  /\ answer' = AnswerTo(request.slots)
  /\ ledger' = [ledger EXCEPT !["b"] = @ \o
                  <<Received,
                    Row("demo", "emit", answer'.operation, answer'.payload)>>]
  /\ request' = None
  /\ UNCHANGED <<inputs, stage, error, resources, proposal, sidecars, edits,
                 failures>>

(* The handler raises: nothing is answered.                                *)
FailToServe ==
  /\ Reachable
  /\ ledger' = [ledger EXCEPT !["b"] = Append(@, Received)]
  /\ request' = None
  /\ UNCHANGED <<inputs, stage, error, resources, proposal, answer, sidecars,
                 edits, failures>>

(* Faulty variant: A waits until its proposal is accepted. *)
ReturnOnAcceptance ==
  /\ stage = "wait"
  /\ answer # None
  /\ answer.operation = "acceptance"
  /\ ledger' = [ledger EXCEPT !["a"] = @ \o
       <<Row("demo", "emit", "proposal", Scoped(proposal)),
         Row("demo", "receive", answer.operation, answer.payload)>>]
  /\ stage' = "listener_b"
  /\ UNCHANGED <<inputs, error, resources, exchange, sidecars, edits, failures>>

(* A's send returns with the answer, whatever it says, or raises. *)
Return ==
  /\ stage = "wait"
  /\ \/ /\ answer # None
        /\ ledger' = [ledger EXCEPT !["a"] = @ \o
             <<Row("demo", "emit", "proposal", Scoped(proposal)),
               Row("demo", "receive", answer.operation, answer.payload)>>]
        /\ UNCHANGED error
     \/ /\ error' = TRUE
        /\ UNCHANGED ledger
  /\ stage' = "listener_b"
  /\ UNCHANGED <<inputs, resources, exchange, sidecars, edits, failures>>

(* Faulty variant: the listener is stopped when the negotiation succeeded. *)
StopListenerOnSuccess ==
  /\ stage = "listener_b"
  /\ up' = IF error THEN up ELSE up \ {"listener_b"}
  /\ request' = None
  /\ stage' = "close_client_a"
  /\ UNCHANGED <<inputs, error, registered, broken, proposal, answer, evidence>>

(* The inner finally: nothing is served any more, unless stopping raises;  *)
(* the outer finally comes next either way.                                *)
StopListener ==
  /\ stage = "listener_b"
  /\ \/ /\ up' = up \ {"listener_b"}
        /\ request' = None
        /\ UNCHANGED <<error, broken>>
     \/ /\ error' = TRUE
        /\ broken' = broken \cup {"listener_b"}
        /\ UNCHANGED <<up, request>>
  /\ stage' = "close_client_a"
  /\ UNCHANGED <<inputs, registered, proposal, answer, evidence>>

(* A step of the outer finally, which skips what was never opened; when it *)
(* raises, run_demo is left at once.                                       *)
Close(from, what, to) ==
  /\ stage = from
  /\ \/ /\ up' = up \ {what}
        /\ stage' = to
        /\ UNCHANGED <<error, broken>>
     \/ /\ what \in up
        /\ broken' = broken \cup {what}
        /\ error' = TRUE
        /\ stage' = "raised"
        /\ UNCHANGED up
  /\ UNCHANGED <<inputs, registered, exchange, evidence>>

AfterTeardown == IF error THEN "raised" ELSE "sidecars"

(* Faulty variant: without B's policy store an UnboundLocalError ends the  *)
(* teardown before A's is closed.                                          *)
TeardownWithoutPolicies ==
  \/ Close("close_client_a", "client_a", "close_client_b")
  \/ Close("close_client_b", "client_b", "stop_directory")
  \/ Close("stop_directory", "directory", "close_directory_store")
  \/ Close("close_directory_store", "directory_store",
           IF {"policy_a", "policy_b"} \subseteq up THEN "close_policy_a"
           ELSE AfterTeardown)
  \/ Close("close_policy_a", "policy_a", "close_policy_b")
  \/ Close("close_policy_b", "policy_b", AfterTeardown)

(* The outer finally: clients, directory, stores.                          *)
Teardown ==
  \/ Close("close_client_a", "client_a", "close_client_b")
  \/ Close("close_client_b", "client_b", "stop_directory")
  \/ Close("stop_directory", "directory", "close_directory_store")
  \/ Close("close_directory_store", "directory_store", "close_policy_a")
  \/ Close("close_policy_a", "policy_a", "close_policy_b")
  \/ Close("close_policy_b", "policy_b", AfterTeardown)

(* _write_payload, twice. *)
WritePayloads ==
  /\ stage = "sidecars"
  /\ sidecars' = [name \in {Scoped(proposal), answer.payload} |-> name]
  /\ stage' = "check"
  /\ UNCHANGED <<inputs, error, resources, exchange, ledger, edits, failures>>

(* A post-demo edit to a ledger row: one field is rewritten, the signature *)
(* stays.                                                                  *)
EditRow ==
  /\ stage = "check"
  /\ edits < MaxEdits
  /\ \E s \in Sides :
       \E i \in DOMAIN ledger[s] :
         \/ \E operation \in {"proposal", "acceptance"} :
              ledger' = [ledger EXCEPT ![s][i].operation = operation]
         \/ \E action \in {"emit", "receive"} :
              ledger' = [ledger EXCEPT ![s][i].action = action]
         \/ \E payload \in DOMAIN sidecars :
              ledger' = [ledger EXCEPT ![s][i].payload = payload]
  /\ edits' = edits + 1
  /\ UNCHANGED <<inputs, stage, error, resources, exchange, sidecars, failures>>

(* A payload file is overwritten with another's contents, or removed.      *)
EditSidecar ==
  /\ stage = "check"
  /\ edits < MaxEdits
  /\ \E name \in DOMAIN sidecars :
       \/ \E other \in DOMAIN sidecars :
            sidecars' = [sidecars EXCEPT ![name] = other]
       \/ sidecars' = [kept \in DOMAIN sidecars \ {name} |-> sidecars[kept]]
  /\ edits' = edits + 1
  /\ UNCHANGED <<inputs, stage, error, resources, exchange, ledger, failures>>

-----------------------------------------------------------------------------
(* get_by_task *)
Entries(s) == {i \in DOMAIN ledger[s] : ledger[s][i].task = "demo"}

(* The first entry of a side with this action; NoEntry passes no check.    *)
NoEntry == Row("none", "none", "none", None)

Entry(s, action) ==
  LET those == {i \in Entries(s) : ledger[s][i].action = action} IN
  IF those = {} THEN NoEntry
  ELSE ledger[s][CHOOSE i \in those : \A j \in those : i <= j]

TwoEntries(s) == Entries(s) = {1, 2}

(* Faulty variant: the links between the rows are checked, not the rows. *)
LinksVerify(s) == Entries(s) # {}

(* _check_all_signatures_verify *)
SignaturesVerify(s) ==
  \A i \in Entries(s) :
    LET row == ledger[s][i] IN
    row.signed = <<row.action, row.operation, row.payload>>

(* _check_accepted_slot_was_proposed: both payloads have their files, and  *)
(* B's is the one-slot payload of a slot that A's file holds.  A file is   *)
(* found by its name; nobody hashes what it holds.                         *)
SlotWasProposed(proposed, accepted) ==
  /\ {proposed.payload, accepted.payload} \subseteq DOMAIN sidecars
  /\ \E t \in sidecars[proposed.payload].slots :
       accepted.payload = Payload({t}, "bare")

(* _evaluate_assertions.  2, 4, 8 and 9 compare fields that Mesherra       *)
(* writes and the model leaves out.                                        *)
Passed(number) ==
  LET aEmit == Entry("a", "emit")
      aReceive == Entry("a", "receive")
      bEmit == Entry("b", "emit")
      bReceive == Entry("b", "receive")
  IN  CASE number = 1  -> TwoEntries("a") /\ TwoEntries("b")
        [] number = 3  -> SignaturesVerify("a") /\ SignaturesVerify("b")
        [] number = 5  -> aEmit.operation = "proposal"
        [] number = 6  -> bReceive.operation = "proposal"
        [] number = 7  -> aEmit # NoEntry /\ aEmit.payload = bReceive.payload
        [] number = 10 -> bEmit.operation = "acceptance"
        [] number = 11 -> aReceive.operation = "acceptance"
        [] number = 12 -> bEmit # NoEntry /\ bEmit.payload = aReceive.payload
        [] number = 13 -> /\ NoEntry \notin {aEmit, bEmit}
                          /\ SlotWasProposed(aEmit, bEmit)
        [] number = 15 -> /\ aEmit.payload = Scoped(proposal)
                          /\ \A s \in Sides : \A i \in Entries(s) :
                               ledger[s][i].payload # proposal
        [] number = 16 -> bReceive.payload = Scoped(proposal)

Numbers == {1, 3, 5, 6, 7, 10, 11, 12, 13, 15, 16}

(* 14 fails when one before it does. *)
EvaluateAssertions ==
  /\ stage = "check"
  /\ LET failed == {number \in Numbers : ~ Passed(number)} IN
     failures' = failed \cup (IF failed \cap 1 .. 13 = {} THEN {} ELSE {14})
  /\ stage' = "done"
  /\ UNCHANGED <<inputs, error, resources, exchange, ledger, sidecars, edits>>

Setup ==
  \/ Boot("directory_store", "directory")
  \/ Boot("directory", "policy_a")
  \/ Open("policy_a", "policy_a", "policy_b")
  \/ Open("policy_b", "policy_b", "register_a")
  \/ Register("register_a", "a", "register_b")
  \/ Register("register_b", "b", "client_a")
  \/ Open("client_a", "client_a", "client_b")
  \/ Open("client_b", "client_b", "ledger_a")
  \/ Open("ledger_a", "ledger_a", "ledger_b")
  \/ Open("ledger_b", "ledger_b", "listen")
  \/ Open("listen", "listener_b", "propose")

RunNext ==
  \/ CleanPriorRun
  \/ Setup
  \/ Propose
  \/ Return
  \/ StopListener
  \/ Teardown
  \/ WritePayloads
  \/ EvaluateAssertions

Next == RunNext \/ Serve \/ FailToServe \/ EditRow \/ EditSidecar

(* run_demo is one coroutine; each of its awaits returns or raises.        *)
Spec == Init /\ [][Next]_vars /\ WF_vars(RunNext)

-----------------------------------------------------------------------------
Ended == stage \in {"done", "raised"}

Stages ==
  {"clean", "directory_store", "directory", "policy_a", "policy_b",
   "register_a", "register_b", "client_a", "client_b", "ledger_a", "ledger_b",
   "listen", "propose", "wait", "listener_b", "close_client_a",
   "close_client_b", "stop_directory", "close_directory_store",
   "close_policy_a", "close_policy_b", "sidecars", "check", "done", "raised"}

(* Shapes of the values; a ledger never holds more than this run's two     *)
(* residues once the directory is up.                                      *)
TypeOK ==
  /\ calendar \in [Sides -> Calendars]
  /\ stage \in Stages
  /\ error \in BOOLEAN
  /\ registered \subseteq Sides
  /\ broken \subseteq up
  /\ proposal = None \/ proposal \in Payloads
  /\ request = None \/ request \in Payloads
  /\ up # {} => \A s \in Sides : Len(ledger[s]) <= 2
  /\ edits \in 0 .. MaxEdits
  /\ failures = None \/ failures \subseteq 1 .. 16

(* The assertions all pass only when B accepted and every row of the two   *)
(* ledgers is as it was written, whatever was done to the rows and the     *)
(* payload files, and whatever an earlier run left behind; and they do all *)
(* pass when B accepted and nothing was edited                             *)
(* (_check_all_signatures_verify: "the check that catches a post-demo edit *)
(* to a ledger row").  An edited payload file alone may pass unnoticed.    *)
ChecksTellTheTruth ==
  LET rowsAsWritten ==
        \A s \in Sides : \A i \in DOMAIN ledger[s] :
          LET row == ledger[s][i] IN
          row = Row("demo", row.signed[1], row.signed[2], row.signed[3])
      filesAsWritten ==
        sidecars = [name \in {Scoped(proposal), answer.payload} |-> name]
  IN  stage = "done" =>
        /\ failures = {} => answer.operation = "acceptance" /\ rowsAsWritten
        /\ answer.operation = "acceptance" /\ rowsAsWritten /\ filesAsWritten
             => failures = {}

(* What B's ledger says of B's answer is right by both calendars: the slot *)
(* accepted is the first of A's that suits B, and lies in both agents'     *)
(* working week ("so the agents can't disagree on what free means"); a     *)
(* counter offers only slots B has free when none of A's suits; a          *)
(* rejection is only made when B has no slot left in the week.             *)
AnswerSuitsBoth ==
  answer # None =>
    LET Suits(s, t) == IsProper(t, calendar[s], Duration)
        week == Grid(Reference)
        offered == proposal.slots
        given == answer.payload.slots
    IN  CASE answer.operation = "acceptance" ->
               \E t \in week :
                 /\ given = {t}
                 /\ t \in offered
                 /\ \A s \in Sides : Suits(s, t)
                 /\ \A earlier \in offered :
                      earlier < t => ~ Suits("b", earlier)
          [] answer.operation = "counter" ->
               /\ given # {}
               /\ \A t \in given : Suits("b", t) /\ t \in week
               /\ \A t \in offered : ~ Suits("b", t)
          [] answer.operation = "rejection" ->
               \A t \in week : ~ Suits("b", t)

(* As long as B's listener is meant to be up, it has what serving needs:   *)
(* the directory with both keys, its store, B's client, policy and ledger  *)
(* ("the listener should stop before the store it talks to closes").       *)
ListenerHasItsResources ==
  /\ "listener_b" \in up \ broken =>
       /\ registered = Sides
       /\ {"directory", "client_b", "policy_b", "ledger_b"} \subseteq up
  /\ "directory" \in up => "directory_store" \in up

(* The order of the outer finally. *)
ClosingOrder ==
  <<"client_a", "client_b", "directory", "directory_store", "policy_a",
    "policy_b">>

(* When run_demo has ended, wherever it raised, the ledger handles are     *)
(* open; beyond them only what would not stop or close itself and, behind  *)
(* the first closing of the outer finally that raised, what that finally   *)
(* had not come to - a listener that would not stop keeps nothing else     *)
(* open.  And the directory's store, if its listener never came up.        *)
NothingIsLeftUp ==
  Ended =>
    \/ up = {"directory_store"} /\ registered = {}
    \/ \A what \in up \ {"ledger_a", "ledger_b"} :
         \/ what \in broken
         \/ \E i, j \in DOMAIN ClosingOrder :
              i < j /\ ClosingOrder[i] \in broken /\ ClosingOrder[j] = what

(* The demo ends, with a verdict or an exception.                          *)
DemoEnds == <>Ended

=============================================================================
