---------------------------- MODULE PhaseOneProofs ---------------------------
(***************************************************************************)
(* The two-agent demo, for any calendars, reference time, duration shorter *)
(* than a night, and limits: what is open at each stage, what the one      *)
(* exchange leaves in the ledgers, and what the checks say of rows and     *)
(* payload files edited afterwards.                                        *)
(***************************************************************************)
EXTENDS PhaseOne, SequenceTheorems, FiniteSetTheorems, WellFoundedInduction, TLAPS

-----------------------------------------------------------------------------
(* What is open and registered at each stage *)

Base == {"directory_store", "directory"}
Policies == {"policy_a", "policy_b"}
Clients == {"client_a", "client_b"}
Ledgers == {"ledger_a", "ledger_b"}
Negotiating == {"propose", "wait", "listener_b"}

Stores == {"directory_store"} \cup Policies \cup Ledgers
Closing ==
  {"close_client_a", "close_client_b", "stop_directory", "close_directory_store",
   "close_policy_a", "close_policy_b"}

(* What is left when the outer finally has raised, or run_demo before it.  *)
LeftOver(left, stuck) ==
  \A what \in left \ {"ledger_a", "ledger_b"} :
    \/ what \in stuck
    \/ \E i, j \in DOMAIN ClosingOrder :
         i < j /\ ClosingOrder[i] \in stuck /\ ClosingOrder[j] = what

LeftUp == (up = {"directory_store"} /\ registered = {}) \/ LeftOver(up, broken)

ResourcesOK ==
  /\ stage \in {"clean", "directory_store"} => up = {}
  /\ stage = "directory" => up = {"directory_store"}
  /\ stage = "policy_a" => up = Base
  /\ stage = "policy_b" => up = Base \cup {"policy_a"}
  /\ stage \in {"register_a", "register_b", "client_a"} => up = Base \cup Policies
  /\ stage = "client_b" => up = Base \cup Policies \cup {"client_a"}
  /\ stage = "ledger_a" => up = Base \cup Policies \cup Clients
  /\ stage = "ledger_b" => up = Base \cup Policies \cup Clients \cup {"ledger_a"}
  /\ stage = "listen" => up = Base \cup Policies \cup Clients \cup Ledgers
  /\ stage \in Negotiating =>
       up = Base \cup Policies \cup Clients \cup Ledgers \cup {"listener_b"}
  /\ stage = "close_client_a" =>
       Base \subseteq up /\ up \subseteq Stores \cup {"directory"} \cup Clients \cup broken
  /\ stage = "close_client_b" =>
       Base \subseteq up /\ up \subseteq Stores \cup {"directory", "client_b"} \cup broken
  /\ stage = "stop_directory" =>
       Base \subseteq up /\ up \subseteq Stores \cup {"directory"} \cup broken
  /\ stage = "close_directory_store" => up \subseteq Stores \cup broken
  /\ stage = "close_policy_a" => up \subseteq Policies \cup Ledgers \cup broken
  /\ stage = "close_policy_b" => up \subseteq {"policy_b"} \cup Ledgers \cup broken
  /\ stage \in {"sidecars", "check", "done"} => up \subseteq Ledgers
  /\ stage = "raised" => LeftUp /\ ("directory" \in up => "directory_store" \in up)

(* Nothing has failed to close until the listener was to be stopped, and   *)
(* nothing else before run_demo is left.                                   *)
BrokenOK ==
  /\ broken \subseteq up
  /\ ~ error => broken = {}
  /\ stage \notin Closing \cup {"raised"} => broken = {}
  /\ stage \in Closing => broken \subseteq {"listener_b"}

RegistrationOK ==
  /\ stage \in {"clean", "directory_store", "directory", "policy_a", "policy_b",
                "register_a"} => registered = {}
  /\ stage = "register_b" => registered = {"a"}
  /\ stage \in {"client_a", "client_b", "ledger_a", "ledger_b", "listen"} \cup Negotiating =>
       registered = Sides
  /\ registered \subseteq Sides

-----------------------------------------------------------------------------
(* What is exchanged *)

Offer == FreeCandidates(calendar["a"], Duration, Reference, limit)
Built == Payload(Offer, "rich")
Sent == Payload(Offer, "scoped")
Reply == AnswerTo(Offer)

(* The rows of a negotiation that was answered. *)
RowsOf(s) ==
  IF s = "a" THEN <<Row("demo", "emit", "proposal", Sent),
                    Row("demo", "receive", Reply.operation, Reply.payload)>>
  ELSE <<Row("demo", "receive", "proposal", Sent),
         Row("demo", "emit", Reply.operation, Reply.payload)>>

(* What B has logged when its handler raises.                              *)
Heard == <<Row("demo", "receive", "proposal", Sent)>>

Beforehand ==
  {"directory_store", "directory", "policy_a", "policy_b", "register_a",
   "register_b", "client_a", "client_b", "ledger_a", "ledger_b", "listen",
   "propose"}

Afterwards == {"listener_b"} \cup Closing

InputsOK == calendar \in [Sides -> Calendars] /\ limit \in Limits

ExchangeOK ==
  /\ proposal \in {None, Built} /\ request \in {None, Sent} /\ answer \in {None, Reply}
  /\ stage \in {"clean"} \cup Beforehand =>
       ~ error /\ proposal = None /\ request = None /\ answer = None
  /\ request # None => /\ stage \in {"wait", "raised"} \cup Afterwards
                       /\ proposal = Built /\ answer = None /\ ledger["b"] = <<>>
  /\ answer # None => /\ proposal = Built
                      /\ stage \notin {"check", "done"} => ledger["b"] = RowsOf("b")
  /\ stage = "wait" => /\ ~ error /\ proposal = Built /\ ledger["a"] = <<>>
  /\ stage \in Afterwards /\ ~ error => answer # None /\ ledger["a"] = RowsOf("a")
  /\ stage = "sidecars" => ~ error /\ answer # None /\ ledger["a"] = RowsOf("a")
  /\ stage \in {"check", "done"} =>
       ~ error /\ answer # None /\ DOMAIN sidecars \subseteq {Sent, Reply.payload}

(* A row with one of its fields rewritten, perhaps. *)
EditsOf(row) ==
  [task : {"demo"}, action : {"emit", "receive"},
   operation : {"proposal", "acceptance", "counter", "rejection"},
   payload : {Sent, Reply.payload}, signed : {row.signed}]

EditsIn(s) == EditsOf(RowsOf(s)[1]) \cup EditsOf(RowsOf(s)[2])

LedgersOK ==
  /\ DOMAIN ledger = Sides
  /\ stage \in Beforehand => \A s \in Sides : ledger[s] = <<>>
  /\ stage \in {"wait", "sidecars", "raised"} \cup Afterwards =>
       \A s \in Sides : ledger[s] \in {<<>>, Heard, RowsOf(s)}
  /\ stage \in {"check", "done"} =>
       \A s \in Sides : /\ ledger[s] \in [1 .. 2 -> EditsIn(s)]
                        /\ \A i \in 1 .. 2 : ledger[s][i] \in EditsOf(RowsOf(s)[i])

AsWritten == \A s \in Sides : \A i \in DOMAIN ledger[s] :
  ledger[s][i] = Row("demo", ledger[s][i].signed[1], ledger[s][i].signed[2],
                     ledger[s][i].signed[3])

FilesAsWritten == sidecars = [name \in {Scoped(proposal), answer.payload} |-> name]

VerdictOK ==
  /\ edits \in 0 .. MaxEdits
  /\ stage # "done" => failures = None
  /\ stage = "done" =>
       /\ failures \subseteq 1 .. 16
       /\ failures = {} => answer.operation = "acceptance" /\ AsWritten
       /\ answer.operation = "acceptance" /\ AsWritten /\ FilesAsWritten => failures = {}

IInv ==
  /\ stage \in Stages /\ error \in BOOLEAN
  /\ InputsOK /\ ResourcesOK /\ BrokenOK /\ RegistrationOK
  /\ ExchangeOK /\ LedgersOK /\ VerdictOK

-----------------------------------------------------------------------------
(* Arithmetic of the grid *)

LEMMA LeastOf ==
  ASSUME NEW T, T \subseteq Nat, T # {}
  PROVE  \E n \in T : \A m \in T : n <= m
<1> DEFINE R == OpToRel(<, Nat)
<1>1. IsWellFoundedOn(R, Nat)
  BY NatLessThanWellFounded
<1>2. PICK x \in T : \A y \in T : ~ (<<y, x>> \in R)
  BY <1>1, WFMin
<1>3. \A y \in T : ~ (y < x)
  BY <1>2 DEF OpToRel
<1> HIDE DEF R
<1> QED BY <1>3

USE PhaseOneAssumption

LEMMA GridIsNat == Grid(Reference) \subseteq Nat
<1>1. /\ RoundUp(Reference) \div Granularity \in Nat
      /\ (Reference + Lookahead - 1) \div Granularity \in Nat
  BY DEF RoundUp, Granularity, Lookahead, Day
<1>2. \A k \in RoundUp(Reference) \div Granularity ..
                 (Reference + Lookahead - 1) \div Granularity : Granularity * k \in Nat
  BY <1>1 DEF Granularity
<1> QED BY <1>2 DEF Grid

LEMMA BlocksAreNat ==
  ASSUME NEW c \in Calendars, NEW block \in c
  PROVE  block[1] \in Nat /\ block[2] \in Nat
<1>1. CASE c \in OtherCalendars
  BY <1>1
<1>2. CASE c \notin OtherCalendars
  <2>1. PICK hourOf \in Choices : c = Fixture(hourOf)
    BY <1>2 DEF Calendars
  <2> DEFINE Start(day) == Midnight(Reference) + day * Day + hourOf[day] * 60
  <2>2. \E day \in 0 .. 6 : block = <<Start(day), Start(day) + 60>>
    BY <2>1 DEF Fixture
  <2>3. PICK day \in 0 .. 6 : block = <<Start(day), Start(day) + 60>>
    BY <2>2
  <2>4. hourOf[day] \in Nat
    BY DEF BlockHours
  <2>5. Midnight(Reference) \in Nat
    BY DEF Midnight, Clock, Day
  <2>6. Start(day) \in Nat
    BY <2>4, <2>5 DEF Day
  <2> QED BY <2>3, <2>6
<1> QED BY <1>1, <1>2

LEMMA CandidatesAreFree ==
  ASSUME NEW busy, NEW n, NEW t \in FreeCandidates(busy, Duration, Reference, n)
  PROVE  t \in Grid(Reference) /\ t \in Nat /\ IsProper(t, busy, Duration)
BY GridIsNat DEF FreeCandidates

LEMMA NoCandidateNoSlot ==
  ASSUME NEW busy, NEW n \in Nat \ {0}, FreeCandidates(busy, Duration, Reference, n) = {},
         NEW t \in Grid(Reference)
  PROVE  ~ IsProper(t, busy, Duration)
<1> DEFINE free == {u \in Grid(Reference) : IsProper(u, busy, Duration)}
<1>1. free \subseteq Nat
  BY GridIsNat
<1>2. SUFFICES ASSUME free # {} PROVE FALSE
  OBVIOUS
<1>3. PICK least \in free : \A m \in free : least <= m
  BY <1>1, <1>2, LeastOf
<1> DEFINE earlier == {u \in free : u < least}
<1>4. earlier = {}
  BY <1>1, <1>3
<1>5. Cardinality(earlier) = 0
  BY <1>4, FS_EmptySet
<1>6. least \in FreeCandidates(busy, Duration, Reference, n)
  BY <1>5 DEF FreeCandidates
<1> QED BY <1>6

-----------------------------------------------------------------------------
(* B's answer *)

Picked == PickAcceptable(calendar["b"], Offer)
Counter == FreeCandidates(calendar["b"], Duration, Reference, CounterLimit)

LEMMA ReplyCases ==
  /\ Picked # {} => Reply = [operation |-> "acceptance", payload |-> Payload(Picked, "bare")]
  /\ Picked = {} /\ Counter # {} =>
       Reply = [operation |-> "counter", payload |-> Payload(Counter, "bare")]
  /\ Picked = {} /\ Counter = {} =>
       Reply = [operation |-> "rejection", payload |-> Payload(Offer, "bare")]
BY Zenon DEF Reply, AnswerTo, Picked, Counter

LEMMA SlotsAreNat == Offer \subseteq Nat /\ Counter \subseteq Nat /\ Picked \subseteq Offer
BY CandidatesAreFree DEF Offer, Counter, Picked, PickAcceptable

LEMMA ReplyTyped ==
  /\ Reply.operation \in {"acceptance", "counter", "rejection"}
  /\ Reply.payload \in Payloads /\ Reply.payload.fields = "bare"
  /\ Reply.operation = "acceptance" => Picked # {} /\ Reply.payload = Payload(Picked, "bare")
<1>1. \A S \in SUBSET Nat : Payload(S, "bare") \in Payloads /\ Payload(S, "bare").fields = "bare"
  BY DEF Payload, Payloads
<1>2. Offer \in SUBSET Nat /\ Counter \in SUBSET Nat /\ Picked \in SUBSET Nat
  BY SlotsAreNat
<1>3. \E operation \in {"acceptance", "counter", "rejection"}, S \in {Picked, Counter, Offer} :
        /\ Reply = [operation |-> operation, payload |-> Payload(S, "bare")]
        /\ operation = "acceptance" => Picked # {} /\ S = Picked
  <2>1. CASE Picked # {}
    BY <2>1, ReplyCases, Zenon
  <2>2. CASE Picked = {} /\ Counter # {}
    <3>1. Reply = [operation |-> "counter", payload |-> Payload(Counter, "bare")]
      BY <2>2, ReplyCases, Zenon
    <3> QED BY <3>1
  <2>3. CASE Picked = {} /\ Counter = {}
    <3>1. Reply = [operation |-> "rejection", payload |-> Payload(Offer, "bare")]
      BY <2>3, ReplyCases, Zenon
    <3> QED BY <3>1
  <2> QED BY <2>1, <2>2, <2>3
<1> QED BY <1>1, <1>2, <1>3

(* A slot of A's is free for B when it is a proper slot for B too.         *)
LEMMA FreeIsProper ==
  ASSUME InputsOK, NEW t \in Offer
  PROVE  IsFree(t, calendar["b"], Duration) <=> IsProper(t, calendar["b"], Duration)
<1>1. t \in Nat /\ IsProper(t, calendar["a"], Duration)
  BY CandidatesAreFree DEF Offer
<1>2. \A block \in calendar["b"] : block[1] \in Nat /\ block[2] \in Nat
  BY BlocksAreNat DEF InputsOK, Sides
<1>3. IsFree(t, calendar["b"], Duration) <=> IsClear(t, calendar["b"], Duration)
  BY <1>1, <1>2 DEF IsFree, OverlapsAny, IsClear
<1> QED BY <1>1, <1>3 DEF IsProper

(* What is picked is the first of the offer that suits B.                  *)
LEMMA PickedIsFirst ==
  ASSUME InputsOK
  PROVE  /\ \A t \in Picked : /\ Picked = {t} /\ t \in Offer
                              /\ IsProper(t, calendar["b"], Duration)
                              /\ \A u \in Offer :
                                   u < t => ~ IsProper(u, calendar["b"], Duration)
         /\ Picked = {} => \A t \in Offer : ~ IsProper(t, calendar["b"], Duration)
<1> DEFINE free == {t \in Offer : IsFree(t, calendar["b"], Duration)}
<1>1. Picked = {t \in free : \A other \in free : t <= other}
  BY DEF Picked, PickAcceptable
<1>2. free \subseteq Nat
  BY SlotsAreNat
<1>3. \A t \in Offer : t \in free <=> IsProper(t, calendar["b"], Duration)
  BY FreeIsProper
<1>4. free \subseteq Offer
  OBVIOUS
<1> HIDE DEF free
<1>5. Picked = {} => free = {}
  <2> SUFFICES ASSUME free # {} PROVE Picked # {}
    OBVIOUS
  <2>1. PICK least \in free : \A m \in free : least <= m
    BY <1>2, LeastOf
  <2> QED BY <1>1, <2>1
<1>6. \A t, u \in Picked : t = u
  <2> SUFFICES ASSUME NEW t \in Picked, NEW u \in Picked PROVE t = u
    OBVIOUS
  <2>1. t \in Nat /\ u \in Nat /\ t <= u /\ u <= t
    BY <1>1, <1>2
  <2> QED BY <2>1
<1>7. ASSUME NEW t \in Picked, NEW u \in Offer, u < t
      PROVE  ~ IsProper(u, calendar["b"], Duration)
  <2> SUFFICES ASSUME IsProper(u, calendar["b"], Duration) PROVE FALSE
    OBVIOUS
  <2>1. u \in free
    BY <1>3
  <2>2. t <= u /\ t \in Nat /\ u \in Nat
    BY <1>1, <1>2, <2>1
  <2> QED BY <1>7, <2>2
<1> QED BY <1>1, <1>3, <1>4, <1>5, <1>6, <1>7

LEMMA ReplySuits ==
  ASSUME InputsOK
  PROVE  LET Suits(s, t) == IsProper(t, calendar[s], Duration)
             given == Reply.payload.slots
         IN  CASE Reply.operation = "acceptance" ->
                    \E t \in Grid(Reference) :
                      /\ given = {t}
                      /\ t \in Offer
                      /\ \A s \in Sides : Suits(s, t)
                      /\ \A earlier \in Offer : earlier < t => ~ Suits("b", earlier)
               [] Reply.operation = "counter" ->
                    /\ given # {}
                    /\ \A t \in given : Suits("b", t) /\ t \in Grid(Reference)
                    /\ \A t \in Offer : ~ Suits("b", t)
               [] Reply.operation = "rejection" ->
                    \A t \in Grid(Reference) : ~ Suits("b", t)
<1> DEFINE Suits(s, t) == IsProper(t, calendar[s], Duration)
<1>1. CASE Picked # {}
  <2>1. PICK t : t \in Picked
    BY <1>1
  <2>2. Reply.operation = "acceptance" /\ Reply.payload.slots = Picked
    BY <1>1, ReplyCases DEF Payload
  <2>3. /\ Picked = {t} /\ t \in Offer /\ Suits("b", t)
        /\ \A u \in Offer : u < t => ~ Suits("b", u)
    BY <2>1, PickedIsFirst
  <2>4. t \in Grid(Reference) /\ Suits("a", t)
    BY <2>3, CandidatesAreFree DEF Offer
  <2>5. \A s \in Sides : Suits(s, t)
    BY <2>3, <2>4 DEF Sides
  <2> HIDE DEF Suits
  <2> QED BY <2>2, <2>3, <2>4, <2>5 DEF Suits
<1>2. CASE Picked = {} /\ Counter # {}
  <2>1. Reply.operation = "counter" /\ Reply.payload.slots = Counter
    BY <1>2, ReplyCases DEF Payload
  <2>2. \A t \in Counter : Suits("b", t) /\ t \in Grid(Reference)
    BY CandidatesAreFree DEF Counter
  <2>3. \A t \in Offer : ~ Suits("b", t)
    BY <1>2, PickedIsFirst
  <2> QED BY <1>2, <2>1, <2>2, <2>3
<1>3. CASE Picked = {} /\ Counter = {}
  <2>1. Reply.operation = "rejection"
    BY <1>3, ReplyCases
  <2>2. \A t \in Grid(Reference) : ~ Suits("b", t)
    BY <1>3, NoCandidateNoSlot DEF Counter, CounterLimit
  <2> QED BY <2>1, <2>2
<1> QED BY <1>1, <1>2, <1>3

-----------------------------------------------------------------------------
(* The stages *)

(* Nothing a step of run_demo or of B does changes the inputs, or what     *)
(* follows from them.                                                      *)
LEMMA InputsKept ==
  ASSUME [Next]_vars
  PROVE  /\ UNCHANGED inputs
         /\ Offer' = Offer /\ Built' = Built /\ Sent' = Sent /\ Reply' = Reply
         /\ \A s : RowsOf(s)' = RowsOf(s)
         /\ Heard' = Heard
<1>1. UNCHANGED inputs
  BY DEF Next, RunNext, CleanPriorRun, Setup, Boot, Open, Register, Propose, Serve,
         FailToServe, Return, StopListener, Teardown, Close, WritePayloads, EditRow,
         EditSidecar, EvaluateAssertions, vars, inputs
<1>2. Offer' = Offer
  BY <1>1 DEF Offer, inputs
<1>3. Reply' = Reply
  BY <1>1, <1>2 DEF Reply, AnswerTo, inputs
<1> QED BY <1>1, <1>2, <1>3 DEF Built, Sent, RowsOf, Heard

StageOK ==
  /\ stage \in Stages /\ error \in BOOLEAN
  /\ ResourcesOK /\ BrokenOK /\ RegistrationOK

LEMMA BootPreserves ==
  ASSUME StageOK,
         Boot("directory_store", "directory") \/ Boot("directory", "policy_a")
  PROVE  StageOK'
BY DEF StageOK, Boot, ResourcesOK, BrokenOK, RegistrationOK, Stages, Negotiating, Base,
       Ledgers, LeftUp, LeftOver, Closing

LEMMA OpenPreserves ==
  ASSUME StageOK,
         \/ Open("policy_a", "policy_a", "policy_b")
         \/ Open("policy_b", "policy_b", "register_a")
         \/ Open("client_a", "client_a", "client_b")
         \/ Open("client_b", "client_b", "ledger_a")
         \/ Open("ledger_a", "ledger_a", "ledger_b")
         \/ Open("ledger_b", "ledger_b", "listen")
         \/ Open("listen", "listener_b", "propose")
  PROVE  StageOK'
<1> USE DEF StageOK, Open, ResourcesOK, BrokenOK, RegistrationOK, Stages, Negotiating,
            Base, Policies, Clients, Ledgers, Stores, Closing
<1>1. CASE Open("policy_a", "policy_a", "policy_b")
  BY <1>1
<1>2. CASE Open("policy_b", "policy_b", "register_a")
  BY <1>2
<1>3. CASE Open("client_a", "client_a", "client_b")
  BY <1>3
<1>4. CASE Open("client_b", "client_b", "ledger_a")
  <2>1. CASE stage' = "ledger_a"
    BY <1>4, <2>1
  <2>2. CASE stage' = "close_client_a"
    BY <1>4, <2>2
  <2> QED BY <1>4, <2>1, <2>2
<1>5. CASE Open("ledger_a", "ledger_a", "ledger_b")
  BY <1>5
<1>6. CASE Open("ledger_b", "ledger_b", "listen")
  <2>1. CASE stage' = "listen"
    BY <1>6, <2>1
  <2>2. CASE stage' = "close_client_a"
    BY <1>6, <2>2
  <2> QED BY <1>6, <2>1, <2>2
<1>7. CASE Open("listen", "listener_b", "propose")
  BY <1>7
<1> QED BY <1>1, <1>2, <1>3, <1>4, <1>5, <1>6, <1>7

LEMMA RegisterPreserves ==
  ASSUME StageOK,
         Register("register_a", "a", "register_b") \/ Register("register_b", "b", "client_a")
  PROVE  StageOK'
BY DEF StageOK, Register, ResourcesOK, BrokenOK, RegistrationOK, Stages, Negotiating,
       Base, Policies, Clients, Ledgers, Stores, Sides, Closing

LEMMA StopListenerPreserves ==
  ASSUME StageOK, StopListener
  PROVE  StageOK'
BY DEF StageOK, StopListener, ResourcesOK, BrokenOK, RegistrationOK, Stages, Negotiating,
       Base, Policies, Clients, Ledgers, Stores, Closing

LEMMA OrderIsThis ==
  /\ DOMAIN ClosingOrder = 1 .. 6
  /\ ClosingOrder[1] = "client_a" /\ ClosingOrder[2] = "client_b"
  /\ ClosingOrder[3] = "directory" /\ ClosingOrder[4] = "directory_store"
  /\ ClosingOrder[5] = "policy_a" /\ ClosingOrder[6] = "policy_b"
BY DEF ClosingOrder

(* Behind a closing that raised, only later ones are left out.             *)
LEMMA LeftBehind ==
  ASSUME NEW left, NEW stuck, NEW k \in 1 .. 6, ClosingOrder[k] \in stuck,
         \A what \in left \ {"ledger_a", "ledger_b"} :
           what \in stuck \/ \E j \in k + 1 .. 6 : ClosingOrder[j] = what
  PROVE  LeftOver(left, stuck)
<1> SUFFICES ASSUME NEW what \in left \ {"ledger_a", "ledger_b"}, what \notin stuck
             PROVE  \E i, j \in DOMAIN ClosingOrder :
                      i < j /\ ClosingOrder[i] \in stuck /\ ClosingOrder[j] = what
  BY DEF LeftOver
<1>1. PICK j \in k + 1 .. 6 : ClosingOrder[j] = what
  OBVIOUS
<1>2. k \in DOMAIN ClosingOrder /\ j \in DOMAIN ClosingOrder /\ k < j
  BY <1>1, OrderIsThis
<1> QED BY <1>1, <1>2

(* A closing that raises, the k-th of the order.                           *)
LEMMA RaisePreserves ==
  ASSUME StageOK, stage \in Closing,
         NEW k \in 1 .. 6, ClosingOrder[k] \in up,
         broken' = broken \cup {ClosingOrder[k]}, error' = TRUE, stage' = "raised",
         UNCHANGED <<up, registered>>,
         \A what \in up \ Ledgers :
           \/ what \in broken \cup {ClosingOrder[k]}
           \/ \E j \in k + 1 .. 6 : ClosingOrder[j] = what,
         "directory" \in up => "directory_store" \in up
  PROVE  StageOK'
<1>1. LeftOver(up, broken \cup {ClosingOrder[k]})
  BY LeftBehind DEF Ledgers
<1>2. LeftUp'
  BY <1>1 DEF LeftUp, LeftOver, ClosingOrder
<1> QED BY <1>2 DEF StageOK, ResourcesOK, BrokenOK, RegistrationOK, Stages, Negotiating,
                    Closing

LEMMA ClosePreserves ==
  ASSUME StageOK, Teardown
  PROVE  StageOK'
<1> USE DEF Base, Policies, Clients, Ledgers, Stores
<1> DEFINE Closes(from, what, to) ==
      /\ stage = from /\ up' = up \ {what} /\ stage' = to
      /\ UNCHANGED <<error, broken, registered>>
    Raises(from, what) ==
      /\ stage = from /\ what \in up /\ broken' = broken \cup {what} /\ error' = TRUE
      /\ stage' = "raised" /\ UNCHANGED <<up, registered>>
<1>1. stage \in Closing => /\ \A what \in broken : what = "listener_b"
                           /\ \A what \in up : what = "listener_b" => what \in broken
                           /\ broken \subseteq up
  BY DEF StageOK, BrokenOK, ResourcesOK, Closing
<1>2. CASE Close("close_client_a", "client_a", "close_client_b")
  <2>1. CASE Closes("close_client_a", "client_a", "close_client_b")
    BY <2>1 DEF StageOK, ResourcesOK, BrokenOK, RegistrationOK, Stages, Negotiating, Closing
  <2>2. CASE Raises("close_client_a", "client_a")
    <3>1. /\ stage \in Closing /\ "directory_store" \in up
          /\ \A what \in up \ Ledgers :
               \/ what \in broken \cup {"client_a"}
               \/ what \in {"client_b", "directory", "directory_store", "policy_a",
                            "policy_b"}
      BY <2>2 DEF StageOK, ResourcesOK, Closing
    <3>2. \A what \in {"client_b", "directory", "directory_store", "policy_a",
                       "policy_b"} : \E j \in 2 .. 6 : ClosingOrder[j] = what
      BY OrderIsThis
    <3> QED BY <2>2, <3>1, <3>2, OrderIsThis, RaisePreserves
  <2> QED BY <1>2, <2>1, <2>2 DEF Close
<1>3. CASE Close("close_client_b", "client_b", "stop_directory")
  <2>1. CASE Closes("close_client_b", "client_b", "stop_directory")
    BY <2>1 DEF StageOK, ResourcesOK, BrokenOK, RegistrationOK, Stages, Negotiating, Closing
  <2>2. CASE Raises("close_client_b", "client_b")
    <3>1. /\ stage \in Closing /\ "directory_store" \in up
          /\ \A what \in up \ Ledgers :
               \/ what \in broken \cup {"client_b"}
               \/ what \in {"directory", "directory_store", "policy_a", "policy_b"}
      BY <2>2 DEF StageOK, ResourcesOK, Closing
    <3>2. \A what \in {"directory", "directory_store", "policy_a", "policy_b"} :
            \E j \in 3 .. 6 : ClosingOrder[j] = what
      BY OrderIsThis
    <3> QED BY <2>2, <3>1, <3>2, OrderIsThis, RaisePreserves
  <2> QED BY <1>3, <2>1, <2>2 DEF Close
<1>4. CASE Close("stop_directory", "directory", "close_directory_store")
  <2>1. CASE Closes("stop_directory", "directory", "close_directory_store")
    BY <2>1 DEF StageOK, ResourcesOK, BrokenOK, RegistrationOK, Stages, Negotiating, Closing
  <2>2. CASE Raises("stop_directory", "directory")
    <3>1. /\ stage \in Closing /\ "directory_store" \in up
          /\ \A what \in up \ Ledgers :
               \/ what \in broken \cup {"directory"}
               \/ what \in {"directory_store", "policy_a", "policy_b"}
      BY <2>2 DEF StageOK, ResourcesOK, Closing
    <3>2. \A what \in {"directory_store", "policy_a", "policy_b"} :
            \E j \in 4 .. 6 : ClosingOrder[j] = what
      BY OrderIsThis
    <3> QED BY <2>2, <3>1, <3>2, OrderIsThis, RaisePreserves
  <2> QED BY <1>4, <2>1, <2>2 DEF Close
<1>5. CASE Close("close_directory_store", "directory_store", "close_policy_a")
  <2>1. CASE Closes("close_directory_store", "directory_store", "close_policy_a")
    BY <2>1 DEF StageOK, ResourcesOK, BrokenOK, RegistrationOK, Stages, Negotiating, Closing
  <2>2. CASE Raises("close_directory_store", "directory_store")
    <3>1. /\ stage \in Closing /\ "directory_store" \in up
          /\ \A what \in up \ Ledgers :
               \/ what \in broken \cup {"directory_store"}
               \/ what \in {"policy_a", "policy_b"}
      BY <2>2 DEF StageOK, ResourcesOK, Closing
    <3>2. \A what \in {"policy_a", "policy_b"} : \E j \in 5 .. 6 : ClosingOrder[j] = what
      BY OrderIsThis
    <3> QED BY <2>2, <3>1, <3>2, OrderIsThis, RaisePreserves
  <2> QED BY <1>5, <2>1, <2>2 DEF Close
<1>6. CASE Close("close_policy_a", "policy_a", "close_policy_b")
  <2>1. CASE Closes("close_policy_a", "policy_a", "close_policy_b")
    BY <2>1 DEF StageOK, ResourcesOK, BrokenOK, RegistrationOK, Stages, Negotiating, Closing
  <2>2. CASE Raises("close_policy_a", "policy_a")
    <3>1. /\ stage \in Closing /\ "directory" \notin up
          /\ \A what \in up \ Ledgers :
               what \in broken \cup {"policy_a"} \/ what = "policy_b"
      BY <1>1, <2>2 DEF StageOK, ResourcesOK, Closing
    <3>2. \E j \in 6 .. 6 : ClosingOrder[j] = "policy_b"
      BY OrderIsThis
    <3> QED BY <2>2, <3>1, <3>2, OrderIsThis, RaisePreserves
  <2> QED BY <1>6, <2>1, <2>2 DEF Close
<1>7. CASE Close("close_policy_b", "policy_b", AfterTeardown)
  <2>1. CASE Closes("close_policy_b", "policy_b", AfterTeardown)
    <3>1. up' \subseteq Ledgers \cup broken' /\ "directory" \notin up'
      BY <1>1, <2>1 DEF StageOK, ResourcesOK, Closing
    <3>2. LeftUp'
      BY <3>1 DEF LeftUp, LeftOver
    <3>3. /\ stage' \in {"raised", "sidecars"} /\ broken' = broken /\ error' = error
          /\ stage' = "sidecars" => ~ error /\ broken = {}
          /\ "listener_b" \notin up'  \/ "listener_b" \in broken
      BY <1>1, <2>1 DEF AfterTeardown, StageOK, BrokenOK, Closing
    <3> QED BY <2>1, <3>1, <3>2, <3>3
            DEF StageOK, ResourcesOK, BrokenOK, RegistrationOK, Stages, Negotiating, Closing
  <2>2. CASE Raises("close_policy_b", "policy_b")
    <3>1. /\ stage \in Closing /\ "directory" \notin up
          /\ \A what \in up \ Ledgers : what \in broken \cup {"policy_b"}
      BY <1>1, <2>2 DEF StageOK, ResourcesOK, Closing
    <3> QED BY <2>2, <3>1, OrderIsThis, RaisePreserves
  <2> QED BY <1>7, <2>1, <2>2 DEF Close
<1> QED BY <1>2, <1>3, <1>4, <1>5, <1>6, <1>7 DEF Teardown

LEMMA StagesPreserved ==
  ASSUME StageOK, [Next]_vars
  PROVE  StageOK'
<1>1. CASE CleanPriorRun
  BY <1>1 DEF CleanPriorRun, StageOK, ResourcesOK, BrokenOK, RegistrationOK, Stages,
              Negotiating, Closing, resources
<1>2. CASE Setup
  BY <1>2, BootPreserves, OpenPreserves, RegisterPreserves DEF Setup
<1>3. CASE Propose \/ Return
  <2>1. /\ stage \in {"propose", "wait"} /\ stage' \in {"wait", "listener_b"}
        /\ error' \in BOOLEAN /\ UNCHANGED <<up, registered, broken>>
    BY <1>3 DEF Propose, Return, StageOK, resources
  <2> QED BY <2>1 DEF StageOK, ResourcesOK, BrokenOK, RegistrationOK, Stages, Negotiating,
                      Closing
<1>4. CASE StopListener \/ Teardown
  BY <1>4, StopListenerPreserves, ClosePreserves
<1>5. CASE WritePayloads \/ EvaluateAssertions
  <2>1. /\ stage \in {"sidecars", "check"} /\ stage' \in {"check", "done"}
        /\ UNCHANGED <<error, up, registered, broken>>
    BY <1>5 DEF WritePayloads, EvaluateAssertions, resources
  <2> QED BY <2>1 DEF StageOK, ResourcesOK, BrokenOK, RegistrationOK, Stages, Negotiating,
                      Closing
<1>6. CASE Serve \/ FailToServe \/ EditRow \/ EditSidecar \/ UNCHANGED vars
  <2>1. UNCHANGED <<stage, error, up, registered, broken>>
    BY <1>6 DEF Serve, FailToServe, EditRow, EditSidecar, vars, resources
  <2> QED BY <2>1 DEF StageOK, ResourcesOK, BrokenOK, RegistrationOK, LeftUp, LeftOver, ClosingOrder
<1> QED BY <1>1, <1>2, <1>3, <1>4, <1>5, <1>6 DEF Next, RunNext

-----------------------------------------------------------------------------
(* The exchange *)

LEMMA ScopedIsSent == Scoped(Built) = Sent
BY DEF Scoped, Built, Sent, Payload

LEMMA RowsAreSequences ==
  /\ RowsOf("a") = <<Row("demo", "emit", "proposal", Sent),
                     Row("demo", "receive", Reply.operation, Reply.payload)>>
  /\ RowsOf("b") = <<Row("demo", "receive", "proposal", Sent),
                     Row("demo", "emit", Reply.operation, Reply.payload)>>
BY DEF RowsOf

LEMMA NothingBefore ==
  ASSUME NEW x, NEW y
  PROVE  <<>> \o <<x, y>> = <<x, y>> /\ Append(<<>>, x) = <<x>>
<1>1. <<x, y>> \in Seq({x, y})
  OBVIOUS
<1>2. Append(<<>>, x) = <<x>>
  OBVIOUS
<1> QED BY <1>1, <1>2, ConcatEmptySeq

ExchangeInv == ExchangeOK /\ LedgersOK

(* Steps that leave the exchange and the files alone.                      *)
LEMMA MovesPreserve ==
  ASSUME ExchangeInv, [Next]_vars, UNCHANGED <<exchange, ledger, sidecars>>,
         \/ stage \in Beforehand /\ stage' \in Beforehand /\ UNCHANGED error
         \/ stage \in Beforehand /\ stage' = "close_client_a" /\ error'
         \/ stage \in Beforehand /\ stage' = "raised"
         \/ stage \in Closing /\ stage' \in Closing /\ UNCHANGED error
         \/ stage \in Closing /\ stage' = "raised"
         \/ stage \in Closing /\ stage' = "sidecars" /\ ~ error /\ UNCHANGED error
         \/ stage = "check" /\ stage' = "done" /\ UNCHANGED error
  PROVE  ExchangeInv'
<1>1. UNCHANGED <<proposal, request, answer, ledger, sidecars>>
  BY DEF exchange
<1>2. Offer' = Offer /\ Built' = Built /\ Sent' = Sent /\ Reply' = Reply
      /\ RowsOf("a")' = RowsOf("a") /\ RowsOf("b")' = RowsOf("b") /\ Heard' = Heard
  BY InputsKept
<1>3. ExchangeOK'
  BY <1>1, <1>2 DEF ExchangeInv, ExchangeOK, LedgersOK, Beforehand, Afterwards, Closing, Sides
<1>4. LedgersOK'
  <2>1. DOMAIN ledger' = Sides /\ ledger' = ledger
    BY <1>1 DEF ExchangeInv, LedgersOK
  <2>2. \A row : EditsOf(row)' = EditsOf(row)
    BY <1>2 DEF EditsOf
  <2>3. \A s \in Sides : RowsOf(s)' = RowsOf(s)
    BY <1>2 DEF Sides
  <2>4. \A s \in Sides : EditsIn(s)' = EditsIn(s)
    BY <2>2, <2>3 DEF EditsIn
  <2>5. \A s \in Sides : /\ stage' \in Beforehand => ledger[s] = <<>>
                         /\ stage' \in {"wait", "sidecars", "raised"} \cup Afterwards =>
                              ledger[s] \in {<<>>, Heard, RowsOf(s)}
    BY DEF ExchangeInv, LedgersOK, Beforehand, Afterwards, Closing
  <2>6. stage' \in {"check", "done"} => stage = "check"
    BY DEF Beforehand, Closing
  <2> QED BY <1>2, <2>1, <2>2, <2>3, <2>4, <2>5, <2>6 DEF ExchangeInv, LedgersOK
<1> QED BY <1>3, <1>4 DEF ExchangeInv

LEMMA ProposePreserves ==
  ASSUME ExchangeInv, StageOK, Propose
  PROVE  ExchangeInv'
<1>1. /\ stage = "propose" /\ UNCHANGED <<calendar, limit, answer, ledger, sidecars>>
      /\ proposal = None /\ request = None /\ answer = None /\ ~ error
      /\ DOMAIN ledger = Sides /\ \A s \in Sides : ledger[s] = <<>>
  BY DEF Propose, inputs, evidence, ExchangeInv, ExchangeOK, LedgersOK, Beforehand
<1>2. Offer' = Offer /\ Built' = Built /\ Sent' = Sent /\ Reply' = Reply
  BY InputsKept DEF Next, RunNext
<1>3. \/ error' /\ stage' = "listener_b" /\ UNCHANGED <<proposal, request>>
      \/ ~ error' /\ stage' = "wait" /\ proposal' = Built /\ request' = Sent
  BY <1>1, ScopedIsSent, Zenon DEF Propose, Offer, Built
<1>4. \A s \in Sides : ledger'[s] = <<>>
  BY <1>1
<1>5. ExchangeOK'
  BY <1>1, <1>2, <1>3, <1>4 DEF ExchangeOK, Beforehand, Afterwards, Closing, Sides
<1>6. LedgersOK'
  BY <1>1, <1>3, <1>4 DEF LedgersOK, Beforehand, Afterwards, Closing
<1> QED BY <1>5, <1>6 DEF ExchangeInv

LEMMA ServePreserves ==
  ASSUME ExchangeInv, StageOK, Serve
  PROVE  ExchangeInv'
<1>1. /\ request # None /\ UNCHANGED <<calendar, limit, stage, error, proposal, sidecars>>
      /\ request' = None
  BY DEF Serve, Reachable, inputs
<1>2. /\ stage \in {"wait", "raised"} \cup Afterwards /\ proposal = Built /\ request = Sent
      /\ answer = None /\ ledger["b"] = <<>> /\ DOMAIN ledger = Sides
      /\ ledger["a"] \in {<<>>, Heard, RowsOf("a")}
  BY <1>1 DEF ExchangeInv, ExchangeOK, LedgersOK, Afterwards, Sides
<1>3. /\ Offer' = Offer /\ Built' = Built /\ Sent' = Sent /\ Reply' = Reply
      /\ (\A s : RowsOf(s)' = RowsOf(s)) /\ Heard' = Heard
  BY InputsKept DEF Next
<1>4. answer' = Reply
  <2>1. request.slots = Offer
    BY <1>2 DEF Sent, Payload
  <2> QED BY <2>1 DEF Serve, Reply
<1>5. ledger' = [ledger EXCEPT !["b"] = RowsOf("b")]
  <2> DEFINE rows == <<Received,
                       Row("demo", "emit", answer'.operation, answer'.payload)>>
  <2>1. ledger' = [ledger EXCEPT !["b"] = ledger["b"] \o rows]
    BY DEF Serve
  <2>2. rows = RowsOf("b")
    BY <1>2, <1>4, RowsAreSequences DEF Received
  <2>3. ledger["b"] \o rows = rows
    BY <1>2, NothingBefore
  <2> HIDE DEF rows
  <2> QED BY <2>1, <2>2, <2>3
<1>6. /\ ledger'["b"] = RowsOf("b") /\ ledger'["a"] = ledger["a"]
      /\ DOMAIN ledger' = Sides
  BY <1>2, <1>5 DEF Sides
<1>7. ExchangeOK'
  BY <1>1, <1>2, <1>3, <1>4, <1>6 DEF ExchangeInv, ExchangeOK, Beforehand, Afterwards, Closing
<1>8. LedgersOK'
  BY <1>1, <1>2, <1>3, <1>6 DEF LedgersOK, Beforehand, Afterwards, Closing, Sides
<1> QED BY <1>7, <1>8 DEF ExchangeInv

LEMMA FailToServePreserves ==
  ASSUME ExchangeInv, StageOK, FailToServe
  PROVE  ExchangeInv'
<1>1. /\ request # None /\ request' = None
      /\ UNCHANGED <<calendar, limit, stage, error, proposal, answer, sidecars>>
  BY DEF FailToServe, Reachable, inputs
<1>2. /\ stage \in {"wait", "raised"} \cup Afterwards /\ proposal = Built /\ request = Sent
      /\ answer = None /\ ledger["b"] = <<>> /\ DOMAIN ledger = Sides
      /\ ledger["a"] \in {<<>>, Heard, RowsOf("a")}
  BY <1>1 DEF ExchangeInv, ExchangeOK, LedgersOK, Afterwards, Sides
<1>3. /\ Offer' = Offer /\ Built' = Built /\ Sent' = Sent /\ Reply' = Reply
      /\ (\A s : RowsOf(s)' = RowsOf(s)) /\ Heard' = Heard
  BY InputsKept DEF Next
<1>4. ledger' = [ledger EXCEPT !["b"] = Heard]
  BY <1>2, NothingBefore DEF FailToServe, Received, Heard
<1>5. /\ ledger'["b"] = Heard /\ ledger'["a"] = ledger["a"] /\ DOMAIN ledger' = Sides
  BY <1>2, <1>4 DEF Sides
<1>6. ExchangeOK'
  BY <1>1, <1>2, <1>3, <1>5 DEF ExchangeInv, ExchangeOK, Beforehand, Afterwards, Closing
<1>7. LedgersOK'
  BY <1>1, <1>2, <1>3, <1>5 DEF LedgersOK, Beforehand, Afterwards, Closing, Sides
<1> QED BY <1>6, <1>7 DEF ExchangeInv

LEMMA ReturnPreserves ==
  ASSUME ExchangeInv, StageOK, Return
  PROVE  ExchangeInv'
<1>1. /\ stage = "wait" /\ stage' = "listener_b"
      /\ UNCHANGED <<calendar, limit, proposal, request, answer, sidecars>>
  BY DEF Return, inputs, exchange
<1>2. /\ proposal = Built /\ ~ error /\ ledger["a"] = <<>> /\ DOMAIN ledger = Sides
      /\ ledger["b"] \in {<<>>, Heard, RowsOf("b")}
  BY <1>1 DEF ExchangeInv, ExchangeOK, LedgersOK, Sides
<1>3. /\ Offer' = Offer /\ Built' = Built /\ Sent' = Sent /\ Reply' = Reply
      /\ (\A s : RowsOf(s)' = RowsOf(s)) /\ Heard' = Heard
  BY InputsKept DEF Next, RunNext
<1>4. \/ /\ answer # None /\ UNCHANGED error
         /\ ledger' = [ledger EXCEPT !["a"] = RowsOf("a")]
      \/ error' = TRUE /\ UNCHANGED ledger
  <2> DEFINE rows == <<Row("demo", "emit", "proposal", Scoped(proposal)),
                       Row("demo", "receive", answer.operation, answer.payload)>>
  <2>1. \/ /\ answer # None /\ UNCHANGED error
           /\ ledger' = [ledger EXCEPT !["a"] = ledger["a"] \o rows]
        \/ error' = TRUE /\ UNCHANGED ledger
    BY DEF Return
  <2>2. answer # None => answer = Reply
    BY DEF ExchangeInv, ExchangeOK
  <2>3. answer # None => rows = RowsOf("a")
    BY <1>2, <2>2, RowsAreSequences, ScopedIsSent
  <2>4. ledger["a"] \o rows = rows
    BY <1>2, NothingBefore
  <2> HIDE DEF rows
  <2> QED BY <2>1, <2>3, <2>4
<1>5. /\ DOMAIN ledger' = Sides /\ ledger'["b"] = ledger["b"]
      /\ ledger'["a"] \in {<<>>, RowsOf("a")}
      /\ ~ error' => answer # None /\ ledger'["a"] = RowsOf("a")
  BY <1>2, <1>4 DEF Sides
<1>6. ExchangeOK'
  BY <1>1, <1>2, <1>3, <1>5 DEF ExchangeInv, ExchangeOK, Beforehand, Afterwards, Closing
<1>7. LedgersOK'
  BY <1>1, <1>2, <1>3, <1>5 DEF LedgersOK, Beforehand, Afterwards, Closing, Sides
<1> QED BY <1>6, <1>7 DEF ExchangeInv

LEMMA StopPreserves ==
  ASSUME ExchangeInv, StageOK, StopListener
  PROVE  ExchangeInv'
<1>1. /\ stage = "listener_b" /\ stage' = "close_client_a"
      /\ request' \in {None, request} /\ (error' \/ (request' = None /\ UNCHANGED error))
      /\ UNCHANGED <<calendar, limit, proposal, answer, ledger, sidecars>>
  BY DEF StopListener, inputs, evidence
<1>2. /\ Offer' = Offer /\ Built' = Built /\ Sent' = Sent /\ Reply' = Reply
      /\ (\A s : RowsOf(s)' = RowsOf(s)) /\ Heard' = Heard
  BY InputsKept DEF Next, RunNext
<1>3. ExchangeOK'
  BY <1>1, <1>2 DEF ExchangeInv, ExchangeOK, Beforehand, Afterwards, Closing
<1>4. LedgersOK'
  BY <1>1, <1>2 DEF ExchangeInv, LedgersOK, Beforehand, Afterwards, Closing
<1> QED BY <1>3, <1>4 DEF ExchangeInv

LEMMA TeardownPreserves ==
  ASSUME ExchangeInv, StageOK, Teardown
  PROVE  ExchangeInv'
<1>1. /\ UNCHANGED <<exchange, ledger, sidecars>> /\ stage \in Closing
      /\ \/ stage' \in Closing /\ UNCHANGED error
         \/ stage' = "raised"
         \/ stage' = "sidecars" /\ ~ error /\ UNCHANGED error
  BY DEF Teardown, Close, AfterTeardown, evidence, Closing, StageOK
<1>2. Next
  BY DEF Next, RunNext
<1> QED BY <1>1, <1>2, MovesPreserve

LEMMA SetupPreserves ==
  ASSUME ExchangeInv, StageOK, Setup
  PROVE  ExchangeInv'
<1>1. /\ UNCHANGED <<exchange, ledger, sidecars>>
      /\ \/ stage \in Beforehand /\ stage' \in Beforehand /\ UNCHANGED error
         \/ stage \in Beforehand /\ stage' = "close_client_a" /\ error'
         \/ stage \in Beforehand /\ stage' = "raised"
  BY DEF Setup, Boot, Open, Register, evidence, Beforehand
<1>2. Next
  BY DEF Next, RunNext
<1> QED BY <1>1, <1>2, MovesPreserve

LEMMA CleanPreserves ==
  ASSUME ExchangeInv, StageOK, CleanPriorRun
  PROVE  ExchangeInv'
<1>1. /\ stage = "clean" /\ stage' = "directory_store"
      /\ UNCHANGED <<error, proposal, request, answer>>
      /\ ledger' = [s \in Sides |-> <<>>]
  BY DEF CleanPriorRun, exchange
<1>2. /\ Offer' = Offer /\ Built' = Built /\ Sent' = Sent /\ Reply' = Reply
      /\ (\A s : RowsOf(s)' = RowsOf(s)) /\ Heard' = Heard
  BY InputsKept DEF Next, RunNext
<1>3. ExchangeOK'
  BY <1>1, <1>2 DEF ExchangeInv, ExchangeOK, Beforehand, Afterwards, Closing, Sides
<1>4. LedgersOK'
  BY <1>1, <1>2 DEF ExchangeInv, LedgersOK, Beforehand, Afterwards, Closing
<1> QED BY <1>3, <1>4 DEF ExchangeInv

(* The rows of a negotiation, one by one.                                  *)
LEMMA RowsByNumber ==
  ASSUME NEW s \in Sides
  PROVE  /\ DOMAIN RowsOf(s) = 1 .. 2
         /\ s = "a" => /\ RowsOf(s)[1] = Row("demo", "emit", "proposal", Sent)
                       /\ RowsOf(s)[2] = Row("demo", "receive", Reply.operation,
                                             Reply.payload)
         /\ s = "b" => /\ RowsOf(s)[1] = Row("demo", "receive", "proposal", Sent)
                       /\ RowsOf(s)[2] = Row("demo", "emit", Reply.operation,
                                             Reply.payload)
BY DEF RowsOf, Sides

LEMMA RowsAreEdits ==
  ASSUME NEW s \in Sides, NEW i \in 1 .. 2
  PROVE  RowsOf(s)[i] \in EditsOf(RowsOf(s)[i])
<1>1. \A action \in {"emit", "receive"},
         operation \in {"proposal", "acceptance", "counter", "rejection"},
         payload \in {Sent, Reply.payload} :
        Row("demo", action, operation, payload) \in
          EditsOf(Row("demo", action, operation, payload))
  BY DEF Row, EditsOf
<1>2. Reply.operation \in {"acceptance", "counter", "rejection"}
  BY ReplyTyped
<1>3. i = 1 \/ i = 2
  OBVIOUS
<1> QED BY <1>1, <1>2, <1>3, RowsByNumber DEF Sides

LEMMA RowsMakeLedger ==
  ASSUME NEW s \in Sides
  PROVE  RowsOf(s) \in [1 .. 2 -> EditsIn(s)]
<1>1. \A i \in 1 .. 2 : RowsOf(s)[i] \in EditsIn(s)
  <2>1. RowsOf(s)[1] \in EditsIn(s) /\ RowsOf(s)[2] \in EditsIn(s)
    BY RowsAreEdits DEF EditsIn
  <2> QED BY <2>1
<1>2. \E x, y : RowsOf(s) = <<x, y>>
  BY DEF RowsOf
<1> QED BY <1>1, <1>2

LEMMA WritePreserves ==
  ASSUME ExchangeInv, StageOK, WritePayloads
  PROVE  ExchangeInv'
<1>1. /\ stage = "sidecars" /\ stage' = "check"
      /\ UNCHANGED <<calendar, limit, error, proposal, request, answer, ledger>>
      /\ DOMAIN sidecars' = {Scoped(proposal), answer.payload}
  BY DEF WritePayloads, inputs, exchange
<1>2. /\ Offer' = Offer /\ Built' = Built /\ Sent' = Sent /\ Reply' = Reply
      /\ (\A s : RowsOf(s)' = RowsOf(s)) /\ Heard' = Heard
  BY InputsKept DEF Next, RunNext
<1>3. /\ answer # None /\ answer = Reply /\ proposal = Built /\ ~ error
      /\ \A s \in Sides : ledger[s] = RowsOf(s)
      /\ DOMAIN ledger = Sides
  BY <1>1 DEF ExchangeInv, ExchangeOK, LedgersOK, Sides
<1>4. DOMAIN sidecars' = {Sent, Reply.payload}
  BY <1>1, <1>3, ScopedIsSent
<1>5. ExchangeOK'
  BY <1>1, <1>2, <1>3, <1>4 DEF ExchangeInv, ExchangeOK, Beforehand, Afterwards, Closing
<1>6. \A row : EditsOf(row)' = EditsOf(row)
  BY <1>2 DEF EditsOf
<1>7. \A s \in Sides : /\ ledger'[s] \in [1 .. 2 -> EditsIn(s)]
                       /\ \A i \in 1 .. 2 : ledger'[s][i] \in EditsOf(RowsOf(s)[i])
  BY <1>1, <1>3, RowsAreEdits, RowsMakeLedger
<1>8. LedgersOK'
  <2>1. \A s \in Sides, i \in 1 .. 2 : ledger'[s][i] \in EditsOf(RowsOf(s)[i])'
    BY <1>2, <1>6, <1>7
  <2>2. \A s \in Sides : EditsIn(s)' = EditsIn(s)
    BY <1>2, <1>6 DEF EditsIn
  <2> QED BY <1>1, <1>3, <1>7, <2>1, <2>2 DEF LedgersOK, Beforehand, Afterwards, Closing
<1> QED BY <1>5, <1>8 DEF ExchangeInv

(* Rewriting one field of a row leaves an edit of the original.            *)
LEMMA EditsCompose ==
  ASSUME NEW original, NEW row \in EditsOf(original)
  PROVE  /\ \A operation \in {"proposal", "acceptance"} :
              [row EXCEPT !.operation = operation] \in EditsOf(original)
         /\ \A action \in {"emit", "receive"} :
              [row EXCEPT !.action = action] \in EditsOf(original)
         /\ \A payload \in {Sent, Reply.payload} :
              [row EXCEPT !.payload = payload] \in EditsOf(original)
BY DEF EditsOf

LEMMA EditPreserves ==
  ASSUME ExchangeInv, StageOK, EditRow
  PROVE  ExchangeInv'
<1>1. /\ stage = "check"
      /\ UNCHANGED <<calendar, limit, stage, error, proposal, request, answer, sidecars>>
  BY DEF EditRow, inputs, exchange
<1>2. /\ Offer' = Offer /\ Built' = Built /\ Sent' = Sent /\ Reply' = Reply
      /\ (\A s : RowsOf(s)' = RowsOf(s)) /\ Heard' = Heard
  BY InputsKept DEF Next
<1>3. DOMAIN sidecars \subseteq {Sent, Reply.payload} /\ request = None /\ answer # None
  BY <1>1 DEF ExchangeInv, ExchangeOK
<1>4. /\ DOMAIN ledger = Sides
      /\ \A s \in Sides : /\ ledger[s] \in [1 .. 2 -> EditsIn(s)]
                          /\ \A i \in 1 .. 2 : ledger[s][i] \in EditsOf(RowsOf(s)[i])
  BY <1>1 DEF ExchangeInv, LedgersOK
<1>5. \E s \in Sides, i \in 1 .. 2 : \E row \in EditsOf(RowsOf(s)[i]) :
        ledger' = [ledger EXCEPT ![s][i] = row]
  <2>6. PICK s \in Sides : \E i \in DOMAIN ledger[s] :
          \/ \E operation \in {"proposal", "acceptance"} :
               ledger' = [ledger EXCEPT ![s][i].operation = operation]
          \/ \E action \in {"emit", "receive"} :
               ledger' = [ledger EXCEPT ![s][i].action = action]
          \/ \E payload \in DOMAIN sidecars :
               ledger' = [ledger EXCEPT ![s][i].payload = payload]
    BY Zenon DEF EditRow
  <2>1. PICK i \in DOMAIN ledger[s] :
          \/ \E operation \in {"proposal", "acceptance"} :
               ledger' = [ledger EXCEPT ![s][i].operation = operation]
          \/ \E action \in {"emit", "receive"} :
               ledger' = [ledger EXCEPT ![s][i].action = action]
          \/ \E payload \in DOMAIN sidecars :
               ledger' = [ledger EXCEPT ![s][i].payload = payload]
    BY <2>6
  <2>2. i \in 1 .. 2 /\ ledger[s][i] \in EditsOf(RowsOf(s)[i])
    BY <1>4
  <2>3. CASE \E operation \in {"proposal", "acceptance"} :
               ledger' = [ledger EXCEPT ![s][i].operation = operation]
    <3>1. PICK operation \in {"proposal", "acceptance"} :
            ledger' = [ledger EXCEPT ![s][i].operation = operation]
      BY <2>3
    <3>2. ledger' = [ledger EXCEPT ![s][i] = [ledger[s][i] EXCEPT !.operation = operation]]
      BY <1>4, <2>2, <3>1
    <3> QED BY <2>2, <3>2, EditsCompose
  <2>4. CASE \E action \in {"emit", "receive"} :
               ledger' = [ledger EXCEPT ![s][i].action = action]
    <3>1. PICK action \in {"emit", "receive"} :
            ledger' = [ledger EXCEPT ![s][i].action = action]
      BY <2>4
    <3>2. ledger' = [ledger EXCEPT ![s][i] = [ledger[s][i] EXCEPT !.action = action]]
      BY <1>4, <2>2, <3>1
    <3> QED BY <2>2, <3>2, EditsCompose
  <2>5. CASE \E payload \in DOMAIN sidecars :
               ledger' = [ledger EXCEPT ![s][i].payload = payload]
    <3>1. PICK payload \in DOMAIN sidecars :
            ledger' = [ledger EXCEPT ![s][i].payload = payload]
      BY <2>5
    <3>2. ledger' = [ledger EXCEPT ![s][i] = [ledger[s][i] EXCEPT !.payload = payload]]
      BY <1>4, <2>2, <3>1
    <3> QED BY <1>3, <2>2, <3>2, EditsCompose
  <2> QED BY <2>1, <2>3, <2>4, <2>5
<1>6. /\ DOMAIN ledger' = Sides
      /\ \A s \in Sides : /\ ledger'[s] \in [1 .. 2 -> EditsIn(s)]
                          /\ \A i \in 1 .. 2 : ledger'[s][i] \in EditsOf(RowsOf(s)[i])
  <2>4. PICK s \in Sides, i \in 1 .. 2 : \E row \in EditsOf(RowsOf(s)[i]) :
          ledger' = [ledger EXCEPT ![s][i] = row]
    BY <1>5
  <2>1. PICK row \in EditsOf(RowsOf(s)[i]) : ledger' = [ledger EXCEPT ![s][i] = row]
    BY <2>4
  <2>2. /\ ledger'[s] = [ledger[s] EXCEPT ![i] = row]
        /\ \A r \in Sides \ {s} : ledger'[r] = ledger[r]
        /\ DOMAIN ledger' = Sides
    BY <1>4, <2>1
  <2>5. row \in EditsIn(s)
    BY <2>1 DEF EditsIn
  <2>3. /\ ledger'[s] \in [1 .. 2 -> EditsIn(s)] /\ ledger'[s][i] = row
        /\ \A j \in (1 .. 2) \ {i} : ledger'[s][j] = ledger[s][j]
    BY <1>4, <2>2, <2>5
  <2> QED BY <1>4, <2>1, <2>2, <2>3
<1>7. \A row : EditsOf(row)' = EditsOf(row)
  BY <1>2 DEF EditsOf
<1>8. LedgersOK'
  <2>1. \A s \in Sides, i \in 1 .. 2 : ledger'[s][i] \in EditsOf(RowsOf(s)[i])'
    BY <1>2, <1>6, <1>7
  <2>2. \A s \in Sides : EditsIn(s)' = EditsIn(s)
    BY <1>2, <1>7 DEF EditsIn
  <2> QED BY <1>1, <1>6, <2>1, <2>2 DEF LedgersOK, Beforehand, Afterwards, Closing
<1>9. ExchangeOK'
  BY <1>1, <1>2, <1>3 DEF ExchangeInv, ExchangeOK, Beforehand, Afterwards, Closing
<1> QED BY <1>8, <1>9 DEF ExchangeInv

(* An edit of the payload files leaves the ledgers alone, and names no new *)
(* file.                                                                   *)
LEMMA EditSidecarPreserves ==
  ASSUME ExchangeInv, StageOK, EditSidecar
  PROVE  ExchangeInv'
<1>1. /\ stage = "check" /\ DOMAIN sidecars' \subseteq DOMAIN sidecars
      /\ UNCHANGED <<calendar, limit, stage, error, proposal, request, answer, ledger>>
  BY DEF EditSidecar, inputs, exchange
<1>2. /\ Offer' = Offer /\ Built' = Built /\ Sent' = Sent /\ Reply' = Reply
      /\ (\A s : RowsOf(s)' = RowsOf(s)) /\ Heard' = Heard
  BY InputsKept DEF Next
<1>3. ExchangeOK'
  BY <1>1, <1>2 DEF ExchangeInv, ExchangeOK, Beforehand, Afterwards, Closing
<1>4. \A row : EditsOf(row)' = EditsOf(row)
  BY <1>2 DEF EditsOf
<1>5. \A s : EditsIn(s)' = EditsIn(s)
  BY <1>2, <1>4 DEF EditsIn
<1>6. LedgersOK'
  BY <1>1, <1>2, <1>4, <1>5 DEF ExchangeInv, LedgersOK, Beforehand, Afterwards, Closing
<1> QED BY <1>3, <1>6 DEF ExchangeInv

LEMMA ExchangePreserved ==
  ASSUME ExchangeInv, StageOK, [Next]_vars
  PROVE  ExchangeInv'
<1>1. CASE EvaluateAssertions
  <2>1. /\ stage = "check" /\ stage' = "done" /\ UNCHANGED error
        /\ UNCHANGED <<exchange, ledger, sidecars>>
    BY <1>1 DEF EvaluateAssertions
  <2> QED BY <2>1, MovesPreserve
<1>2. CASE UNCHANGED vars
  <2>1. UNCHANGED <<exchange, ledger, sidecars, stage, error>>
    BY <1>2 DEF vars, exchange
  <2>2. Offer' = Offer /\ Built' = Built /\ Sent' = Sent /\ Reply' = Reply
        /\ (\A s : RowsOf(s)' = RowsOf(s)) /\ Heard' = Heard
    BY InputsKept
  <2>3. ExchangeOK'
    BY <2>1, <2>2 DEF ExchangeInv, ExchangeOK, exchange
  <2>4. \A row : EditsOf(row)' = EditsOf(row)
    BY <2>2 DEF EditsOf
  <2>6. \A s : EditsIn(s)' = EditsIn(s)
    BY <2>2, <2>4 DEF EditsIn
  <2>5. LedgersOK'
    BY <2>1, <2>2, <2>4, <2>6 DEF ExchangeInv, LedgersOK
  <2> QED BY <2>3, <2>5 DEF ExchangeInv
<1> QED
  BY <1>1, <1>2, CleanPreserves, SetupPreserves, ProposePreserves, ServePreserves,
     FailToServePreserves, ReturnPreserves, StopPreserves, TeardownPreserves,
     WritePreserves, EditPreserves, EditSidecarPreserves
  DEF Next, RunNext

-----------------------------------------------------------------------------
(* The checks *)

(* A signature that verifies pins every field of an edited row.            *)
LEMMA SignedRowIsOriginal ==
  ASSUME NEW action, NEW operation, NEW payload,
         NEW row \in EditsOf(Row("demo", action, operation, payload))
  PROVE  /\ row.signed = <<row.action, row.operation, row.payload>> =>
              row = Row("demo", action, operation, payload)
         /\ row = Row("demo", action, operation, payload) <=>
              row = Row("demo", row.signed[1], row.signed[2], row.signed[3])
         /\ row.task = "demo"
<1>1. /\ row.task = "demo" /\ row.signed = <<action, operation, payload>>
      /\ row = [task |-> row.task, action |-> row.action, operation |-> row.operation,
                payload |-> row.payload, signed |-> row.signed]
  BY DEF EditsOf, Row
<1>2. Row("demo", action, operation, payload) =
        [task |-> "demo", action |-> action, operation |-> operation, payload |-> payload,
         signed |-> <<action, operation, payload>>]
  BY DEF Row
<1>3. row.signed[1] = action /\ row.signed[2] = operation /\ row.signed[3] = payload
  BY <1>1
<1>4. ASSUME row.signed = <<row.action, row.operation, row.payload>>
      PROVE  row.action = action /\ row.operation = operation /\ row.payload = payload
  BY <1>1, <1>4
<1> QED BY <1>1, <1>2, <1>3, <1>4

Checking ==
  /\ DOMAIN ledger = Sides
  /\ \A s \in Sides : /\ DOMAIN ledger[s] = 1 .. 2
                      /\ \A i \in 1 .. 2 : ledger[s][i] \in EditsOf(RowsOf(s)[i])
  /\ answer = Reply /\ proposal = Built

Original == \A s \in Sides, i \in 1 .. 2 : ledger[s][i] = RowsOf(s)[i]

LEMMA RowsAreRows ==
  ASSUME NEW s \in Sides, NEW i \in 1 .. 2
  PROVE  \E action, operation, payload :
           RowsOf(s)[i] = Row("demo", action, operation, payload)
<1>1. i = 1 \/ i = 2
  OBVIOUS
<1>2. s = "a" \/ s = "b"
  BY DEF Sides
<1>3. CASE s = "a" /\ i = 1
  BY <1>3, RowsByNumber
<1>4. CASE s = "a" /\ i = 2
  BY <1>4, RowsByNumber
<1>5. CASE s = "b" /\ i = 1
  BY <1>5, RowsByNumber
<1>6. CASE s = "b" /\ i = 2
  BY <1>6, RowsByNumber
<1> QED BY <1>1, <1>2, <1>3, <1>4, <1>5, <1>6

LEMMA RowFacts ==
  ASSUME Checking, NEW s \in Sides, NEW i \in 1 .. 2
  PROVE  LET row == ledger[s][i] IN
         /\ row.signed = <<row.action, row.operation, row.payload>> => row = RowsOf(s)[i]
         /\ row = RowsOf(s)[i] =>
              row.signed = <<row.action, row.operation, row.payload>>
         /\ row = RowsOf(s)[i] <=>
              row = Row("demo", row.signed[1], row.signed[2], row.signed[3])
         /\ row.task = "demo"
<1>1. PICK action, operation, payload :
        RowsOf(s)[i] = Row("demo", action, operation, payload)
  BY RowsAreRows
<1> DEFINE row == ledger[s][i]
<1>2. row \in EditsOf(Row("demo", action, operation, payload))
  BY <1>1 DEF Checking
<1>3. Row("demo", action, operation, payload).signed =
        <<Row("demo", action, operation, payload).action,
          Row("demo", action, operation, payload).operation,
          Row("demo", action, operation, payload).payload>>
  BY DEF Row
<1> HIDE DEF row
<1>4. /\ row.signed = <<row.action, row.operation, row.payload>> =>
           row = Row("demo", action, operation, payload)
      /\ row = Row("demo", action, operation, payload) <=>
           row = Row("demo", row.signed[1], row.signed[2], row.signed[3])
      /\ row.task = "demo"
  BY <1>2, SignedRowIsOriginal
<1> QED BY <1>1, <1>3, <1>4 DEF row

LEMMA EntriesAreBoth ==
  ASSUME Checking, NEW s \in Sides
  PROVE  Entries(s) = 1 .. 2
BY RowFacts DEF Checking, Entries

LEMMA WrittenIsOriginal == Checking => (AsWritten <=> Original)
BY RowFacts DEF Checking, AsWritten, Original

LEMMA VerifiedIsOriginal ==
  Checking => (SignaturesVerify("a") /\ SignaturesVerify("b") <=> Original)
<1> SUFFICES ASSUME Checking PROVE SignaturesVerify("a") /\ SignaturesVerify("b") <=> Original
  OBVIOUS
<1>1. \A s \in Sides : SignaturesVerify(s) <=> \A i \in 1 .. 2 : ledger[s][i] = RowsOf(s)[i]
  BY EntriesAreBoth, RowFacts DEF SignaturesVerify
<1> QED BY <1>1 DEF Original, Sides

(* In rows as they were written each side has one entry of each action.    *)
LEMMA OriginalEntries ==
  ASSUME Checking, Original
  PROVE  /\ Entry("a", "emit") = Row("demo", "emit", "proposal", Sent)
         /\ Entry("a", "receive") = Row("demo", "receive", Reply.operation, Reply.payload)
         /\ Entry("b", "receive") = Row("demo", "receive", "proposal", Sent)
         /\ Entry("b", "emit") = Row("demo", "emit", Reply.operation, Reply.payload)
<1>1. \A operation, payload : /\ Row("demo", "emit", operation, payload).action = "emit"
                              /\ Row("demo", "receive", operation, payload).action = "receive"
  BY DEF Row
<1>2. ASSUME NEW s \in Sides, NEW action, NEW k \in 1 .. 2,
             \A i \in 1 .. 2 : ledger[s][i].action = action <=> i = k
      PROVE  Entry(s, action) = ledger[s][k]
  <2> DEFINE those == {i \in Entries(s) : ledger[s][i].action = action}
  <2>1. those = {k}
    BY <1>2, EntriesAreBoth
  <2>2. (CHOOSE i \in those : \A j \in those : i <= j) = k
    BY <2>1
  <2> QED BY <2>1, <2>2 DEF Entry
<1>3. /\ ledger["a"][1] = Row("demo", "emit", "proposal", Sent)
      /\ ledger["a"][2] = Row("demo", "receive", Reply.operation, Reply.payload)
      /\ ledger["b"][1] = Row("demo", "receive", "proposal", Sent)
      /\ ledger["b"][2] = Row("demo", "emit", Reply.operation, Reply.payload)
  BY RowsByNumber DEF Original, Sides
<1>4. \A i \in 1 .. 2 : /\ ledger["a"][i].action = "emit" <=> i = 1
                        /\ ledger["a"][i].action = "receive" <=> i = 2
                        /\ ledger["b"][i].action = "receive" <=> i = 1
                        /\ ledger["b"][i].action = "emit" <=> i = 2
  BY <1>1, <1>3
<1> QED BY <1>2, <1>3, <1>4 DEF Sides

(* The payloads differ in their fields, so the one B accepts is told from  *)
(* the proposal as it was built.                                           *)
LEMMA PayloadsDiffer ==
  /\ Sent # Built /\ Reply.payload # Built /\ Sent.slots = Offer
  /\ Scoped(Built) = Sent
<1>1. Built.fields = "rich" /\ Sent.fields = "scoped" /\ Sent.slots = Offer
  BY DEF Built, Sent, Payload
<1>2. Reply.payload.fields = "bare"
  BY ReplyTyped
<1> QED BY <1>1, <1>2, ScopedIsSent

LEMMA PassesAsWritten ==
  ASSUME InputsOK, Checking, Original, FilesAsWritten, Reply.operation = "acceptance"
  PROVE  \A number \in Numbers : Passed(number)
<1> DEFINE aEmit == Row("demo", "emit", "proposal", Sent)
           aReceive == Row("demo", "receive", Reply.operation, Reply.payload)
           bReceive == Row("demo", "receive", "proposal", Sent)
           bEmit == Row("demo", "emit", Reply.operation, Reply.payload)
<1>1. /\ Entry("a", "emit") = aEmit /\ Entry("a", "receive") = aReceive
      /\ Entry("b", "receive") = bReceive /\ Entry("b", "emit") = bEmit
  BY OriginalEntries
<1>2. /\ aEmit.operation = "proposal" /\ bReceive.operation = "proposal"
      /\ aEmit.payload = Sent /\ bReceive.payload = Sent
      /\ bEmit.operation = "acceptance" /\ aReceive.operation = "acceptance"
      /\ bEmit.payload = Reply.payload /\ aReceive.payload = Reply.payload
      /\ NoEntry.action = "none" /\ aEmit.action = "emit" /\ bEmit.action = "emit"
  BY DEF Row, NoEntry
<1>3. NoEntry # aEmit /\ NoEntry # bEmit
  BY <1>2
<1> HIDE DEF aEmit, aReceive, bEmit, bReceive
<1>4. Passed(1)
  BY EntriesAreBoth DEF Passed, TwoEntries, Sides
<1>5. Passed(3)
  BY VerifiedIsOriginal DEF Passed
<1>6. Passed(5) /\ Passed(6) /\ Passed(7) /\ Passed(10) /\ Passed(11) /\ Passed(12)
  BY <1>1, <1>2, <1>3 DEF Passed
<1>7. Passed(13)
  <2>1. DOMAIN sidecars = {Sent, Reply.payload} /\ sidecars[Sent] = Sent
    BY PayloadsDiffer DEF Checking, FilesAsWritten
  <2>2. \E t \in Offer : Reply.payload = Payload({t}, "bare")
    BY ReplyTyped, PickedIsFirst
  <2>3. SlotWasProposed(aEmit, bEmit)
    BY <1>2, <2>1, <2>2, PayloadsDiffer DEF SlotWasProposed
  <2> QED BY <1>1, <1>3, <2>3 DEF Passed
<1>8. Passed(15)
  <2>1. Entry("a", "emit").payload = Scoped(proposal)
    BY <1>1, <1>2, PayloadsDiffer DEF Checking
  <2>2. \A s \in Sides : \A i \in Entries(s) : ledger[s][i].payload # proposal
    <3>1. \A s \in Sides, i \in 1 .. 2 : RowsOf(s)[i].payload \in {Sent, Reply.payload}
      <4> SUFFICES ASSUME NEW s \in Sides, NEW i \in 1 .. 2
                   PROVE  RowsOf(s)[i].payload \in {Sent, Reply.payload}
        OBVIOUS
      <4> QED BY RowsAreEdits DEF EditsOf
    <3> QED BY <3>1, EntriesAreBoth, PayloadsDiffer DEF Checking, Original
  <2> QED BY <2>1, <2>2 DEF Passed
<1>9. Passed(16)
  BY <1>1, <1>2, PayloadsDiffer DEF Passed, Checking
<1> QED BY <1>4, <1>5, <1>6, <1>7, <1>8, <1>9 DEF Numbers

LEMMA OnlyAsWrittenPasses ==
  ASSUME Checking, \A number \in Numbers : Passed(number)
  PROVE  Original /\ Reply.operation = "acceptance"
<1>1. Passed(3) /\ Passed(10)
  BY DEF Numbers
<1>2. Original
  BY <1>1, VerifiedIsOriginal DEF Passed
<1>3. Entry("b", "emit") = Row("demo", "emit", Reply.operation, Reply.payload)
  BY <1>2, OriginalEntries
<1>4. Entry("b", "emit").operation = "acceptance"
  BY <1>1 DEF Passed
<1> QED BY <1>2, <1>3, <1>4 DEF Row

LEMMA VerdictPreserved ==
  ASSUME InputsOK, ExchangeInv, StageOK, VerdictOK, [Next]_vars
  PROVE  VerdictOK'
<1>1. CASE EvaluateAssertions
  <2> DEFINE failed == {number \in Numbers : ~ Passed(number)}
  <2>1. /\ stage = "check" /\ stage' = "done" /\ UNCHANGED <<answer, ledger, edits>>
        /\ failures' = failed \cup (IF failed \cap 1 .. 13 = {} THEN {} ELSE {14})
    BY <1>1 DEF EvaluateAssertions, exchange
  <2>2. Checking
    BY <2>1 DEF ExchangeInv, ExchangeOK, LedgersOK, Checking
  <2>3. /\ failed = {} => AsWritten /\ answer.operation = "acceptance"
        /\ AsWritten /\ answer.operation = "acceptance" /\ FilesAsWritten => failed = {}
    <3>1. failed = {} <=> \A number \in Numbers : Passed(number)
      OBVIOUS
    <3>2. /\ (\A number \in Numbers : Passed(number))
               => Original /\ Reply.operation = "acceptance"
          /\ Original /\ FilesAsWritten /\ Reply.operation = "acceptance"
               => \A number \in Numbers : Passed(number)
      BY <2>2, PassesAsWritten, OnlyAsWrittenPasses
    <3> QED BY <2>2, <3>1, <3>2, WrittenIsOriginal DEF Checking
  <2>4. failed \subseteq 1 .. 16
    BY DEF Numbers
  <2> HIDE DEF failed
  <2>5. failures' \subseteq 1 .. 16 /\ (failures' = {} <=> failed = {})
    BY <2>1, <2>4
  <2>6. (AsWritten' <=> AsWritten) /\ (FilesAsWritten' <=> FilesAsWritten)
    BY <1>1, <2>1 DEF AsWritten, FilesAsWritten, EvaluateAssertions, exchange
  <2> QED BY <2>1, <2>3, <2>5, <2>6 DEF VerdictOK
<1>2. CASE stage = "done"
  <2>1. UNCHANGED vars
    <3>1. ~ Setup
      BY <1>2 DEF Setup, Boot, Open, Register
    <3>2. ~ (CleanPriorRun \/ Propose \/ Return \/ StopListener \/ WritePayloads
               \/ EvaluateAssertions \/ EditRow \/ EditSidecar)
      BY <1>2 DEF CleanPriorRun, Propose, Return, StopListener, WritePayloads,
                  EvaluateAssertions, EditRow, EditSidecar
    <3>3. ~ Teardown
      BY <1>2 DEF Teardown, Close
    <3>4. ~ (Serve \/ FailToServe)
      BY <1>2 DEF Serve, FailToServe, Reachable, ExchangeInv, ExchangeOK, Afterwards,
                  Closing
    <3> QED BY <3>1, <3>2, <3>3, <3>4 DEF Next, RunNext
  <2> QED BY <2>1 DEF VerdictOK, AsWritten, FilesAsWritten, vars
<1>3. CASE stage # "done" /\ ~ EvaluateAssertions
  <2>1. stage' # "done"
    <3>1. Setup => stage' # "done"
      BY DEF Setup, Boot, Open, Register
    <3>2. CleanPriorRun \/ Propose \/ Return \/ StopListener \/ WritePayloads
            => stage' # "done"
      BY DEF CleanPriorRun, Propose, Return, StopListener, WritePayloads
    <3>3. Teardown => stage' # "done"
      BY DEF Teardown, Close, AfterTeardown
    <3>4. Serve \/ FailToServe \/ EditRow \/ EditSidecar \/ UNCHANGED vars
            => stage' # "done"
      BY <1>3 DEF Serve, FailToServe, EditRow, EditSidecar, vars
    <3> QED BY <1>3, <3>1, <3>2, <3>3, <3>4 DEF Next, RunNext
  <2>2. failures' = failures
    <3>1. Setup => failures' = failures
      BY DEF Setup, Boot, Open, Register, evidence
    <3>2. Teardown => failures' = failures
      BY DEF Teardown, Close, evidence
    <3> QED BY <1>3, <3>1, <3>2
        DEF Next, RunNext, CleanPriorRun, Propose, Return, StopListener, WritePayloads,
            Serve, FailToServe, EditRow, EditSidecar, vars, evidence
  <2>3. edits' \in 0 .. MaxEdits
    <3>1. EditRow \/ EditSidecar => edits' = edits + 1 /\ edits < MaxEdits
      BY DEF EditRow, EditSidecar
    <3>2. EditRow \/ EditSidecar \/ edits' = edits
      BY <1>3 DEF Next, RunNext, Setup, Boot, Open, Register, Teardown, Close,
                  CleanPriorRun, Propose, Return, StopListener, WritePayloads, Serve,
                  FailToServe, vars, evidence
    <3> QED BY <3>1, <3>2 DEF VerdictOK
  <2> QED BY <1>3, <2>1, <2>2, <2>3 DEF VerdictOK
<1> QED BY <1>1, <1>2, <1>3

-----------------------------------------------------------------------------
(* The theorems *)

LEMMA InitIInv == Init => IInv
<1> SUFFICES ASSUME Init PROVE IInv
  OBVIOUS
<1>1. StageOK
  BY DEF Init, StageOK, Stages, ResourcesOK, BrokenOK, RegistrationOK, Negotiating,
         Closing
<1>4. InputsOK
  BY DEF Init, InputsOK
<1>5. VerdictOK
  <2>1. edits = 0 /\ failures = None /\ stage # "done"
    BY DEF Init
  <2> QED BY <2>1 DEF VerdictOK
<1>2. ExchangeOK
  BY DEF Init, ExchangeOK, Beforehand, Afterwards, Closing
<1>3. LedgersOK
  <2>1. DOMAIN ledger = Sides
    BY DEF Init
  <2> QED BY <2>1 DEF Init, LedgersOK, Beforehand, Afterwards, Closing
<1> QED BY <1>1, <1>2, <1>3, <1>4, <1>5 DEF IInv, StageOK

LEMMA NextIInv == IInv /\ [Next]_vars => IInv'
<1> SUFFICES ASSUME IInv, [Next]_vars PROVE IInv'
  OBVIOUS
<1>1. StageOK /\ ExchangeInv /\ InputsOK /\ VerdictOK
  BY DEF IInv, StageOK, ExchangeInv
<1>2. InputsOK'
  BY <1>1, InputsKept DEF InputsOK, inputs
<1> QED BY <1>1, <1>2, StagesPreserved, ExchangePreserved, VerdictPreserved
        DEF IInv, StageOK, ExchangeInv

LEMMA PairsAreSequences ==
  ASSUME NEW S, NEW f \in [1 .. 2 -> S]
  PROVE  Len(f) = 2
<1>1. f = <<f[1], f[2]>>
  OBVIOUS
<1>2. Len(<<f[1], f[2]>>) = 2
  OBVIOUS
<1> QED BY <1>1, <1>2, Zenon

(* The stages of run_demo, what is open in each, the exchange and the      *)
(* files (run_demo.py), whatever raises and whatever B answers.            *)
THEOREM DemoInvariant == Spec => []IInv
BY InitIInv, NextIInv, PTL DEF Spec

(* The values always have their shapes, and a ledger file never holds more *)
(* than the two residues of this run (_clean_prior_run).                   *)
THEOREM TypeCorrect == Spec => []TypeOK
<1>1. IInv => TypeOK
  <2> SUFFICES ASSUME IInv PROVE TypeOK
    OBVIOUS
  <2>1. Built \in Payloads /\ Sent \in Payloads
    BY SlotsAreNat DEF Built, Sent, Payload, Payloads
  <2>2. /\ proposal = None \/ proposal \in Payloads
        /\ request = None \/ request \in Payloads
    BY <2>1 DEF IInv, ExchangeOK
  <2>3. failures = None \/ failures \subseteq 1 .. 16
    BY DEF IInv, VerdictOK
  <2>4. ASSUME up # {}, NEW s \in Sides PROVE Len(ledger[s]) <= 2
    <3>1. stage # "clean"
      BY <2>4 DEF IInv, ResourcesOK
    <3>2. Len(RowsOf(s)) <= 2 /\ Len(Heard) <= 2 /\ Len(<<>>) <= 2
      BY DEF RowsOf, Heard
    <3>3. CASE stage \in {"check", "done"}
      <4>1. ledger[s] \in [1 .. 2 -> EditsIn(s)]
        BY <3>3 DEF IInv, LedgersOK
      <4>2. Len(ledger[s]) = 2
        BY <4>1, PairsAreSequences
      <4> QED BY <4>2
    <3>4. CASE stage \notin {"check", "done"}
      <4>1. stage \in Beforehand \cup {"wait", "sidecars", "raised"} \cup Afterwards
        BY <3>1, <3>4 DEF IInv, Stages, Beforehand, Afterwards, Closing
      <4>2. ledger[s] \in {<<>>, Heard, RowsOf(s)}
        BY <4>1 DEF IInv, LedgersOK
      <4> QED BY <3>2, <4>2
    <3> QED BY <3>3, <3>4
  <2> QED BY <2>2, <2>3, <2>4 DEF IInv, InputsOK, BrokenOK, RegistrationOK, VerdictOK,
                                TypeOK
<1> QED BY <1>1, DemoInvariant, PTL

(* The checks pass only when B accepted and every row is as written, and   *)
(* do pass when nothing was edited (_evaluate_assertions): they miss no    *)
(* edit of an action, an operation or a payload of a row, and report none  *)
(* that was not made.                                                      *)
THEOREM ChecksAreTrue == Spec => []ChecksTellTheTruth
<1>1. IInv => ChecksTellTheTruth
  BY DEF IInv, VerdictOK, ChecksTellTheTruth, AsWritten, FilesAsWritten
<1> QED BY <1>1, DemoInvariant, PTL

(* B's answer is right by both calendars: what is accepted is the first of *)
(* A's slots that suits B, a counter offers slots of B's own when none     *)
(* does, and only a full week is a rejection (configure_agent_b).          *)
THEOREM AnswersSuitBoth == Spec => []AnswerSuitsBoth
<1>1. IInv => AnswerSuitsBoth
  <2> SUFFICES ASSUME IInv, answer # None PROVE AnswerSuitsBoth
    BY DEF AnswerSuitsBoth
  <2>1. answer = Reply /\ proposal = Built /\ InputsOK
    BY DEF IInv, ExchangeOK
  <2>2. proposal.slots = Offer
    BY <2>1 DEF Built, Payload
  <2> QED BY <2>1, <2>2, ReplySuits, Zenon DEF AnswerSuitsBoth
<1> QED BY <1>1, DemoInvariant, PTL

(* B's listener is up, and meant to be, only between the registration of   *)
(* both keys and the closing of what it needs (run_demo's nested try       *)
(* blocks).                                                                *)
THEOREM ListenerIsServed == Spec => []ListenerHasItsResources
<1>1. IInv => ListenerHasItsResources
  <2> SUFFICES ASSUME IInv PROVE ListenerHasItsResources
    OBVIOUS
  <2> USE DEF IInv, ResourcesOK, Stages, Negotiating, Base, Policies, Clients, Ledgers,
              Stores
  <2>1. "directory" \in up => "directory_store" \in up
    BY DEF BrokenOK, Closing
  <2>2. ASSUME "listener_b" \in up \ broken
        PROVE  stage \in Negotiating
    <3>1. stage # "raised"
      BY <2>2, OrderIsThis DEF LeftUp, LeftOver
    <3> QED BY <2>2, <3>1 DEF BrokenOK, Closing
  <2> QED BY <2>1, <2>2 DEF RegistrationOK, ListenerHasItsResources
<1> QED BY <1>1, DemoInvariant, PTL

(* When run_demo has ended, wherever it raised, what is open beyond the    *)
(* ledgers would not close itself or stands behind a closing of the outer  *)
(* finally that raised - or it is the store of a directory that never came *)
(* up.                                                                     *)
THEOREM TeardownLeavesWhatBroke == Spec => []NothingIsLeftUp
<1>1. IInv => NothingIsLeftUp
  BY DEF IInv, ResourcesOK, LeftUp, LeftOver, Ledgers, Ended, NothingIsLeftUp
<1> QED BY <1>1, DemoInvariant, PTL

=============================================================================
