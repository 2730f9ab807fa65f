---------------------- MODULE CascadingRescheduleProofs ----------------------
(***************************************************************************)
(* The cascade for any calendars, request and reasoner: type correctness,  *)
(* Marius accepts Iris's request only after Atlas has accepted the move,   *)
(* whatever is lost and whoever gives up, and a result is backed by the    *)
(* ledgers and shows the calendars agreed on.                              *)
(***************************************************************************)
EXTENDS CascadingReschedule, SequenceTheorems, FiniteSetTheorems, TLAPS

Parties == {"iris", "marius", "atlas"}

-----------------------------------------------------------------------------
(* The inductive invariant *)

Types ==
  /\ reasoner \in Reasoners
  /\ stage \in Stages
  /\ handler \in {"idle", "waiting", "accepted", "raised"}
  /\ listening \subseteq {"marius", "atlas"}
  /\ stores \in {"open", "closed"}
  /\ asked \subseteq 1 .. 2
  /\ answered \in [1 .. 2 -> {None} \cup Payloads]
  /\ proposal \in {None} \cup Proposals
  /\ ledger \in [Parties -> Seq(ResiduesOf(1 .. 2, Payloads))]

(* Marius's handler runs once: Iris's request is out only before it, and   *)
(* the request to Atlas only after it has begun.                           *)
Nesting ==
  /\ stage \in {"start", "start_atlas", "send"} => handler = "idle" /\ asked = {}
  /\ 1 \in asked => handler = "idle"
  /\ 2 \in asked => handler # "idle" /\ answered[2] = None
  /\ 2 \in asked \/ handler \in {"waiting", "accepted"} => proposal \in Proposals
  /\ handler = "idle" => answered = [t \in 1 .. 2 |-> None]

(* What is in the ledgers, by the handlers' progress.                      *)
Ledgers ==
  /\ stage \in {"start", "start_atlas", "send", "wait"} => ledger["iris"] = <<>>
  /\ Len(ledger["iris"]) <= 2
  /\ handler = "idle" => ledger["marius"] = <<>>
  /\ handler \in {"waiting", "raised"} => Len(ledger["marius"]) <= 1
  /\ Len(ledger["marius"]) <= 4
  /\ answered[2] = None => ledger["atlas"] = <<>>
  /\ Len(ledger["atlas"]) <= 2

(* Each acceptance rests on the one below it.                              *)
Acceptances ==
  /\ answered[2] # None => answered[2] = Move /\ Accepted("atlas", 2, Move)
  /\ answered[1] # None => /\ answered[1] = Request
                           /\ answered[2] # None
                           /\ handler = "accepted"
                           /\ Accepted("marius", 1, Request)
  /\ \A p \in {"iris", "marius"} :
       \A i \in 1 .. Len(ledger[p]) :
         ledger[p][i].task = 1 /\ ledger[p][i].operation = "acceptance"
           => ledger[p][i].payload = Request /\ answered[1] # None

IInv == Types /\ Nesting /\ Ledgers /\ Acceptances

-----------------------------------------------------------------------------
(* Terms, moves and ledgers *)

MariusEvents ==
  [start     : Nat,
   duration  : Nat,
   title     : {MariusCalendar[i].title : i \in DOMAIN MariusCalendar},
   attendees : SUBSET UNION {MariusCalendar[i].attendees :
                               i \in DOMAIN MariusCalendar}]

LEMMA MariusHasEvents ==
  /\ DOMAIN MariusCalendar = 1 .. Len(MariusCalendar)
  /\ \A i \in DOMAIN MariusCalendar : MariusCalendar[i] \in MariusEvents
<1>1. MariusCalendar \in Seq(MariusEvents)
  BY CascadeAssumption DEF IsCalendar, MariusEvents
<1> QED BY <1>1, LenProperties, ElementOfSeq

LEMMA DurationIsNat == MovedDuration \in Nat
<1> DEFINE blocking == {k \in DOMAIN MariusCalendar :
                          /\ MariusCalendar[k].start = Request.slot
                          /\ \A j \in 1 .. k - 1 :
                               ~ (MariusCalendar[j].start = Request.slot)}
<1>1. MovedDuration = IF blocking = {} THEN DefaultDuration
                      ELSE MariusCalendar[CHOOSE i \in blocking : TRUE].duration
  BY DEF MovedDuration, First
<1>2. CASE blocking = {}
  BY <1>1, <1>2 DEF DefaultDuration
<1>3. CASE blocking # {}
  <2> DEFINE i == CHOOSE k \in blocking : TRUE
  <2>1. i \in blocking
    BY <1>3
  <2>2. i \in DOMAIN MariusCalendar
    BY <2>1
  <2> HIDE DEF i
  <2>3. MariusCalendar[i].duration \in Nat
    BY <2>2, MariusHasEvents DEF MariusEvents
  <2> QED BY <1>1, <1>3, <2>3 DEF i
<1> QED BY <1>2, <1>3

LEMMA PayloadsAreTerms ==
  /\ Request \in Payloads
  /\ \A terms \in Payloads : terms # None
  /\ proposal \in Proposals => Move \in Payloads
<1>1. Request \in Terms
  BY CascadeAssumption DEF Terms, Slots
<1>2. [slot : Slots, duration : {MovedDuration}] \subseteq Terms
  BY DurationIsNat DEF Terms
<1> QED BY <1>1, <1>2, CascadeAssumption DEF Payloads, Move, Proposals

(* What a reasoner may answer is a proposal.                               *)
LEMMA ReasonersPropose == PossibleProposals \subseteq Proposals
<1>1. ASSUME NEW p \in ScriptedProposals PROVE p \in Proposals
  <2>1. PICK i \in DOMAIN MariusCalendar, j \in DOMAIN AtlasFreeSlots :
          p = [slot |-> AtlasFreeSlots[j], title |-> MariusCalendar[i].title]
    BY DEF ScriptedProposals, First
  <2> QED BY <2>1 DEF Proposals, Slots, Titles
<1> QED BY <1>1 DEF PossibleProposals

(* A ledger that grows by one residue.                                     *)
LEMMA Logged ==
  ASSUME NEW S, NEW entries \in Seq(S), NEW residue \in S
  PROVE  /\ Append(entries, residue) \in Seq(S)
         /\ Len(Append(entries, residue)) = Len(entries) + 1
         /\ \A i \in 1 .. Len(entries) : Append(entries, residue)[i] = entries[i]
         /\ Append(entries, residue)[Len(entries) + 1] = residue
BY AppendProperties

LEMMA InitIInv == Init => IInv
<1> SUFFICES ASSUME Init PROVE IInv
  OBVIOUS
<1>1. ledger \in [Parties -> Seq(ResiduesOf(1 .. 2, Payloads))]
      /\ \A p \in Parties : ledger[p] = <<>>
  BY EmptySeq DEF Init, Parties
<1>2. Types
  BY <1>1 DEF Init, Types, Stages
<1>3. Nesting
  BY DEF Init, Nesting
<1>4. Ledgers /\ Acceptances
  BY <1>1 DEF Init, Ledgers, Acceptances, Parties
<1> QED BY <1>2, <1>3, <1>4 DEF IInv

(* Steps that touch neither answers, proposal nor ledgers keep the         *)
(* acceptances.                                                            *)
LEMMA AcceptancesStay ==
  ASSUME IInv, UNCHANGED <<handler, answered, proposal, ledger>>
  PROVE  Acceptances'
<1>1. UNCHANGED Move /\ \A p, t, terms : Accepted(p, t, terms)' = Accepted(p, t, terms)
  BY DEF Move, Accepted
<1> QED BY <1>1 DEF IInv, Acceptances

LEMMA StartPreserves ==
  ASSUME IInv,
         \/ StartListener("start", "marius", "start_atlas")
         \/ StartListener("start_atlas", "atlas", "send")
  PROVE  IInv'
<1>1. /\ stage \in {"start", "start_atlas"}
      /\ stage' \in {"start_atlas", "send", "raised"}
      /\ listening' \subseteq {"marius", "atlas"}
      /\ UNCHANGED <<reasoner, handler, stores, asked, answered, proposal,
                     ledger, result>>
  BY DEF StartListener, IInv, Types
<1>2. Types'
  BY <1>1 DEF IInv, Types, Stages
<1>3. Nesting' /\ Ledgers'
  BY <1>1 DEF IInv, Nesting, Ledgers
<1> QED BY <1>1, <1>2, <1>3, AcceptancesStay DEF IInv

LEMMA IrisSendsPreserves == IInv /\ IrisSends => IInv'
<1> SUFFICES ASSUME IInv, IrisSends PROVE IInv'
  OBVIOUS
<1>1. /\ stage = "send" /\ stage' = "wait" /\ asked' = {1}
      /\ UNCHANGED <<reasoner, handler, listening, stores, answered, proposal,
                     ledger, result>>
  BY DEF IrisSends
<1>2. Types'
  BY <1>1 DEF IInv, Types, Stages
<1>3. Nesting' /\ Ledgers'
  BY <1>1 DEF IInv, Nesting, Ledgers
<1> QED BY <1>1, <1>2, <1>3, AcceptancesStay DEF IInv

LEMMA MariusHandlesPreserves == IInv /\ MariusHandles => IInv'
<1> SUFFICES ASSUME IInv, MariusHandles PROVE IInv'
  OBVIOUS
<1> DEFINE R == ResiduesOf(1 .. 2, Payloads)
           r == Residue("receive", "proposal", 1, Request)
<1>1. /\ handler = "idle" /\ answered = [t \in 1 .. 2 |-> None]
      /\ ledger["marius"] = <<>> /\ ledger["atlas"] = <<>>
      /\ stage \notin {"start", "start_atlas", "send"}
  BY DEF MariusHandles, IInv, Nesting, Ledgers
<1>2. r \in R /\ ledger["marius"] \in Seq(R)
  BY PayloadsAreTerms DEF IInv, Types, Residue, ResiduesOf, Parties
<1>3. ledger' = [ledger EXCEPT !["marius"] = Append(ledger["marius"], r)]
  BY DEF MariusHandles, LogReceived
<1>4. /\ UNCHANGED <<reasoner, stage, listening, stores, result>>
      /\ answered' = answered
      /\ \/ /\ handler' = "waiting" /\ asked' = {2}
            /\ proposal' \in Proposals
         \/ /\ handler' = "raised" /\ asked' = {}
            /\ proposal' = proposal
  BY ReasonersPropose DEF MariusHandles
<1> HIDE DEF R, r
<1>5. /\ ledger' \in [Parties -> Seq(R)]
      /\ ledger'["iris"] = ledger["iris"] /\ ledger'["atlas"] = ledger["atlas"]
      /\ ledger'["marius"] \in Seq(R)
      /\ Len(ledger'["marius"]) = 1 /\ ledger'["marius"][1] = r
  BY <1>1, <1>2, <1>3, Logged DEF IInv, Types, Parties, R
<1>6. Types'
  BY <1>4, <1>5 DEF IInv, Types, R
<1>7. Nesting'
  BY <1>1, <1>4 DEF Nesting
<1>8. Ledgers'
  BY <1>1, <1>4, <1>5 DEF IInv, Ledgers
<1>9. Acceptances'
  <2>1. \A i \in 1 .. Len(ledger'["marius"]) :
          ledger'["marius"][i].operation = "proposal"
    BY <1>5 DEF r, Residue
  <2>2. answered'[1] = None /\ answered'[2] = None
    BY <1>1, <1>4
  <2> QED BY <1>4, <1>5, <2>1, <2>2 DEF IInv, Acceptances
<1> QED BY <1>6, <1>7, <1>8, <1>9 DEF IInv

LEMMA AtlasServesPreserves == IInv /\ AtlasServes => IInv'
<1> SUFFICES ASSUME IInv, AtlasServes PROVE IInv'
  OBVIOUS
<1> DEFINE R == ResiduesOf(1 .. 2, Payloads)
           r1 == Residue("receive", "proposal", 2, Move)
           r2 == Residue("emit", "acceptance", 2, Move)
<1>1. /\ handler # "idle" /\ answered[2] = None /\ answered[1] = None
      /\ proposal \in Proposals /\ ledger["atlas"] = <<>>
      /\ stage \notin {"start", "start_atlas", "send"}
  BY DEF AtlasServes, IInv, Nesting, Ledgers, Acceptances
<1>2. Move \in Payloads /\ Move # None
  BY <1>1, PayloadsAreTerms
<1>3. r1 \in R /\ r2 \in R /\ ledger["atlas"] \in Seq(R)
  BY <1>2 DEF IInv, Types, Residue, ResiduesOf, Parties
<1>4. /\ ledger' = [ledger EXCEPT !["atlas"] =
                      Append(Append(ledger["atlas"], r1), r2)]
      /\ asked' = {} /\ answered' = [answered EXCEPT ![2] = Move]
      /\ UNCHANGED <<reasoner, stage, handler, listening, stores, proposal, result>>
  BY DEF AtlasServes, LogReceived, LogAnswered
<1> HIDE DEF R, r1, r2
<1>5. /\ Append(ledger["atlas"], r1) \in Seq(R)
      /\ Len(Append(ledger["atlas"], r1)) = 1
  BY <1>1, <1>3, Logged
<1>6. /\ ledger' \in [Parties -> Seq(R)]
      /\ ledger'["iris"] = ledger["iris"] /\ ledger'["marius"] = ledger["marius"]
      /\ ledger'["atlas"] \in Seq(R)
      /\ Len(ledger'["atlas"]) = 2 /\ ledger'["atlas"][2] = r2
  BY <1>3, <1>4, <1>5, Logged DEF IInv, Types, Parties, R
<1>7. /\ answered' \in [1 .. 2 -> {None} \cup Payloads]
      /\ answered'[2] = Move /\ answered'[1] = None
  BY <1>1, <1>2, <1>4 DEF IInv, Types
<1>8. Types'
  BY <1>4, <1>6, <1>7 DEF IInv, Types, R
<1>9. Nesting'
  BY <1>1, <1>4 DEF IInv, Nesting
<1>10. Ledgers'
  BY <1>2, <1>4, <1>6, <1>7 DEF IInv, Ledgers
<1>11. Acceptances'
  <2>1. Move' = Move
    BY <1>4 DEF Move
  <2>2. Accepted("atlas", 2, Move)'
    BY <1>6, <2>1 DEF Accepted, r2
  <2> QED BY <1>1, <1>4, <1>6, <1>7, <2>1, <2>2 DEF IInv, Acceptances
<1> QED BY <1>8, <1>9, <1>10, <1>11 DEF IInv

LEMMA MariusAcceptsPreserves == IInv /\ MariusAccepts => IInv'
<1> SUFFICES ASSUME IInv, MariusAccepts PROVE IInv'
  OBVIOUS
<1> DEFINE R == ResiduesOf(1 .. 2, Payloads)
           m == ledger["marius"]
           r1 == Residue("emit", "proposal", 2, Move)
           r2 == Residue("receive", "acceptance", 2, answered[2])
           r3 == Residue("emit", "acceptance", 1, Request)
           m1 == Append(m, r1)
           m2 == Append(m1, r2)
           m3 == Append(m2, r3)
<1>1. /\ handler = "waiting" /\ answered[2] = Move /\ answered[1] = None
      /\ answered[2] # None /\ Len(m) <= 1
      /\ stage \notin {"start", "start_atlas", "send"}
      /\ proposal \in Proposals
  BY DEF MariusAccepts, IInv, Nesting, Ledgers, Acceptances
<1>2. r1 \in R /\ r2 \in R /\ r3 \in R /\ m \in Seq(R)
  BY <1>1, PayloadsAreTerms DEF IInv, Types, Residue, ResiduesOf, Parties
<1>3. /\ ledger' = [ledger EXCEPT !["marius"] = m3]
      /\ answered' = [answered EXCEPT ![1] = Request]
      /\ handler' = "accepted"
      /\ UNCHANGED <<reasoner, stage, listening, stores, asked, proposal, result>>
  BY DEF MariusAccepts, AcceptedTerms, LogSent, LogAnswered
<1>4. /\ r1.operation = "proposal" /\ r2.task = 2
      /\ r3 = Residue("emit", "acceptance", 1, Request) /\ r3.payload = Request
  BY DEF Residue
<1> HIDE DEF R, m, r1, r2, r3
<1>5. m1 \in Seq(R) /\ m2 \in Seq(R) /\ m3 \in Seq(R)
  BY <1>2
<1>6. /\ Len(m1) = Len(m) + 1 /\ Len(m2) = Len(m1) + 1 /\ Len(m3) = Len(m2) + 1
      /\ \A i \in 1 .. Len(m) : m1[i] = m[i]
      /\ \A i \in 1 .. Len(m1) : m2[i] = m1[i]
      /\ \A i \in 1 .. Len(m2) : m3[i] = m2[i]
      /\ m1[Len(m) + 1] = r1 /\ m2[Len(m1) + 1] = r2 /\ m3[Len(m2) + 1] = r3
  BY <1>2, <1>5, Logged
<1> HIDE DEF m1, m2, m3
<1>7. Len(m) \in Nat
  BY <1>2
<1>8. \A i \in 1 .. Len(m3) :
        \/ i \in 1 .. Len(m) /\ m3[i] = m[i]
        \/ m3[i] \in {r1, r2, r3}
  BY <1>6, <1>7
<1>9. Len(m3) <= 4 /\ Len(m3) \in 1 .. Len(m3) /\ m3[Len(m3)] = r3
  BY <1>1, <1>6, <1>7
<1>10. /\ ledger' \in [Parties -> Seq(R)] /\ ledger'["marius"] = m3
       /\ ledger'["iris"] = ledger["iris"] /\ ledger'["atlas"] = ledger["atlas"]
  BY <1>3, <1>5 DEF IInv, Types, Parties, R
<1>11. /\ answered' \in [1 .. 2 -> {None} \cup Payloads]
       /\ answered'[1] = Request /\ answered'[2] = answered[2]
  BY <1>3, PayloadsAreTerms DEF IInv, Types
<1>12. Types'
  BY <1>3, <1>10, <1>11 DEF IInv, Types, R
<1>13. Nesting'
  BY <1>1, <1>3, <1>11 DEF IInv, Nesting
<1>14. Ledgers'
  BY <1>1, <1>3, <1>9, <1>10, <1>11 DEF IInv, Ledgers
<1>15. Acceptances'
  <2>1. Move' = Move
    BY <1>3 DEF Move
  <2>2. Accepted("atlas", 2, Move)'
    BY <1>1, <1>10, <2>1 DEF Accepted, IInv, Acceptances
  <2>3. Accepted("marius", 1, Request)'
    BY <1>4, <1>5, <1>9, <1>10 DEF Accepted
  <2>4. \A i \in 1 .. Len(m3) :
          m3[i].task = 1 /\ m3[i].operation = "acceptance" =>
            m3[i].payload = Request
    BY <1>4, <1>8 DEF IInv, Acceptances, m
  <2>5. Request # None
    BY PayloadsAreTerms
  <2>6. \A i \in 1 .. Len(ledger["iris"]) :
          ledger["iris"][i].task = 1 /\ ledger["iris"][i].operation = "acceptance"
            => ledger["iris"][i].payload = Request
    BY DEF IInv, Acceptances
  <2> QED BY <1>1, <1>3, <1>10, <1>11, <2>1, <2>2, <2>3, <2>4, <2>5, <2>6
          DEF Acceptances
<1> QED BY <1>12, <1>13, <1>14, <1>15 DEF IInv

LEMMA MariusRaisesPreserves == IInv /\ MariusRaises => IInv'
<1> SUFFICES ASSUME IInv, MariusRaises PROVE IInv'
  OBVIOUS
<1>1. /\ handler = "waiting" /\ handler' = "raised"
      /\ UNCHANGED <<reasoner, stage, listening, stores, asked, answered,
                     proposal, ledger, result>>
  BY DEF MariusRaises
<1>2. Types' /\ Nesting' /\ Ledgers'
  BY <1>1 DEF IInv, Types, Nesting, Ledgers
<1>3. Acceptances'
  <2>1. UNCHANGED Move /\ \A p, t, terms : Accepted(p, t, terms)' = Accepted(p, t, terms)
    BY <1>1 DEF Move, Accepted
  <2> QED BY <1>1, <2>1 DEF IInv, Acceptances
<1> QED BY <1>2, <1>3 DEF IInv

LEMMA IrisReturnsPreserves == IInv /\ IrisReturns => IInv'
<1> SUFFICES ASSUME IInv, IrisReturns PROVE IInv'
  OBVIOUS
<1>1. /\ stage = "wait"
      /\ UNCHANGED <<reasoner, handler, listening, stores, asked, answered,
                     proposal, result>>
  BY DEF IrisReturns
<1>2. CASE stage' = "abandon" /\ UNCHANGED ledger
  <2>1. Types' /\ Nesting' /\ Ledgers'
    BY <1>1, <1>2 DEF IInv, Types, Stages, Nesting, Ledgers
  <2> QED BY <1>1, <1>2, <2>1, AcceptancesStay DEF IInv
<1>3. CASE /\ answered[1] # None /\ stage' = "stop"
           /\ ledger' = [ledger EXCEPT !["iris"] =
                           LogSent(@, 1, Request, answered[1])]
  <2> DEFINE R == ResiduesOf(1 .. 2, Payloads)
             r1 == Residue("emit", "proposal", 1, Request)
             r2 == Residue("receive", "acceptance", 1, Request)
             i1 == Append(ledger["iris"], r1)
             i2 == Append(i1, r2)
  <2>1. /\ answered[1] = Request /\ ledger["iris"] = <<>>
        /\ handler = "accepted" /\ answered[2] # None
    BY <1>1, <1>3 DEF IInv, Acceptances, Ledgers
  <2>2. r1 \in R /\ r2 \in R /\ ledger["iris"] \in Seq(R)
    BY PayloadsAreTerms DEF IInv, Types, Residue, ResiduesOf, Parties
  <2>3. ledger' = [ledger EXCEPT !["iris"] = i2]
    BY <1>3, <2>1 DEF LogSent
  <2>4. r1.operation = "proposal" /\ r2.payload = Request
    BY DEF Residue
  <2> HIDE DEF R, r1, r2
  <2>5. /\ i1 \in Seq(R) /\ i2 \in Seq(R)
    BY <2>2
  <2>6. Len(i1) = 1 /\ Len(i2) = 2 /\ i2[1] = r1 /\ i2[2] = r2
    BY <2>1, <2>2, <2>5, Logged
  <2> HIDE DEF i1, i2
  <2>7. /\ ledger' \in [Parties -> Seq(R)] /\ ledger'["iris"] = i2
        /\ ledger'["marius"] = ledger["marius"]
        /\ ledger'["atlas"] = ledger["atlas"]
    BY <2>3, <2>5 DEF IInv, Types, Parties, R
  <2>8. Types' /\ Nesting'
    BY <1>1, <1>3, <2>7 DEF IInv, Types, Stages, Nesting, R
  <2>9. Ledgers'
    <3>1. /\ Len(ledger'["iris"]) = 2 /\ stage' = "stop"
          /\ UNCHANGED <<handler, answered>>
      BY <1>1, <1>3, <2>6, <2>7
    <3>2. /\ handler = "idle" => ledger["marius"] = <<>>
          /\ handler \in {"waiting", "raised"} => Len(ledger["marius"]) <= 1
          /\ Len(ledger["marius"]) <= 4
          /\ answered[2] = None => ledger["atlas"] = <<>>
          /\ Len(ledger["atlas"]) <= 2
      BY DEF IInv, Ledgers
    <3> QED BY <2>7, <3>1, <3>2 DEF Ledgers
  <2>10. Acceptances'
    <3>1. UNCHANGED Move
      BY <1>1 DEF Move
    <3>2. /\ Accepted("atlas", 2, Move)'
          /\ Accepted("marius", 1, Request)'
      BY <1>1, <1>3, <2>1, <2>7, <3>1 DEF Accepted, IInv, Acceptances
    <3>3. \A i \in 1 .. Len(i2) :
            i2[i].task = 1 /\ i2[i].operation = "acceptance" =>
              i2[i].payload = Request
      BY <2>4, <2>6
    <3> QED BY <1>1, <1>3, <2>1, <2>7, <3>1, <3>2, <3>3 DEF IInv, Acceptances
  <2> QED BY <2>8, <2>9, <2>10 DEF IInv
<1> QED BY <1>2, <1>3 DEF IrisReturns

LEMMA StopPreserves ==
  ASSUME IInv,
         \/ StopListener("stop", "marius", 1, "stop_atlas")
         \/ StopListener("stop_atlas", "atlas", 2, "report")
         \/ StopListener("abandon", "marius", 1, "abandon_atlas")
         \/ StopListener("abandon_atlas", "atlas", 2, "raised")
  PROVE  IInv'
<1>1. /\ stage \in {"stop", "stop_atlas", "abandon", "abandon_atlas"}
      /\ stage' \in {"stop_atlas", "report", "abandon_atlas", "raised"}
      /\ listening' \subseteq listening /\ asked' \subseteq asked
      /\ UNCHANGED <<reasoner, handler, stores, answered, proposal, ledger,
                     result>>
  BY DEF StopListener
<1>2. Types'
  BY <1>1 DEF IInv, Types, Stages
<1>3. Nesting' /\ Ledgers'
  BY <1>1 DEF IInv, Nesting, Ledgers
<1> QED BY <1>1, <1>2, <1>3, AcceptancesStay DEF IInv

LEMMA ReportPreserves == IInv /\ Report => IInv'
<1> SUFFICES ASSUME IInv, Report PROVE IInv'
  OBVIOUS
<1>1. /\ stage = "report" /\ stage' = "done" /\ stores' = "closed"
      /\ UNCHANGED <<reasoner, handler, listening, asked, answered, proposal,
                     ledger>>
  BY DEF Report
<1>2. Types' /\ Nesting' /\ Ledgers'
  BY <1>1 DEF IInv, Types, Stages, Nesting, Ledgers
<1> QED BY <1>1, <1>2, AcceptancesStay DEF IInv

LEMMA StutterPreserves == IInv /\ UNCHANGED vars => IInv'
<1> SUFFICES ASSUME IInv, UNCHANGED vars PROVE IInv'
  OBVIOUS
<1>1. Types' /\ Nesting' /\ Ledgers'
  BY DEF vars, IInv, Types, Nesting, Ledgers
<1> QED BY <1>1, AcceptancesStay DEF vars, IInv

LEMMA NextIInv == IInv /\ [Next]_vars => IInv'
BY StartPreserves, IrisSendsPreserves, MariusHandlesPreserves,
   AtlasServesPreserves, MariusAcceptsPreserves, MariusRaisesPreserves,
   IrisReturnsPreserves, StopPreserves, ReportPreserves, StutterPreserves
DEF Next, HandlersNext

-----------------------------------------------------------------------------
(* The theorems *)

(* The invariant holds in every reachable state (run_cascading and its     *)
(* nested handlers).                                                       *)
THEOREM CascadeInvariant == Spec => []IInv
BY InitIInv, NextIInv, PTL DEF Spec

(* Every variable of the cascade keeps its type, and the ledgers never     *)
(* hold more than the residues of the two exchanges (run_cascading).       *)
THEOREM TypeCorrect == Spec => []TypeOK
<1>1. IInv => TypeOK
  <2> SUFFICES ASSUME IInv PROVE TypeOK
    OBVIOUS
  <2>1. DOMAIN ledger = Parties
    BY DEF IInv, Types
  <2>2. \A p \in Parties :
          /\ ledger[p] \in Seq(ResiduesOf(1 .. 2, Payloads))
          /\ Len(ledger[p]) <= (IF p = "marius" THEN 4 ELSE 2)
    BY DEF IInv, Types, Ledgers, Parties
  <2> QED BY <2>1, <2>2 DEF IInv, Types, TypeOK
<1> QED BY <1>1, CascadeInvariant, PTL

(* Marius accepts only what was asked, and only after Atlas has accepted   *)
(* the move that makes room for it: an acceptance of Iris's request in any *)
(* ledger rests on the other two, whichever send is lost or given up       *)
(* (marius_handler).                                                       *)
THEOREM MariusAcceptsAfterAtlas == Spec => []AcceptsAfterAtlas
<1>1. IInv => AcceptsAfterAtlas
  <2> SUFFICES ASSUME IInv,
                      NEW p \in {"iris", "marius"}, NEW i \in DOMAIN ledger[p],
                      ledger[p][i].task = 1,
                      ledger[p][i].operation = "acceptance"
               PROVE  /\ ledger[p][i].payload = Request
                      /\ Accepted("atlas", 2, Move)
                      /\ Accepted("marius", 1, Request)
    BY DEF AcceptsAfterAtlas
  <2>1. ledger[p] \in Seq(ResiduesOf(1 .. 2, Payloads))
    BY DEF IInv, Types, Parties
  <2>2. i \in 1 .. Len(ledger[p])
    BY <2>1
  <2>3. ledger[p][i].payload = Request /\ answered[1] # None
    BY <2>2 DEF IInv, Acceptances
  <2> QED BY <2>3 DEF IInv, Acceptances
<1> QED BY <1>1, CascadeInvariant, PTL

-----------------------------------------------------------------------------
(* Short sequences, entry by entry *)

(* A sequence of two or of four entries is their tuple.                    *)
LEMMA TwoEntries ==
  ASSUME NEW S, NEW s \in Seq(S), Len(s) = 2
  PROVE  s = <<s[1], s[2]>>
<1>1. s \in [1 .. 2 -> S]
  BY LenProperties
<1> QED BY <1>1

LEMMA FourEntries ==
  ASSUME NEW S, NEW s \in Seq(S), Len(s) = 4
  PROVE  s = <<s[1], s[2], s[3], s[4]>>
<1>1. s \in [1 .. 4 -> S]
  BY LenProperties
<1> QED BY <1>1

LEMMA TwoAppended ==
  ASSUME NEW a, NEW b
  PROVE  Append(Append(<<>>, a), b) = <<a, b>>
<1> DEFINE S == {a, b}
           s == Append(<<>>, a)
           t == Append(s, b)
<1>1. <<>> \in Seq(S) /\ Len(<<>>) = 0 /\ a \in S /\ b \in S
  BY EmptySeq
<1> HIDE DEF S
<1>2. s \in Seq(S) /\ Len(s) = 1 /\ s[1] = a
  BY <1>1, Logged
<1> HIDE DEF s
<1>3. t \in Seq(S) /\ Len(t) = 2 /\ t[1] = a /\ t[2] = b
  <2>1. /\ Append(s, b) \in Seq(S)
        /\ Len(Append(s, b)) = Len(s) + 1
        /\ \A i \in 1 .. Len(s) : Append(s, b)[i] = s[i]
        /\ Append(s, b)[Len(s) + 1] = b
    BY <1>1, <1>2, Logged
  <2> QED BY <1>2, <2>1
<1> HIDE DEF t
<1>4. t = <<t[1], t[2]>>
  BY <1>3, TwoEntries
<1> QED BY <1>3, <1>4 DEF s, t

LEMMA ThreeAppended ==
  ASSUME NEW a, NEW b, NEW c, NEW d
  PROVE  Append(Append(Append(<<a>>, b), c), d) = <<a, b, c, d>>
<1> DEFINE S == {a, b, c, d}
           s == Append(<<a>>, b)
           t == Append(s, c)
           u == Append(t, d)
<1>1. /\ <<a>> \in Seq(S) /\ Len(<<a>>) = 1 /\ <<a>>[1] = a
      /\ b \in S /\ c \in S /\ d \in S
  OBVIOUS
<1> HIDE DEF S
<1>2. s \in Seq(S) /\ Len(s) = 2 /\ s[1] = a /\ s[2] = b
  BY <1>1, Logged
<1> HIDE DEF s
<1>3. t \in Seq(S) /\ Len(t) = 3 /\ t[1] = a /\ t[2] = b /\ t[3] = c
  <2>1. /\ Append(s, c) \in Seq(S)
        /\ Len(Append(s, c)) = Len(s) + 1
        /\ \A i \in 1 .. Len(s) : Append(s, c)[i] = s[i]
        /\ Append(s, c)[Len(s) + 1] = c
    BY <1>1, <1>2, Logged
  <2> QED BY <1>2, <2>1
<1> HIDE DEF t
<1>4. /\ u \in Seq(S) /\ Len(u) = 4
      /\ u[1] = a /\ u[2] = b /\ u[3] = c /\ u[4] = d
  <2>1. /\ Append(t, d) \in Seq(S)
        /\ Len(Append(t, d)) = Len(t) + 1
        /\ \A i \in 1 .. Len(t) : Append(t, d)[i] = t[i]
        /\ Append(t, d)[Len(t) + 1] = d
    BY <1>1, <1>3, Logged
  <2> QED BY <1>3, <2>1
<1> HIDE DEF u
<1>5. u = <<u[1], u[2], u[3], u[4]>>
  BY <1>4, FourEntries
<1> QED BY <1>4, <1>5 DEF s, t, u

(* The first and the last of four entries, and the two between them.       *)
LEMMA Parts ==
  ASSUME NEW a, NEW b, NEW c, NEW d
  PROVE  /\ SubSeq(<<a, b, c, d>>, 1, 1) \o SubSeq(<<a, b, c, d>>, 4, 4) = <<a, d>>
         /\ SubSeq(<<a, b, c, d>>, 2, 3) = <<b, c>>
<1> DEFINE m == <<a, b, c, d>>
           S == {a, b, c, d}
           first == SubSeq(m, 1, 1)
           last == SubSeq(m, 4, 4)
           outer == first \o last
           inner == SubSeq(m, 2, 3)
<1>1. /\ m[1] = a /\ m[2] = b /\ m[3] = c /\ m[4] = d
      /\ \A i \in 1 .. 4 : m[i] \in S
  OBVIOUS
<1> HIDE DEF m, S
<1>2. /\ first \in Seq(S) /\ Len(first) = 1
      /\ \A i \in 1 .. 1 - 1 + 1 : first[i] = m[1 + i - 1]
  BY <1>1, SubSeqProperties
<1>3. /\ last \in Seq(S) /\ Len(last) = 1
      /\ \A i \in 1 .. 4 - 4 + 1 : last[i] = m[4 + i - 1]
  BY <1>1, SubSeqProperties
<1>4. /\ inner \in Seq(S) /\ Len(inner) = 2
      /\ \A i \in 1 .. 3 - 2 + 1 : inner[i] = m[2 + i - 1]
  BY <1>1, SubSeqProperties
<1>5. /\ first[1] = a /\ last[1] = d /\ inner[1] = b /\ inner[2] = c
  BY <1>1, <1>2, <1>3, <1>4
<1> HIDE DEF first, last, inner
<1>6. outer \in Seq(S) /\ Len(outer) = 2 /\ outer[1] = a /\ outer[2] = d
  BY <1>2, <1>3, <1>5, ConcatProperties
<1> HIDE DEF outer
<1>7. outer = <<outer[1], outer[2]>> /\ inner = <<inner[1], inner[2]>>
  BY <1>4, <1>6, TwoEntries
<1> QED BY <1>5, <1>6, <1>7 DEF first, last, outer, inner, m

-----------------------------------------------------------------------------
(* What backs a result *)

Asks == Residue("receive", "proposal", 1, Request)

IrisEntries ==
  <<Residue("emit", "proposal", 1, Request),
    Residue("receive", "acceptance", 1, Request)>>

MariusEntries ==
  <<Asks, Residue("emit", "proposal", 2, Move),
    Residue("receive", "acceptance", 2, Move),
    Residue("emit", "acceptance", 1, Request)>>

AtlasEntries ==
  <<Residue("receive", "proposal", 2, Move),
    Residue("emit", "acceptance", 2, Move)>>

Returned == stage \in {"stop", "stop_atlas", "report", "done"}

(* Every ledger holds the entries of what its owner has done, in order.    *)
EntriesLogged ==
  /\ Returned => ledger["iris"] = IrisEntries /\ answered[1] # None
  /\ handler = "waiting" => ledger["marius"] = <<Asks>>
  /\ handler = "accepted" => /\ ledger["marius"] = MariusEntries
                             /\ answered[2] # None
  /\ answered[2] # None => ledger["atlas"] = AtlasEntries

(* What Marius proposes to Atlas, his reasoner can make.                   *)
Proposed == handler \in {"waiting", "accepted"} => proposal \in PossibleProposals

(* What Report draws up.                                                   *)
ResultNow ==
  [ledgers   |-> [iris |-> IrisEntries, marius |-> MariusEntries,
                  atlas |-> AtlasEntries],
   exchanges |-> ExchangesFrom(IrisEntries, MariusEntries, AtlasEntries),
   after     |-> CalendarsAfter]

Reported == result # None => stage = "done" /\ result = ResultNow

Backed == EntriesLogged /\ Proposed /\ Reported

-----------------------------------------------------------------------------
(* What backs a result is an invariant *)

(* The entries of some tasks, when all of them are.                        *)
LEMMA AllByTasks ==
  ASSUME NEW S, NEW s \in Seq(S), NEW tasks,
         \A i \in 1 .. Len(s) : s[i].task \in tasks
  PROVE  ByTasks(s, tasks) = s
<1> DEFINE mine == {i \in DOMAIN s : s[i].task \in tasks}
           Rank(i) == Cardinality({j \in mine : j <= i})
<1>1. mine = 1 .. Len(s) /\ Len(s) \in Nat
  BY LenProperties
<1>2. ByTasks(s, tasks) = [n \in 1 .. Cardinality(mine) |->
                             s[CHOOSE i \in mine : Rank(i) = n]]
  BY DEF ByTasks
<1> HIDE DEF mine
<1>3. Cardinality(mine) = Len(s)
  <2>1. Cardinality(1 .. Len(s)) = IF 1 > Len(s) THEN 0 ELSE Len(s) - 1 + 1
    BY <1>1, FS_Interval
  <2> QED BY <1>1, <2>1
<1>4. ASSUME NEW i \in mine PROVE Rank(i) = i
  <2>1. {j \in mine : j <= i} = 1 .. i /\ i \in Nat /\ 1 <= i
    BY <1>1
  <2>2. Cardinality(1 .. i) = IF 1 > i THEN 0 ELSE i - 1 + 1
    BY <2>1, FS_Interval
  <2>3. Cardinality(1 .. i) = i
    BY <2>1, <2>2
  <2> QED BY <2>1, <2>3
<1> HIDE DEF Rank
<1>5. ASSUME NEW n \in 1 .. Len(s)
      PROVE  (CHOOSE i \in mine : Rank(i) = n) = n
  BY <1>1, <1>4
<1>6. s = [n \in 1 .. Len(s) |-> s[n]]
  BY LenProperties
<1> QED BY <1>2, <1>3, <1>5, <1>6

LEMMA InitBacked == Init => Backed
BY DEF Init, Backed, EntriesLogged, Returned, Proposed, Reported

(* Before the report there is no result.                                   *)
LEMMA NoResultYet == Backed /\ stage # "done" => result = None
BY DEF Backed, Reported

(* Move and the entries that speak of it stay as long as the proposal does. *)
LEMMA EntriesStay ==
  UNCHANGED proposal =>
    UNCHANGED <<Move, IrisEntries, MariusEntries, AtlasEntries, CalendarsAfter>>
BY DEF Move, Asks, IrisEntries, MariusEntries, AtlasEntries, CalendarsAfter

LEMMA ResultStays == UNCHANGED proposal => UNCHANGED ResultNow
BY EntriesStay DEF ResultNow

(* A step that logs nothing.                                               *)
LEMMA NothingLogged ==
  ASSUME Backed, UNCHANGED <<reasoner, answered, proposal, ledger, result>>,
         handler' \in {handler, "raised"}, Returned' => Returned,
         result # None => stage' = "done"
  PROVE  Backed'
<1>1. EntriesLogged'
  BY EntriesStay DEF Backed, EntriesLogged
<1>2. Proposed'
  BY DEF Backed, Proposed, PossibleProposals
<1>3. Reported'
  BY ResultStays DEF Backed, Reported
<1> QED BY <1>1, <1>2, <1>3 DEF Backed

LEMMA MariusHandlesBacked == IInv /\ Backed /\ MariusHandles => Backed'
<1> SUFFICES ASSUME IInv, Backed, MariusHandles PROVE Backed'
  OBVIOUS
<1>1. /\ handler = "idle" /\ answered = [t \in 1 .. 2 |-> None]
      /\ ledger["marius"] = <<>> /\ ~ Returned
  BY DEF MariusHandles, IInv, Nesting, Ledgers, Backed, EntriesLogged
<1>2. /\ ledger' = [ledger EXCEPT !["marius"] = Append(ledger["marius"], Asks)]
      /\ UNCHANGED <<reasoner, stage, listening, stores, result, answered>>
      /\ handler' \in {"waiting", "raised"}
  BY DEF MariusHandles, LogReceived, Asks
<1>3. ledger'["marius"] = <<Asks>>
  <2>1. Append(<<>>, Asks) = <<Asks>>
    OBVIOUS
  <2> QED BY <1>1, <1>2, <2>1 DEF IInv, Types, Parties
<1>4. EntriesLogged'
  <2>1. ~ Returned'
    BY <1>1, <1>2 DEF Returned
  <2>2. UNCHANGED Asks
    BY DEF Asks
  <2> QED BY <1>1, <1>2, <1>3, <2>1, <2>2 DEF EntriesLogged
<1>5. Proposed'
  <2>1. UNCHANGED PossibleProposals
    BY <1>2 DEF PossibleProposals
  <2>2. handler' = "waiting" => proposal' \in PossibleProposals
    BY DEF MariusHandles
  <2> QED BY <1>2, <2>1, <2>2 DEF Proposed
<1>6. Reported'
  BY <1>1, <1>2, NoResultYet DEF Reported, Returned
<1> QED BY <1>4, <1>5, <1>6 DEF Backed

LEMMA AtlasServesBacked == IInv /\ Backed /\ AtlasServes => Backed'
<1> SUFFICES ASSUME IInv, Backed, AtlasServes PROVE Backed'
  OBVIOUS
<1> DEFINE r1 == Residue("receive", "proposal", 2, Move)
           r2 == Residue("emit", "acceptance", 2, Move)
<1>1. /\ handler # "idle" /\ answered[2] = None /\ answered[1] = None
      /\ handler # "accepted" /\ ledger["atlas"] = <<>> /\ ~ Returned
  <2>1. /\ handler # "idle" /\ answered[2] = None /\ answered[1] = None
        /\ ledger["atlas"] = <<>>
    BY DEF AtlasServes, IInv, Nesting, Ledgers, Acceptances
  <2>2. handler = "accepted" => answered[2] # None
    BY DEF Backed, EntriesLogged
  <2> QED BY <2>1, <2>2 DEF Backed, EntriesLogged
<1>2. /\ ledger' = [ledger EXCEPT !["atlas"] =
                      Append(Append(ledger["atlas"], r1), r2)]
      /\ answered' = [answered EXCEPT ![2] = Move]
      /\ UNCHANGED <<reasoner, stage, handler, proposal, result>>
  BY DEF AtlasServes, LogReceived, LogAnswered
<1>3. ledger'["atlas"] = AtlasEntries /\ ledger'["marius"] = ledger["marius"]
  <2>1. Append(Append(<<>>, r1), r2) = <<r1, r2>>
    BY TwoAppended
  <2> QED BY <1>1, <1>2, <2>1 DEF IInv, Types, Parties, AtlasEntries
<1>4. EntriesLogged'
  <2>1. ~ Returned'
    BY <1>1, <1>2 DEF Returned
  <2> QED BY <1>1, <1>2, <1>3, <2>1, EntriesStay
          DEF Backed, EntriesLogged, Asks
<1>5. Proposed'
  BY <1>2 DEF Backed, Proposed, PossibleProposals
<1>6. Reported'
  BY <1>1, <1>2, NoResultYet DEF Reported, Returned
<1> QED BY <1>4, <1>5, <1>6 DEF Backed

LEMMA MariusAcceptsBacked == IInv /\ Backed /\ MariusAccepts => Backed'
<1> SUFFICES ASSUME IInv, Backed, MariusAccepts PROVE Backed'
  OBVIOUS
<1> DEFINE r1 == Residue("emit", "proposal", 2, Move)
           r2 == Residue("receive", "acceptance", 2, Move)
           r3 == Residue("emit", "acceptance", 1, Request)
<1>1. /\ handler = "waiting" /\ answered[2] = Move /\ answered[2] # None
      /\ ledger["marius"] = <<Asks>> /\ ~ Returned
  BY DEF MariusAccepts, IInv, Acceptances, Backed, EntriesLogged
<1>2. /\ ledger' = [ledger EXCEPT !["marius"] =
                      Append(Append(Append(ledger["marius"], r1), r2), r3)]
      /\ answered' = [answered EXCEPT ![1] = Request]
      /\ handler' = "accepted"
      /\ UNCHANGED <<reasoner, stage, proposal, result>>
  BY <1>1 DEF MariusAccepts, AcceptedTerms, LogSent, LogAnswered
<1>3. /\ ledger'["marius"] = MariusEntries
      /\ ledger'["iris"] = ledger["iris"] /\ ledger'["atlas"] = ledger["atlas"]
  <2>1. Append(Append(Append(<<Asks>>, r1), r2), r3) = <<Asks, r1, r2, r3>>
    BY ThreeAppended
  <2> QED BY <1>1, <1>2, <2>1 DEF IInv, Types, Parties, MariusEntries
<1>4. answered'[1] = Request /\ answered'[2] = answered[2] /\ Request # None
  BY <1>2, PayloadsAreTerms DEF IInv, Types
<1>5. EntriesLogged'
  <2>1. Returned' <=> Returned
    BY <1>2 DEF Returned
  <2> QED BY <1>1, <1>2, <1>3, <1>4, <2>1, EntriesStay DEF Backed, EntriesLogged
<1>6. Proposed'
  BY <1>1, <1>2 DEF Backed, Proposed, PossibleProposals
<1>7. Reported'
  BY <1>1, <1>2, NoResultYet DEF Reported, Returned
<1> QED BY <1>5, <1>6, <1>7 DEF Backed

LEMMA IrisReturnsBacked == IInv /\ Backed /\ IrisReturns => Backed'
<1> SUFFICES ASSUME IInv, Backed, IrisReturns PROVE Backed'
  OBVIOUS
<1> DEFINE r1 == Residue("emit", "proposal", 1, Request)
           r2 == Residue("receive", "acceptance", 1, Request)
<1>1. /\ stage = "wait" /\ result = None
      /\ UNCHANGED <<reasoner, handler, answered, proposal, result>>
  BY NoResultYet DEF IrisReturns
<1>2. CASE stage' = "abandon" /\ UNCHANGED ledger
  <2>1. ~ Returned'
    BY <1>2 DEF Returned
  <2> QED BY <1>1, <1>2, <2>1, NothingLogged
<1>3. CASE /\ answered[1] # None /\ stage' = "stop"
           /\ ledger' = [ledger EXCEPT !["iris"] =
                           LogSent(@, 1, Request, answered[1])]
  <2>1. /\ answered[1] = Request /\ ledger["iris"] = <<>>
        /\ ledger' = [ledger EXCEPT !["iris"] =
                        Append(Append(ledger["iris"], r1), r2)]
    BY <1>1, <1>3 DEF IInv, Acceptances, Ledgers, LogSent
  <2>2. /\ ledger'["iris"] = IrisEntries
        /\ ledger'["marius"] = ledger["marius"]
        /\ ledger'["atlas"] = ledger["atlas"]
    <3>1. Append(Append(<<>>, r1), r2) = <<r1, r2>>
      BY TwoAppended
    <3> QED BY <2>1, <3>1 DEF IInv, Types, Parties, IrisEntries
  <2>3. EntriesLogged'
    BY <1>1, <1>3, <2>2, EntriesStay DEF Backed, EntriesLogged, Asks
  <2>4. Proposed' /\ Reported'
    BY <1>1 DEF Backed, Proposed, PossibleProposals, Reported
  <2> QED BY <2>3, <2>4 DEF Backed
<1> QED BY <1>2, <1>3 DEF IrisReturns

(* When all three have logged, the ledgers read task by task are whole.    *)
LEMMA LedgersShown ==
  ASSUME IInv, Backed, Returned
  PROVE  /\ ByTask(ledger["iris"], 1) = IrisEntries
         /\ ByTasks(ledger["marius"], {1, 2}) = MariusEntries
         /\ ByTask(ledger["atlas"], 2) = AtlasEntries
<1> DEFINE R == ResiduesOf(1 .. 2, Payloads)
<1>1. /\ ledger["iris"] = IrisEntries /\ ledger["marius"] = MariusEntries
      /\ ledger["atlas"] = AtlasEntries
  BY DEF IInv, Acceptances, Backed, EntriesLogged
<1>2. \A p \in Parties : ledger[p] \in Seq(R)
  BY DEF IInv, Types
<1>3. /\ IrisEntries \in Seq(R) /\ MariusEntries \in Seq(R)
      /\ AtlasEntries \in Seq(R)
  BY <1>1, <1>2 DEF Parties
<1>4. /\ Len(IrisEntries) = 2
      /\ IrisEntries[1].task = 1 /\ IrisEntries[2].task = 1
  BY DEF IrisEntries, Residue
<1>5. /\ Len(MariusEntries) = 4
      /\ MariusEntries[1].task = 1 /\ MariusEntries[2].task = 2
      /\ MariusEntries[3].task = 2 /\ MariusEntries[4].task = 1
  BY DEF MariusEntries, Asks, Residue
<1>6. /\ Len(AtlasEntries) = 2
      /\ AtlasEntries[1].task = 2 /\ AtlasEntries[2].task = 2
  BY DEF AtlasEntries, Residue
<1> HIDE DEF R
<1>7. /\ \A i \in 1 .. Len(IrisEntries) : IrisEntries[i].task \in {1}
      /\ \A i \in 1 .. Len(MariusEntries) : MariusEntries[i].task \in {1, 2}
      /\ \A i \in 1 .. Len(AtlasEntries) : AtlasEntries[i].task \in {2}
  BY <1>4, <1>5, <1>6
<1>8. /\ ByTasks(IrisEntries, {1}) = IrisEntries
      /\ ByTasks(MariusEntries, {1, 2}) = MariusEntries
      /\ ByTasks(AtlasEntries, {2}) = AtlasEntries
  BY <1>3, <1>7, AllByTasks
<1> QED BY <1>1, <1>8 DEF ByTask

LEMMA ReportBacked == IInv /\ Backed /\ Report => Backed'
<1> SUFFICES ASSUME IInv, Backed, Report PROVE Backed'
  OBVIOUS
<1>1. /\ stage = "report" /\ stage' = "done"
      /\ UNCHANGED <<reasoner, handler, answered, proposal, ledger>>
  BY DEF Report
<1>2. Returned /\ Returned'
  BY <1>1 DEF Returned
<1>3. result' = ResultNow
  BY <1>2, LedgersShown DEF Report, ResultNow
<1>4. EntriesLogged'
  BY <1>1, <1>2, EntriesStay DEF Backed, EntriesLogged, Asks
<1>5. Proposed'
  BY <1>1 DEF Backed, Proposed, PossibleProposals
<1>6. Reported'
  BY <1>1, <1>3, ResultStays DEF Reported
<1> QED BY <1>4, <1>5, <1>6 DEF Backed

LEMMA NextBacked == IInv /\ Backed /\ [Next]_vars => Backed'
<1> SUFFICES ASSUME IInv, Backed, [Next]_vars PROVE Backed'
  OBVIOUS
<1>1. CASE \/ StartListener("start", "marius", "start_atlas")
           \/ StartListener("start_atlas", "atlas", "send")
           \/ IrisSends
  <2>1. /\ UNCHANGED <<reasoner, handler, answered, proposal, ledger, result>>
        /\ stage # "done" /\ stage' \in {"start_atlas", "send", "wait", "raised"}
    BY <1>1 DEF StartListener, IrisSends
  <2>2. ~ Returned'
    BY <2>1 DEF Returned
  <2> QED BY <2>1, <2>2, NoResultYet, NothingLogged
<1>2. CASE \/ StopListener("stop", "marius", 1, "stop_atlas")
           \/ StopListener("stop_atlas", "atlas", 2, "report")
           \/ StopListener("abandon", "marius", 1, "abandon_atlas")
           \/ StopListener("abandon_atlas", "atlas", 2, "raised")
  <2>1. /\ UNCHANGED <<reasoner, handler, answered, proposal, ledger, result>>
        /\ stage # "done"
    BY <1>2 DEF StopListener
  <2>2. Returned' => Returned
    BY <1>2 DEF StopListener, Returned
  <2> QED BY <2>1, <2>2, NoResultYet, NothingLogged
<1>3. CASE UNCHANGED vars
  <2>1. /\ UNCHANGED <<reasoner, handler, answered, proposal, ledger, result>>
        /\ UNCHANGED <<stage, Returned>>
    BY <1>3 DEF vars, Returned
  <2> QED BY <2>1, NoResultYet, NothingLogged
<1>4. CASE MariusRaises
  <2>1. /\ UNCHANGED <<reasoner, answered, proposal, ledger, result, stage>>
        /\ handler' = "raised" /\ UNCHANGED Returned
    BY <1>4 DEF MariusRaises, Returned
  <2> QED BY <2>1, NoResultYet, NothingLogged
<1> QED BY <1>1, <1>2, <1>3, <1>4, MariusHandlesBacked, AtlasServesBacked,
           MariusAcceptsBacked, IrisReturnsBacked, ReportBacked
        DEF Next, HandlersNext

(* What the three ledgers hold, in every reachable state (run_cascading    *)
(* and its nested handlers).                                               *)
THEOREM LedgersBackTheResult == Spec => []Backed
BY InitIInv, NextIInv, InitBacked, NextBacked, PTL DEF Spec

(* A result's evidence: Marius's one chain holds the four entries of both  *)
(* exchanges in the nested order, and each exchange shows the hashes that  *)
(* both of its sides have in their ledgers (run_cascading).                *)
THEOREM ResultsAreBacked == Spec => []ResultIsBacked
<1>1. Backed => ResultIsBacked
  <2> SUFFICES ASSUME Backed, result # None PROVE ResultIsBacked
    BY DEF ResultIsBacked
  <2>1. result = ResultNow
    BY DEF Backed, Reported
  <2> DEFINE m == MariusEntries
             outer == SubSeq(m, 1, 1) \o SubSeq(m, 4, 4)
             inner == SubSeq(m, 2, 3)
  <2>2. /\ result.ledgers.iris = IrisEntries
        /\ result.ledgers.marius = MariusEntries
        /\ result.ledgers.atlas = AtlasEntries
        /\ result.exchanges = ExchangesFrom(IrisEntries, MariusEntries, AtlasEntries)
    BY <2>1 DEF ResultNow
  <2>3. /\ outer = <<Asks, Residue("emit", "acceptance", 1, Request)>>
        /\ inner = <<Residue("emit", "proposal", 2, Move),
                     Residue("receive", "acceptance", 2, Move)>>
    BY Parts DEF MariusEntries
  <2>4. [k \in DOMAIN m |-> m[k].task] = <<1, 2, 2, 1>>
    BY DEF MariusEntries, Asks, Residue
  <2> HIDE DEF outer, inner, m
  <2>5. Fits(IrisEntries, outer) /\ Fits(inner, AtlasEntries)
    BY <2>3 DEF Fits, IrisEntries, AtlasEntries, Asks, Residue
  <2>6. /\ outer[1].payload = Request /\ IrisEntries[2].payload = Request
        /\ AtlasEntries[1].payload = Move /\ inner[2].payload = Move
    BY <2>3 DEF IrisEntries, AtlasEntries, Asks, Residue
  <2>7. ExchangesFrom(IrisEntries, MariusEntries, AtlasEntries) =
          <<[task |-> 1, proposed |-> Request, accepted |-> Request],
            [task |-> 2, proposed |-> Move, accepted |-> Move],
            [task |-> 1, proposed |-> Request, accepted |-> Request]>>
    BY DEF ExchangesFrom, IrisEntries, MariusEntries, AtlasEntries, Asks, Residue
  <2> DEFINE sides == <<[sender |-> IrisEntries, receiver |-> outer],
                        [sender |-> inner, receiver |-> AtlasEntries],
                        [sender |-> IrisEntries, receiver |-> outer]>>
  <2>8. ASSUME NEW x \in 1 .. 3
        PROVE  /\ Fits(sides[x].sender, sides[x].receiver)
               /\ result.exchanges[x].proposed = sides[x].receiver[1].payload
               /\ result.exchanges[x].accepted = sides[x].sender[2].payload
    <3>1. x = 1 \/ x = 2 \/ x = 3
      OBVIOUS
    <3>2. CASE x = 1
      BY <2>2, <2>5, <2>6, <2>7, <3>2
    <3>3. CASE x = 2
      BY <2>2, <2>5, <2>6, <2>7, <3>3
    <3>4. CASE x = 3
      BY <2>2, <2>5, <2>6, <2>7, <3>4
    <3> QED BY <3>1, <3>2, <3>3, <3>4
  <2> QED BY <2>2, <2>4, <2>8 DEF ResultIsBacked, outer, inner, m
<1> QED BY <1>1, LedgersBackTheResult, PTL

-----------------------------------------------------------------------------
(* The calendars of a result *)

LEMMA LastAppended ==
  ASSUME NEW S, NEW s \in Seq(S), NEW e
  PROVE  Append(s, e)[Len(Append(s, e))] = e
<1> DEFINE T == S \cup {e}
<1>1. s \in Seq(T) /\ e \in T
  <2>1. s \in [1 .. Len(s) -> S] /\ Len(s) \in Nat
    BY LenProperties
  <2>2. s \in [1 .. Len(s) -> T]
    BY <2>1
  <2> QED BY <2>1, <2>2, SeqDef
<1> HIDE DEF T
<1>2. Len(Append(s, e)) = Len(s) + 1 /\ Append(s, e)[Len(s) + 1] = e
  BY <1>1, Logged
<1> QED BY <1>2

(* With the scripted reasoner, exactly the event in the way of the request *)
(* is moved, to a slot that is not.                                        *)
LEMMA ScriptedMove ==
  ASSUME proposal \in ScriptedProposals, NEW i \in DOMAIN MariusCalendar
  PROVE  LET was == MariusCalendar[i]
             event == AfterMove(MariusCalendar, proposal.title, proposal.slot)[i]
         IN  /\ ~ Overlap(event.start, event.duration,
                          Request.slot, Request.duration)
             /\ IF was.start = Request.slot
                  THEN /\ event.start = Move.slot /\ event.duration = Move.duration
                       /\ "atlas" \in event.attendees
                  ELSE event = was
<1> DEFINE was == MariusCalendar[i]
           event == AfterMove(MariusCalendar, proposal.title, proposal.slot)[i]
<1>1. PICK k \in DOMAIN MariusCalendar, j \in DOMAIN AtlasFreeSlots :
        /\ k \in Blocking /\ "atlas" \in MariusCalendar[k].attendees
        /\ AtlasFreeSlots[j] \notin Occupied(MariusCalendar)
        /\ proposal = [slot |-> AtlasFreeSlots[j], title |-> MariusCalendar[k].title]
  BY DEF ScriptedProposals, First, Blocking
<1>2. \A x \in DOMAIN MariusCalendar :
        /\ MariusCalendar[x].title = MariusCalendar[k].title => x = k
        /\ x \in Blocking => x = k
        /\ x \notin Blocking =>
             ~ Overlap(MariusCalendar[x].start, MariusCalendar[x].duration,
                       Request.slot, Request.duration)
  BY <1>1, FixtureAssumption
<1>3. MariusCalendar[k].duration = MovedDuration
  <2> DEFINE first == {x \in DOMAIN MariusCalendar :
                         /\ MariusCalendar[x].start = Request.slot
                         /\ \A y \in 1 .. x - 1 :
                              ~ (MariusCalendar[y].start = Request.slot)}
  <2> DEFINE c == CHOOSE x \in first : TRUE
  <2>1. MovedDuration = IF first = {} THEN DefaultDuration
                        ELSE MariusCalendar[c].duration
    BY DEF MovedDuration, First
  <2>2. k \in first
    <3>1. \A y \in 1 .. k - 1 : y \in DOMAIN MariusCalendar /\ y # k
      <4>1. k \in 1 .. Len(MariusCalendar)
        BY MariusHasEvents
      <4> QED BY <4>1, MariusHasEvents
    <3>2. \A y \in 1 .. k - 1 : y \notin Blocking
      BY <1>2, <3>1
    <3> QED BY <1>1, <3>1, <3>2 DEF Blocking
  <2>3. \A x \in first : x = k
    BY <1>2 DEF Blocking
  <2> HIDE DEF first
  <2>4. c = k
    BY <2>2, <2>3
  <2> HIDE DEF c
  <2> QED BY <2>1, <2>2, <2>4
<1>4. /\ proposal.slot = AtlasFreeSlots[j]
      /\ proposal.title = MariusCalendar[k].title
      /\ ~ Overlap(AtlasFreeSlots[j], MovedDuration, Request.slot, Request.duration)
  BY <1>1, FixtureAssumption
<1>5. event = IF was.title = proposal.title
              THEN [was EXCEPT !.start = proposal.slot] ELSE was
  BY DEF AfterMove
<1>6. CASE i = k
  <2>1. was \in MariusEvents
    BY MariusHasEvents
  <2>2. event = [was EXCEPT !.start = proposal.slot]
    BY <1>4, <1>5, <1>6
  <2>3. /\ event.start = proposal.slot /\ event.duration = was.duration
        /\ event.attendees = was.attendees
    <3> HIDE DEF event, was
    <3> QED BY <2>1, <2>2 DEF MariusEvents
  <2> HIDE DEF event
  <2>4. was.start = Request.slot /\ "atlas" \in was.attendees
        /\ was.duration = MovedDuration
    BY <1>1, <1>3, <1>6 DEF Blocking
  <2> QED BY <1>4, <2>3, <2>4 DEF Move, event
<1>7. CASE i # k
  <2>1. was.title # proposal.title /\ was.start # Request.slot
    BY <1>2, <1>4, <1>7 DEF Blocking
  <2>2. event = was
    BY <1>5, <2>1
  <2>3. ~ Overlap(was.start, was.duration, Request.slot, Request.duration)
    BY <1>2, <1>7
  <2> HIDE DEF event
  <2> QED BY <2>1, <2>2, <2>3 DEF event
<1> QED BY <1>6, <1>7

(* The calendars shown are those the three agreed on: Iris gains what      *)
(* Marius accepted, Atlas what Atlas accepted, and a scripted Marius has   *)
(* moved exactly the meeting with Atlas out of the way of the request, to  *)
(* the slot and for the time that Atlas accepted (run_cascading, on        *)
(* literals that satisfy FixtureAssumption).                               *)
THEOREM CalendarsShownAreAgreed == Spec => []CalendarsAreAgreed
<1>1. IInv /\ Backed => CalendarsAreAgreed
  <2> SUFFICES ASSUME IInv, Backed, result # None PROVE CalendarsAreAgreed
    BY DEF CalendarsAreAgreed
  <2>1. result = ResultNow /\ Returned
    BY DEF Backed, Reported, Returned
  <2>2. /\ result.ledgers.atlas[2].payload = Move
        /\ result.ledgers.iris[2].payload = Request
    BY <2>1 DEF ResultNow, IrisEntries, AtlasEntries, Residue
  <2>3. handler = "accepted" /\ proposal \in PossibleProposals
    BY <2>1 DEF Backed, EntriesLogged, Proposed, IInv, Acceptances
  <2>4. /\ result.after.iris =
             AfterAdd(IrisCalendar, Request.slot, Request.duration,
                      "synthetic-iris-marius-meeting", "marius")
        /\ result.after.marius = AfterMove(MariusCalendar, proposal.title,
                                           proposal.slot)
        /\ result.after.atlas = AfterAdd(<<>>, proposal.slot, DefaultDuration,
                                         proposal.title, "marius")
    BY <2>1 DEF ResultNow, CalendarsAfter
  <2>5. \A slot, duration, title, attendee :
          LET after == AfterAdd(IrisCalendar, slot, duration, title, attendee)
          IN  after[Len(after)].start = slot /\ after[Len(after)].duration = duration
    <3> SUFFICES ASSUME NEW slot, NEW duration, NEW title, NEW attendee
                 PROVE  LET after == AfterAdd(IrisCalendar, slot, duration, title,
                                              attendee)
                        IN  /\ after[Len(after)].start = slot
                            /\ after[Len(after)].duration = duration
      OBVIOUS
    <3> DEFINE e == [start |-> slot, duration |-> duration, title |-> title,
                     attendees |-> {attendee}]
               after == Append(IrisCalendar, e)
    <3>1. PICK S : IrisCalendar \in Seq(S)
      BY CascadeAssumption DEF IsCalendar
    <3>2. e.start = slot /\ e.duration = duration
      OBVIOUS
    <3> HIDE DEF e
    <3>3. after[Len(after)] = e
      BY <3>1, LastAppended
    <3> QED BY <3>2, <3>3 DEF AfterAdd, e
  <2>6. \A slot, duration, title, attendee :
          LET after == AfterAdd(<<>>, slot, duration, title, attendee)
          IN  after[Len(after)].start = slot /\ after[Len(after)].duration = duration
    <3> SUFFICES ASSUME NEW slot, NEW duration, NEW title, NEW attendee
                 PROVE  LET after == AfterAdd(<<>>, slot, duration, title, attendee)
                        IN  /\ after[Len(after)].start = slot
                            /\ after[Len(after)].duration = duration
      OBVIOUS
    <3> DEFINE e == [start |-> slot, duration |-> duration, title |-> title,
                     attendees |-> {attendee}]
               after == Append(<<>>, e)
    <3>1. <<>> \in Seq({})
      BY EmptySeq
    <3>2. e.start = slot /\ e.duration = duration
      OBVIOUS
    <3> HIDE DEF e
    <3>3. after[Len(after)] = e
      BY <3>1, LastAppended
    <3> QED BY <3>2, <3>3 DEF AfterAdd, e
  <2>7. Move.slot = proposal.slot /\ Move.duration = DefaultDuration
    BY FixtureAssumption DEF Move
  <2>8. ASSUME reasoner = "scripted", NEW i \in DOMAIN MariusCalendar
        PROVE  LET was == MariusCalendar[i]
                   event == result.after.marius[i]
               IN  /\ ~ Overlap(event.start, event.duration,
                                Request.slot, Request.duration)
                   /\ IF was.start = Request.slot
                        THEN /\ event.start = Move.slot
                             /\ event.duration = Move.duration
                             /\ "atlas" \in event.attendees
                        ELSE event = was
    <3>1. proposal \in ScriptedProposals
      BY <2>3, <2>8 DEF PossibleProposals
    <3> QED BY <2>4, <3>1, ScriptedMove
  <2> QED BY <2>2, <2>4, <2>5, <2>6, <2>7, <2>8 DEF CalendarsAreAgreed
<1> QED BY <1>1, CascadeInvariant, LedgersBackTheResult, PTL

=============================================================================
