------------------------ MODULE GroupNegotiationProofs ------------------------
(***************************************************************************)
(* The four-party negotiation for any number of peers, candidates and      *)
(* calendars: type correctness, one listener at a time, only the earliest  *)
(* common slot is ever confirmed, the run implements GroupCommit, and its  *)
(* result is backed by the ledgers.                                        *)
(***************************************************************************)
EXTENDS GroupNegotiation, SequenceTheorems, FiniteSetTheorems, TLAPS

-----------------------------------------------------------------------------
(* The inductive invariant *)

IsSequence(s) == Len(s) \in Nat /\ s = [i \in 1 .. Len(s) |-> s[i]]

Types ==
  /\ busy \in Schedules
  /\ current \in Exchanges
  /\ stage \in Stages
  /\ request \in {None} \cup SUBSET Candidates
  /\ captured \in [Exchanges -> {None} \cup SUBSET Candidates]
  /\ ledger \in [Principals -> Seq(ResiduesOf(Exchanges, SUBSET Candidates))]
  /\ chosen \in Candidates \cup {None}
  /\ IsSequence(records)

(* One listener, that of the exchange under way, from its start to its     *)
(* stop; a request is unserved only while Iris waits or has given up.      *)
Serving ==
  /\ listening = IF stage \in {"send", "wait", "stop", "abandon", "unstopped"}
                 THEN {Peer(current)} ELSE {}
  /\ request # None => /\ stage \in {"wait", "abandon", "unstopped"}
                       /\ request = Proposal(current)
                       /\ captured[current] = None

(* The exchanges before the one under way are answered, those after it are *)
(* not, and an answer is what its handler computes.                        *)
Answers ==
  /\ \A k \in Exchanges : k < current => captured[k] # None
  /\ \A k \in Exchanges : k > current => captured[k] = None
  /\ stage \in {"start", "send"} => captured[current] = None
  /\ stage \in {"stop", "decide", "report", "done"} => captured[current] # None
  /\ \A k \in Exchanges :
       captured[k] # None =>
         captured[k] = IF k <= N THEN SlotsAvailable(Candidates, busy[Order[k]])
                       ELSE {chosen}

(* One record per exchange that is over.                                   *)
Recorded ==
  /\ stage \in {"start", "send", "wait", "stop", "abandon", "unstopped"} =>
       Len(records) = current - 1
  /\ stage \in {"decide", "report", "done"} => Len(records) = current
  /\ Len(records) <= 2 * N
  /\ stage = "decide" => current = N
  /\ stage \in {"report", "done"} => current \in {N, 2 * N}
  /\ \A i \in 1 .. Len(records) :
       i \in Exchanges => records[i].response = captured[i]
  /\ result # None => Len(result.exchanges) \in {N, 2 * N}

(* The slot is chosen between the phases, and it is the earliest common    *)
(* one; without a choice the run only reports when there is none.          *)
Chosen ==
  /\ chosen = None <=> current <= N
  /\ chosen # None => chosen \in Common /\ \A other \in Common : chosen <= other
  /\ stage \in {"report", "done"} =>
       (chosen = None => Common = {}) /\ (chosen # None => current = 2 * N)

(* A confirmation in a peer's ledger is one of the chosen slot.            *)
Confirmations ==
  \A p \in Peers :
    \A i \in 1 .. Len(ledger[p]) :
      ledger[p][i].task > N => chosen # None /\ ledger[p][i].payload = {chosen}

IInv == Types /\ Serving /\ Answers /\ Recorded /\ Chosen /\ Confirmations

-----------------------------------------------------------------------------
(* Constants and operators *)

(* The exchanges are numbers, and each has its peer.                       *)
LEMMA Numbering ==
  /\ N \in Nat \ {0}
  /\ DOMAIN Order = 1 .. N
  /\ Exchanges \subseteq Nat
  /\ \A k \in Exchanges : Peer(k) \in Peers
  /\ Peers \subseteq Principals
  /\ Iris \in Principals \ Peers
<1>1. Order \in Seq(Principals) /\ Len(Order) > 0 /\ Iris \notin Peers
  BY GroupAssumption
<1>2. N \in Nat \ {0} /\ DOMAIN Order = 1 .. N
  BY <1>1 DEF N
<1>3. ASSUME NEW k \in Exchanges PROVE Peer(k) \in Peers
  <2>1. IF k <= N THEN k \in 1 .. N ELSE k - N \in 1 .. N
    BY <1>2, <1>3 DEF Exchanges
  <2> QED BY <1>2, <2>1 DEF Peer, Peers
<1> QED BY <1>1, <1>2, <1>3 DEF Exchanges, Principals

(* None is no answer and no proposal.                                      *)
LEMMA NoneIsNoAnswer ==
  /\ None \notin Candidates
  /\ \A slots \in SUBSET Candidates : slots # None
BY SlotsAssumption

(* A longer sequence.                                                      *)
LEMMA Appended ==
  ASSUME NEW s, NEW x, IsSequence(s)
  PROVE  /\ IsSequence(Append(s, x))
         /\ Len(Append(s, x)) = Len(s) + 1
         /\ \A i \in 1 .. Len(s) : Append(s, x)[i] = s[i]
         /\ Append(s, x)[Len(s) + 1] = x
<1> DEFINE S == {s[i] : i \in 1 .. Len(s)} \cup {x}
<1>1. s \in Seq(S)
  <2>1. s \in [1 .. Len(s) -> S] /\ Len(s) \in Nat
    BY DEF IsSequence
  <2> QED BY <2>1, SeqDef
<1>2. Append(s, x) \in Seq(S) /\ x \in S
  BY <1>1
<1>3. /\ Len(Append(s, x)) = Len(s) + 1
      /\ \A i \in 1 .. Len(s) : Append(s, x)[i] = s[i]
      /\ Append(s, x)[Len(s) + 1] = x
  BY <1>1, <1>2, AppendProperties
<1>4. Append(s, x) = [i \in 1 .. Len(Append(s, x)) |-> Append(s, x)[i]]
  BY <1>2, LenProperties
<1> HIDE DEF S
<1> QED BY <1>2, <1>3, <1>4, LenProperties DEF IsSequence

(* Asked for a proposal among the candidates, a handler answers candidates. *)
LEMMA ProposalsAndAnswers ==
  ASSUME Types, NEW k \in Exchanges, k <= N \/ chosen # None
  PROVE  /\ Proposal(k) \in SUBSET Candidates
         /\ Answer(k, Proposal(k)) \in SUBSET Candidates
         /\ Answer(k, Proposal(k)) # None
         /\ Answer(k, Proposal(k)) =
              IF k <= N THEN SlotsAvailable(Candidates, busy[Order[k]])
              ELSE {chosen}
<1>1. Proposal(k) \in SUBSET Candidates
  BY DEF Types, Proposal
<1>2. Answer(k, Proposal(k)) =
        IF k <= N THEN SlotsAvailable(Candidates, busy[Order[k]]) ELSE {chosen}
  BY DEF Answer, Proposal, Peer
<1>3. Answer(k, Proposal(k)) \in SUBSET Candidates
  BY <1>1, <1>2 DEF SlotsAvailable, Types
<1> QED BY <1>1, <1>2, <1>3, NoneIsNoAnswer

(* The slots common to all calendars are those that every peer answers.    *)
LEMMA CommonIsAnswered ==
  ASSUME Types
  PROVE  Common = {slot \in Candidates :
                     \A i \in 1 .. N :
                       slot \in SlotsAvailable(Candidates, busy[Order[i]])}
<1>1. busy \in [Peers -> SUBSET (Nat \X Nat)] /\ Candidates \subseteq Nat
      /\ Duration \in Nat
  BY SlotsAssumption DEF Types
<1>2. \A p \in Peers : \A block \in busy[p] : block \in Nat \X Nat
  BY <1>1
<1>3. ASSUME NEW slot \in Candidates, NEW p \in Peers
      PROVE  slot \in SlotsAvailable(Candidates, busy[p]) <=>
               \A block \in busy[p] :
                 slot + Duration <= block[1] \/ block[2] <= slot
  <2>1. \A block \in busy[p] : block[1] \in Nat /\ block[2] \in Nat
    BY <1>2
  <2>2. slot \in Nat
    BY <1>1
  <2> QED BY <1>1, <2>1, <2>2 DEF SlotsAvailable
<1>4. ASSUME NEW slot \in Candidates
      PROVE  slot \in Common <=>
               \A p \in Peers : slot \in SlotsAvailable(Candidates, busy[p])
  <2>1. \A p \in Peers : \A block \in busy[p] :
          block \in UNION {busy[q] : q \in Peers}
    OBVIOUS
  <2> QED BY <1>3, <2>1 DEF Common
<1>5. Peers = {Order[i] : i \in 1 .. N}
  BY Numbering DEF Peers
<1>6. \A slot \in Common : slot \in Candidates
  BY DEF Common
<1> HIDE DEF Common
<1> QED BY <1>4, <1>5, <1>6

-----------------------------------------------------------------------------
(* The invariant holds initially and is preserved *)

LEMMA InitIInv == Init => IInv
<1> SUFFICES ASSUME Init PROVE IInv
  OBVIOUS
<1>1. 1 \in Exchanges /\ \A k \in Exchanges : k >= 1
  BY Numbering DEF Exchanges
<1>2. Types
  <2>1. IsSequence(records)
    BY EmptySeq DEF Init, IsSequence
  <2>2. ledger \in [Principals -> Seq(ResiduesOf(Exchanges, SUBSET Candidates))]
    BY EmptySeq DEF Init
  <2> QED BY <1>1, <2>1, <2>2 DEF Init, Types, Stages
<1>3. Serving /\ Answers /\ Recorded
  BY <1>1, Numbering DEF Init, Serving, Answers, Recorded, Exchanges
<1>4. Chosen
  BY Numbering, NoneIsNoAnswer DEF Init, Chosen
<1>5. Confirmations
  BY Numbering DEF Init, Confirmations
<1> QED BY <1>2, <1>3, <1>4, <1>5 DEF IInv

(* The invariants that speak of calendars, answers and the choice only     *)
(* depend on these.                                                        *)
LEMMA CommonStays == UNCHANGED busy => UNCHANGED Common
BY DEF Common

LEMMA StartPreserves == IInv /\ StartListener => IInv'
<1> SUFFICES ASSUME IInv, StartListener PROVE IInv'
  OBVIOUS
<1> USE DEF IInv, StartListener
<1>1. Types'
  BY DEF Types, Stages
<1>2. Serving'
  BY DEF Serving, Proposal, Peer
<1>3. Answers' /\ Recorded'
  BY DEF Answers, Recorded, SlotsAvailable
<1>4. Chosen'
  BY CommonStays DEF Chosen
<1>5. Confirmations'
  BY DEF Confirmations
<1> QED BY <1>1, <1>2, <1>3, <1>4, <1>5

LEMMA StartRaisesPreserves == IInv /\ StartListenerRaises => IInv'
<1> SUFFICES ASSUME IInv, StartListenerRaises PROVE IInv'
  OBVIOUS
<1> USE DEF IInv, StartListenerRaises
<1>1. Types'
  BY DEF Types, Stages
<1>2. Serving'
  BY DEF Serving, Proposal, Peer
<1>3. Answers' /\ Recorded'
  BY DEF Answers, Recorded, SlotsAvailable
<1>4. Chosen'
  BY CommonStays DEF Chosen
<1>5. Confirmations'
  BY DEF Confirmations
<1> QED BY <1>1, <1>2, <1>3, <1>4, <1>5

(* In the second phase a slot has been chosen.                             *)
LEMMA ChosenForPhase == IInv => current <= N \/ chosen # None
BY Numbering DEF IInv, Types, Chosen

LEMMA SendPreserves == IInv /\ Send => IInv'
<1> SUFFICES ASSUME IInv, Send PROVE IInv'
  OBVIOUS
<1>0. Proposal(current) \in SUBSET Candidates
  BY ProposalsAndAnswers, ChosenForPhase DEF IInv, Types
<1> USE DEF IInv, Send
<1>1. Types'
  BY <1>0 DEF Types, Stages
<1>2. Serving'
  BY DEF Serving, Answers, Proposal, Peer
<1>3. Answers' /\ Recorded'
  BY DEF Answers, Recorded, SlotsAvailable
<1>4. Chosen'
  BY CommonStays DEF Chosen
<1>5. Confirmations'
  BY DEF Confirmations
<1> QED BY <1>1, <1>2, <1>3, <1>4, <1>5

(* A ledger that grows by one residue.                                     *)
LEMMA Logged ==
  ASSUME NEW S, NEW entries \in Seq(S), NEW residue \in S
  PROVE  /\ Append(entries, residue) \in Seq(S)
         /\ \A i \in 1 .. Len(Append(entries, residue)) :
              \/ i \in 1 .. Len(entries)
                 /\ Append(entries, residue)[i] = entries[i]
              \/ Append(entries, residue)[i] = residue
BY AppendProperties

(* What the handler's gateway logs.                                        *)
LEMMA ServeLogs ==
  ASSUME IInv, Serve
  PROVE  LET p == Peer(current)
             answer == Answer(current, request)
         IN  /\ ledger' \in [Principals ->
                               Seq(ResiduesOf(Exchanges, SUBSET Candidates))]
             /\ \A q \in Principals : q # p => ledger'[q] = ledger[q]
             /\ \A i \in 1 .. Len(ledger'[p]) :
                  \/ i \in 1 .. Len(ledger[p]) /\ ledger'[p][i] = ledger[p][i]
                  \/ /\ ledger'[p][i].task = current
                     /\ ledger'[p][i].payload \in {request, answer}
<1> DEFINE p == Peer(current)
           answer == Answer(current, request)
           R == ResiduesOf(Exchanges, SUBSET Candidates)
           r1 == Residue("receive", "proposal", current, request)
           r2 == Residue("emit", "acceptance", current, answer)
<1>1. request \in SUBSET Candidates /\ answer \in SUBSET Candidates
  BY ProposalsAndAnswers, ChosenForPhase DEF IInv, Types, Serving, Serve
<1>2. r1 \in R /\ r2 \in R
  BY <1>1 DEF IInv, Types, Residue, ResiduesOf
<1>3. p \in Principals /\ ledger[p] \in Seq(R)
  BY Numbering DEF IInv, Types
<1> HIDE DEF R, r1, r2, answer, p
<1>4. Append(ledger[p], r1) \in Seq(R)
  BY <1>2, <1>3
<1>5. ledger' = [ledger EXCEPT ![p] = Append(Append(ledger[p], r1), r2)]
  BY DEF Serve, LogAnswered, LogReceived, r1, r2, p, answer
<1>6. ledger'[p] = Append(Append(ledger[p], r1), r2)
  BY <1>3, <1>5 DEF IInv, Types, R
<1>7. /\ ledger'[p] \in Seq(R)
      /\ \A i \in 1 .. Len(ledger'[p]) :
           \/ i \in 1 .. Len(ledger[p]) /\ ledger'[p][i] = ledger[p][i]
           \/ ledger'[p][i] \in {r1, r2}
  BY <1>2, <1>3, <1>4, <1>6, Logged
<1>8. /\ r1.task = current /\ r1.payload = request
      /\ r2.task = current /\ r2.payload = answer
  BY DEF r1, r2, Residue
<1>9. ledger' \in [Principals -> Seq(R)]
      /\ \A q \in Principals : q # p => ledger'[q] = ledger[q]
  BY <1>3, <1>5, <1>6, <1>7 DEF IInv, Types, R
<1>10. \A i \in 1 .. Len(ledger'[p]) :
           \/ i \in 1 .. Len(ledger[p]) /\ ledger'[p][i] = ledger[p][i]
           \/ /\ ledger'[p][i].task = current
              /\ ledger'[p][i].payload \in {request, answer}
  BY <1>7, <1>8
<1> QED BY <1>9, <1>10 DEF R, p, answer

LEMMA ServePreserves == IInv /\ Serve => IInv'
<1> SUFFICES ASSUME IInv, Serve PROVE IInv'
  OBVIOUS
<1> DEFINE answer == Answer(current, request)
<1>1. /\ request # None /\ stage \in {"wait", "abandon", "unstopped"}
      /\ request = Proposal(current) /\ captured[current] = None
      /\ current \in Exchanges
  BY DEF IInv, Serving, Serve, Types
<1>2. /\ answer \in SUBSET Candidates /\ answer # None
      /\ answer = IF current <= N
                  THEN SlotsAvailable(Candidates, busy[Order[current]])
                  ELSE {chosen}
  BY <1>1, ProposalsAndAnswers, ChosenForPhase DEF IInv
<1>3. /\ captured' = [captured EXCEPT ![current] = answer]
      /\ request' = None
      /\ UNCHANGED <<busy, current, stage, listening, records, chosen, result>>
  BY DEF Serve
<1> HIDE DEF answer
<1>4. /\ captured'[current] = answer
      /\ \A k \in Exchanges : k # current => captured'[k] = captured[k]
      /\ captured' \in [Exchanges -> {None} \cup SUBSET Candidates]
  BY <1>1, <1>2, <1>3 DEF IInv, Types
<1>5. Types'
  BY <1>3, <1>4, ServeLogs DEF IInv, Types
<1>6. Serving'
  BY <1>3 DEF IInv, Serving, Peer
<1>7. Answers'
  <2>1. \A k \in Exchanges :
          SlotsAvailable(Candidates, busy[Order[k]])' =
            SlotsAvailable(Candidates, busy[Order[k]])
    BY <1>3 DEF SlotsAvailable
  <2> QED BY <1>1, <1>2, <1>3, <1>4, <2>1, Numbering DEF IInv, Answers, Types
<1>8. Recorded'
  <2>1. \A i \in 1 .. Len(records) : i \in Exchanges => i # current
    BY <1>1, Numbering DEF IInv, Recorded
  <2> QED BY <1>3, <1>4, <2>1 DEF IInv, Recorded
<1>9. Chosen'
  BY <1>3, CommonStays DEF IInv, Chosen
<1>10. Confirmations'
  <2>1. current > N => /\ chosen # None
                       /\ request = {chosen} /\ answer = {chosen}
    BY <1>1, <1>2, Numbering, ChosenForPhase DEF Proposal
  <2>2. \A q \in Peers : q # Peer(current) => ledger'[q] = ledger[q]
    BY ServeLogs, Numbering
  <2> QED BY <1>3, <2>1, <2>2, ServeLogs DEF IInv, Confirmations, answer
<1> QED BY <1>5, <1>6, <1>7, <1>8, <1>9, <1>10 DEF IInv

(* What Iris's own send logs: nothing in the ledgers of the peers.         *)
LEMMA ReturnLogs ==
  ASSUME IInv, Return
  PROVE  /\ ledger' \in [Principals ->
                           Seq(ResiduesOf(Exchanges, SUBSET Candidates))]
         /\ \A q \in Peers : ledger'[q] = ledger[q]
<1> DEFINE R == ResiduesOf(Exchanges, SUBSET Candidates)
           r1 == Residue("emit", "proposal", current, Proposal(current))
           r2 == Residue("receive", "acceptance", current, captured[current])
<1>1. /\ Proposal(current) \in SUBSET Candidates
      /\ captured[current] \in SUBSET Candidates
  BY ProposalsAndAnswers, ChosenForPhase DEF IInv, Types, Return
<1>2. r1 \in R /\ r2 \in R
  BY <1>1 DEF IInv, Types, Residue, ResiduesOf
<1>3. ledger[Iris] \in Seq(R)
  BY Numbering DEF IInv, Types
<1> HIDE DEF R, r1, r2
<1>4. Append(Append(ledger[Iris], r1), r2) \in Seq(R)
  BY <1>2, <1>3
<1>5. ledger' = [ledger EXCEPT ![Iris] = Append(Append(ledger[Iris], r1), r2)]
  BY DEF Return, LogSent, r1, r2
<1> QED BY <1>4, <1>5, Numbering DEF IInv, Types, R

LEMMA ReturnPreserves == IInv /\ Return => IInv'
<1> SUFFICES ASSUME IInv, Return PROVE IInv'
  OBVIOUS
<1>0. /\ stage = "wait" /\ stage' = "stop" /\ captured[current] # None
      /\ UNCHANGED <<busy, current, listening, request, captured, records,
                     chosen, result>>
  BY DEF Return
<1> USE <1>0 DEF IInv
<1>1. Types'
  BY ReturnLogs DEF Types, Stages
<1>2. Serving'
  BY DEF Serving, Proposal, Peer
<1>3. Answers' /\ Recorded'
  BY DEF Answers, Recorded, SlotsAvailable
<1>4. Chosen'
  BY CommonStays DEF Chosen
<1>5. Confirmations'
  BY ReturnLogs DEF Confirmations
<1> QED BY <1>1, <1>2, <1>3, <1>4, <1>5

LEMMA GiveUpPreserves == IInv /\ GiveUp => IInv'
<1> SUFFICES ASSUME IInv, GiveUp PROVE IInv'
  OBVIOUS
<1> USE DEF IInv, GiveUp
<1>1. Types'
  BY DEF Types, Stages
<1>2. Serving'
  BY DEF Serving, Proposal, Peer
<1>3. Answers' /\ Recorded'
  BY DEF Answers, Recorded, SlotsAvailable
<1>4. Chosen'
  BY CommonStays DEF Chosen
<1>5. Confirmations'
  BY DEF Confirmations
<1> QED BY <1>1, <1>2, <1>3, <1>4, <1>5

LEMMA AbandonPreserves == IInv /\ Abandon => IInv'
<1> SUFFICES ASSUME IInv, Abandon PROVE IInv'
  OBVIOUS
<1> USE DEF IInv, Abandon
<1>1. Types'
  BY DEF Types, Stages
<1>2. Serving'
  BY DEF Serving
<1>3. Answers' /\ Recorded'
  BY DEF Answers, Recorded, SlotsAvailable
<1>4. Chosen'
  BY CommonStays DEF Chosen
<1>5. Confirmations'
  BY DEF Confirmations
<1> QED BY <1>1, <1>2, <1>3, <1>4, <1>5

LEMMA StopRaisesPreserves == IInv /\ StopRaises => IInv'
<1> SUFFICES ASSUME IInv, StopRaises PROVE IInv'
  OBVIOUS
<1> USE DEF IInv, StopRaises
<1>1. Types'
  BY DEF Types, Stages
<1>2. Serving'
  BY DEF Serving, Proposal, Peer
<1>3. Answers' /\ Recorded'
  BY DEF Answers, Recorded, SlotsAvailable
<1>4. Chosen'
  BY CommonStays DEF Chosen
<1>5. Confirmations'
  BY DEF Confirmations
<1> QED BY <1>1, <1>2, <1>3, <1>4, <1>5

(* Where an exchange that is over leads.                                   *)
LEMMA StopLeads ==
  ASSUME IInv, Stop
  PROVE  /\ current \in {N, 2 * N} =>
              /\ current' = current
              /\ stage' = IF current = N THEN "decide" ELSE "report"
         /\ current \notin {N, 2 * N} =>
              /\ current' = current + 1 /\ stage' = "start"
              /\ current' \in Exchanges
              /\ current <= N <=> current' <= N
<1>1. current \in 1 .. 2 * N /\ N \in Nat \ {0}
  BY Numbering DEF IInv, Types, Exchanges
<1> QED BY <1>1 DEF Stop, Exchanges

LEMMA StopPreserves == IInv /\ Stop => IInv'
<1> SUFFICES ASSUME IInv, Stop PROVE IInv'
  OBVIOUS
<1>1. /\ stage = "stop" /\ listening' = listening \ {Peer(current)}
      /\ records' = Append(records, Record)
      /\ UNCHANGED <<busy, request, captured, ledger, chosen, result>>
  BY DEF Stop
<1>2. current \in Exchanges /\ current \in Nat /\ N \in Nat \ {0}
  BY Numbering DEF IInv, Types
<1>3. /\ IsSequence(records') /\ Len(records') = current
      /\ \A i \in 1 .. current - 1 : records'[i] = records[i]
      /\ records'[current] = Record
  <2>1. Len(records) = current - 1 /\ IsSequence(records)
    BY <1>1 DEF IInv, Recorded, Types
  <2> QED BY <1>1, <1>2, <2>1, Appended
<1>4. Types'
  BY <1>1, <1>2, <1>3, StopLeads DEF IInv, Types, Stages
<1>5. Serving'
  <2>1. stage' \in {"start", "decide", "report"} /\ request' = None
        /\ listening' = {}
    BY <1>1, StopLeads DEF IInv, Serving
  <2> QED BY <2>1 DEF Serving
<1>6. Answers'
  <2>1. \A k \in Exchanges : k \in Nat
    BY Numbering
  <2>2. \A k \in Exchanges :
          SlotsAvailable(Candidates, busy[Order[k]])' =
            SlotsAvailable(Candidates, busy[Order[k]])
    BY <1>1 DEF SlotsAvailable
  <2>3. captured[current] # None
    BY <1>1 DEF IInv, Answers
  <2>4. \A k \in Exchanges :
          captured[k] # None =>
            captured[k] = IF k <= N THEN SlotsAvailable(Candidates, busy[Order[k]])
                          ELSE {chosen}
    BY DEF IInv, Answers
  <2>5. /\ \A k \in Exchanges : k < current => captured[k] # None
        /\ \A k \in Exchanges : k > current => captured[k] = None
    BY DEF IInv, Answers
  <2>6. /\ \A k \in Exchanges : k < current' => captured[k] # None
        /\ \A k \in Exchanges : k > current' => captured[k] = None
    BY <1>2, <2>1, <2>3, <2>5, StopLeads
  <2>7. /\ stage' \in {"start", "send"} => captured[current'] = None
        /\ stage' \in {"stop", "decide", "report", "done"} =>
             captured[current'] # None
    BY <1>2, <2>3, <2>5, StopLeads
  <2> QED BY <1>1, <2>2, <2>4, <2>6, <2>7 DEF Answers
<1>7. Recorded'
  <2>1. Record.response = captured[current]
    BY DEF Record
  <2>2. \A i \in 1 .. Len(records') :
          i \in Exchanges => records'[i].response = captured'[i]
    BY <1>1, <1>2, <1>3, <2>1 DEF IInv, Recorded
  <2>3. Len(records') <= 2 * N
    BY <1>2, <1>3 DEF Exchanges
  <2> QED BY <1>1, <1>2, <1>3, <2>2, <2>3, StopLeads DEF IInv, Recorded
<1>8. Chosen'
  <2>1. current' = 2 * N => ~ (current' <= N)
    BY <1>2
  <2>2. /\ current' <= N <=> current <= N
        /\ stage' \in {"report", "done"} => current' = 2 * N
    BY <1>2, StopLeads
  <2>3. \A k \in Nat : k = 2 * N => ~ (k <= N)
    BY <1>2
  <2>4. stage' \in {"report", "done"} => chosen # None
    BY <1>2, <2>2, <2>3, StopLeads DEF IInv, Chosen
  <2> QED BY <1>1, <2>2, <2>4, CommonStays DEF IInv, Chosen
<1>9. Confirmations'
  BY <1>1 DEF IInv, Confirmations
<1> QED BY <1>4, <1>5, <1>6, <1>7, <1>8, <1>9 DEF IInv

(* When all have answered, Iris's intersection holds the common slots.     *)
LEMMA IntersectionIsCommon == IInv /\ stage = "decide" => Intersection = Common
<1> SUFFICES ASSUME IInv, stage = "decide" PROVE Intersection = Common
  OBVIOUS
<1>1. current = N /\ Len(records) = N /\ N \in Nat \ {0} /\ DOMAIN Order = 1 .. N
  BY Numbering DEF IInv, Recorded
<1>2. ASSUME NEW i \in 1 .. N
      PROVE  records[i].response = SlotsAvailable(Candidates, busy[Order[i]])
  <2>1. i \in Exchanges /\ i <= N
    BY <1>1 DEF Exchanges
  <2>2. captured[i] # None
    BY <1>1, <2>1 DEF IInv, Answers
  <2>3. records[i].response = captured[i]
    BY <1>1, <2>1 DEF IInv, Recorded
  <2> QED BY <2>1, <2>2, <2>3 DEF IInv, Answers
<1>3. Common = {slot \in Candidates :
                  \A i \in 1 .. N :
                    slot \in SlotsAvailable(Candidates, busy[Order[i]])}
  BY CommonIsAnswered DEF IInv
<1> QED BY <1>1, <1>2, <1>3 DEF Intersection

LEMMA DecidePreserves == IInv /\ Decide => IInv'
<1> SUFFICES ASSUME IInv, Decide PROVE IInv'
  OBVIOUS
<1>1. /\ stage = "decide" /\ current = N /\ chosen = None
      /\ UNCHANGED <<busy, listening, request, captured, ledger, records, result>>
      /\ N \in Nat \ {0}
  BY Numbering DEF Decide, IInv, Recorded, Chosen
<1>2. Common' = Common
  BY <1>1, CommonStays
<1>3. request = None /\ listening = {}
  BY <1>1 DEF IInv, Serving
<1>4. CASE Intersection = {}
  <2>1. stage' = "report" /\ UNCHANGED <<current, chosen>>
    BY <1>4 DEF Decide
  <2>2. Types' /\ Serving' /\ Recorded'
    BY <1>1, <1>3, <2>1 DEF IInv, Types, Stages, Serving, Recorded
  <2>3. Answers'
    BY <1>1, <2>1 DEF IInv, Answers, SlotsAvailable
  <2>4. Chosen'
    BY <1>1, <1>2, <1>4, <2>1, IntersectionIsCommon DEF IInv, Chosen
  <2>5. Confirmations'
    BY <1>1, <2>1 DEF IInv, Confirmations
  <2> QED BY <2>2, <2>3, <2>4, <2>5 DEF IInv
<1>5. CASE Intersection # {}
  <2>1. /\ chosen' \in Common /\ \A other \in Common : chosen' <= other
        /\ current' = N + 1 /\ stage' = "start"
    BY <1>1, <1>5, IntersectionIsCommon DEF Decide
  <2>2. chosen' \in Candidates /\ chosen' # None
    BY <2>1, NoneIsNoAnswer DEF Common
  <2>3. current' \in Exchanges /\ ~ (current' <= N)
    BY <1>1, <2>1 DEF Exchanges
  <2>4. Types'
    BY <1>1, <2>1, <2>2, <2>3 DEF IInv, Types, Stages
  <2>5. Serving'
    BY <1>1, <1>3, <2>1 DEF Serving
  <2>6. Answers'
    <3>1. \A k \in Exchanges :
            SlotsAvailable(Candidates, busy[Order[k]])' =
              SlotsAvailable(Candidates, busy[Order[k]])
      BY <1>1 DEF SlotsAvailable
    <3>2. \A k \in Exchanges : k \in Nat
      BY Numbering
    <3>3. /\ \A k \in Exchanges : k <= N => captured[k] # None
          /\ \A k \in Exchanges : k > N => captured[k] = None
      BY <1>1, <3>2 DEF IInv, Answers
    <3> QED BY <1>1, <2>1, <2>3, <3>1, <3>2, <3>3 DEF IInv, Answers
  <2>7. Recorded'
    BY <1>1, <2>1 DEF IInv, Recorded
  <2>8. Chosen'
    BY <1>2, <2>1, <2>2, <2>3 DEF Chosen
  <2>9. Confirmations'
    BY <1>1, <2>1 DEF IInv, Confirmations
  <2> QED BY <2>4, <2>5, <2>6, <2>7, <2>8, <2>9 DEF IInv
<1> QED BY <1>4, <1>5

LEMMA ReportPreserves == IInv /\ Report => IInv'
<1> SUFFICES ASSUME IInv, Report PROVE IInv'
  OBVIOUS
<1>1. /\ stage = "report" /\ stage' = "done"
      /\ result'.exchanges = records
      /\ UNCHANGED <<busy, current, listening, request, captured, ledger,
                     records, chosen>>
  BY DEF Report
<1>2. Types' /\ Serving'
  BY <1>1 DEF IInv, Types, Stages, Serving
<1>3. Answers'
  BY <1>1 DEF IInv, Answers, SlotsAvailable
<1>4. Recorded'
  BY <1>1 DEF IInv, Recorded
<1>5. Chosen'
  BY <1>1, CommonStays DEF IInv, Chosen
<1>6. Confirmations'
  BY <1>1 DEF IInv, Confirmations
<1> QED BY <1>2, <1>3, <1>4, <1>5, <1>6 DEF IInv

LEMMA StutterPreserves == IInv /\ UNCHANGED vars => IInv'
<1> SUFFICES ASSUME IInv, UNCHANGED vars PROVE IInv'
  OBVIOUS
<1> USE DEF vars, IInv
<1>1. Types' /\ Recorded' /\ Confirmations'
  BY DEF Types, Recorded, Confirmations
<1>2. Serving' /\ Answers'
  BY DEF Serving, Proposal, Peer, Answers, SlotsAvailable
<1>3. Chosen'
  BY CommonStays DEF Chosen
<1> QED BY <1>1, <1>2, <1>3

LEMMA NextIInv == IInv /\ [Next]_vars => IInv'
BY StartPreserves, StartRaisesPreserves, SendPreserves, ServePreserves,
   ReturnPreserves, GiveUpPreserves, StopPreserves, AbandonPreserves,
   StopRaisesPreserves, DecidePreserves, ReportPreserves, StutterPreserves DEF Next

-----------------------------------------------------------------------------
(* The theorems *)

(* The invariant holds in every reachable state (run_four_party and its    *)
(* bilateral exchanges, whichever call raises).                            *)
THEOREM NegotiationInvariant == Spec => []IInv
BY InitIInv, NextIInv, PTL DEF Spec

(* Every variable of the negotiation keeps its type, and a result carries  *)
(* one record per exchange made (run_four_party).                          *)
THEOREM TypeCorrect == Spec => []TypeOK
<1>1. IInv => TypeOK
  <2> SUFFICES ASSUME IInv PROVE TypeOK
    OBVIOUS
  <2>1. listening \subseteq Peers
    BY Numbering DEF IInv, Types, Serving
  <2> QED BY <2>1 DEF IInv, Types, Recorded, TypeOK
<1> QED BY <1>1, NegotiationInvariant, PTL

(* Whatever failed before or fails later, a peer's ledger holds a          *)
(* confirmation only for the earliest slot free in every peer's calendar   *)
(* (the two phases of run_four_party and the intersection between them).   *)
THEOREM OnlyTheCommonSlotIsConfirmed == Spec => []ConfirmedSlotIsCommon
<1>1. IInv => ConfirmedSlotIsCommon
  <2> SUFFICES ASSUME IInv,
                      NEW p \in Peers, NEW i \in DOMAIN ledger[p],
                      ledger[p][i].task > N
               PROVE  \E slot \in Common :
                        /\ ledger[p][i].payload = {slot}
                        /\ \A other \in Common : slot <= other
    BY DEF ConfirmedSlotIsCommon
  <2>1. ledger[p] \in Seq(ResiduesOf(Exchanges, SUBSET Candidates))
    BY Numbering DEF IInv, Types
  <2>2. i \in 1 .. Len(ledger[p])
    BY <2>1
  <2>3. chosen # None /\ ledger[p][i].payload = {chosen}
    BY <2>2 DEF IInv, Confirmations
  <2> QED BY <2>3 DEF IInv, Chosen
<1> QED BY <1>1, NegotiationInvariant, PTL

(* One listener at a time, that of the peer being asked, and none once the *)
(* run has ended, unless stopping it is what ended it (_run_bilateral's    *)
(* finally).                                                               *)
THEOREM OneListenerAtATime == Spec => []ListenersAreSequential
<1>1. IInv => ListenersAreSequential
  <2> SUFFICES ASSUME IInv PROVE ListenersAreSequential
    OBVIOUS
  <2>1. listening = {} \/ listening = {Peer(current)}
    BY DEF IInv, Serving
  <2>2. Cardinality(listening) <= 1
    <3>1. CASE listening = {}
      <4>1. Cardinality(listening) = 0
        BY <3>1, FS_EmptySet
      <4> QED BY <4>1
    <3>2. CASE listening = {Peer(current)}
      <4>1. Cardinality(listening) = 1
        BY <3>2, FS_Singleton
      <4> QED BY <4>1
    <3> QED BY <2>1, <3>1, <3>2
  <2> QED BY <2>2 DEF IInv, Serving, ListenersAreSequential
<1> QED BY <1>1, NegotiationInvariant, PTL

-----------------------------------------------------------------------------
(* The refinement *)

(* A peer that has confirmed is one whose confirmation was handled.        *)
LEMMA ConfirmedGrows ==
  ASSUME IInv, Serve
  PROVE  IF current <= N THEN UNCHANGED Confirmed
         ELSE \E i \in DOMAIN Order \ Confirmed :
                /\ 1 .. i - 1 \subseteq Confirmed
                /\ Confirmed' = Confirmed \cup {i}
<1>1. /\ current \in Exchanges /\ current \in Nat /\ N \in Nat \ {0}
      /\ DOMAIN Order = 1 .. N
      /\ captured \in [Exchanges -> {None} \cup SUBSET Candidates]
  BY Numbering DEF IInv, Types
<1>2. captured[current] = None /\ request = Proposal(current)
  BY DEF IInv, Serving, Serve
<1>3. captured' = [captured EXCEPT ![current] = Answer(current, request)]
      /\ Answer(current, request) # None
  BY <1>1, <1>2, ProposalsAndAnswers, ChosenForPhase DEF IInv, Serve
<1>4. \A i \in 1 .. N : N + i \in Exchanges /\ N + i > N
  BY <1>1 DEF Exchanges
<1>5. CASE current <= N
  <2>1. \A i \in 1 .. N : captured'[N + i] = captured[N + i]
    BY <1>1, <1>3, <1>4, <1>5
  <2> QED BY <1>1, <1>5, <2>1 DEF Confirmed
<1>6. CASE ~ (current <= N)
  <2> DEFINE i == current - N
  <2>1. i \in 1 .. N /\ N + i = current
    BY <1>1, <1>6 DEF Exchanges
  <2>2. \A j \in 1 .. N : j # i => captured'[N + j] = captured[N + j]
    BY <1>1, <1>3, <1>4, <2>1
  <2>3. captured'[N + i] # None /\ captured[N + i] = None
    BY <1>1, <1>2, <1>3, <2>1
  <2>4. \A j \in 1 .. i - 1 : j \in 1 .. N /\ captured[N + j] # None
    <3>1. \A j \in 1 .. i - 1 : j \in 1 .. N /\ N + j < current
      BY <1>1, <2>1
    <3> QED BY <1>4, <3>1 DEF IInv, Answers
  <2> HIDE DEF i
  <2>5. i \in DOMAIN Order \ Confirmed
    BY <1>1, <2>1, <2>3 DEF Confirmed
  <2>6. 1 .. i - 1 \subseteq Confirmed
    BY <1>1, <2>4 DEF Confirmed
  <2>7. Confirmed' = Confirmed \cup {i}
    BY <1>1, <2>1, <2>2, <2>3 DEF Confirmed
  <2> QED BY <1>6, <2>5, <2>6, <2>7
<1> QED BY <1>5, <1>6

(* The initial states map to initial states.                               *)
LEMMA InitImplements == Init => Abstract!GInit
<1> SUFFICES ASSUME Init PROVE Abstract!GInit
  OBVIOUS
<1>1. \A i \in DOMAIN Order : captured[N + i] = None
  <2>1. \A i \in 1 .. N : N + i \in Exchanges
    BY Numbering DEF Exchanges
  <2> QED BY <2>1, Numbering DEF Init
<1>2. Confirmed = {}
  BY <1>1 DEF Confirmed
<1>3. Outcome = "open"
  BY DEF Init, Outcome
<1> QED BY <1>2, <1>3 DEF Init, Abstract!GInit

(* Every step of the run is a step of the group commitment or none.        *)
LEMMA NextImplements == IInv /\ [Next]_vars => [Abstract!GNext]_(Abstract!gvars)
<1> SUFFICES ASSUME IInv, [Next]_vars
             PROVE  Abstract!GNext \/ UNCHANGED Abstract!gvars
  OBVIOUS
<1>1. ASSUME UNCHANGED <<busy, chosen, captured>>, UNCHANGED Outcome
      PROVE  UNCHANGED Abstract!gvars
  BY <1>1, CommonStays DEF Confirmed, Abstract!gvars
<1>2. ASSUME UNCHANGED <<busy, chosen, captured>>, Outcome = "open",
             Outcome' \in {"failing", "failed"}
      PROVE  Abstract!GNext
  <2>1. UNCHANGED <<Common, chosen, Confirmed>>
    BY <1>2, CommonStays DEF Confirmed
  <2> QED BY <1>2, <2>1 DEF Abstract!GNext, Abstract!Fail
<1>3. CASE StartListener \/ Send \/ Return \/ GiveUp
  BY <1>1, <1>3 DEF StartListener, Send, Return, GiveUp, Outcome
<1>4. CASE StartListenerRaises \/ Abandon \/ StopRaises
  BY <1>2, <1>4 DEF StartListenerRaises, Abandon, StopRaises, Outcome
<1>5. CASE Stop
  <2>1. stage' \in {"start", "decide", "report"}
    BY <1>5, StopLeads
  <2> QED BY <1>1, <1>5, <2>1 DEF Stop, Outcome
<1>6. CASE Serve
  <2>1. /\ UNCHANGED <<busy, chosen, stage>>
        /\ stage \in {"wait", "abandon", "unstopped"}
        /\ request # None /\ request' = None
    BY <1>6 DEF IInv, Serving, Serve
  <2>2. UNCHANGED <<Common, chosen>>
    BY <2>1, CommonStays
  <2>3. CASE stage # "unstopped"
    <3>1. Outcome = "open" /\ UNCHANGED Outcome
      BY <2>1, <2>3 DEF Outcome
    <3>2. CASE current <= N
      BY <1>6, <2>2, <3>1, <3>2, ConfirmedGrows DEF Abstract!gvars
    <3>3. CASE ~ (current <= N)
      BY <1>6, <2>2, <3>1, <3>3, ConfirmedGrows, ChosenForPhase
      DEF Abstract!GNext, Abstract!ConfirmNext, Abstract!NextConfirms
    <3> QED BY <3>2, <3>3
  <2>4. CASE stage = "unstopped"
    <3>1. Outcome = "failing" /\ Outcome' = "failed"
      BY <2>1, <2>4 DEF Outcome
    <3>2. Abstract!NextConfirms \/ UNCHANGED Confirmed
      BY <1>6, ConfirmedGrows, ChosenForPhase DEF Abstract!NextConfirms
    <3> QED BY <2>2, <3>1, <3>2 DEF Abstract!GNext, Abstract!AnswerLate
  <2> QED BY <2>3, <2>4
<1>7. CASE Decide
  <2>1. /\ UNCHANGED <<busy, captured>> /\ stage = "decide"
        /\ Outcome = "open" /\ chosen = None
    BY <1>7, Numbering DEF Decide, Outcome, IInv, Chosen, Recorded
  <2>2. UNCHANGED <<Common, Confirmed>>
    BY <2>1, CommonStays DEF Confirmed
  <2>3. CASE Intersection = {}
    BY <1>1, <1>7, <2>1, <2>3 DEF Decide, Outcome
  <2>4. CASE Intersection # {}
    <3>1. /\ chosen' \in Common /\ \A other \in Common : chosen' <= other
          /\ Outcome' = "open"
      BY <1>7, <2>1, <2>4, IntersectionIsCommon DEF Decide, Outcome
    <3> QED BY <2>1, <2>2, <3>1 DEF Abstract!GNext, Abstract!Fix
  <2> QED BY <2>3, <2>4
<1>8. CASE Report
  <2>1. /\ UNCHANGED <<busy, captured, chosen>> /\ stage = "report"
        /\ stage' = "done" /\ Outcome = "open"
    BY <1>8 DEF Report, Outcome
  <2>2. UNCHANGED <<Common, chosen, Confirmed>>
    BY <2>1, CommonStays DEF Confirmed
  <2>3. CASE chosen = None
    <3>1. Common = {} /\ Outcome' = "no_common_slot"
      BY <2>1, <2>3 DEF IInv, Chosen, Outcome
    <3> QED BY <2>1, <2>2, <3>1 DEF Abstract!GNext, Abstract!NoCommonSlot
  <2>4. CASE chosen # None
    <3>1. current = 2 * N /\ Outcome' = "success"
      BY <2>1, <2>4 DEF IInv, Chosen, Outcome
    <3>2. \A i \in 1 .. N : N + i \in Exchanges /\ N + i <= 2 * N
      BY Numbering DEF Exchanges
    <3>3. \A i \in 1 .. N : N + i < current \/ N + i = current
      BY <3>1, <3>2, Numbering
    <3>4. \A i \in 1 .. N : captured[N + i] # None
      BY <2>1, <3>2, <3>3 DEF IInv, Answers
    <3>5. Confirmed = DOMAIN Order
      BY <3>4, Numbering DEF Confirmed
    <3> QED BY <2>1, <2>2, <2>4, <3>1, <3>5
            DEF Abstract!GNext, Abstract!Succeed
  <2> QED BY <2>3, <2>4
<1>9. CASE UNCHANGED vars
  BY <1>1, <1>9 DEF vars, Outcome
<1> QED BY <1>3, <1>4, <1>5, <1>6, <1>7, <1>8, <1>9 DEF Next

(* The run implements the group commitment: one slot, the earliest common  *)
(* one, confirmed by the peers one after another, never taken back, after  *)
(* a failure by nobody but a peer whose listener could not be stopped, and *)
(* success declared only when all have confirmed (run_four_party).         *)
THEOREM RunImplementsGroupCommit == Spec => ImplementsGroupCommit
BY InitImplements, NextImplements, InitIInv, NextIInv, PTL
DEF Spec, ImplementsGroupCommit, Abstract!GSpec

-----------------------------------------------------------------------------
(* What backs a result *)

(* What Iris and the peer log of exchange k.                               *)
SentProposal(k) == Residue("emit", "proposal", k, Proposal(k))
SentAnswer(k) == Residue("receive", "acceptance", k, captured[k])
GotProposal(k) == Residue("receive", "proposal", k, Proposal(k))
GotAnswer(k) == Residue("emit", "acceptance", k, captured[k])

(* How many exchanges have returned to Iris, unless the run has ended with *)
(* a listener that could not be stopped.                                   *)
Returned ==
  IF stage \in {"stop", "decide", "report", "done"} THEN current ELSE current - 1

IrisLogged ==
  stage # "unstopped" =>
    /\ Len(ledger[Iris]) = 2 * Returned
    /\ \A k \in 1 .. Returned : /\ ledger[Iris][2 * k - 1] = SentProposal(k)
                                /\ ledger[Iris][2 * k] = SentAnswer(k)

PeerLogged(i) ==
  /\ captured[i] = None => Len(ledger[Order[i]]) = 0
  /\ captured[i] # None /\ captured[N + i] = None => Len(ledger[Order[i]]) = 2
  /\ captured[N + i] # None => Len(ledger[Order[i]]) = 4
  /\ captured[i] # None => /\ ledger[Order[i]][1] = GotProposal(i)
                           /\ ledger[Order[i]][2] = GotAnswer(i)
  /\ captured[N + i] # None => /\ ledger[Order[i]][3] = GotProposal(N + i)
                               /\ ledger[Order[i]][4] = GotAnswer(N + i)

PeersLogged == \A i \in 1 .. N : PeerLogged(i)

RecordOf(k) ==
  [task |-> k, response |-> captured[k],
   iris |-> <<SentProposal(k), SentAnswer(k)>>,
   peer |-> <<GotProposal(k), GotAnswer(k)>>]

RecordsBacked == \A k \in 1 .. Len(records) : records[k] = RecordOf(k)

(* What Report draws up.                                                   *)
ReportNow ==
  [success   |-> chosen # None,
   slot      |-> chosen,
   exchanges |-> records,
   iris      |-> ByTasks(ledger[Iris], {records[k].task : k \in DOMAIN records}),
   summaries |-> [i \in DOMAIN Order |-> ByTasks(ledger[Order[i]], Covered(i))]]

Reported == result # None => stage = "done" /\ result = ReportNow

Backed == IrisLogged /\ PeersLogged /\ RecordsBacked /\ Reported

-----------------------------------------------------------------------------
(* What is in a ledger, task by task *)

(* Every ledger is a sequence.                                             *)
LEMMA LedgersAreSequences ==
  ASSUME Types, NEW p \in Principals
  PROVE  IsSequence(ledger[p])
<1>1. ledger[p] \in Seq(ResiduesOf(Exchanges, SUBSET Candidates))
  BY DEF Types
<1> QED BY <1>1, LenProperties DEF IsSequence

(* The m entries after the a-th.                                           *)
Segment(s, a, m) == [n \in 1 .. m |-> s[a + n]]

(* Residues of some tasks that follow one another are found in that order. *)
LEMMA ConsecutiveByTasks ==
  ASSUME NEW s, IsSequence(s), NEW tasks, NEW a \in Nat, NEW m \in Nat,
         a + m <= Len(s),
         \A i \in 1 .. Len(s) : s[i].task \in tasks <=> i \in a + 1 .. a + m
  PROVE  ByTasks(s, tasks) = Segment(s, a, m)
<1> DEFINE mine == {i \in DOMAIN s : s[i].task \in tasks}
           Rank(i) == Cardinality({j \in mine : j <= i})
<1>1. DOMAIN s = 1 .. Len(s) /\ Len(s) \in Nat
  BY DEF IsSequence
<1>2. mine = a + 1 .. a + m
  BY <1>1
<1>3. ByTasks(s, tasks) = [n \in 1 .. Cardinality(mine) |->
                             s[CHOOSE i \in mine : Rank(i) = n]]
  BY DEF ByTasks
<1> HIDE DEF mine
<1>4. Cardinality(mine) = m
  <2>1. Cardinality(a + 1 .. a + m) =
          IF a + 1 > a + m THEN 0 ELSE (a + m) - (a + 1) + 1
    BY FS_Interval
  <2> QED BY <1>2, <2>1
<1>5. ASSUME NEW i \in mine PROVE Rank(i) = i - a
  <2>1. i \in Nat /\ a + 1 <= i /\ i <= a + m
    BY <1>2
  <2>2. {j \in mine : j <= i} = a + 1 .. i
    BY <1>2, <2>1
  <2>3. Cardinality(a + 1 .. i) = IF a + 1 > i THEN 0 ELSE i - (a + 1) + 1
    BY <2>1, FS_Interval
  <2>4. Cardinality(a + 1 .. i) = i - a
    BY <2>1, <2>3
  <2> QED BY <2>2, <2>4
<1> HIDE DEF Rank
<1>6. ASSUME NEW n \in 1 .. m
      PROVE  (CHOOSE i \in mine : Rank(i) = n) = a + n
  <2>1. a + n \in mine
    BY <1>2
  <2>2. \A i \in mine : Rank(i) = n <=> i = a + n
    BY <1>2, <1>5
  <2> QED BY <2>1, <2>2
<1> QED BY <1>3, <1>4, <1>6 DEF Segment

(* The two residues of one task.                                           *)
LEMMA PairByTask ==
  ASSUME NEW s, IsSequence(s), NEW task, NEW a \in Nat, a + 2 <= Len(s),
         \A i \in 1 .. Len(s) : s[i].task = task <=> i \in {a + 1, a + 2}
  PROVE  ByTask(s, task) = <<s[a + 1], s[a + 2]>>
<1>1. \A i \in 1 .. Len(s) : s[i].task \in {task} <=> i \in a + 1 .. a + 2
  OBVIOUS
<1>2. ByTasks(s, {task}) = Segment(s, a, 2)
  <2>1. 2 \in Nat
    OBVIOUS
  <2> QED BY <1>1, <2>1, ConsecutiveByTasks, Zenon
<1>3. Segment(s, a, 2) = <<s[a + 1], s[a + 2]>>
  BY DEF Segment
<1> QED BY <1>2, <1>3 DEF ByTask

(* All of it, when every residue is of one of the tasks.                   *)
LEMMA AllByTasks ==
  ASSUME NEW s, IsSequence(s), NEW tasks,
         \A i \in 1 .. Len(s) : s[i].task \in tasks
  PROVE  ByTasks(s, tasks) = s
<1>1. Len(s) \in Nat /\ s = [i \in 1 .. Len(s) |-> s[i]]
  BY DEF IsSequence
<1>2. ByTasks(s, tasks) = Segment(s, 0, Len(s))
  <2>1. 0 \in Nat /\ Len(s) \in Nat /\ 0 + Len(s) <= Len(s)
    BY <1>1
  <2>2. \A i \in 1 .. Len(s) :
          s[i].task \in tasks <=> i \in 0 + 1 .. 0 + Len(s)
    BY <1>1
  <2> QED BY <2>1, <2>2, ConsecutiveByTasks, Zenon
<1>3. Segment(s, 0, Len(s)) = [n \in 1 .. Len(s) |-> s[n]]
  BY <1>1 DEF Segment
<1> QED BY <1>1, <1>2, <1>3

-----------------------------------------------------------------------------
(* What backs a result is an invariant *)

LEMMA InitBacked == Init => Backed
<1> SUFFICES ASSUME Init PROVE Backed
  OBVIOUS
<1>1. Returned = 0
  BY DEF Init, Returned
<1>2. \A p \in Principals : Len(ledger[p]) = 0
  BY DEF Init
<1>3. IrisLogged
  BY <1>1, <1>2, Numbering DEF IrisLogged
<1>4. \A i \in 1 .. N : /\ captured[i] = None /\ captured[N + i] = None
                        /\ Order[i] \in Principals
  <2>1. \A i \in 1 .. N : i \in Exchanges /\ N + i \in Exchanges
    BY Numbering DEF Exchanges
  <2>2. \A i \in 1 .. N : Order[i] \in Principals
    BY Numbering DEF Peers
  <2> QED BY <2>1, <2>2 DEF Init
<1>5. PeersLogged
  BY <1>2, <1>4 DEF PeersLogged, PeerLogged
<1>6. RecordsBacked /\ Reported
  BY DEF Init, RecordsBacked, Reported
<1> QED BY <1>3, <1>5, <1>6 DEF Backed

(* Before the report there is no result.                                   *)
LEMMA NoResultYet == Backed /\ stage # "done" => result = None
BY DEF Backed, Reported

(* A step that logs, records and chooses nothing.                          *)
LEMMA NothingLogged ==
  ASSUME Backed, UNCHANGED <<captured, ledger, records, chosen, result>>,
         result # None => stage' = "done",
         stage' = "unstopped" \/ (stage # "unstopped" /\ UNCHANGED Returned)
  PROVE  Backed'
<1>1. IrisLogged'
  BY DEF Backed, IrisLogged, SentProposal, SentAnswer, Proposal
<1>2. PeersLogged'
  BY DEF Backed, PeersLogged, PeerLogged, GotProposal, GotAnswer, Proposal
<1>3. RecordsBacked'
  BY DEF Backed, RecordsBacked, RecordOf, SentProposal, SentAnswer,
         GotProposal, GotAnswer, Proposal
<1>4. Reported'
  BY DEF Backed, Reported, ReportNow, Covered
<1> QED BY <1>1, <1>2, <1>3, <1>4 DEF Backed

(* What serving the exchange under way adds to its peer's ledger.          *)
LEMMA ServeAppends ==
  ASSUME IInv, Serve
  PROVE  LET p == Peer(current) IN
         /\ captured[current] = None /\ captured'[current] # None
         /\ \A k \in Exchanges : k # current => captured'[k] = captured[k]
         /\ \A q \in Principals : q # p => ledger'[q] = ledger[q]
         /\ Len(ledger'[p]) = Len(ledger[p]) + 2
         /\ \A i \in 1 .. Len(ledger[p]) : ledger'[p][i] = ledger[p][i]
         /\ ledger'[p][Len(ledger[p]) + 1] = GotProposal(current)
         /\ ledger'[p][Len(ledger[p]) + 2] = GotAnswer(current)'
<1> DEFINE p == Peer(current)
           s == ledger[p]
           answer == Answer(current, request)
           r1 == Residue("receive", "proposal", current, request)
           r2 == Residue("emit", "acceptance", current, answer)
<1>1. /\ request = Proposal(current) /\ captured[current] = None
      /\ current \in Exchanges /\ p \in Principals
  BY Numbering DEF IInv, Serving, Serve, Types
<1>2. answer # None
  BY <1>1, ProposalsAndAnswers, ChosenForPhase DEF IInv
<1>3. /\ captured' = [captured EXCEPT ![current] = answer]
      /\ ledger' = [ledger EXCEPT ![p] = Append(Append(s, r1), r2)]
      /\ current' = current
  BY DEF Serve, LogAnswered, LogReceived
<1>4. IsSequence(s)
  BY <1>1, LedgersAreSequences DEF IInv
<1>5. r1 = GotProposal(current)
  BY <1>1 DEF GotProposal
<1>6. /\ captured'[current] = answer
      /\ \A k \in Exchanges : k # current => captured'[k] = captured[k]
  BY <1>1, <1>3 DEF IInv, Types
<1>7. r2 = GotAnswer(current)'
  BY <1>3, <1>6 DEF GotAnswer
<1>8. /\ ledger'[p] = Append(Append(s, r1), r2)
      /\ \A q \in Principals : q # p => ledger'[q] = ledger[q]
  BY <1>1, <1>3 DEF IInv, Types
<1> HIDE DEF p, s, answer, r1, r2
<1> DEFINE t == Append(s, r1)
<1>9. /\ IsSequence(t) /\ Len(t) = Len(s) + 1
      /\ \A i \in 1 .. Len(s) : t[i] = s[i]
      /\ t[Len(s) + 1] = r1
  BY <1>4, Appended
<1>10. Len(s) \in Nat
  BY <1>4 DEF IsSequence
<1> HIDE DEF t
<1>11. /\ Len(Append(t, r2)) = Len(t) + 1
       /\ \A i \in 1 .. Len(t) : Append(t, r2)[i] = t[i]
       /\ Append(t, r2)[Len(t) + 1] = r2
  BY <1>9, Appended
<1>12. ledger'[p] = Append(t, r2)
  BY <1>8 DEF t
<1>13. /\ Len(ledger'[p]) = Len(s) + 2
       /\ \A i \in 1 .. Len(s) : ledger'[p][i] = s[i]
       /\ ledger'[p][Len(s) + 1] = r1
       /\ ledger'[p][Len(s) + 2] = r2
  BY <1>9, <1>10, <1>11, <1>12
<1> QED BY <1>1, <1>2, <1>5, <1>6, <1>7, <1>8, <1>13 DEF p, s

LEMMA ServeBacked == IInv /\ Backed /\ Serve => Backed'
<1> SUFFICES ASSUME IInv, Backed, Serve PROVE Backed'
  OBVIOUS
<1>1. /\ UNCHANGED <<current, stage, records, chosen, result>>
      /\ stage \in {"wait", "abandon", "unstopped"} /\ current \in Exchanges
      /\ current \in 1 .. 2 * N /\ N \in Nat \ {0}
  BY Numbering DEF IInv, Serving, Serve, Types, Exchanges
<1>2. \A k \in Exchanges : Proposal(k)' = Proposal(k)
  BY <1>1 DEF Proposal
<1>3. \A k \in Exchanges : k # current => captured'[k] = captured[k]
  BY ServeAppends
<1>4. IrisLogged'
  <2>1. ledger'[Iris] = ledger[Iris]
    BY <1>1, ServeAppends, Numbering
  <2>2. Returned' = current - 1 /\ Returned = current - 1
    BY <1>1 DEF Returned
  <2>3. ASSUME NEW k \in 1 .. current - 1
        PROVE  SentProposal(k)' = SentProposal(k) /\ SentAnswer(k)' = SentAnswer(k)
    <3>1. k \in Exchanges /\ k # current
      BY <1>1 DEF Exchanges
    <3> QED BY <1>2, <1>3, <3>1 DEF SentProposal, SentAnswer
  <2> QED BY <1>1, <2>1, <2>2, <2>3 DEF Backed, IrisLogged
<1>5. PeersLogged'
  <2> SUFFICES ASSUME NEW i \in 1 .. N PROVE PeerLogged(i)'
    BY <1>1 DEF PeersLogged
  <2>1. /\ i \in Exchanges /\ N + i \in Exchanges /\ i \in 1 .. N
        /\ Order[i] \in Principals
    BY <1>1, Numbering DEF Exchanges, Peers, Principals
  <2>2. PeerLogged(i)
    BY DEF Backed, PeersLogged
  <2>3. CASE current \notin {i, N + i}
    <3>1. Order[i] # Peer(current)
      <4>1. \A j \in 1 .. N : Order[j] = Order[i] => j = i
        BY GroupAssumption, Numbering
      <4>2. IF current <= N THEN current \in 1 .. N ELSE current - N \in 1 .. N
        BY <1>1
      <4> QED BY <1>1, <2>3, <4>1, <4>2 DEF Peer
    <3>2. ledger'[Order[i]] = ledger[Order[i]]
      BY <2>1, <3>1, ServeAppends
    <3>3. captured'[i] = captured[i] /\ captured'[N + i] = captured[N + i]
      BY <1>3, <2>1, <2>3
    <3> QED BY <1>2, <2>1, <2>2, <3>2, <3>3 DEF PeerLogged, GotProposal, GotAnswer
  <2>4. CASE current = i
    <3>1. Peer(current) = Order[i]
      BY <2>4, <1>1 DEF Peer
    <3>2. captured[i] = None /\ captured'[i] # None
      BY <2>4, ServeAppends
    <3>3. captured[N + i] = None /\ captured'[N + i] = None
      <4>1. N + i > current /\ N + i # current
        BY <1>1, <2>4
      <4> QED BY <1>3, <2>1, <4>1 DEF IInv, Answers
    <3>4. Len(ledger[Order[i]]) = 0
      BY <2>2, <3>2 DEF PeerLogged
    <3>5. /\ Len(ledger'[Order[i]]) = 2
          /\ ledger'[Order[i]][1] = GotProposal(i)
          /\ ledger'[Order[i]][2] = GotAnswer(i)'
      BY <1>1, <2>4, <3>1, <3>4, ServeAppends
    <3> QED BY <1>2, <2>1, <3>2, <3>3, <3>5 DEF PeerLogged, GotProposal
  <2>5. CASE current = N + i
    <3>1. Peer(current) = Order[i] /\ i < current /\ i # current
      BY <2>5, <1>1 DEF Peer
    <3>2. captured[N + i] = None /\ captured'[N + i] # None
      BY <2>5, ServeAppends
    <3>3. captured[i] # None /\ captured'[i] = captured[i]
      BY <1>3, <2>1, <3>1 DEF IInv, Answers
    <3>4. /\ Len(ledger[Order[i]]) = 2
          /\ ledger[Order[i]][1] = GotProposal(i)
          /\ ledger[Order[i]][2] = GotAnswer(i)
      BY <2>2, <3>2, <3>3 DEF PeerLogged
    <3>5. /\ Len(ledger'[Order[i]]) = 4
          /\ ledger'[Order[i]][1] = ledger[Order[i]][1]
          /\ ledger'[Order[i]][2] = ledger[Order[i]][2]
          /\ ledger'[Order[i]][3] = GotProposal(N + i)
          /\ ledger'[Order[i]][4] = GotAnswer(N + i)'
      <4>1. GotAnswer(N + i)' = GotAnswer(current)'
        BY <1>1, <2>5 DEF GotAnswer
      <4>2. /\ Len(ledger'[Order[i]]) = 2 + 2
            /\ \A j \in 1 .. 2 : ledger'[Order[i]][j] = ledger[Order[i]][j]
            /\ ledger'[Order[i]][2 + 1] = GotProposal(current)
            /\ ledger'[Order[i]][2 + 2] = GotAnswer(current)'
        BY <3>1, <3>4, ServeAppends
      <4> QED BY <2>5, <4>1, <4>2
    <3>6. GotAnswer(i)' = GotAnswer(i)
      BY <3>3 DEF GotAnswer
    <3> QED BY <1>2, <2>1, <3>2, <3>3, <3>4, <3>5, <3>6
            DEF PeerLogged, GotProposal
  <2> QED BY <2>3, <2>4, <2>5
<1>6. RecordsBacked'
  <2>1. Len(records) = current - 1
    BY <1>1 DEF IInv, Recorded
  <2>2. ASSUME NEW k \in 1 .. Len(records) PROVE RecordOf(k)' = RecordOf(k)
    <3>1. k \in Exchanges /\ k # current
      BY <1>1, <2>1 DEF Exchanges
    <3> QED BY <1>2, <1>3, <3>1
            DEF RecordOf, SentProposal, SentAnswer, GotProposal, GotAnswer
  <2> QED BY <1>1, <2>2 DEF Backed, RecordsBacked
<1>7. Reported'
  BY <1>1, NoResultYet DEF Reported
<1> QED BY <1>4, <1>5, <1>6, <1>7 DEF Backed

LEMMA ReturnBacked == IInv /\ Backed /\ Return => Backed'
<1> SUFFICES ASSUME IInv, Backed, Return PROVE Backed'
  OBVIOUS
<1> DEFINE s == ledger[Iris]
<1>1. /\ UNCHANGED <<current, captured, records, chosen, result>>
      /\ stage = "wait" /\ stage' = "stop" /\ current \in Nat \ {0}
  BY Numbering DEF Return, IInv, Types, Exchanges
<1>2. Returned = current - 1 /\ Returned' = current
  BY <1>1 DEF Returned
<1>3. \A k : /\ SentProposal(k)' = SentProposal(k) /\ SentAnswer(k)' = SentAnswer(k)
             /\ GotProposal(k)' = GotProposal(k) /\ GotAnswer(k)' = GotAnswer(k)
  BY <1>1 DEF SentProposal, SentAnswer, GotProposal, GotAnswer, Proposal
<1>4. ledger'[Iris] = Append(Append(s, SentProposal(current)), SentAnswer(current))
  BY Numbering DEF Return, LogSent, SentProposal, SentAnswer, IInv, Types
<1>5. IsSequence(s) /\ Len(s) = 2 * (current - 1)
  BY <1>1, <1>2, LedgersAreSequences, Numbering DEF IInv, Backed, IrisLogged
<1>6. IrisLogged'
  <2> DEFINE t == Append(s, SentProposal(current))
  <2> HIDE DEF s
  <2>1. /\ IsSequence(t) /\ Len(t) = Len(s) + 1
        /\ \A i \in 1 .. Len(s) : t[i] = s[i]
        /\ t[Len(s) + 1] = SentProposal(current)
    BY <1>5, Appended
  <2> HIDE DEF t
  <2>2. /\ Len(Append(t, SentAnswer(current))) = Len(t) + 1
        /\ \A i \in 1 .. Len(t) : Append(t, SentAnswer(current))[i] = t[i]
        /\ Append(t, SentAnswer(current))[Len(t) + 1] = SentAnswer(current)
    BY <2>1, Appended
  <2>3. ledger'[Iris] = Append(t, SentAnswer(current))
    BY <1>4 DEF s, t
  <2>4. /\ Len(ledger'[Iris]) = 2 * current
        /\ \A i \in 1 .. 2 * (current - 1) : ledger'[Iris][i] = s[i]
        /\ ledger'[Iris][2 * current - 1] = SentProposal(current)
        /\ ledger'[Iris][2 * current] = SentAnswer(current)
    BY <1>1, <1>5, <2>1, <2>2, <2>3
  <2>5. ASSUME NEW k \in 1 .. current
        PROVE  /\ ledger'[Iris][2 * k - 1] = SentProposal(k)
               /\ ledger'[Iris][2 * k] = SentAnswer(k)
    <3>1. CASE k = current
      BY <2>4, <3>1
    <3>2. CASE k # current
      <4>1. /\ k \in 1 .. current - 1
            /\ 2 * k - 1 \in 1 .. 2 * (current - 1)
            /\ 2 * k \in 1 .. 2 * (current - 1)
        BY <1>1, <3>2
      <4>2. s[2 * k - 1] = SentProposal(k) /\ s[2 * k] = SentAnswer(k)
        BY <1>1, <1>2, <4>1 DEF Backed, IrisLogged, s
      <4> QED BY <2>4, <4>1, <4>2
    <3> QED BY <3>1, <3>2
  <2> QED BY <1>2, <1>3, <2>4, <2>5 DEF IrisLogged
<1>7. PeersLogged'
  <2>1. \A i \in 1 .. N : ledger'[Order[i]] = ledger[Order[i]]
    BY ReturnLogs, Numbering DEF Peers
  <2>2. ASSUME NEW i \in 1 .. N PROVE PeerLogged(i)'
    BY <1>1, <1>3, <2>1 DEF Backed, PeersLogged, PeerLogged
  <2> QED BY <2>2 DEF PeersLogged
<1>8. RecordsBacked'
  BY <1>1, <1>3 DEF Backed, RecordsBacked, RecordOf
<1>9. Reported'
  BY <1>1, NoResultYet DEF Reported
<1> QED BY <1>6, <1>7, <1>8, <1>9 DEF Backed

(* Positions come in pairs.                                                *)
LEMMA Halves ==
  ASSUME NEW n \in Nat, NEW i \in 1 .. 2 * n
  PROVE  \E k \in 1 .. n : i \in {2 * k - 1, 2 * k}
<1> DEFINE k == (i + 1) \div 2
<1>1. k \in Int /\ 2 * k <= i + 1 /\ i + 1 < 2 * k + 2
  OBVIOUS
<1> HIDE DEF k
<1>2. k \in 1 .. n /\ i \in {2 * k - 1, 2 * k}
  BY <1>1
<1> QED BY <1>2

(* The task of every residue in Iris's ledger.                             *)
LEMMA IrisTasks ==
  ASSUME Backed, Returned \in Nat, stage # "unstopped"
  PROVE  \A k \in 1 .. Returned : \A i \in 1 .. Len(ledger[Iris]) :
           ledger[Iris][i].task = k <=> i \in {2 * k - 1, 2 * k}
<1> SUFFICES ASSUME NEW k \in 1 .. Returned, NEW i \in 1 .. 2 * Returned
             PROVE  ledger[Iris][i].task = k <=> i \in {2 * k - 1, 2 * k}
  BY DEF Backed, IrisLogged
<1>1. PICK j \in 1 .. Returned : i \in {2 * j - 1, 2 * j}
  BY Halves
<1>2. ledger[Iris][i] \in {SentProposal(j), SentAnswer(j)}
  BY <1>1 DEF Backed, IrisLogged
<1>3. ledger[Iris][i].task = j
  BY <1>2 DEF SentProposal, SentAnswer, Residue
<1> QED BY <1>1, <1>3

(* The record of the exchange that is over holds both sides' residues.     *)
LEMMA RecordIsBacked ==
  ASSUME IInv, Backed, stage = "stop"
  PROVE  Record = RecordOf(current)
<1>1. /\ current \in 1 .. 2 * N /\ current \in Nat \ {0} /\ N \in Nat \ {0}
      /\ Returned = current /\ captured[current] # None
      /\ current \in Exchanges
  BY Numbering DEF IInv, Types, Exchanges, Returned, Answers
<1>2. ByTask(ledger[Iris], current) = <<SentProposal(current), SentAnswer(current)>>
  <2> DEFINE a == 2 * (current - 1)
             s == ledger[Iris]
  <2>1. IsSequence(s) /\ Len(s) = 2 * current
    BY <1>1, LedgersAreSequences, Numbering DEF IInv, Backed, IrisLogged
  <2>2. a \in Nat /\ a + 2 <= Len(s)
        /\ a + 1 = 2 * current - 1 /\ a + 2 = 2 * current
    BY <1>1, <2>1
  <2>3. \A i \in 1 .. Len(s) : s[i].task = current <=> i \in {a + 1, a + 2}
    BY <1>1, <2>2, IrisTasks
  <2>4. /\ s[2 * current - 1] = SentProposal(current)
        /\ s[2 * current] = SentAnswer(current)
    BY <1>1 DEF Backed, IrisLogged
  <2> HIDE DEF a, s
  <2>5. ByTask(s, current) = <<s[a + 1], s[a + 2]>>
    BY <2>1, <2>2, <2>3, PairByTask
  <2> QED BY <2>2, <2>4, <2>5 DEF s
<1>3. ByTask(ledger[Peer(current)], current) =
        <<GotProposal(current), GotAnswer(current)>>
  <2> DEFINE s == ledger[Peer(current)]
  <2>1. IsSequence(s)
    BY <1>1, LedgersAreSequences, Numbering DEF IInv
  <2>2. \A k : GotProposal(k).task = k /\ GotAnswer(k).task = k
    BY DEF GotProposal, GotAnswer, Residue
  <2>3. CASE current <= N
    <3>1. current \in 1 .. N /\ N + current \in Exchanges /\ N + current > current
      BY <1>1, <2>3 DEF Exchanges
    <3>2. captured[N + current] = None
      BY <3>1 DEF IInv, Answers
    <3>3. /\ Peer(current) = Order[current] /\ Len(s) = 2
          /\ s[1] = GotProposal(current) /\ s[2] = GotAnswer(current)
      BY <1>1, <2>3, <3>1, <3>2 DEF Backed, PeersLogged, PeerLogged, Peer
    <3> HIDE DEF s
    <3>4. /\ 0 \in Nat /\ 0 + 2 <= Len(s)
          /\ \A i \in 1 .. Len(s) : s[i].task = current <=> i \in {0 + 1, 0 + 2}
      BY <2>2, <3>3
    <3>5. ByTask(s, current) = <<s[0 + 1], s[0 + 2]>>
      BY <2>1, <3>4, PairByTask
    <3> QED BY <3>3, <3>5 DEF s
  <2>4. CASE ~ (current <= N)
    <3> DEFINE i == current - N
    <3>1. /\ i \in 1 .. N /\ N + i = current /\ i \in Exchanges /\ i < current
          /\ i # current /\ Peer(current) = Order[i]
      BY <1>1, <2>4 DEF Exchanges, Peer
    <3>2. captured[i] # None
      BY <3>1 DEF IInv, Answers
    <3>3. /\ Len(s) = 4 /\ s[1] = GotProposal(i) /\ s[2] = GotAnswer(i)
          /\ s[3] = GotProposal(current) /\ s[4] = GotAnswer(current)
      BY <1>1, <3>1, <3>2 DEF Backed, PeersLogged, PeerLogged
    <3> HIDE DEF s, i
    <3>4. /\ 2 \in Nat /\ 2 + 2 <= Len(s)
          /\ \A j \in 1 .. Len(s) : s[j].task = current <=> j \in {2 + 1, 2 + 2}
      BY <2>2, <3>1, <3>3
    <3>5. ByTask(s, current) = <<s[2 + 1], s[2 + 2]>>
      BY <2>1, <3>4, PairByTask
    <3> QED BY <3>3, <3>5 DEF s
  <2> QED BY <2>3, <2>4
<1> QED BY <1>2, <1>3 DEF Record, RecordOf

LEMMA StopBacked == IInv /\ Backed /\ Stop => Backed'
<1> SUFFICES ASSUME IInv, Backed, Stop PROVE Backed'
  OBVIOUS
<1>1. /\ UNCHANGED <<captured, ledger, chosen, result>> /\ stage = "stop"
      /\ records' = Append(records, Record) /\ current \in Nat \ {0}
      /\ current \in 1 .. 2 * N
  BY Numbering DEF Stop, IInv, Types, Exchanges
<1>2. Returned' = current /\ Returned = current /\ stage' # "done"
  BY <1>1, StopLeads DEF Returned
<1>3. \A k : /\ SentProposal(k)' = SentProposal(k) /\ SentAnswer(k)' = SentAnswer(k)
             /\ GotProposal(k)' = GotProposal(k) /\ GotAnswer(k)' = GotAnswer(k)
             /\ RecordOf(k)' = RecordOf(k)
  BY <1>1 DEF RecordOf, SentProposal, SentAnswer, GotProposal, GotAnswer, Proposal
<1>4. IrisLogged'
  BY <1>1, <1>2, <1>3 DEF Backed, IrisLogged
<1>5. PeersLogged'
  BY <1>1, <1>3 DEF Backed, PeersLogged, PeerLogged
<1>6. RecordsBacked'
  <2>1. IsSequence(records) /\ Len(records) = current - 1
    BY <1>1 DEF IInv, Types, Recorded
  <2>2. /\ Len(records') = current
        /\ \A k \in 1 .. current - 1 : records'[k] = records[k]
        /\ records'[current] = Record
    BY <1>1, <2>1, Appended
  <2>3. \A k \in 1 .. current : records'[k] = RecordOf(k)
    BY <1>1, <2>1, <2>2, RecordIsBacked DEF Backed, RecordsBacked
  <2> QED BY <1>3, <2>2, <2>3 DEF RecordsBacked
<1>7. Reported'
  BY <1>1, NoResultYet DEF Reported
<1> QED BY <1>4, <1>5, <1>6, <1>7 DEF Backed

LEMMA DecideBacked == IInv /\ Backed /\ Decide => Backed'
<1> SUFFICES ASSUME IInv, Backed, Decide PROVE Backed'
  OBVIOUS
<1>1. /\ UNCHANGED <<captured, ledger, records, result>> /\ stage = "decide"
      /\ current = N /\ N \in Nat \ {0} /\ Len(records) = N
  BY Numbering DEF Decide, IInv, Recorded
<1>2. Returned = N /\ Returned' = N /\ stage' # "done"
  <2>1. \/ stage' = "report" /\ current' = current
        \/ stage' = "start" /\ current' = N + 1
    BY <1>1 DEF Decide
  <2> QED BY <1>1, <2>1 DEF Returned
<1>3. \A k \in 1 .. N :
        /\ SentProposal(k)' = SentProposal(k) /\ SentAnswer(k)' = SentAnswer(k)
        /\ GotProposal(k)' = GotProposal(k) /\ GotAnswer(k)' = GotAnswer(k)
        /\ RecordOf(k)' = RecordOf(k)
  <2>1. \A k \in 1 .. N : Proposal(k)' = Proposal(k)
    BY <1>1 DEF Proposal
  <2> QED BY <1>1, <2>1
          DEF RecordOf, SentProposal, SentAnswer, GotProposal, GotAnswer
<1>4. IrisLogged'
  BY <1>1, <1>2, <1>3 DEF Backed, IrisLogged
<1>5. PeersLogged'
  <2> SUFFICES ASSUME NEW i \in 1 .. N PROVE PeerLogged(i)'
    BY DEF PeersLogged
  <2>1. N + i \in Exchanges /\ N + i > current
    BY <1>1 DEF Exchanges
  <2>2. captured[N + i] = None
    BY <2>1 DEF IInv, Answers
  <2> QED BY <1>1, <1>3, <2>2 DEF Backed, PeersLogged, PeerLogged
<1>6. RecordsBacked'
  BY <1>1, <1>3 DEF Backed, RecordsBacked
<1>7. Reported'
  BY <1>1, NoResultYet DEF Reported
<1> QED BY <1>4, <1>5, <1>6, <1>7 DEF Backed

LEMMA ReportBacked == IInv /\ Backed /\ Report => Backed'
<1> SUFFICES ASSUME IInv, Backed, Report PROVE Backed'
  OBVIOUS
<1>1. /\ UNCHANGED <<current, captured, ledger, records, chosen>>
      /\ stage = "report" /\ stage' = "done" /\ result' = ReportNow
  BY DEF Report, ReportNow
<1>2. Returned' = Returned
  BY <1>1 DEF Returned
<1>3. IrisLogged'
  BY <1>1, <1>2 DEF Backed, IrisLogged, SentProposal, SentAnswer, Proposal
<1>4. PeersLogged'
  BY <1>1 DEF Backed, PeersLogged, PeerLogged, GotProposal, GotAnswer, Proposal
<1>5. RecordsBacked'
  BY <1>1 DEF Backed, RecordsBacked, RecordOf, SentProposal, SentAnswer,
              GotProposal, GotAnswer, Proposal
<1>6. ReportNow' = ReportNow
  BY <1>1 DEF ReportNow, Covered
<1>7. Reported'
  BY <1>1, <1>6 DEF Reported
<1> QED BY <1>3, <1>4, <1>5, <1>7 DEF Backed

LEMMA NextBacked == IInv /\ Backed /\ [Next]_vars => Backed'
<1> SUFFICES ASSUME IInv, Backed, [Next]_vars PROVE Backed'
  OBVIOUS
<1>1. CASE StartListener \/ StartListenerRaises \/ Send \/ GiveUp \/ Abandon
  <2>1. /\ UNCHANGED <<captured, ledger, records, chosen, result>>
        /\ UNCHANGED current
        /\ stage \in {"start", "send", "wait", "abandon"}
        /\ stage' \in {"send", "wait", "abandon", "raised"}
    BY <1>1 DEF StartListener, StartListenerRaises, Send, GiveUp, Abandon
  <2>2. UNCHANGED Returned
    BY <2>1 DEF Returned
  <2> QED BY <2>1, <2>2, NoResultYet, NothingLogged
<1>2. CASE StopRaises
  <2>1. UNCHANGED <<captured, ledger, records, chosen, result>>
    BY <1>2 DEF StopRaises
  <2>2. stage \in {"stop", "abandon"} /\ stage' = "unstopped"
    BY <1>2 DEF StopRaises
  <2>3. result # None => stage' = "done"
    BY <2>2, NoResultYet
  <2>4. stage' = "unstopped" \/ (stage # "unstopped" /\ UNCHANGED Returned)
    BY <2>2
  <2> QED BY <2>1, <2>3, <2>4, NothingLogged
<1>3. CASE UNCHANGED vars
  <2>1. UNCHANGED <<captured, ledger, records, chosen, result, stage, Returned>>
    BY <1>3 DEF vars, Returned
  <2> QED BY <2>1, NoResultYet, NothingLogged
<1> QED BY <1>1, <1>2, <1>3, ServeBacked, ReturnBacked, StopBacked, DecideBacked,
           ReportBacked DEF Next

(* What the ledgers and the records hold, in every reachable state (the    *)
(* gateways of _run_bilateral, and the record it reads when it is over).   *)
THEOREM LedgersBackTheRecords == Spec => []Backed
BY InitIInv, NextIInv, InitBacked, NextBacked, PTL DEF Spec

(* A result is backed by the ledgers: every exchange's tesserae fit,       *)
(* Iris's ledger is their union in order, every peer's summary ends with   *)
(* its confirmation of the reported slot, and without a common slot there  *)
(* is none and nobody was asked to confirm (run_four_party).               *)
THEOREM ReportsAreBacked == Spec => []ReportIsBacked
<1>1. IInv /\ Backed => ReportIsBacked
  <2> SUFFICES ASSUME IInv, Backed, result # None PROVE ReportIsBacked
    BY DEF ReportIsBacked
  <2>1. /\ N \in Nat \ {0} /\ DOMAIN Order = 1 .. N /\ stage = "done"
        /\ current \in {N, 2 * N} /\ current \in 1 .. 2 * N
        /\ Len(records) = current /\ DOMAIN records = 1 .. current
        /\ Returned = current /\ result = ReportNow /\ current \in Nat
    BY Numbering
    DEF IInv, Types, Exchanges, Recorded, Returned, Backed, Reported, IsSequence
  <2>2. \A k \in 1 .. current : records[k] = RecordOf(k)
    BY <2>1 DEF Backed, RecordsBacked
  <2>3. Len(ledger[Iris]) = 2 * current /\ IsSequence(ledger[Iris])
    BY <2>1, LedgersAreSequences, Numbering DEF IInv, Backed, IrisLogged
  <2>4. result.iris = ledger[Iris]
    <3> DEFINE tasks == {records[k].task : k \in DOMAIN records}
    <3>1. \A k \in 1 .. current : k \in tasks
      <4>1. \A k : RecordOf(k).task = k
        BY DEF RecordOf
      <4>2. \A k \in 1 .. current : records[k].task = k
        BY <2>2, <4>1
      <4> QED BY <2>1, <4>2
    <3>2. result.iris = ByTasks(ledger[Iris], tasks)
      BY <2>1 DEF ReportNow
    <3> HIDE DEF tasks
    <3>3. \A i \in 1 .. Len(ledger[Iris]) : ledger[Iris][i].task \in tasks
      <4> SUFFICES ASSUME NEW i \in 1 .. Len(ledger[Iris])
                   PROVE  ledger[Iris][i].task \in tasks
        OBVIOUS
      <4>0. i \in 1 .. 2 * current
        BY <2>3
      <4>1. PICK k \in 1 .. current : i \in {2 * k - 1, 2 * k}
        BY <2>1, <4>0, Halves
      <4>2. ledger[Iris][i].task = k
        <5>1. i \in 1 .. Len(ledger[Iris]) /\ k \in 1 .. Returned
          BY <2>1, <2>3
        <5>2. Returned \in Nat /\ stage # "unstopped"
          BY <2>1
        <5> QED BY <4>1, <5>1, <5>2, IrisTasks, Zenon
      <4> QED BY <3>1, <4>2
    <3> QED BY <2>3, <3>2, <3>3, AllByTasks
  <2>5. ASSUME NEW k \in DOMAIN result.exchanges
        PROVE  LET record == result.exchanges[k] IN
               /\ record.task = k
               /\ Fits(record.iris, record.peer)
               /\ record.response = record.peer[2].payload
               /\ \A j \in 1 .. 2 : result.iris[2 * (k - 1) + j] = record.iris[j]
    <3>1. k \in 1 .. current /\ result.exchanges[k] = RecordOf(k)
      BY <2>1, <2>2 DEF ReportNow
    <3>2. Fits(RecordOf(k).iris, RecordOf(k).peer)
      BY DEF Fits, RecordOf, SentProposal, SentAnswer, GotProposal, GotAnswer,
             Residue
    <3>3. RecordOf(k).task = k /\ RecordOf(k).response = RecordOf(k).peer[2].payload
      BY DEF RecordOf, GotAnswer, Residue
    <3>4. /\ ledger[Iris][2 * k - 1] = SentProposal(k)
          /\ ledger[Iris][2 * k] = SentAnswer(k)
          /\ 2 * (k - 1) + 1 = 2 * k - 1 /\ 2 * (k - 1) + 2 = 2 * k
      <4>1. stage # "unstopped"
        BY <2>1
      <4>2. \A j \in 1 .. current : /\ ledger[Iris][2 * j - 1] = SentProposal(j)
                                   /\ ledger[Iris][2 * j] = SentAnswer(j)
        BY <2>1, <4>1 DEF Backed, IrisLogged
      <4> QED BY <2>1, <3>1, <4>2
    <3>5. \A j \in 1 .. 2 : ledger[Iris][2 * (k - 1) + j] = RecordOf(k).iris[j]
      BY <3>4 DEF RecordOf
    <3> QED BY <2>4, <3>1, <3>2, <3>3, <3>5
  <2>6. Len(result.iris) = 2 * Len(result.exchanges)
    BY <2>1, <2>3, <2>4 DEF ReportNow
  <2>7. ASSUME NEW i \in 1 .. N
        PROVE  /\ Order[i] \in Principals /\ IsSequence(ledger[Order[i]])
               /\ i \in Exchanges /\ N + i \in Exchanges /\ captured[i] # None
               /\ result.summaries[i] = ByTasks(ledger[Order[i]], Covered(i))
               /\ PeerLogged(i)
    <3>1. Order[i] \in Principals
      BY Numbering DEF Peers
    <3>2. i \in Exchanges /\ N + i \in Exchanges
      BY <2>1 DEF Exchanges
    <3>3. captured[i] # None
      <4>1. i < current \/ i = current
        BY <2>1
      <4> QED BY <2>1, <3>2, <4>1 DEF IInv, Answers
    <3>4. result.summaries[i] = ByTasks(ledger[Order[i]], Covered(i))
      BY <2>1 DEF ReportNow
    <3> QED BY <3>1, <3>2, <3>3, <3>4, LedgersAreSequences
            DEF IInv, Backed, PeersLogged
  <2>8. \A k : GotProposal(k).task = k /\ GotAnswer(k).task = k
    BY DEF GotProposal, GotAnswer, Residue
  <2>9. result.success <=> chosen # None
    BY <2>1 DEF ReportNow
  <2>10. result.slot = chosen
    BY <2>1 DEF ReportNow
  <2>11. ASSUME chosen # None, NEW i \in 1 .. N
         PROVE  /\ Len(result.summaries[i]) = 4
                /\ result.summaries[i][4] =
                     Residue("emit", "acceptance", N + i, {result.slot})
    <3>1. current = 2 * N
      BY <2>1, <2>11 DEF IInv, Chosen
    <3>2. captured[N + i] # None
      <4>1. N + i < current \/ N + i = current
        BY <2>1, <3>1
      <4> QED BY <2>1, <2>7, <4>1 DEF IInv, Answers
    <3>3. ~ (N + i <= N)
      BY <2>1
    <3>4. captured[N + i] = {chosen}
      BY <2>7, <3>2, <3>3 DEF IInv, Answers
    <3> DEFINE s == ledger[Order[i]]
    <3>5. /\ Len(s) = 4 /\ s[1] = GotProposal(i) /\ s[2] = GotAnswer(i)
          /\ s[3] = GotProposal(N + i) /\ s[4] = GotAnswer(N + i)
      BY <2>7, <3>2 DEF PeerLogged
    <3>6. IsSequence(s) /\ Covered(i) = {i, N + i}
      BY <2>7, <2>11 DEF Covered
    <3> HIDE DEF s
    <3>7. \A j \in 1 .. Len(s) : s[j].task \in {i, N + i}
      BY <2>8, <3>5
    <3>8. ByTasks(s, {i, N + i}) = s
      BY <3>6, <3>7, AllByTasks
    <3> QED BY <2>7, <2>10, <3>4, <3>5, <3>6, <3>8 DEF GotAnswer, s
  <2>12. ASSUME chosen = None
         PROVE  Common = {} /\ \A i \in 1 .. N : ledger[Order[i]] = result.summaries[i]
    <3>1. Common = {} /\ current <= N
      BY <2>1, <2>12 DEF IInv, Chosen
    <3>2. ASSUME NEW i \in 1 .. N PROVE ledger[Order[i]] = result.summaries[i]
      <4>1. N + i > current
        BY <2>1, <3>1
      <4>2. captured[N + i] = None
        BY <2>7, <4>1 DEF IInv, Answers
      <4> DEFINE s == ledger[Order[i]]
      <4>3. Len(s) = 2 /\ s[1] = GotProposal(i) /\ s[2] = GotAnswer(i)
        BY <2>7, <4>2 DEF PeerLogged
      <4>4. IsSequence(s) /\ Covered(i) = {i}
        BY <2>7, <2>12 DEF Covered
      <4> HIDE DEF s
      <4>5. \A j \in 1 .. Len(s) : s[j].task \in {i}
        BY <2>8, <4>3
      <4>6. ByTasks(s, {i}) = s
        BY <4>4, <4>5, AllByTasks
      <4> QED BY <2>7, <4>4, <4>6 DEF s
    <3> QED BY <3>1, <3>2
  <2> QED BY <2>1, <2>5, <2>6, <2>9, <2>11, <2>12 DEF ReportIsBacked
<1> QED BY <1>1, NegotiationInvariant, LedgersBackTheRecords, PTL

=============================================================================
