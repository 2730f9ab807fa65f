------------------------------- MODULE Sandbox -------------------------------
(***************************************************************************)
(* The sandbox server (phase_4_prototype/server): sessions in memory with  *)
(* a sliding time to live (sandbox_session.py), the endpoints that read    *)
(* and change them (main.py), and runs of two throw-away scheduling agents *)
(* built from a session's principals (sandbox_runner.py).                  *)
(*                                                                         *)
(* The server is one event loop: an endpoint is atomic, except for a run's *)
(* awaits.  Every PUT has a number; a key is known by the PUT it came      *)
(* with.  A list of candidates is the set of its instants, in the order    *)
(* of time.  A payload is narrowed by both policies on its way: to what    *)
(* its author lets out and its reader lets in (Mesherra).                  *)
(***************************************************************************)
EXTENDS Calendar, FiniteSets

CONSTANTS
  Tokens,      \* the session tokens that may be drawn
  Users,       \* principal ids
  Defaults,    \* _default_principals: a configuration for some of the users
  Configs,     \* what a PUT may say
  Requests,    \* what a run may be asked for
  Runs,        \* names for the calls of the run endpoint
  Ttl,         \* SESSION_TTL_MINUTES
  MaxNow,      \* bound: how far the clock goes
  MaxPuts,     \* bound: how many PUTs are made
  None

(* The fields of a proposal or answer that are read again; a policy names  *)
(* those let out, less those blocked, and those let in.                    *)
Fields == {"candidates", "duration_minutes"}

Settings ==
  [provider : {"scripted", "llm"}, calendar : Calendars({"standing"}),
   outbound : SUBSET Fields, inbound : SUBSET Fields]

ASSUME SandboxAssumption ==
  /\ Configs \subseteq Settings
  /\ DOMAIN Defaults \subseteq Users
  /\ \A u \in DOMAIN Defaults : Defaults[u] \in Settings
  /\ Requests \subseteq [sender : Users, recipient : Users, earliest : Instants,
                         latest : Instants, duration : Nat]
  /\ Ttl \in Nat
  /\ MaxNow \in Nat
  /\ MaxPuts \in Nat

VARIABLES
  now,        \* the server's clock
  sessions,   \* sessions[t]: its _SessionRecord, or None
  drawn,      \* the tokens drawn so far
  puts,       \* the number of PUTs so far
  run         \* run[r]: the call of the run endpoint

vars == <<now, sessions, drawn, puts, run>>

(* What a session holds for a user: the settings, the PUT they came with,  *)
(* and whether that PUT carried a key.                                     *)
Entry(settings, put, keyed) ==
  [settings |-> settings, put |-> put, keyed |-> keyed]

Init ==
  /\ now = 0
  /\ sessions = [t \in Tokens |-> None]
  /\ drawn = {}
  /\ puts = 0
  /\ run = [r \in Runs |-> [stage |-> "idle"]]

-----------------------------------------------------------------------------
(* Session store *)

Expired(t) == sessions[t] # None /\ sessions[t].expires < now

(* _sweep_expired *)
Swept == [t \in Tokens |-> IF Expired(t) THEN None ELSE sessions[t]]

(* Faulty variant: the session is fetched before the sweep. *)
GetSessionUnswept(t) ==
  IF sessions[t] = None THEN Swept
  ELSE [Swept EXCEPT ![t] = [sessions[t] EXCEPT !.expires = now + Ttl]]

(* Faulty variant: each request adds a whole time to live. *)
GetSessionExtends(t) ==
  IF Swept[t] = None THEN Swept ELSE [Swept EXCEPT ![t].expires = @ + Ttl]

(* get_session: sweep all sessions, then refresh this one if it is there.  *)
GetSession(t) ==
  IF Swept[t] = None THEN Swept
  ELSE [Swept EXCEPT ![t].expires = now + Ttl]

Create(t) ==
  /\ t \notin drawn
  /\ drawn' = drawn \cup {t}
  /\ sessions' = [sessions EXCEPT ![t] =
       [expires    |-> now + Ttl,
        principals |-> [u \in Users |->
                          IF u \in DOMAIN Defaults
                          THEN Entry(Defaults[u], 0, FALSE) ELSE None],
        keys       |-> [u \in Users |-> None]]]
  /\ UNCHANGED <<now, puts, run>>

(* GET, and every request that fails with 404. *)
Read(t) ==
  /\ sessions' = GetSession(t)
  /\ UNCHANGED <<now, drawn, puts, run>>

(* Faulty variant: a PUT without a key leaves the old one. *)
UpsertKeepingKey(t, u, settings, keyed) ==
  [GetSession(t) EXCEPT
     ![t].principals[u] = Entry(settings, puts + 1, keyed),
     ![t].keys[u] = IF keyed THEN puts + 1 ELSE @]

(* upsert_principal: without a key on the body the old one is cleared. *)
Upsert(t, u, settings, keyed) ==
  [GetSession(t) EXCEPT
     ![t].principals[u] = Entry(settings, puts + 1, keyed),
     ![t].keys[u] = IF keyed THEN puts + 1 ELSE None]

Put(t, u) ==
  /\ puts < MaxPuts
  /\ GetSession(t)[t] # None
  /\ \E settings \in Configs, keyed \in BOOLEAN :
       sessions' = Upsert(t, u, settings, keyed)
  /\ puts' = puts + 1
  /\ UNCHANGED <<now, drawn, run>>

DeletePrincipal(t, u) ==
  /\ GetSession(t)[t] # None
  /\ sessions' = [GetSession(t) EXCEPT ![t].principals[u] = None,
                                       ![t].keys[u] = None]
  /\ UNCHANGED <<now, drawn, puts, run>>

Destroy(t) ==
  /\ sessions' = [sessions EXCEPT ![t] = None]
  /\ UNCHANGED <<now, drawn, puts, run>>

Tick ==
  /\ now < MaxNow
  /\ now' = now + 1
  /\ UNCHANGED <<sessions, drawn, puts, run>>

-----------------------------------------------------------------------------
(* Runs *)

StepMinutes == 60
MaxCandidates == 5

FirstOf(S, n) == {t \in S : Cardinality({u \in S : u < t}) < n}

(* Faulty variant: busy slots fill up a short list. *)
FreeSlotsFilledUp(events, request) ==
  LET starts == {request.earliest + StepMinutes * k :
                   k \in 0 .. (request.latest - request.earliest) \div StepMinutes}
      fitting == {t \in starts : t + request.duration <= request.latest}
      free == {t \in fitting : ~ BusyAt(events, t, request.duration)}
  IN  FirstOf(IF Cardinality(free) < MaxCandidates THEN fitting ELSE free,
              MaxCandidates)

(* CalendarObject.free_slots: starts an hour apart; when none is free, all *)
(* of them, busy as they are.                                              *)
FreeSlots(events, request) ==
  LET starts == {request.earliest + StepMinutes * k :
                   k \in 0 .. (request.latest - request.earliest) \div StepMinutes}
      fitting == {t \in starts : t + request.duration <= request.latest}
      free == {t \in fitting : ~ BusyAt(events, t, request.duration)}
  IN  FirstOf(IF free = {} THEN fitting ELSE free, MaxCandidates)

(* build_reasoner: without credentials the scripted one. *)
Reasoner(settings, key) ==
  IF settings.provider = "llm" /\ key # None THEN "llm" ELSE "scripted"

(* The recipient's verdict: the scripted reasoner takes the first slot it  *)
(* is free at, an LLM any slot on the list, and both may take none.        *)
Verdicts(entry, key, candidates, duration) ==
  LET free == {t \in candidates :
                 ~ BusyAt(entry.settings.calendar.events, t, duration)}
  IN  IF Reasoner(entry.settings, key) = "llm" THEN candidates \cup {None}
      ELSE IF free = {} THEN {None} ELSE FirstOf(free, 1)

DefaultDuration == 30   \* payload.get("duration_minutes", 30)

(* What gets through from one principal's agent to the other's. *)
Disclosed(from, to) == from.settings.outbound \cap to.settings.inbound

(* A payload as it is read: no list is an empty one. *)
Narrowed(candidates, duration, fields) ==
  [candidates |-> IF "candidates" \in fields THEN candidates ELSE {},
   duration   |-> IF "duration_minutes" \in fields THEN duration
                  ELSE DefaultDuration]

(* The proposal of a call, as the recipient reads it. *)
Heard(call) ==
  Narrowed(call.candidates, call.request.duration,
           Disclosed(call.sender, call.recipient))

(* The recipient's answer, as _extract_acceptance reads it. *)
Answered(call) ==
  Narrowed({call.verdict[1]} \ {None}, Heard(call).duration,
           Disclosed(call.recipient, call.sender))

Step(r, from, to) == run[r].stage = from /\ run' = [run EXCEPT ![r] = to]

(* The run endpoint up to its first await: session, both principals and    *)
(* their keys are read; a refusal is a 400.                                *)
StartRun(r, t) ==
  /\ run[r].stage = "idle"
  /\ GetSession(t)[t] # None
  /\ sessions' = GetSession(t)
  /\ \E request \in Requests :
       LET record == sessions[t]
           sender == record.principals[request.sender]
           recipient == record.principals[request.recipient]
       IN  /\ sender # None
           /\ recipient # None
           /\ run' = [run EXCEPT ![r] =
                IF \/ request.sender = request.recipient
                   \/ request.earliest >= request.latest
                THEN [stage |-> "refused"]
                ELSE [stage      |-> "starting",
                      token      |-> t,
                      request    |-> request,
                      sender     |-> sender,
                      recipient  |-> recipient,
                      keys       |-> <<record.keys[request.sender],
                                       record.keys[request.recipient]>>,
                      candidates |-> FreeSlots(sender.settings.calendar.events,
                                               request),
                      agent      |-> sender.settings.calendar,
                      verdict    |-> <<>>,
                      success    |-> FALSE]]
  /\ UNCHANGED <<now, drawn, puts>>

(* The recipient's listener is up and the proposal is sent. *)
SendProposal(r) ==
  /\ Step(r, "starting", [run[r] EXCEPT !.stage = "waiting"])
  /\ UNCHANGED <<now, sessions, drawn, puts>>

(* The recipient's handler: last_verdict. *)
HandleProposal(r) ==
  /\ run[r].stage = "waiting"
  /\ run[r].verdict = <<>>
  /\ \E slot \in Verdicts(run[r].recipient, run[r].keys[2],
                          Heard(run[r]).candidates, Heard(run[r]).duration) :
       Step(r, "waiting", [run[r] EXCEPT !.verdict = <<slot>>])
  /\ UNCHANGED <<now, sessions, drawn, puts>>

(* Faulty variant: the first slot offered is booked. *)
BookFirstOffered(r) ==
  LET slot == CHOOSE t \in run[r].candidates :
                \A other \in run[r].candidates : t <= other
  IN  IF run[r].verdict = <<None>> THEN run[r].agent
      ELSE Book(run[r].agent, ClockTime(slot), run[r].request.duration, r)

(* In-process mode: on an acceptance that shows its slot the sender's      *)
(* agent books it, in its own copy of the calendar.                        *)
BookAnswer(r) ==
  IF Answered(run[r]).candidates = {} THEN run[r].agent
  ELSE Book(run[r].agent, ClockTime(run[r].verdict[1]),
            Answered(run[r]).duration, r)

Return(r) ==
  /\ run[r].stage = "waiting"
  /\ run[r].verdict # <<>>
  /\ Step(r, "waiting", [run[r] EXCEPT !.stage = "stopping",
                                       !.agent = BookAnswer(r)])
  /\ UNCHANGED <<now, sessions, drawn, puts>>

(* Starting the listener or the send raises: a 500, and the agents' files  *)
(* are left to the directory's removal.                                    *)
Raise(r) ==
  /\ run[r].stage \in {"starting", "waiting"}
  /\ run' = [run EXCEPT ![r] = [stage |-> "failed"]]
  /\ UNCHANGED <<now, sessions, drawn, puts>>

(* Faulty variant: the meeting is written to the sender's principal. *)
FinishAndStore(r) ==
  LET token == run[r].token
      user == run[r].request.sender
  IN
  /\ Step(r, "stopping", [run[r] EXCEPT !.stage = "done",
                                        !.success = run[r].verdict # <<None>>])
  /\ sessions' =
       IF sessions[token] = None \/ sessions[token].principals[user] = None
       THEN sessions
       ELSE [sessions EXCEPT
               ![token].principals[user].settings.calendar = run[r].agent]
  /\ UNCHANGED <<now, drawn, puts>>

(* The listener has stopped: the result is drawn up from the recipient's   *)
(* verdict, and the session is not written.                                *)
Finish(r) ==
  /\ Step(r, "stopping", [run[r] EXCEPT !.stage = "done",
                                        !.success = run[r].verdict # <<None>>])
  /\ UNCHANGED <<now, sessions, drawn, puts>>

RunNext(r) ==
  \/ \E t \in Tokens : StartRun(r, t)
  \/ SendProposal(r)
  \/ HandleProposal(r)
  \/ Return(r)
  \/ Raise(r)
  \/ Finish(r)

Next ==
  \/ Tick
  \/ \E t \in Tokens :
       \/ Create(t)
       \/ Read(t)
       \/ Destroy(t)
       \/ \E u \in Users : Put(t, u) \/ DeletePrincipal(t, u)
  \/ \E r \in Runs : RunNext(r)

Spec == Init /\ [][Next]_vars

-----------------------------------------------------------------------------
Under == {r \in Runs : run[r].stage \in {"starting", "waiting", "stopping", "done"}}
Done == {r \in Runs : run[r].stage = "done"}

(* Sessions, keys and runs have their shapes, and no session's expiry lies *)
(* more than a time to live ahead.                                         *)
SandboxTypeOK ==
  /\ now \in 0 .. MaxNow
  /\ drawn \subseteq Tokens
  /\ puts \in 0 .. MaxPuts
  /\ \A t \in Tokens :
       sessions[t] # None =>
         /\ t \in drawn
         /\ sessions[t].expires \in 0 .. now + Ttl
         /\ \A u \in Users :
              LET entry == sessions[t].principals[u] IN
              /\ entry # None => /\ entry.settings \in Settings
                                 /\ entry.put \in 0 .. puts
              /\ sessions[t].keys[u] \in {None} \cup 1 .. puts
  /\ \A r \in Runs :
       run[r].stage \in {"idle", "refused", "starting", "waiting", "stopping",
                         "done", "failed"}

(* A run never mixes two PUTs: the key a reasoner gets came with the very  *)
(* configuration it is used for, and a configuration that came without a   *)
(* key gets none ("so reverting from anthropic to scripted doesn't leave a *)
(* stale credential in memory").                                           *)
RunUsesOneSnapshot ==
  \A r \in Under :
    \A side \in 1 .. 2 :
      LET entry == IF side = 1 THEN run[r].sender ELSE run[r].recipient IN
      run[r].keys[side] = (IF entry.keyed THEN entry.put ELSE None)

Live(t) == sessions[t] # None /\ now <= sessions[t].expires

(* A session that was destroyed or has run out never comes back, whatever  *)
(* requests or late runs still name its token.                             *)
DeadSessionsStayDead ==
  [][\A t \in Tokens : t \in drawn /\ ~ Live(t) => ~ Live(t)']_vars

(* The sender's agent has booked the slot reported, once, and nothing else *)
BookedFor(r, duration) ==
  run[r].agent.events =
    Append(run[r].sender.settings.calendar.events,
           [time |-> ClockTime(run[r].verdict[1]), duration |-> duration,
            of |-> r])

(* Whatever the two policies hold back: what the sender's agent books is   *)
(* the one slot of a reported success, it was offered, and a scripted      *)
(* recipient is free then for as long as it was asked for - only the       *)
(* duration booked may be the default instead.  And when the policies hold *)
(* nothing back, success says that the meeting asked for was booked, and   *)
(* no success that nothing was.                                            *)
BookingIsAgreed ==
  \A r \in Done :
    LET call == run[r]
        before == call.sender.settings.calendar
        heard == Heard(call).duration
    IN  /\ call.agent # before =>
             /\ call.success
             /\ call.verdict[1] \in call.candidates
             /\ \E duration \in {heard, DefaultDuration} : BookedFor(r, duration)
             /\ Reasoner(call.recipient.settings, call.keys[2]) = "scripted"
                  => ~ BusyAt(call.recipient.settings.calendar.events,
                              call.verdict[1], heard)
        /\ Fields \subseteq Disclosed(call.sender, call.recipient)
                              \cap Disclosed(call.recipient, call.sender) =>
             IF call.success
               THEN heard = call.request.duration /\ BookedFor(r, heard)
               ELSE call.agent = before

(* "Both calendars gain a signed meeting at ...", with a delta for the     *)
(* requested duration on each: on success the sender's agent has booked    *)
(* that meeting.                                                           *)
SuccessIsBooked ==
  \A r \in Done : run[r].success => BookedFor(r, run[r].request.duration)

(* "Runs are idempotent from session's perspective"                        *)
(* (SANDBOX_BACKEND_DESIGN.md): the same request on the same configuration *)
(* gets the same answer from a scripted recipient, whatever ran between.   *)
RunsAreIdempotent ==
  \A r, s \in Done :
    /\ run[r].token = run[s].token
    /\ run[r].request = run[s].request
    /\ run[r].sender.put = run[s].sender.put
    /\ run[r].recipient.put = run[s].recipient.put
    /\ Reasoner(run[r].recipient.settings, run[r].keys[2]) = "scripted"
    => run[r].verdict = run[s].verdict

(* free_slots: "Falls back to the unfiltered list if no free slot fits": a  *)
(* slot agreed on suits the sender, whose calendar the recipient does not  *)
(* know, unless the sender had not one free slot in the window to offer.   *)
AgreedSlotSuitsSender ==
  \A r \in Done :
    LET call == run[r]
        asked == call.request
        Busy(t) == BusyAt(call.sender.settings.calendar.events, t, asked.duration)
    IN  call.success /\ Busy(call.verdict[1]) =>
          \A t \in asked.earliest .. asked.latest - asked.duration :
            (t - asked.earliest) % StepMinutes = 0 => Busy(t)

=============================================================================
