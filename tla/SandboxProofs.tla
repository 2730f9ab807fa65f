---------------------------- MODULE SandboxProofs ----------------------------
(***************************************************************************)
(* Sessions and runs, for any tokens, users, configurations and requests:  *)
(* a run gets the keys that came with the configurations it uses, and a    *)
(* session that has ended stays ended.                                     *)
(***************************************************************************)
EXTENDS Sandbox, FiniteSetTheorems, TLAPS

Entries(n) == [settings : Settings, put : 0 .. n, keyed : BOOLEAN]
Keys(n) == {None} \cup 1 .. n

(* A _SessionRecord at time `time', after n PUTs.                          *)
Records(time, n) ==
  [expires    : 0 .. time + Ttl,
   principals : [Users -> {None} \cup Entries(n)],
   keys       : [Users -> Keys(n)]]

(* The key kept for each configuration is the one that came with it.       *)
KeyOf(entry) == IF entry.keyed THEN entry.put ELSE None

Matches(record) ==
  \A u \in Users :
    record.principals[u] # None => record.keys[u] = KeyOf(record.principals[u])

ClockOK == now \in 0 .. MaxNow /\ puts \in 0 .. MaxPuts /\ drawn \subseteq Tokens

SessionsOK ==
  /\ sessions \in [Tokens -> {None} \cup Records(now, puts)]
  /\ \A t \in Tokens : sessions[t] # None => t \in drawn /\ Matches(sessions[t])

RunFields == {"stage", "token", "request", "sender", "recipient", "keys",
              "candidates", "agent", "verdict", "success"}

Paired(record) ==
  /\ DOMAIN record = RunFields
  /\ record.keys[1] = KeyOf(record.sender)
  /\ record.keys[2] = KeyOf(record.recipient)

UnderWay == {"starting", "waiting", "stopping", "done"}

RunsOK ==
  /\ DOMAIN run = Runs
  /\ \A r \in Runs :
       /\ run[r].stage \in {"idle", "refused", "failed"} \cup UnderWay
       /\ run[r].stage \in UnderWay => Paired(run[r])

IInv == ClockOK /\ SessionsOK /\ RunsOK

USE SandboxAssumption

(* What a record may be grows with time and with the PUTs.                 *)
LEMMA RecordsGrow ==
  ASSUME NEW time \in Nat, NEW later \in Nat, time <= later,
         NEW n \in Nat, NEW more \in Nat, n <= more
  PROVE  Records(time, n) \subseteq Records(later, more)
<1>1. Entries(n) \subseteq Entries(more)
  BY DEF Entries
<1>2. Keys(n) \subseteq Keys(more)
  BY DEF Keys
<1>3. 0 .. time + Ttl \subseteq 0 .. later + Ttl
  OBVIOUS
<1> QED BY <1>1, <1>2, <1>3 DEF Records

(* After a request's get_session the sessions are in order, those that     *)
(* ended are gone and the others keep what they hold.                      *)
LEMMA GetSessionKeeps ==
  ASSUME ClockOK, SessionsOK, NEW t \in Tokens
  PROVE  /\ GetSession(t) \in [Tokens -> {None} \cup Records(now, puts)]
         /\ \A s \in Tokens : GetSession(t)[s] # None =>
              /\ Live(s)
              /\ GetSession(t)[s] \in Records(now, puts)
              /\ GetSession(t)[s].principals = sessions[s].principals
              /\ GetSession(t)[s].keys = sessions[s].keys
              /\ s \in drawn /\ Matches(GetSession(t)[s])
<1>1. now \in Nat /\ Ttl \in Nat /\ now + Ttl \in 0 .. now + Ttl
  BY DEF ClockOK
<1>2. \A s \in Tokens : sessions[s] # None => sessions[s] \in Records(now, puts)
  BY DEF SessionsOK
<1>3. \A s \in Tokens : sessions[s] # None => sessions[s].expires \in Nat
  BY <1>2 DEF Records
<1>4. /\ Swept \in [Tokens -> {None} \cup Records(now, puts)]
      /\ \A s \in Tokens : Swept[s] # None => Swept[s] = sessions[s] /\ Live(s)
  BY <1>1, <1>2, <1>3 DEF Swept, Expired, Live
<1>5. CASE Swept[t] = None
  <2>1. GetSession(t) = Swept
    BY <1>5 DEF GetSession
  <2> QED BY <1>2, <1>4, <2>1 DEF SessionsOK
<1>6. CASE Swept[t] # None
  <2> DEFINE fresh == [Swept[t] EXCEPT !.expires = now + Ttl]
  <2>1. GetSession(t) = [Swept EXCEPT ![t] = fresh]
    BY <1>6 DEF GetSession
  <2>2. Swept[t] \in Records(now, puts) /\ Swept[t] = sessions[t] /\ Live(t)
    BY <1>2, <1>4, <1>6
  <2>3. /\ fresh \in Records(now, puts)
        /\ fresh.principals = sessions[t].principals
        /\ fresh.keys = sessions[t].keys
    BY <1>1, <2>2 DEF Records
  <2>4. Matches(fresh) /\ t \in drawn
    BY <1>6, <2>2, <2>3 DEF SessionsOK, Matches
  <2> HIDE DEF fresh
  <2>5. GetSession(t) \in [Tokens -> {None} \cup Records(now, puts)]
    BY <1>4, <2>1, <2>3
  <2>6. GetSession(t)[t] = fresh /\ \A s \in Tokens \ {t} : GetSession(t)[s] = Swept[s]
    BY <1>4, <2>1
  <2> QED BY <1>2, <1>4, <2>2, <2>3, <2>4, <2>5, <2>6 DEF SessionsOK
<1> QED BY <1>5, <1>6

(* A configuration and its key are replaced together.                      *)
LEMMA ReplaceKeeps ==
  ASSUME NEW time \in Nat, NEW n \in Nat, NEW record \in Records(time, n), Matches(record),
         NEW u \in Users, NEW entry \in {None} \cup Entries(n), NEW key \in Keys(n),
         entry # None => key = KeyOf(entry)
  PROVE  LET new == [record EXCEPT !.principals[u] = entry, !.keys[u] = key]
         IN  new \in Records(time, n) /\ Matches(new)
<1> DEFINE p == [record.principals EXCEPT ![u] = entry]
           k == [record.keys EXCEPT ![u] = key]
           new == [record EXCEPT !.principals[u] = entry, !.keys[u] = key]
<1>1. /\ record.principals \in [Users -> {None} \cup Entries(n)]
      /\ record.keys \in [Users -> Keys(n)]
      /\ record.expires \in 0 .. time + Ttl
  BY DEF Records
<1>2. p \in [Users -> {None} \cup Entries(n)] /\ k \in [Users -> Keys(n)]
  BY <1>1
<1>3. new = [expires |-> record.expires, principals |-> p, keys |-> k]
  <2>1. record \in [expires : 0 .. time + Ttl,
                    principals : [Users -> {None} \cup Entries(n)],
                    keys : [Users -> Keys(n)]]
    BY DEF Records
  <2>2. record = [expires |-> record.expires, principals |-> record.principals,
                  keys |-> record.keys]
    BY <2>1
  <2>3. new = [[record EXCEPT !.principals[u] = entry] EXCEPT !.keys[u] = key]
    OBVIOUS
  <2>4. [record EXCEPT !.principals[u] = entry] =
          [expires |-> record.expires, principals |-> p, keys |-> record.keys]
    BY <2>2
  <2> DEFINE mid == [record EXCEPT !.principals[u] = entry]
  <2>5. mid = [expires |-> record.expires, principals |-> p, keys |-> record.keys]
    BY <2>4
  <2> HIDE DEF mid
  <2>6. [mid EXCEPT !.keys[u] = key] =
          [expires |-> record.expires, principals |-> p, keys |-> [mid.keys EXCEPT ![u] = key]]
    BY <2>5
  <2>7. mid.keys = record.keys
    BY <2>5
  <2>8. new = [mid EXCEPT !.keys[u] = key]
    BY <2>3 DEF mid
  <2> QED BY <2>6, <2>7, <2>8
<1>4. \A v \in Users : p[v] # None => k[v] = KeyOf(p[v])
  BY <1>1 DEF Matches
<1> HIDE DEF p, k, new
<1>5. new \in Records(time, n)
  BY <1>1, <1>2, <1>3 DEF Records
<1>6. Matches(new)
  BY <1>3, <1>4 DEF Matches
<1> QED BY <1>5, <1>6 DEF new

(* The record of one session is updated, the others stay.                  *)
LEMMA UpdateOne ==
  ASSUME NEW S, DOMAIN S = Tokens, NEW t \in Tokens, NEW u, NEW entry, NEW key
  PROVE  LET new == [S EXCEPT ![t].principals[u] = entry, ![t].keys[u] = key]
         IN  new = [S EXCEPT ![t] =
                      [S[t] EXCEPT !.principals[u] = entry, !.keys[u] = key]]
<1> DEFINE mid == [S EXCEPT ![t].principals[u] = entry]
<1>1. DOMAIN mid = Tokens /\ mid[t] = [S[t] EXCEPT !.principals[u] = entry]
  OBVIOUS
<1>2. [S EXCEPT ![t].principals[u] = entry, ![t].keys[u] = key] =
        [mid EXCEPT ![t].keys[u] = key]
  OBVIOUS
<1>3. mid = [S EXCEPT ![t] = [S[t] EXCEPT !.principals[u] = entry]]
  OBVIOUS
<1> DEFINE record == [S[t] EXCEPT !.principals[u] = entry]
<1>4. [S[t] EXCEPT !.principals[u] = entry, !.keys[u] = key] =
        [record EXCEPT !.keys[u] = key]
  OBVIOUS
<1>5. mid[t] = record /\ mid = [S EXCEPT ![t] = record]
  BY <1>1, <1>3
<1> HIDE DEF mid, record
<1>6. [mid EXCEPT ![t].keys[u] = key] = [mid EXCEPT ![t] = [record EXCEPT !.keys[u] = key]]
  BY <1>5
<1>7. [mid EXCEPT ![t] = [record EXCEPT !.keys[u] = key]] =
        [S EXCEPT ![t] = [record EXCEPT !.keys[u] = key]]
  BY <1>5
<1> QED BY <1>2, <1>4, <1>6, <1>7

(* The sessions after a PUT or a DELETE of a principal.                    *)
LEMMA WriteKeeps ==
  ASSUME ClockOK, SessionsOK, NEW t \in Tokens, NEW u \in Users,
         NEW n \in Nat, puts <= n,
         NEW entry \in {None} \cup Entries(n), NEW key \in Keys(n),
         entry # None => key = KeyOf(entry),
         GetSession(t)[t] # None,
         sessions' = [GetSession(t) EXCEPT ![t].principals[u] = entry,
                                           ![t].keys[u] = key]
  PROVE  /\ sessions' \in [Tokens -> {None} \cup Records(now, n)]
         /\ \A s \in Tokens : sessions'[s] # None =>
              s \in drawn /\ Matches(sessions'[s]) /\ Live(s)
<1> DEFINE S == GetSession(t)
           new == [S[t] EXCEPT !.principals[u] = entry, !.keys[u] = key]
<1>1. /\ S \in [Tokens -> {None} \cup Records(now, puts)]
      /\ \A s \in Tokens : S[s] # None =>
           Live(s) /\ S[s] \in Records(now, puts) /\ s \in drawn /\ Matches(S[s])
  BY GetSessionKeeps
<1>2. Records(now, puts) \subseteq Records(now, n)
  BY RecordsGrow DEF ClockOK
<1>3. new \in Records(now, n) /\ Matches(new)
  <2>1. S[t] \in Records(now, n) /\ Matches(S[t]) /\ now \in Nat
    BY <1>1, <1>2 DEF ClockOK
  <2> HIDE DEF S
  <2> QED BY <2>1, ReplaceKeeps
<1>4. sessions' = [S EXCEPT ![t] = new]
  <2>1. DOMAIN S = Tokens
    BY <1>1
  <2>2. sessions' = [S EXCEPT ![t].principals[u] = entry, ![t].keys[u] = key]
    OBVIOUS
  <2> HIDE DEF S
  <2> QED BY <2>1, <2>2, UpdateOne
<1> HIDE DEF S, new
<1>5. sessions' \in [Tokens -> {None} \cup Records(now, n)]
  BY <1>1, <1>2, <1>3, <1>4
<1>6. sessions'[t] = new /\ \A s \in Tokens \ {t} : sessions'[s] = S[s]
  BY <1>1, <1>4
<1>7. S[t] # None
  BY DEF S
<1> QED BY <1>1, <1>3, <1>5, <1>6, <1>7

-----------------------------------------------------------------------------
(* The steps *)

LEMMA InitIInv == Init => IInv
BY DEF Init, IInv, ClockOK, SessionsOK, RunsOK, UnderWay

LEMMA TickPreserves ==
  ASSUME IInv, Tick
  PROVE  IInv' /\ \A t \in Tokens : Live(t)' => Live(t)
<1>1. now \in Nat /\ now' = now + 1 /\ now < MaxNow /\ UNCHANGED <<sessions, drawn, puts, run>>
  BY DEF IInv, ClockOK, Tick
<1>2. ClockOK'
  BY <1>1 DEF IInv, ClockOK
<1>3. Records(now, puts) \subseteq Records(now', puts)
  BY <1>1, RecordsGrow DEF IInv, ClockOK
<1>4. SessionsOK'
  BY <1>1, <1>3 DEF IInv, SessionsOK, Matches
<1>5. RunsOK'
  BY <1>1 DEF IInv, RunsOK
<1>6. \A t \in Tokens : Live(t)' => Live(t)
  <2> SUFFICES ASSUME NEW t \in Tokens, Live(t)' PROVE Live(t)
    OBVIOUS
  <2>1. sessions[t] # None /\ now + 1 <= sessions[t].expires
    BY <1>1 DEF Live
  <2>2. sessions[t].expires \in Nat
    BY <2>1 DEF IInv, SessionsOK, Records
  <2> QED BY <1>1, <2>1, <2>2 DEF Live
<1> QED BY <1>2, <1>4, <1>5, <1>6 DEF IInv

LEMMA CreatePreserves ==
  ASSUME IInv, NEW t \in Tokens, Create(t)
  PROVE  /\ IInv'
         /\ \A s \in Tokens : s \in drawn /\ Live(s)' => Live(s)
<1> DEFINE new == [expires    |-> now + Ttl,
                   principals |-> [u \in Users |->
                                     IF u \in DOMAIN Defaults
                                     THEN Entry(Defaults[u], 0, FALSE) ELSE None],
                   keys       |-> [u \in Users |-> None]]
<1>1. /\ t \notin drawn /\ drawn' = drawn \cup {t} /\ UNCHANGED <<now, puts, run>>
      /\ sessions' = [sessions EXCEPT ![t] = new]
  BY DEF Create
<1>2. now \in Nat /\ Ttl \in Nat /\ puts \in Nat
  BY DEF IInv, ClockOK
<1>3. \A u \in DOMAIN Defaults : Entry(Defaults[u], 0, FALSE) \in Entries(puts)
  BY <1>2 DEF Entry, Entries
<1>4. new \in Records(now, puts)
  <2>1. now + Ttl \in 0 .. now + Ttl
    BY <1>2
  <2>2. new.principals \in [Users -> {None} \cup Entries(puts)]
    BY <1>3
  <2>3. new.keys \in [Users -> Keys(puts)]
    BY DEF Keys
  <2> DEFINE p == new.principals
             k == new.keys
  <2>4. new = [expires |-> now + Ttl, principals |-> p, keys |-> k]
    OBVIOUS
  <2> HIDE DEF p, k, new
  <2> QED BY <2>1, <2>2, <2>3, <2>4 DEF Records, p, k
<1>5. Matches(new)
  BY DEF Matches, KeyOf, Entry
<1> HIDE DEF new
<1>6. ClockOK' /\ RunsOK'
  BY <1>1 DEF IInv, ClockOK, RunsOK
<1>7. sessions'[t] = new /\ \A s \in Tokens \ {t} : sessions'[s] = sessions[s]
  BY <1>1 DEF IInv, SessionsOK
<1>8. SessionsOK'
  <2>1. sessions' \in [Tokens -> {None} \cup Records(now, puts)]
    BY <1>1, <1>4 DEF IInv, SessionsOK
  <2>2. \A s \in Tokens : sessions'[s] # None => s \in drawn' /\ Matches(sessions'[s])
    BY <1>1, <1>5, <1>7 DEF IInv, SessionsOK
  <2> QED BY <1>1, <2>1, <2>2 DEF SessionsOK, Matches
<1>9. \A s \in Tokens : s \in drawn /\ Live(s)' => Live(s)
  BY <1>1, <1>7 DEF Live
<1> QED BY <1>6, <1>8, <1>9 DEF IInv

(* GET, and what every request does first.                                 *)
LEMMA ReadPreserves ==
  ASSUME IInv, NEW t \in Tokens, Read(t)
  PROVE  IInv' /\ \A s \in Tokens : Live(s)' => Live(s)
<1>1. sessions' = GetSession(t) /\ UNCHANGED <<now, drawn, puts, run>>
  BY DEF Read
<1>2. ClockOK' /\ RunsOK'
  BY <1>1 DEF IInv, ClockOK, RunsOK
<1>3. /\ GetSession(t) \in [Tokens -> {None} \cup Records(now, puts)]
      /\ \A s \in Tokens : GetSession(t)[s] # None =>
           Live(s) /\ s \in drawn /\ Matches(GetSession(t)[s])
  BY GetSessionKeeps DEF IInv
<1>4. SessionsOK'
  BY <1>1, <1>3 DEF SessionsOK, Matches
<1>5. \A s \in Tokens : Live(s)' => Live(s)
  <2>1. \A s \in Tokens : Live(s)' => sessions'[s] # None
    BY DEF Live
  <2> QED BY <1>1, <1>3, <2>1
<1> QED BY <1>2, <1>4, <1>5 DEF IInv

LEMMA PutPreserves ==
  ASSUME IInv, NEW t \in Tokens, NEW u \in Users, Put(t, u)
  PROVE  IInv' /\ \A s \in Tokens : Live(s)' => Live(s)
<1>1. PICK settings \in Configs, keyed \in BOOLEAN :
        sessions' = Upsert(t, u, settings, keyed)
  BY DEF Put
<1>2. /\ puts' = puts + 1 /\ puts < MaxPuts /\ UNCHANGED <<now, drawn, run>>
      /\ GetSession(t)[t] # None /\ puts \in Nat
  BY DEF Put, IInv, ClockOK
<1> DEFINE entry == Entry(settings, puts + 1, keyed)
           key == IF keyed THEN puts + 1 ELSE None
<1>3. /\ entry \in {None} \cup Entries(puts + 1) /\ key \in Keys(puts + 1)
      /\ entry # None => key = KeyOf(entry)
  BY <1>2 DEF Entry, Entries, Keys, KeyOf
<1>4. sessions' = [GetSession(t) EXCEPT ![t].principals[u] = entry, ![t].keys[u] = key]
  BY <1>1 DEF Upsert
<1> HIDE DEF entry, key
<1>5. puts + 1 \in Nat /\ puts <= puts + 1
  BY <1>2
<1>6. /\ sessions' \in [Tokens -> {None} \cup Records(now, puts + 1)]
      /\ \A s \in Tokens : sessions'[s] # None =>
           s \in drawn /\ Matches(sessions'[s]) /\ Live(s)
  BY <1>2, <1>3, <1>4, <1>5, WriteKeeps DEF IInv
<1>7. ClockOK' /\ RunsOK'
  BY <1>2 DEF IInv, ClockOK, RunsOK
<1>8. SessionsOK'
  BY <1>2, <1>6 DEF SessionsOK, Matches
<1>9. \A s \in Tokens : Live(s)' => Live(s)
  <2>1. \A s \in Tokens : Live(s)' => sessions'[s] # None
    BY DEF Live
  <2> QED BY <1>6, <2>1
<1> QED BY <1>7, <1>8, <1>9 DEF IInv

LEMMA DeletePreserves ==
  ASSUME IInv, NEW t \in Tokens, NEW u \in Users, DeletePrincipal(t, u)
  PROVE  IInv' /\ \A s \in Tokens : Live(s)' => Live(s)
<1>1. /\ UNCHANGED <<now, drawn, puts, run>> /\ GetSession(t)[t] # None
      /\ sessions' = [GetSession(t) EXCEPT ![t].principals[u] = None, ![t].keys[u] = None]
      /\ puts \in Nat
  BY DEF DeletePrincipal, IInv, ClockOK
<1>2. None \in {None} \cup Entries(puts) /\ None \in Keys(puts) /\ puts <= puts
  BY <1>1 DEF Keys
<1>3. /\ sessions' \in [Tokens -> {None} \cup Records(now, puts)]
      /\ \A s \in Tokens : sessions'[s] # None =>
           s \in drawn /\ Matches(sessions'[s]) /\ Live(s)
  BY <1>1, <1>2, WriteKeeps DEF IInv
<1>4. ClockOK' /\ RunsOK'
  BY <1>1 DEF IInv, ClockOK, RunsOK
<1>5. SessionsOK'
  BY <1>1, <1>3 DEF SessionsOK, Matches
<1>6. \A s \in Tokens : Live(s)' => Live(s)
  <2>1. \A s \in Tokens : Live(s)' => sessions'[s] # None
    BY DEF Live
  <2> QED BY <1>3, <2>1
<1> QED BY <1>4, <1>5, <1>6 DEF IInv

LEMMA DestroyPreserves ==
  ASSUME IInv, NEW t \in Tokens, Destroy(t)
  PROVE  IInv' /\ \A s \in Tokens : Live(s)' => Live(s)
<1>1. UNCHANGED <<now, drawn, puts, run>> /\ sessions' = [sessions EXCEPT ![t] = None]
  BY DEF Destroy
<1>2. sessions'[t] = None /\ \A s \in Tokens \ {t} : sessions'[s] = sessions[s]
  BY <1>1 DEF IInv, SessionsOK
<1>3. ClockOK' /\ RunsOK'
  BY <1>1 DEF IInv, ClockOK, RunsOK
<1>4. SessionsOK'
  BY <1>1, <1>2 DEF IInv, SessionsOK, Matches
<1>5. \A s \in Tokens : Live(s)' => Live(s)
  BY <1>1, <1>2 DEF Live
<1> QED BY <1>3, <1>4, <1>5 DEF IInv

-----------------------------------------------------------------------------
(* Runs *)

LEMMA StartPreserves ==
  ASSUME IInv, NEW r \in Runs, NEW t \in Tokens, StartRun(r, t)
  PROVE  IInv' /\ \A s \in Tokens : Live(s)' => Live(s)
<1>1. /\ sessions' = GetSession(t) /\ UNCHANGED <<now, drawn, puts>>
      /\ GetSession(t)[t] # None
  BY DEF StartRun
<1>2. /\ GetSession(t) \in [Tokens -> {None} \cup Records(now, puts)]
      /\ \A s \in Tokens : GetSession(t)[s] # None =>
           /\ Live(s) /\ s \in drawn /\ Matches(GetSession(t)[s])
  BY GetSessionKeeps DEF IInv
<1>3. ClockOK' /\ SessionsOK'
  BY <1>1, <1>2 DEF IInv, ClockOK, SessionsOK, Matches
<1>4. \A s \in Tokens : Live(s)' => Live(s)
  <2>1. \A s \in Tokens : Live(s)' => sessions'[s] # None
    BY DEF Live
  <2> QED BY <1>1, <1>2, <2>1
<1>5. sessions[t] # None /\ Matches(sessions[t])
  BY <1>1, <1>2 DEF IInv, SessionsOK, Live
<1>6. \E record : run' = [run EXCEPT ![r] = record]
                  /\ \/ record.stage = "refused"
                     \/ (record.stage = "starting" /\ Paired(record))
  <2>1. PICK request \in Requests :
          LET record == sessions[t]
              sender == record.principals[request.sender]
              recipient == record.principals[request.recipient]
          IN  /\ sender # None
              /\ recipient # None
              /\ run' = [run EXCEPT ![r] =
                   IF \/ request.sender = request.recipient
                      \/ request.earliest >= request.latest
                   THEN [stage |-> "refused"]
                   ELSE [stage      |-> "starting",
                         token      |-> t,
                         request    |-> request,
                         sender     |-> sender,
                         recipient  |-> recipient,
                         keys       |-> <<record.keys[request.sender],
                                          record.keys[request.recipient]>>,
                         candidates |-> FreeSlots(sender.settings.calendar.events,
                                                  request),
                         agent      |-> sender.settings.calendar,
                         verdict    |-> <<>>,
                         success    |-> FALSE]]
    BY DEF StartRun
  <2>2. request.sender \in Users /\ request.recipient \in Users
    OBVIOUS
  <2> DEFINE sender == sessions[t].principals[request.sender]
             recipient == sessions[t].principals[request.recipient]
             keys == <<sessions[t].keys[request.sender],
                       sessions[t].keys[request.recipient]>>
             candidates == FreeSlots(sender.settings.calendar.events, request)
             agent == sender.settings.calendar
  <2>3. /\ keys[1] = KeyOf(sender) /\ keys[2] = KeyOf(recipient)
    BY <1>5, <2>1, <2>2 DEF Matches
  <2>4. run' = [run EXCEPT ![r] =
                  IF \/ request.sender = request.recipient
                     \/ request.earliest >= request.latest
                  THEN [stage |-> "refused"]
                  ELSE [stage |-> "starting", token |-> t, request |-> request,
                        sender |-> sender, recipient |-> recipient, keys |-> keys,
                        candidates |-> candidates, agent |-> agent,
                        verdict |-> <<>>, success |-> FALSE]]
    BY <2>1
  <2> HIDE DEF sender, recipient, keys, candidates, agent
  <2> DEFINE new == [stage |-> "starting", token |-> t, request |-> request,
                     sender |-> sender, recipient |-> recipient, keys |-> keys,
                     candidates |-> candidates, agent |-> agent,
                     verdict |-> <<>>, success |-> FALSE]
             refusal == [stage |-> "refused"]
  <2>5. /\ DOMAIN new = RunFields /\ new.stage = "starting" /\ new.keys = keys
        /\ new.sender = sender /\ new.recipient = recipient
    BY DEF RunFields
  <2>6. refusal.stage = "refused"
    OBVIOUS
  <2>7. run' = [run EXCEPT ![r] = refusal] \/ run' = [run EXCEPT ![r] = new]
    BY <2>4
  <2> HIDE DEF new, refusal
  <2> QED BY <2>3, <2>5, <2>6, <2>7 DEF Paired
<1>7. RunsOK'
  <2>1. PICK record : /\ run' = [run EXCEPT ![r] = record]
                      /\ \/ record.stage = "refused"
                         \/ (record.stage = "starting" /\ Paired(record))
    BY <1>6
  <2>2. /\ DOMAIN run' = Runs /\ run'[r] = record
        /\ \A s \in Runs \ {r} : run'[s] = run[s]
    BY <2>1 DEF IInv, RunsOK
  <2> QED BY <2>1, <2>2 DEF IInv, RunsOK, UnderWay
<1> QED BY <1>3, <1>4, <1>7 DEF IInv

(* The steps of a run under way write neither the configurations nor the   *)
(* keys it was started with, nor the sessions.                             *)
LEMMA RunStepPreserves ==
  ASSUME IInv, NEW r \in Runs,
         SendProposal(r) \/ HandleProposal(r) \/ Return(r) \/ Raise(r) \/ Finish(r)
  PROVE  IInv' /\ \A s \in Tokens : Live(s)' => Live(s)
<1>1. UNCHANGED <<now, sessions, drawn, puts>>
  BY DEF SendProposal, HandleProposal, Return, Raise, Finish
<1>2. ClockOK' /\ SessionsOK' /\ \A s \in Tokens : Live(s)' => Live(s)
  BY <1>1 DEF IInv, ClockOK, SessionsOK, Live, Matches
<1>3. \E record : run' = [run EXCEPT ![r] = record]
                  /\ \/ record.stage = "failed"
                     \/ /\ record.stage \in UnderWay
                        /\ run[r].stage \in UnderWay
                        /\ DOMAIN record = DOMAIN run[r]
                        /\ Paired(run[r]) =>
                             /\ record.keys = run[r].keys
                             /\ record.sender = run[r].sender
                             /\ record.recipient = run[r].recipient
  <2>1. CASE SendProposal(r)
    <3> WITNESS [run[r] EXCEPT !.stage = "waiting"]
    <3> QED BY <2>1 DEF SendProposal, Step, UnderWay, Paired, RunFields, IInv, RunsOK
  <2>2. CASE HandleProposal(r)
    <3>1. PICK slot : Step(r, "waiting", [run[r] EXCEPT !.verdict = <<slot>>])
      BY <2>2 DEF HandleProposal
    <3> WITNESS [run[r] EXCEPT !.verdict = <<slot>>]
    <3> QED BY <3>1 DEF Step, UnderWay, Paired, RunFields, IInv, RunsOK
  <2>3. CASE Return(r)
    <3> DEFINE agent == BookAnswer(r)
    <3>1. Step(r, "waiting", [run[r] EXCEPT !.stage = "stopping", !.agent = agent])
      BY <2>3 DEF Return
    <3> HIDE DEF agent
    <3> WITNESS [run[r] EXCEPT !.stage = "stopping", !.agent = agent]
    <3> QED BY <3>1 DEF Step, UnderWay, Paired, RunFields, IInv, RunsOK
  <2>4. CASE Raise(r)
    <3> WITNESS [stage |-> "failed"]
    <3> QED BY <2>4 DEF Raise
  <2>5. CASE Finish(r)
    <3> DEFINE success == run[r].verdict # <<None>>
    <3>1. Step(r, "stopping", [run[r] EXCEPT !.stage = "done", !.success = success])
      BY <2>5 DEF Finish
    <3> HIDE DEF success
    <3> WITNESS [run[r] EXCEPT !.stage = "done", !.success = success]
    <3> QED BY <3>1 DEF Step, UnderWay, Paired, RunFields, IInv, RunsOK
  <2> QED BY <2>1, <2>2, <2>3, <2>4, <2>5
<1>4. RunsOK'
  <2>1. PICK record :
          /\ run' = [run EXCEPT ![r] = record]
          /\ \/ record.stage = "failed"
             \/ /\ record.stage \in UnderWay
                /\ run[r].stage \in UnderWay
                /\ DOMAIN record = DOMAIN run[r]
                /\ Paired(run[r]) =>
                     /\ record.keys = run[r].keys
                     /\ record.sender = run[r].sender
                     /\ record.recipient = run[r].recipient
    BY <1>3
  <2>2. /\ DOMAIN run' = Runs /\ run'[r] = record
        /\ \A s \in Runs \ {r} : run'[s] = run[s]
    BY <2>1 DEF IInv, RunsOK
  <2>3. run[r].stage \in UnderWay => Paired(run[r])
    BY DEF IInv, RunsOK
  <2>4. record.stage = "failed" \/ (record.stage \in UnderWay /\ Paired(record))
    BY <2>1, <2>3 DEF Paired
  <2> QED BY <2>2, <2>4 DEF IInv, RunsOK, UnderWay
<1> QED BY <1>2, <1>4 DEF IInv

-----------------------------------------------------------------------------
(* The theorems *)

LEMMA NextPreserves ==
  ASSUME IInv, [Next]_vars
  PROVE  IInv' /\ \A t \in Tokens : t \in drawn /\ Live(t)' => Live(t)
<1>1. CASE Tick
  BY <1>1, TickPreserves
<1>2. ASSUME NEW t \in Tokens, Create(t)
      PROVE  IInv' /\ \A s \in Tokens : s \in drawn /\ Live(s)' => Live(s)
  BY <1>2, CreatePreserves
<1>3. ASSUME NEW t \in Tokens, Read(t) \/ Destroy(t)
      PROVE  IInv' /\ \A s \in Tokens : s \in drawn /\ Live(s)' => Live(s)
  BY <1>3, ReadPreserves, DestroyPreserves
<1>4. ASSUME NEW t \in Tokens, NEW u \in Users, Put(t, u) \/ DeletePrincipal(t, u)
      PROVE  IInv' /\ \A s \in Tokens : s \in drawn /\ Live(s)' => Live(s)
  BY <1>4, PutPreserves, DeletePreserves
<1>5. ASSUME NEW r \in Runs, RunNext(r)
      PROVE  IInv' /\ \A s \in Tokens : s \in drawn /\ Live(s)' => Live(s)
  BY <1>5, StartPreserves, RunStepPreserves DEF RunNext
<1>6. CASE UNCHANGED vars
  BY <1>6 DEF IInv, ClockOK, SessionsOK, RunsOK, Live, Matches, vars
<1> QED BY <1>1, <1>2, <1>3, <1>4, <1>5, <1>6 DEF Next

(* The store, the keys and the runs under way stay in order, whatever      *)
(* requests come (sandbox_session.py, main.py and sandbox_runner.py).      *)
THEOREM SandboxInvariant == Spec => []IInv
BY InitIInv, NextPreserves, PTL DEF Spec

(* Sessions, keys and runs always have their shapes, and no session's time *)
(* to live reaches further than Ttl (get_session's sliding expiry).        *)
THEOREM TypeCorrect == Spec => []SandboxTypeOK
<1>1. IInv => SandboxTypeOK
  <2> SUFFICES ASSUME IInv PROVE SandboxTypeOK
    OBVIOUS
  <2>1. ASSUME NEW t \in Tokens, sessions[t] # None
        PROVE  /\ t \in drawn
               /\ sessions[t].expires \in 0 .. now + Ttl
               /\ \A u \in Users :
                    LET entry == sessions[t].principals[u] IN
                    /\ entry # None => /\ entry.settings \in Settings
                                       /\ entry.put \in 0 .. puts
                    /\ sessions[t].keys[u] \in {None} \cup 1 .. puts
    <3>1. sessions[t] \in Records(now, puts) /\ t \in drawn
      BY <2>1 DEF IInv, SessionsOK
    <3>2. \A u \in Users : /\ sessions[t].principals[u] \in {None} \cup Entries(puts)
                           /\ sessions[t].keys[u] \in Keys(puts)
      BY <3>1 DEF Records
    <3>3. sessions[t].expires \in 0 .. now + Ttl
      BY <3>1 DEF Records
    <3> QED BY <3>1, <3>2, <3>3 DEF Entries, Keys
  <2> QED BY <2>1 DEF IInv, ClockOK, RunsOK, UnderWay, SandboxTypeOK
<1> QED BY <1>1, SandboxInvariant, PTL

(* The reasoners of a run get the keys that came with the very             *)
(* configurations they were built from (upsert_principal, run_scenario_1). *)
THEOREM KeysComeWithTheirConfiguration == Spec => []RunUsesOneSnapshot
<1>1. IInv => RunUsesOneSnapshot
  BY DEF IInv, RunsOK, UnderWay, Under, Paired, KeyOf, RunUsesOneSnapshot
<1> QED BY <1>1, SandboxInvariant, PTL

(* No request and no late run revives a session that was destroyed or has  *)
(* run out (get_session sweeps before it refreshes).                       *)
THEOREM EndedSessionsStayEnded == Spec => DeadSessionsStayDead
<1>1. IInv /\ [Next]_vars =>
        [\A t \in Tokens : t \in drawn /\ ~ Live(t) => ~ Live(t)']_vars
  BY NextPreserves
<1> QED BY <1>1, SandboxInvariant, PTL DEF Spec, DeadSessionsStayDead

-----------------------------------------------------------------------------
(* What a run answers *)

InRun == {r \in Runs : run[r].stage \in UnderWay}

(* The verdict, the calendar of the sender's agent and the result are the  *)
(* ones the two configurations of the run and its request lead to.         *)
Faithful(record, r) ==
  LET before == record.sender.settings.calendar
      heard == Heard(record)
      answer == Answered(record)
      answers == Verdicts(record.recipient, record.keys[2], heard.candidates,
                          heard.duration)
  IN  /\ record.candidates = FreeSlots(before.events, record.request)
      /\ record.stage \in {"starting", "waiting"} => record.agent = before
      /\ record.stage = "starting" => record.verdict = <<>>
      /\ record.verdict # <<>> => \E slot \in answers : record.verdict = <<slot>>
      /\ record.stage \in {"stopping", "done"} =>
           /\ record.verdict # <<>>
           /\ record.agent =
                IF answer.candidates = {} THEN before
                ELSE Book(before, ClockTime(record.verdict[1]), answer.duration, r)
      /\ record.stage = "done" => record.success = (record.verdict # <<None>>)

AnswersOK == \A r \in InRun : Faithful(run[r], r)

(* What the server holds for a user of a session: the entry stored, and    *)
(* those that the session's runs were started with.                        *)
HeldIn(S, R, t, u) ==
  LET from == {r \in Runs : R[r].stage \in UnderWay /\ R[r].token = t}
  IN  (IF S[t] = None THEN {} ELSE {S[t].principals[u]} \ {None})
        \cup {R[r].sender : r \in {s \in from : R[s].request.sender = u}}
        \cup {R[r].recipient : r \in {s \in from : R[s].request.recipient = u}}

Held(t, u) == HeldIn(sessions, run, t, u)

(* Entries that came with the same PUT are the same, wherever they are     *)
(* held; the entry of PUT 0 is the default.                                *)
EntriesOK ==
  \A t \in Tokens, u \in Users :
    \A d \in Held(t, u) :
      /\ d.put \in 0 .. puts
      /\ d.put = 0 => d = Entry(Defaults[u], 0, FALSE)
      /\ \A e \in Held(t, u) : d.put = e.put => d = e

(* Where a run under way comes from.                                       *)
RequestsOK == \A r \in InRun : run[r].request \in Requests /\ run[r].token \in Tokens

SInv == IInv /\ AnswersOK /\ EntriesOK /\ RequestsOK

(* What a run starts with.                                                 *)
Started(record, t, request) ==
  LET sender == record.principals[request.sender]
      recipient == record.principals[request.recipient]
  IN  [stage      |-> "starting",
       token      |-> t,
       request    |-> request,
       sender     |-> sender,
       recipient  |-> recipient,
       keys       |-> <<record.keys[request.sender], record.keys[request.recipient]>>,
       candidates |-> FreeSlots(sender.settings.calendar.events, request),
       agent      |-> sender.settings.calendar,
       verdict    |-> <<>>,
       success    |-> FALSE]

(* A run begins, with this record. *)
BeginsWith(r, t, request, record) ==
  /\ sessions[t] # None
  /\ sessions[t].principals[request.sender] # None
  /\ sessions[t].principals[request.recipient] # None
  /\ run' = [run EXCEPT ![r] = record]
  /\ \/ record.stage = "refused"
     \/ record = Started(sessions[t], t, request)

LEMMA StartRecord ==
  ASSUME IInv, NEW r \in Runs, NEW t \in Tokens, StartRun(r, t)
  PROVE  \E request \in Requests : \E record :
           BeginsWith(r, t, request, record)
<1>1. PICK request \in Requests :
        LET record == sessions[t]
            sender == record.principals[request.sender]
            recipient == record.principals[request.recipient]
        IN  /\ sender # None
            /\ recipient # None
            /\ run' = [run EXCEPT ![r] =
                 IF \/ request.sender = request.recipient
                    \/ request.earliest >= request.latest
                 THEN [stage |-> "refused"]
                 ELSE [stage      |-> "starting",
                       token      |-> t,
                       request    |-> request,
                       sender     |-> sender,
                       recipient  |-> recipient,
                       keys       |-> <<record.keys[request.sender],
                                        record.keys[request.recipient]>>,
                       candidates |-> FreeSlots(sender.settings.calendar.events,
                                                request),
                       agent      |-> sender.settings.calendar,
                       verdict    |-> <<>>,
                       success    |-> FALSE]]
  BY DEF StartRun
<1>2. sessions[t] # None
  <2>1. GetSession(t)[t] # None
    BY DEF StartRun
  <2>2. Live(t)
    BY <2>1, GetSessionKeeps DEF IInv
  <2> QED BY <2>2 DEF Live
<1> DEFINE refusal == [stage |-> "refused"]
           new == Started(sessions[t], t, request)
<1>3. run' = [run EXCEPT ![r] = refusal] \/ run' = [run EXCEPT ![r] = new]
  BY <1>1, Zenon DEF Started
<1>4. refusal.stage = "refused"
  OBVIOUS
<1> HIDE DEF refusal
<1> QED BY <1>1, <1>2, <1>3, <1>4 DEF BeginsWith

(* A step of a run under way leaves what it was started with.              *)
SameStart(record, old) ==
  /\ record.token = old.token
  /\ record.request = old.request
  /\ record.sender = old.sender
  /\ record.recipient = old.recipient

LEMMA RunStepRecord ==
  ASSUME IInv, NEW r \in Runs,
         SendProposal(r) \/ HandleProposal(r) \/ Return(r) \/ Raise(r) \/ Finish(r)
  PROVE  \E record :
           /\ run' = [run EXCEPT ![r] = record]
           /\ \/ record.stage = "failed"
              \/ /\ record.stage \in UnderWay
                 /\ run[r].stage \in UnderWay
                 /\ SameStart(record, run[r])
                 /\ Faithful(run[r], r) => Faithful(record, r)
<1> DEFINE old == run[r]
<1>1. old.stage \in UnderWay => DOMAIN old = RunFields
  BY DEF IInv, RunsOK, Paired
<1>2. ASSUME NEW new, SameStart(new, old), new.candidates = old.candidates
      PROVE  /\ Heard(new) = Heard(old)
             /\ new.verdict = old.verdict => Answered(new) = Answered(old)
  BY <1>2 DEF SameStart, Heard, Answered, Disclosed, Narrowed
<1>3. CASE SendProposal(r)
  <2> DEFINE new == [old EXCEPT !.stage = "waiting"]
  <2>1. old.stage = "starting" /\ run' = [run EXCEPT ![r] = new]
    BY <1>3 DEF SendProposal, Step
  <2>2. /\ new.stage = "waiting" /\ new.token = old.token /\ new.request = old.request
        /\ new.sender = old.sender /\ new.recipient = old.recipient /\ new.keys = old.keys
        /\ new.candidates = old.candidates /\ new.agent = old.agent
        /\ new.verdict = old.verdict
    BY <1>1, <2>1 DEF RunFields, UnderWay
  <2> HIDE DEF new
  <2>3. SameStart(new, old) /\ (Faithful(old, r) => Faithful(new, r))
    BY <2>1, <2>2, <1>2 DEF SameStart, Faithful
  <2> QED BY <2>1, <2>2, <2>3 DEF UnderWay
<1>4. CASE HandleProposal(r)
  <2>1. PICK slot \in Verdicts(old.recipient, old.keys[2], Heard(old).candidates,
                             Heard(old).duration) :
          Step(r, "waiting", [old EXCEPT !.verdict = <<slot>>])
    BY <1>4, Zenon DEF HandleProposal
  <2> DEFINE new == [old EXCEPT !.verdict = <<slot>>]
  <2>2. old.stage = "waiting" /\ run' = [run EXCEPT ![r] = new]
    BY <2>1 DEF Step
  <2>3. /\ new.stage = "waiting" /\ new.token = old.token /\ new.request = old.request
        /\ new.sender = old.sender /\ new.recipient = old.recipient /\ new.keys = old.keys
        /\ new.candidates = old.candidates /\ new.agent = old.agent
        /\ new.verdict = <<slot>>
    BY <1>1, <2>2 DEF RunFields, UnderWay
  <2> HIDE DEF new
  <2>4. SameStart(new, old) /\ (Faithful(old, r) => Faithful(new, r))
    <3>1. SameStart(new, old)
      BY <2>3 DEF SameStart
    <3>2. Heard(new) = Heard(old) /\ (new.verdict = old.verdict => Answered(new) = Answered(old))
      BY <1>2, <2>3, <3>1
    <3> QED BY <2>1, <2>2, <2>3, <3>1, <3>2 DEF Faithful
  <2> QED BY <2>2, <2>3, <2>4 DEF UnderWay
<1>5. CASE Return(r)
  <2> DEFINE agent == BookAnswer(r)
             new == [old EXCEPT !.stage = "stopping", !.agent = agent]
  <2>1. old.stage = "waiting" /\ old.verdict # <<>> /\ run' = [run EXCEPT ![r] = new]
    BY <1>5 DEF Return, Step
  <2>2. agent = IF Answered(old).candidates = {} THEN old.agent
                ELSE Book(old.agent, ClockTime(old.verdict[1]), Answered(old).duration, r)
    BY DEF BookAnswer
  <2> HIDE DEF agent
  <2>3. /\ new.stage = "stopping" /\ new.token = old.token /\ new.request = old.request
        /\ new.sender = old.sender /\ new.recipient = old.recipient /\ new.keys = old.keys
        /\ new.candidates = old.candidates /\ new.agent = agent
        /\ new.verdict = old.verdict
    BY <1>1, <2>1 DEF RunFields, UnderWay
  <2> HIDE DEF new
  <2>4. SameStart(new, old) /\ (Faithful(old, r) => Faithful(new, r))
    <3>1. SameStart(new, old)
      BY <2>3 DEF SameStart
    <3>2. Heard(new) = Heard(old) /\ (new.verdict = old.verdict => Answered(new) = Answered(old))
      BY <1>2, <2>3, <3>1
    <3> QED BY <2>1, <2>2, <2>3, <3>1, <3>2 DEF Faithful
  <2> QED BY <2>1, <2>3, <2>4 DEF UnderWay
<1>6. CASE Raise(r)
  <2> DEFINE new == [stage |-> "failed"]
  <2>1. run' = [run EXCEPT ![r] = new] /\ new.stage = "failed"
    BY <1>6 DEF Raise
  <2> HIDE DEF new
  <2> QED BY <2>1
<1>7. CASE Finish(r)
  <2> DEFINE success == (old.verdict # <<None>>)
             new == [old EXCEPT !.stage = "done", !.success = success]
  <2>1. old.stage = "stopping" /\ run' = [run EXCEPT ![r] = new]
    BY <1>7 DEF Finish, Step
  <2> HIDE DEF success
  <2>2. /\ new.stage = "done" /\ new.token = old.token /\ new.request = old.request
        /\ new.sender = old.sender /\ new.recipient = old.recipient /\ new.keys = old.keys
        /\ new.candidates = old.candidates /\ new.agent = old.agent
        /\ new.verdict = old.verdict /\ new.success = success
    BY <1>1, <2>1 DEF RunFields, UnderWay
  <2> HIDE DEF new
  <2>3. SameStart(new, old) /\ (Faithful(old, r) => Faithful(new, r))
    BY <2>1, <2>2, <1>2 DEF SameStart, Faithful, success
  <2> QED BY <2>1, <2>2, <2>3 DEF UnderWay
<1> QED BY <1>3, <1>4, <1>5, <1>6, <1>7

LEMMA HeldIs ==
  ASSUME NEW S, NEW R, NEW t, NEW u, NEW d
  PROVE  d \in HeldIn(S, R, t, u) <=>
           \/ S[t] # None /\ d # None /\ d = S[t].principals[u]
           \/ \E r \in Runs :
                /\ R[r].stage \in UnderWay
                /\ R[r].token = t
                /\ \/ R[r].request.sender = u /\ d = R[r].sender
                   \/ R[r].request.recipient = u /\ d = R[r].recipient
BY DEF HeldIn

(* Entries stay determined by their PUTs when what is held afterwards was  *)
(* held before, is a default, or came with a new PUT.                      *)
LEMMA HeldKeeps ==
  ASSUME EntriesOK, puts \in Nat, puts' \in Nat, puts <= puts', NEW Fresh,
         \A d, e \in Fresh : d = e /\ d.put = puts' /\ puts < puts',
         \A t \in Tokens, u \in Users :
           sessions'[t] # None /\ sessions'[t].principals[u] # None =>
             sessions'[t].principals[u] \in
               Held(t, u) \cup {Entry(Defaults[u], 0, FALSE)} \cup Fresh,
         \A r \in Runs :
           run'[r].stage \in UnderWay =>
             \/ run[r].stage \in UnderWay /\ SameStart(run'[r], run[r])
             \/ /\ run'[r].sender \in Held(run'[r].token, run'[r].request.sender)
                /\ run'[r].recipient \in Held(run'[r].token, run'[r].request.recipient)
  PROVE  EntriesOK'
<1>1. ASSUME NEW t \in Tokens, NEW u \in Users, NEW d \in Held(t, u)'
      PROVE  d \in Held(t, u) \cup {Entry(Defaults[u], 0, FALSE)} \cup Fresh
  <2>1. CASE sessions'[t] # None /\ d # None /\ d = sessions'[t].principals[u]
    BY <2>1
  <2>2. CASE \E r \in Runs :
               /\ run'[r].stage \in UnderWay
               /\ run'[r].token = t
               /\ \/ run'[r].request.sender = u /\ d = run'[r].sender
                  \/ run'[r].request.recipient = u /\ d = run'[r].recipient
    <3>1. PICK r \in Runs :
            /\ run'[r].stage \in UnderWay
            /\ run'[r].token = t
            /\ \/ run'[r].request.sender = u /\ d = run'[r].sender
               \/ run'[r].request.recipient = u /\ d = run'[r].recipient
      BY <2>2
    <3>2. CASE run[r].stage \in UnderWay /\ SameStart(run'[r], run[r])
      <4>1. /\ run[r].stage \in UnderWay /\ run[r].token = t
            /\ \/ run[r].request.sender = u /\ d = run[r].sender
               \/ run[r].request.recipient = u /\ d = run[r].recipient
        BY <3>1, <3>2 DEF SameStart
      <4>2. d \in HeldIn(sessions, run, t, u)
        BY <4>1, HeldIs
      <4> QED BY <4>2 DEF Held
    <3>3. CASE ~ (run[r].stage \in UnderWay /\ SameStart(run'[r], run[r]))
      BY <3>1, <3>3
    <3> QED BY <3>2, <3>3
  <2>3. d \in HeldIn(sessions', run', t, u)
    BY <1>1 DEF Held
  <2>4. \/ sessions'[t] # None /\ d # None /\ d = sessions'[t].principals[u]
        \/ \E r \in Runs :
             /\ run'[r].stage \in UnderWay
             /\ run'[r].token = t
             /\ \/ run'[r].request.sender = u /\ d = run'[r].sender
                \/ run'[r].request.recipient = u /\ d = run'[r].recipient
    BY <2>3 DEF HeldIn
  <2> QED BY <2>1, <2>2, <2>4
<1>2. \A u \in Users : Entry(Defaults[u], 0, FALSE).put = 0
  BY DEF Entry
<1> SUFFICES ASSUME NEW t \in Tokens, NEW u \in Users, NEW d \in Held(t, u)'
             PROVE  /\ d.put \in 0 .. puts'
                    /\ d.put = 0 => d = Entry(Defaults[u], 0, FALSE)
                    /\ \A e \in Held(t, u)' : d.put = e.put => d = e
  BY DEF EntriesOK
<1> DEFINE default == Entry(Defaults[u], 0, FALSE)
<1>3. default.put = 0
  BY <1>2
<1>4. \A e \in Held(t, u)' : e \in Held(t, u) \cup {default} \cup Fresh
  BY <1>1
<1>5. \A e \in Held(t, u) : /\ e.put \in 0 .. puts
                            /\ e.put = 0 => e = default
                            /\ \A f \in Held(t, u) : e.put = f.put => e = f
  BY DEF EntriesOK
<1> HIDE DEF default
<1>6. \A e \in Fresh : e.put = puts' /\ puts < puts'
  OBVIOUS
<1>7. d.put \in 0 .. puts' /\ (d.put = 0 => d = default)
  BY <1>3, <1>4, <1>5, <1>6
<1>8. ASSUME NEW e \in Held(t, u)', d.put = e.put PROVE d = e
  <2>1. CASE d \in Held(t, u) /\ e \in Held(t, u)
    BY <1>5, <1>8, <2>1
  <2>2. CASE d \in Fresh /\ e \in Fresh
    BY <2>2
  <2>3. CASE d = default \/ e = default
    <3>1. d.put = 0 /\ e.put = 0
      BY <1>3, <1>8, <2>3
    <3>2. d \notin Fresh /\ e \notin Fresh
      BY <1>6, <3>1
    <3> QED BY <1>4, <1>5, <3>1, <3>2
  <2>4. CASE \/ d \in Held(t, u) /\ e \in Fresh
             \/ e \in Held(t, u) /\ d \in Fresh
    BY <1>5, <1>6, <1>8, <2>4
  <2> QED BY <1>4, <2>1, <2>2, <2>3, <2>4
<1> QED BY <1>7, <1>8 DEF default

LEMMA StoredIsHeld ==
  ASSUME NEW t, NEW u, sessions[t] # None, sessions[t].principals[u] # None
  PROVE  sessions[t].principals[u] \in Held(t, u)
BY DEF Held, HeldIn

LEMMA StartedFields ==
  ASSUME NEW record, NEW t, NEW request
  PROVE  LET new == Started(record, t, request) IN
         /\ new.stage = "starting" /\ new.token = t /\ new.request = request
         /\ new.sender = record.principals[request.sender]
         /\ new.recipient = record.principals[request.recipient]
         /\ new.candidates =
              FreeSlots(new.sender.settings.calendar.events, request)
         /\ new.agent = new.sender.settings.calendar
         /\ new.verdict = <<>>
BY DEF Started

(* The runs: every one under way was started from entries held, or is the  *)
(* same but for its progress, which is faithful.                           *)
LEMMA RunsFollow ==
  ASSUME SInv, [Next]_vars
  PROVE  \A r \in Runs :
           run'[r].stage \in UnderWay =>
             /\ run'[r].request \in Requests /\ run'[r].token \in Tokens
             /\ Faithful(run'[r], r)
             /\ \/ run[r].stage \in UnderWay /\ SameStart(run'[r], run[r])
                \/ /\ run'[r].sender \in Held(run'[r].token, run'[r].request.sender)
                   /\ run'[r].recipient \in Held(run'[r].token, run'[r].request.recipient)
<1> SUFFICES ASSUME NEW r \in Runs, run'[r].stage \in UnderWay
             PROVE  /\ run'[r].request \in Requests /\ run'[r].token \in Tokens
                    /\ Faithful(run'[r], r)
                    /\ \/ run[r].stage \in UnderWay /\ SameStart(run'[r], run[r])
                       \/ /\ run'[r].sender \in Held(run'[r].token, run'[r].request.sender)
                          /\ run'[r].recipient \in
                               Held(run'[r].token, run'[r].request.recipient)
  OBVIOUS
<1>1. DOMAIN run = Runs /\ IInv
  BY DEF SInv, IInv, RunsOK
<1>2. run[r].stage \in UnderWay => /\ run[r].request \in Requests /\ run[r].token \in Tokens
                              /\ Faithful(run[r], r)
  BY DEF SInv, AnswersOK, RequestsOK, InRun
<1>3. CASE run'[r] = run[r]
  BY <1>2, <1>3 DEF SameStart
<1>4. ASSUME NEW t \in Tokens, StartRun(r, t)
      PROVE  /\ run'[r].request \in Requests /\ run'[r].token \in Tokens
             /\ Faithful(run'[r], r)
             /\ run'[r].sender \in Held(run'[r].token, run'[r].request.sender)
             /\ run'[r].recipient \in Held(run'[r].token, run'[r].request.recipient)
  <2>0. PICK request \in Requests : \E record : BeginsWith(r, t, request, record)
    BY <1>1, <1>4, StartRecord, Zenon
  <2>1. PICK record : BeginsWith(r, t, request, record)
    BY <2>0
  <2> USE DEF BeginsWith
  <2>2. run'[r] = record /\ record.stage # "refused"
    BY <1>1, <2>1 DEF UnderWay
  <2>3. /\ record.stage = "starting" /\ record.token = t /\ record.request = request
        /\ record.sender = sessions[t].principals[request.sender]
        /\ record.recipient = sessions[t].principals[request.recipient]
        /\ record.candidates = FreeSlots(record.sender.settings.calendar.events, request)
        /\ record.agent = record.sender.settings.calendar
        /\ record.verdict = <<>>
    BY <2>1, <2>2, StartedFields
  <2>4. Faithful(record, r)
    BY <2>3 DEF Faithful
  <2>5. record.sender \in Held(t, request.sender)
        /\ record.recipient \in Held(t, request.recipient)
    BY <2>1, <2>3, StoredIsHeld
  <2> QED BY <2>2, <2>3, <2>4, <2>5
<1>5. CASE SendProposal(r) \/ HandleProposal(r) \/ Return(r) \/ Raise(r) \/ Finish(r)
  <2>1. PICK record :
          /\ run' = [run EXCEPT ![r] = record]
          /\ \/ record.stage = "failed"
             \/ /\ record.stage \in UnderWay
                /\ run[r].stage \in UnderWay
                /\ SameStart(record, run[r])
                /\ Faithful(run[r], r) => Faithful(record, r)
    BY <1>1, <1>5, RunStepRecord
  <2>2. run'[r] = record /\ record.stage # "failed"
    BY <1>1, <2>1 DEF UnderWay
  <2> QED BY <1>2, <2>1, <2>2 DEF SameStart
<1>6. CASE run' = run
  BY <1>3, <1>6
<1>7. ASSUME NEW s \in Runs, RunNext(s), s # r PROVE run'[r] = run[r]
  <2>1. \E record : run' = [run EXCEPT ![s] = record]
    <3>1. CASE \E t \in Tokens : StartRun(s, t)
      <4>1. PICK t \in Tokens : StartRun(s, t)
        BY <3>1
      <4>2. \E request \in Requests : \E record : run' = [run EXCEPT ![s] = record]
        BY <1>1, <4>1, StartRecord DEF BeginsWith
      <4> QED BY <4>2
    <3>2. CASE SendProposal(s) \/ HandleProposal(s) \/ Return(s) \/ Raise(s) \/ Finish(s)
      BY <1>1, <3>2, RunStepRecord
    <3> QED BY <1>7, <3>1, <3>2 DEF RunNext
  <2> QED BY <1>1, <1>7, <2>1
<1>8. CASE RunNext(r)
  BY <1>4, <1>5, <1>8 DEF RunNext
<1>9. (\E s \in Runs : RunNext(s)) \/ run' = run
  <2>1. Tick => run' = run
    BY DEF Tick
  <2>2. \A t \in Tokens : Create(t) \/ Read(t) \/ Destroy(t) => run' = run
    BY DEF Create, Read, Destroy
  <2>3. \A t \in Tokens, u \in Users : Put(t, u) \/ DeletePrincipal(t, u) => run' = run
    BY DEF Put, DeletePrincipal
  <2> QED BY <2>1, <2>2, <2>3 DEF Next, vars
<1> QED BY <1>3, <1>6, <1>7, <1>8, <1>9

(* The sessions: what is stored was held, is a default or is the new PUT's.*)
StoredFrom(Fresh) ==
  \A t \in Tokens, u \in Users :
    sessions'[t] # None /\ sessions'[t].principals[u] # None =>
      sessions'[t].principals[u] \in
        Held(t, u) \cup {Entry(Defaults[u], 0, FALSE)} \cup Fresh

LEMMA RequestStores ==
  ASSUME IInv, NEW t \in Tokens, sessions' = GetSession(t)
  PROVE  StoredFrom({})
<1>1. \A s \in Tokens : GetSession(t)[s] # None =>
        sessions[s] # None /\ GetSession(t)[s].principals = sessions[s].principals
  BY GetSessionKeeps DEF IInv, Live
<1> QED BY <1>1, StoredIsHeld DEF StoredFrom

LEMMA WriteStores ==
  ASSUME IInv, NEW t \in Tokens, NEW u \in Users, NEW entry, NEW key, NEW Fresh,
         entry # None => entry \in Fresh, GetSession(t)[t] # None,
         sessions' = [GetSession(t) EXCEPT ![t].principals[u] = entry,
                                           ![t].keys[u] = key]
  PROVE  StoredFrom(Fresh)
<1> DEFINE S == GetSession(t)
           new == [S[t] EXCEPT !.principals[u] = entry, !.keys[u] = key]
<1>1. /\ S \in [Tokens -> {None} \cup Records(now, puts)]
      /\ \A s \in Tokens : S[s] # None =>
           /\ sessions[s] # None /\ S[s].principals = sessions[s].principals
           /\ S[s] \in Records(now, puts)
  BY GetSessionKeeps DEF IInv, Live
<1>2. S[t] # None
  OBVIOUS
<1>3. sessions' = [S EXCEPT ![t] = new]
  <2>1. DOMAIN S = Tokens
    BY <1>1
  <2>2. sessions' = [S EXCEPT ![t].principals[u] = entry, ![t].keys[u] = key]
    OBVIOUS
  <2> HIDE DEF S
  <2> QED BY <2>1, <2>2, UpdateOne
<1>4. new.principals = [S[t].principals EXCEPT ![u] = entry]
  <2> DEFINE record == S[t]
  <2>1. record \in Records(now, puts)
    BY <1>1, <1>2
  <2> HIDE DEF record
  <2>2. [record EXCEPT !.principals[u] = entry, !.keys[u] = key].principals =
          [record.principals EXCEPT ![u] = entry]
    <3> DEFINE mid == [record EXCEPT !.principals[u] = entry]
    <3>1. DOMAIN record = {"expires", "principals", "keys"}
      BY <2>1 DEF Records
    <3>2. [record EXCEPT !.principals[u] = entry, !.keys[u] = key] =
            [mid EXCEPT !.keys[u] = key]
      OBVIOUS
    <3>3. mid.principals = [record.principals EXCEPT ![u] = entry]
          /\ DOMAIN mid = {"expires", "principals", "keys"}
      BY <3>1
    <3> HIDE DEF mid
    <3>4. [mid EXCEPT !.keys[u] = key].principals = mid.principals
      BY <3>3
    <3> QED BY <3>2, <3>3, <3>4
  <2> QED BY <2>2 DEF record
<1>5. DOMAIN S[t].principals = Users
  BY <1>1, <1>2 DEF Records
<1>10. S[t] # None
  BY <1>2
<1> HIDE DEF S, new
<1>6. sessions'[t] = new /\ \A s \in Tokens \ {t} : sessions'[s] = S[s]
  BY <1>1, <1>3
<1> SUFFICES ASSUME NEW s \in Tokens, NEW v \in Users, sessions'[s] # None,
                    sessions'[s].principals[v] # None
             PROVE  sessions'[s].principals[v] \in
                      Held(s, v) \cup {Entry(Defaults[v], 0, FALSE)} \cup Fresh
  BY DEF StoredFrom
<1>7. CASE s = t /\ v = u
  BY <1>4, <1>5, <1>6, <1>7
<1>8. CASE s = t /\ v # u
  <2>1. sessions'[s].principals = [S[t].principals EXCEPT ![u] = entry]
    BY <1>4, <1>6, <1>8
  <2>2. sessions'[s].principals[v] = S[t].principals[v]
    BY <1>5, <1>8, <2>1
  <2>3. sessions[t] # None /\ S[t].principals = sessions[t].principals
    BY <1>1, <1>10
  <2> QED BY <1>8, <2>2, <2>3, StoredIsHeld
<1>9. CASE s # t
  <2>1. sessions'[s] = S[s]
    BY <1>6, <1>9
  <2>2. sessions[s] # None /\ S[s].principals = sessions[s].principals
    BY <1>1, <2>1
  <2> QED BY <2>1, <2>2, StoredIsHeld
<1> QED BY <1>7, <1>8, <1>9

LEMMA StoresFollow ==
  ASSUME IInv, [Next]_vars
  PROVE  \E Fresh :
           /\ \A d, e \in Fresh : d = e /\ d.put = puts' /\ puts < puts'
           /\ StoredFrom(Fresh)
<1> USE DEF IInv
<1>1. ASSUME NEW t \in Tokens, Read(t) \/ \E r \in Runs : StartRun(r, t)
      PROVE  StoredFrom({})
  <2>1. sessions' = GetSession(t)
    BY <1>1 DEF Read, StartRun
  <2> QED BY <2>1, RequestStores
<1>2. ASSUME NEW t \in Tokens, Create(t) PROVE StoredFrom({})
  <2> DEFINE default(u) == Entry(Defaults[u], 0, FALSE)
             principals == [u \in Users |->
                              IF u \in DOMAIN Defaults THEN default(u) ELSE None]
             new == [expires |-> now + Ttl, principals |-> principals,
                     keys |-> [u \in Users |-> None]]
  <2>1. sessions' = [sessions EXCEPT ![t] = new] /\ DOMAIN sessions = Tokens
    BY <1>2 DEF Create, SessionsOK
  <2>2. new.principals = principals
    OBVIOUS
  <2> HIDE DEF new
  <2>3. sessions'[t] = new /\ \A s \in Tokens \ {t} : sessions'[s] = sessions[s]
    BY <2>1
  <2>4. \A u \in Users : new.principals[u] # None => new.principals[u] = default(u)
    BY <2>2
  <2> HIDE DEF default, principals
  <2> SUFFICES ASSUME NEW s \in Tokens, NEW u \in Users, sessions'[s] # None,
                      sessions'[s].principals[u] # None
               PROVE  sessions'[s].principals[u] \in Held(s, u) \cup {default(u)} \cup {}
    BY DEF StoredFrom, default
  <2>5. CASE s = t
    BY <2>3, <2>4, <2>5
  <2>6. CASE s # t
    BY <2>3, <2>6, StoredIsHeld
  <2> QED BY <2>5, <2>6
<1>3. ASSUME NEW t \in Tokens, Destroy(t) PROVE StoredFrom({})
  <2>1. \A s \in Tokens : sessions'[s] # None => sessions'[s] = sessions[s]
    BY <1>3 DEF Destroy, SessionsOK
  <2> QED BY <2>1, StoredIsHeld DEF StoredFrom
<1>4. CASE sessions' = sessions
  <2>1. StoredFrom({})
    BY <1>4, StoredIsHeld DEF StoredFrom
  <2> QED BY <2>1
<1>5. ASSUME NEW t \in Tokens, NEW u \in Users, DeletePrincipal(t, u)
      PROVE  StoredFrom({})
  <2>1. /\ GetSession(t)[t] # None
        /\ sessions' = [GetSession(t) EXCEPT ![t].principals[u] = None, ![t].keys[u] = None]
    BY <1>5 DEF DeletePrincipal
  <2> DEFINE entry == None
             key == None
  <2>2. sessions' = [GetSession(t) EXCEPT ![t].principals[u] = entry, ![t].keys[u] = key]
    BY <2>1
  <2>3. entry # None => entry \in {}
    OBVIOUS
  <2> HIDE DEF entry, key
  <2> QED BY <2>1, <2>2, <2>3, WriteStores
<1>6. ASSUME NEW t \in Tokens, NEW u \in Users, Put(t, u)
      PROVE  \E Fresh :
               /\ \A d, e \in Fresh : d = e /\ d.put = puts' /\ puts < puts'
               /\ StoredFrom(Fresh)
  <2>1. PICK settings \in Configs, keyed \in BOOLEAN :
          sessions' = Upsert(t, u, settings, keyed)
    BY <1>6 DEF Put
  <2> DEFINE entry == Entry(settings, puts + 1, keyed)
             key == IF keyed THEN puts + 1 ELSE None
  <2>2. puts' = puts + 1 /\ puts \in Nat /\ GetSession(t)[t] # None
    BY <1>6 DEF Put, ClockOK
  <2>3. sessions' = [GetSession(t) EXCEPT ![t].principals[u] = entry, ![t].keys[u] = key]
    BY <2>1 DEF Upsert
  <2>4. entry.put = puts + 1
    BY DEF Entry
  <2> HIDE DEF entry, key
  <2>5. StoredFrom({entry})
    BY <2>2, <2>3, WriteStores
  <2> QED BY <2>2, <2>4, <2>5
<1>7. \/ sessions' = sessions
      \/ \E t \in Tokens :
           \/ Create(t) \/ Destroy(t)
           \/ Read(t) \/ \E r \in Runs : StartRun(r, t)
           \/ \E u \in Users : Put(t, u) \/ DeletePrincipal(t, u)
  <2>1. Tick => sessions' = sessions
    BY DEF Tick
  <2>2. \A r \in Runs :
          SendProposal(r) \/ HandleProposal(r) \/ Return(r) \/ Raise(r) \/ Finish(r)
            => sessions' = sessions
    BY DEF SendProposal, HandleProposal, Return, Raise, Finish
  <2>3. UNCHANGED vars => sessions' = sessions
    BY DEF vars
  <2> QED BY <2>1, <2>2, <2>3 DEF Next, RunNext
<1>8. StoredFrom({}) => \E Fresh :
        /\ \A d, e \in Fresh : d = e /\ d.put = puts' /\ puts < puts'
        /\ StoredFrom(Fresh)
  OBVIOUS
<1> QED BY <1>1, <1>2, <1>3, <1>4, <1>5, <1>6, <1>7, <1>8

LEMMA SInvPreserved ==
  ASSUME SInv, [Next]_vars
  PROVE  SInv'
<1>1. IInv /\ IInv'
  BY NextPreserves DEF SInv
<1>2. \A r \in Runs :
        run'[r].stage \in UnderWay =>
          /\ run'[r].request \in Requests /\ run'[r].token \in Tokens
          /\ Faithful(run'[r], r)
          /\ \/ run[r].stage \in UnderWay /\ SameStart(run'[r], run[r])
             \/ /\ run'[r].sender \in Held(run'[r].token, run'[r].request.sender)
                /\ run'[r].recipient \in Held(run'[r].token, run'[r].request.recipient)
  BY RunsFollow
<1>3. AnswersOK' /\ RequestsOK'
  <2>1. \A r \in InRun' : r \in Runs /\ run'[r].stage \in UnderWay
    BY DEF InRun
  <2>2. \A r \in InRun' : /\ Faithful(run'[r], r)
                          /\ run'[r].request \in Requests /\ run'[r].token \in Tokens /\ run'[r].token \in Tokens
    BY <1>2, <2>1
  <2> QED BY <2>2 DEF AnswersOK, RequestsOK
<1>4. PICK Fresh : /\ \A d, e \in Fresh : d = e /\ d.put = puts' /\ puts < puts'
                   /\ StoredFrom(Fresh)
  BY <1>1, StoresFollow
<1>5. puts \in Nat /\ puts' \in Nat /\ puts <= puts'
  <2>1. puts' = puts \/ puts' = puts + 1
    BY DEF Next, Tick, Create, Read, Destroy, Put, DeletePrincipal, RunNext, StartRun,
           SendProposal, HandleProposal, Return, Raise, Finish, vars
  <2> QED BY <1>1, <2>1 DEF IInv, ClockOK
<1>6. EntriesOK'
  BY <1>2, <1>4, <1>5, HeldKeeps DEF SInv, StoredFrom
<1> QED BY <1>1, <1>3, <1>6 DEF SInv

LEMMA SInvHolds == Spec => []SInv
<1>1. Init => SInv
  <2> SUFFICES ASSUME Init PROVE SInv
    OBVIOUS
  <2>1. InRun = {}
    BY DEF Init, InRun, UnderWay
  <2>2. \A t \in Tokens, u \in Users : Held(t, u) = {}
    BY DEF Init, Held, HeldIn, UnderWay
  <2> QED BY <2>1, <2>2, InitIInv DEF SInv, AnswersOK, RequestsOK, EntriesOK
<1>2. SInv /\ [Next]_vars => SInv'
  BY SInvPreserved
<1> QED BY <1>1, <1>2, PTL DEF Spec

(* A verdict of a scripted recipient that is not a refusal is a slot that  *)
(* was offered and at which the recipient is free.                         *)
LEMMA VerdictsAreOffers ==
  ASSUME NEW entry, NEW key, NEW candidates, NEW duration,
         NEW slot \in Verdicts(entry, key, candidates, duration), slot # None
  PROVE  /\ slot \in candidates
         /\ Reasoner(entry.settings, key) = "scripted" =>
              ~ BusyAt(entry.settings.calendar.events, slot, duration)
BY DEF Verdicts, FirstOf, Reasoner

LEMMA BookedEvents ==
  ASSUME NEW calendar, NEW time, NEW duration, NEW of
  PROVE  Book(calendar, time, duration, of).events =
           Append(calendar.events, [time |-> time, duration |-> duration, of |-> of])
BY DEF Book

(* Whatever the policies hold back, what the sender's agent has booked is  *)
(* the slot of a reported success, offered and free on the recipient's     *)
(* side; when they hold nothing back a success reports what was booked, as *)
(* asked for, and a failure that nothing was (_extract_acceptance,         *)
(* run_sandbox_two_party).                                                 *)
THEOREM BookingsAreAgreed == Spec => []BookingIsAgreed
<1>1. SInv => BookingIsAgreed
  <2> SUFFICES ASSUME SInv, NEW r \in Done
               PROVE  LET call == run[r]
                          before == call.sender.settings.calendar
                          heard == Heard(call).duration
                      IN  /\ call.agent # before =>
                               /\ call.success
                               /\ call.verdict[1] \in call.candidates
                               /\ \E duration \in {heard, DefaultDuration} :
                                    BookedFor(r, duration)
                               /\ Reasoner(call.recipient.settings, call.keys[2])
                                      = "scripted"
                                    => ~ BusyAt(call.recipient.settings.calendar.events,
                                                call.verdict[1], heard)
                          /\ Fields \subseteq Disclosed(call.sender, call.recipient)
                                       \cap Disclosed(call.recipient, call.sender) =>
                               IF call.success
                                 THEN heard = call.request.duration /\ BookedFor(r, heard)
                                 ELSE call.agent = before
    BY Zenon DEF BookingIsAgreed
  <2> DEFINE call == run[r]
             before == call.sender.settings.calendar
             heard == Heard(call)
             answer == Answered(call)
             open == Fields \subseteq Disclosed(call.sender, call.recipient)
                              \cap Disclosed(call.recipient, call.sender)
  <2>1. call.stage = "done" /\ Faithful(call, r)
    BY DEF Done, SInv, AnswersOK, InRun, UnderWay
  <2>2. PICK slot \in Verdicts(call.recipient, call.keys[2], heard.candidates, heard.duration) :
          call.verdict = <<slot>>
    BY <2>1 DEF Faithful
  <2>3. /\ call.agent = IF answer.candidates = {} THEN before
                        ELSE Book(before, ClockTime(slot), answer.duration, r)
        /\ call.success = (call.verdict # <<None>>)
    BY <2>1, <2>2 DEF Faithful
  <2>4. call.verdict[1] = slot /\ <<None>>[1] = None
    BY <2>2
  <2>5. call.success <=> slot # None
    <3>1. slot = None => call.verdict = <<None>>
      BY <2>2
    <3>2. call.verdict = <<None>> => slot = None
      BY <2>4, Zenon
    <3> QED BY <2>3, <3>1, <3>2
  <2>6. /\ heard.candidates \subseteq call.candidates
        /\ answer.candidates \subseteq {slot} \ {None}
        /\ answer.duration \in {heard.duration, DefaultDuration}
    BY <2>4 DEF Heard, Answered, Narrowed
  <2>7. open => /\ heard.duration = call.request.duration
                /\ answer.candidates = {slot} \ {None}
                /\ answer.duration = heard.duration
    BY <2>4 DEF Heard, Answered, Narrowed, Fields
  <2>8. slot # None =>
          /\ slot \in call.candidates
          /\ Reasoner(call.recipient.settings, call.keys[2]) = "scripted" =>
               ~ BusyAt(call.recipient.settings.calendar.events, slot, heard.duration)
    BY <2>6, VerdictsAreOffers
  <2>9. answer.candidates # {} => BookedFor(r, answer.duration)
    <3> DEFINE time == ClockTime(slot)
               duration == answer.duration
    <3> SUFFICES ASSUME answer.candidates # {}
                 PROVE  call.agent.events =
                          Append(before.events,
                                 [time |-> time, duration |-> duration, of |-> r])
      BY <2>4 DEF BookedFor
    <3>1. call.agent = Book(before, time, duration, r)
      BY <2>3
    <3> HIDE DEF before, duration, time
    <3> QED BY <3>1, BookedEvents
  <2> HIDE DEF answer, open
  <2>10. ASSUME call.agent # before
         PROVE  /\ call.success
                /\ call.verdict[1] \in call.candidates
                /\ \E duration \in {heard.duration, DefaultDuration} : BookedFor(r, duration)
                /\ Reasoner(call.recipient.settings, call.keys[2]) = "scripted"
                     => ~ BusyAt(call.recipient.settings.calendar.events,
                                 call.verdict[1], heard.duration)
    <3>1. answer.candidates # {}
      BY <2>3, <2>10
    <3>2. slot # None
      BY <2>6, <3>1
    <3> QED BY <2>4, <2>5, <2>6, <2>8, <2>9, <3>1, <3>2
  <2>11. ASSUME open
         PROVE  IF call.success
                  THEN heard.duration = call.request.duration /\ BookedFor(r, heard.duration)
                  ELSE call.agent = before
    <3>1. CASE slot = None
      <4>1. answer.candidates = {}
        BY <2>7, <2>11, <3>1
      <4> QED BY <2>3, <2>5, <3>1, <4>1
    <3>2. CASE slot # None
      <4>1. answer.candidates # {}
        BY <2>7, <2>11, <3>2
      <4> QED BY <2>5, <2>7, <2>9, <2>11, <3>2, <4>1
    <3> QED BY <3>1, <3>2
  <2> QED BY <2>10, <2>11 DEF open
<1> QED BY <1>1, SInvHolds, PTL

(* The candidates that an agent offers although it is busy then are all    *)
(* that the window has.                                                    *)
LEMMA BusyOffersAreAll ==
  ASSUME NEW events, NEW request \in Requests,
         NEW slot \in FreeSlots(events, request),
         BusyAt(events, slot, request.duration),
         NEW t \in request.earliest .. request.latest - request.duration,
         (t - request.earliest) % StepMinutes = 0
  PROVE  BusyAt(events, t, request.duration)
<1> DEFINE last == (request.latest - request.earliest) \div StepMinutes
           starts == {request.earliest + StepMinutes * k : k \in 0 .. last}
           fitting == {u \in starts : u + request.duration <= request.latest}
           free == {u \in fitting : ~ BusyAt(events, u, request.duration)}
           chosen == IF free = {} THEN fitting ELSE free
           k == (t - request.earliest) \div StepMinutes
<1>1. /\ request.earliest \in Int /\ request.latest \in Int
      /\ request.duration \in Nat /\ t \in Int
  BY DEF Instants
<1>2. slot \in chosen
  <2>1. FreeSlots(events, request) = FirstOf(chosen, MaxCandidates)
    BY DEF FreeSlots
  <2> HIDE DEF chosen
  <2> QED BY <2>1 DEF FirstOf
<1>3. free = {}
  BY <1>2
<1>4. t = request.earliest + StepMinutes * k /\ k \in 0 .. last
  BY <1>1 DEF StepMinutes
<1>5. t \in fitting
  <2>1. t \in starts
    BY <1>4
  <2>2. t + request.duration <= request.latest
    BY <1>1
  <2> HIDE DEF starts
  <2> QED BY <2>1, <2>2
<1> HIDE DEF fitting
<1> QED BY <1>3, <1>5

(* A slot agreed on at which the sender is busy comes from a window in     *)
(* which it had no free slot to offer (free_slots, whose fallback the      *)
(* recipient cannot see).                                                  *)
THEOREM AgreedSlotsSuitSenders == Spec => []AgreedSlotSuitsSender
<1>1. SInv => AgreedSlotSuitsSender
  <2> SUFFICES ASSUME SInv, NEW r \in Done
               PROVE  LET call == run[r]
                          asked == call.request
                          Busy(t) == BusyAt(call.sender.settings.calendar.events, t,
                                            asked.duration)
                      IN  call.success /\ Busy(call.verdict[1]) =>
                            \A t \in asked.earliest .. asked.latest - asked.duration :
                              (t - asked.earliest) % StepMinutes = 0 => Busy(t)
    BY Zenon DEF AgreedSlotSuitsSender
  <2> DEFINE call == run[r]
             events == call.sender.settings.calendar.events
             heard == Heard(call)
  <2>1. /\ call.stage = "done" /\ Faithful(call, r)
        /\ call.request \in Requests
    BY DEF Done, SInv, AnswersOK, RequestsOK, InRun, UnderWay
  <2>2. PICK slot \in Verdicts(call.recipient, call.keys[2], heard.candidates, heard.duration) :
          call.verdict = <<slot>>
    BY <2>1 DEF Faithful
  <2>3. call.verdict[1] = slot
    BY <2>2
  <2>4. call.success => slot # None
    BY <2>1, <2>2 DEF Faithful
  <2>5. heard.candidates \subseteq FreeSlots(events, call.request)
    BY <2>1 DEF Faithful, Heard, Narrowed
  <2>6. slot # None => slot \in FreeSlots(events, call.request)
    BY <2>5, VerdictsAreOffers
  <2> HIDE DEF call, heard
  <2> QED BY <2>1, <2>3, <2>4, <2>6, BusyOffersAreAll DEF call
<1> QED BY <1>1, SInvHolds, PTL

(* The candidates are instants between the two ends of the request.        *)
LEMMA SlotsAreFinite ==
  ASSUME NEW events, NEW request \in Requests
  PROVE  FreeSlots(events, request) \subseteq request.earliest .. request.latest
<1> DEFINE last == (request.latest - request.earliest) \div StepMinutes
           starts == {request.earliest + StepMinutes * k : k \in 0 .. last}
           fitting == {t \in starts : t + request.duration <= request.latest}
           free == {t \in fitting : ~ BusyAt(events, t, request.duration)}
           chosen == IF free = {} THEN fitting ELSE free
<1>1. request.earliest \in Int /\ request.latest \in Int
  BY DEF Instants
<1>2. starts \subseteq request.earliest .. request.latest
  BY <1>1 DEF StepMinutes
<1>3. FreeSlots(events, request) = FirstOf(chosen, MaxCandidates)
  BY DEF FreeSlots
<1>4. chosen \subseteq starts
  OBVIOUS
<1> HIDE DEF chosen, starts
<1> QED BY <1>2, <1>3, <1>4 DEF FirstOf

LEMMA FirstIsUnique ==
  ASSUME NEW lo \in Int, NEW hi \in Int, NEW S \in SUBSET (lo .. hi),
         NEW a \in FirstOf(S, 1), NEW b \in FirstOf(S, 1)
  PROVE  a = b
<1>1. IsFiniteSet(lo .. hi)
  BY FS_Interval
<1>2. IsFiniteSet(S)
  BY <1>1, FS_Subset
<1>3. ASSUME NEW c \in FirstOf(S, 1), NEW d \in S, d < c PROVE FALSE
  <2> DEFINE T == {u \in S : u < c}
  <2>1. Cardinality(T) < 1
    BY DEF FirstOf
  <2>2. IsFiniteSet(T)
    BY <1>2, FS_Subset
  <2>3. d \in T
    BY <1>3
  <2> HIDE DEF T
  <2>4. Cardinality(T) \in Nat /\ Cardinality(T) # 0
    BY <2>2, <2>3, FS_CardinalityType, FS_EmptySet
  <2> QED BY <2>1, <2>4
<1>4. a \in S /\ b \in S /\ a \in Int /\ b \in Int
  BY DEF FirstOf
<1>5. ~ (a < b) /\ ~ (b < a)
  BY <1>3, <1>4
<1> QED BY <1>4, <1>5

(* A scripted recipient has one answer to a list of candidates.            *)
LEMMA ScriptedHasOneAnswer ==
  ASSUME NEW entry, NEW key, NEW events, NEW request \in Requests, NEW duration,
         Reasoner(entry.settings, key) = "scripted",
         NEW candidates \in SUBSET FreeSlots(events, request),
         NEW a \in Verdicts(entry, key, candidates, duration),
         NEW b \in Verdicts(entry, key, candidates, duration)
  PROVE  a = b
<1> DEFINE free == {t \in candidates :
                      ~ BusyAt(entry.settings.calendar.events, t, duration)}
<1>1. free \in SUBSET (request.earliest .. request.latest)
  BY SlotsAreFinite
<1>2. request.earliest \in Int /\ request.latest \in Int
  BY DEF Instants
<1>3. Verdicts(entry, key, candidates, duration) =
        IF free = {} THEN {None} ELSE FirstOf(free, 1)
  BY DEF Verdicts
<1> HIDE DEF free
<1>4. \A c, d \in FirstOf(free, 1) : c = d
  BY <1>1, <1>2, FirstIsUnique
<1> QED BY <1>3, <1>4

(* The same request on the same configurations of a session gets the same  *)
(* verdict from a scripted recipient: runs leave nothing behind in the     *)
(* session they read (run_scenario_1 builds its agents from copies).       *)
THEOREM RunsLeaveNothingBehind == Spec => []RunsAreIdempotent
<1>1. SInv => RunsAreIdempotent
  <2> SUFFICES ASSUME SInv, NEW r \in Done, NEW s \in Done,
                      run[r].token = run[s].token,
                      run[r].request = run[s].request,
                      run[r].sender.put = run[s].sender.put,
                      run[r].recipient.put = run[s].recipient.put,
                      Reasoner(run[r].recipient.settings, run[r].keys[2]) = "scripted"
               PROVE  run[r].verdict = run[s].verdict
    BY DEF RunsAreIdempotent
  <2> DEFINE t == run[r].token
             request == run[r].request
             answers(q) == Verdicts(run[q].recipient, run[q].keys[2],
                                    Heard(run[q]).candidates, Heard(run[q]).duration)
  <2>1. \A q \in {r, s} : /\ q \in Runs /\ run[q].stage \in UnderWay
                          /\ run[q].stage = "done"
                          /\ Faithful(run[q], q) /\ Paired(run[q])
                          /\ run[q].request \in Requests /\ run[q].token \in Tokens
    BY DEF Done, SInv, IInv, RunsOK, AnswersOK, RequestsOK, InRun, UnderWay
  <2>2. \A q \in {r, s} : /\ run[q].sender \in Held(t, request.sender)
                          /\ run[q].recipient \in Held(t, request.recipient)
    BY <2>1 DEF Held, HeldIn
  <2>3. request.sender \in Users /\ request.recipient \in Users
    BY <2>1
  <2>4. t \in Tokens
    BY <2>1
  <2>5. run[r].sender = run[s].sender /\ run[r].recipient = run[s].recipient
    BY <2>2, <2>3, <2>4 DEF SInv, EntriesOK
  <2>6. run[r].keys[2] = run[s].keys[2]
    BY <2>1, <2>5 DEF Paired
  <2>7. run[r].candidates = run[s].candidates
        /\ run[r].candidates = FreeSlots(run[r].sender.settings.calendar.events, request)
    BY <2>1, <2>5 DEF Faithful
  <2>8. Heard(run[r]) = Heard(run[s]) /\ Heard(run[r]).candidates \subseteq run[r].candidates
    BY <2>5, <2>7 DEF Heard, Disclosed, Narrowed
  <2>9. PICK a \in answers(r) : run[r].verdict = <<a>>
    BY <2>1 DEF Faithful
  <2>10. PICK b \in answers(s) : run[s].verdict = <<b>>
    BY <2>1 DEF Faithful
  <2>11. b \in answers(r)
    BY <2>5, <2>6, <2>8, <2>10
  <2>12. a = b
    BY <2>1, <2>7, <2>8, <2>9, <2>11, ScriptedHasOneAnswer
  <2> QED BY <2>9, <2>10, <2>12
<1> QED BY <1>1, SInvHolds, PTL

=============================================================================
