------------------------------ MODULE MCSandbox ------------------------------
(***************************************************************************)
(* Two users, of whom the defaults give one a standup from 9 to 10 and the *)
(* other nothing before 10:30, and who hold back nothing; a PUT may        *)
(* replace either by an LLM user with an empty calendar who lets only      *)
(* candidates in (a PUT of the tests), by a scripted one who is busy all   *)
(* morning and lets no candidates out, or by one who lets no duration out. *)
(***************************************************************************)
EXTENDS Sandbox, TLC

CONSTANTS iris, marius, r1, r2

Standing(events) ==
  [events  |-> [i \in DOMAIN events |->
                  [time |-> events[i][1], duration |-> events[i][2],
                   of |-> "standing"]],
   version |-> 0]

Set(provider, events, outbound, inbound) ==
  [provider |-> provider, calendar |-> Standing(events), outbound |-> outbound,
   inbound |-> inbound]
Scripted(events, outbound) == Set("scripted", events, outbound, Fields)

MCDefaults == [u \in {iris, marius} |->
                 IF u = iris THEN Scripted(<<<<540, 60>>>>, Fields)
                 ELSE Scripted(<<<<480, 150>>>>, Fields)]
MCConfigs == {Set("llm", <<>>, Fields, {"candidates"}),
              Scripted(<<<<480, 240>>>>, {"duration_minutes"}),
              Scripted(<<<<480, 240>>>>, {"candidates"})}
Ask(sender, recipient, earliest, latest) ==
  [sender |-> sender, recipient |-> recipient, earliest |-> earliest,
   latest |-> latest, duration |-> 60]
MCRequests == {Ask(iris, marius, 540, 720), Ask(marius, marius, 540, 720),
               Ask(marius, iris, 720, 540)}
MCRunSymmetry == Permutations({r1, r2})

=============================================================================
