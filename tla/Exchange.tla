------------------------------ MODULE Exchange ------------------------------
(***************************************************************************)
(* One bilateral exchange through Mesherra, as the demo servers use it: a  *)
(* proposal, its answer, and the residues both sides write.  The scenario  *)
(* modules are built from these operators.                                 *)
(*                                                                         *)
(* A residue's payload hash stands for the payload itself (equal hashes,   *)
(* equal payloads).  A ledger is one hash chain per principal, so an entry *)
(* is known by its position, whatever task it belongs to.                  *)
(***************************************************************************)
EXTENDS Naturals, Sequences, FiniteSets

Residue(action, operation, task, payload) ==
  [action |-> action, operation |-> operation, task |-> task,
   payload |-> payload]

ResiduesOf(Tasks, Payloads) ==
  [action : {"emit", "receive"}, operation : {"proposal", "acceptance"},
   task : Tasks, payload : Payloads]

(* The receiving side: its receive residue is written before the handler   *)
(* runs, its emit residue after.                                           *)
LogReceived(ledger, task, proposal) ==
  Append(ledger, Residue("receive", "proposal", task, proposal))

LogAnswered(ledger, task, answer) ==
  Append(ledger, Residue("emit", "acceptance", task, answer))

(* The sending side: both residues are written when the answer is there.   *)
LogSent(ledger, task, proposal, answer) ==
  Append(Append(ledger, Residue("emit", "proposal", task, proposal)),
         Residue("receive", "acceptance", task, answer))

(* get_by_task for some tasks, sorted by sequence: the n-th of them is the *)
(* one with n of them up to its own position.                              *)
ByTasks(ledger, tasks) ==
  LET mine == {i \in DOMAIN ledger : ledger[i].task \in tasks}
      Rank(i) == Cardinality({j \in mine : j <= i})
  IN  [n \in 1 .. Cardinality(mine) |->
         ledger[CHOOSE i \in mine : Rank(i) = n]]

ByTask(ledger, task) == ByTasks(ledger, {task})

(* The tesserae fit: what one side emitted is what the other received.     *)
Fits(sender, receiver) ==
  /\ Len(sender) = 2
  /\ Len(receiver) = 2
  /\ sender[1].action = "emit" /\ receiver[1].action = "receive"
  /\ sender[1].payload = receiver[1].payload
  /\ receiver[2].action = "emit" /\ sender[2].action = "receive"
  /\ receiver[2].payload = sender[2].payload

=============================================================================
