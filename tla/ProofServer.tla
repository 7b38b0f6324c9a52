------------------------------ MODULE ProofServer ------------------------------
(***************************************************************************)
(* What a node that asks for the proofs of many cells is promised: all of  *)
(* them, each for its cell, or the error of a cell that really failed.     *)
(* Cells are settled one by one and in any order, and the answer comes     *)
(* after the last of them.  Dimensions that make no matrix are refused     *)
(* before any cell is looked at.                                           *)
(***************************************************************************)
VARIABLES
  expected,   \* job -> the proof of its cell
  outcome,    \* job -> "pending", "proved" or "failed"
  reply       \* [kind, job, proofs]

vars == << expected, outcome, reply >>

Jobs == DOMAIN expected
NoJob == 0

Pending == [kind |-> "pending", job |-> NoJob, proofs |-> << >>]
AllProofs == [kind |-> "ok", job |-> NoJob, proofs |-> expected]
Refused == [kind |-> "refused", job |-> NoJob, proofs |-> << >>]
Failure(job) == [kind |-> "err", job |-> job, proofs |-> << >>]

Init ==
  /\ outcome = [job \in Jobs |-> "pending"]
  /\ reply = Pending

Refuse ==
  /\ reply = Pending
  /\ \A job \in Jobs : outcome[job] = "pending"
  /\ reply' = Refused
  /\ UNCHANGED << expected, outcome >>

Settle(job) ==
  /\ outcome[job] = "pending"
  /\ \E verdict \in {"proved", "failed"} : outcome' = [outcome EXCEPT ![job] = verdict]
  /\ UNCHANGED << expected, reply >>

Deliver ==
  /\ reply = Pending
  /\ \A job \in Jobs : outcome[job] = "proved"
  /\ reply' = AllProofs
  /\ UNCHANGED << expected, outcome >>

Report(job) ==
  /\ reply = Pending
  /\ \A other \in Jobs : outcome[other] # "pending"
  /\ outcome[job] = "failed"
  /\ reply' = Failure(job)
  /\ UNCHANGED << expected, outcome >>

Next == Refuse \/ Deliver \/ \E job \in Jobs : Settle(job) \/ Report(job)

Spec == Init /\ [][Next]_vars

===============================================================================
