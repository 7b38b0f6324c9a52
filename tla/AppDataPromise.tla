---------------------------- MODULE AppDataPromise ----------------------------
(***************************************************************************)
(* What a light client is promised when it asks for the data of one        *)
(* application.  It supplies cells of the block one by one.  The request   *)
(* makes demands: each names cells of which at least so many must be       *)
(* there.  If all demands are met the authored data comes back, if one is  *)
(* missed an error does; nothing else ever happens, except that a demand   *)
(* of which no cell at all was supplied may go unnoticed (the docs call    *)
(* unrelated columns empty, and an empty related column looks the same).   *)
(***************************************************************************)
EXTENDS Integers, FiniteSets

VARIABLES
  authored,   \* what the author put into the block for the application
  demands,    \* a set of [cells, least, absent]
  supplied,   \* the cells supplied so far
  reply       \* pending, or [kind, data]

vars == << authored, demands, supplied, reply >>

Pending == [kind |-> "pending", data |-> << >>]
Delivered == [kind |-> "ok", data |-> authored]

Given(demand) == demand.cells \cap supplied

Met(demand) ==
  \/ Cardinality(Given(demand)) >= demand.least
  \/ demand.absent = "fine" /\ Given(demand) = {}

Unnoticed(demand) == demand.absent = "unnoticed" /\ Given(demand) = {}

Init ==
  /\ supplied = {}
  /\ reply = Pending

Supply ==
  /\ reply = Pending
  /\ supplied \subseteq supplied'
  /\ UNCHANGED << authored, demands, reply >>

Deliver ==
  /\ reply = Pending
  /\ \A demand \in demands : Met(demand)
  /\ reply' = Delivered
  /\ UNCHANGED << authored, demands, supplied >>

Refuse ==
  /\ reply = Pending
  /\ \E demand \in demands : ~Met(demand) /\ ~Unnoticed(demand)
  /\ reply'.kind = "err"
  /\ UNCHANGED << authored, demands, supplied >>

\* A cell that was supplied twice or lies outside the matrix.
Malformed ==
  /\ reply = Pending
  /\ reply'.kind = "malformed"
  /\ UNCHANGED << authored, demands, supplied >>

Guess ==
  /\ reply = Pending
  /\ \E demand \in demands : Unnoticed(demand)
  /\ \A demand \in demands : Met(demand) \/ Unnoticed(demand)
  /\ reply'.kind \in {"ok", "err"}
  /\ UNCHANGED << authored, demands, supplied >>

Next == Supply \/ Deliver \/ Refuse \/ Malformed \/ Guess

Spec == Init /\ [][Next]_vars

===============================================================================
