---------------------------- MODULE MessageBridge ----------------------------
(***************************************************************************)
(* What a bridge promises: every message it executes was sent, and no more *)
(* often than it was sent.                                                 *)
(***************************************************************************)
EXTENDS Integers, Sequences

CONSTANT Messages   \* what may be sent

VARIABLES
  sent,       \* the messages sent, in order
  done,       \* the numbers of those that were executed
  executed    \* what was executed, in order

vars == << sent, done, executed >>

Init == sent = << >> /\ done = {} /\ executed = << >>

Send(message) ==
  /\ sent' = Append(sent, message)
  /\ UNCHANGED << done, executed >>

Execute(k) ==
  /\ k \notin done
  /\ done' = done \cup {k}
  /\ executed' = Append(executed, sent[k])
  /\ UNCHANGED sent

Next ==
  \/ \E message \in Messages : Send(message)
  \/ \E k \in DOMAIN sent : Execute(k)

Spec == Init /\ [][Next]_vars

===============================================================================
