------------------------------ MODULE ByteStream ------------------------------
(***************************************************************************)
(* What std::io::Read promises of a source of bytes: a read asked for n    *)
(* of them is always answered, with the next n in order, or with all that  *)
(* are left when these are fewer.                                          *)
(***************************************************************************)
EXTENDS Integers, Sequences

VARIABLES
  rest,    \* bytes not read yet
  asked,   \* length of the buffer of the read under way, or Idle
  reply    \* bytes the last read put into its buffer

vars == << rest, asked, reply >>

Idle == -1

\* The bytes a buffer of n takes from the front.
Fitting(n) == IF n < Len(rest) THEN n ELSE Len(rest)

Init == rest \in Seq(Nat) /\ asked = Idle /\ reply = << >>

\* Another source is opened.
Open ==
  /\ asked = Idle
  /\ rest' \in Seq(Nat)
  /\ reply' = << >>
  /\ UNCHANGED asked

Ask ==
  /\ asked = Idle
  /\ asked' \in Nat
  /\ reply' = << >>
  /\ UNCHANGED rest

Answer ==
  /\ asked # Idle
  /\ asked' = Idle
  /\ reply' = SubSeq(rest, 1, Fitting(asked))
  /\ rest' = SubSeq(rest, Fitting(asked) + 1, Len(rest))

Next == Open \/ Ask \/ Answer

Spec == Init /\ [][Next]_vars /\ WF_vars(Answer)

===============================================================================
