--------------------------- MODULE SparseSliceRead ---------------------------
(***************************************************************************)
(* A reader over bytes that lie in several slices                          *)
(* (kate/recovery/src/sparse_slice_read.rs).  One call of read is the loop *)
(* over the slices; each of its rounds is a step.                          *)
(***************************************************************************)
EXTENDS Integers, Sequences

VARIABLES
  parts,   \* the slices that are left; of the first, the part not read yet
  asked,   \* length of the buffer of the read under way, or Idle
  buf      \* what is in the buffer

Idle == -1

ReaderInit == parts = << >> /\ asked = Idle /\ buf = << >>

FromIter(slices) ==
  /\ asked = Idle
  /\ parts' = slices
  /\ buf' = << >>
  /\ UNCHANGED asked

Read(n) ==
  /\ asked = Idle
  /\ asked' = n
  /\ buf' = << >>
  /\ UNCHANGED parts

BufLen == asked - Len(buf)

\* Mutant: it is reinserted although nothing of it is pending.
PushFront_Always(part, others) == << part >> \o others

\* Mutant: what is pending goes behind the other parts.
PushFront_Back(part, others) == IF part = << >> THEN others ELSE Append(others, part)

\* Reinsert a part if it is still pending.
PushFront(part, others) == IF part = << >> THEN others ELSE << part >> \o others

CopyPart ==
  /\ asked # Idle
  /\ BufLen > 0 /\ parts # << >>
  /\ LET next == Head(parts)
         copied == IF Len(next) < BufLen THEN Len(next) ELSE BufLen
     IN  /\ buf' = buf \o SubSeq(next, 1, copied)
         /\ parts' = PushFront(SubSeq(next, copied + 1, Len(next)), Tail(parts))
  /\ UNCHANGED asked

Return ==
  /\ asked # Idle
  /\ BufLen = 0 \/ parts = << >>
  /\ asked' = Idle
  /\ UNCHANGED << parts, buf >>

===============================================================================
