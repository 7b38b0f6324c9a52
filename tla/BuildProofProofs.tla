---------------------------- MODULE BuildProofProofs ----------------------------
(***************************************************************************)
(* Theorems about BuildProof for every pool of threads, every matrix and   *)
(* every list of cells: the lock is short, every job is in one place, and  *)
(* build_proof keeps the promise of ProofServer.                           *)
(***************************************************************************)
EXTENDS BuildProof, TLAPS, SequenceTheorems

\* The row of a job's cell, and the frames a stack may hold.
RowOf(job) == [k \in 1 .. request.cols |-> Element(Cell(job).row, k - 1)]

Frames ==
  [job : Jobs, at : Stages, row : {<< >>} \cup {RowOf(job) : job \in Jobs}]

Computed == DOMAIN NextStage \cup {"write"}

Good(frame) ==
  /\ frame \in Frames
  /\ frame.at \in {"row"} \cup Computed => ~OutOfRange(Cell(frame.job))
  /\ frame.at \in Computed => frame.row = RowOf(frame.job)

\* Stacks: all but the innermost job of a thread join the reading of their row.
StackInv ==
  /\ stack \in [Thread -> Seq(Frames)]
  /\ \A thread \in Thread : \A k \in 1 .. Len(stack[thread]) :
       /\ Good(stack[thread][k])
       /\ k < Len(stack[thread]) => stack[thread][k].at = "row"

\* No job is on two stacks or twice on one.
Distinct ==
  \A one, two \in Thread :
    \A k \in 1 .. Len(stack[one]), l \in 1 .. Len(stack[two]) :
      stack[one][k].job = stack[two][l].job => one = two /\ k = l

Busy == {job \in Jobs : \E thread \in Thread : \E k \in 1 .. Len(stack[thread]) :
                          stack[thread][k].job = job}

\* Every job is waiting, on a stack, failed or written, and in one of these only.
Places ==
  /\ waiting \subseteq Jobs
  /\ errors \in Seq([job : Jobs])
  /\ waiting \cap (Busy \cup Failed \cup Written) = {}
  /\ Busy \cap (Failed \cup Written) = {}
  /\ Failed \cap Written = {}
  /\ reply = Pending => Jobs = waiting \cup Busy \cup Failed \cup Written

SlotInv ==
  /\ slot = [job \in Jobs |-> slot[job]]
  /\ \A job \in Written : ~OutOfRange(Cell(job)) /\ slot[job] = Expected[job]

\* Nothing happens before the dimensions are checked or after the answer.
EndInv ==
  /\ reply # Pending => Busy = {}
  /\ BadDims => Busy = {} /\ errors = << >> /\ Written = {}
  /\ reply # Pending /\ ~BadDims => waiting = {}

Inv ==
  /\ request \in Requests
  /\ mutex \in Thread \cup {Nobody}
  /\ StackInv /\ Distinct /\ Places /\ SlotInv /\ EndInv /\ LockIsShort

-------------------------------------------------------------------------------
\* Sequences without their last element.

LEMMA FrontProperties ==
  ASSUME NEW S, NEW seq \in Seq(S), seq # << >>
  PROVE  /\ Len(seq) \in Nat \ {0}
         /\ Front(seq) \in Seq(S)
         /\ Len(Front(seq)) = Len(seq) - 1
         /\ \A k \in 1 .. (Len(seq) - 1) : Front(seq)[k] = seq[k]
         /\ Last(seq) \in S
<1>1. Len(seq) \in Nat \ {0}
  BY EmptySeq
<1>2. \A k \in 1 .. Len(seq) : seq[k] \in S
  BY ElementOfSeq
<1>3. SubSeq(seq, 1, Len(seq) - 1) \in Seq(S)
  BY <1>1
<1>4. Len(SubSeq(seq, 1, Len(seq) - 1)) = Len(seq) - 1
  <2>1. PICK n \in Nat : n = Len(seq) - 1
    BY <1>1
  <2>2. Len(SubSeq(seq, 1, n)) = n
    BY <1>1, <2>1
  <2> QED BY <2>1, <2>2
<1>5. \A k \in 1 .. (Len(seq) - 1) : SubSeq(seq, 1, Len(seq) - 1)[k] = seq[k]
  BY <1>1
<1> QED BY <1>1, <1>2, <1>3, <1>4, <1>5 DEF Front, Last

LEMMA StackTop ==
  ASSUME StackInv, NEW thread \in Thread, stack[thread] # << >>
  PROVE  /\ stack[thread] \in Seq(Frames)
         /\ Len(stack[thread]) \in Nat \ {0}
         /\ Good(Current(thread))
         /\ Current(thread).job \in Jobs
<1>1. stack[thread] \in Seq(Frames)
  BY DEF StackInv
<1>2. Len(stack[thread]) \in Nat \ {0}
  BY <1>1, EmptySeq
<1>3. Good(Current(thread))
  BY <1>2 DEF StackInv, Current
<1> QED BY <1>1, <1>2, <1>3 DEF Good, Frames

\* The job of the innermost frame is busy, and its place is its own.
LEMMA TopIsBusy ==
  ASSUME Inv, NEW thread \in Thread, stack[thread] # << >>
  PROVE  /\ Current(thread).job \in Busy
         /\ Current(thread).job \notin waiting \cup Failed \cup Written
         /\ reply = Pending /\ ~BadDims
<1>1. Current(thread).job \in Busy
  <2>1. /\ Len(stack[thread]) \in 1 .. Len(stack[thread])
        /\ Current(thread).job \in Jobs
    BY StackTop DEF Inv
  <2> QED BY <2>1 DEF Busy, Current
<1> QED BY <1>1 DEF Inv, Places, EndInv

\* What taking up a job does to the stacks.
LEMMA StackTake ==
  ASSUME Inv, NEW thread \in Thread, NEW job \in waiting, MayTake(thread),
         request' = request,
         stack' = [stack EXCEPT ![thread] = Append(@, Frame(job, FirstStage(job), << >>))]
  PROVE  /\ StackInv' /\ Distinct'
         /\ Busy' = Busy \cup {job}
         /\ \A other \in Thread : At(other, "push")' <=> At(other, "push")
<1> DEFINE frame == Frame(job, FirstStage(job), << >>)
           old == stack[thread]
           new == Append(old, frame)
<1>1. Frames' = Frames /\ Jobs' = Jobs
  BY DEF Frames, Jobs, RowOf, Element, Cell, ExtRows, Stages
<1>2. job \in Jobs /\ job \notin Busy
  BY DEF Inv, Places
<1>3. /\ frame.job = job
      /\ frame.at \in {"row", "failed"}
      /\ frame.at = "row" => ~OutOfRange(Cell(job))
      /\ Good(frame)
  BY <1>2 DEF Frame, FirstStage, Good, Frames, Stages, Computed, NextStage
<1>4. \A f : Good(f)' <=> Good(f)
  BY <1>1 DEF Good, OutOfRange, Cell, ExtRows, RowOf, Element
<1>5. old \in Seq(Frames) /\ Len(old) \in Nat
  BY LenProperties DEF Inv, StackInv
<1>6. /\ new \in Seq(Frames)
      /\ Len(new) = Len(old) + 1
      /\ \A k \in 1 .. Len(old) : new[k] = old[k]
      /\ new[Len(old) + 1] = frame
      /\ new # << >>
  BY <1>3, <1>5, AppendProperties DEF Good
<1>7. /\ stack' \in [Thread -> Seq(Frames)]
      /\ stack'[thread] = new
      /\ \A other \in Thread : other # thread => stack'[other] = stack[other]
  BY <1>6 DEF Inv, StackInv
<1> HIDE DEF frame, old, new
<1>8. \A k \in 1 .. Len(old) : old[k].at = "row"
  <2>1. CASE old = << >>
    BY <2>1, EmptySeq
  <2>2. CASE old # << >>
    BY <2>2, <1>5 DEF old, Inv, StackInv, MayTake, At, Current
  <2> QED BY <2>1, <2>2
<1>9. StackInv'
  <2> SUFFICES ASSUME NEW one \in Thread, NEW k \in 1 .. Len(stack'[one])
               PROVE  /\ Good(stack'[one][k])
                      /\ k < Len(stack'[one]) => stack'[one][k].at = "row"
    BY <1>1, <1>4, <1>7 DEF StackInv
  <2>1. CASE one # thread
    BY <2>1, <1>7 DEF Inv, StackInv
  <2>2. CASE one = thread /\ k = Len(old) + 1
    BY <2>2, <1>3, <1>5, <1>6, <1>7
  <2>3. CASE one = thread /\ k # Len(old) + 1
    <3>1. k \in 1 .. Len(old)
      BY <2>3, <1>5, <1>6, <1>7
    <3> QED BY <2>3, <3>1, <1>6, <1>7, <1>8 DEF old, Inv, StackInv
  <2> QED BY <2>1, <2>2, <2>3
<1>10. ASSUME NEW one \in Thread, NEW k \in 1 .. Len(stack'[one])
       PROVE  \/ one = thread /\ k = Len(old) + 1 /\ stack'[one][k].job = job
              \/ k \in 1 .. Len(stack[one]) /\ stack'[one][k] = stack[one][k]
  BY <1>3, <1>5, <1>6, <1>7, <1>10 DEF old
<1>11. Distinct'
  <2> SUFFICES ASSUME NEW one \in Thread, NEW two \in Thread,
                      NEW k \in 1 .. Len(stack'[one]), NEW l \in 1 .. Len(stack'[two]),
                      stack'[one][k].job = stack'[two][l].job
               PROVE  one = two /\ k = l
    BY DEF Distinct
  <2>1. \A other \in Thread : \A m \in 1 .. Len(stack[other]) : stack[other][m].job # job
    BY <1>2 DEF Busy, Jobs
  <2>2. CASE one = thread /\ k = Len(old) + 1
    BY <2>1, <2>2, <1>3, <1>6, <1>7, <1>10
  <2>3. CASE ~(one = thread /\ k = Len(old) + 1)
    BY <2>1, <2>3, <1>10 DEF Inv, Distinct
  <2> QED BY <2>2, <2>3
<1>12. Busy' = Busy \cup {job}
  <2>1. ASSUME NEW j \in Busy' PROVE j \in Busy \cup {job}
    BY <1>1, <1>10 DEF Busy
  <2>2. ASSUME NEW j \in Busy PROVE j \in Busy'
    <3>0. PICK one \in Thread : \E k \in 1 .. Len(stack[one]) : stack[one][k].job = j
      BY DEF Busy
    <3>1. PICK k \in 1 .. Len(stack[one]) : stack[one][k].job = j
      BY <3>0
    <3>2. k \in 1 .. Len(stack'[one]) /\ stack'[one][k] = stack[one][k]
      BY <3>1, <1>5, <1>6, <1>7 DEF old
    <3> QED BY <3>1, <3>2, <1>1 DEF Busy
  <2>3. job \in Busy'
    <3>1. Len(old) + 1 \in 1 .. Len(stack'[thread])
      BY <1>5, <1>6, <1>7
    <3> QED BY <3>1, <1>1, <1>2, <1>3, <1>6, <1>7 DEF Busy
  <2> QED BY <2>1, <2>2, <2>3
<1>13. ASSUME NEW other \in Thread PROVE At(other, "push")' <=> At(other, "push")
  <2>1. CASE other # thread
    BY <2>1, <1>7 DEF At, Current
  <2>2. CASE other = thread
    <3>1. ~At(other, "push")'
      BY <2>2, <1>3, <1>6, <1>7 DEF At, Current
    <3>2. ~At(other, "push")
      BY <2>2 DEF MayTake, At
    <3> QED BY <3>1, <3>2
  <2> QED BY <2>1, <2>2
<1> QED BY <1>9, <1>11, <1>12, <1>13

\* What a step of the innermost job does to the stacks.
LEMMA StackGoTo ==
  ASSUME Inv, NEW thread \in Thread, stack[thread] # << >>,
         NEW stage, NEW row, Good(Frame(Current(thread).job, stage, row)),
         request' = request, GoTo(thread, stage, row)
  PROVE  /\ StackInv' /\ Distinct'
         /\ Busy' = Busy
         /\ \A other \in Thread :
              At(other, "push")' <=> IF other = thread THEN stage = "push" ELSE At(other, "push")
<1> DEFINE old == stack[thread]
           n == Len(old)
           frame == Frame(Current(thread).job, stage, row)
           new == [old EXCEPT ![n] = frame]
<1>1. Frames' = Frames /\ Jobs' = Jobs
  BY DEF Frames, Jobs, RowOf, Element, Cell, ExtRows, Stages
<1>2. \A f : Good(f)' <=> Good(f)
  BY <1>1 DEF Good, OutOfRange, Cell, ExtRows, RowOf, Element
<1>3. /\ old \in Seq(Frames) /\ n \in Nat \ {0}
      /\ Current(thread) = old[n]
  BY StackTop DEF Inv, Current
<1>4. frame.job = old[n].job /\ frame.at = stage /\ frame \in Frames /\ Good(frame)
  BY <1>3 DEF Frame, Good
<1>5. /\ new \in Seq(Frames)
      /\ Len(new) = n
      /\ \A k \in 1 .. n : new[k] = IF k = n THEN frame ELSE old[k]
  <2>1. n \in 1 .. Len(old)
    BY <1>3
  <2> QED BY <1>3, <1>4, <2>1, ExceptSeq
<1>6. /\ stack' \in [Thread -> Seq(Frames)]
      /\ stack'[thread] = new
      /\ \A other \in Thread : other # thread => stack'[other] = stack[other]
  <2>1. stack' = [stack EXCEPT ![thread] = new]
    BY DEF GoTo
  <2> QED BY <2>1, <1>5 DEF Inv, StackInv
<1> HIDE DEF frame, new
<1>7. \A one \in Thread : Len(stack'[one]) = Len(stack[one])
  BY <1>5, <1>6
<1>8. ASSUME NEW one \in Thread, NEW k \in 1 .. Len(stack[one])
      PROVE  stack'[one][k] = IF one = thread /\ k = n THEN frame ELSE stack[one][k]
  BY <1>5, <1>6
<1>9. ASSUME NEW one \in Thread, NEW k \in 1 .. Len(stack[one])
      PROVE  stack'[one][k].job = stack[one][k].job
  BY <1>4, <1>8
<1>10. StackInv'
  <2> SUFFICES ASSUME NEW one \in Thread, NEW k \in 1 .. Len(stack[one])
               PROVE  /\ Good(stack'[one][k])
                      /\ k < Len(stack[one]) => stack'[one][k].at = "row"
    BY <1>1, <1>2, <1>6, <1>7 DEF StackInv
  <2>1. CASE one = thread /\ k = n
    BY <2>1, <1>3, <1>4, <1>8
  <2>2. CASE ~(one = thread /\ k = n)
    BY <2>2, <1>8 DEF Inv, StackInv
  <2> QED BY <2>1, <2>2
<1>11. Distinct'
  BY <1>7, <1>9 DEF Inv, Distinct
<1>12. Busy' = Busy
  BY <1>1, <1>7, <1>9 DEF Busy
<1>13. ASSUME NEW other \in Thread
       PROVE  At(other, "push")' <=> IF other = thread THEN stage = "push" ELSE At(other, "push")
  <2>1. CASE other # thread
    BY <2>1, <1>6 DEF At, Current
  <2>2. CASE other = thread
    <3>1. Len(stack'[thread]) = n /\ stack'[thread][n] = frame
      BY <1>3, <1>5, <1>6
    <3>2. stack'[thread] # << >>
      BY <3>1, <1>3, EmptySeq
    <3> QED BY <2>2, <3>1, <3>2, <1>4 DEF At, Current
  <2> QED BY <2>1, <2>2
<1> QED BY <1>10, <1>11, <1>12, <1>13

\* What the end of the innermost job does to the stacks.
LEMMA StackPop ==
  ASSUME Inv, NEW thread \in Thread, stack[thread] # << >>,
         request' = request, Pop(thread)
  PROVE  /\ StackInv' /\ Distinct'
         /\ Busy' = Busy \ {Current(thread).job}
         /\ \A other \in Thread :
              At(other, "push")' <=> other # thread /\ At(other, "push")
<1> DEFINE old == stack[thread]
           n == Len(old)
<1>1. Frames' = Frames /\ Jobs' = Jobs
  BY DEF Frames, Jobs, RowOf, Element, Cell, ExtRows, Stages
<1>2. \A f : Good(f)' <=> Good(f)
  BY <1>1 DEF Good, OutOfRange, Cell, ExtRows, RowOf, Element
<1>3. /\ old \in Seq(Frames) /\ n \in Nat \ {0}
      /\ Current(thread) = old[n]
  BY StackTop DEF Inv, Current
<1>4. /\ Front(old) \in Seq(Frames)
      /\ Len(Front(old)) = n - 1
      /\ \A k \in 1 .. (n - 1) : Front(old)[k] = old[k]
  BY <1>3, FrontProperties
<1>5. /\ stack' \in [Thread -> Seq(Frames)]
      /\ stack'[thread] = Front(old)
      /\ \A other \in Thread : other # thread => stack'[other] = stack[other]
  BY <1>4 DEF Pop, Inv, StackInv
<1>6. ASSUME NEW one \in Thread, NEW k \in 1 .. Len(stack'[one])
      PROVE  /\ k \in 1 .. Len(stack[one]) /\ stack'[one][k] = stack[one][k]
             /\ ~(one = thread /\ k = n)
             /\ k < Len(stack[one]) \/ one # thread
  BY <1>3, <1>4, <1>5, <1>6
<1>7. ASSUME NEW one \in Thread, NEW k \in 1 .. Len(stack[one]), ~(one = thread /\ k = n)
      PROVE  k \in 1 .. Len(stack'[one]) /\ stack'[one][k] = stack[one][k]
  BY <1>3, <1>4, <1>5, <1>7
<1>8. StackInv'
  <2> SUFFICES ASSUME NEW one \in Thread, NEW k \in 1 .. Len(stack'[one])
               PROVE  /\ Good(stack'[one][k])
                      /\ k < Len(stack'[one]) => stack'[one][k].at = "row"
    BY <1>1, <1>2, <1>5 DEF StackInv
  <2> QED BY <1>5, <1>6 DEF Inv, StackInv
<1>9. Distinct'
  <2> SUFFICES ASSUME NEW one \in Thread, NEW two \in Thread,
                      NEW k \in 1 .. Len(stack'[one]), NEW l \in 1 .. Len(stack'[two]),
                      stack'[one][k].job = stack'[two][l].job
               PROVE  one = two /\ k = l
    BY DEF Distinct
  <2>1. k \in 1 .. Len(stack[one]) /\ stack'[one][k] = stack[one][k]
    BY <1>6
  <2>2. l \in 1 .. Len(stack[two]) /\ stack'[two][l] = stack[two][l]
    BY <1>6
  <2>3. stack[one][k].job = stack[two][l].job
    BY <2>1, <2>2
  <2> QED BY <2>1, <2>2, <2>3 DEF Inv, Distinct
<1>10. Busy' = Busy \ {Current(thread).job}
  <2>1. ASSUME NEW j \in Busy' PROVE j \in Busy \ {old[n].job}
    <3>1. PICK one \in Thread : \E k \in 1 .. Len(stack'[one]) : stack'[one][k].job = j
      BY DEF Busy
    <3>2. PICK k \in 1 .. Len(stack'[one]) : stack'[one][k].job = j
      BY <3>1
    <3>3. j \in Busy
      BY <3>2, <1>1, <1>6 DEF Busy
    <3>4. n \in 1 .. Len(old)
      BY <1>3
    <3>5. j # old[n].job
      BY <3>2, <3>4, <1>6 DEF Inv, Distinct
    <3> QED BY <3>3, <3>5
  <2>2. ASSUME NEW j \in Busy, j # old[n].job PROVE j \in Busy'
    <3>1. PICK one \in Thread : \E k \in 1 .. Len(stack[one]) : stack[one][k].job = j
      BY DEF Busy
    <3>2. PICK k \in 1 .. Len(stack[one]) : stack[one][k].job = j
      BY <3>1
    <3>3. ~(one = thread /\ k = n)
      BY <2>2, <3>2
    <3>4. k \in 1 .. Len(stack'[one]) /\ stack'[one][k].job = j
      BY <3>2, <3>3, <1>7
    <3> QED BY <3>4, <1>1 DEF Busy
  <2> QED BY <2>1, <2>2, <1>3
<1>11. ASSUME NEW other \in Thread
       PROVE  At(other, "push")' <=> other # thread /\ At(other, "push")
  <2>1. CASE other # thread
    BY <2>1, <1>5 DEF At, Current
  <2>2. CASE other = thread
    <3>1. CASE n = 1
      <4>1. Len(stack'[thread]) = 0
        BY <3>1, <1>4, <1>5
      <4>2. stack'[thread] = << >>
        BY <4>1, <1>4, <1>5, EmptySeq
      <4> QED BY <2>2, <4>2 DEF At
    <3>2. CASE n # 1
      <4>0. Len(stack'[thread]) = n - 1
        BY <1>4, <1>5
      <4>1. n - 1 \in 1 .. (n - 1) /\ n - 1 \in 1 .. n /\ n - 1 < n
        <5>1. n \in Nat \ {0}
          BY <1>3
        <5> HIDE DEF n
        <5> QED BY <3>2, <5>1
      <4>2. stack'[thread][n - 1] = old[n - 1]
        BY <4>1, <1>4, <1>5
      <4>3. old[n - 1].at = "row"
        BY <4>1 DEF Inv, StackInv
      <4> QED BY <2>2, <4>0, <4>2, <4>3 DEF At, Current
    <3> QED BY <3>1, <3>2
  <2> QED BY <2>1, <2>2
<1> QED BY <1>8, <1>9, <1>10, <1>11

-------------------------------------------------------------------------------
\* Slots and errors.

LEMMA RequestType ==
  ASSUME Inv
  PROVE  /\ request.rows \in Nat /\ request.cols \in Nat /\ ExtRows \in Nat
         /\ request.cells \in Seq([row : Nat, col : Nat])
         /\ Jobs = 1 .. Len(request.cells)
         /\ Len(request.cells) \in Nat
         /\ \A job \in Jobs : Cell(job) \in [row : Nat, col : Nat]
<1>1. request \in Requests
  BY DEF Inv
<1>2. /\ {request.rows, request.cols} \subseteq Nat
      /\ request.cells \in Seq([row : Nat, col : Nat])
  BY <1>1, RequestsAssumption
<1>3. Jobs = 1 .. Len(request.cells) /\ Len(request.cells) \in Nat
  BY <1>2, LenProperties DEF Jobs
<1>4. \A job \in Jobs : Cell(job) \in [row : Nat, col : Nat]
  BY <1>2, <1>3, ElementOfSeq DEF Cell
<1> QED BY <1>2, <1>3, <1>4 DEF ExtRows, ROW_EXTENSION

\* The code's index is the matrix element by row and column.
LEMMA IndexIsElement ==
  ASSUME Inv, NEW job \in Jobs, NEW col \in Nat
  PROVE  request.matrix[MatrixIndex(Cell(job).row, col)] = Element(Cell(job).row, col)
<1>1. Cell(job).row \in Nat /\ ExtRows \in Nat
  BY RequestType
<1>2. PICK product \in Nat : product = col * ExtRows
  BY <1>1
<1>3. Cell(job).row + product = product + Cell(job).row
  BY <1>1
<1> QED BY <1>2, <1>3 DEF MatrixIndex, Element

LEMMA FailedAppend ==
  ASSUME NEW job \in Jobs, errors \in Seq([job : Jobs]), request' = request,
         errors' = Append(errors, [job |-> job])
  PROVE  errors' \in Seq([job : Jobs]) /\ Failed' = Failed \cup {job}
<1>1. [job |-> job] \in [job : Jobs]
  OBVIOUS
<1>2. Len(errors) \in Nat
  BY LenProperties
<1>3. /\ errors' \in Seq([job : Jobs])
      /\ Len(errors') = Len(errors) + 1
      /\ \A k \in 1 .. Len(errors) : errors'[k] = errors[k]
      /\ errors'[Len(errors) + 1] = [job |-> job]
  BY <1>1, AppendProperties
<1>4. DOMAIN errors = 1 .. Len(errors) /\ DOMAIN errors' = 1 .. (Len(errors) + 1)
  BY <1>2, <1>3, LenProperties
<1>5. Failed' = Failed \cup {job}
  <2>1. ASSUME NEW j \in Failed' PROVE j \in Failed \cup {job}
    <3>1. PICK k \in 1 .. (Len(errors) + 1) : errors'[k].job = j
      BY <1>4 DEF Failed
    <3>2. CASE k = Len(errors) + 1
      BY <3>1, <3>2, <1>3
    <3>3. CASE k # Len(errors) + 1
      <4>1. k \in 1 .. Len(errors)
        BY <3>3, <1>2
      <4> QED BY <3>1, <4>1, <1>3, <1>4 DEF Failed
    <3> QED BY <3>2, <3>3
  <2>2. ASSUME NEW j \in Failed PROVE j \in Failed'
    <3>1. PICK k \in 1 .. Len(errors) : errors[k].job = j
      BY <1>4 DEF Failed
    <3>2. k \in 1 .. (Len(errors) + 1) /\ errors'[k].job = j
      BY <3>1, <1>2, <1>3
    <3> QED BY <3>2, <1>4 DEF Failed
  <2>3. job \in Failed'
    <3>1. Len(errors) + 1 \in 1 .. (Len(errors) + 1)
      BY <1>2
    <3> QED BY <3>1, <1>3, <1>4 DEF Failed
  <2> QED BY <2>1, <2>2, <2>3
<1> QED BY <1>3, <1>5

LEMMA FailedPop ==
  ASSUME errors \in Seq([job : Jobs]), errors # << >>, errors' = Front(errors)
  PROVE  /\ errors' \in Seq([job : Jobs])
         /\ Last(errors).job \in Jobs
         /\ Failed = Failed' \cup {Last(errors).job}
<1>1. /\ Len(errors) \in Nat \ {0}
      /\ errors' \in Seq([job : Jobs])
      /\ Len(errors') = Len(errors) - 1
      /\ \A k \in 1 .. (Len(errors) - 1) : errors'[k] = errors[k]
      /\ Last(errors) \in [job : Jobs]
  BY FrontProperties
<1>2. DOMAIN errors = 1 .. Len(errors) /\ DOMAIN errors' = 1 .. (Len(errors) - 1)
  BY <1>1, LenProperties
<1>3. ASSUME NEW j \in Failed PROVE j \in Failed' \cup {Last(errors).job}
  <2>1. PICK k \in 1 .. Len(errors) : errors[k].job = j
    BY <1>2 DEF Failed
  <2>2. CASE k = Len(errors)
    BY <2>1, <2>2 DEF Last
  <2>3. CASE k # Len(errors)
    <3>1. k \in 1 .. (Len(errors) - 1)
      BY <2>3, <1>1
    <3> QED BY <2>1, <3>1, <1>1, <1>2 DEF Failed
  <2> QED BY <2>2, <2>3
<1>4. ASSUME NEW j \in Failed' PROVE j \in Failed
  <2>1. PICK k \in 1 .. (Len(errors) - 1) : errors'[k].job = j
    BY <1>2 DEF Failed
  <2>2. k \in 1 .. Len(errors) /\ errors[k].job = j
    BY <2>1, <1>1
  <2> QED BY <2>2, <1>2 DEF Failed
<1>5. Last(errors).job \in Failed
  <2>1. Len(errors) \in 1 .. Len(errors)
    BY <1>1
  <2> QED BY <2>1, <1>2 DEF Failed, Last
<1> QED BY <1>1, <1>3, <1>4, <1>5

\* A proof is not zeros, so a slot shows whether it was written.
LEMMA ProofIsNotZeros ==
  ASSUME NEW row, NEW point PROVE [witness |-> row, point |-> << point >>] # Zeros
<1>1. << point >> # << >>
  OBVIOUS
<1> QED BY <1>1 DEF Zeros

\* Steps that touch neither slots, errors nor the request.
LEMMA SettledUnchanged ==
  ASSUME UNCHANGED << request, errors, slot >>
  PROVE  /\ Jobs' = Jobs /\ Failed' = Failed /\ Written' = Written
         /\ Expected' = Expected /\ BadDims' = BadDims
         /\ \A job : OutOfRange(Cell(job))' <=> OutOfRange(Cell(job))
BY DEF Jobs, Failed, Written, Expected, BadDims, OutOfRange, Cell, ExtRows, Element

-------------------------------------------------------------------------------
\* The invariant holds initially and is kept by every action.

LEMMA InvInit == Init => Inv
<1> SUFFICES ASSUME Init PROVE Inv
  OBVIOUS
<1>1. \A thread \in Thread : stack[thread] = << >> /\ Len(stack[thread]) = 0
  BY EmptySeq DEF Init
<1>2. Busy = {}
  BY <1>1 DEF Busy
<1>3. Failed = {} /\ errors \in Seq([job : Jobs]) /\ errors = << >>
  <2>1. errors \in Seq([job : Jobs]) /\ Len(errors) = 0
    BY EmptySeq DEF Init
  <2>2. DOMAIN errors = 1 .. 0
    BY <2>1, LenProperties
  <2> QED BY <2>1, <2>2 DEF Failed, Init
<1>4. Written = {}
  BY DEF Init, Written
<1>5. StackInv
  <2>1. stack \in [Thread -> Seq(Frames)]
    BY EmptySeq DEF Init
  <2> QED BY <2>1, <1>1 DEF StackInv
<1>6. Distinct
  BY <1>1 DEF Distinct
<1>7. Places
  BY <1>2, <1>3, <1>4 DEF Places, Init
<1>8. SlotInv
  BY <1>4 DEF SlotInv, Init
<1>9. EndInv
  BY <1>2, <1>3, <1>4 DEF EndInv, Init
<1>10. LockIsShort
  BY <1>1, RequestsAssumption DEF LockIsShort, At, Init, Nobody
<1> QED BY <1>5, <1>6, <1>7, <1>8, <1>9, <1>10 DEF Inv, Init

\* Steps of one job between taking it up and settling it.
LEMMA InvGoTo ==
  ASSUME Inv, NEW thread \in Thread, stack[thread] # << >>,
         NEW stage, NEW row, Good(Frame(Current(thread).job, stage, row)),
         UNCHANGED << request, waiting, errors, slot, reply >>,
         GoTo(thread, stage, row),
         IF stage = "push" THEN mutex = Nobody /\ mutex' = thread
                           ELSE UNCHANGED mutex /\ ~At(thread, "push")
  PROVE  Inv'
<1>1. /\ StackInv' /\ Distinct' /\ Busy' = Busy
      /\ \A other \in Thread :
           At(other, "push")' <=> IF other = thread THEN stage = "push" ELSE At(other, "push")
  BY StackGoTo
<1>2. /\ Jobs' = Jobs /\ Failed' = Failed /\ Written' = Written
      /\ Expected' = Expected /\ BadDims' = BadDims
      /\ \A job : OutOfRange(Cell(job))' <=> OutOfRange(Cell(job))
  BY SettledUnchanged
<1>3. Places'
  BY <1>1, <1>2 DEF Inv, Places, Pending
<1>4. SlotInv'
  BY <1>2 DEF Inv, SlotInv
<1>5. EndInv'
  BY <1>1, <1>2 DEF Inv, EndInv, Pending
<1>6. LockIsShort' /\ mutex' \in Thread \cup {Nobody}
  BY <1>1, RequestsAssumption DEF Inv, LockIsShort, Nobody
<1> QED BY <1>1, <1>3, <1>4, <1>5, <1>6 DEF Inv

LEMMA InvTake ==
  ASSUME Inv, NEW thread \in Thread, NEW job \in waiting, Take(thread, job)
  PROVE  Inv'
<1>1. /\ StackInv' /\ Distinct' /\ Busy' = Busy \cup {job}
      /\ \A other \in Thread : At(other, "push")' <=> At(other, "push")
  BY StackTake DEF Take
<1>2. /\ Jobs' = Jobs /\ Failed' = Failed /\ Written' = Written
      /\ Expected' = Expected /\ BadDims' = BadDims
      /\ \A j : OutOfRange(Cell(j))' <=> OutOfRange(Cell(j))
  BY SettledUnchanged DEF Take
<1>3. Places'
  BY <1>1, <1>2 DEF Inv, Places, Pending, Take
<1>4. SlotInv'
  BY <1>2 DEF Inv, SlotInv, Take
<1>5. EndInv'
  BY <1>1, <1>2 DEF EndInv, Pending, Take
<1>6. LockIsShort'
  BY <1>1 DEF Inv, LockIsShort, Take
<1> QED BY <1>1, <1>3, <1>4, <1>5, <1>6 DEF Inv, Take

LEMMA InvReadRow ==
  ASSUME Inv, NEW thread \in Thread, ReadRow(thread)
  PROVE  Inv'
<1> DEFINE job == Current(thread).job
           row == [k \in 1 .. request.cols |-> request.matrix[MatrixIndex(Cell(job).row, k - 1)]]
<1>1. /\ stack[thread] # << >> /\ Current(thread).at = "row"
      /\ GoTo(thread, "witness", row)
      /\ UNCHANGED << request, waiting, mutex, errors, slot, reply >>
  BY DEF ReadRow, At
<1>2. Good(Current(thread)) /\ job \in Jobs
  BY <1>1, StackTop DEF Inv
<1>3. row = RowOf(job)
  <2>1. ASSUME NEW k \in 1 .. request.cols
        PROVE  request.matrix[MatrixIndex(Cell(job).row, k - 1)] = Element(Cell(job).row, k - 1)
    <3>1. k - 1 \in Nat
      BY RequestType
    <3> QED BY <3>1, <1>2, IndexIsElement
  <2> QED BY <2>1 DEF RowOf
<1>4. Good(Frame(job, "witness", row))
  BY <1>1, <1>2, <1>3 DEF Good, Frame, Frames, Stages, NextStage, Computed
<1>5. ~At(thread, "push")
  BY <1>1 DEF At
<1> HIDE DEF row
<1> QED BY <1>1, <1>4, <1>5, InvGoTo

LEMMA InvLibrary ==
  ASSUME Inv, NEW thread \in Thread, NEW stage \in DOMAIN NextStage,
         Succeed(thread, stage) \/ Fail(thread, stage)
  PROVE  Inv'
<1>1. /\ stack[thread] # << >> /\ Current(thread).at = stage
      /\ UNCHANGED << request, waiting, mutex, errors, slot, reply >>
  BY DEF Succeed, Fail, At
<1>2. Good(Current(thread))
  BY <1>1, StackTop DEF Inv
<1>3. stage \in {"witness", "open", "commitment", "point"}
  BY DEF NextStage
<1>4. NextStage[stage] \in {"open", "commitment", "point", "write"}
  BY <1>3 DEF NextStage
<1>5. ~At(thread, "push")
  BY <1>1, <1>3 DEF At
<1>6. CASE Succeed(thread, stage)
  <2>1. Good(Frame(Current(thread).job, NextStage[stage], Current(thread).row))
    BY <1>1, <1>2, <1>3, <1>4 DEF Good, Frame, Frames, Stages, NextStage, Computed
  <2>2. GoTo(thread, NextStage[stage], Current(thread).row) /\ NextStage[stage] # "push"
    BY <1>4, <1>6 DEF Succeed
  <2> QED BY <1>1, <1>5, <2>1, <2>2, InvGoTo
<1>7. CASE Fail(thread, stage)
  <2>1. Good(Frame(Current(thread).job, "failed", Current(thread).row))
    BY <1>2 DEF Good, Frame, Frames, Stages, NextStage, Computed
  <2>2. GoTo(thread, "failed", Current(thread).row)
    BY <1>7 DEF Fail
  <2> QED BY <1>1, <1>5, <2>1, <2>2, InvGoTo
<1> QED BY <1>6, <1>7

LEMMA InvLockErrors ==
  ASSUME Inv, NEW thread \in Thread, LockErrors(thread)
  PROVE  Inv'
<1>1. /\ stack[thread] # << >> /\ mutex = Nobody /\ mutex' = thread
      /\ GoTo(thread, "push", Current(thread).row)
      /\ UNCHANGED << request, waiting, errors, slot, reply >>
  BY DEF LockErrors, At
<1>2. Good(Current(thread))
  BY <1>1, StackTop DEF Inv
<1>3. Good(Frame(Current(thread).job, "push", Current(thread).row))
  BY <1>2 DEF Good, Frame, Frames, Stages, NextStage, Computed
<1> QED BY <1>1, <1>3, InvGoTo

LEMMA PushErrorSettles ==
  ASSUME Inv, NEW thread \in Thread, PushError(thread)
  PROVE  /\ Inv'
         /\ Failed' = Failed \cup {Current(thread).job} /\ Written' = Written
<1> DEFINE job == Current(thread).job
<1>1. /\ stack[thread] # << >> /\ Pop(thread)
      /\ errors' = Append(errors, [job |-> job])
      /\ mutex' = Nobody
      /\ UNCHANGED << request, waiting, slot, reply >>
      /\ At(thread, "push")
  BY DEF PushError, At
<1>2. /\ StackInv' /\ Distinct' /\ Busy' = Busy \ {job}
      /\ \A other \in Thread : At(other, "push")' <=> other # thread /\ At(other, "push")
  BY <1>1, StackPop
<1>3. /\ job \in Busy /\ job \in Jobs /\ job \notin waiting \cup Failed \cup Written
      /\ reply = Pending /\ ~BadDims
  BY <1>1, StackTop, TopIsBusy DEF Inv
<1>4. errors' \in Seq([job : Jobs]) /\ Failed' = Failed \cup {job}
  BY <1>1, <1>3, FailedAppend DEF Inv, Places
<1>5. /\ Jobs' = Jobs /\ Written' = Written /\ Expected' = Expected /\ BadDims' = BadDims
      /\ \A j : OutOfRange(Cell(j))' <=> OutOfRange(Cell(j))
  BY <1>1 DEF Jobs, Written, Expected, BadDims, OutOfRange, Cell, ExtRows, Element
<1> HIDE DEF job
<1>6. Places'
  BY <1>1, <1>2, <1>3, <1>4, <1>5 DEF Inv, Places, Pending
<1>7. SlotInv'
  BY <1>1, <1>5 DEF Inv, SlotInv
<1>8. EndInv'
  BY <1>1, <1>3, <1>5 DEF EndInv, Pending
<1>9. LockIsShort'
  BY <1>1, <1>2, RequestsAssumption DEF Inv, LockIsShort, Nobody
<1> QED BY <1>1, <1>2, <1>4, <1>5, <1>6, <1>7, <1>8, <1>9 DEF Inv, job

LEMMA WriteSettles ==
  ASSUME Inv, NEW thread \in Thread, Write(thread)
  PROVE  /\ Inv'
         /\ Failed' = Failed /\ Written' = Written \cup {Current(thread).job}
<1> DEFINE job == Current(thread).job
           cell == Cell(job)
           proof == [witness |-> << Current(thread).row, cell.col >>,
                     point |-> << request.matrix[MatrixIndex(cell.row, cell.col)] >>]
<1>1. /\ stack[thread] # << >> /\ Pop(thread)
      /\ slot' = [slot EXCEPT ![job] = proof]
      /\ UNCHANGED << request, waiting, mutex, errors, reply >>
      /\ Current(thread).at = "write" /\ ~At(thread, "push")
  BY DEF Write, At
<1>2. /\ StackInv' /\ Distinct' /\ Busy' = Busy \ {job}
      /\ \A other \in Thread : At(other, "push")' <=> other # thread /\ At(other, "push")
  BY <1>1, StackPop
<1>3. /\ job \in Busy /\ job \in Jobs /\ job \notin waiting \cup Failed \cup Written
      /\ reply = Pending /\ ~BadDims
      /\ Good(Current(thread))
  BY <1>1, StackTop, TopIsBusy DEF Inv
<1>4. ~OutOfRange(cell) /\ proof = Expected[job]
  <2>1. ~OutOfRange(cell) /\ Current(thread).row = RowOf(job)
    BY <1>1, <1>3 DEF Good, Computed
  <2>2. cell.col \in Nat
    BY <1>3, RequestType
  <2>3. request.matrix[MatrixIndex(cell.row, cell.col)] = Element(cell.row, cell.col)
    BY <1>3, <2>2, IndexIsElement
  <2> QED BY <1>3, <2>1, <2>3 DEF Expected, RowOf
<1>5. proof # Zeros
  BY ProofIsNotZeros
<1> HIDE DEF proof
<1>6. /\ Jobs' = Jobs /\ Failed' = Failed /\ Expected' = Expected /\ BadDims' = BadDims
      /\ \A j : OutOfRange(Cell(j))' <=> OutOfRange(Cell(j))
  BY <1>1 DEF Jobs, Failed, Expected, BadDims, OutOfRange, Cell, ExtRows, Element
<1>7. /\ slot' = [j \in Jobs |-> slot'[j]]
      /\ \A j \in Jobs : slot'[j] = IF j = job THEN proof ELSE slot[j]
  BY <1>1, <1>3 DEF Inv, SlotInv
<1>8. Written' = Written \cup {job}
  BY <1>3, <1>5, <1>6, <1>7 DEF Written
<1>9. SlotInv'
  <2>1. ASSUME NEW j \in Written' PROVE ~OutOfRange(Cell(j)) /\ slot'[j] = Expected[j]
    BY <1>3, <1>4, <1>7, <1>8 DEF Inv, SlotInv, Written
  <2> QED BY <2>1, <1>6, <1>7 DEF SlotInv
<1> HIDE DEF job, cell
<1>10. Places'
  BY <1>1, <1>2, <1>3, <1>6, <1>8 DEF Inv, Places, Pending
<1>11. EndInv'
  BY <1>1, <1>3, <1>6 DEF EndInv, Pending
<1>12. LockIsShort'
  BY <1>1, <1>2 DEF Inv, LockIsShort
<1> QED BY <1>1, <1>2, <1>6, <1>8, <1>9, <1>10, <1>11, <1>12 DEF Inv, job

\* When all stacks are empty no job is busy.
LEMMA JoinedIsIdle == ASSUME Inv, Joined PROVE Busy = {} /\ waiting = {}
<1>1. \A thread \in Thread : Len(stack[thread]) = 0
  BY EmptySeq DEF Joined
<1> QED BY <1>1 DEF Joined, Busy

LEMMA ReturnSettles ==
  ASSUME Inv, Return
  PROVE  /\ Inv' /\ Written' = Written
         /\ Jobs = Failed \cup Written
         /\ \/ Failed = {} /\ Failed' = {} /\ reply' = Ok(slot)
            \/ /\ Last(errors).job \in Failed
               /\ Failed = Failed' \cup {Last(errors).job}
               /\ reply' = Err(Last(errors))
<1>1. /\ reply = Pending /\ ~BadDims /\ Busy = {} /\ waiting = {}
      /\ UNCHANGED << request, waiting, stack, mutex, slot >>
      /\ reply' # Pending
  BY JoinedIsIdle DEF Return, Ok, Err, Pending
<1>2. Jobs = Failed \cup Written
  BY <1>1 DEF Inv, Places
<1>3. errors \in Seq([job : Jobs])
  BY DEF Inv, Places
<1>4. /\ \/ Failed = {} /\ Failed' = {} /\ reply' = Ok(slot)
         \/ /\ Last(errors).job \in Failed
            /\ Failed = Failed' \cup {Last(errors).job}
            /\ reply' = Err(Last(errors))
      /\ errors' \in Seq([job : Jobs])
  <2>1. CASE errors = << >>
    <3>1. Failed = {} /\ errors' = errors /\ reply' = Ok(slot)
      <4>1. Len(errors) = 0 /\ DOMAIN errors = 1 .. Len(errors)
        BY <2>1, <1>3, EmptySeq, LenProperties
      <4> QED BY <2>1, <4>1 DEF Failed, Return
    <3> QED BY <3>1, <1>3 DEF Failed
  <2>2. CASE errors # << >>
    <3>1. reply' = Err(Last(errors)) /\ errors' = Front(errors)
      BY <2>2 DEF Return
    <3> QED BY <2>2, <3>1, <1>3, FailedPop
  <2> QED BY <2>1, <2>2
<1>5. /\ Jobs' = Jobs /\ Written' = Written /\ Expected' = Expected /\ BadDims' = BadDims
      /\ Busy' = Busy /\ Frames' = Frames /\ \A f : Good(f)' <=> Good(f)
      /\ \A j : OutOfRange(Cell(j))' <=> OutOfRange(Cell(j))
      /\ \A thread : At(thread, "push")' <=> At(thread, "push")
  BY <1>1 DEF Jobs, Written, Expected, BadDims, OutOfRange, Cell, ExtRows, Element, Busy,
              Frames, Good, RowOf, At, Current
<1>6. StackInv' /\ Distinct'
  BY <1>1, <1>5 DEF Inv, StackInv, Distinct
<1>7. Places'
  BY <1>1, <1>4, <1>5 DEF Inv, Places, Pending
<1>8. SlotInv' /\ EndInv' /\ LockIsShort'
  BY <1>1, <1>5 DEF Inv, SlotInv, EndInv, LockIsShort
<1> QED BY <1>1, <1>2, <1>4, <1>5, <1>6, <1>7, <1>8 DEF Inv

LEMMA RefuseKeeps == ASSUME Inv, Refuse PROVE Inv'
<1>1. /\ Jobs' = Jobs /\ Failed' = Failed /\ Written' = Written
      /\ Expected' = Expected /\ BadDims' = BadDims
      /\ \A j : OutOfRange(Cell(j))' <=> OutOfRange(Cell(j))
  BY SettledUnchanged DEF Refuse
<1>2. /\ Busy' = Busy /\ Frames' = Frames /\ \A f : Good(f)' <=> Good(f)
      /\ \A thread : At(thread, "push")' <=> At(thread, "push")
  BY <1>1 DEF Refuse, Busy, Frames, Good, RowOf, At, Current, Element, ExtRows, Cell, OutOfRange
<1>3. BadDims /\ reply' # Pending
  BY DEF Refuse, Refused, Pending
<1>4. StackInv' /\ Distinct'
  BY <1>2 DEF Inv, StackInv, Distinct, Refuse
<1>5. Places'
  BY <1>1, <1>2, <1>3 DEF Inv, Places, Refuse
<1>6. SlotInv' /\ EndInv' /\ LockIsShort'
  BY <1>1, <1>2, <1>3 DEF Inv, SlotInv, EndInv, LockIsShort, Refuse
<1> QED BY <1>4, <1>5, <1>6 DEF Inv, Refuse

LEMMA StutterKeeps == ASSUME Inv, UNCHANGED vars PROVE Inv'
<1>1. /\ Jobs' = Jobs /\ Failed' = Failed /\ Written' = Written
      /\ Expected' = Expected /\ BadDims' = BadDims
      /\ \A j : OutOfRange(Cell(j))' <=> OutOfRange(Cell(j))
  BY SettledUnchanged DEF vars
<1>2. /\ Busy' = Busy /\ Frames' = Frames /\ \A f : Good(f)' <=> Good(f)
      /\ \A thread : At(thread, "push")' <=> At(thread, "push")
  BY <1>1 DEF vars, Busy, Frames, Good, RowOf, At, Current, Element, ExtRows, Cell, OutOfRange
<1>3. StackInv' /\ Distinct'
  BY <1>2 DEF Inv, StackInv, Distinct, vars
<1>4. Places'
  BY <1>1, <1>2 DEF Inv, Places, Pending, vars
<1>5. SlotInv' /\ EndInv' /\ LockIsShort'
  BY <1>1, <1>2 DEF Inv, SlotInv, EndInv, LockIsShort, Pending, vars
<1> QED BY <1>3, <1>4, <1>5 DEF Inv, vars

\* The invariant of the whole machine.
LEMMA Invariance == Spec => []Inv
<1>1. Inv /\ [Next]_vars => Inv'
  <2> SUFFICES ASSUME Inv, [Next]_vars PROVE Inv'
    OBVIOUS
  <2>1. CASE Refuse
    BY <2>1, RefuseKeeps
  <2>2. CASE Return
    BY <2>2, ReturnSettles
  <2>3. ASSUME NEW thread \in Thread, Work(thread) PROVE Inv'
    <3>1. ASSUME NEW job \in waiting, Take(thread, job) PROVE Inv'
      BY <3>1, InvTake
    <3>2. CASE ReadRow(thread)
      BY <3>2, InvReadRow
    <3>3. ASSUME NEW stage \in DOMAIN NextStage, Succeed(thread, stage) \/ Fail(thread, stage)
          PROVE  Inv'
      BY <3>3, InvLibrary
    <3>4. CASE LockErrors(thread)
      BY <3>4, InvLockErrors
    <3>5. CASE PushError(thread)
      BY <3>5, PushErrorSettles
    <3>6. CASE Write(thread)
      BY <3>6, WriteSettles
    <3> QED BY <2>3, <3>1, <3>2, <3>3, <3>4, <3>5, <3>6 DEF Work
  <2>4. CASE UNCHANGED vars
    BY <2>4, StutterKeeps
  <2> QED BY <2>1, <2>2, <2>3, <2>4 DEF Next
<1> QED BY <1>1, InvInit, PTL DEF Spec

\* A thread that joins a nested iterator does not hold the list of errors,
\* however many threads there are and whatever they have taken up.
THEOREM LockStaysShort == Spec => []LockIsShort
<1>1. Inv => LockIsShort
  BY DEF Inv
<1> QED BY <1>1, Invariance, PTL

\* No job is lost, done twice or both written and failed.
THEOREM JobsInOnePlace == Spec => []TypeOK
<1>1. Inv => TypeOK
  <2> SUFFICES ASSUME Inv PROVE TypeOK
    OBVIOUS
  <2>1. \A thread \in Thread :
          /\ DOMAIN stack[thread] = 1 .. Len(stack[thread])
          /\ Len(stack[thread]) \in Nat
    BY LenProperties DEF Inv, StackInv
  <2>2. ASSUME NEW thread \in Thread, NEW k \in DOMAIN stack[thread]
        PROVE  /\ stack[thread][k].job \in Busy
               /\ stack[thread][k].at \in Stages
               /\ \A other \in 1 .. (k - 1) : stack[thread][other].job # stack[thread][k].job
    <3>1. k \in 1 .. Len(stack[thread]) /\ Good(stack[thread][k])
      BY <2>1, <2>2 DEF Inv, StackInv
    <3>2. stack[thread][k].job \in Jobs /\ stack[thread][k].at \in Stages
      BY <3>1 DEF Good, Frames
    <3>3. ASSUME NEW other \in 1 .. (k - 1)
          PROVE  stack[thread][other].job # stack[thread][k].job
      <4>1. other \in 1 .. Len(stack[thread]) /\ other # k
        BY <3>1, <2>1
      <4> QED BY <3>1, <4>1 DEF Inv, Distinct
    <3> QED BY <3>1, <3>2, <3>3 DEF Busy
  <2>3. ASSUME NEW one \in Thread, NEW two \in Thread, one # two
        PROVE  JobsOf(one) \cap JobsOf(two) = {}
    BY <2>1, <2>3 DEF Inv, Distinct, JobsOf
  <2>4. \A job \in Busy : job \in Jobs \ (waiting \cup Failed \cup Written)
    BY DEF Inv, Places, Busy
  <2> QED BY <2>2, <2>3, <2>4 DEF Inv, Places, TypeOK
<1> QED BY <1>1, Invariance, PTL

-------------------------------------------------------------------------------
\* The refinement of ProofServer.

LEMMA NoJobZero == ASSUME Inv PROVE 0 \notin Jobs
BY RequestType

LEMMA OutcomeIs ==
  ASSUME Inv, NEW job \in Jobs
  PROVE  /\ job \in Written => Outcome[job] = "proved"
         /\ job \in Failed => Outcome[job] = "failed"
         /\ job \notin Written \cup Failed \cup {reply.job} => Outcome[job] = "pending"
BY DEF Outcome, Inv, Places

\* Steps that settle nothing and give no answer are stuttering.
LEMMA OutcomeUnchanged ==
  ASSUME UNCHANGED << request, errors, slot, reply >>
  PROVE  UNCHANGED << Outcome, Expected, reply >>
BY DEF Outcome, Expected, Jobs, Failed, Written, OutOfRange, Cell, ExtRows, Element

\* build_proof answers with all proofs, each of its own cell, or with the error
\* of a cell that failed, for every number of cells and threads.
THEOREM ProofsOrError == Spec => KeepsProofPromise
<1>1. Init => Promise!Init
  <2> SUFFICES ASSUME Init PROVE Promise!Init
    OBVIOUS
  <2>1. Inv /\ reply = Pending
    BY InvInit DEF Init
  <2>2. Failed = {} /\ Written = {}
    <3>1. waiting = Jobs
      BY DEF Init
    <3> QED BY <2>1, <3>1, RequestType, LenProperties DEF Inv, Places, Failed, Written
  <2>3. \A job \in Jobs : Outcome[job] = "pending"
    BY <2>1, <2>2, NoJobZero, OutcomeIs DEF Pending
  <2> QED BY <2>1, <2>3 DEF Promise!Init, Promise!Jobs, Promise!Pending, Promise!NoJob,
                            Pending, Outcome, Expected
<1>2. Inv /\ Inv' /\ [Next]_vars => [Promise!Next]_(Promise!vars)
  <2> SUFFICES ASSUME Inv, Inv', [Next]_vars PROVE [Promise!Next]_(Promise!vars)
    OBVIOUS
  <2>0. DOMAIN Expected = Jobs
    BY DEF Expected
  <2>1. ASSUME UNCHANGED << request, errors, slot, reply >> PROVE UNCHANGED Promise!vars
    BY <2>1, OutcomeUnchanged DEF Promise!vars
  <2>2. CASE Refuse
    <3>1. reply = Pending /\ reply' = Refused /\ UNCHANGED << request, errors, slot >>
      BY <2>2 DEF Refuse
    <3>2. \A job \in Jobs : Outcome[job] = "pending"
      <4>1. Failed = {} /\ Written = {}
        <5>1. errors = << >> /\ Written = {}
          BY <2>2 DEF Inv, EndInv, Refuse
        <5>2. Len(errors) = 0 /\ DOMAIN errors = 1 .. Len(errors)
          BY <5>1, EmptySeq, LenProperties DEF Inv, Places
        <5> QED BY <5>1, <5>2 DEF Failed
      <4> QED BY <3>1, <4>1, NoJobZero, OutcomeIs DEF Pending
    <3>3. Outcome' = Outcome /\ Expected' = Expected
      <4>1. Jobs' = Jobs /\ Failed' = Failed /\ Written' = Written /\ Expected' = Expected
        BY <3>1, SettledUnchanged
      <4>2. reply'.job = reply.job
        BY <3>1 DEF Refused, Pending
      <4> QED BY <4>1, <4>2 DEF Outcome
    <3>4. Promise!Refuse
      BY <2>0, <3>1, <3>2, <3>3 DEF Promise!Refuse, Promise!Jobs, Promise!Pending,
           Promise!NoJob, Promise!Refused, Pending, Refused
    <3> QED BY <3>4 DEF Promise!Next
  <2>3. CASE Return
    <3>1. /\ Written' = Written /\ Jobs = Failed \cup Written
          /\ \/ Failed = {} /\ Failed' = {} /\ reply' = Ok(slot)
             \/ /\ Last(errors).job \in Failed
                /\ Failed = Failed' \cup {Last(errors).job}
                /\ reply' = Err(Last(errors))
      BY <2>3, ReturnSettles
    <3>2. reply = Pending /\ UNCHANGED << request, slot >>
      BY <2>3 DEF Return
    <3>3. /\ Jobs' = Jobs /\ Expected' = Expected
          /\ 0 \notin Jobs /\ reply.job = 0
      BY <3>2, NoJobZero DEF Jobs, Expected, OutOfRange, Cell, ExtRows, Element, Pending
    <3>4. CASE Failed = {} /\ Failed' = {} /\ reply' = Ok(slot)
      <4>1. reply'.job = 0
        BY <3>4 DEF Ok
      <4>2. Outcome' = Outcome
        BY <3>1, <3>3, <3>4, <4>1 DEF Outcome
      <4>3. \A job \in Jobs : Outcome[job] = "proved"
        BY <3>1, <3>4, OutcomeIs
      <4>4. slot = Expected
        BY <3>1, <3>4 DEF Inv, SlotInv, Expected
      <4>5. Promise!Deliver
        BY <2>0, <3>2, <3>3, <3>4, <4>2, <4>3, <4>4 DEF Promise!Deliver, Promise!Jobs,
             Promise!Pending, Promise!NoJob, Promise!AllProofs, Pending, Ok
      <4> QED BY <4>5 DEF Promise!Next
    <3>5. CASE /\ Last(errors).job \in Failed
               /\ Failed = Failed' \cup {Last(errors).job}
               /\ reply' = Err(Last(errors))
      <4> DEFINE job == Last(errors).job
      <4>1. reply'.job = job
        BY <3>5 DEF Err
      <4>2. job \in Jobs
        BY <3>1, <3>5
      <4>3. Outcome' = Outcome
        <5>1. ASSUME NEW j \in Jobs
              PROVE  j \in Failed' \cup {reply'.job} <=> j \in Failed \cup {reply.job}
          BY <3>3, <3>5, <4>1
        <5> QED BY <3>1, <3>3, <5>1 DEF Outcome
      <4>4. \A j \in Jobs : Outcome[j] # "pending"
        BY <3>1, OutcomeIs
      <4>5. Outcome[job] = "failed"
        BY <3>5, <4>2, OutcomeIs
      <4>6. Promise!Report(job)
        BY <2>0, <3>2, <3>3, <3>5, <4>3, <4>4, <4>5 DEF Promise!Report, Promise!Jobs,
             Promise!Pending, Promise!NoJob, Promise!Failure, Pending, Err
      <4> HIDE DEF job
      <4> QED BY <2>0, <4>2, <4>6 DEF Promise!Next, Promise!Jobs
    <3> QED BY <3>1, <3>4, <3>5
  <2>4. ASSUME NEW thread \in Thread, NEW job \in Jobs, UNCHANGED << request, reply >>,
               job \notin Written \cup Failed, reply.job = 0,
               \/ Failed' = Failed \cup {job} /\ Written' = Written
               \/ Failed' = Failed /\ Written' = Written \cup {job}
        PROVE  Promise!Next
    <3>1. /\ Jobs' = Jobs /\ Expected' = Expected /\ 0 \notin Jobs
      BY <2>4, NoJobZero DEF Jobs, Expected, OutOfRange, Cell, ExtRows, Element
    <3>2. Outcome[job] = "pending"
      BY <2>4, <3>1, OutcomeIs
    <3>3. CASE Failed' = Failed \cup {job} /\ Written' = Written
      <4>1. Outcome' = [Outcome EXCEPT ![job] = "failed"]
        BY <2>4, <3>1, <3>3 DEF Outcome
      <4>2. Promise!Settle(job)
        BY <2>4, <3>1, <3>2, <4>1 DEF Promise!Settle
      <4> QED BY <2>0, <4>2 DEF Promise!Next, Promise!Jobs
    <3>4. CASE Failed' = Failed /\ Written' = Written \cup {job}
      <4>1. Outcome' = [Outcome EXCEPT ![job] = "proved"]
        BY <2>4, <3>1, <3>4 DEF Outcome
      <4>2. Promise!Settle(job)
        BY <2>4, <3>1, <3>2, <4>1 DEF Promise!Settle
      <4> QED BY <2>0, <4>2 DEF Promise!Next, Promise!Jobs
    <3> QED BY <2>4, <3>3, <3>4
  <2>5. ASSUME NEW thread \in Thread, stack[thread] # << >>
        PROVE  /\ Current(thread).job \in Jobs
               /\ Current(thread).job \notin Written \cup Failed
               /\ reply.job = 0
    BY <2>5, StackTop, TopIsBusy DEF Inv, Pending
  <2>6. ASSUME NEW thread \in Thread, Work(thread)
        PROVE  Promise!Next \/ UNCHANGED Promise!vars
    <3>1. CASE PushError(thread)
      <4>1. stack[thread] # << >> /\ UNCHANGED << request, reply >>
        BY <3>1 DEF PushError, At
      <4>2. Failed' = Failed \cup {Current(thread).job} /\ Written' = Written
        BY <3>1, PushErrorSettles
      <4> QED BY <2>4, <2>5, <4>1, <4>2
    <3>2. CASE Write(thread)
      <4>1. stack[thread] # << >> /\ UNCHANGED << request, reply >>
        BY <3>2 DEF Write, At
      <4>2. Failed' = Failed /\ Written' = Written \cup {Current(thread).job}
        BY <3>2, WriteSettles
      <4> QED BY <2>4, <2>5, <4>1, <4>2
    <3>3. CASE ~PushError(thread) /\ ~Write(thread)
      <4>1. UNCHANGED << request, errors, slot, reply >>
        BY <2>6, <3>3 DEF Work, Take, ReadRow, Succeed, Fail, LockErrors
      <4> QED BY <2>1, <4>1
    <3> QED BY <3>1, <3>2, <3>3
  <2>7. CASE UNCHANGED vars
    BY <2>1, <2>7 DEF vars
  <2> QED BY <2>2, <2>3, <2>6, <2>7 DEF Next
<1> QED BY <1>1, <1>2, Invariance, PTL DEF Spec, KeepsProofPromise, Promise!Spec

===============================================================================
