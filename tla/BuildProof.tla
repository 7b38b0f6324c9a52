------------------------------- MODULE BuildProof -------------------------------
(***************************************************************************)
(* build_proof (kate/src/com.rs): the proofs of many cells, computed by    *)
(* the threads of a work-stealing pool.  A job is one of the requested     *)
(* cells; each job writes its own slot of the result or pushes an error    *)
(* to a list behind a mutex.  A thread that reads the row of a cell does   *)
(* so with a nested parallel iterator, and while that joins it may take    *)
(* up another job: a thread has a stack of jobs.                           *)
(*                                                                         *)
(* The polynomial commitment library may fail at any of its four calls.    *)
(* A witness is known by the row it interpolates and the column it is for. *)
(***************************************************************************)
EXTENDS Integers, Sequences, SequencesExt, FiniteSets

CONSTANTS
  Thread,    \* threads of the pool
  U16Max,    \* largest u16
  Requests   \* [rows, cols, matrix, cells]: block dimensions, the extended
             \* matrix in column-major order, and the cells to be proved

ASSUME RequestsAssumption ==
  /\ "nobody" \notin Thread
  /\ \A request \in Requests :
       /\ {request.rows, request.cols} \subseteq Nat
       /\ DOMAIN request.matrix = 0 .. (2 * request.rows * request.cols - 1)
       /\ request.cells \in Seq([row : Nat, col : Nat])

VARIABLES
  request,
  waiting,   \* jobs no thread has taken up
  stack,     \* thread -> the jobs it is at, the innermost last
  mutex,     \* the thread that holds locked_errors, or Nobody
  errors,    \* locked_errors
  slot,      \* result_bytes: job -> proof and point, or Zeros
  reply

vars == << request, waiting, stack, mutex, errors, slot, reply >>

ROW_EXTENSION == 2
Nobody == "nobody"
Zeros == [witness |-> << >>, point |-> << >>]

Jobs == DOMAIN request.cells
ExtRows == request.rows * ROW_EXTENSION

Pending == [kind |-> "pending", job |-> 0, proofs |-> << >>]
Ok(proofs) == [kind |-> "ok", job |-> 0, proofs |-> proofs]
Err(entry) == [kind |-> "err", job |-> entry.job, proofs |-> << >>]
Refused == [kind |-> "refused", job |-> 0, proofs |-> << >>]

\* make_dims and extend, in u16.
BadDims ==
  \/ request.rows \notin 1 .. U16Max \/ request.cols \notin 1 .. U16Max
  \/ ExtRows > U16Max

Init ==
  /\ request \in Requests
  /\ waiting = Jobs
  /\ stack = [thread \in Thread |-> << >>]
  /\ mutex = Nobody
  /\ errors = << >>
  /\ slot = [job \in Jobs |-> Zeros]
  /\ reply = Pending

Refuse ==
  /\ reply = Pending /\ BadDims
  /\ reply' = Refused
  /\ UNCHANGED << request, waiting, stack, mutex, errors, slot >>

-------------------------------------------------------------------------------
\* The closure that runs for one cell.

Frame(job, at, row) == [job |-> job, at |-> at, row |-> row]
Current(thread) == stack[thread][Len(stack[thread])]
At(thread, stage) == stack[thread] # << >> /\ Current(thread).at = stage
Cell(job) == request.cells[job]

\* The innermost job goes on to a stage, with the row it has.
GoTo(thread, stage, row) ==
  stack' = [stack EXCEPT ![thread][Len(stack[thread])] =
              Frame(Current(thread).job, stage, row)]

Pop(thread) == stack' = [stack EXCEPT ![thread] = Front(@)]

\* A thread takes up a job when it is idle or joins its nested iterator.
MayTake(thread) == stack[thread] = << >> \/ At(thread, "row")

OutOfRange(cell) == cell.row >= ExtRows \/ cell.col >= request.cols

FirstStage(job) == IF OutOfRange(Cell(job)) THEN "failed" ELSE "row"

\* Mutant: the list of errors is locked for the whole closure.
Take_Locked(thread, job) ==
  /\ reply = Pending /\ ~BadDims
  /\ job \in waiting /\ MayTake(thread)
  /\ mutex = Nobody
  /\ mutex' = thread
  /\ waiting' = waiting \ {job}
  /\ stack' = [stack EXCEPT ![thread] = Append(@, Frame(job, FirstStage(job), << >>))]
  /\ UNCHANGED << request, errors, slot, reply >>

\* Mutant: a job is handed out again while it is under way.
Take_Shared(thread, job) ==
  /\ reply = Pending /\ ~BadDims
  /\ job \in waiting /\ MayTake(thread)
  /\ Len(stack[thread]) < 2
  /\ stack' = [stack EXCEPT ![thread] = Append(@, Frame(job, FirstStage(job), << >>))]
  /\ UNCHANGED << request, waiting, mutex, errors, slot, reply >>

Take(thread, job) ==
  /\ reply = Pending /\ ~BadDims
  /\ job \in waiting /\ MayTake(thread)
  /\ waiting' = waiting \ {job}
  /\ stack' = [stack EXCEPT ![thread] = Append(@, Frame(job, FirstStage(job), << >>))]
  /\ UNCHANGED << request, mutex, errors, slot, reply >>

\* Mutant: the matrix is indexed row by row.
MatrixIndex_RowMajor(row, col) == row * request.cols + col

MatrixIndex(row, col) == row + col * ExtRows

\* get_ext_data_matrix over all columns, and the interpolation of the row.
ReadRow(thread) ==
  /\ At(thread, "row")
  /\ LET row == Cell(Current(thread).job).row
     IN  GoTo(thread, "witness",
              [k \in 1 .. request.cols |-> request.matrix[MatrixIndex(row, k - 1)]])
  /\ UNCHANGED << request, waiting, mutex, errors, slot, reply >>

\* compute_witness_polynomial, open, and to_bytes of commitment and point.
NextStage ==
  [witness |-> "open", open |-> "commitment", commitment |-> "point", point |-> "write"]

Succeed(thread, stage) ==
  /\ At(thread, stage)
  /\ GoTo(thread, NextStage[stage], Current(thread).row)
  /\ UNCHANGED << request, waiting, mutex, errors, slot, reply >>

Fail(thread, stage) ==
  /\ At(thread, stage)
  /\ GoTo(thread, "failed", Current(thread).row)
  /\ UNCHANGED << request, waiting, mutex, errors, slot, reply >>

LockErrors(thread) ==
  /\ At(thread, "failed") /\ mutex = Nobody
  /\ mutex' = thread
  /\ GoTo(thread, "push", Current(thread).row)
  /\ UNCHANGED << request, waiting, errors, slot, reply >>

\* Mutant: the guard outlives the push.
PushError_Leaks(thread) ==
  /\ At(thread, "push")
  /\ errors' = Append(errors, [job |-> Current(thread).job])
  /\ Pop(thread)
  /\ UNCHANGED << request, waiting, mutex, slot, reply >>

\* The guard goes out of scope after the push.
PushError(thread) ==
  /\ At(thread, "push")
  /\ errors' = Append(errors, [job |-> Current(thread).job])
  /\ mutex' = Nobody
  /\ Pop(thread)
  /\ UNCHANGED << request, waiting, slot, reply >>

Write(thread) ==
  /\ At(thread, "write")
  /\ LET job == Current(thread).job
         cell == Cell(job)
     IN  slot' = [slot EXCEPT ![job] =
                    [witness |-> << Current(thread).row, cell.col >>,
                     point |-> << request.matrix[MatrixIndex(cell.row, cell.col)] >>]]
  /\ Pop(thread)
  /\ UNCHANGED << request, waiting, mutex, errors, reply >>

\* for_each has joined every job.
Joined == waiting = {} /\ \A thread \in Thread : stack[thread] = << >>

\* errors.pop() decides.
Return ==
  /\ reply = Pending /\ ~BadDims
  /\ Joined /\ mutex = Nobody
  /\ IF errors = << >>
       THEN reply' = Ok(slot) /\ UNCHANGED errors
       ELSE reply' = Err(Last(errors)) /\ errors' = Front(errors)
  /\ UNCHANGED << request, waiting, stack, mutex, slot >>

Work(thread) ==
  \/ \E job \in waiting : Take(thread, job)
  \/ ReadRow(thread)
  \/ \E stage \in DOMAIN NextStage : Succeed(thread, stage) \/ Fail(thread, stage)
  \/ LockErrors(thread) \/ PushError(thread) \/ Write(thread)

Next == Refuse \/ Return \/ \E thread \in Thread : Work(thread)

\* The operating system runs every thread of the pool and the caller.
Fairness ==
  /\ \A thread \in Thread : WF_vars(Work(thread))
  /\ WF_vars(Refuse \/ Return)

Spec == Init /\ [][Next]_vars

FairSpec == Spec /\ Fairness

-------------------------------------------------------------------------------
\* Properties.

Stages == {"row", "failed", "push", "write"} \cup DOMAIN NextStage

JobsOf(thread) == {stack[thread][k].job : k \in DOMAIN stack[thread]}
Failed == {errors[k].job : k \in DOMAIN errors}
Written == {job \in Jobs : slot[job] # Zeros}

\* Types; and every job is in one place only: waiting, on one stack, or settled
\* once, as a written slot or as an error.
TypeOK ==
  /\ request \in Requests
  /\ waiting \subseteq Jobs
  /\ mutex \in Thread \cup {Nobody}
  /\ \A thread \in Thread : \A k \in DOMAIN stack[thread] :
       /\ stack[thread][k].job \in Jobs \ (waiting \cup Failed \cup Written)
       /\ stack[thread][k].at \in Stages
       /\ \A other \in 1 .. (k - 1) : stack[thread][other].job # stack[thread][k].job
  /\ \A one, two \in Thread : one # two => JobsOf(one) \cap JobsOf(two) = {}
  /\ waiting \cap (Failed \cup Written) = {} /\ Failed \cap Written = {}

\* A thread that waits for its nested iterator never holds the list of errors:
\* only a thread about to push does, so a job it takes up meanwhile can fail.
LockIsShort ==
  \A thread \in Thread : mutex = thread <=> At(thread, "push")

\* Every call comes back, however the jobs are dealt out and whatever fails.
Answers == <>(reply # Pending)

\* The proof of a cell, from the matrix by row and column.
Element(row, col) == request.matrix[col * ExtRows + row]

Expected ==
  [job \in Jobs |->
     LET cell == Cell(job)
     IN  IF OutOfRange(cell) THEN Zeros
         ELSE [witness |-> << [k \in 1 .. request.cols |-> Element(cell.row, k - 1)], cell.col >>,
               point |-> << Element(cell.row, cell.col) >>]]

Outcome ==
  [job \in Jobs |->
     IF job \in Written THEN "proved"
     ELSE IF job \in Failed \cup {reply.job} THEN "failed" ELSE "pending"]

Promise ==
  INSTANCE ProofServer WITH expected <- Expected, outcome <- Outcome, reply <- reply

\* All proofs, each of its own cell, or the error of a cell that failed: the
\* order of the threads and of the pushes shows only in which error it is.
KeepsProofPromise == Promise!Spec

===============================================================================
