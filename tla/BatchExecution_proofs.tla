------------------------ MODULE BatchExecution_proofs ------------------------
(* For any number of batches, jobs, slots and faults: a batch is handed back  *)
(* once, in deterministic mode in sequence order, and with all its outcomes.  *)
EXTENDS BatchExecution, TLAPS

\* Seconds a leaf may take on a loaded machine.
USE SMTT(20), ZenonT(30)

BatchLabels == {"idle", "fork", "parent", "forking", "children", "unfork", "pass", "ladder",
                "send", "sendErr", "over"}
JobLabels == {"idle", "acquire", "restore", "drive", "destroy", "stranded", "miscounted", "done"}
Results == {"none", "sealed", "crash", "retryable", "terminal"}
Outcomes == {"none", "sealed", "crash", "abandoned"}

\* The types of what the order and the outcomes of batches depend on.
TypeOK ==
    /\ mode \in {"fast", "deterministic"}
    /\ submitted \in Nat /\ submitQ \in Seq(Batches) /\ taken \in Batches \cup {0}
    /\ completedQ \in Seq(Batches \X {"send", "sendErr"}) /\ reorder \subseteq Batches
    /\ nextSeq \in Nat /\ handed \in Seq(Batches)
    /\ bpc \in [Batches -> BatchLabels] /\ after \in [Batches -> {"pass", "ladder", "reap"}]
    /\ jpc \in [Jobs -> JobLabels] /\ res \in [Jobs -> Results] /\ outcome \in [Jobs -> Outcomes]
    /\ tries \in [Jobs -> Nat] /\ attempts \in [Jobs -> Nat]

\* A batch on its way to the executor has not been spawned, and is there once.
QueueInv ==
    /\ blocked => submitted < N
    /\ \A b \in Batches : b > submitted => bpc[b] = "idle"
    /\ \A i \in DOMAIN submitQ : bpc[submitQ[i]] = "idle" /\ submitQ[i] <= submitted
    /\ \A i, j \in DOMAIN submitQ : i < j => submitQ[i] < submitQ[j]
    /\ taken # 0 => /\ bpc[taken] = "idle" /\ taken <= submitted
                    /\ \A i \in DOMAIN submitQ : taken < submitQ[i]

\* A batch that is over is in one place of the result side at most.
ResultInv ==
    /\ Len(completedQ) <= 1
    /\ \A i \in DOMAIN completedQ :
          /\ bpc[completedQ[i][1]] = "over" /\ completedQ[i][1] \notin reorder
          /\ \A j \in DOMAIN handed : handed[j] # completedQ[i][1]
    /\ \A b \in reorder : bpc[b] = "over" /\ \A j \in DOMAIN handed : handed[j] # b
    /\ \A j \in DOMAIN handed : bpc[handed[j]] = "over"
    /\ \A i, j \in DOMAIN handed : i # j => handed[i] # handed[j]
    /\ mode = "deterministic" =>
          nextSeq = Len(handed) + 1 /\ \A i \in DOMAIN handed : handed[i] = i

\* Only a failed batch has an abandoned job in deterministic mode.
Good(b) ==
    \A k \in JobsOf(b) :
        outcome[k] \in {"sealed", "crash"} \cup (IF mode = "fast" THEN {"abandoned"} ELSE {})
GoodBatches == {b \in Batches : Good(b)}
OutcomeInv ==
    /\ \A b \in Batches : bpc[b] = "send" => b \in GoodBatches
    /\ \A b \in Batches : bpc[b] = "sendErr" => mode = "deterministic"
    /\ \A i \in DOMAIN completedQ :
          IF completedQ[i][2] = "send" THEN completedQ[i][1] \in GoodBatches ELSE mode = "deterministic"
    /\ reorder \subseteq GoodBatches
    /\ \A j \in DOMAIN handed : handed[j] \in GoodBatches
    /\ mode = "deterministic" =>
          \A k \in Jobs : outcome[k] = "abandoned" => bpc[k[1]] \in {"sendErr", "over"}

\* The attempts of a job: the first pass, and one for each retry.
Fresh(b) == bpc[b] \in {"idle", "fork", "parent", "forking"} \/ (bpc[b] = "unfork" /\ after[b] = "pass")
AttemptsOf(k) ==
    /\ Fresh(k[1]) => jpc[k] = "idle" /\ tries[k] = 0 /\ attempts[k] = 0
    /\ jpc[k] = "acquire" => attempts[k] <= tries[k]
    /\ attempts[k] <= tries[k] + 1 /\ tries[k] <= RetryMax + 1
AttemptInv == \A k \in Jobs : AttemptsOf(k)

IInv == TypeOK /\ QueueInv /\ ResultInv /\ OutcomeInv /\ AttemptInv
-----------------------------------------------------------------------------
(* What a step of a batch or of a job may touch.                              *)

\* A job belongs to the batch it is numbered by.
LEMMA JobBatch ==
    /\ \A k \in Jobs : k[1] \in Batches
    /\ \A b \in Batches : \A k \in JobsOf(b) : k \in Jobs /\ k[1] = b
BY DEF Jobs, JobsOf

\* The step of a batch moves this batch only, and no outcome; it may send the result.
BatchMoves(b) ==
    /\ UNCHANGED <<mode, blocked, submitted, submitQ, taken, reorder, nextSeq, handed, outcome, tries>>
    /\ bpc[b] \notin {"idle", "over"}
    /\ \E l \in BatchLabels \ {"idle", "sendErr"} :
          /\ bpc' = [bpc EXCEPT ![b] = l]
          /\ l = "send" => bpc[b] = "ladder" /\ \A k \in JobsOf(b) : outcome[k] # "none"
          /\ l = "over" => bpc[b] \in {"send", "sendErr"}
    /\ \/ completedQ' = completedQ
       \/ /\ completedQ = <<>> /\ completedQ' = <<<<b, bpc[b]>>>>
          /\ bpc[b] \in {"send", "sendErr"} /\ bpc' = [bpc EXCEPT ![b] = "over"]

\* A move that sends nothing.
LEMMA QuietMove ==
    ASSUME NEW b \in Batches, NEW l \in BatchLabels \ {"idle", "sendErr", "over"},
           UNCHANGED <<mode, blocked, submitted, submitQ, taken, reorder, nextSeq, handed, outcome, tries>>,
           completedQ' = completedQ, bpc[b] \notin {"idle", "over"}, bpc' = [bpc EXCEPT ![b] = l],
           l = "send" => bpc[b] = "ladder" /\ \A k \in JobsOf(b) : outcome[k] # "none"
    PROVE  BatchMoves(b)
<1>1. \E m \in BatchLabels \ {"idle", "sendErr"} :
          /\ bpc' = [bpc EXCEPT ![b] = m]
          /\ m = "send" => bpc[b] = "ladder" /\ \A k \in JobsOf(b) : outcome[k] # "none"
          /\ m = "over" => bpc[b] \in {"send", "sendErr"}
  <2>. WITNESS l \in BatchLabels \ {"idle", "sendErr"}
  <2>. QED
    OBVIOUS
<1>. QED
  BY <1>1, Zenon DEF BatchMoves

\* Every step of a batch is such a move.
LEMMA BatchFrame ==
    ASSUME TypeOK, NEW b \in Batches, BatchStep(b)
    PROVE  BatchMoves(b)
<1>1. CASE TryFork(b)
  BY <1>1 DEF TryFork, BatchMoves, BatchLabels, TypeOK, pipe
<1>2. CASE RestoreParent(b)
  BY <1>2 DEF RestoreParent, BatchMoves, BatchLabels, TypeOK, pipe
<1>3. CASE ForkChildren(b)
  BY <1>3 DEF ForkChildren, BatchMoves, BatchLabels, TypeOK, pipe
<1>4. CASE ForkedDone(b)
  <2>1. /\ UNCHANGED <<mode, blocked, submitted, submitQ, taken, reorder, nextSeq, handed, outcome, tries>>
        /\ completedQ' = completedQ
    BY <1>4 DEF ForkedDone, pipe, job
  <2>2. bpc[b] \notin {"idle", "over"} /\ bpc' = [bpc EXCEPT ![b] = "unfork"]
    BY <1>4 DEF ForkedDone
  <2>. QED
    BY <2>1, <2>2, QuietMove, Zenon DEF BatchLabels
<1>5. CASE DestroyParent(b)
  <2>1. /\ UNCHANGED <<mode, blocked, submitted, submitQ, taken, reorder, nextSeq, handed, outcome, tries>>
        /\ completedQ' = completedQ
    BY <1>5 DEF DestroyParent, pipe
  <2>2. bpc[b] \notin {"idle", "over"}
        /\ bpc' = [bpc EXCEPT ![b] = IF after[b] = "pass" THEN "pass" ELSE "ladder"]
    BY <1>5 DEF DestroyParent
  <2>3. PICK l : l = IF after[b] = "pass" THEN "pass" ELSE "ladder"
    OBVIOUS
  <2>4. bpc' = [bpc EXCEPT ![b] = l] /\ l \in {"pass", "ladder"}
    BY <2>2, <2>3
  <2>. QED
    BY <2>1, <2>2, <2>4, QuietMove, Zenon DEF BatchLabels
<1>6. CASE FirstPassDone(b)
  <2>1. /\ UNCHANGED <<mode, blocked, submitted, submitQ, taken, reorder, nextSeq, handed, outcome, tries>>
        /\ completedQ' = completedQ
    BY <1>6 DEF FirstPassDone, pipe, job
  <2>2. bpc[b] \notin {"idle", "over"} /\ bpc' = [bpc EXCEPT ![b] = "ladder"]
    BY <1>6 DEF FirstPassDone
  <2>. QED
    BY <2>1, <2>2, QuietMove, Zenon DEF BatchLabels
<1>7. CASE LadderDone(b)
  <2>1. /\ UNCHANGED <<mode, blocked, submitted, submitQ, taken, reorder, nextSeq, handed, outcome, tries>>
        /\ completedQ' = completedQ
    BY <1>7 DEF LadderDone, pipe, job
  <2>2. bpc[b] \notin {"idle", "over"} /\ bpc' = [bpc EXCEPT ![b] = "send"]
        /\ bpc[b] = "ladder" /\ \A k \in JobsOf(b) : outcome[k] # "none"
    BY <1>7 DEF LadderDone
  <2>. QED
    BY <2>1, <2>2, QuietMove, Zenon DEF BatchLabels
<1>8. CASE SendCompleted(b)
  BY <1>8, Zenon DEF SendCompleted, BatchMoves, BatchLabels, TypeOK, job
<1>9. CASE DestroySurplus(b)
  <2>1. /\ UNCHANGED <<mode, blocked, submitted, submitQ, taken, reorder, nextSeq, handed, outcome, tries>>
        /\ completedQ' = completedQ
    BY <1>9 DEF DestroySurplus, pipe, job
  <2>2. bpc[b] \notin {"idle", "over"} /\ bpc' = [bpc EXCEPT ![b] = "unfork"]
    BY <1>9 DEF DestroySurplus, batch, TypeOK
  <2>. QED
    BY <2>1, <2>2, QuietMove, Zenon DEF BatchLabels
<1>. QED
  BY <1>1, <1>2, <1>3, <1>4, <1>5, <1>6, <1>7, <1>8, <1>9 DEF BatchStep

\* The step of a job leaves the pipeline alone; in the ladder it may settle the job's outcome.
JobMoves(k) ==
    /\ UNCHANGED <<mode, blocked, submitted, submitQ, taken, reorder, nextSeq, handed, completedQ, after>>
    /\ \/ UNCHANGED <<bpc, outcome>>
       \/ /\ bpc[k[1]] = "ladder"
          /\ \E o \in {"sealed", "crash", "abandoned"} :
                /\ outcome' = [outcome EXCEPT ![k] = o]
                /\ \/ bpc' = bpc /\ (o = "abandoned" => mode = "fast")
                   \/ mode = "deterministic" /\ bpc' = [bpc EXCEPT ![k[1]] = "sendErr"]

\* Every step of a job is such a move.
LEMMA JobFrame ==
    ASSUME TypeOK, NEW k \in Jobs, JobStep(k)
    PROVE  JobMoves(k)
<1>1. CASE DestroyMiscounted(k)
  BY <1>1 DEF DestroyMiscounted, JobMoves, pipe, batch
<1>2. CASE Acquire(k)
  BY <1>2 DEF Acquire, JobMoves, pipe, batch
<1>3. CASE Restore(k)
  BY <1>3 DEF Restore, JobMoves, pipe, batch
<1>4. CASE RestoreFails(k)
  BY <1>4 DEF RestoreFails, JobMoves, pipe, batch
<1>5. CASE Drive(k)
  BY <1>5 DEF Drive, JobMoves, pipe, batch
<1>6. CASE DestroyVm(k)
  BY <1>6 DEF DestroyVm, JobMoves, pipe, batch
<1>7. CASE DestroyAfterCrashFails(k)
  BY <1>7 DEF DestroyAfterCrashFails, JobMoves, pipe, batch
<1>8. CASE TimesOut(k)
  BY <1>8 DEF TimesOut, JobMoves, pipe, batch
<1>9. CASE Completed(k)
  BY <1>9, Zenon DEF Completed, Due, InLadder, JobMoves, pipe, batch
<1>10. CASE Retry(k)
  BY <1>10 DEF Retry, JobMoves, pipe, batch
<1>11. CASE GiveUp(k)
  BY <1>11 DEF GiveUp, Due, InLadder, JobMoves, pipe, TypeOK
<1>. QED
  BY <1>1, <1>2, <1>3, <1>4, <1>5, <1>6, <1>7, <1>8, <1>9, <1>10, <1>11 DEF JobStep
-----------------------------------------------------------------------------
(* Types.                                                                     *)

\* The pipeline's part of the types, and the rest.
TypePipe ==
    /\ mode \in {"fast", "deterministic"}
    /\ submitted \in Nat /\ submitQ \in Seq(Batches) /\ taken \in Batches \cup {0}
    /\ completedQ \in Seq(Batches \X {"send", "sendErr"}) /\ reorder \subseteq Batches
    /\ nextSeq \in Nat /\ handed \in Seq(Batches) /\ bpc \in [Batches -> BatchLabels]
TypeJobs ==
    /\ after \in [Batches -> {"pass", "ladder", "reap"}]
    /\ jpc \in [Jobs -> JobLabels] /\ res \in [Jobs -> Results]
    /\ tries \in [Jobs -> Nat] /\ attempts \in [Jobs -> Nat]

\* Giving a value to the jobs of a set keeps the type.
LEMMA AtType ==
    ASSUME NEW T, NEW f \in [Jobs -> T], NEW S, NEW v \in T
    PROVE  At(f, S, v) \in [Jobs -> T]
BY DEF At

\* A pipeline step keeps the pipeline's types.
LEMMA TypePipeStep ==
    ASSUME TypeOK, QueueInv, BeginSubmit \/ PipeStep
    PROVE  TypePipe'
<1>1. CASE BeginSubmit
  BY <1>1 DEF BeginSubmit, TypeOK, TypePipe, batch
<1>2. CASE Submit
  <2>1. submitted + 1 \in Batches
    BY <1>2, ExecAssumption DEF Submit, QueueInv, TypeOK, Batches
  <2>. QED
    BY <1>2, <2>1 DEF Submit, TypeOK, TypePipe, batch
<1>3. CASE ExecutorRecv
  <2>1. Head(submitQ) \in Batches /\ Tail(submitQ) \in Seq(Batches)
    BY <1>3 DEF ExecutorRecv, TypeOK
  <2>. QED
    BY <1>3, <2>1 DEF ExecutorRecv, TypeOK, TypePipe, batch
<1>4. CASE ExecutorSpawn
  BY <1>4 DEF ExecutorSpawn, TypeOK, TypePipe, BatchLabels
<1>5. CASE NextCompleted
  <2>1. CASE nextSeq \in reorder
    <3>1. /\ UNCHANGED <<mode, submitted, submitQ, taken, bpc, completedQ>> /\ nextSeq' = nextSeq + 1
          /\ handed' = Append(handed, nextSeq) /\ reorder' = reorder \ {nextSeq}
      BY <1>5, <2>1 DEF NextCompleted, batch
    <3>2. nextSeq \in Batches /\ Append(handed, nextSeq) \in Seq(Batches)
      BY <2>1 DEF TypeOK
    <3>. QED
      BY <3>1, <3>2 DEF TypeOK, TypePipe
  <2>2. CASE nextSeq \notin reorder
    <3>1. completedQ[1][1] \in Batches
      BY <1>5, <2>2 DEF NextCompleted, TypeOK
    <3>2. /\ UNCHANGED <<mode, submitted, submitQ, taken, bpc, nextSeq>> /\ completedQ' = <<>>
          /\ handed' \in {handed, Append(handed, completedQ[1][1])}
          /\ reorder' \in {reorder, reorder \cup {completedQ[1][1]}}
      BY <1>5, <2>2 DEF NextCompleted, batch
    <3>3. Append(handed, completedQ[1][1]) \in Seq(Batches) /\ reorder \cup {completedQ[1][1]} \subseteq Batches
      BY <3>1 DEF TypeOK
    <3>4. handed' \in Seq(Batches) /\ reorder' \subseteq Batches
      BY <3>2, <3>3, Zenon DEF TypeOK
    <3>5. completedQ' \in Seq(Batches \X {"send", "sendErr"})
      BY <3>2
    <3>. QED
      BY <3>2, <3>4, <3>5 DEF TypeOK, TypePipe
  <2>. QED
    BY <2>1, <2>2
<1>. QED
  BY <1>1, <1>2, <1>3, <1>4, <1>5 DEF PipeStep

\* A pipeline step leaves the jobs alone.
LEMMA PipeFrame ==
    ASSUME BeginSubmit \/ PipeStep
    PROVE  UNCHANGED <<mode, after, job>>
BY DEF BeginSubmit, PipeStep, Submit, ExecutorRecv, ExecutorSpawn, NextCompleted, batch, job

\* A step of a batch keeps the types of the jobs' state.
LEMMA TypeBatchStep ==
    ASSUME TypeOK, NEW b \in Batches, BatchStep(b)
    PROVE  TypeJobs'
<1>. USE DEF JobLabels, Results
<1>a. \A S : \A v \in JobLabels : At(jpc, S, v) \in [Jobs -> JobLabels]
  BY AtType, Zenon DEF TypeOK
<1>r. \A S : \A v \in Results : At(res, S, v) \in [Jobs -> Results]
  BY AtType, Zenon DEF TypeOK
<1>1. CASE TryFork(b)
  BY <1>1, <1>a, <1>r DEF TryFork, TypeOK, TypeJobs
<1>2. CASE RestoreParent(b)
  BY <1>2, <1>a, <1>r DEF RestoreParent, TypeOK, TypeJobs
<1>3. CASE ForkChildren(b)
  <2>1. jpc' \in [Jobs -> JobLabels] /\ tries' = tries
    BY <1>3, <1>a DEF ForkChildren, TypeOK
  <2>2. res' \in [Jobs -> Results]
    BY <1>3, <1>r DEF ForkChildren, TypeOK, Kinds
  <2>3. attempts' \in [Jobs -> Nat]
    BY <1>3 DEF ForkChildren, TypeOK
  <2>4. after' \in [Batches -> {"pass", "ladder", "reap"}]
    BY <1>3, Zenon DEF ForkChildren, TypeOK
  <2>. QED
    BY <2>1, <2>2, <2>3, <2>4 DEF TypeJobs, TypeOK
<1>4. CASE ForkedDone(b)
  BY <1>4 DEF ForkedDone, TypeOK, TypeJobs, job
<1>5. CASE DestroyParent(b)
  BY <1>5, <1>a, <1>r DEF DestroyParent, TypeOK, TypeJobs
<1>6. CASE FirstPassDone(b)
  BY <1>6 DEF FirstPassDone, TypeOK, TypeJobs, job
<1>7. CASE LadderDone(b)
  BY <1>7 DEF LadderDone, TypeOK, TypeJobs, job
<1>8. CASE SendCompleted(b)
  BY <1>8 DEF SendCompleted, TypeOK, TypeJobs, job
<1>9. CASE DestroySurplus(b)
  BY <1>9 DEF DestroySurplus, TypeOK, TypeJobs, batch, job
<1>. QED
  BY <1>1, <1>2, <1>3, <1>4, <1>5, <1>6, <1>7, <1>8, <1>9 DEF BatchStep

\* So does a step of a job.
LEMMA TypeJobStep ==
    ASSUME TypeOK, NEW k \in Jobs, JobStep(k)
    PROVE  TypeJobs'
<1>. USE DEF JobLabels, Results
<1>1. CASE DestroyMiscounted(k)
  BY <1>1 DEF DestroyMiscounted, TypeOK, TypeJobs, batch
<1>2. CASE Acquire(k)
  <2>1. UNCHANGED <<after, tries>> /\ attempts' \in [Jobs -> Nat]
    <3>1. attempts' = attempts \/ attempts' = [attempts EXCEPT ![k] = @ + 1]
      BY <1>2 DEF Acquire
    <3>2. attempts \in [Jobs -> Nat] /\ attempts[k] + 1 \in Nat
      BY DEF TypeOK
    <3>3. attempts' \in [Jobs -> Nat]
      BY <3>1, <3>2
    <3>. QED
      BY <1>2, <3>3 DEF Acquire, batch
  <2>2. jpc' \in [Jobs -> JobLabels] /\ res' \in [Jobs -> Results]
    BY <1>2, Zenon DEF Acquire, TypeOK
  <2>. QED
    BY <2>1, <2>2 DEF TypeOK, TypeJobs
<1>3. CASE Restore(k)
  BY <1>3 DEF Restore, TypeOK, TypeJobs, batch
<1>4. CASE RestoreFails(k)
  BY <1>4 DEF RestoreFails, TypeOK, TypeJobs, batch, Kinds
<1>5. CASE Drive(k)
  BY <1>5, Zenon DEF Drive, TypeOK, TypeJobs, batch, Kinds
<1>6. CASE DestroyVm(k)
  BY <1>6 DEF DestroyVm, TypeOK, TypeJobs, batch
<1>7. CASE DestroyAfterCrashFails(k)
  BY <1>7 DEF DestroyAfterCrashFails, TypeOK, TypeJobs, batch, Kinds
<1>8. CASE TimesOut(k)
  BY <1>8, Zenon DEF TimesOut, TypeOK, TypeJobs, batch
<1>9. CASE Completed(k)
  BY <1>9 DEF Completed, TypeOK, TypeJobs, batch
<1>10. CASE Retry(k)
  BY <1>10 DEF Retry, TypeOK, TypeJobs, batch
<1>11. CASE GiveUp(k)
  BY <1>11 DEF GiveUp, TypeOK, TypeJobs, batch
<1>. QED
  BY <1>1, <1>2, <1>3, <1>4, <1>5, <1>6, <1>7, <1>8, <1>9, <1>10, <1>11 DEF JobStep

\* Every step keeps the types.
LEMMA TypeStep ==
    ASSUME TypeOK, QueueInv, [Next]_vars
    PROVE  TypeOK'
<1>1. CASE BeginSubmit \/ PipeStep
  BY <1>1, TypePipeStep, PipeFrame DEF TypeOK, TypePipe, job
<1>2. ASSUME NEW b \in Batches, BatchStep(b)
      PROVE  TypeOK'
  <2>1. BatchMoves(b) /\ TypeJobs'
    BY <1>2, BatchFrame, TypeBatchStep
  <2>2. bpc' \in [Batches -> BatchLabels]
    BY <2>1 DEF BatchMoves, TypeOK, BatchLabels
  <2>3. completedQ' \in Seq(Batches \X {"send", "sendErr"})
    <3>1. CASE completedQ' = completedQ
      BY <3>1 DEF TypeOK
    <3>2. CASE completedQ' = <<<<b, bpc[b]>>>> /\ bpc[b] \in {"send", "sendErr"}
      BY <3>2
    <3>. QED
      BY <2>1, <3>1, <3>2 DEF BatchMoves
  <2>. QED
    BY <2>1, <2>2, <2>3 DEF BatchMoves, TypeOK, TypeJobs
<1>3. ASSUME NEW k \in Jobs, JobStep(k)
      PROVE  TypeOK'
  <2>1. JobMoves(k) /\ TypeJobs'
    BY <1>3, JobFrame, TypeJobStep
  <2>2. bpc' \in [Batches -> BatchLabels]
    BY <2>1, Zenon DEF JobMoves, TypeOK, BatchLabels
  <2>3. outcome' \in [Jobs -> Outcomes]
    BY <2>1, Zenon DEF JobMoves, TypeOK, Outcomes
  <2>. QED
    BY <2>1, <2>2, <2>3 DEF JobMoves, TypeOK, TypeJobs
<1>4. CASE UNCHANGED vars
  BY <1>4 DEF vars, pipe, batch, job, TypeOK
<1>. QED
  BY <1>1, <1>2, <1>3, <1>4 DEF Next, Finished
-----------------------------------------------------------------------------
(* A batch is spawned once.                                                   *)

\* What the queue depends on in the batches is only which are idle.
LEMMA QueueFrame ==
    ASSUME QueueInv, TypeOK, UNCHANGED <<blocked, submitted, submitQ, taken>>,
           \A b \in Batches : bpc[b] = "idle" => bpc'[b] = "idle"
    PROVE  QueueInv'
<1>1. \A i \in DOMAIN submitQ : submitQ[i] \in Batches
  BY DEF TypeOK
<1>. QED
  BY <1>1 DEF QueueInv, TypeOK

\* submit, the channel and the executor pass a batch on once.
LEMMA QueueStep ==
    ASSUME QueueInv, TypeOK, [Next]_vars
    PROVE  QueueInv'
<1>1. CASE BeginSubmit
  BY <1>1 DEF BeginSubmit, QueueInv, batch
<1>2. CASE Submit
  <2>1. /\ blocked' = FALSE /\ submitted' = submitted + 1 /\ submitQ' = Append(submitQ, submitted + 1)
        /\ taken' = taken /\ bpc' = bpc /\ submitted < N
    BY <1>2 DEF Submit, QueueInv, batch
  <2>2. submitted + 1 \in Batches /\ N \in Nat
    BY <2>1, ExecAssumption DEF TypeOK, Batches
  <2>3. bpc[submitted + 1] = "idle"
    BY <2>2 DEF QueueInv, TypeOK
  <2>4. /\ DOMAIN submitQ' = 1 .. Len(submitQ) + 1 /\ Len(submitQ) \in Nat /\ DOMAIN submitQ = 1 .. Len(submitQ)
        /\ \A i \in DOMAIN submitQ' : IF i = Len(submitQ) + 1 THEN submitQ'[i] = submitted + 1
                                      ELSE i \in DOMAIN submitQ /\ submitQ'[i] = submitQ[i]
    BY <2>1, <2>2 DEF TypeOK
  <2>5. \A i \in DOMAIN submitQ : submitQ[i] \in Nat /\ submitQ[i] <= submitted
    <3>1. \A i \in DOMAIN submitQ : submitQ[i] \in Batches
      BY DEF TypeOK
    <3>. QED
      BY <3>1 DEF QueueInv, Batches
  <2>6. \A i \in DOMAIN submitQ' : bpc'[submitQ'[i]] = "idle" /\ submitQ'[i] <= submitted'
    BY <2>1, <2>3, <2>4, <2>5 DEF QueueInv, TypeOK
  <2>7. \A i, j \in DOMAIN submitQ' : i < j => submitQ'[i] < submitQ'[j]
    BY <2>1, <2>4, <2>5 DEF QueueInv, TypeOK
  <2>8. taken' # 0 => /\ bpc'[taken'] = "idle" /\ taken' <= submitted'
                      /\ \A i \in DOMAIN submitQ' : taken' < submitQ'[i]
    BY <2>1, <2>4 DEF QueueInv, TypeOK, Batches
  <2>9. \A b \in Batches : b > submitted' => bpc'[b] = "idle"
    BY <2>1 DEF QueueInv, TypeOK, Batches
  <2>. QED
    BY <2>1, <2>6, <2>7, <2>8, <2>9 DEF QueueInv
<1>3. CASE ExecutorRecv
  <2>1. /\ UNCHANGED <<blocked, submitted, bpc>> /\ submitQ # <<>>
        /\ taken' = Head(submitQ) /\ submitQ' = Tail(submitQ)
    BY <1>3 DEF ExecutorRecv, batch
  <2>2. /\ taken' = submitQ[1] /\ 1 \in DOMAIN submitQ
        /\ \A i \in DOMAIN submitQ' : i + 1 \in DOMAIN submitQ /\ submitQ'[i] = submitQ[i + 1] /\ i \in Nat /\ i >= 1
    BY <2>1 DEF TypeOK
  <2>. QED
    BY <2>1, <2>2 DEF QueueInv, TypeOK
<1>4. CASE ExecutorSpawn
  <2>1. /\ UNCHANGED <<blocked, submitted, submitQ>> /\ taken' = 0 /\ taken # 0
        /\ bpc' = [bpc EXCEPT ![taken] = "fork"]
    BY <1>4 DEF ExecutorSpawn
  <2>2. \A b \in Batches : b # taken => bpc'[b] = bpc[b]
    BY <2>1 DEF TypeOK
  <2>3. \A i \in DOMAIN submitQ : submitQ[i] \in Batches /\ submitQ[i] # taken
    <3>1. \A i \in DOMAIN submitQ : submitQ[i] \in Batches
      BY DEF TypeOK
    <3>2. taken \in Nat /\ \A i \in DOMAIN submitQ : taken < submitQ[i]
      BY <2>1 DEF TypeOK, QueueInv, Batches
    <3>. QED
      BY <3>1, <3>2 DEF Batches
  <2>4. \A b \in Batches : b > submitted => b # taken
    BY <2>1 DEF TypeOK, QueueInv, Batches
  <2>. QED
    BY <2>1, <2>2, <2>3, <2>4 DEF QueueInv, TypeOK
<1>5. CASE NextCompleted
  BY <1>5, QueueFrame DEF NextCompleted, batch
<1>6. ASSUME NEW b \in Batches, BatchStep(b)
      PROVE  QueueInv'
  BY <1>6, BatchFrame, QueueFrame DEF BatchMoves, TypeOK
<1>7. ASSUME NEW k \in Jobs, JobStep(k)
      PROVE  QueueInv'
  BY <1>7, JobFrame, QueueFrame, JobBatch, Zenon DEF JobMoves, TypeOK
<1>8. CASE UNCHANGED vars
  BY <1>8, QueueFrame DEF vars, pipe, batch
<1>. QED
  BY <1>1, <1>2, <1>3, <1>4, <1>5, <1>6, <1>7, <1>8 DEF Next, PipeStep, Finished
-----------------------------------------------------------------------------
(* A batch is handed back once, in deterministic mode in sequence order.      *)

\* A batch that is over is never taken up again.
LEMMA OverStays ==
    ASSUME TypeOK, QueueInv, [Next]_vars, NEW b \in Batches, bpc[b] = "over"
    PROVE  bpc'[b] = "over"
<1>1. CASE BeginSubmit \/ PipeStep
  <2>1. bpc' = bpc \/ (taken \in Batches /\ bpc[taken] = "idle" /\ bpc' = [bpc EXCEPT ![taken] = "fork"])
    BY <1>1, Zenon DEF BeginSubmit, PipeStep, Submit, ExecutorRecv, ExecutorSpawn, NextCompleted, batch, QueueInv, TypeOK
  <2>. QED
    BY <2>1 DEF TypeOK
<1>2. ASSUME NEW c \in Batches, BatchStep(c)
      PROVE  bpc'[b] = "over"
  BY <1>2, BatchFrame DEF BatchMoves, TypeOK
<1>3. ASSUME NEW k \in Jobs, JobStep(k)
      PROVE  bpc'[b] = "over"
  BY <1>3, JobFrame, JobBatch, Zenon DEF JobMoves, TypeOK
<1>4. CASE UNCHANGED vars
  BY <1>4 DEF vars, batch
<1>. QED
  BY <1>1, <1>2, <1>3, <1>4 DEF Next, Finished

\* The elements of the result side are batches.
LEMMA ResultTypes ==
    ASSUME TypeOK
    PROVE  /\ \A i \in DOMAIN completedQ : completedQ[i][1] \in Batches /\ completedQ[i][2] \in {"send", "sendErr"}
           /\ \A j \in DOMAIN handed : handed[j] \in Batches
           /\ Len(handed) \in Nat /\ DOMAIN handed = 1 .. Len(handed)
           /\ Len(completedQ) \in Nat /\ DOMAIN completedQ = 1 .. Len(completedQ)
BY DEF TypeOK

\* A result side that does not change stays right when batches that are over stay over.
LEMMA ResultFrame ==
    ASSUME TypeOK, QueueInv, ResultInv, [Next]_vars, UNCHANGED <<mode, completedQ, reorder, nextSeq, handed>>
    PROVE  ResultInv'
<1>1. \A b \in Batches : bpc[b] = "over" => bpc'[b] = "over"
  BY OverStays, Zenon
<1>2. \A b \in reorder : b \in Batches
  BY DEF TypeOK
<1>. QED
  BY <1>1, <1>2, ResultTypes, Zenon DEF ResultInv

\* Appending a batch that has not been handed back.
LEMMA HandOn ==
    ASSUME TypeOK, NEW b \in Batches, handed' = Append(handed, b)
    PROVE  /\ DOMAIN handed' = 1 .. Len(handed) + 1 /\ Len(handed') = Len(handed) + 1
           /\ \A j \in DOMAIN handed' :
                 IF j = Len(handed) + 1 THEN handed'[j] = b ELSE j \in DOMAIN handed /\ handed'[j] = handed[j]
BY DEF TypeOK

\* next_completed takes a batch from one place of the result side and puts it into one other.
LEMMA ResultStep ==
    ASSUME TypeOK, QueueInv, ResultInv, [Next]_vars
    PROVE  ResultInv'
<1>1. CASE BeginSubmit \/ Submit \/ ExecutorRecv \/ ExecutorSpawn
  BY <1>1, ResultFrame DEF BeginSubmit, Submit, ExecutorRecv, ExecutorSpawn
<1>2. CASE NextCompleted
  <2>0. UNCHANGED <<mode, bpc>>
    BY <1>2 DEF NextCompleted, batch
  <2>1. CASE nextSeq \in reorder
    <3>1. /\ UNCHANGED completedQ /\ nextSeq' = nextSeq + 1
          /\ handed' = Append(handed, nextSeq) /\ reorder' = reorder \ {nextSeq}
      BY <1>2, <2>1 DEF NextCompleted
    <3>2. nextSeq \in Batches /\ bpc[nextSeq] = "over" /\ \A j \in DOMAIN handed : handed[j] # nextSeq
      BY <2>1 DEF TypeOK, ResultInv
    <3>3. \A i \in DOMAIN completedQ : completedQ[i][1] # nextSeq
      BY <2>1 DEF ResultInv
    <3>4. mode = "deterministic" => nextSeq' = Len(handed') + 1 /\ \A i \in DOMAIN handed' : handed'[i] = i
      BY <3>1, <3>2, HandOn, ResultTypes DEF ResultInv
    <3>5. \A i, j \in DOMAIN handed' : i # j => handed'[i] # handed'[j]
      BY <3>1, <3>2, HandOn DEF ResultInv
    <3>6. \A b \in Batches : b # nextSeq /\ (\A j \in DOMAIN handed : handed[j] # b)
                                => \A j \in DOMAIN handed' : handed'[j] # b
      BY <3>1, <3>2, HandOn
    <3>7. \A j \in DOMAIN handed' : bpc[handed'[j]] = "over"
      BY <3>1, <3>2, HandOn DEF ResultInv
    <3>8. \A b \in reorder' : b \in Batches /\ b # nextSeq /\ b \in reorder
      BY <3>1 DEF TypeOK
    <3>. QED
      BY <2>0, <3>1, <3>3, <3>4, <3>5, <3>6, <3>7, <3>8, ResultTypes DEF ResultInv
  <2>2. CASE nextSeq \notin reorder
    <3>1. PICK b : b = completedQ[1][1]
      OBVIOUS
    <3>2. completedQ # <<>> /\ completedQ' = <<>> /\ nextSeq' = nextSeq
      BY <1>2, <2>2 DEF NextCompleted
    <3>3. b \in Batches /\ bpc[b] = "over" /\ b \notin reorder /\ \A j \in DOMAIN handed : handed[j] # b
      BY <3>1, <3>2, ResultTypes DEF ResultInv, TypeOK
    <3>4. Len(completedQ') = 0 /\ DOMAIN completedQ' = {}
      BY <3>2
    <3>5. CASE mode = "fast"
      <4>1. handed' = Append(handed, b) /\ reorder' = reorder
        BY <1>2, <2>2, <3>1, <3>5 DEF NextCompleted
      <4>2. \A i, j \in DOMAIN handed' : i # j => handed'[i] # handed'[j]
        BY <3>3, <4>1, HandOn DEF ResultInv
      <4>3. \A c \in Batches : c # b /\ (\A j \in DOMAIN handed : handed[j] # c)
                                 => \A j \in DOMAIN handed' : handed'[j] # c
        BY <3>3, <4>1, HandOn
      <4>4. \A j \in DOMAIN handed' : bpc[handed'[j]] = "over"
        BY <3>3, <4>1, HandOn DEF ResultInv
      <4>5. \A c \in reorder : c \in Batches /\ c # b
        BY <3>3 DEF TypeOK
      <4>. QED
        BY <2>0, <3>4, <3>5, <4>1, <4>2, <4>3, <4>4, <4>5 DEF ResultInv
    <3>6. CASE mode # "fast"
      <4>1. handed' = handed /\ (reorder' = reorder \/ reorder' = reorder \cup {b})
        BY <1>2, <2>2, <3>1, <3>6 DEF NextCompleted
      <4>. QED
        BY <2>0, <3>2, <3>3, <3>4, <4>1 DEF ResultInv
    <3>. QED
      BY <3>5, <3>6
  <2>. QED
    BY <2>1, <2>2
<1>3. ASSUME NEW b \in Batches, BatchStep(b)
      PROVE  ResultInv'
  <2>1. BatchMoves(b)
    BY <1>3, BatchFrame
  <2>2. CASE completedQ' = completedQ
    BY <2>1, <2>2, ResultFrame DEF BatchMoves
  <2>3. CASE completedQ' # completedQ
    <3>1. /\ UNCHANGED <<mode, reorder, nextSeq, handed>> /\ completedQ' = <<<<b, bpc[b]>>>>
          /\ bpc[b] # "over" /\ bpc' = [bpc EXCEPT ![b] = "over"]
      BY <2>1, <2>3 DEF BatchMoves
    <3>2. b \notin reorder /\ \A j \in DOMAIN handed : handed[j] # b
      BY <3>1 DEF ResultInv
    <3>3. Len(completedQ') = 1 /\ DOMAIN completedQ' = {1} /\ completedQ'[1][1] = b
      BY <3>1
    <3>4. bpc'[b] = "over" /\ \A c \in Batches : bpc[c] = "over" => bpc'[c] = "over"
      BY <3>1 DEF TypeOK
    <3>5. \A c \in reorder : c \in Batches
      BY DEF TypeOK
    <3>. QED
      BY <3>1, <3>2, <3>3, <3>4, <3>5, ResultTypes DEF ResultInv
  <2>. QED
    BY <2>2, <2>3
<1>4. ASSUME NEW k \in Jobs, JobStep(k)
      PROVE  ResultInv'
  BY <1>4, JobFrame, ResultFrame DEF JobMoves
<1>5. CASE UNCHANGED vars
  BY <1>5, ResultFrame DEF vars, pipe
<1>. QED
  BY <1>1, <1>2, <1>3, <1>4, <1>5 DEF Next, PipeStep, Finished
-----------------------------------------------------------------------------
(* The outcomes of a batch that is handed back.                               *)

\* Outcomes change in the ladder only: those of a batch that has left it stand.
LEMMA GoodStays ==
    ASSUME TypeOK, [Next]_vars, NEW b \in Batches, bpc[b] # "ladder", Good(b)
    PROVE  Good(b)'
<1>1. mode' = mode /\ \A k \in JobsOf(b) : outcome'[k] = outcome[k]
  <2>1. CASE BeginSubmit \/ PipeStep
    BY <2>1, PipeFrame DEF job
  <2>2. ASSUME NEW c \in Batches, BatchStep(c)
        PROVE  mode' = mode /\ outcome' = outcome
    BY <2>2, BatchFrame DEF BatchMoves
  <2>3. ASSUME NEW k \in Jobs, JobStep(k)
        PROVE  mode' = mode /\ \A i \in JobsOf(b) : outcome'[i] = outcome[i]
    <3>1. JobMoves(k)
      BY <2>3, JobFrame
    <3>2. CASE k[1] = b
      BY <3>1, <3>2 DEF JobMoves
    <3>3. CASE k[1] # b
      <4>1. \A i \in JobsOf(b) : i # k /\ i \in Jobs
        BY <3>3, JobBatch
      <4>. QED
        BY <3>1, <4>1 DEF JobMoves, TypeOK
    <3>. QED
      BY <3>2, <3>3
  <2>4. CASE UNCHANGED vars
    BY <2>4 DEF vars, job
  <2>. QED
    BY <2>1, <2>2, <2>3, <2>4 DEF Next, Finished
<1>. QED
  BY <1>1 DEF Good, JobsOf

\* All jobs of the ladder settled, and none abandoned in deterministic mode.
LEMMA LadderGood ==
    ASSUME TypeOK, OutcomeInv, NEW b \in Batches, bpc[b] = "ladder",
           \A k \in JobsOf(b) : outcome[k] # "none"
    PROVE  Good(b)
<1>1. \A k \in JobsOf(b) : outcome[k] \in {"sealed", "crash", "abandoned"}
  BY JobBatch DEF TypeOK, Outcomes
<1>2. mode = "deterministic" => \A k \in JobsOf(b) : outcome[k] # "abandoned"
  BY JobBatch DEF OutcomeInv
<1>. QED
  BY <1>1, <1>2 DEF Good, TypeOK

\* The conjuncts of OutcomeInv about the result side.
ResultsGood ==
    /\ \A i \in DOMAIN completedQ :
          IF completedQ[i][2] = "send" THEN completedQ[i][1] \in GoodBatches ELSE mode = "deterministic"
    /\ reorder \subseteq GoodBatches
    /\ \A j \in DOMAIN handed : handed[j] \in GoodBatches

\* Only batches with all their outcomes get to the result side, or failed ones in deterministic mode.
LEMMA ResultsGoodStep ==
    ASSUME TypeOK, QueueInv, ResultInv, OutcomeInv, [Next]_vars
    PROVE  ResultsGood'
<1>0. ResultsGood
  BY DEF OutcomeInv, ResultsGood
<1>1. \A b \in Batches : bpc[b] \in {"send", "over"} /\ b \in GoodBatches => b \in GoodBatches'
  BY GoodStays DEF GoodBatches
<1>2. /\ \A b \in reorder : b \in Batches /\ bpc[b] = "over"
      /\ \A j \in DOMAIN handed : handed[j] \in Batches /\ bpc[handed[j]] = "over"
      /\ \A i \in DOMAIN completedQ : completedQ[i][1] \in Batches /\ bpc[completedQ[i][1]] = "over"
  BY ResultTypes DEF ResultInv, TypeOK
<1>3. ASSUME UNCHANGED <<mode, completedQ, reorder, handed>>
      PROVE  ResultsGood'
  BY <1>0, <1>1, <1>2, <1>3 DEF ResultsGood
<1>4. CASE BeginSubmit \/ Submit \/ ExecutorRecv \/ ExecutorSpawn
  BY <1>3, <1>4 DEF BeginSubmit, Submit, ExecutorRecv, ExecutorSpawn
<1>5. CASE NextCompleted
  <2>1. CASE nextSeq \in reorder
    <3>1. /\ UNCHANGED <<mode, completedQ>>
          /\ handed' = Append(handed, nextSeq) /\ reorder' = reorder \ {nextSeq}
      BY <1>5, <2>1 DEF NextCompleted
    <3>2. nextSeq \in Batches /\ nextSeq \in GoodBatches'
      BY <1>0, <1>1, <1>2, <2>1 DEF ResultsGood
    <3>3. \A j \in DOMAIN handed' : handed'[j] \in GoodBatches'
      BY <1>0, <1>1, <1>2, <3>1, <3>2, HandOn DEF ResultsGood
    <3>4. \A i \in DOMAIN completedQ :
              IF completedQ[i][2] = "send" THEN completedQ[i][1] \in GoodBatches' ELSE mode = "deterministic"
      BY <1>0, <1>1, <1>2 DEF ResultsGood
    <3>5. \A b \in reorder' : b \in GoodBatches'
      BY <1>0, <1>1, <1>2, <3>1 DEF ResultsGood
    <3>. QED
      BY <3>1, <3>3, <3>4, <3>5 DEF ResultsGood
  <2>2. CASE nextSeq \notin reorder
    <3>1. PICK b : b = completedQ[1][1]
      OBVIOUS
    <3>2. completedQ # <<>> /\ completedQ' = <<>> /\ mode' = mode /\ 1 \in DOMAIN completedQ
      BY <1>5, <2>2, ResultTypes DEF NextCompleted, TypeOK
    <3>3. b \in Batches /\ (completedQ[1][2] = "send" => b \in GoodBatches')
      BY <1>0, <1>1, <1>2, <3>1, <3>2 DEF ResultsGood
    <3>4. DOMAIN completedQ' = {}
      BY <3>2
    <3>5. \A c \in reorder : c \in GoodBatches'
      BY <1>0, <1>1, <1>2 DEF ResultsGood
    <3>6. CASE mode = "fast"
      <4>1. handed' = Append(handed, b) /\ reorder' = reorder
        BY <1>5, <2>2, <3>1, <3>6 DEF NextCompleted
      <4>2. b \in GoodBatches'
        BY <1>0, <3>2, <3>3, <3>6, ResultTypes DEF ResultsGood
      <4>3. \A j \in DOMAIN handed' : handed'[j] \in GoodBatches'
        BY <1>0, <1>1, <1>2, <3>3, <4>1, <4>2, HandOn DEF ResultsGood
      <4>. QED
        BY <3>4, <3>5, <4>1, <4>3 DEF ResultsGood
    <3>7. CASE mode # "fast"
      <4>1. /\ handed' = handed
            /\ reorder' = IF completedQ[1][2] = "sendErr" THEN reorder ELSE reorder \cup {b}
        BY <1>5, <2>2, <3>1, <3>7 DEF NextCompleted
      <4>2. \A c \in reorder' : c \in GoodBatches'
        BY <3>2, <3>3, <3>5, <4>1, ResultTypes
      <4>3. \A j \in DOMAIN handed : handed[j] \in GoodBatches'
        BY <1>0, <1>1, <1>2 DEF ResultsGood
      <4>. QED
        BY <3>4, <4>1, <4>2, <4>3 DEF ResultsGood
    <3>. QED
      BY <3>6, <3>7
  <2>. QED
    BY <2>1, <2>2
<1>6. ASSUME NEW b \in Batches, BatchStep(b)
      PROVE  ResultsGood'
  <2>1. BatchMoves(b)
    BY <1>6, BatchFrame
  <2>2. CASE completedQ' = completedQ
    BY <1>3, <2>1, <2>2 DEF BatchMoves
  <2>3. CASE completedQ' # completedQ
    <3>1. /\ UNCHANGED <<mode, reorder, handed>> /\ completedQ' = <<<<b, bpc[b]>>>>
          /\ bpc[b] \in {"send", "sendErr"}
      BY <2>1, <2>3 DEF BatchMoves
    <3>2. IF bpc[b] = "send" THEN b \in GoodBatches' ELSE mode = "deterministic"
      BY <1>1, <3>1 DEF OutcomeInv
    <3>3. DOMAIN completedQ' = {1} /\ completedQ'[1][1] = b /\ completedQ'[1][2] = bpc[b]
      BY <3>1
    <3>4. (\A c \in reorder : c \in GoodBatches') /\ \A j \in DOMAIN handed : handed[j] \in GoodBatches'
      BY <1>0, <1>1, <1>2 DEF ResultsGood
    <3>. QED
      BY <3>1, <3>2, <3>3, <3>4 DEF ResultsGood
  <2>. QED
    BY <2>2, <2>3
<1>7. ASSUME NEW k \in Jobs, JobStep(k)
      PROVE  ResultsGood'
  BY <1>3, <1>7, JobFrame DEF JobMoves
<1>8. CASE UNCHANGED vars
  BY <1>3, <1>8 DEF vars, pipe
<1>. QED
  BY <1>4, <1>5, <1>6, <1>7, <1>8 DEF Next, PipeStep, Finished

\* A batch is sent with its outcomes, and fails in deterministic mode only.
LEMMA OutcomeStep ==
    ASSUME TypeOK, QueueInv, ResultInv, OutcomeInv, [Next]_vars
    PROVE  OutcomeInv'
<1>. DEFINE Sent == /\ \A b \in Batches : bpc[b] = "send" => b \in GoodBatches
                    /\ \A b \in Batches : bpc[b] = "sendErr" => mode = "deterministic"
            Abandoned == mode = "deterministic" =>
                            \A k \in Jobs : outcome[k] = "abandoned" => bpc[k[1]] \in {"sendErr", "over"}
<1>0. Sent /\ Abandoned
  BY DEF OutcomeInv
<1>1. \A b \in Batches : bpc[b] \in {"send", "over"} /\ b \in GoodBatches => b \in GoodBatches'
  BY GoodStays DEF GoodBatches
<1>2. Sent' /\ Abandoned'
  <2>1. CASE BeginSubmit \/ PipeStep
    <3>1. UNCHANGED <<mode, outcome>>
      BY <2>1, PipeFrame DEF job
    <3>2. bpc' = bpc \/ (taken \in Batches /\ bpc[taken] = "idle" /\ bpc' = [bpc EXCEPT ![taken] = "fork"])
      BY <2>1 DEF BeginSubmit, PipeStep, Submit, ExecutorRecv, ExecutorSpawn, NextCompleted, batch, QueueInv, TypeOK
    <3>3. \A b \in Batches : bpc'[b] = bpc[b] \/ (bpc[b] = "idle" /\ bpc'[b] = "fork")
      BY <3>2 DEF TypeOK
    <3>. QED
      BY <1>0, <1>1, <3>1, <3>3, JobBatch
  <2>2. ASSUME NEW b \in Batches, BatchStep(b)
        PROVE  Sent' /\ Abandoned'
    <3>1. BatchMoves(b)
      BY <2>2, BatchFrame
    <3>2. PICK l \in BatchLabels \ {"idle", "sendErr"} :
              /\ bpc' = [bpc EXCEPT ![b] = l]
              /\ l = "send" => bpc[b] = "ladder" /\ \A k \in JobsOf(b) : outcome[k] # "none"
              /\ l = "over" => bpc[b] \in {"send", "sendErr"}
      BY <3>1, Zenon DEF BatchMoves
    <3>3. UNCHANGED <<mode, outcome>> /\ bpc[b] # "over"
      BY <3>1 DEF BatchMoves
    <3>4. bpc'[b] = l /\ \A c \in Batches : c # b => bpc'[c] = bpc[c]
      BY <3>2 DEF TypeOK
    <3>5. l = "send" => b \in GoodBatches'
      <4>1. l = "send" => Good(b)
        BY <3>2, LadderGood
      <4>2. Good(b) => Good(b)'
        BY <3>3 DEF Good, JobsOf
      <4>. QED
        BY <4>1, <4>2 DEF GoodBatches
    <3>6. Sent'
      BY <1>0, <1>1, <3>3, <3>4, <3>5
    <3>7. bpc[b] = "sendErr" => l = "over"
      BY <2>2, <3>2, <3>4, Zenon DEF BatchStep, TryFork, RestoreParent, ForkChildren, ForkedDone, DestroyParent,
                              DestroySurplus, FirstPassDone, LadderDone, SendCompleted, TypeOK, batch
    <3>8. Abandoned'
      BY <1>0, <3>3, <3>4, <3>7, JobBatch
    <3>. QED
      BY <3>6, <3>8
  <2>3. ASSUME NEW k \in Jobs, JobStep(k)
        PROVE  Sent' /\ Abandoned'
    <3>1. JobMoves(k) /\ k[1] \in Batches
      BY <2>3, JobFrame, JobBatch
    <3>2. \A b \in Batches : \/ bpc'[b] = bpc[b]
                             \/ b = k[1] /\ bpc[b] = "ladder" /\ bpc'[b] = "sendErr" /\ mode = "deterministic"
      BY <3>1 DEF JobMoves, TypeOK
    <3>3. mode' = mode
      BY <3>1 DEF JobMoves
    <3>4. Sent'
      BY <1>0, <1>1, <3>2, <3>3
    <3>5. \A i \in Jobs : \/ outcome'[i] = outcome[i]
                          \/ i = k /\ (outcome'[k] = "abandoned" => mode = "fast" \/ bpc'[k[1]] = "sendErr")
      BY <3>1 DEF JobMoves, TypeOK
    <3>6. Abandoned'
      BY <1>0, <3>2, <3>3, <3>5, JobBatch
    <3>. QED
      BY <3>4, <3>6
  <2>4. CASE UNCHANGED vars
    <3>1. UNCHANGED <<mode, outcome, bpc>>
      BY <2>4 DEF vars, batch, job
    <3>. QED
      BY <1>0, <1>1, <3>1
  <2>. QED
    BY <2>1, <2>2, <2>3, <2>4 DEF Next, Finished
<1>. QED
  BY <1>2, ResultsGoodStep DEF OutcomeInv, ResultsGood
-----------------------------------------------------------------------------
(* Attempts.                                                                  *)

\* A job whose own state and whose batch's place do not change.
LEMMA AttemptsFrame ==
    ASSUME NEW k \in Jobs, AttemptsOf(k), Fresh(k[1])' => Fresh(k[1]),
           jpc'[k] = jpc[k], tries'[k] = tries[k], attempts'[k] = attempts[k]
    PROVE  AttemptsOf(k)'
BY DEF AttemptsOf

\* A job that has not been retried, and has begun at most its first attempt.
LEMMA AttemptsFirst ==
    ASSUME NEW k \in Jobs, tries'[k] = 0,
           attempts'[k] = 0 \/ (attempts'[k] = 1 /\ jpc'[k] # "acquire" /\ ~Fresh(k[1])'),
           Fresh(k[1])' => jpc'[k] = "idle"
    PROVE  AttemptsOf(k)'
<1>1. RetryMax \in Nat
  BY ExecAssumption
<1>2. Fresh(k[1])' => attempts'[k] = 0
  OBVIOUS
<1>3. attempts'[k] <= tries'[k] + 1 /\ tries'[k] <= RetryMax + 1
  BY <1>1
<1>4. jpc'[k] = "acquire" => attempts'[k] <= tries'[k]
  OBVIOUS
<1>. QED
  BY <1>2, <1>3, <1>4 DEF AttemptsOf

\* A job that has begun: its batch is past the fork.
LEMMA AttemptsBegun ==
    ASSUME NEW k \in Jobs, ~Fresh(k[1])', attempts'[k] <= tries'[k] + 1, tries'[k] <= RetryMax + 1,
           jpc'[k] = "acquire" => attempts'[k] <= tries'[k]
    PROVE  AttemptsOf(k)'
BY DEF AttemptsOf

\* A step of a batch: a fork or the first pass is the first attempt of its jobs.
LEMMA AttemptsBatchStep ==
    ASSUME TypeOK, AttemptInv, NEW b \in Batches, BatchStep(b), NEW k \in Jobs
    PROVE  AttemptsOf(k)'
<1>0. k[1] \in Batches /\ (k \in JobsOf(b) <=> k[1] = b)
  BY DEF Jobs, JobsOf
<1>1. AttemptsOf(k) /\ tries[k] \in Nat /\ attempts[k] \in Nat /\ RetryMax \in Nat
  BY ExecAssumption DEF AttemptInv, TypeOK
<1>2. CASE TryFork(b)
  <2>1. UNCHANGED <<after, tries, attempts>> /\ bpc[b] = "fork"
    BY <1>2 DEF TryFork
  <2>2. CASE k[1] # b
    <3>1. jpc'[k] = jpc[k] /\ bpc'[k[1]] = bpc[k[1]]
      BY <1>0, <1>2, <2>2 DEF TryFork, At, TypeOK
    <3>. QED
      BY <1>1, <2>1, <3>1, AttemptsFrame DEF Fresh
  <2>3. CASE k[1] = b
    <3>1. tries[k] = 0 /\ attempts[k] = 0 /\ jpc[k] = "idle"
      BY <1>1, <2>1, <2>3 DEF AttemptsOf, Fresh
    <3>2. \/ bpc'[b] \in {"pass", "ladder"}
          \/ bpc'[b] = "parent" /\ jpc'[k] = jpc[k]
      BY <1>2 DEF TryFork, TypeOK
    <3>3. Fresh(k[1])' => jpc'[k] = "idle"
      BY <2>3, <3>1, <3>2 DEF Fresh
    <3>4. tries'[k] = 0 /\ attempts'[k] = 0
      BY <2>1, <3>1
    <3>. QED
      BY <3>3, <3>4, AttemptsFirst
  <2>. QED
    BY <2>2, <2>3
<1>3. CASE RestoreParent(b)
  <2>1. UNCHANGED <<after, tries, attempts>> /\ bpc[b] = "parent"
    BY <1>3 DEF RestoreParent
  <2>2. CASE k[1] # b
    <3>1. jpc'[k] = jpc[k] /\ bpc'[k[1]] = bpc[k[1]]
      BY <1>0, <1>3, <2>2 DEF RestoreParent, At, TypeOK
    <3>. QED
      BY <1>1, <2>1, <3>1, AttemptsFrame, Zenon DEF Fresh
  <2>3. CASE k[1] = b
    <3>1. tries[k] = 0 /\ attempts[k] = 0 /\ jpc[k] = "idle"
      BY <1>1, <2>1, <2>3, Zenon DEF AttemptsOf, Fresh
    <3>2. bpc'[b] = "pass" \/ (bpc'[b] = "forking" /\ jpc'[k] = jpc[k])
      BY <1>3 DEF RestoreParent, TypeOK
    <3>3. Fresh(k[1])' => jpc'[k] = "idle"
      BY <2>3, <3>1, <3>2 DEF Fresh
    <3>4. tries'[k] = 0 /\ attempts'[k] = 0
      BY <2>1, <3>1
    <3>. QED
      BY <3>3, <3>4, AttemptsFirst
  <2>. QED
    BY <2>2, <2>3
<1>4. CASE ForkChildren(b)
  <2>1. tries' = tries /\ bpc[b] = "forking"
    BY <1>4 DEF ForkChildren
  <2>2. CASE k[1] # b
    <3>1. bpc'[k[1]] = bpc[k[1]] /\ after'[k[1]] = after[k[1]] /\ attempts'[k] = attempts[k]
      BY <1>0, <1>4, <2>2 DEF ForkChildren, TypeOK
    <3>2. jpc'[k] = jpc[k]
      BY <1>0, <1>4, <2>2 DEF ForkChildren, At, TypeOK
    <3>. QED
      BY <1>1, <2>1, <3>1, <3>2, AttemptsFrame DEF Fresh
  <2>3. CASE k[1] = b
    <3>1. tries[k] = 0 /\ attempts[k] = 0 /\ jpc[k] = "idle"
      BY <1>1, <2>1, <2>3 DEF AttemptsOf, Fresh
    <3>2. \/ bpc'[b] = "children" /\ jpc'[k] = "drive" /\ attempts'[k] = 1
          \/ bpc'[b] = "unfork" /\ jpc'[k] = jpc[k] /\ attempts'[k] = 0
          \/ /\ bpc'[b] = "unfork" /\ after'[b] = "ladder"
             /\ jpc'[k] \in {jpc[k], "miscounted"} /\ attempts'[k] = 0
      BY <1>0, <1>4, <2>3, <3>1 DEF ForkChildren, At, TypeOK
    <3>3. Fresh(k[1])' => bpc'[b] = "unfork" /\ after'[b] = "pass"
      BY <2>3, <3>2 DEF Fresh
    <3>4. Fresh(k[1])' => jpc'[k] = "idle"
      BY <3>1, <3>2, <3>3, Zenon
    <3>5. attempts'[k] = 0 \/ (attempts'[k] = 1 /\ jpc'[k] # "acquire" /\ ~Fresh(k[1])')
      BY <3>2, <3>3
    <3>6. tries'[k] = 0
      BY <2>1, <3>1
    <3>. QED
      BY <3>4, <3>5, <3>6, AttemptsFirst
  <2>. QED
    BY <2>2, <2>3
<1>5. CASE DestroyParent(b)
  <2>1. UNCHANGED <<after, tries, attempts>> /\ bpc[b] = "unfork"
    BY <1>5 DEF DestroyParent
  <2>2. CASE k[1] # b
    <3>1. jpc'[k] = jpc[k] /\ bpc'[k[1]] = bpc[k[1]]
      BY <1>0, <1>5, <2>2 DEF DestroyParent, At, TypeOK
    <3>. QED
      BY <1>1, <2>1, <3>1, AttemptsFrame DEF Fresh
  <2>3. CASE k[1] = b
    <3>1. bpc'[b] \in {"pass", "ladder"} /\ (after[b] = "pass" \/ jpc'[k] = "done")
      BY <1>0, <1>5, <2>3 DEF DestroyParent, At, TypeOK
    <3>2. after[b] = "pass" => tries[k] = 0 /\ attempts[k] = 0
      BY <1>1, <2>1, <2>3 DEF AttemptsOf, Fresh
    <3>3. ~Fresh(k[1])'
      BY <2>3, <3>1 DEF Fresh
    <3>4. attempts[k] <= tries[k] + 1 /\ tries[k] <= RetryMax + 1
      BY <1>1 DEF AttemptsOf
    <3>5. jpc'[k] = "acquire" => attempts[k] <= tries[k]
      BY <3>1, <3>2
    <3>6. tries'[k] = tries[k] /\ attempts'[k] = attempts[k]
      BY <2>1
    <3>. QED
      BY <3>3, <3>4, <3>5, <3>6, AttemptsBegun
  <2>. QED
    BY <2>2, <2>3
<1>6. CASE ForkedDone(b) \/ FirstPassDone(b) \/ LadderDone(b) \/ SendCompleted(b)
  <2>1. UNCHANGED <<jpc, tries, attempts>>
    BY <1>6 DEF ForkedDone, FirstPassDone, LadderDone, SendCompleted, job
  <2>2. \/ bpc' = [bpc EXCEPT ![b] = "unfork"] /\ after' = [after EXCEPT ![b] = "reap"]
        \/ after' = after /\ \E l \in {"ladder", "send", "over"} : bpc' = [bpc EXCEPT ![b] = l]
    BY <1>6 DEF ForkedDone, FirstPassDone, LadderDone, SendCompleted
  <2>3. Fresh(k[1])' => Fresh(k[1])
    BY <1>0, <2>2 DEF Fresh, TypeOK
  <2>. QED
    BY <1>1, <2>1, <2>3, AttemptsFrame
<1>7. CASE DestroySurplus(b)
  <2>1. UNCHANGED <<bpc, after, jpc, tries, attempts>>
    BY <1>7 DEF DestroySurplus, batch, job
  <2>. QED
    BY <1>1, <2>1, AttemptsFrame DEF Fresh
<1>. QED
  BY <1>2, <1>3, <1>4, <1>5, <1>6, <1>7 DEF BatchStep

\* A step of a job: an attempt is counted when the permit is acquired, a retry when it is begun.
LEMMA AttemptsJobStep ==
    ASSUME TypeOK, AttemptInv, NEW i \in Jobs, JobStep(i), NEW k \in Jobs
    PROVE  AttemptsOf(k)'
<1>0. k[1] \in Batches /\ i[1] \in Batches
  BY JobBatch
<1>1. AttemptsOf(k) /\ tries[k] \in Nat /\ attempts[k] \in Nat /\ RetryMax \in Nat
  BY ExecAssumption DEF AttemptInv, TypeOK
<1>2. Fresh(k[1])' => Fresh(k[1])
  <2>1. JobMoves(i)
    BY JobFrame
  <2>. QED
    BY <1>0, <2>1 DEF JobMoves, Fresh, TypeOK
<1>3. CASE Acquire(i)
  <2>1. tries' = tries /\ jpc[i] = "acquire"
    BY <1>3, Zenon DEF Acquire
  <2>2. CASE k # i
    <3>1. jpc'[k] = jpc[k] /\ attempts'[k] = attempts[k]
      BY <1>3, <2>2 DEF Acquire, TypeOK
    <3>. QED
      BY <1>1, <1>2, <2>1, <3>1, AttemptsFrame
  <2>3. CASE k = i
    <3>1. \/ jpc'[k] = "done" /\ attempts'[k] = attempts[k]
          \/ jpc'[k] = "restore" /\ attempts'[k] = attempts[k] + 1
      BY <1>3, <2>3 DEF Acquire, TypeOK
    <3>2. ~Fresh(k[1]) /\ attempts[k] <= tries[k]
      BY <1>1, <2>1, <2>3 DEF AttemptsOf
    <3>3. tries[k] <= RetryMax + 1
      BY <1>1 DEF AttemptsOf
    <3>. QED
      BY <1>1, <1>2, <2>1, <3>1, <3>2, <3>3, AttemptsBegun
  <2>. QED
    BY <2>2, <2>3
<1>4. CASE Retry(i)
  <2>1. attempts' = attempts /\ jpc[i] = "done"
    BY <1>4, Zenon DEF Retry, Due
  <2>2. CASE k # i
    <3>1. jpc'[k] = jpc[k] /\ tries'[k] = tries[k]
      BY <1>4, <2>2 DEF Retry, TypeOK
    <3>. QED
      BY <1>1, <1>2, <2>1, <3>1, AttemptsFrame
  <2>3. CASE k = i
    <3>1. jpc'[k] = "acquire" /\ tries'[k] = tries[k] + 1
      BY <1>4, <2>3 DEF Retry, TypeOK
    <3>2. tries[k] <= RetryMax
      <4>1. ~Exhausted(k)
        BY <1>4, <2>3 DEF Retry
      <4>2. ~(tries[k] > 0) \/ ~(tries[k] > RetryMax)
        BY <4>1, Zenon DEF Exhausted
      <4>. QED
        BY <1>1, <4>2
    <3>3. ~Fresh(k[1]) /\ attempts[k] <= tries[k] + 1
      BY <1>1, <2>1, <2>3 DEF AttemptsOf
    <3>4. attempts'[k] <= tries'[k] /\ tries'[k] <= RetryMax + 1
      BY <1>1, <2>1, <3>1, <3>2, <3>3
    <3>5. attempts'[k] <= tries'[k] + 1
      BY <1>1, <2>1, <3>1, <3>4
    <3>. QED
      BY <1>2, <3>3, <3>4, <3>5, AttemptsBegun
  <2>. QED
    BY <2>2, <2>3
<1>5. ASSUME UNCHANGED <<tries, attempts>>, jpc[i] # "idle",
             \E l \in JobLabels \ {"idle", "acquire"} : jpc' = jpc \/ jpc' = [jpc EXCEPT ![i] = l]
      PROVE  AttemptsOf(k)'
  <2>1. CASE jpc'[k] = jpc[k]
    BY <1>1, <1>2, <1>5, <2>1, AttemptsFrame
  <2>2. CASE jpc'[k] # jpc[k]
    <3>1. k = i /\ jpc'[k] # "acquire"
      BY <1>5, <2>2 DEF TypeOK
    <3>2. ~Fresh(k[1])
      BY <1>1, <1>5, <3>1 DEF AttemptsOf
    <3>3. attempts[k] <= tries[k] + 1 /\ tries[k] <= RetryMax + 1
      BY <1>1 DEF AttemptsOf
    <3>. QED
      BY <1>2, <1>5, <3>1, <3>2, <3>3, AttemptsBegun
  <2>. QED
    BY <2>1, <2>2
<1>6. CASE DestroyMiscounted(i) \/ Restore(i) \/ RestoreFails(i) \/ Drive(i) \/ DestroyVm(i)
  BY <1>5, <1>6 DEF DestroyMiscounted, Restore, RestoreFails, Drive, DestroyVm, JobLabels
<1>7. CASE DestroyAfterCrashFails(i) \/ TimesOut(i) \/ Completed(i) \/ GiveUp(i)
  BY <1>5, <1>7, Zenon DEF DestroyAfterCrashFails, TimesOut, Completed, GiveUp, Due, JobLabels
<1>. QED
  BY <1>3, <1>4, <1>6, <1>7 DEF JobStep

\* Every step keeps the count of attempts.
LEMMA AttemptStep ==
    ASSUME TypeOK, QueueInv, AttemptInv, [Next]_vars
    PROVE  AttemptInv'
<1>1. CASE BeginSubmit \/ PipeStep
  <2>1. UNCHANGED <<after, jpc, tries, attempts>>
    BY <1>1, PipeFrame DEF job
  <2>2. bpc' = bpc \/ (taken \in Batches /\ bpc[taken] = "idle" /\ bpc' = [bpc EXCEPT ![taken] = "fork"])
    BY <1>1, Zenon DEF BeginSubmit, PipeStep, Submit, ExecutorRecv, ExecutorSpawn, NextCompleted, batch, QueueInv, TypeOK
  <2>3. \A b \in Batches : Fresh(b)' => Fresh(b)
    BY <2>1, <2>2 DEF Fresh, TypeOK
  <2>. QED
    BY <2>1, <2>3, AttemptsFrame, JobBatch DEF AttemptInv
<1>2. ASSUME NEW b \in Batches, BatchStep(b)
      PROVE  AttemptInv'
  BY <1>2, AttemptsBatchStep DEF AttemptInv, Jobs, Batches
<1>3. ASSUME NEW i \in Jobs, JobStep(i)
      PROVE  AttemptInv'
  BY <1>3, AttemptsJobStep DEF AttemptInv, Jobs, Batches
<1>4. CASE UNCHANGED vars
  BY <1>4, Zenon DEF vars, batch, job, AttemptInv, AttemptsOf, Fresh
<1>. QED
  BY <1>1, <1>2, <1>3, <1>4 DEF Next, Finished
-----------------------------------------------------------------------------
(* The theorems.                                                              *)

\* The pipeline starts empty, with every batch idle.
LEMMA InitInv == Init => IInv
<1>. SUFFICES ASSUME Init
              PROVE  IInv
  OBVIOUS
<1>1. TypeOK
  BY DEF Init, TypeOK, BatchLabels, JobLabels, Results, Outcomes
<1>2. QueueInv
  BY DEF Init, QueueInv
<1>3. ResultInv
  BY DEF Init, ResultInv
<1>4. OutcomeInv
  BY JobBatch DEF Init, OutcomeInv
<1>5. AttemptInv
  BY ExecAssumption, JobBatch DEF Init, AttemptInv, AttemptsOf, Fresh
<1>. QED
  BY <1>1, <1>2, <1>3, <1>4, <1>5 DEF IInv

\* The inductive invariant of the execute stage: a batch is in one place between submit and
\* next_completed, leaves the ladder with its outcomes settled, and its jobs' attempts are counted.
THEOREM BatchInvariance == Spec => []IInv
<1>1. IInv /\ [Next]_vars => IInv'
  BY TypeStep, QueueStep, ResultStep, OutcomeStep, AttemptStep DEF IInv
<1>. QED
  BY InitInv, <1>1, PTL DEF Spec

\* next_completed returns a batch once, in deterministic mode in sequence order, with all its outcomes:
\* for any number of batches, jobs, slots, batches in flight, retries and faults.
THEOREM BatchesInOrder == Spec => []HandedInOrder
<1>1. IInv => HandedInOrder
  <2>. SUFFICES ASSUME IInv
                PROVE  HandedInOrder
    OBVIOUS
  <2>1. \A i \in DOMAIN handed : handed[i] \in Batches /\ Good(handed[i])
    BY ResultTypes DEF IInv, OutcomeInv, GoodBatches
  <2>. QED
    BY <2>1, JobBatch DEF IInv, ResultInv, HandedInOrder, Good
<1>. QED
  BY BatchInvariance, <1>1, PTL

\* What the driver makes of retry_max: a job has the attempt of the first pass, the ladder's own first
\* attempt and retry_max retries, two more than the "up to `retry_max` attempts" of retry.rs.
THEOREM AttemptsBounded == Spec => [](\A k \in Jobs : attempts[k] <= RetryMax + 2)
<1>1. IInv => \A k \in Jobs : attempts[k] <= RetryMax + 2
  <2>. SUFFICES ASSUME IInv, NEW k \in Jobs
                PROVE  attempts[k] <= RetryMax + 2
    OBVIOUS
  <2>1. attempts[k] \in Nat /\ tries[k] \in Nat /\ RetryMax \in Nat
    BY ExecAssumption DEF IInv, TypeOK
  <2>. QED
    BY <2>1 DEF IInv, AttemptInv, AttemptsOf
<1>. QED
  BY BatchInvariance, <1>1, PTL
=============================================================================
