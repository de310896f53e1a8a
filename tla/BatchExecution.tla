--------------------------- MODULE BatchExecution ---------------------------
(* The execute stage: the pipeline with its bounded channels (pipeline.rs),   *)
(* the worker driver that forks or restores machines and tears them down      *)
(* (driver.rs), the retry ladder (retry.rs), and the worker as the fake       *)
(* hypervisor implements it.  Several batches and all their jobs run          *)
(* concurrently; any RPC may fail, a retried attempt may time out at any of   *)
(* its awaits, and a destroy may give up after its attempts.                  *)
(*                                                                            *)
(* The slot view is taken as module SlotView establishes it: permits are      *)
(* counted exactly, waiters are woken and live slots are known.               *)
EXTENDS Naturals, Sequences, FiniteSets

CONSTANTS
    N,            \* batches the runner submits, numbered from 1
    J,            \* jobs of a batch
    SlotsTotal,   \* slots of the worker
    MaxInflight,  \* max_inflight_batches, in fast mode
    RetryMax,     \* retry_max
    MaxUpsets     \* bound: RPC faults, timeouts and destroys that give up

ASSUME ExecAssumption ==
    N \in Nat /\ J \in Nat \ {0, 1} /\ SlotsTotal \in Nat \ {0} /\ MaxInflight \in Nat \ {0}
    /\ RetryMax \in Nat /\ MaxUpsets \in Nat

VARIABLES
    mode, classOk,                               \* scheduling mode; can the worker run the batch?
    blocked, submitted, submitQ, taken, running, \* submit side: is the runner in submit? channel,
                                                 \* executor's hand, in-flight semaphore
    completedQ, reorder, nextSeq, handed, aborted,   \* result side
    bpc, after,                                  \* control of a batch task
    jpc, res, tries, attempts, outcome,          \* control and result of a job
    reserved,                                    \* slot view: reservations
    vms, surplus, leaked, orphaned,              \* worker: machines with an owner, batches with a child
                                                 \* nobody asked for, number of machines without an
                                                 \* owner, batches with such a fork child
    upsets

pipe == <<blocked, submitted, submitQ, taken, running, completedQ, reorder, nextSeq, handed, aborted>>
batch == <<bpc, after>>
job == <<jpc, res, tries, attempts, outcome>>
worker == <<vms, surplus, leaked, orphaned>>
vars == <<mode, classOk, pipe, batch, job, reserved, worker, upsets>>

Batches == 1..N
Jobs == Batches \X (1..J)
JobsOf(b) == {b} \X (1..J)
Parent(b) == <<b, 0>>

Limit == IF mode = "fast" THEN MaxInflight ELSE 1
SubmitCap == IF Limit > 2 THEN Limit - 1 ELSE 1
Outstanding == submitted - Len(handed)

Machines == Cardinality(vms) + Cardinality(surplus) + leaked
Room(n) == Machines + n <= SlotsTotal
Busy == IF reserved > Machines THEN reserved ELSE Machines
Free == IF Busy < SlotsTotal THEN SlotsTotal - Busy ELSE 0

\* f with the value v at the jobs of S.
At(f, S, v) == [k \in Jobs |-> IF k \in S THEN v ELSE f[k]]
Upset == upsets < MaxUpsets /\ upsets' = upsets + 1
Kinds == {"retryable", "terminal"}

Init ==
    /\ mode \in {"fast", "deterministic"} /\ classOk \in [Batches -> BOOLEAN]
    /\ blocked = FALSE /\ submitted = 0 /\ submitQ = <<>> /\ taken = 0 /\ running = {}
    /\ completedQ = <<>> /\ reorder = {} /\ nextSeq = 1 /\ handed = <<>> /\ aborted = FALSE
    /\ bpc = [b \in Batches |-> "idle"] /\ after = [b \in Batches |-> "ladder"]
    /\ jpc = [k \in Jobs |-> "idle"] /\ res = [k \in Jobs |-> "none"]
    /\ tries = [k \in Jobs |-> 0] /\ attempts = [k \in Jobs |-> 0]
    /\ outcome = [k \in Jobs |-> "none"]
    /\ reserved = 0 /\ vms = {} /\ surplus = {} /\ leaked = 0 /\ orphaned = {} /\ upsets = 0
-----------------------------------------------------------------------------
(* Pipeline: submit, executor loop, completion.                               *)

\* The runner reads no results while it is in submit.
BeginSubmit ==
    /\ ~aborted /\ ~blocked /\ submitted < N /\ Outstanding < Limit
    /\ blocked' = TRUE
    /\ UNCHANGED <<mode, classOk, submitted, submitQ, taken, running, completedQ, reorder, nextSeq, handed,
                   aborted, batch, job, reserved, worker, upsets>>

Submit ==
    /\ blocked /\ Len(submitQ) < SubmitCap
    /\ blocked' = FALSE
    /\ submitted' = submitted + 1 /\ submitQ' = Append(submitQ, submitted + 1)
    /\ UNCHANGED <<mode, classOk, taken, running, completedQ, reorder, nextSeq, handed, aborted,
                   batch, job, reserved, worker, upsets>>

\* The executor receives a batch, and holds it until the semaphore has a permit.
ExecutorRecv ==
    /\ taken = 0 /\ submitQ # <<>>
    /\ taken' = Head(submitQ) /\ submitQ' = Tail(submitQ)
    /\ UNCHANGED <<mode, classOk, blocked, submitted, running, completedQ, reorder, nextSeq, handed, aborted,
                   batch, job, reserved, worker, upsets>>

ExecutorSpawn ==
    /\ taken # 0 /\ Cardinality(running) < Limit
    /\ running' = running \cup {taken} /\ taken' = 0
    /\ bpc' = [bpc EXCEPT ![taken] = "fork"]
    /\ UNCHANGED <<mode, classOk, blocked, submitted, submitQ, completedQ, reorder, nextSeq, handed, aborted,
                   after, job, reserved, worker, upsets>>

SendKeepsPermit(b) ==
    /\ bpc[b] \in {"send", "sendErr"}
    /\ completedQ = <<>> /\ completedQ' = <<<<b, bpc[b]>>>>
    /\ bpc' = [bpc EXCEPT ![b] = "over"]
    /\ UNCHANGED <<mode, classOk, blocked, submitted, submitQ, taken, running, reorder, nextSeq, handed,
                   aborted, after, job, reserved, worker, upsets>>

\* completed_tx.send waits for room in the channel of one; the in-flight permit is dropped after it.
SendCompleted(b) ==
    /\ bpc[b] \in {"send", "sendErr"}
    /\ IF aborted THEN UNCHANGED completedQ
       ELSE completedQ = <<>> /\ completedQ' = <<<<b, bpc[b]>>>>
    /\ bpc' = [bpc EXCEPT ![b] = "over"]
    /\ running' = running \ {b}
    /\ UNCHANGED <<mode, classOk, blocked, submitted, submitQ, taken, reorder, nextSeq, handed, aborted,
                   after, job, reserved, worker, upsets>>

NextCompletedUnordered ==
    /\ ~aborted /\ ~blocked /\ completedQ # <<>>
    /\ handed' = Append(handed, completedQ[1][1])
    /\ completedQ' = <<>>
    /\ UNCHANGED <<mode, classOk, blocked, submitted, submitQ, taken, running, reorder, nextSeq, aborted,
                   batch, job, reserved, worker, upsets>>

\* next_completed: completion order in fast mode; in deterministic mode the reorder buffer gives
\* strict sequence order, and a failed batch ends the experiment.
NextCompleted ==
    /\ ~aborted /\ ~blocked
    /\ IF nextSeq \in reorder
       THEN /\ handed' = Append(handed, nextSeq) /\ nextSeq' = nextSeq + 1
            /\ reorder' = reorder \ {nextSeq}
            /\ UNCHANGED <<completedQ, aborted>>
       ELSE /\ completedQ # <<>>
            /\ completedQ' = <<>>
            /\ LET b == completedQ[1][1] failed == completedQ[1][2] = "sendErr" IN
               IF mode = "fast"
               THEN handed' = Append(handed, b) /\ UNCHANGED <<reorder, nextSeq, aborted>>
               ELSE /\ aborted' = failed
                    /\ reorder' = IF failed THEN reorder ELSE reorder \cup {b}
                    /\ UNCHANGED <<handed, nextSeq>>
    /\ UNCHANGED <<mode, classOk, blocked, submitted, submitQ, taken, running,
                   batch, job, reserved, worker, upsets>>
-----------------------------------------------------------------------------
(* First pass by fork: all jobs from one restored parent.                     *)

\* Permits for the parent and every child, or none at all; then the class gate.
TryFork(b) ==
    /\ bpc[b] = "fork"
    /\ IF Free <= J
       THEN bpc' = [bpc EXCEPT ![b] = "pass"] /\ jpc' = At(jpc, JobsOf(b), "acquire")
            /\ UNCHANGED <<res, reserved>>
       ELSE IF classOk[b]
       THEN bpc' = [bpc EXCEPT ![b] = "parent"] /\ reserved' = reserved + J + 1
            /\ UNCHANGED <<jpc, res>>
       ELSE /\ bpc' = [bpc EXCEPT ![b] = "ladder"]
            /\ jpc' = At(jpc, JobsOf(b), "done") /\ res' = At(res, JobsOf(b), "terminal")
            /\ UNCHANGED reserved
    /\ UNCHANGED <<mode, classOk, pipe, after, tries, attempts, outcome, worker, upsets>>

\* Any error of the parent's restore, backpressure included, falls back to the restore path.
RestoreParent(b) ==
    /\ bpc[b] = "parent"
    /\ \/ /\ Room(1)
          /\ vms' = vms \cup {Parent(b)} /\ bpc' = [bpc EXCEPT ![b] = "forking"]
          /\ UNCHANGED <<jpc, reserved, upsets>>
       \/ /\ IF Room(1) THEN Upset ELSE UNCHANGED upsets
          /\ reserved' = reserved - (J + 1)
          /\ bpc' = [bpc EXCEPT ![b] = "pass"] /\ jpc' = At(jpc, JobsOf(b), "acquire")
          /\ UNCHANGED vms
    /\ UNCHANGED <<mode, classOk, pipe, after, res, tries, attempts, outcome, surplus, leaked, orphaned>>

\* Fork creates all children, meets backpressure and falls back, fails, or answers with the wrong count:
\* with too few of them, or with one too many (room is only checked for the children asked for).
ForkChildren(b) ==
    /\ bpc[b] = "forking"
    /\ \/ /\ Room(J)
          /\ vms' = vms \cup JobsOf(b)
          /\ jpc' = At(jpc, JobsOf(b), "drive")
          /\ attempts' = [k \in Jobs |-> IF k \in JobsOf(b) THEN attempts[k] + 1 ELSE attempts[k]]
          /\ bpc' = [bpc EXCEPT ![b] = "children"]
          /\ UNCHANGED <<surplus, after, res, upsets>>
       \/ /\ IF Room(J) THEN Upset ELSE UNCHANGED upsets
          /\ bpc' = [bpc EXCEPT ![b] = "unfork"] /\ after' = [after EXCEPT ![b] = "pass"]
          /\ UNCHANGED <<vms, surplus, jpc, attempts, res>>
       \/ /\ Room(J) /\ Upset
          /\ \E few \in SUBSET JobsOf(b) :
              /\ few # JobsOf(b) /\ vms' = vms \cup few /\ jpc' = At(jpc, few, "miscounted")
              /\ \E kind \in Kinds : (few = {} \/ kind = "retryable") /\ res' = At(res, JobsOf(b), kind)
          /\ bpc' = [bpc EXCEPT ![b] = "unfork"] /\ after' = [after EXCEPT ![b] = "ladder"]
          /\ UNCHANGED <<surplus, attempts>>
       \/ /\ Room(J) /\ Upset
          /\ vms' = vms \cup JobsOf(b) /\ surplus' = surplus \cup {b}
          /\ jpc' = At(jpc, JobsOf(b), "miscounted") /\ res' = At(res, JobsOf(b), "retryable")
          /\ bpc' = [bpc EXCEPT ![b] = "unfork"] /\ after' = [after EXCEPT ![b] = "ladder"]
          /\ UNCHANGED attempts
    /\ UNCHANGED <<mode, classOk, pipe, tries, outcome, reserved, leaked, orphaned>>

\* destroy_with_retry: the machine is gone, or the attempts are used up and nobody owns it any more.
Destroyed(m) == vms' = vms \ {m} /\ UNCHANGED <<surplus, leaked, orphaned, upsets>>
Leaks(m) ==
    /\ vms' = vms \ {m} /\ leaked' = leaked + 1 /\ UNCHANGED surplus
    /\ orphaned' = IF Parent(m[1]) \in vms \ {m} THEN orphaned \cup {m[1]} ELSE orphaned
Destroy(m) == Destroyed(m) \/ (Upset /\ Leaks(m))

DestroyMiscounted(k) ==
    /\ jpc[k] = "miscounted"
    /\ Destroy(k)
    /\ jpc' = [jpc EXCEPT ![k] = "done"]
    /\ UNCHANGED <<mode, classOk, pipe, batch, res, tries, attempts, outcome, reserved>>

DestroySurplus(b) ==
    /\ bpc[b] = "unfork" /\ b \in surplus
    /\ surplus' = surplus \ {b}
    /\ \/ UNCHANGED <<leaked, orphaned, upsets>>
       \/ Upset /\ leaked' = leaked + 1 /\ orphaned' = orphaned \cup {b}
    /\ UNCHANGED <<mode, classOk, pipe, batch, job, reserved, vms>>

ForkedDone(b) ==
    /\ bpc[b] = "children" /\ \A k \in JobsOf(b) : jpc[k] = "done"
    /\ bpc' = [bpc EXCEPT ![b] = "unfork"] /\ after' = [after EXCEPT ![b] = "reap"]
    /\ UNCHANGED <<mode, classOk, pipe, job, reserved, worker, upsets>>

DestroyParentDropsOne(b) ==
    /\ bpc[b] = "unfork" /\ b \notin surplus /\ \A k \in JobsOf(b) : jpc[k] # "miscounted"
    /\ IF b \in orphaned THEN Leaks(Parent(b)) /\ UNCHANGED upsets ELSE Destroy(Parent(b))
    /\ reserved' = reserved - 1
    /\ bpc' = [bpc EXCEPT ![b] = IF after[b] = "pass" THEN "pass" ELSE "ladder"]
    /\ jpc' = At(jpc, JobsOf(b), IF after[b] = "pass" THEN "acquire" ELSE "done")
    /\ UNCHANGED <<mode, classOk, pipe, after, res, tries, attempts, outcome>>

\* The frozen parent is destroyed last, and its permit dropped; without children all permits are.
\* The worker refuses to destroy a parent one of whose children is still there.
DestroyParent(b) ==
    /\ bpc[b] = "unfork" /\ b \notin surplus /\ \A k \in JobsOf(b) : jpc[k] # "miscounted"
    /\ IF b \in orphaned THEN Leaks(Parent(b)) /\ UNCHANGED upsets ELSE Destroy(Parent(b))
    /\ reserved' = reserved - (IF after[b] = "reap" THEN 1 ELSE J + 1)
    /\ bpc' = [bpc EXCEPT ![b] = IF after[b] = "pass" THEN "pass" ELSE "ladder"]
    /\ jpc' = At(jpc, JobsOf(b), IF after[b] = "pass" THEN "acquire" ELSE "done")
    /\ UNCHANGED <<mode, classOk, pipe, after, res, tries, attempts, outcome>>
-----------------------------------------------------------------------------
(* One attempt of a job.  Attempts of the first pass have no deadline.        *)

InLadder(k) == bpc[k[1]] = "ladder"

Acquire(k) ==
    /\ jpc[k] = "acquire"
    /\ IF ~classOk[k[1]]
       THEN /\ jpc' = [jpc EXCEPT ![k] = "done"] /\ res' = [res EXCEPT ![k] = "terminal"]
            /\ UNCHANGED <<attempts, reserved>>
       ELSE /\ Free > 0 /\ reserved' = reserved + 1
            /\ jpc' = [jpc EXCEPT ![k] = "restore"] /\ attempts' = [attempts EXCEPT ![k] = @ + 1]
            /\ UNCHANGED res
    /\ UNCHANGED <<mode, classOk, pipe, batch, tries, outcome, worker, upsets>>

\* RestoreSnapshot; backpressure is waited out.
Restore(k) ==
    /\ jpc[k] = "restore" /\ Room(1)
    /\ vms' = vms \cup {k}
    /\ jpc' = [jpc EXCEPT ![k] = "drive"]
    /\ UNCHANGED <<mode, classOk, pipe, batch, res, tries, attempts, outcome, reserved, surplus, leaked, orphaned,
                   upsets>>

RestoreFails(k) ==
    /\ jpc[k] = "restore" /\ Upset
    /\ \E kind \in Kinds : res' = [res EXCEPT ![k] = kind]
    /\ jpc' = [jpc EXCEPT ![k] = "done"] /\ reserved' = reserved - 1
    /\ UNCHANGED <<mode, classOk, pipe, batch, tries, attempts, outcome, worker>>

\* InjectInputs, Run and TakeSnapshot: a sealed snapshot, a guest that crashed, or an error.
Drive(k) ==
    /\ jpc[k] = "drive"
    /\ \/ \E r \in {"sealed", "crash"} : res' = [res EXCEPT ![k] = r] /\ UNCHANGED upsets
       \/ Upset /\ \E kind \in Kinds : res' = [res EXCEPT ![k] = kind]
    /\ jpc' = [jpc EXCEPT ![k] = "destroy"]
    /\ UNCHANGED <<mode, classOk, pipe, batch, tries, attempts, outcome, reserved, worker>>

\* DestroyVm at the end of an attempt, then drop(permit).
DestroyVm(k) ==
    /\ jpc[k] \in {"destroy", "stranded"}
    /\ Destroy(k)
    /\ res[k] = "crash" => leaked' = leaked
    /\ jpc' = [jpc EXCEPT ![k] = "done"] /\ reserved' = reserved - 1
    /\ UNCHANGED <<mode, classOk, pipe, batch, res, tries, attempts, outcome>>

\* A destroy that gives up is an error of a crashed job, whose teardown then destroys once more.
DestroyAfterCrashFails(k) ==
    /\ jpc[k] = "destroy" /\ res[k] = "crash" /\ Upset
    /\ \E kind \in Kinds : res' = [res EXCEPT ![k] = kind]
    /\ UNCHANGED <<mode, classOk, pipe, batch, jpc, tries, attempts, outcome, reserved, worker>>

TimesOutForgetsLease(k) ==
    /\ InLadder(k) /\ jpc[k] \in {"restore", "drive", "destroy"} /\ Upset
    /\ res' = [res EXCEPT ![k] = "retryable"]
    /\ jpc' = [jpc EXCEPT ![k] = "done"] /\ reserved' = reserved - 1
    /\ UNCHANGED <<mode, classOk, pipe, batch, tries, attempts, outcome, worker>>

\* The deadline of a retried attempt: what was computed is lost, and a leased machine torn down.
TimesOut(k) ==
    /\ InLadder(k) /\ jpc[k] \in {"restore", "drive", "destroy"} /\ Upset
    /\ res' = [res EXCEPT ![k] = "retryable"]
    /\ IF jpc[k] = "restore"
       THEN jpc' = [jpc EXCEPT ![k] = "done"] /\ reserved' = reserved - 1
       ELSE jpc' = [jpc EXCEPT ![k] = "stranded"] /\ UNCHANGED reserved
    /\ UNCHANGED <<mode, classOk, pipe, batch, tries, attempts, outcome, worker>>
-----------------------------------------------------------------------------
(* execute_batch: the failed jobs climb the retry ladder one after another.   *)

FirstPassDone(b) ==
    /\ bpc[b] = "pass" /\ \A k \in JobsOf(b) : jpc[k] = "done"
    /\ bpc' = [bpc EXCEPT ![b] = "ladder"]
    /\ UNCHANGED <<mode, classOk, pipe, after, job, reserved, worker, upsets>>

Current(k) == \A i \in JobsOf(k[1]) : i[2] < k[2] => outcome[i] # "none"
Due(k) == InLadder(k) /\ jpc[k] = "done" /\ outcome[k] = "none" /\ Current(k)

Completed(k) ==
    /\ Due(k) /\ res[k] \in {"sealed", "crash"}
    /\ outcome' = [outcome EXCEPT ![k] = res[k]]
    /\ UNCHANGED <<mode, classOk, pipe, batch, jpc, res, tries, attempts, reserved, worker, upsets>>

\* The first failure, of any kind, always enters the ladder, whose own first attempt retry_max does not
\* count; in it only retryable errors are retried.
Exhausted(k) == tries[k] > 0 /\ (res[k] = "terminal" \/ tries[k] > RetryMax)

Retry(k) ==
    /\ Due(k) /\ res[k] \in Kinds /\ ~Exhausted(k)
    /\ tries' = [tries EXCEPT ![k] = @ + 1]
    /\ jpc' = [jpc EXCEPT ![k] = "acquire"]
    /\ UNCHANGED <<mode, classOk, pipe, batch, res, attempts, outcome, reserved, worker, upsets>>

\* Fast mode abandons the job; deterministic mode fails the batch.
GiveUp(k) ==
    /\ Due(k) /\ res[k] \in Kinds /\ Exhausted(k)
    /\ outcome' = [outcome EXCEPT ![k] = "abandoned"]
    /\ bpc' = IF mode = "fast" THEN bpc ELSE [bpc EXCEPT ![k[1]] = "sendErr"]
    /\ UNCHANGED <<mode, classOk, pipe, after, jpc, res, tries, attempts, reserved, worker, upsets>>

LadderDone(b) ==
    /\ bpc[b] = "ladder" /\ \A k \in JobsOf(b) : outcome[k] # "none"
    /\ bpc' = [bpc EXCEPT ![b] = "send"]
    /\ UNCHANGED <<mode, classOk, pipe, after, job, reserved, worker, upsets>>
-----------------------------------------------------------------------------
PipeStep == Submit \/ ExecutorRecv \/ ExecutorSpawn \/ NextCompleted

BatchStep(b) ==
    \/ TryFork(b) \/ RestoreParent(b) \/ ForkChildren(b) \/ DestroySurplus(b) \/ ForkedDone(b)
    \/ DestroyParent(b) \/ FirstPassDone(b) \/ LadderDone(b) \/ SendCompleted(b)

JobStep(k) ==
    \/ DestroyMiscounted(k) \/ Acquire(k) \/ Restore(k) \/ RestoreFails(k) \/ Drive(k)
    \/ DestroyVm(k) \/ DestroyAfterCrashFails(k) \/ TimesOut(k)
    \/ Completed(k) \/ Retry(k) \/ GiveUp(k)

Over == aborted \/ Len(handed) = N
Finished == Over /\ running = {} /\ taken = 0 /\ submitQ = <<>> /\ UNCHANGED vars

Next ==
    \/ BeginSubmit \/ PipeStep \/ Finished
    \/ \E b \in Batches : BatchStep(b)
    \/ \E k \in Jobs : JobStep(k)

Spec == Init /\ [][Next]_vars

\* Every spawned task runs, every RPC returns.
FairSpec ==
    /\ Spec /\ WF_vars(PipeStep)
    /\ \A b \in Batches : WF_vars(BatchStep(b))
    /\ \A k \in Jobs : WF_vars(JobStep(k))
-----------------------------------------------------------------------------
\* Every machine the driver asked for is covered by a permit until it is destroyed or its destroy has
\* given up, on every path: fork fallback, miscounted fork, error, timeout, abort.  A batch whose
\* result is handed on owns no machine any more, asked for or not, no job of it is still running, and
\* once everything is over the view has its reservations back.
NothingLeftBehind ==
    /\ Cardinality(vms) <= reserved
    /\ \A b \in Batches : bpc[b] \in {"send", "sendErr", "over"} =>
          /\ b \notin surplus /\ \A m \in vms : m[1] # b
          /\ \A k \in JobsOf(b) : jpc[k] \in {"idle", "done"}
    /\ Over /\ running = {} /\ taken = 0 /\ submitQ = <<>> => reserved = 0

\* A batch is handed back once; in deterministic mode in sequence order; its jobs all have an outcome,
\* abandoned ones only in fast mode.
HandedInOrder ==
    /\ \A i, j \in DOMAIN handed : i # j => handed[i] # handed[j]
    /\ mode = "deterministic" => \A i \in DOMAIN handed : handed[i] = i
    /\ \A i \in DOMAIN handed : \A k \in JobsOf(handed[i]) :
          outcome[k] \in {"sealed", "crash"} \cup (IF mode = "fast" THEN {"abandoned"} ELSE {})

\* Every submitted batch is handed back, unless the experiment is aborted or leaked machines fill the
\* worker: channels, semaphore and permits never wait for each other.
BatchesComplete == <>[](aborted \/ leaked >= SlotsTotal \/ Outstanding = 0)
=============================================================================
