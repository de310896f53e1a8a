----------------------- MODULE BatchExecution_permits -----------------------
(* For any number of batches, jobs, slots and faults: every machine is        *)
(* covered by a permit, and every permit is given back.                       *)
EXTENDS BatchExecution_proofs, FiniteSetTheorems

\* Seconds a leaf may take on a loaded machine.
USE SMTT(20), ZenonT(30)

\* What a permit may be for: the parent (number 0) or a job of a batch.
Slots == Batches \X (0..J)
Family(b) == {b} \X (0..J)

\* A batch holds the permits of the whole family from the fork's reservation on until its children
\* have permits of their own, or the fork is given up.
Whole(b) == bpc[b] \in {"parent", "forking"} \/ (bpc[b] = "unfork" /\ after[b] # "reap")

Attempting == {"restore", "drive", "destroy", "stranded"}

HasPermit(m) ==
    \/ Whole(m[1])
    \/ m[2] = 0 /\ bpc[m[1]] \in {"children", "unfork"}
    \/ m[2] # 0 /\ jpc[m] \in Attempting
Permits == {m \in Slots : HasPermit(m)}

\* Where a job can be at each place of its batch.  In the ladder only one job is not done.
Place(k) ==
    /\ bpc[k[1]] = "unfork" /\ after[k[1]] = "ladder" => jpc[k] \in {"idle", "miscounted", "done"}
    /\ bpc[k[1]] = "unfork" /\ after[k[1]] = "reap" => jpc[k] = "done"
    /\ bpc[k[1]] = "children" => jpc[k] \in {"drive", "destroy", "done"}
    /\ bpc[k[1]] = "pass" => jpc[k] \in {"acquire", "restore", "drive", "destroy", "done"}
    /\ bpc[k[1]] = "ladder" => /\ jpc[k] \in Attempting \cup {"acquire", "done"}
                               /\ jpc[k] # "done" => Current(k) /\ outcome[k] = "none"
    /\ bpc[k[1]] \in {"send", "sendErr", "over"} => jpc[k] = "done"
PlaceInv == \A k \in Jobs : Place(k)

\* The machines there are, and how far the batch or the job that owns one has come.
MachineInv ==
    /\ vms \subseteq Slots
    /\ \A m \in vms : IF m[2] = 0 THEN bpc[m[1]] \in {"forking", "children", "unfork"}
                      ELSE jpc[m] \in {"drive", "destroy", "stranded", "miscounted"}

\* The semaphore's permits are those of the batches that are running.
RunningInv == running = {b \in Batches : bpc[b] \notin {"idle", "over"}}

\* A child that nobody asked for is destroyed before the batch goes on.
SurplusInv == \A b \in surplus : b \in Batches /\ bpc[b] = "unfork"

Counted == reserved = Cardinality(Permits)

PermitInv == PlaceInv /\ MachineInv /\ SurplusInv /\ RunningInv /\ Counted
-----------------------------------------------------------------------------
(* Jobs and their batch.                                                      *)

\* A job that is idle, because its batch has not begun its first pass.
LEMMA FreshIdle ==
    ASSUME AttemptInv, NEW k \in Jobs, Fresh(k[1])
    PROVE  jpc[k] = "idle"
BY DEF AttemptInv, AttemptsOf

\* A job keeps its place when neither it nor its batch moves, and outcomes are not taken back.
LEMMA PlaceFrame ==
    ASSUME TypeOK, NEW k \in Jobs, Place(k), jpc'[k] = jpc[k], bpc'[k[1]] = bpc[k[1]],
           after'[k[1]] = after[k[1]], bpc[k[1]] = "ladder" /\ jpc[k] # "done" => outcome'[k] = outcome[k],
           \A i \in Jobs : outcome[i] # "none" => outcome'[i] # "none"
    PROVE  Place(k)'
<1>1. \A i \in JobsOf(k[1]) : i \in Jobs
  BY JobBatch
<1>2. Current(k) => Current(k)'
  BY <1>1 DEF Current, JobsOf
<1>. QED
  BY <1>2 DEF Place

\* A step of a batch moves its jobs to where they belong.
LEMMA PlaceBatchStep ==
    ASSUME TypeOK, AttemptInv, PlaceInv, NEW b \in Batches, BatchStep(b), NEW k \in Jobs
    PROVE  Place(k)'
<1>0. k[1] \in Batches /\ (k \in JobsOf(b) <=> k[1] = b)
  BY DEF Jobs, JobsOf
<1>1. Place(k)
  BY DEF PlaceInv
<1>2. outcome' = outcome
  BY BatchFrame DEF BatchMoves
<1>3. CASE k[1] # b
  <2>1. bpc'[k[1]] = bpc[k[1]]
    BY <1>0, <1>3, BatchFrame DEF BatchMoves, TypeOK
  <2>2. after'[k[1]] = after[k[1]]
    BY <1>0, <1>3 DEF BatchStep, TryFork, RestoreParent, ForkChildren, ForkedDone, DestroyParent,
                      DestroySurplus, batch, FirstPassDone, LadderDone, SendCompleted, TypeOK
  <2>3. jpc'[k] = jpc[k]
    BY <1>0, <1>3, Zenon DEF BatchStep, TryFork, RestoreParent, ForkChildren, ForkedDone, DestroyParent,
                      DestroySurplus, batch, FirstPassDone, LadderDone, SendCompleted, TypeOK, At, job
  <2>. QED
    BY <1>1, <1>2, <2>1, <2>2, <2>3, PlaceFrame
<1>4. CASE k[1] = b
  <2>0. k \in JobsOf(b)
    BY <1>0, <1>4
  <2>1. CASE TryFork(b)
    <3>1. \/ bpc'[b] = "pass" /\ jpc'[k] = "acquire"
          \/ bpc'[b] = "parent"
          \/ bpc'[b] = "ladder" /\ jpc'[k] = "done"
      BY <2>0, <2>1 DEF TryFork, At, TypeOK
    <3>. QED
      BY <1>4, <3>1 DEF Place
  <2>2. CASE RestoreParent(b)
    <3>1. bpc'[b] = "forking" \/ (bpc'[b] = "pass" /\ jpc'[k] = "acquire")
      BY <2>0, <2>2 DEF RestoreParent, At, TypeOK
    <3>. QED
      BY <1>4, <3>1 DEF Place
  <2>3. CASE ForkChildren(b)
    <3>1. jpc[k] = "idle"
      BY <1>4, <2>3, FreshIdle DEF ForkChildren, Fresh
    <3>2. \/ bpc'[b] = "children" /\ jpc'[k] = "drive"
          \/ bpc'[b] = "unfork" /\ after'[b] = "pass"
          \/ bpc'[b] = "unfork" /\ after'[b] = "ladder" /\ jpc'[k] \in {jpc[k], "miscounted"}
      BY <2>0, <2>3 DEF ForkChildren, At, TypeOK
    <3>. QED
      BY <1>4, <3>1, <3>2 DEF Place
  <2>4. CASE ForkedDone(b)
    <3>1. bpc'[b] = "unfork" /\ after'[b] = "reap" /\ jpc'[k] = "done"
      BY <2>0, <2>4 DEF ForkedDone, TypeOK, job
    <3>. QED
      BY <1>4, <3>1 DEF Place
  <2>5. CASE DestroyParent(b)
    <3>1. \/ bpc'[b] = "pass" /\ jpc'[k] = "acquire"
          \/ bpc'[b] = "ladder" /\ jpc'[k] = "done"
      BY <2>0, <2>5 DEF DestroyParent, At, TypeOK
    <3>. QED
      BY <1>4, <3>1 DEF Place
  <2>6. CASE FirstPassDone(b)
    <3>1. bpc'[b] = "ladder" /\ jpc'[k] = "done"
      BY <2>0, <2>6 DEF FirstPassDone, TypeOK, job
    <3>. QED
      BY <1>4, <3>1 DEF Place
  <2>7. CASE LadderDone(b)
    <3>1. bpc'[b] = "send" /\ jpc'[k] = jpc[k] /\ outcome[k] # "none" /\ bpc[b] = "ladder"
      BY <2>0, <2>7 DEF LadderDone, TypeOK, job
    <3>. QED
      BY <1>1, <1>4, <3>1 DEF Place
  <2>8. CASE SendCompleted(b)
    <3>1. bpc'[b] = "over" /\ jpc'[k] = jpc[k] /\ bpc[b] \in {"send", "sendErr"}
      BY <2>8 DEF SendCompleted, TypeOK, job
    <3>. QED
      BY <1>1, <1>4, <3>1 DEF Place
  <2>9. CASE DestroySurplus(b)
    <3>1. UNCHANGED <<bpc, after, jpc>>
      BY <2>9 DEF DestroySurplus, batch, job
    <3>. QED
      BY <1>1, <1>2, <3>1, PlaceFrame
  <2>. QED
    BY <2>1, <2>2, <2>3, <2>4, <2>5, <2>6, <2>7, <2>8, <2>9 DEF BatchStep
<1>. QED
  BY <1>3, <1>4

\* A job that settles is done, and the one job of the ladder that is not done stays the current one.
LEMMA PlaceJobStep ==
    ASSUME TypeOK, AttemptInv, PlaceInv, NEW i \in Jobs, JobStep(i), NEW k \in Jobs
    PROVE  Place(k)'
<1>0. k[1] \in Batches /\ i[1] \in Batches
  BY JobBatch
<1>1. Place(k) /\ Place(i)
  BY DEF PlaceInv
<1>2. after' = after
  BY JobFrame DEF JobMoves
<1>3. CASE GiveUp(i)
  <2>1. /\ jpc' = jpc /\ jpc[i] = "done" /\ outcome[i] = "none" /\ Current(i)
        /\ outcome' = [outcome EXCEPT ![i] = "abandoned"] /\ bpc[i[1]] = "ladder"
        /\ bpc' = bpc \/ bpc' = [bpc EXCEPT ![i[1]] = "sendErr"]
    BY <1>3 DEF GiveUp, Due, InLadder
  <2>2. \A j \in Jobs : outcome[j] # "none" => outcome'[j] # "none"
    BY <2>1 DEF TypeOK
  <2>3. jpc[k] # "done" => outcome'[k] = outcome[k]
    BY <2>1 DEF TypeOK
  <2>4. CASE bpc'[k[1]] = bpc[k[1]]
    BY <1>1, <1>2, <2>1, <2>2, <2>3, <2>4, PlaceFrame
  <2>5. CASE bpc'[k[1]] # bpc[k[1]]
    <3>1. k[1] = i[1] /\ bpc'[k[1]] = "sendErr"
      BY <1>0, <2>1, <2>5 DEF TypeOK
    <3>2. jpc[k] = "done"
      <4>. SUFFICES ASSUME jpc[k] # "done"
                    PROVE  FALSE
        OBVIOUS
      <4>1. Current(k) /\ outcome[k] = "none"
        BY <1>1, <2>1, <3>1 DEF Place
      <4>2. k[2] \in Nat /\ i[2] \in Nat /\ k = <<k[1], k[2]>> /\ i = <<i[1], i[2]>>
            /\ k \in JobsOf(i[1]) /\ i \in JobsOf(k[1])
        BY <3>1, ExecAssumption DEF Jobs, JobsOf
      <4>3. ~(k[2] < i[2])
        BY <2>1, <4>1, <4>2 DEF Current
      <4>4. ~(i[2] < k[2])
        BY <2>1, <4>1, <4>2 DEF Current
      <4>5. k = i
        <5>1. k[2] = i[2]
          BY <4>2, <4>3, <4>4
        <5>. QED
          BY <3>1, <4>2, <5>1
      <4>. QED
        BY <2>1, <4>5
    <3>. QED
      BY <2>1, <3>1, <3>2 DEF Place
  <2>. QED
    BY <2>4, <2>5
<1>4. CASE Completed(i)
  <2>1. /\ jpc' = jpc /\ bpc' = bpc /\ jpc[i] = "done" /\ res[i] \in {"sealed", "crash"}
        /\ outcome' = [outcome EXCEPT ![i] = res[i]]
    BY <1>4 DEF Completed, Due, batch
  <2>2. \A j \in Jobs : outcome[j] # "none" => outcome'[j] # "none"
    BY <2>1 DEF TypeOK
  <2>3. jpc[k] # "done" => outcome'[k] = outcome[k]
    BY <2>1 DEF TypeOK
  <2>. QED
    BY <1>1, <1>2, <2>1, <2>2, <2>3, PlaceFrame
<1>5. CASE ~GiveUp(i) /\ ~Completed(i)
  <2>1. bpc' = bpc /\ outcome' = outcome
    BY <1>5 DEF JobStep, DestroyMiscounted, Acquire, Restore, RestoreFails, Drive, DestroyVm,
                DestroyAfterCrashFails, TimesOut, Retry, batch
  <2>2. CASE jpc'[k] = jpc[k]
    BY <1>1, <1>2, <2>1, <2>2, PlaceFrame
  <2>3. CASE jpc'[k] # jpc[k]
    <3>1. k = i
      BY <1>5, <2>3 DEF JobStep, DestroyMiscounted, Acquire, Restore, RestoreFails, Drive, DestroyVm,
                        DestroyAfterCrashFails, TimesOut, Retry, TypeOK
    <3>2. \/ jpc[i] = "miscounted" /\ jpc'[i] = "done"
          \/ jpc[i] = "acquire" /\ jpc'[i] \in {"done", "restore"}
          \/ jpc[i] = "restore" /\ jpc'[i] \in {"drive", "done"}
          \/ jpc[i] = "drive" /\ jpc'[i] = "destroy"
          \/ jpc[i] \in {"destroy", "stranded"} /\ jpc'[i] = "done"
          \/ bpc[i[1]] = "ladder" /\ jpc[i] \in {"drive", "destroy"} /\ jpc'[i] = "stranded"
          \/ /\ bpc[i[1]] = "ladder" /\ jpc[i] = "done" /\ jpc'[i] = "acquire"
             /\ Current(i) /\ outcome[i] = "none"
      BY <1>5, <2>3, <3>1 DEF JobStep, DestroyMiscounted, Acquire, Restore, RestoreFails, Drive, DestroyVm,
                        DestroyAfterCrashFails, TimesOut, Retry, Due, InLadder, TypeOK
    <3>3. Current(i) => Current(i)'
      BY <2>1 DEF Current, JobsOf
    <3>. QED
      BY <1>1, <1>2, <2>1, <3>1, <3>2, <3>3 DEF Place, Attempting
  <2>. QED
    BY <2>2, <2>3
<1>. QED
  BY <1>3, <1>4, <1>5

\* A pipeline step moves no job, and a batch only when it is spawned.
LEMMA PipeBpc ==
    ASSUME TypeOK, QueueInv, BeginSubmit \/ PipeStep
    PROVE  /\ UNCHANGED <<mode, after, jpc, outcome, reserved, vms, surplus>>
           /\ \/ UNCHANGED <<bpc, running>>
              \/ /\ taken \in Batches /\ bpc[taken] = "idle"
                 /\ bpc' = [bpc EXCEPT ![taken] = "fork"] /\ running' = running \cup {taken}
<1>1. UNCHANGED <<mode, after, jpc, outcome>>
  BY PipeFrame DEF job
<1>2. UNCHANGED <<reserved, vms, surplus>>
  BY DEF BeginSubmit, PipeStep, Submit, ExecutorRecv, ExecutorSpawn, NextCompleted, worker
<1>3. CASE ExecutorSpawn
  BY <1>1, <1>2, <1>3 DEF ExecutorSpawn, QueueInv, TypeOK
<1>4. CASE ~ExecutorSpawn
  BY <1>1, <1>2, <1>4 DEF BeginSubmit, PipeStep, Submit, ExecutorRecv, NextCompleted, batch
<1>. QED
  BY <1>3, <1>4

\* Every step keeps the jobs at the places their batches allow.
LEMMA PlaceStep ==
    ASSUME IInv, PlaceInv, [Next]_vars
    PROVE  PlaceInv'
<1>. USE DEF IInv
<1>1. CASE BeginSubmit \/ PipeStep
  <2>. SUFFICES ASSUME NEW k \in Jobs
                PROVE  Place(k)'
    BY DEF PlaceInv, Jobs, Batches
  <2>1. /\ UNCHANGED <<after, jpc, outcome>> /\ k[1] \in Batches /\ Place(k)
        /\ bpc'[k[1]] = bpc[k[1]] \/ bpc'[k[1]] = "fork"
    BY <1>1, PipeBpc, JobBatch DEF TypeOK, PlaceInv
  <2>2. CASE bpc'[k[1]] = bpc[k[1]]
    BY <2>1, <2>2, PlaceFrame
  <2>3. CASE bpc'[k[1]] = "fork"
    BY <2>3 DEF Place
  <2>. QED
    BY <2>1, <2>2, <2>3
<1>2. ASSUME NEW b \in Batches, BatchStep(b)
      PROVE  PlaceInv'
  BY <1>2, PlaceBatchStep DEF PlaceInv, Jobs, Batches
<1>3. ASSUME NEW i \in Jobs, JobStep(i)
      PROVE  PlaceInv'
  BY <1>3, PlaceJobStep DEF PlaceInv, Jobs, Batches
<1>4. CASE UNCHANGED vars
  BY <1>4 DEF vars, batch, job, PlaceInv, Place, Current
<1>. QED
  BY <1>1, <1>2, <1>3, <1>4 DEF Next, Finished

\* The in-flight permit is taken with the spawn and dropped after the result is sent.
LEMMA RunningStep ==
    ASSUME IInv, RunningInv, [Next]_vars
    PROVE  RunningInv'
<1>. USE DEF IInv
<1>1. CASE BeginSubmit \/ PipeStep
  BY <1>1, PipeBpc DEF RunningInv, TypeOK
<1>2. ASSUME NEW b \in Batches, BatchStep(b)
      PROVE  RunningInv'
  <2>1. BatchMoves(b)
    BY <1>2, BatchFrame
  <2>2. CASE SendCompleted(b)
    <3>1. bpc' = [bpc EXCEPT ![b] = "over"] /\ running' = running \ {b}
      BY <2>2 DEF SendCompleted
    <3>. QED
      BY <3>1 DEF RunningInv, TypeOK
  <2>3. CASE ~SendCompleted(b)
    <3>1. running' = running
      BY <1>2, <2>3, Zenon DEF BatchStep, TryFork, RestoreParent, ForkChildren, ForkedDone, DestroyParent,
                        DestroySurplus, batch, FirstPassDone, LadderDone, pipe
    <3>2. bpc[b] \notin {"idle", "over"} /\ bpc'[b] \notin {"idle", "over"}
      BY <1>2, <2>3, <2>1 DEF BatchStep, TryFork, RestoreParent, ForkChildren, ForkedDone, DestroyParent,
                        DestroySurplus, batch, FirstPassDone, LadderDone, TypeOK, BatchMoves
    <3>3. \A c \in Batches : c # b => bpc'[c] = bpc[c]
      BY <2>1 DEF BatchMoves, TypeOK
    <3>. QED
      BY <3>1, <3>2, <3>3 DEF RunningInv
  <2>. QED
    BY <2>2, <2>3
<1>3. ASSUME NEW k \in Jobs, JobStep(k)
      PROVE  RunningInv'
  <2>1. running' = running
    BY <1>3, Zenon DEF JobStep, DestroyMiscounted, Acquire, Restore, RestoreFails, Drive, DestroyVm,
                DestroyAfterCrashFails, TimesOut, Completed, Retry, GiveUp, pipe
  <2>2. \A c \in Batches : bpc'[c] = bpc[c] \/ (bpc[c] = "ladder" /\ bpc'[c] = "sendErr")
    <3>1. JobMoves(k) /\ k[1] \in Batches
      BY <1>3, JobFrame, JobBatch
    <3>. QED
      BY <3>1 DEF JobMoves, TypeOK
  <2>. QED
    BY <2>1, <2>2 DEF RunningInv
<1>4. CASE UNCHANGED vars
  BY <1>4 DEF vars, pipe, batch, RunningInv
<1>. QED
  BY <1>1, <1>2, <1>3, <1>4 DEF Next, Finished
-----------------------------------------------------------------------------
(* Machines.                                                                  *)

\* A slot is a batch's parent or a job.
LEMMA SlotCases ==
    /\ \A m \in Slots : m[1] \in Batches /\ (m[2] = 0 => m = Parent(m[1])) /\ (m[2] # 0 => m \in Jobs)
    /\ \A b \in Batches : Parent(b) \in Slots /\ Parent(b)[1] = b /\ Parent(b)[2] = 0
    /\ \A k \in Jobs : k \in Slots /\ k[2] # 0
BY ExecAssumption DEF Slots, Jobs, Parent

\* What MachineInv says of one machine.
MachineOf(m) == IF m[2] = 0 THEN bpc[m[1]] \in {"forking", "children", "unfork"}
                ELSE jpc[m] \in {"drive", "destroy", "stranded", "miscounted"}

\* A batch creates the parent and the children, and destroys the parent last.
LEMMA MachineBatchStep ==
    ASSUME TypeOK, AttemptInv, PlaceInv, MachineInv, NEW b \in Batches, BatchStep(b)
    PROVE  MachineInv'
<1>0. \A m \in vms : m \in Slots /\ MachineOf(m)
  BY DEF MachineInv, MachineOf
<1>1. SUFFICES \A m \in vms' : m \in Slots /\ MachineOf(m)'
  BY DEF MachineInv, MachineOf, Slots, Batches
<1>. SUFFICES ASSUME NEW m \in vms'
              PROVE  m \in Slots /\ MachineOf(m)'
  OBVIOUS
<1>2. ASSUME m \in Slots, m[1] # b
      PROVE  bpc'[m[1]] = bpc[m[1]] /\ (m[2] # 0 => jpc'[m] = jpc[m])
  <2>1. bpc'[m[1]] = bpc[m[1]] /\ m \notin JobsOf(b)
    BY <1>2, BatchFrame, SlotCases DEF BatchMoves, TypeOK, JobsOf
  <2>2. m[2] # 0 => jpc'[m] = jpc[m]
    BY <1>2, <2>1, SlotCases DEF BatchStep, TryFork, RestoreParent, ForkChildren, ForkedDone, DestroyParent,
                      DestroySurplus, batch, FirstPassDone, LadderDone, SendCompleted, TypeOK, At, job
  <2>. QED
    BY <2>1, <2>2
<1>3. CASE m \in vms /\ m[1] # b
  BY <1>0, <1>2, <1>3 DEF MachineOf
<1>4. ASSUME m \in Slots, m[1] = b, m[2] # 0
      PROVE  m \in Jobs /\ m \in JobsOf(b)
  BY <1>4, SlotCases, JobBatch DEF Slots, JobsOf, Jobs
<1>5. CASE TryFork(b) \/ RestoreParent(b)
  <2>1. vms' = vms \/ (vms' = vms \cup {Parent(b)} /\ bpc'[b] = "forking")
    BY <1>5 DEF TryFork, RestoreParent, worker, TypeOK
  <2>2. CASE m = Parent(b) /\ m \notin vms
    BY <2>1, <2>2, SlotCases DEF MachineOf
  <2>3. CASE m \in vms /\ m[1] = b
    <3>1. bpc[b] \in {"fork", "parent"}
      BY <1>5 DEF TryFork, RestoreParent
    <3>2. m[2] # 0 => jpc[m] = "idle"
      BY <1>0, <1>4, <2>3, <3>1, FreshIdle DEF Fresh
    <3>. QED
      BY <1>0, <2>3, <3>1, <3>2 DEF MachineOf
  <2>. QED
    BY <1>3, <2>1, <2>2, <2>3
<1>6. CASE ForkChildren(b)
  <2>0. bpc'[b] \in {"children", "unfork"} /\ Fresh(b)
    BY <1>6 DEF ForkChildren, TypeOK, Fresh
  <2>1. CASE m \in vms /\ m[1] = b
    <3>1. m[2] # 0 => jpc[m] = "idle"
      BY <1>0, <1>4, <2>0, <2>1, FreshIdle
    <3>. QED
      BY <1>0, <2>0, <2>1, <3>1 DEF MachineOf
  <2>2. CASE m \notin vms
    <3>1. m \in JobsOf(b)
      BY <1>6, <2>2 DEF ForkChildren
    <3>2. m \in Jobs /\ m \in Slots /\ m[2] # 0
      BY <3>1, JobBatch, SlotCases
    <3>3. jpc'[m] \in {"drive", "miscounted"}
      BY <1>6, <2>2, <3>1, <3>2 DEF ForkChildren, At
    <3>. QED
      BY <3>2, <3>3 DEF MachineOf
  <2>. QED
    BY <1>3, <2>1, <2>2
<1>7. CASE ForkedDone(b)
  <2>1. vms' = vms /\ jpc' = jpc /\ bpc'[b] = "unfork"
    BY <1>7 DEF ForkedDone, worker, job, TypeOK
  <2>. QED
    BY <1>0, <1>3, <2>1 DEF MachineOf
<1>8. CASE DestroyParent(b)
  <2>1. vms' = vms \ {Parent(b)}
    BY <1>8 DEF DestroyParent, Leaks, Destroy, Destroyed
  <2>2. CASE m \in vms /\ m[1] = b
    <3>1. m[2] # 0 /\ m \in Jobs /\ m \in JobsOf(b)
      BY <1>0, <1>4, <2>1, <2>2, SlotCases
    <3>2. bpc[b] = "unfork" /\ jpc[m] # "miscounted"
      BY <1>8, <3>1 DEF DestroyParent
    <3>3. jpc[m] \in {"idle", "done"}
      BY <2>2, <3>1, <3>2, FreshIdle DEF PlaceInv, Place, Fresh, TypeOK
    <3>. QED
      BY <1>0, <2>2, <3>1, <3>3 DEF MachineOf
  <2>. QED
    BY <1>3, <2>1, <2>2
<1>9. CASE FirstPassDone(b) \/ LadderDone(b) \/ SendCompleted(b)
  <2>1. vms' = vms /\ jpc' = jpc /\ bpc[b] \notin {"forking", "children", "unfork"}
    BY <1>9 DEF FirstPassDone, LadderDone, SendCompleted, worker, job
  <2>. QED
    BY <1>0, <1>3, <2>1 DEF MachineOf
<1>10. CASE DestroySurplus(b)
  <2>1. UNCHANGED <<vms, jpc, bpc>>
    BY <1>10 DEF DestroySurplus, batch, job
  <2>. QED
    BY <1>0, <2>1 DEF MachineOf
<1>. QED
  BY <1>5, <1>6, <1>7, <1>8, <1>9, <1>10 DEF BatchStep

\* A job creates its machine when it restores, and destroys it before it is done.
LEMMA MachineJobStep ==
    ASSUME TypeOK, MachineInv, NEW k \in Jobs, JobStep(k)
    PROVE  MachineInv'
<1>0. \A m \in vms : m \in Slots /\ MachineOf(m)
  BY DEF MachineInv, MachineOf
<1>1. SUFFICES \A m \in vms' : m \in Slots /\ MachineOf(m)'
  BY DEF MachineInv, MachineOf, Slots, Batches
<1>2. \A c \in Batches : bpc'[c] = bpc[c] \/ bpc[c] = "ladder"
  <2>1. JobMoves(k) /\ k[1] \in Batches
    BY JobFrame, JobBatch
  <2>. QED
    BY <2>1 DEF JobMoves, TypeOK
<1>3. \A i \in Jobs : i # k => jpc'[i] = jpc[i]
  BY DEF JobStep, DestroyMiscounted, Acquire, Restore, RestoreFails, Drive, DestroyVm,
         DestroyAfterCrashFails, TimesOut, Completed, Retry, GiveUp, TypeOK
<1>4. \A m \in vms : m # k => MachineOf(m)'
  BY <1>0, <1>2, <1>3, SlotCases DEF MachineOf
<1>5. k \in Slots /\ k[2] # 0
  BY SlotCases
<1>6. CASE DestroyMiscounted(k) \/ DestroyVm(k)
  <2>1. vms' = vms \ {k}
    BY <1>6 DEF DestroyMiscounted, DestroyVm, Destroy, Destroyed, Leaks
  <2>. QED
    BY <1>0, <1>4, <2>1
<1>7. CASE Restore(k)
  <2>1. vms' = vms \cup {k} /\ jpc'[k] = "drive"
    BY <1>7 DEF Restore, TypeOK
  <2>2. MachineOf(k)'
    BY <1>5, <2>1 DEF MachineOf
  <2>. QED
    BY <1>0, <1>4, <1>5, <2>1, <2>2
<1>8. CASE ~(DestroyMiscounted(k) \/ DestroyVm(k) \/ Restore(k))
  <2>1. vms' = vms
    BY <1>8, Zenon DEF JobStep, Acquire, RestoreFails, Drive, DestroyAfterCrashFails, TimesOut, Completed,
                Retry, GiveUp, worker
  <2>2. \/ jpc[k] \in {"acquire", "restore", "done"}
        \/ jpc'[k] \in {"destroy", "stranded"}
    BY <1>8 DEF JobStep, Acquire, RestoreFails, Drive, DestroyAfterCrashFails, TimesOut, Completed,
                Retry, GiveUp, Due, TypeOK
  <2>3. k \in vms => MachineOf(k)'
    BY <1>0, <1>5, <2>2 DEF MachineOf
  <2>. QED
    BY <1>0, <1>4, <2>1, <2>3
<1>. QED
  BY <1>6, <1>7, <1>8

\* A fork that answers with a child too many sends its batch to "unfork", which is left without it.
LEMMA SurplusStep ==
    ASSUME IInv, SurplusInv, [Next]_vars
    PROVE  SurplusInv'
<1>. USE DEF IInv
<1>1. CASE BeginSubmit \/ PipeStep
  <2>1. surplus' = surplus /\ \A c \in Batches : bpc'[c] = bpc[c] \/ bpc[c] = "idle"
    BY <1>1, PipeBpc DEF TypeOK
  <2>. QED
    BY <2>1 DEF SurplusInv, Batches
<1>2. ASSUME NEW b \in Batches, BatchStep(b)
      PROVE  SurplusInv'
  <2>1. \A c \in Batches : c # b => bpc'[c] = bpc[c]
    BY <1>2, BatchFrame DEF BatchMoves, TypeOK
  <2>2. CASE ForkChildren(b)
    <3>1. bpc[b] = "forking" /\ (surplus' = surplus \/ (surplus' = surplus \cup {b} /\ bpc'[b] = "unfork"))
      BY <2>2 DEF ForkChildren, TypeOK
    <3>. QED
      BY <2>1, <3>1 DEF SurplusInv, Batches
  <2>3. CASE DestroySurplus(b)
    <3>1. surplus' = surplus \ {b}
      BY <2>3 DEF DestroySurplus
    <3>. QED
      BY <2>1, <3>1 DEF SurplusInv, Batches
  <2>4. CASE ~ForkChildren(b) /\ ~DestroySurplus(b)
    <3>1. surplus' = surplus
      BY <1>2, <2>4 DEF BatchStep, TryFork, RestoreParent, ForkedDone, DestroyParent, Destroy, Destroyed,
                        Leaks, FirstPassDone, LadderDone, SendCompleted, worker
    <3>2. bpc[b] # "unfork" \/ b \notin surplus
      BY <1>2, <2>4, Zenon DEF BatchStep, TryFork, RestoreParent, ForkedDone, DestroyParent, FirstPassDone,
                        LadderDone, SendCompleted
    <3>. QED
      BY <2>1, <3>1, <3>2 DEF SurplusInv, Batches
  <2>. QED
    BY <2>2, <2>3, <2>4
<1>3. ASSUME NEW k \in Jobs, JobStep(k)
      PROVE  SurplusInv'
  <2>1. surplus' = surplus
    BY <1>3 DEF JobStep, DestroyMiscounted, Acquire, Restore, RestoreFails, Drive, DestroyVm, Destroy,
                Destroyed, Leaks, DestroyAfterCrashFails, TimesOut, Completed, Retry, GiveUp, worker
  <2>2. \A c \in Batches : bpc'[c] = bpc[c] \/ bpc[c] = "ladder"
    <3>1. JobMoves(k) /\ k[1] \in Batches
      BY <1>3, JobFrame, JobBatch
    <3>. QED
      BY <3>1 DEF JobMoves, TypeOK
  <2>. QED
    BY <2>1, <2>2 DEF SurplusInv, Batches
<1>4. CASE UNCHANGED vars
  BY <1>4 DEF vars, batch, worker, SurplusInv
<1>. QED
  BY <1>1, <1>2, <1>3, <1>4 DEF Next, Finished

\* Every step keeps the machines with their owners.
LEMMA MachineStep ==
    ASSUME IInv, PlaceInv, MachineInv, [Next]_vars
    PROVE  MachineInv'
<1>. USE DEF IInv
<1>1. CASE BeginSubmit \/ PipeStep
  <2>1. UNCHANGED <<jpc, vms>> /\ \A b \in Batches : bpc'[b] = bpc[b] \/ bpc[b] = "idle"
    BY <1>1, PipeBpc DEF TypeOK
  <2>2. \A m \in vms : m[1] \in Batches
    BY SlotCases DEF MachineInv
  <2>. QED
    BY <2>1, <2>2 DEF MachineInv, Slots, Batches
<1>2. ASSUME NEW b \in Batches, BatchStep(b)
      PROVE  MachineInv'
  BY <1>2, MachineBatchStep
<1>3. ASSUME NEW k \in Jobs, JobStep(k)
      PROVE  MachineInv'
  BY <1>3, MachineJobStep
<1>4. CASE UNCHANGED vars
  BY <1>4 DEF vars, batch, job, worker, MachineInv
<1>. QED
  BY <1>1, <1>2, <1>3, <1>4 DEF Next, Finished
-----------------------------------------------------------------------------
(* Counting permits.                                                          *)

\* Permits are finite; a family is J + 1 of them.
LEMMA SlotsFinite ==
    /\ \A S : S \subseteq Slots => IsFiniteSet(S) /\ Cardinality(S) \in Nat
    /\ \A b \in Batches : Family(b) \subseteq Slots /\ Cardinality(Family(b)) = J + 1
<1>1. IsFiniteSet(Batches) /\ IsFiniteSet(0..J) /\ Cardinality(0..J) = J + 1
  BY ExecAssumption, FS_Interval DEF Batches
<1>2. IsFiniteSet(Slots)
  BY <1>1, FS_Product, Zenon DEF Slots
<1>3. \A S : S \subseteq Slots => IsFiniteSet(S) /\ Cardinality(S) \in Nat
  BY <1>2, FS_Subset, FS_CardinalityType
<1>4. ASSUME NEW b \in Batches
      PROVE  Family(b) \subseteq Slots /\ Cardinality(Family(b)) = J + 1
  <2>1. IsFiniteSet({b}) /\ Cardinality({b}) = 1
    BY FS_Singleton
  <2>2. Cardinality({b} \X (0..J)) = 1 * (J + 1)
    BY <1>1, <2>1, FS_Product, Zenon
  <2>3. {b} \X (0..J) \subseteq Batches \X (0..J)
    OBVIOUS
  <2>. QED
    BY <2>2, <2>3, ExecAssumption DEF Family, Slots
<1>. QED
  BY <1>3, <1>4

\* Reserving and releasing what is not, and what is, among the permits.
LEMMA AddPermits ==
    ASSUME NEW S, NEW T, S \subseteq Slots, T \subseteq Slots, S \cap T = {}
    PROVE  Cardinality(S \cup T) = Cardinality(S) + Cardinality(T)
<1>1. IsFiniteSet(S) /\ IsFiniteSet(T) /\ Cardinality(S) \in Nat /\ Cardinality(T) \in Nat
  BY SlotsFinite
<1>2. Cardinality(S \cap T) = 0
  BY FS_EmptySet
<1>3. Cardinality(S \cup T) = Cardinality(S) + Cardinality(T) - Cardinality(S \cap T)
  BY <1>1, FS_Union
<1>. QED
  BY <1>1, <1>2, <1>3

\* Permits that are released were held.
LEMMA DropPermits ==
    ASSUME NEW S, NEW T, S \subseteq Slots, T \subseteq S
    PROVE  Cardinality(S \ T) = Cardinality(S) - Cardinality(T)
<1>1. (S \ T) \cup T = S /\ (S \ T) \cap T = {} /\ S \ T \subseteq Slots /\ T \subseteq Slots
  OBVIOUS
<1>2. Cardinality(S) = Cardinality(S \ T) + Cardinality(T)
  BY <1>1, AddPermits
<1>3. Cardinality(S \ T) \in Nat /\ Cardinality(T) \in Nat
  BY <1>1, SlotsFinite
<1>. QED
  BY <1>2, <1>3

\* One permit.
LEMMA OnePermit ==
    ASSUME NEW m \in Slots
    PROVE  {m} \subseteq Slots /\ Cardinality({m}) = 1
BY FS_Singleton

\* The permits after a step, from who has one.
LEMMA PermitsAfter ==
    ASSUME NEW S, S \subseteq Slots
    PROVE  /\ (\A m \in Slots : HasPermit(m)' <=> HasPermit(m)) => Permits' = Permits
           /\ (\A m \in Slots : HasPermit(m)' <=> HasPermit(m) \/ m \in S) => Permits' = Permits \cup S
           /\ (\A m \in Slots : HasPermit(m)' <=> HasPermit(m) /\ m \notin S) => Permits' = Permits \ S
BY DEF Permits, Slots, Batches

\* A job takes a permit with acquire and gives it back when its attempt is over.
LEMMA CountedJobStep ==
    ASSUME IInv, PlaceInv, Counted, NEW k \in Jobs, JobStep(k)
    PROVE  Counted'
<1>. USE DEF IInv
<1>0. k \in Slots /\ k[2] # 0 /\ k[1] \in Batches /\ Permits \subseteq Slots
  BY SlotCases, JobBatch DEF Permits
<1>1. \A m \in Slots : m # k => (HasPermit(m)' <=> HasPermit(m))
  <2>1. JobMoves(k)
    BY JobFrame
  <2>2. \A c \in Batches : after'[c] = after[c] /\ (bpc'[c] = bpc[c] \/ (bpc[c] = "ladder" /\ bpc'[c] = "sendErr"))
    BY <1>0, <2>1 DEF JobMoves, TypeOK
  <2>3. \A c \in Batches : /\ Whole(c)' <=> Whole(c)
                           /\ bpc'[c] \in {"children", "unfork"} <=> bpc[c] \in {"children", "unfork"}
    BY <2>2 DEF Whole
  <2>4. \A i \in Jobs : i # k => jpc'[i] = jpc[i]
    BY DEF JobStep, DestroyMiscounted, Acquire, Restore, RestoreFails, Drive, DestroyVm,
           DestroyAfterCrashFails, TimesOut, Completed, Retry, GiveUp, TypeOK
  <2>. QED
    BY <2>3, <2>4, SlotCases DEF HasPermit
<1>2. Whole(k[1])' <=> Whole(k[1])
  <2>1. JobMoves(k)
    BY JobFrame
  <2>. QED
    BY <1>0, <2>1 DEF JobMoves, TypeOK, Whole
<1>3. jpc[k] \in Attempting \cup {"acquire"} => ~Whole(k[1])
  <2>1. Fresh(k[1]) => jpc[k] = "idle"
    BY FreshIdle
  <2>2. after[k[1]] \in {"pass", "ladder", "reap"}
    BY <1>0 DEF TypeOK
  <2>3. Whole(k[1]) => Fresh(k[1]) \/ (bpc[k[1]] = "unfork" /\ after[k[1]] = "ladder")
    BY <2>2 DEF Whole, Fresh
  <2>4. bpc[k[1]] = "unfork" /\ after[k[1]] = "ladder" => jpc[k] \in {"idle", "miscounted", "done"}
    BY DEF PlaceInv, Place
  <2>. QED
    BY <2>1, <2>3, <2>4, Zenon DEF Attempting
<1>4. HasPermit(k) <=> Whole(k[1]) \/ jpc[k] \in Attempting
  BY <1>0 DEF HasPermit
<1>5. HasPermit(k)' <=> Whole(k[1]) \/ jpc'[k] \in Attempting
  BY <1>0, <1>2 DEF HasPermit, Attempting
<1>6. ASSUME jpc[k] = "acquire", jpc'[k] = "restore", reserved' = reserved + 1
      PROVE  Counted'
  <2>1. ~HasPermit(k) /\ HasPermit(k)'
    BY <1>3, <1>4, <1>5, <1>6 DEF Attempting
  <2>2. Permits' = Permits \cup {k} /\ Permits \cap {k} = {}
    BY <1>0, <1>1, <2>1, PermitsAfter DEF Permits
  <2>3. Cardinality(Permits') = Cardinality(Permits) + 1
    BY <1>0, <2>2, AddPermits, OnePermit, Zenon
  <2>. QED
    BY <1>6, <2>3 DEF Counted
<1>7. ASSUME jpc[k] \in Attempting, jpc'[k] = "done", reserved' = reserved - 1
      PROVE  Counted'
  <2>1. HasPermit(k) /\ ~HasPermit(k)'
    BY <1>3, <1>4, <1>5, <1>7 DEF Attempting
  <2>2. Permits' = Permits \ {k} /\ {k} \subseteq Permits
    BY <1>0, <1>1, <2>1, PermitsAfter DEF Permits
  <2>3. Cardinality(Permits') = Cardinality(Permits) - 1
    BY <1>0, <2>2, DropPermits, OnePermit, Zenon
  <2>. QED
    BY <1>7, <2>3 DEF Counted
<1>8. ASSUME jpc[k] \in Attempting <=> jpc'[k] \in Attempting, reserved' = reserved
      PROVE  Counted'
  <2>1. HasPermit(k)' <=> HasPermit(k)
    BY <1>4, <1>5, <1>8
  <2>2. Permits' = Permits
    BY <1>0, <1>1, <2>1, PermitsAfter
  <2>. QED
    BY <1>8, <2>2 DEF Counted
<1>9. CASE Acquire(k)
  <2>1. \/ jpc[k] = "acquire" /\ jpc'[k] = "restore" /\ reserved' = reserved + 1
        \/ jpc[k] = "acquire" /\ jpc'[k] = "done" /\ reserved' = reserved
    BY <1>9 DEF Acquire, TypeOK
  <2>. QED
    BY <1>6, <1>8, <2>1 DEF Attempting
<1>10. CASE RestoreFails(k) \/ DestroyVm(k)
  <2>1. jpc[k] \in Attempting /\ jpc'[k] = "done" /\ reserved' = reserved - 1
    BY <1>10 DEF RestoreFails, DestroyVm, TypeOK, Attempting
  <2>. QED
    BY <1>7, <2>1
<1>11. CASE TimesOut(k)
  <2>1. \/ jpc[k] \in Attempting /\ jpc'[k] = "done" /\ reserved' = reserved - 1
        \/ jpc[k] \in Attempting /\ jpc'[k] = "stranded" /\ reserved' = reserved
    BY <1>11 DEF TimesOut, TypeOK, Attempting
  <2>. QED
    BY <1>7, <1>8, <2>1 DEF Attempting
<1>12. CASE DestroyMiscounted(k) \/ Restore(k) \/ Drive(k) \/ DestroyAfterCrashFails(k)
  <2>1. reserved' = reserved
    BY <1>12 DEF DestroyMiscounted, Restore, Drive, DestroyAfterCrashFails
  <2>2. jpc[k] \in Attempting <=> jpc'[k] \in Attempting
    BY <1>12 DEF DestroyMiscounted, Restore, Drive, DestroyAfterCrashFails, TypeOK, Attempting
  <2>. QED
    BY <1>8, <2>1, <2>2
<1>13. CASE Completed(k) \/ Retry(k) \/ GiveUp(k)
  <2>1. reserved' = reserved /\ jpc[k] = "done" /\ jpc'[k] \in {"done", "acquire"}
    BY <1>13 DEF Completed, Retry, GiveUp, Due, TypeOK
  <2>. QED
    BY <1>8, <2>1 DEF Attempting
<1>. QED
  BY <1>9, <1>10, <1>11, <1>12, <1>13 DEF JobStep

\* A batch reserves for the family at once, and gives back what its children have not taken over.
LEMMA CountedBatchStep ==
    ASSUME IInv, PlaceInv, Counted, NEW b \in Batches, BatchStep(b)
    PROVE  Counted'
<1>. USE DEF IInv
<1>0. /\ Permits \subseteq Slots /\ Parent(b) \in Slots /\ Family(b) \subseteq Slots
      /\ \A m \in Slots : /\ m \in Family(b) <=> m[1] = b
                          /\ m[1] = b /\ m[2] = 0 <=> m = Parent(b)
                          /\ m[1] = b /\ m[2] # 0 => m \in JobsOf(b) /\ m \in Jobs
  BY SlotCases, ExecAssumption DEF Permits, Slots, Family, Parent, JobsOf, Jobs
<1>1. \A m \in Slots : m[1] # b => (HasPermit(m)' <=> HasPermit(m))
  <2>1. \A c \in Batches : c # b => bpc'[c] = bpc[c]
    BY BatchFrame DEF BatchMoves, TypeOK
  <2>2. \A c \in Batches : c # b => after'[c] = after[c]
    BY DEF BatchStep, TryFork, RestoreParent, ForkChildren, ForkedDone, DestroyParent,
           DestroySurplus, batch, FirstPassDone, LadderDone, SendCompleted, TypeOK
  <2>3. \A i \in Jobs : i \notin JobsOf(b) => jpc'[i] = jpc[i]
    BY Zenon DEF BatchStep, TryFork, RestoreParent, ForkChildren, ForkedDone, DestroyParent,
           DestroySurplus, batch, FirstPassDone, LadderDone, SendCompleted, TypeOK, At, job
  <2>4. \A m \in Slots : m[1] # b => m \notin JobsOf(b)
    BY JobBatch
  <2>. QED
    BY <2>1, <2>2, <2>3, <2>4, SlotCases, Zenon DEF HasPermit, Whole
<1>2. ASSUME \A m \in Slots : m[1] = b => (HasPermit(m)' <=> HasPermit(m)), reserved' = reserved
      PROVE  Counted'
  <2>1. Permits' = Permits
    BY <1>0, <1>1, <1>2, PermitsAfter
  <2>. QED
    BY <1>2, <2>1 DEF Counted
<1>3. ASSUME \A m \in Slots : m[1] = b => HasPermit(m) /\ ~HasPermit(m)', reserved' = reserved - (J + 1)
      PROVE  Counted'
  <2>1. Permits' = Permits \ Family(b) /\ Family(b) \subseteq Permits
    BY <1>0, <1>1, <1>3, PermitsAfter DEF Permits
  <2>2. Cardinality(Permits') = Cardinality(Permits) - (J + 1)
    BY <1>0, <2>1, DropPermits, SlotsFinite
  <2>. QED
    BY <1>3, <2>2 DEF Counted
<1>4. CASE TryFork(b)
  <2>1. bpc[b] = "fork" /\ \A m \in Slots : m[1] = b => ~HasPermit(m)
    <3>1. bpc[b] = "fork" /\ Fresh(b)
      BY <1>4 DEF TryFork, Fresh
    <3>2. \A k \in JobsOf(b) : jpc[k] = "idle"
      BY <3>1, FreshIdle, JobBatch
    <3>. QED
      BY <1>0, <3>1, <3>2 DEF HasPermit, Whole, Attempting
  <2>2. CASE bpc'[b] = "parent"
    <3>1. reserved' = reserved + J + 1
      BY <1>4, <2>2 DEF TryFork, TypeOK
    <3>2. \A m \in Slots : m[1] = b => HasPermit(m)'
      BY <2>2 DEF HasPermit, Whole
    <3>3. Permits' = Permits \cup Family(b) /\ Permits \cap Family(b) = {}
      BY <1>0, <1>1, <2>1, <3>2, PermitsAfter DEF Permits
    <3>4. Cardinality(Permits') = Cardinality(Permits) + (J + 1)
      BY <1>0, <3>3, AddPermits, SlotsFinite
    <3>5. Cardinality(Permits) \in Nat
      BY <1>0, SlotsFinite
    <3>. QED
      BY <3>1, <3>4, <3>5, ExecAssumption DEF Counted
  <2>3. CASE bpc'[b] # "parent"
    <3>1. bpc'[b] \in {"pass", "ladder"} /\ reserved' = reserved /\ \A k \in JobsOf(b) : jpc'[k] \in {"acquire", "done"}
      BY <1>4, <2>3, JobBatch DEF TryFork, At, TypeOK
    <3>2. \A m \in Slots : m[1] = b => ~HasPermit(m)'
      BY <1>0, <3>1 DEF HasPermit, Whole, Attempting
    <3>. QED
      BY <1>2, <2>1, <3>1, <3>2
  <2>. QED
    BY <2>2, <2>3
<1>5. CASE RestoreParent(b)
  <2>1. \A m \in Slots : m[1] = b => HasPermit(m)
    BY <1>5, Zenon DEF RestoreParent, HasPermit, Whole
  <2>2. CASE bpc'[b] = "forking"
    <3>1. reserved' = reserved
      BY <1>5, <2>2 DEF RestoreParent, TypeOK
    <3>2. \A m \in Slots : m[1] = b => HasPermit(m)'
      BY <2>2 DEF HasPermit, Whole
    <3>. QED
      BY <1>2, <2>1, <3>1, <3>2
  <2>3. CASE bpc'[b] # "forking"
    <3>1. /\ bpc'[b] = "pass" /\ reserved' = reserved - (J + 1)
          /\ \A k \in JobsOf(b) : jpc'[k] = "acquire"
      BY <1>5, <2>3, JobBatch DEF RestoreParent, At, TypeOK
    <3>2. \A m \in Slots : m[1] = b => ~HasPermit(m)'
      BY <1>0, <3>1 DEF HasPermit, Whole, Attempting
    <3>. QED
      BY <1>3, <2>1, <3>1, <3>2
  <2>. QED
    BY <2>2, <2>3
<1>6. CASE ForkChildren(b)
  <2>1. \A m \in Slots : m[1] = b => HasPermit(m)
    BY <1>6 DEF ForkChildren, HasPermit, Whole
  <2>2. reserved' = reserved
    BY <1>6 DEF ForkChildren
  <2>3. \/ bpc'[b] = "children" /\ \A k \in JobsOf(b) : jpc'[k] = "drive"
        \/ bpc'[b] = "unfork" /\ after'[b] # "reap"
    BY <1>6, JobBatch DEF ForkChildren, At, TypeOK
  <2>4. \A m \in Slots : m[1] = b => HasPermit(m)'
    BY <1>0, <2>3 DEF HasPermit, Whole, Attempting
  <2>. QED
    BY <1>2, <2>1, <2>2, <2>4
<1>7. CASE ForkedDone(b)
  <2>1. /\ bpc[b] = "children" /\ bpc'[b] = "unfork" /\ after'[b] = "reap" /\ reserved' = reserved /\ jpc' = jpc
    BY <1>7 DEF ForkedDone, TypeOK, job
  <2>2. \A m \in Slots : m[1] = b => (HasPermit(m)' <=> HasPermit(m))
    BY <1>0, <2>1 DEF HasPermit, Whole
  <2>. QED
    BY <1>2, <2>1, <2>2, Zenon
<1>8. CASE DestroyParent(b)
  <2>1. /\ bpc[b] = "unfork" /\ bpc'[b] \in {"pass", "ladder"}
        /\ \A k \in JobsOf(b) : jpc'[k] \in {"acquire", "done"}
    BY <1>8, JobBatch DEF DestroyParent, At, TypeOK
  <2>2. \A m \in Slots : m[1] = b => ~HasPermit(m)'
    BY <1>0, <2>1 DEF HasPermit, Whole, Attempting
  <2>3. CASE after[b] = "reap"
    <3>1. reserved' = reserved - 1
      BY <1>8, <2>3 DEF DestroyParent
    <3>2. \A k \in JobsOf(b) : jpc[k] = "done"
      BY <2>1, <2>3, JobBatch DEF PlaceInv, Place
    <3>3. \A m \in Slots : m[1] = b => (HasPermit(m) <=> m = Parent(b))
      BY <1>0, <2>1, <2>3, <3>2 DEF HasPermit, Whole, Attempting
    <3>4. PICK p \in Slots : p = Parent(b)
      BY <1>0
    <3>5. \A m \in Slots : HasPermit(m)' <=> HasPermit(m) /\ m \notin {p}
      BY <1>0, <1>1, <2>2, <3>3, <3>4
    <3>6. p \in Permits
      BY <1>0, <3>3, <3>4 DEF Permits
    <3>7. Permits' = Permits \ {p}
      BY <3>5, OnePermit, PermitsAfter, Zenon
    <3>8. Cardinality(Permits') = Cardinality(Permits) - 1
      <4>1. {p} \subseteq Permits /\ Cardinality({p}) = 1
        BY <3>6, OnePermit
      <4>2. Cardinality(Permits \ {p}) = Cardinality(Permits) - Cardinality({p})
        BY <1>0, <4>1, DropPermits
      <4>. QED
        BY <3>7, <4>1, <4>2
    <3>. QED
      BY <3>1, <3>8 DEF Counted
  <2>4. CASE after[b] # "reap"
    <3>1. reserved' = reserved - (J + 1)
      BY <1>8, <2>4 DEF DestroyParent
    <3>2. \A m \in Slots : m[1] = b => HasPermit(m)
      BY <2>1, <2>4 DEF HasPermit, Whole
    <3>. QED
      BY <1>3, <2>2, <3>1, <3>2
  <2>. QED
    BY <2>3, <2>4
<1>9. CASE FirstPassDone(b) \/ LadderDone(b) \/ SendCompleted(b)
  <2>1. /\ reserved' = reserved /\ jpc' = jpc
        /\ bpc[b] \in {"pass", "ladder", "send", "sendErr"} /\ bpc'[b] \in {"ladder", "send", "over"}
    BY <1>9 DEF FirstPassDone, LadderDone, SendCompleted, TypeOK, job
  <2>2. \A m \in Slots : m[1] = b => (HasPermit(m)' <=> HasPermit(m))
    BY <2>1, Zenon DEF HasPermit, Whole
  <2>. QED
    BY <1>2, <2>1, <2>2
<1>10. CASE DestroySurplus(b)
  <2>1. UNCHANGED <<bpc, after, jpc, reserved>>
    BY <1>10 DEF DestroySurplus, batch, job
  <2>2. \A m \in Slots : m[1] = b => (HasPermit(m)' <=> HasPermit(m))
    BY <2>1, Zenon DEF HasPermit, Whole
  <2>. QED
    BY <1>2, <2>1, <2>2
<1>. QED
  BY <1>4, <1>5, <1>6, <1>7, <1>8, <1>9, <1>10 DEF BatchStep

\* Every step counts what it reserves and releases.
LEMMA CountedStep ==
    ASSUME IInv, PlaceInv, Counted, [Next]_vars
    PROVE  Counted'
<1>1. CASE BeginSubmit \/ PipeStep
  <2>0. /\ UNCHANGED <<after, jpc, reserved>>
        /\ bpc' = bpc \/ (taken \in Batches /\ bpc[taken] = "idle" /\ bpc' = [bpc EXCEPT ![taken] = "fork"])
    BY <1>1, PipeBpc DEF IInv
  <2>1. /\ UNCHANGED <<after, jpc, reserved>>
        /\ \A b \in Batches : bpc'[b] = bpc[b] \/ (bpc[b] = "idle" /\ bpc'[b] = "fork")
    BY <2>0 DEF IInv, TypeOK
  <2>2. \A m \in Slots : HasPermit(m)' <=> HasPermit(m)
    BY <2>1, SlotCases, Zenon DEF HasPermit, Whole
  <2>3. Permits' = Permits
    BY <2>2, PermitsAfter
  <2>. QED
    BY <2>1, <2>3 DEF Counted
<1>2. ASSUME NEW b \in Batches, BatchStep(b)
      PROVE  Counted'
  BY <1>2, CountedBatchStep
<1>3. ASSUME NEW k \in Jobs, JobStep(k)
      PROVE  Counted'
  BY <1>3, CountedJobStep
<1>4. CASE UNCHANGED vars
  <2>1. UNCHANGED <<bpc, after, jpc, reserved>>
    BY <1>4 DEF vars, batch, job
  <2>2. Permits' = Permits
    BY <2>1 DEF Permits, HasPermit, Whole
  <2>. QED
    BY <2>1, <2>2 DEF Counted
<1>. QED
  BY <1>1, <1>2, <1>3, <1>4 DEF Next, Finished
-----------------------------------------------------------------------------
(* The theorems.                                                              *)

\* At the start nothing runs and nothing is reserved.
LEMMA InitPermits == Init => PermitInv
<1>. SUFFICES ASSUME Init
              PROVE  PermitInv
  OBVIOUS
<1>1. PlaceInv
  BY JobBatch DEF Init, PlaceInv, Place
<1>2. MachineInv /\ SurplusInv /\ RunningInv
  BY DEF Init, MachineInv, SurplusInv, RunningInv
<1>3. \A m \in Slots : ~HasPermit(m)
  BY SlotCases DEF Init, HasPermit, Whole, Attempting
<1>4. Permits = {}
  BY <1>3 DEF Permits
<1>5. Counted
  BY <1>4, FS_EmptySet DEF Counted, Init
<1>. QED
  BY <1>1, <1>2, <1>5 DEF PermitInv

\* The strengthening of the driver's accounting: what is reserved is exactly the permits that batches and
\* jobs hold at their places, and a machine's owner holds one.
THEOREM PermitInvariance == Spec => []PermitInv
<1>1. IInv /\ PermitInv /\ [Next]_vars => PermitInv'
  BY PlaceStep, RunningStep, MachineStep, SurplusStep, CountedStep DEF PermitInv
<1>. QED
  BY InitPermits, BatchInvariance, <1>1, PTL DEF Spec

\* A machine is in the hands of a holder of a permit.
LEMMA MachinesHavePermits ==
    ASSUME IInv, PermitInv
    PROVE  vms \subseteq Permits
<1>. SUFFICES ASSUME NEW m \in vms
              PROVE  m \in Permits
  OBVIOUS
<1>1. m \in Slots /\ m[1] \in Batches
  BY SlotCases DEF PermitInv, MachineInv
<1>2. CASE m[2] = 0
  BY <1>1, <1>2 DEF PermitInv, MachineInv, Permits, HasPermit, Whole
<1>3. CASE m[2] # 0
  <2>1. m \in Jobs /\ jpc[m] \in {"drive", "destroy", "stranded", "miscounted"}
    BY <1>1, <1>3, SlotCases DEF PermitInv, MachineInv
  <2>2. CASE jpc[m] # "miscounted"
    BY <1>1, <1>3, <2>1, <2>2 DEF Permits, HasPermit, Attempting
  <2>3. CASE jpc[m] = "miscounted"
    <3>1. ~Fresh(m[1])
      BY <2>1, <2>3, FreshIdle DEF IInv
    <3>2. bpc[m[1]] \in BatchLabels /\ after[m[1]] \in {"pass", "ladder", "reap"}
      BY <1>1 DEF IInv, TypeOK
    <3>3. bpc[m[1]] = "unfork" /\ after[m[1]] = "ladder"
      BY <2>1, <2>3, <3>1, <3>2, Zenon DEF PermitInv, PlaceInv, Place, Fresh, BatchLabels, Attempting
    <3>. QED
      BY <1>1, <3>3 DEF Permits, HasPermit, Whole
  <2>. QED
    BY <2>2, <2>3
<1>. QED
  BY <1>2, <1>3

\* On every path of the driver (fork fallback, miscounted fork, error, timeout, abort) a machine is
\* covered by a permit until it is destroyed or given up, a batch whose result is handed on has nothing
\* left, not even a child nobody asked for, and in the end the view has its reservations back: for any number of batches, jobs, slots and
\* faults.
THEOREM PermitsComeBack == Spec => []NothingLeftBehind
<1>1. IInv /\ PermitInv => NothingLeftBehind
  <2>. SUFFICES ASSUME IInv, PermitInv
                PROVE  NothingLeftBehind
    OBVIOUS
  <2>1. Cardinality(vms) <= reserved
    <3>1. vms \subseteq Permits /\ IsFiniteSet(Permits)
      BY MachinesHavePermits, SlotsFinite DEF Permits
    <3>2. Cardinality(vms) <= Cardinality(Permits)
      BY <3>1, FS_Subset
    <3>. QED
      BY <3>2 DEF PermitInv, Counted
  <2>2. ASSUME NEW b \in Batches, bpc[b] \in {"send", "sendErr", "over"}
        PROVE  /\ b \notin surplus /\ \A m \in vms : m[1] # b
               /\ \A k \in JobsOf(b) : jpc[k] \in {"idle", "done"}
    <3>1. \A k \in JobsOf(b) : jpc[k] = "done"
      BY <2>2, JobBatch DEF PermitInv, PlaceInv, Place
    <3>2. ASSUME NEW m \in vms, m[1] = b
          PROVE  FALSE
      <4>1. m \in Slots /\ m[2] # 0 /\ m \in Jobs
        BY <2>2, <3>2, SlotCases DEF PermitInv, MachineInv
      <4>2. m \in JobsOf(b)
        BY <3>2, <4>1 DEF Jobs, JobsOf
      <4>. QED
        BY <3>1, <3>2, <4>1, <4>2 DEF PermitInv, MachineInv
    <3>3. b \notin surplus
      BY <2>2 DEF PermitInv, SurplusInv
    <3>. QED
      BY <3>1, <3>2, <3>3
  <2>3. ASSUME running = {}
        PROVE  reserved = 0
    <3>1. \A b \in Batches : bpc[b] \in {"idle", "over"}
      BY <2>3 DEF PermitInv, RunningInv
    <3>2. \A k \in Jobs : jpc[k] \in {"idle", "done"}
      BY <3>1, FreshIdle, JobBatch DEF IInv, PermitInv, PlaceInv, Place, Fresh
    <3>3. \A m \in Slots : ~HasPermit(m)
      BY <3>1, <3>2, SlotCases DEF HasPermit, Whole, Attempting
    <3>4. Permits = {}
      BY <3>3 DEF Permits
    <3>. QED
      BY <3>4, FS_EmptySet DEF PermitInv, Counted
  <2>. QED
    BY <2>1, <2>2, <2>3, Zenon DEF NothingLeftBehind
<1>. QED
  BY BatchInvariance, PermitInvariance, <1>1, PTL
=============================================================================
