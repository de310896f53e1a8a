# Formal model of the exploration orchestrator

The orchestrator runs a search over machine states. It keeps a tree of committed nodes in a
snapshot store. In each round it selects a frontier node, asks an input synthesizer for bursts,
runs them as jobs on hypervisor slots, has the captured states scored, and commits the children
that survive the commit rules. The process may die at any await and must resume the same search.

The modules here model that machinery in TLA+. TLC checks them on small instances and TLAPS proves
the central safety properties for every value of the constants.

## The system

| Part | State | Operations | Module |
|---|---|---|---|
| Experiment runner (`orch-server/experiment.rs`) | batch counter, in-flight set, replay queue, status, checkpoint generation | start, bootstrap, resume, select, commit, checkpoint, pause/resume/stop, fail | `ExperimentRunner`, `BatchLedger` |
| Commit rules (`orch-core/commit.rs`, `tree.rs`, `frontier.rs`, `mirror.rs`) | tree, frontier, seen map, cell mirror, streaks | commit a child, commit a batch, evict a parent, rebuild, replay a batch | `CommitRules` |
| Resume of a search | the above, rebuilt from rows, checkpoint and log | crash, rebuild, replay | `ReplayedSearch` |
| Launch configuration (`orch-server/config.rs`, `orch-core/types.rs`) | none | effective configuration, validation, back to the wire, hash | `LaunchConfig` |
| Feature maps (`orch-core/compile.rs`) | none | validate, compile, coarsen | `FeatureMaps` |
| Plateau and ladder (`orch-core/plateau.rs`) | stall counters, level, map version | observe, escalate, checkpoint, restore | `Ladder` |
| Policies (`orch-core/policy`) | none | softmax, UCB, staged selection | `Policies` |
| Synthesizer client (`orch-driver`) | fingerprint registry | bring-up, request from the store, guard | `SynthClient` |
| Whole experiment | all of these, one or two processes | start, bring-up, select, propose, commit, re-bin, checkpoint, take over | `EscalatedSearch` |
| Slot view (`orch-sched/slots.rs`) | capacity, reservations, live slots, queue of waiters | acquire, try_acquire, drop of a permit, wake-up, drain | `SlotView` |
| Pipeline, driver, retry (`orch-sched`) | bounded channels, reorder buffer, leases, attempts | submit, fork or restore, drive, destroy, retry, complete | `BatchExecution` |
| Service (`orch-server/service.rs`) | registry, reservation, control channels, status watch | start, pause, resume, stop, shutdown | `Service` |
| Progress stream (`orch-server/service.rs`), events (`events.rs`) | last snapshot, goals owed; event ring | initial event, round, end; emit, flush | `ProgressStream`, `EventRing` |
| Simulated services (`orch-fakes`) | slots and snapshots; rows and metadata; archive and cache; packs | their RPCs, and the fault plan | `FakeWorker` on `GridWorld`, `FakeStore`, `FakeScorer`, `FakeSynth`, `Faults` |
| Simulated world (`orch-simstate`) | the journal and the services behind it | create, append, apply, answer, load, reopen | `SimulatedWorld` |

`PROJECT.json` lists every component, with the reason for the ones left out, and maps each
definition to the lines it models.

What makes this code hard to test: a crash between any two of about twenty awaits; a batch half
written to the store; a checkpoint that covers batches in flight or queued for replay; two copies
of the commit rules, one for fresh and one for replayed batches, that must agree; control messages
arriving in the middle of a replay; permits, machines and channels given back on every path of a
job, whatever fails or times out; calls that wait on a status of which only the latest value is
kept; a ladder, a fingerprint and a configuration that must mean the same after a restart; two
processes that both believe they own the checkpoint; a journal cut in the middle of a frame. The `hazards` of `PROJECT.json` name the lines.

## Modules

### ExperimentRunner and BatchLedger

`ExperimentRunner` is the recovery protocol. `rows`, `ckpt`, `wal` and the scorer's archive are
durable. Everything else is memory and is lost by `Crash`. `pc` names the await the runner task is
at, and each action is the code between two awaits. A child row is identified by
`<<batch, child>>`. How many children a batch commits, and whether one is a goal, is an oracle drawn
when the batch first runs (`kids`, `goals`), because jobs are pure functions of the logged intent.

`BatchLedger` is what the runner promises: a sequence of batches, each committed as a whole, once,
in an order in which nothing is lost. `RefinesLedger` states that the durable state of the runner,
seen through the checkpoint and the log, implements it.

Correspondence with the code: `StartFresh`, `BootstrapRoot`, `BootstrapArchive` are
`start_with_metrics` and `bootstrap_fresh`; `StartResume` to `ResumeFinish` are `resume` and
`load_wal_entries`; `PopReplay`, `ReplayExecute`, `ReplayDone` are the replay loop of `run_phases`;
`CheckBudget` to `Parked` are `run_loop` and `handle_control`; `BeginCommit` to `FinishCommit` are
`commit_completed` and `commit_replayed`; `CheckpointArchive` to `FinishCheckpoint` are `checkpoint`.
`RpcFails` is any RPC that exhausts its retries and takes the run to its final checkpoint.

Simplifications. There is one runner, so the ownership test of `ensure_checkpoint_owner` always
succeeds (`EscalatedSearch` has two). Budgets are one bound, `MaxExpansions`. Whether the frontier is empty is a free choice.
The seconds cadence of checkpoints is a free choice when `EverySeconds` is set. Jobs abandoned in
fast mode, re-binning (in `EscalatedSearch`), and the archive sequence mismatch at resume are left out. A failing `start`
is a crash.

### CommitRules and ReplayedSearch

`CommitRules` has the rules as operators on a record that mirrors `CommitState`. `CommitBatch` is
`commit_completed` with `commit_batch`; `ReplayBatch` is `commit_replayed`. A captured state is a
model value with a fixed cell, score, prune and goal verdict.

`ReplayedSearch` runs them in deterministic mode. A batch is applied in memory in one step and then
written row by row. `CrashAndResume` rebuilds the state from rows, checkpoint and log. Next to the
live state it carries `ref`, the state of the same batches committed without any crash, and the
properties compare the two. `RebuiltNode`, `CatchUp` and `PostCheckpoint` are the loop of `resume`
over the rows, shared with `EscalatedSearch`. The burst id of a child is `<<batch, job>>`, because the code derives it
from the batch seed and the slot.

### EscalatedSearch and its components

`EscalatedSearch` composes the components that decide what an experiment does next. `LaunchConfig`
turns a sparse wire configuration into the effective one. `FeatureMaps` compiles the feature map into
byte ranges and fields, and coarsens it for a re-bin. `Ladder` has the stall detector and the
escalation levels with their knobs. `Policies` has the three selection policies. `SynthClient` builds
requests from the rows of the store and guards fingerprints; `FakeSynth` answers them, and `Faults`
decides what goes wrong.

The state of a process is one record of `host`; `pc` names its next RPC. `Starts` to
`RestoresArchive` are `start_with_metrics`, `bring_up`, `bootstrap_fresh` and `resume`. `PopsIntent`,
`BuildsIntent` and `Ends` are the heads of the replay loop and of `run_loop`. `Proposes` is one attempt
of `guarded_propose`, `Logs` the WAL write, `ChecksOwner` is `ensure_checkpoint_owner`, `CommitsRow` and
`FinishesBatch` are the two halves of a commit around its store writes. A re-bin goes back through
`LoadsScorer` and `LoadsSynth`, which are `bring_up` in both uses. `Archives`, `Puts` and `Truncates` are
`checkpoint`. A put may take effect and lose its acknowledgement, and is then repeated as it was.
`OtherLoads` is another experiment that loads a pack into the same synthesizer.

Simplifications. A batch has one child and one batch is in flight; `ReplayedSearch` and
`ExperimentRunner` have the rest. Real numbers are integers: weights and factors in thousandths,
normalised scores and draws in parts of `Unit`, and `exp`, `ln` and square roots are monotone tables.
The random streams are constants indexed by the batch number, as the code derives them from it. The
outcome of a burst on a state is chosen once and kept in `guest`, because jobs are pure. The scorer is
its layout and its committed hashes. A failed experiment is not started again.

### SlotView

One permit is one reservation. Each step is one critical section of the view's mutex, so a second
thread can run between the two sections of `wake_free_waiters`, and between the decrement of a
dropped permit and the wake-up after it. `Tasks` are jobs; those in `Forkers` first take `Width`
permits with `try_acquire` and fall back to `acquire`. The worker keeps its machines and appends an
event for each creation and destruction; the drain task reads events and capacity in two RPCs and
applies them in a third step. An acquire may be cancelled, the pool resized, an RPC of the drain may
fail or return a prefix, a restore or a fork may fail, and a destroy may give up after its attempts.
Its permit is dropped all the same; the machine stays on the worker (`leaked`), and so does its parent
(`orphaned`). `Free` takes the larger of reservations and live slots, so a leaked machine hides behind
the reservation of a job, and even an up-to-date view then admits one job too many. The job meets
RESOURCE_EXHAUSTED and asks again until a machine of another job is gone. `ReservedExact` says that
leaked machines are the only cause of this while the pool keeps its size, and `EventuallyServed` that a
waiter waits for ever only when they fill the pool.

Simplifications. The worker never reuses a slot id, so an event is +1 or -1 and `live` is a sum. The
worker starts without machines. The permits of a fork are dropped one after another. After a
refused fork the batch acquires one permit, where the code starts one task per job.

### BatchExecution

Everything between `submit` and the result: the two bounded channels, the executor's semaphore, the
reorder buffer, the fork path with its fallbacks, the restore path, the teardown of a job, the retry
ladder, and the worker's rules (capacity; a machine with live children cannot be destroyed). `bpc`
is the position of a batch task, `jpc` of a job. A machine belongs to `vms` while some task owns it
and is counted in `leaked` once its destroy has given up. A fork may answer with fewer children than
asked for or with one more (`surplus`); the driver destroys all of them and the parent, and the jobs go
to the ladder.

Simplifications. The slot view is exact, as `SlotView` justifies, and the permits of a fork are taken
in one step. InjectInputs, Run and TakeSnapshot are one step. The attempts of `destroy_with_retry`
are one step that succeeds or gives up. Deterministic mode has one batch in flight, which the
configuration enforces. Back-off and the length of the deadline are not modelled: a deadline may
expire at any await behind the permit. `FirstPassDone` keeps two facts of the code visible: the first
pass of a job has no deadline, and it is an attempt in addition to the ladder's.

### Service and ProgressStream

`Service` has the calls on one experiment id. A runner shows only its control channel, its watched
state and the end of its task; `ExperimentRunner` has its inside. `entry` and `starting` are the
registry and the set of reserved ids, which two locks protect: `Start` holds the first up to the
reservation, `Spawns` holds neither, `Registers` holds both. `Leaves`, `Closes` and `Returns` keep the
order of the end of `run`: the final state is set, the last checkpoint made, the state published, the
channels closed. `CancelsStart` drops a Start call at an await, as the server does when its client
goes away. A waiter is one step, enabled while the latest status ends its wait, because
`watch::changed` reports that there is a newer value and never which ones were overwritten.

`ProgressStream` follows the status watch of one run. `unseen` is the version test of the watch.
`After(n)` are the statuses that n commits can lead to; a drain makes several commits and publishes
once. A round of the stream is one step, since what is published between its reads is seen by the
next round. Escalation and stall edges leave nothing behind in the stream and are left out; the
level is kept because it makes a transition. `EventRing` is the emitter of observatory events: a
flush before and after each event, up to the first that the sink refuses.

### SimulatedWorld and the simulated services

`orchestratord --simulate --state-dir` keeps its services in memory and their mutating calls in a
journal. `AppendOp`, `ApplyOp` and `Answer` are the three steps of `journaled`: the request is appended,
the operation takes effect, a digest of the answer is appended. `Killed` may come between any two of
them, or leave a torn frame. `Load` and `Reopen` are the halves of `reload_inner`. The services are
operators on records, one per RPC, with their error paths in the order of the code: `FakeWorker`
(machines, forks, inputs, snapshots, slot events) runs the guest of `GridWorld`; `FakeStore` has rows
and conditional metadata; `FakeScorer` the archive, its cache and its checkpoints; `FakeSynth` packs,
mixes and proposals.

A snapshot's reference covers the state, the frame, the clocks and the log of inputs, and not the
inputs still to come. `ReferenceDeterminesFuture` says that it determines them none the less: for later
frames they are what the log implies, and in the present frame any difference is of inputs that do not
change what the guest shows in a frame to come. A machine whose clock has overflowed and fallen behind
its frames (`InStep` is false) is excepted, because its log no longer tells when an input is due.

Hashes are modelled as what they hash, so that equal hashes mean equal contents. Frame buffers,
floating-point scores, and the text of documents and errors are left out. Reads pass the journal by
and are not steps. One of them moves something: `watch_slots` advances the cursor of its caller. The
cursor is not journaled and starts over with each process; `SlotView` has it for its drain task
(`drained`), and `FakeWorker` leaves it out. `MCSimulatedWorld` also evaluates on start that both worlds of the tests can be
solved, that the boss room is not reached without the key, and that the encoding of a state decodes
to it.

Operators such as `NextIdFromCheckpoint`, `NeverAdopted` or `CasAlways`, which nothing uses, are deliberately
wrong variants of the definition that follows them. Each property is known to fail when one of them
takes the place of that definition.

## Runs

| Run | Shows |
|---|---|
| `RunnerSeq` | deterministic mode, two crashes: nothing covered is lost, everything uncovered is logged, replay counts are exact, dedup set and archive stay in lockstep, the ledger is refined, the run ends |
| `RunnerControl` | two batches in flight in any completion order, failing RPCs, two control messages, a crash: rows unique, ids dense, PAUSED visible only when durable and nothing in flight, Stop ends the run |
| `ReplaySearch` | a search with regressions, pruned rows, goals and duplicates, two crashes: same rows, ids, hashes, dedup set and frontier as without them; evictions final; while nothing regressed or was pruned, everything selection reads is the same |
| `EscalatedSearch` | whole experiments with crashes, a second process, faults, foreign packs and lost acknowledgements: ladder and intents as without crashes, replayed batches get their bursts, captures fit the map in use after a re-bin, restarts are accepted however the configuration is written, the fingerprint stays pinned, draws are fair, the checkpoint never goes back |
| `SlotView` | two jobs and a fork on two slots, one mishap: reservations exact, room for every permit holder but for leaked machines, every waiter served unless they fill the pool |
| `BatchExecution` | two batches of two jobs on three slots, both modes, any two mishaps: everything given back, results handed back once and in order with all outcomes, batches complete |
| `Service` | two Start calls, two control calls, a shutdown, one dropped call: one runner, no silent rerun, Stop and shutdown answer after the final checkpoint, nobody waits for ever |
| `ProgressStream` | a run of up to three goals with drains, pauses and a failing sink: goals in order, once and in the end, the final state sent, every event delivered, held or counted as lost |
| `SimulatedWorld` | four services behind a journal, killed and reloaded: memory is the replay of the journal, answers stay true; slots, snapshots, tree and cache consistent |

Bounds. Two crashes are needed for a crash inside a resume. Two batches in flight are the smallest
number with a reordering. Three batches are needed for a batch that is committed, one that is half
committed and one that is only logged, and for a state that regresses, is kept later and is then
replayed. Two children are the smallest batch with a middle. `ExperimentRunner` has no data beyond
counters, so larger instances repeat the same cases. In `SlotView` two slots and three tasks make a
queue, a partly successful fork and two concurrent wakers; one mishap at a time suffices because each
kind starts its own race. In `BatchExecution` three slots let one batch fork while the other falls
back, and two mishaps are a fault and the failure of its clean-up; the worker checks room for the
children asked for only, so a child too many exists beside the two of a full fork. In `ReplaySearch` bursts reach
every state but the root's; a duplicate of another node takes the same path. In `Service` two Start
calls and two runs are the smallest race and the smallest rerun, and two control calls put one
message before another. In `ProgressStream` three goals are one seen at the start and two that
arrive together.

`RunnerControl` has two batches and one crash only. That rows are unique and ids dense is proved
for all constants (below); the small instance is there for the controls, where the messages multiply the
states. `EscalatedSearch` chooses one of four workloads. `ladder` has six batches, of which four stalls
lead to the re-bin, and a checkpoint at least every four, so that a crash loses several observations
and the replay crosses levels and the re-bin. `packs` has a failing or lying synthesizer and a foreign
pack. `owners` has two processes from the start. `flat` has a ladder switched off, whose zero must
survive a restart, and two lost acknowledgements. `MaxVersion` is 1: a second
re-bin needs an improvement and four more stalls, nine batches in all, and takes the same path.
`SimulatedWorld` likewise chooses a workload for one service, long enough for fork, fork, destroy,
destroy, or for checkpoint, score, restore, retry, and one workload that interleaves two services with
two kills. The guest workload schedules buttons by frame, by instruction count and by virtual time,
some of them due in the frame the machine is in, and has runs that end before the next frame: two
machines then have the same reference and different inputs left. `MaxFrame`, `MaxClock` and `MaxCount`
stand for the widths of the integers and are small enough to be hit.

Fairness. `RunnerSeq` and `RunnerControl` assume weak fairness of the runner's own steps: the tokio
task is scheduled and every RPC returns, since `retry_rpc` bounds attempts. Crashes and control
messages are not fair, and crashes are bounded. `SlotView` and `BatchExecution` assume that every
spawned task and the drain loop are scheduled and that every RPC returns; the mishaps are bounded and
not fair. `BatchExecution` does not check for deadlock, because machines whose destroy gave up can
really fill the worker; `BatchesComplete` says that nothing else makes it stop. `Service` assumes the same of runners, calls
and bring-up, and not that a run ends by itself or that anybody calls. `ProgressStream` assumes that
the stream's task is scheduled and its timer fires, so that a heartbeat is sent again and again.
Neither checks for deadlock: a service without further calls is idle. `EscalatedSearch` and
`SimulatedWorld` check safety only and stop at their bounds, so they do not check for deadlock
either.

### Disagreements between code and comments

Each of these runs ends in a counterexample. `PROJECT.json` quotes the comment.

| Run | What happens |
|---|---|
| `RunnerReplayPop` | a Stop during replay: the popped intent is counted as covered and its log entry deleted |
| `RunnerFastTruncation` | fast mode: a cadence checkpoint deletes the log entry of a batch in flight |
| `ReplayStreak` | a regression replayed as a duplicate evicts a parent the uninterrupted search keeps |

Smaller ones have no run.

* The comment of `retry.rs` (lines 4-7) gives a job a per-attempt timeout and up to `retry_max` attempts.
  In the code, `execute_batch` first runs every job once without a deadline, and `run_job_with_retry` then
  makes `retry_max` + 1 attempts with one. A job is tried up to `retry_max` + 2 times, which
  `AttemptsBounded` proves to be the bound, and an RPC of the first pass that never returns holds up its
  batch for ever. The models assume that RPCs return.
* The final checkpoint of a failed run covers the batch whose commit stopped half way, so its missing
  children are never committed. (`ScorerLockstep` is therefore checked without failures.)
* A crash inside resume's downward deletion of stale log entries hides the rest of them for ever,
  although the comment of `load_wal_entries` says that every survivor is found.
* A pruned row with a known hash loses its novelty count in a resume, and a pruned child that the
  replay writes is not shown to the plateau detector. `SelectionExact` is limited for this reason.
* An experiment that is in bring-up when `shutdown` collects its list is registered later and is not
  drained, although `main.rs` means to wait for every final checkpoint. `StopIsFinal` is about the
  run that was collected.
* "Every goal gets its own edge" holds while the run lasts (`StreamCatchesUp`), and not when the last
  status brings two goals at once: the stream ends after the next event.
* A Start call that is dropped keeps its id reserved for the life of the process.
* `resume` maps every checkpointed status but PAUSED to RUNNING (line 968), so a crash between the goal
  checkpoint and the final one makes an `on_goal: STOP` run search on.
* Resume counts the cells of post-checkpoint rows. If the replay window holds the batch that reaches
  L4, the replayed re-bin resets the mirror and erases the cells of the rows committed after it, which
  are adopted later without being counted. The comment on replay says that it reproduces the original
  run's effects exactly. `IntentsStable` is therefore about the time before a re-bin.
* A re-bin whose coarsening fails ends the run with a checkpoint that has the next map version, which
  no later start can bring up.
* `PolicyBox::set_total_expansions` reaches the staged policy only; a plain UCB policy keeps the total it
  was built with.
* A replayed intent with L3 overrides, or one logged before a fingerprint was checkpointed, is accepted
  with other bursts when the synthesizer was given other packs meanwhile. `ReplayIsIdentical` is about
  batches under the fingerprint they had.
* Two processes run side by side until one of them checkpoints, and `create_child_node` takes a row of
  the other for its own. `LadderExact` and `IntentsStable` are about a single process;
  `CheckpointNeverBack` holds for both.
* A put whose acknowledgement is lost is refused when repeated, and the process stands down, as the
  comment in `retry.rs` says.
* A ScoreBatch answer with too few results drops the tail of the batch without an error.
* A journal whose creation was killed before its header is loaded as empty, then appended to, and the
  second reload panics. `ReloadSucceeds` names this one exception.
* `reload_readonly` promises no effect on disk, and loading truncates a torn tail. The comment of
  `reclaim_session` says that it unfreezes fork parents, which it leaves to their destruction. The
  observatory's `acked_seq` is a maximum, and not the highest contiguous number.

## Proofs

`ExperimentRunner_proofs`, with its lemmas about types and about the replay window in
`ExperimentRunner_types`, proves, for every number of batches, children, batches in flight,
crashes and control messages, with failures and in both scheduling modes:

* `TypeCorrect`: the type invariant `TypeOK`;
* `NeverTwiceCommitted`: no child has two rows (`NoDoubleCommit`);
* `IdsStayDense`: between batches the next id is the first free one of a dense store (`DenseIds`).

The assumption is `BoundsAssumption` of `ExperimentRunner` on the types of the constants.

Neither property is inductive. A second row for a child could come from a replay of a batch that
the checkpoint already covers, or from a fresh batch that reuses a sequence number. The inductive
invariant `IInv` therefore adds what excludes this. `ControlInv` ties `pc` to the context and says
that the batch under commit is neither in flight nor queued. `WalInv` says that every sequence
number from the checkpoint up to the batch counter is logged, and that queued and in-flight batches
are in that window. `RowInv` says that every row belongs to a batch below the counter that is
covered or logged, that a batch in flight has no row, and that a fresh batch under commit has rows
only for the children already passed. `IdInv` relates the id counter to the domain of `rows` at each
point of a commit, including the stretch where memory is ahead of the store. `Invariance` proves
`Spec => []IInv`, one step per action. `RowFrame` and `IdFrame` are the frame lemmas for actions that
leave rows and ids alone, and `CreateDense` and `CreateFree` say what one `CreateNode` does.

`ExperimentRunner_recovery` builds on `Invariance` and proves what a restart relies on.

* `PauseSurvives` (`PausedIsDurable`), for all constants. `PauseInv` says that the runner owns the
  generation it last wrote, that a pause checkpoint begins with nothing in flight, and that its status
  is in the store before it is published. `PubInv` says where PAUSED can be what the watch shows: in the
  parked state, and on the way to the final checkpoint of a run stopped there.
* `ScorerStaysInLockstep` (`ScorerLockstep`), in both scheduling modes, if no RPC runs out of retries. `LockInv`
  follows the seen map and the archive through their excursions: ahead of the store inside a commit,
  behind it inside a resume, and equal to it wherever a checkpoint can be taken.
* `CheckpointCoversOnlyComplete` (`CoveredComplete`), `IntentsSurvive` (`LoggedUntilCommitted`),
  `ExpansionsAreCounted` (`ExpansionsExact`) and `RunnerImplementsLedger` (`RefinesLedger`), under the two
  hypotheses below.

The last four have the form `Deterministic => (Spec /\ []UndisturbedReplay => ...)`. `Deterministic` is one
batch in flight and no RPC that runs out of retries. `UndisturbedReplay` says that no Pause or Stop is at the
head of the control channel when `handle_control` runs with a popped replay intent waiting; control messages
at any other time are allowed, and crashes anywhere. The hypotheses are needed: `RunnerFastTruncation` has a
counterexample with two batches in flight, `RunnerReplayPop` one with a Stop in the replay, and the first of
the smaller disagreements above is one with a failing RPC. `RunnerSeq` sends no control message, so the
theorems also cover controls that the run does not.

The argument is one invariant, `RecoveryInv`. `StoreInv` says that a parent update is written after all
children of the batch. `ModeInv` says where a batch can be in flight and that a replay is not paused half
way. `DurableInv` is about what a crash leaves: the checkpoint counts the batches it covers, these are
complete, and every other batch that was issued is in the log. `WorkInv` is about memory: the expansion
counter is the first batch not yet committed by this run, and the replay queue holds exactly the batches
from there to the batch counter. It is what makes the number that a checkpoint covers (`IsEffectiveSeq`)
equal to the counter (`EffectiveIsCounter`), and so `CheckpointPut` safe. TLC has checked
`RecoveryInv`, `PauseInv`, `LockInv` and the refinement with three batches of one child, two crashes and two
control messages (1.2 million states), and `StoreInv`, `PauseInv` and, without failures, `LockInv` with two batches in
flight, one crash and two control messages (1 million states with failures, half a million without).

The refinement maps the ledger's announced batches to those in the log or below the checkpoint.
`LedgerStep` has one case for each action that writes to the store. `WriteIntent` announces the next number
because the announced ones are a prefix (`AnnouncedPrefix`). `CommitChild` adds a row or adopts one that is
there, which is a stutter, as is a repeated `UpdateParent` or `BootstrapRoot`. `CheckpointPut` covers, and both
truncations delete only numbers that are covered, so nothing changes. All other steps, `Crash` and
those of a resume included, leave the ledger alone (`StepEffects`).

Five more modules prove safety properties of the concurrent parts, again for every value of the
constants. The assumptions are those named in the modules that declare the constants
(`SlotAssumption`, `ExecAssumption`, `ServiceAssumption`, `StreamAssumption`, `RingAssumption`): bounds
are natural numbers, and in `SlotView` the tasks are finitely many and the drain task is none of them.
TLC has checked the inductive invariants on the instances of the runs.

`SlotView_proofs`, theorem `PermitsAreExact` (`ReservedExact`). `HeldInv` says how many permits a thread
has at each point of its way, the ones in the hands of a waker or in a waiter's channel included.
`Covered` says that a machine is destroyed or leaked before its permit is dropped, and `Counted` that the
view's number is the size of the set of permits. Without the first, the machines with an owner could
outnumber the permits, and a permit holder find no room. `Gain` and `Lose` do the counting, `HandOver`
the step in which a permit changes hands.

`BatchExecution_proofs`, theorems `BatchesInOrder` (`HandedInOrder`) and `AttemptsBounded`, which no run
checks. `QueueInv` says that a batch in the
channel or in the executor's hand has not been spawned, which is why it is spawned once. `ResultInv`
says that a batch which is over is in one place of the result side at most, and that in
deterministic mode the reorder buffer has released exactly the numbers before `nextSeq`.
`OutcomeInv` says that only batches with settled outcomes get there. `AttemptInv` counts attempts
against tries, with one less while a job waits for its permit. `BatchMoves` and `JobMoves` say what a
step of a batch and of a job may touch; most cases are an instance of them.

`BatchExecution_permits`, theorem `PermitsComeBack` (`NothingLeftBehind`). `Permits` is who must hold a
permit, read off the positions of batches and jobs: the whole family from the reservation of a fork
until its children run or it is given up, then the parent and each job by itself. `Counted` says that
`reserved` is its size, `MachineInv` that the owner of a machine is at a place where it holds a permit.
`PlaceInv` says which positions of a job go with which position of its batch. Its hard case is a batch
that fails in the ladder: no other job of it is under way then, because only the current job
can be. `SurplusInv` says that a batch has a child too many only while the fork is being undone.

`Service_proofs`, theorems `NeverTwoRunners` (`OneRunner`) and `StopAnswersAreFinal` (`StopIsFinal`).
`InOrder` says that runs are spawned one after another, each when all before it are done.
`Reservation` says that one Start call at most is between the reservation and the registration, and
that a call in bring-up has seen the latest run done; this still holds after a call was dropped, since
the reservation stays. `Watched` says that a final state is in the watch when the run is closed and not
before.

`ProgressStream_proofs`, theorems `StreamSendsOnce` (`EdgesOnce`) and `NothingLostUncounted`
(`EventsAccounted`). `StreamInv` says that the goals sent increase up to `emitted`, and that a budget
that was reported is still what the watch shows. `RingInv` says that the ring is the newest numbers
and that what was accepted is older; `Join`, `Split`, `Push` and `Shift` are what flush and queue do to
such sequences.

## Only model-checked

Liveness (`RunEnds`, `StopEndsRun`, `EventuallyServed`, `BatchesComplete`, `CallsReturn`,
`StreamCatchesUp`): fairness and ENABLED are out of the prover's reach.

Everything about `ReplayedSearch`, `EscalatedSearch` and `SimulatedWorld`. Most of these properties compare a
state with what folds over rows, intents or journal records compute (`TreeExact`, `LadderExact`,
`LiveIsReplay`, `RowsFormTree`), and that takes an induction over data, which is out of reach as well. The action
properties (`EvictionIsFinal`, `BasePinned`, `CheckpointNeverBack`) and `CacheMatchesArchive` do not depend on such an
induction; they have no proof yet.

## Not modelled

* Random streams (`rng.rs`) and byte encodings (the checkpoint codec, node attributes, gRPC conversions,
  the YAML front ends): pure functions on bits and text without protocol state.
* Wall-clock and instruction budgets: a further reason for an end the models already have at any
  batch. Abandoned jobs in the runner: they shorten a batch, and the number of children of a batch is
  free in `ExperimentRunner`.
* Metrics, gauges, transcripts, ports and client traits: they have no effect on what is modelled.
* Frame buffers, machine configurations and listings of the simulated hypervisor; the comparison helpers
  of the simulated world, which tests use.
* The composition of the batch pipeline with the runner in one module: `ExperimentRunner` takes
  completions in any order, which is what `BatchExecution` provides, and their product is beyond TLC.
