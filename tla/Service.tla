------------------------------- MODULE Service -------------------------------
(* The gRPC service (orch-server/service.rs): the registry of experiments, the *)
(* calls that start, pause, resume and stop one, and the drain at SIGTERM.     *)
(* StreamProgress is in module ProgressStream.  All calls concern one          *)
(* experiment id: different ids share nothing but the registry lock.           *)
(*                                                                             *)
(* A runner is reduced to what its handle shows: the queue of control          *)
(* messages, the watched state, and a task that ends.  Module ExperimentRunner *)
(* has the rest.  A watch holds the latest value only, so that a call waiting  *)
(* for a state may never see it.                                               *)
EXTENDS Naturals, Sequences, FiniteSets

CONSTANTS
    Starters,     \* StartExperiment calls
    Callers,      \* Pause, Resume and Stop calls
    MaxRuns,      \* bound: runners spawned
    MaxCancels    \* bound: Start calls whose client goes away

ASSUME ServiceAssumption == MaxRuns \in Nat /\ MaxCancels \in Nat

VARIABLES
    entry, starting,          \* the registered run (0: none); is the id reserved?
    task, state, pub, ctl,    \* the runs: task, status in memory, status watch, control channel
    rerun, orphan,            \* was it asked for with resume_if_exists?  is its handle lost?
    spc, flag, srun,          \* Start calls: resume_if_exists, the run spawned
    cpc, kind, crun, answer,  \* control calls: the run they found, their answer
    dpc, drain,               \* shutdown and the run it waits for
    cancels

registry == <<entry, starting>>
runs == <<task, state, pub, ctl, rerun, orphan>>
starts == <<spc, flag, srun>>
calls == <<cpc, kind, crun, answer>>
shutdown == <<dpc, drain>>
vars == <<registry, runs, starts, calls, shutdown, cancels>>

Runs == 1..MaxRuns
Kinds == {"Pause", "Resume", "Stop"}
Terminal == {"Stopped", "BudgetExhausted", "GoalReached", "Failed"}
States == {"Running", "Paused"} \cup Terminal
Spawned == {r \in Runs : task[r] # "none"}
Closed(r) == task[r] \in {"closed", "done"}

Init ==
    /\ entry = 0 /\ starting = FALSE
    /\ task = [r \in Runs |-> "none"] /\ state = [r \in Runs |-> "Running"]
    /\ pub = state /\ ctl = [r \in Runs |-> <<>>]
    /\ rerun = [r \in Runs |-> FALSE] /\ orphan = [r \in Runs |-> FALSE]
    /\ spc = [c \in Starters |-> "idle"] /\ flag = [c \in Starters |-> FALSE]
    /\ srun = [c \in Starters |-> 0]
    /\ cpc = [c \in Callers |-> "idle"] /\ kind = [c \in Callers |-> "Stop"]
    /\ crun = [c \in Callers |-> 0] /\ answer = [c \in Callers |-> "none"]
    /\ dpc = "idle" /\ drain = 0 /\ cancels = 0
-----------------------------------------------------------------------------
(* The runner behind a handle.                                                *)

\* publish_status.
Publish(r) == pub' = [pub EXCEPT ![r] = state'[r]]

LeavesPublished(r, s) ==
    /\ state' = [state EXCEPT ![r] = s] /\ task' = [task EXCEPT ![r] = "closing"]
    /\ Publish(r)

\* The loop is left with a final state; that is published only after the last checkpoint.
Leaves(r, s) ==
    /\ state' = [state EXCEPT ![r] = s] /\ task' = [task EXCEPT ![r] = "closing"]
    /\ UNCHANGED pub

\* handle_control of a running experiment, after the drain.
HandleControl(r) ==
    /\ task[r] = "up" /\ state[r] = "Running" /\ ctl[r] # <<>>
    /\ ctl' = [ctl EXCEPT ![r] = Tail(@)]
    /\ \/ /\ Head(ctl[r]) = "Pause"
          /\ state' = [state EXCEPT ![r] = "Paused"] /\ UNCHANGED task /\ Publish(r)
       \/ Head(ctl[r]) = "Stop" /\ Leaves(r, "Stopped")
       \/ Head(ctl[r]) = "Resume" /\ UNCHANGED <<task, state, pub>>
    /\ UNCHANGED <<registry, rerun, orphan, starts, calls, shutdown, cancels>>

ParkedUntilResume(r) ==
    /\ task[r] = "up" /\ state[r] = "Paused" /\ ctl[r] # <<>>
    /\ \/ /\ Head(ctl[r]) = "Resume"
          /\ state' = [state EXCEPT ![r] = "Running"] /\ UNCHANGED task /\ Publish(r)
       \/ Head(ctl[r]) # "Resume" /\ UNCHANGED <<task, state, pub>>
    /\ ctl' = [ctl EXCEPT ![r] = Tail(@)]
    /\ UNCHANGED <<registry, rerun, orphan, starts, calls, shutdown, cancels>>

\* A parked runner waits for Resume or Stop; a channel all of whose handles are gone is a Stop.
Parked(r) ==
    /\ task[r] = "up" /\ state[r] = "Paused"
    /\ \/ /\ ctl[r] # <<>> /\ Head(ctl[r]) = "Resume"
          /\ state' = [state EXCEPT ![r] = "Running"] /\ UNCHANGED task /\ Publish(r)
       \/ ctl[r] # <<>> /\ Head(ctl[r]) = "Pause" /\ UNCHANGED <<task, state, pub>>
       \/ ctl[r] # <<>> /\ Head(ctl[r]) = "Stop" /\ Leaves(r, "Stopped")
       \/ ctl[r] = <<>> /\ orphan[r] /\ Leaves(r, "Stopped")
    /\ ctl' = [ctl EXCEPT ![r] = IF @ = <<>> THEN @ ELSE Tail(@)]
    /\ UNCHANGED <<registry, rerun, orphan, starts, calls, shutdown, cancels>>

\* A budget, a goal with on_goal = STOP or an error ends the run.
Ends(r) ==
    /\ task[r] = "up" /\ state[r] = "Running"
    /\ \E s \in Terminal \ {"Stopped"} : Leaves(r, s)
    /\ UNCHANGED <<registry, ctl, rerun, orphan, starts, calls, shutdown, cancels>>

\* The last checkpoint.  Its failure makes the run FAILED unless a reason is recorded already.
Closes(r) ==
    /\ task[r] = "closing"
    /\ \/ UNCHANGED state
       \/ state[r] \in {"Stopped", "GoalReached"} /\ state' = [state EXCEPT ![r] = "Failed"]
    /\ task' = [task EXCEPT ![r] = "closed"] /\ Publish(r)
    /\ UNCHANGED <<registry, ctl, rerun, orphan, starts, calls, shutdown, cancels>>

\* run() returns: the task is finished and both channels are closed.
Returns(r) ==
    /\ task[r] = "closed"
    /\ task' = [task EXCEPT ![r] = "done"] /\ ctl' = [ctl EXCEPT ![r] = <<>>]
    /\ UNCHANGED <<registry, state, pub, rerun, orphan, starts, calls, shutdown, cancels>>
-----------------------------------------------------------------------------
(* StartExperiment.                                                           *)

StartAnswers(c) ==
    /\ spc' = [spc EXCEPT ![c] = "over"]
    /\ flag' = [flag EXCEPT ![c] = FALSE] /\ srun' = [srun EXCEPT ![c] = 0]

AnswersAtOnceWhileRunning(resume) == entry # 0 /\ task[entry] # "done"

\* A running experiment, and without resume_if_exists a finished one too, is answered at once.
AnswersAtOnce(resume) == entry # 0 /\ (task[entry] # "done" \/ ~resume)

ReservedNever == FALSE

\* starting.insert fails: another call is bringing this experiment up.
Reserved == starting

\* Everything up to the reservation of the id happens under the registry lock.
Start(c, resume) ==
    /\ spc[c] = "idle"
    /\ IF AnswersAtOnce(resume) \/ Reserved
       THEN StartAnswers(c) /\ UNCHANGED starting
       ELSE /\ spc' = [spc EXCEPT ![c] = "bringup"] /\ flag' = [flag EXCEPT ![c] = resume]
            /\ starting' = TRUE /\ UNCHANGED srun
    /\ UNCHANGED <<entry, runs, calls, shutdown, cancels>>

BringUpFails(c) ==
    /\ spc[c] = "bringup"
    /\ starting' = FALSE /\ StartAnswers(c)
    /\ UNCHANGED <<entry, runs, calls, shutdown, cancels>>

\* Bring-up is over and has published the status it restored: that of a PAUSED checkpoint, or RUNNING.
\* The task is spawned; the registry lock is not held.
Spawns(c) ==
    /\ spc[c] = "bringup" /\ Cardinality(Spawned) < MaxRuns
    /\ LET r == Cardinality(Spawned) + 1 IN
       /\ task' = [task EXCEPT ![r] = "up"] /\ rerun' = [rerun EXCEPT ![r] = flag[c]]
       /\ srun' = [srun EXCEPT ![c] = r]
       /\ \E s \in {"Running", "Paused"} : state' = [state EXCEPT ![r] = s]
       /\ Publish(r)
    /\ spc' = [spc EXCEPT ![c] = "spawned"]
    /\ UNCHANGED <<registry, ctl, orphan, flag, calls, shutdown, cancels>>

Registers(c) ==
    /\ spc[c] = "spawned"
    /\ entry' = srun[c] /\ starting' = FALSE /\ StartAnswers(c)
    /\ UNCHANGED <<runs, calls, shutdown, cancels>>

\* The client goes away and the call is dropped at an await: the id stays reserved.  A runner not yet
\* registered runs on without a handle; one dropped between the two locks is registered.
CancelsStart(c) ==
    /\ spc[c] \in {"bringup", "spawned"}
    /\ cancels < MaxCancels /\ cancels' = cancels + 1
    /\ StartAnswers(c)
    /\ \/ spc[c] = "bringup" /\ UNCHANGED <<entry, orphan>>
       \/ spc[c] = "spawned" /\ entry' = srun[c] /\ UNCHANGED orphan
       \/ spc[c] = "spawned" /\ orphan' = [orphan EXCEPT ![srun[c]] = TRUE] /\ UNCHANGED entry
    /\ UNCHANGED <<starting, task, state, pub, ctl, rerun, calls, shutdown>>
-----------------------------------------------------------------------------
(* PauseExperiment, ResumeExperiment, StopExperiment.                         *)

\* The handle is cloned under the registry lock, and used after it.
LooksUp(c, k) ==
    /\ cpc[c] = "idle" /\ entry # 0
    /\ cpc' = [cpc EXCEPT ![c] = "send"] /\ kind' = [kind EXCEPT ![c] = k]
    /\ crun' = [crun EXCEPT ![c] = entry]
    /\ UNCHANGED <<registry, runs, starts, answer, shutdown, cancels>>

\* A closed channel is an error of Pause and Resume; Stop ignores it.  Resume does not wait.
Sends(c) ==
    /\ cpc[c] = "send"
    /\ LET r == crun[c]
           open == task[r] # "done"
       IN /\ ctl' = IF open THEN [ctl EXCEPT ![r] = Append(@, kind[c])] ELSE ctl
          /\ IF kind[c] = "Resume" \/ (kind[c] = "Pause" /\ ~open)
             THEN /\ cpc' = [cpc EXCEPT ![c] = "over"]
                  /\ answer' = [answer EXCEPT ![c] = IF open THEN "Running" ELSE "error"]
             ELSE cpc' = [cpc EXCEPT ![c] = "wait"] /\ UNCHANGED answer
    /\ UNCHANGED <<registry, task, state, pub, rerun, orphan, starts, kind, crun, shutdown, cancels>>

EndsWaitWhenParked(k, s) == s \in Terminal \cup {"Paused"}

\* Does state s end the wait of a call of kind k?
EndsWait(k, s) == s \in Terminal \/ (k = "Pause" /\ s = "Paused")

\* The watch changes until its latest value is such a state.  The channel closes after the last
\* publication, so a waiter never finds it closed before it has seen a final state.
Answers(c) ==
    /\ cpc[c] = "wait" /\ EndsWait(kind[c], pub[crun[c]])
    /\ cpc' = [cpc EXCEPT ![c] = "over"] /\ answer' = [answer EXCEPT ![c] = pub[crun[c]]]
    /\ UNCHANGED <<registry, runs, starts, kind, crun, shutdown, cancels>>
-----------------------------------------------------------------------------
(* shutdown().                                                                *)

ShutdownCollects ==
    /\ dpc = "idle"
    /\ IF entry # 0 /\ task[entry] # "done"
       THEN drain' = entry /\ dpc' = "send"
       ELSE dpc' = "done" /\ UNCHANGED drain
    /\ UNCHANGED <<registry, runs, starts, calls, cancels>>

ShutdownSends ==
    /\ dpc = "send"
    /\ ctl' = IF task[drain] = "done" THEN ctl ELSE [ctl EXCEPT ![drain] = Append(@, "Stop")]
    /\ dpc' = "wait"
    /\ UNCHANGED <<registry, task, state, pub, rerun, orphan, starts, calls, drain, cancels>>

ShutdownWaits ==
    /\ dpc = "wait" /\ EndsWait("Stop", pub[drain])
    /\ dpc' = "done"
    /\ UNCHANGED <<registry, runs, starts, calls, drain, cancels>>
-----------------------------------------------------------------------------
RunnerStep(r) == HandleControl(r) \/ Parked(r) \/ Closes(r) \/ Returns(r)
StartStep(c) == BringUpFails(c) \/ Spawns(c) \/ Registers(c)
CallStep(c) == Sends(c) \/ Answers(c)
ShutdownStep == ShutdownSends \/ ShutdownWaits

Next ==
    \/ \E r \in Runs : RunnerStep(r) \/ Ends(r)
    \/ \E c \in Starters : StartStep(c) \/ CancelsStart(c) \/ \E resume \in BOOLEAN : Start(c, resume)
    \/ \E c \in Callers : CallStep(c) \/ \E k \in Kinds : LooksUp(c, k)
    \/ ShutdownCollects \/ ShutdownStep

Spec == Init /\ [][Next]_vars

\* Every task is scheduled and every RPC of a bring-up or a checkpoint returns.  Nobody is obliged to
\* call, and a run need not end by itself.
FairSpec ==
    /\ Spec /\ WF_vars(ShutdownStep)
    /\ \A r \in Runs : WF_vars(RunnerStep(r))
    /\ \A c \in Starters : WF_vars(StartStep(c))
    /\ \A c \in Callers : WF_vars(CallStep(c))
-----------------------------------------------------------------------------
(* Properties.                                                                *)

\* "experiment_id is the idempotency key": start_experiment tests the registry before bring-up and
\* writes it after, and even so, and when calls are dropped half-way, no two runners of the experiment
\* exist, registered or not; and a Start without resume_if_exists never runs it a second time.
OneRunner ==
    /\ Cardinality({r \in Spawned : task[r] # "done"}) <= 1
    /\ \A r \in Spawned : r > 1 => rerun[r]

\* stop_experiment waits "for the runner to finish its final checkpoint": its answer is the last state
\* of the run it was sent to, also when another run has been registered meanwhile.  The run that
\* shutdown() found has made its final checkpoint when shutdown() returns, whatever was queued before
\* its Stop.  (A run that is still being brought up is not found.)
StopIsFinal ==
    /\ \A c \in Callers : kind[c] = "Stop" /\ cpc[c] = "over" =>
          answer[c] \in Terminal /\ state[crun[c]] = answer[c] /\ Closed(crun[c])
    /\ dpc = "done" /\ drain # 0 => Closed(drain)

\* Calls return.  stop_experiment and shutdown() do, in a parked runner too and whatever is queued before
\* their Stop.  pause_experiment does unless somebody resumes the experiment: it may then miss PAUSED.
CallsReturn ==
    /\ \A c \in Callers : cpc[c] = "wait" ~>
          (cpc[c] = "over" \/ (kind[c] = "Pause" /\ \E d \in Callers : kind[d] = "Resume"))
    /\ dpc = "wait" ~> dpc = "done"
=============================================================================
