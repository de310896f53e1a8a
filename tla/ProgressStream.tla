---------------------------- MODULE ProgressStream ----------------------------
(* StreamProgress (orch-server/service.rs): a task that turns the status watch *)
(* of one run into progress events.  The watch keeps the latest status only,   *)
(* and an event has room for one edge, so the stream owes edges it must catch  *)
(* up with.  Statuses are abstracted to what edges and transitions depend on:  *)
(* the state, the number of goals and the escalation level.  The run also emits *)
(* observatory events (EventRing).                                              *)
EXTENDS EventRing

CONSTANTS
    MaxCommits,   \* bound: commits of the run
    MaxGoals,     \* bound: goals of the run
    MaxLevel,     \* the top of the escalation ladder
    MaxInflight,  \* max_inflight_batches
    MaxEvents,    \* bound: observatory events
    MaxFailures   \* bound: GetNode calls that fail

ASSUME StreamAssumption ==
    /\ MaxCommits \in Nat /\ MaxGoals \in Nat /\ MaxLevel \in Nat /\ MaxFailures \in Nat /\ MaxEvents \in Nat
    /\ MaxInflight \in Nat \ {0}

VARIABLES
    task,         \* the runner: "up", "closed" (its last status is out), "done"
    run, pub,     \* its status in memory and in the watch
    commits,      \* counter of the bound
    emitter,      \* its observatory events
    spc,          \* the stream: "idle", "initial", "loop", "over", "gone"
    previous,     \* the snapshot of the last event
    unseen,       \* does the watch hold a version the stream has not read?
    emitted,      \* goals_emitted
    edges,        \* history: goal edges sent, by goal number
    budgetEdges,  \* history: BudgetExhausted edges sent
    failures      \* counter of the bound

runner == <<task, run, pub, commits, emitter>>
stream == <<spc, previous, emitted, edges, budgetEdges>>
vars == <<runner, stream, unseen, failures>>

Terminal == {"Stopped", "BudgetExhausted", "GoalReached", "Failed"}
Status == [state : {"Running", "Paused"} \cup Terminal, goals : 0..MaxGoals, level : 0..MaxLevel]

\* A run as bring-up publishes it, with the goals of the runs before it.
Init ==
    /\ task = "up" /\ commits = 0 /\ emitter = NewEmitter
    /\ run \in [state : {"Running", "Paused"}, goals : 0..MaxGoals, level : {0}] /\ pub = run
    /\ spc = "idle" /\ previous = run /\ unseen = FALSE /\ emitted = 0
    /\ edges = <<>> /\ budgetEdges = 0 /\ failures = 0
-----------------------------------------------------------------------------
(* The run.                                                                   *)

Publish == pub' = run' /\ unseen' = TRUE

\* Commits, pauses and ends emit events; one stands for all of a step.
Emits ==
    IF emitter.next > MaxEvents THEN UNCHANGED emitter ELSE emitter' \in Emitted(emitter)

\* Statuses after n commits: each may add a goal, and move the ladder by one level or reset it.
After(n) == {s \in Status : /\ s.goals \in run.goals .. run.goals + n
                            /\ s.level \in 0 .. run.level + n}

\* A commit in the loop, and its publication.
Commits ==
    /\ task = "up" /\ run.state = "Running" /\ commits < MaxCommits
    /\ commits' = commits + 1
    /\ \E s \in After(1) : s.state = "Running" /\ run' = s
    /\ Emits /\ Publish
    /\ UNCHANGED <<task, stream, failures>>

\* A drain commits what is in flight and publishes none of it; then the run parks.
Pauses ==
    /\ task = "up" /\ run.state = "Running"
    /\ \E s \in After(MaxInflight) : s.state = "Paused" /\ run' = s
    /\ Emits /\ Publish
    /\ UNCHANGED <<task, commits, stream, failures>>

Resumes ==
    /\ task = "up" /\ run.state = "Paused"
    /\ run' = [run EXCEPT !.state = "Running"]
    /\ Publish
    /\ UNCHANGED <<task, commits, emitter, stream, failures>>

\* Stop, a budget, a goal or an error: a drain again, the last checkpoint, the last publication.
Closes ==
    /\ task = "up"
    /\ \/ /\ run.state = "Running"
          /\ \E s \in After(MaxInflight) : s.state \in Terminal /\ run' = s
       \/ /\ run.state = "Paused"
          /\ \E s \in {"Stopped", "Failed"} : run' = [run EXCEPT !.state = s]
    /\ task' = "closed" /\ Emits /\ Publish
    /\ UNCHANGED <<commits, stream, failures>>

Returns ==
    /\ task = "closed"
    /\ task' = "done"
    /\ UNCHANGED <<run, pub, commits, emitter, stream, unseen, failures>>
-----------------------------------------------------------------------------
(* The stream.                                                                *)

Opens ==
    /\ spc = "idle"
    /\ spc' = "initial"
    /\ UNCHANGED <<runner, previous, emitted, edges, budgetEdges, unseen, failures>>

\* goal_edge: when GetNode fails the event has no edge.
GoalEdge(g) ==
    \/ edges' = Append(edges, g) /\ UNCHANGED failures
    \/ failures < MaxFailures /\ failures' = failures + 1 /\ UNCHANGED edges
NoGoalEdge == UNCHANGED <<edges, failures>>

LatchedNone(goals) == 0

\* goals_emitted starts at the number of goals of the first snapshot.
Latched(goals) == goals

\* The first event repeats the latest goal; the older ones count as emitted.
SendsInitial ==
    /\ spc = "initial"
    /\ spc' = "loop" /\ previous' = pub /\ unseen' = FALSE
    /\ emitted' = Latched(pub.goals)
    /\ IF pub.goals > 0 THEN GoalEdge(pub.goals) ELSE NoGoalEdge
    /\ UNCHANGED <<runner, budgetEdges>>

IsTransitionButState == pub.goals # previous.goals \/ pub.level # previous.level

\* is_transition
IsTransition == pub # previous

\* The edge of a budget goes with the first event of that state.
BudgetEdge == pub.state = "BudgetExhausted" /\ previous.state # "BudgetExhausted"

OwesGoalSinceLast == pub.goals > previous.goals

OwesGoal == pub.goals > emitted

\* One event, with the oldest goal owed, or else the budget's edge.  (The edges of escalations and
\* stalls come after these two and leave nothing behind in the stream.)
SendsEvent ==
    /\ IF OwesGoal
       THEN /\ GoalEdge(emitted + 1) /\ emitted' = emitted + 1
            /\ UNCHANGED budgetEdges
       ELSE /\ NoGoalEdge /\ UNCHANGED emitted
            /\ budgetEdges' = budgetEdges + IF BudgetEdge THEN 1 ELSE 0
    /\ previous' = pub

\* changed() fails only when the watch is closed and its last version has been read.
Ended == task = "done" /\ ~unseen

\* A change, the interval or the end of the run wakes the stream, which then reads the watch.
Round ==
    /\ spc = "loop"
    /\ unseen' = FALSE
    /\ spc' = IF Ended THEN "over" ELSE "loop"
    /\ UNCHANGED runner

\* A round with an event: there is a transition, or the heartbeat is due, which may be at any time.
SendingRound == Round /\ SendsEvent

QuietRound ==
    /\ Round /\ ~IsTransition
    /\ UNCHANGED <<previous, emitted, edges, budgetEdges, failures>>

\* The client went away: the next send fails.
Dropped ==
    /\ spc \in {"initial", "loop"}
    /\ spc' = "gone"
    /\ UNCHANGED <<runner, previous, emitted, edges, budgetEdges, unseen, failures>>
-----------------------------------------------------------------------------
StreamStep == SendsInitial \/ SendingRound \/ QuietRound

Next ==
    \/ Commits \/ Pauses \/ Resumes \/ Closes \/ Returns
    \/ Opens \/ StreamStep \/ Dropped

Spec == Init /\ [][Next]_vars

\* The stream's task is scheduled.  Its timer fires, and a heartbeat is due one interval after the last
\* event: the rounds that send do not stop.
FairSpec == Spec /\ WF_vars(StreamStep) /\ WF_vars(SendingRound)
-----------------------------------------------------------------------------
(* Properties.                                                                *)

\* A stream reports goals in the order in which they were reached and none of them twice, although
\* several goals may arrive with one status and the first event repeats one; and a budget at most once.
EdgesOnce ==
    /\ \A i, j \in DOMAIN edges : i < j => edges[i] < edges[j]
    /\ budgetEdges <= 1

\* "emit never blocks the loop; on sink outage the ring drops oldest and counts", whenever the sink fails
\* and recovers.
EventsAccounted == Accounted(emitter)

\* While its run lasts, a connected stream reports every goal it owes (or has lost it to GetNode),
\* however many arrived at once and if no further status is published.  Once the run is over the
\* stream ends, with the run's last state sent ("Runner ended; final status already sent above").
StreamCatchesUp ==
    /\ (spc = "loop" /\ emitted < pub.goals) ~> (emitted = pub.goals \/ spc # "loop")
    /\ (spc = "loop" /\ task = "done") ~> (spc = "gone" \/ (spc = "over" /\ previous.state = run.state))
=============================================================================
