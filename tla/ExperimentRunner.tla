--------------------------- MODULE ExperimentRunner ---------------------------
(***************************************************************************)
(* The experiment runner of crates/orch-server/src/experiment.rs: the      *)
(* select / dispatch / commit loop, the write-ahead log of expansion       *)
(* intents, the compare-and-swap checkpoint with its WAL truncation, the   *)
(* scorer archive kept in lockstep with it, and the section 8.2 resume     *)
(* that replays surviving intents and adopts children already stored.      *)
(*                                                                         *)
(* One step is the code between two awaits on an external service, so the  *)
(* process may die (Crash) between any two durable effects.                *)
(*                                                                         *)
(* Data is abstracted to identities: a child row is <<batch, child>>, and  *)
(* the pure jobs of a batch are an oracle (kids, goals) fixed for ever by  *)
(* Init, which is what makes a replay re-execute bit-identically.  The     *)
(* commit rules that decide which children are kept are in CommitRules.    *)
(***************************************************************************)
EXTENDS Integers, FiniteSets, Sequences

CONSTANTS
    MaxSeq,         \* bound: batch sequence numbers are 0 .. MaxSeq-1
    MaxInflight,    \* scheduling.max_inflight_batches
    K,              \* bound: children one batch keeps
    EveryCommits,   \* checkpoint.every_commits (0: no commit cadence)
    EverySeconds,   \* checkpoint.every_seconds > 0: the clock may make one due
    MaxExpansions,  \* budgets.max_expansions
    OnGoalStop,     \* on_goal = STOP
    Controls,       \* control messages clients send
    MaxControls,    \* bound: control messages sent
    MaxCrashes,     \* bound: crashes plus restarts of an ended run
    Failures        \* an RPC may exhaust its retries

ASSUME BoundsAssumption ==
    /\ MaxSeq \in Nat /\ K \in Nat /\ EveryCommits \in Nat
    /\ MaxInflight \in Nat \ {0} /\ MaxExpansions \in Nat \ {0}
    /\ MaxControls \in Nat /\ MaxCrashes \in Nat
    /\ EverySeconds \in BOOLEAN /\ OnGoalStop \in BOOLEAN /\ Failures \in BOOLEAN
    /\ Controls \subseteq {"Pause", "Resume", "Stop"}

VARIABLES
    \* the snapshot store and the scorer: they survive a crash
    rows,           \* node id -> <<batch, child>>
    updated,        \* batches whose parent row got its UpdateNodes
    wal,            \* sequence numbers that have a WAL entry
    ckpt,           \* the checkpoint metadata value, gen = 0 when absent
    archive,        \* states in the scorer's live seen-set
    \* the runner's memory
    pc, ctx, drainFor, ckFor,
    status,         \* self.status
    pub,            \* the status watch channel
    gen,            \* ckpt_generation
    batchSeq,       \* batch_seq
    queue,          \* replay_queue
    inflight,       \* batches submitted and not handed back
    cur, idx,       \* the batch and the child being committed
    nodes,          \* commit_state.tree.len()
    seen,           \* commit_state.seen
    expansions, commitsSince, walFloor, delSeq,
    snap,           \* the archive CheckpointArchive returned
    ctl,            \* control_rx
    \* the environment
    kids,           \* oracle: children of the batch the commit rules keep
    goals,          \* oracle: batches one of whose kept children is a goal
    crashes, sent,
    issued, finished \* history: intents logged; batches fully committed

service == <<rows, updated, wal, ckpt, archive>>
control == <<pc, ctx, drainFor, ckFor>>
work    == <<batchSeq, queue, inflight, cur, idx, nodes, seen, expansions>>
cadence == <<commitsSince, walFloor, delSeq, snap>>
oracle  == <<kids, goals>>
history == <<issued, finished>>
faults  == <<crashes, sent>>
vars == <<service, control, work, cadence, oracle, history,
          status, pub, gen, ctl, faults>>

Seqs == 0 .. MaxSeq - 1
Root == <<0, 0>>
Row == Seqs \X (1 .. K) \cup {Root}
States == {"Running", "Paused", "Stopped", "GoalReached", "BudgetExhausted", "Failed"}
NoCkpt == [gen |-> 0, seq |-> 0, exp |-> 0, status |-> "Running", seen |-> {}, archive |-> {}]

\* The rows in the store, by identity.
Stored == {rows[i] : i \in DOMAIN rows}
ChildrenFromZero(s) == {<<s, i>> : i \in 0 .. kids[s]}
Children(s) == {<<s, i>> : i \in 1 .. kids[s]}

-----------------------------------------------------------------------------
(* Start, fresh bootstrap and resume.                                      *)

Init ==
    /\ rows = [i \in {} |-> Root] /\ updated = {} /\ wal = {} /\ ckpt = NoCkpt
    /\ archive = {}
    /\ pc = "down" /\ ctx = "loop" /\ drainFor = "none" /\ ckFor = "none"
    /\ status = "Running" /\ pub = "Running" /\ gen = 0
    /\ batchSeq = 0 /\ queue = {} /\ inflight = {} /\ cur = 0 /\ idx = 0
    /\ nodes = 0 /\ seen = {} /\ expansions = 0
    /\ commitsSince = 0 /\ walFloor = 0 /\ delSeq = 0 /\ snap = {}
    /\ ctl = <<>> /\ crashes = 0 /\ sent = 0
    /\ kids \in [Seqs -> 0 .. K]
    /\ goals \in SUBSET {s \in Seqs : kids[s] > 0}
    /\ issued = {} /\ finished = {}

\* CreateNode is idempotent on the node id; an occupied id answers
\* AlreadyExists, which create_child_node treats as success.
CreateNode(id, row) ==
    rows' = [i \in DOMAIN rows \cup {id} |-> IF i \in DOMAIN rows THEN rows[i] ELSE row]

\* start_with_metrics: the checkpoint key decides between bootstrap and resume.
StartFresh ==
    /\ pc = "down" /\ ckpt.gen = 0
    /\ pc' = "boot_root"
    /\ UNCHANGED <<service, ctx, drainFor, ckFor, work, cadence, oracle, history,
                   status, pub, gen, ctl, faults>>

BootstrapRoot ==
    /\ pc = "boot_root"
    /\ CreateNode(0, Root)
    /\ nodes' = 1 /\ seen' = {Root}
    /\ pc' = "boot_archive"
    /\ UNCHANGED <<updated, wal, ckpt, archive, ctx, drainFor, ckFor, batchSeq, queue,
                   inflight, cur, idx, expansions, cadence, oracle, history,
                   status, pub, gen, ctl, faults>>

BootstrapArchive ==
    /\ pc = "boot_archive"
    /\ archive' = archive \cup {Root}
    /\ pc' = "ck_archive" /\ ckFor' = "boot"
    /\ UNCHANGED <<rows, updated, wal, ckpt, ctx, drainFor, work, cadence, oracle,
                   history, status, pub, gen, ctl, faults>>

\* resume, first lines: remember the generation and the covered sequence.
StartResume ==
    /\ pc = "down" /\ ckpt.gen > 0
    /\ gen' = ckpt.gen /\ delSeq' = ckpt.seq
    /\ pc' = "rs_truncate"
    /\ UNCHANGED <<service, ctx, drainFor, ckFor, work, commitsSince, walFloor, snap,
                   oracle, history, status, pub, ctl, faults>>

\* load_wal_entries, downward from batch_seq - 1 until the first miss.
ResumeTruncate ==
    /\ pc = "rs_truncate"
    /\ \/ /\ delSeq > 0 /\ delSeq - 1 \in wal
          /\ wal' = wal \ {delSeq - 1} /\ delSeq' = delSeq - 1
          /\ pc' = pc
       \/ /\ ~(delSeq > 0 /\ delSeq - 1 \in wal)
          /\ pc' = "rs_load"
          /\ UNCHANGED <<wal, delSeq>>
    /\ UNCHANGED <<rows, updated, ckpt, archive, ctx, drainFor, ckFor, work,
                   commitsSince, walFloor, snap, oracle, history, status, pub, gen,
                   ctl, faults>>

LoadedPastFirst == {s \in wal : s > ckpt.seq}

\* The upward scan stops after MaxInflight + 2 consecutive misses.
Loaded == {s \in wal : /\ s >= ckpt.seq
                       /\ \A t \in ckpt.seq .. s :
                             \E u \in t .. t + MaxInflight + 1 : u \in wal}

NextIdFromCheckpoint == Cardinality(ckpt.seen)

\* The id counter is recomputed from the store: the rebuilt tree's length.
NextId == Cardinality(DOMAIN rows)

\* The upward half of load_wal_entries and the tree rebuild: reads only.
ResumeLoad ==
    /\ pc = "rs_load"
    /\ DOMAIN rows = 0 .. Cardinality(DOMAIN rows) - 1
    /\ queue' = Loaded
    /\ nodes' = NextId
    /\ seen' = ckpt.seen \cup Stored
    /\ pc' = "rs_restore"
    /\ UNCHANGED <<service, ctx, drainFor, ckFor, batchSeq, inflight, cur, idx,
                   expansions, cadence, oracle, history, status, pub, gen, ctl, faults>>

ResumeRestoreArchive ==
    /\ pc = "rs_restore"
    /\ archive' = ckpt.archive
    /\ pc' = "rs_replay"
    /\ UNCHANGED <<rows, updated, wal, ckpt, ctx, drainFor, ckFor, work, cadence,
                   oracle, history, status, pub, gen, ctl, faults>>

PostCheckpointNone == {}

\* Stored states the checkpoint's SeenMap does not have.
PostCheckpoint == Stored \ ckpt.seen

IsFront(s) == s \in queue /\ \A t \in queue : s <= t

\* ReplayCommits over the post-checkpoint rows, then the volatile counters.
\* Only PAUSED survives from the checkpointed status.
ResumeFinish ==
    /\ pc = "rs_replay"
    /\ archive' = archive \cup PostCheckpoint
    /\ \E b \in 0 .. MaxSeq :
          /\ IF queue = {} THEN b = ckpt.seq
             ELSE b - 1 \in queue /\ \A t \in queue : t < b
          /\ batchSeq' = b
    /\ \E f \in 0 .. MaxSeq :
          /\ IF queue = {} THEN f = ckpt.seq ELSE IsFront(f)
          /\ walFloor' = f
    /\ expansions' = ckpt.exp
    /\ status' = IF ckpt.status = "Paused" THEN "Paused" ELSE "Running"
    /\ pub' = status'
    /\ ctx' = "replay"
    /\ pc' = IF ckpt.status = "Paused" THEN "boot_parked" ELSE "replay"
    /\ UNCHANGED <<rows, updated, wal, ckpt, drainFor, ckFor, queue, inflight, cur,
                   idx, nodes, seen, commitsSince, delSeq, snap, oracle, history,
                   gen, ctl, faults>>

-----------------------------------------------------------------------------
(* run_phases and run_loop.                                                *)

Outer == IF ctx = "replay" THEN "replay" ELSE "loop"

\* The batch is popped from the replay queue before handle_control runs.
PopReplay ==
    /\ pc = "replay" /\ queue # {}
    /\ \E s \in queue : IsFront(s) /\ cur' = s /\ queue' = queue \ {s}
    /\ pc' = "replay_control"
    /\ UNCHANGED <<service, ctx, drainFor, ckFor, batchSeq, inflight, idx, nodes, seen,
                   expansions, cadence, oracle, history, status, pub, gen, ctl, faults>>

ReplayDone ==
    /\ pc = "replay" /\ queue = {}
    /\ pc' = "loop" /\ ctx' = "loop"
    /\ UNCHANGED <<service, drainFor, ckFor, work, cadence, oracle, history,
                   status, pub, gen, ctl, faults>>

DrainReasonPause(c) == "pause"

DrainReason(c) == IF c = "Pause" THEN "pause" ELSE "stop"

\* handle_control: one queued message.
HandleControl ==
    /\ pc \in {"loop", "replay_control"} /\ ctl # <<>>
    /\ ctl' = Tail(ctl)
    /\ IF Head(ctl) = "Resume"
       THEN UNCHANGED <<pc, drainFor>>
       ELSE /\ pc' = "drain"
            /\ drainFor' = DrainReason(Head(ctl))
    /\ UNCHANGED <<service, ctx, ckFor, work, cadence, oracle, history,
                   status, pub, gen, faults>>

\* handle_control found the channel empty: dispatch_replay, whose WAL entry
\* already exists, or the budget test of run_loop.
ReplayExecute ==
    /\ pc = "replay_control" /\ ctl = <<>>
    /\ pc' = "commit"
    /\ UNCHANGED <<service, ctx, drainFor, ckFor, work, cadence, oracle, history,
                   status, pub, gen, ctl, faults>>

CheckBudget ==
    /\ pc = "loop" /\ ctl = <<>>
    /\ IF expansions >= MaxExpansions
       THEN pc' = "drain" /\ drainFor' = "budget"
       ELSE pc' = "select" /\ UNCHANGED drainFor
    /\ UNCHANGED <<service, ctx, ckFor, work, cadence, oracle, history,
                   status, pub, gen, ctl, faults>>

\* dispatch_intent: the WAL entry first, then the submit.
WriteIntent ==
    /\ pc = "select" /\ Cardinality(inflight) < MaxInflight /\ batchSeq < MaxSeq
    /\ wal' = wal \cup {batchSeq} /\ issued' = issued \cup {batchSeq}
    /\ pc' = "submit"
    /\ UNCHANGED <<rows, updated, ckpt, archive, ctx, drainFor, ckFor, work, cadence,
                   oracle, finished, status, pub, gen, ctl, faults>>

SubmitBatch ==
    /\ pc = "submit"
    /\ inflight' = inflight \cup {batchSeq} /\ batchSeq' = batchSeq + 1
    /\ pc' = "select"
    /\ UNCHANGED <<service, ctx, drainFor, ckFor, queue, cur, idx, nodes, seen,
                   expansions, cadence, oracle, history, status, pub, gen, ctl, faults>>

\* The pipeline is full or the frontier has no candidate.
StopSelecting ==
    /\ pc = "select" /\ inflight # {}
    /\ pc' = "wait"
    /\ UNCHANGED <<service, ctx, drainFor, ckFor, work, cadence, oracle, history,
                   status, pub, gen, ctl, faults>>

BeginFinal(end) ==
    /\ status' = end
    /\ pc' = "ck_archive" /\ ckFor' = "final" /\ drainFor' = "none"

FrontierExhausted ==
    /\ pc = "select" /\ inflight = {}
    /\ BeginFinal("BudgetExhausted")
    /\ UNCHANGED <<service, ctx, work, cadence, oracle, history, pub, gen, ctl, faults>>

\* next_completed: FAST hands batches back in completion order.
NextCompleted ==
    /\ pc \in {"wait", "drain"}
    /\ \E s \in inflight : cur' = s /\ inflight' = inflight \ {s}
    /\ pc' = "commit"
    /\ UNCHANGED <<service, ctx, drainFor, ckFor, batchSeq, queue, idx, nodes, seen,
                   expansions, cadence, oracle, history, status, pub, gen, ctl, faults>>

DrainedPublishes ==
    /\ pc = "drain" /\ inflight = {}
    /\ \/ /\ drainFor = "pause"
          /\ status' = "Paused" /\ pub' = "Paused"
          /\ pc' = "ck_archive" /\ ckFor' = "pause" /\ drainFor' = "none"
       \/ drainFor = "stop" /\ BeginFinal("Stopped") /\ UNCHANGED pub
       \/ drainFor = "budget" /\ BeginFinal("BudgetExhausted") /\ UNCHANGED pub
       \/ drainFor = "goal" /\ BeginFinal("GoalReached") /\ UNCHANGED pub
    /\ UNCHANGED <<service, ctx, work, cadence, oracle, history, gen, ctl, faults>>

\* drain_inflight returned to whoever called it.
Drained ==
    /\ pc = "drain" /\ inflight = {}
    /\ \/ /\ drainFor = "pause"
          /\ status' = "Paused"
          /\ pc' = "ck_archive" /\ ckFor' = "pause" /\ drainFor' = "none"
       \/ drainFor = "stop" /\ BeginFinal("Stopped")
       \/ drainFor = "budget" /\ BeginFinal("BudgetExhausted")
       \/ drainFor = "goal" /\ BeginFinal("GoalReached")
    /\ UNCHANGED <<service, ctx, work, cadence, oracle, history, pub, gen, ctl, faults>>

\* A parked runner waits for Resume or Stop and ignores Pause.
Parked ==
    /\ pc \in {"parked", "boot_parked"} /\ ctl # <<>>
    /\ ctl' = Tail(ctl)
    /\ \/ /\ Head(ctl) = "Resume"
          /\ status' = "Running" /\ pub' = "Running"
          /\ pc' = IF pc = "boot_parked" THEN "replay"
                   ELSE IF ctx = "replay" THEN "replay_control" ELSE "loop"
          /\ UNCHANGED <<ckFor, drainFor>>
       \/ Head(ctl) = "Stop" /\ BeginFinal("Stopped") /\ UNCHANGED pub
       \/ Head(ctl) = "Pause" /\ UNCHANGED <<status, pub, pc, ckFor, drainFor>>
    /\ UNCHANGED <<service, ctx, work, cadence, oracle, history, gen, faults>>

-----------------------------------------------------------------------------
(* commit_completed and commit_replayed.                                   *)

\* Scored; the owner check passed.  A fresh commit updates the whole
\* in-memory tree before the first store write; a replay goes child by child.
BeginCommit ==
    /\ pc = "commit" /\ gen = ckpt.gen
    /\ IF ctx = "replay" THEN UNCHANGED <<nodes, seen>>
       ELSE nodes' = nodes + kids[cur] /\ seen' = seen \cup Children(cur)
    /\ idx' = 1
    /\ pc' = "create"
    /\ UNCHANGED <<service, ctx, drainFor, ckFor, batchSeq, queue, inflight, cur,
                   expansions, cadence, oracle, history, status, pub, gen, ctl, faults>>

AdoptedBeforeCheckpoint == <<cur, idx>> \in ckpt.seen

\* The adoption test of commit_replayed: same parent, same burst, same hash.
Adopted == <<cur, idx>> \in Stored

\* commit_completed: commit_batch already gave the child its id.
CreateFresh ==
    /\ ctx = "loop"
    /\ CreateNode(nodes - kids[cur] + idx - 1, <<cur, idx>>)
    /\ UNCHANGED <<nodes, seen>>

\* commit_replayed: adopt the row, or insert the child and create it.
AdoptOrCreate ==
    /\ ctx = "replay"
    /\ \/ Adopted /\ UNCHANGED <<rows, nodes, seen>>
       \/ /\ ~Adopted
          /\ CreateNode(nodes, <<cur, idx>>)
          /\ nodes' = nodes + 1 /\ seen' = seen \cup {<<cur, idx>>}

CommitChild ==
    /\ pc = "create" /\ idx <= kids[cur]
    /\ CreateFresh \/ AdoptOrCreate
    /\ idx' = idx + 1
    /\ UNCHANGED <<updated, wal, ckpt, archive, control, batchSeq, queue, inflight, cur,
                   expansions, cadence, oracle, history, status, pub, gen, ctl, faults>>

UpdateParent ==
    /\ pc = "create" /\ idx > kids[cur]
    /\ updated' = updated \cup {cur}
    /\ pc' = "replay_commits"
    /\ UNCHANGED <<rows, wal, ckpt, archive, ctx, drainFor, ckFor, work, cadence,
                   oracle, history, status, pub, gen, ctl, faults>>

\* maybe_checkpoint: due by commit count, or by the clock.
Due == EveryCommits > 0 /\ commitsSince + 1 >= EveryCommits

\* ReplayCommits, the counters, and what the caller does with the result.  A
\* goal met while draining is not acted on.
FinishCommit ==
    /\ pc = "replay_commits"
    /\ archive' = archive \cup Children(cur)
    /\ expansions' = expansions + 1 /\ commitsSince' = commitsSince + 1
    /\ finished' = finished \cup {cur}
    /\ \/ /\ drainFor # "none"
          /\ pc' = "drain" /\ UNCHANGED <<ckFor, pub>>
       \/ /\ drainFor = "none" /\ cur \in goals
          /\ pc' = "ck_archive" /\ ckFor' = "goal" /\ pub' = status
       \/ /\ drainFor = "none" /\ cur \notin goals /\ (Due \/ EverySeconds)
          /\ pc' = "ck_archive" /\ ckFor' = "cadence" /\ pub' = status
       \/ /\ drainFor = "none" /\ cur \notin goals /\ ~Due
          /\ pc' = Outer /\ pub' = status /\ UNCHANGED ckFor
    /\ UNCHANGED <<rows, updated, wal, ckpt, ctx, drainFor, batchSeq, queue, inflight,
                   cur, idx, nodes, seen, walFloor, delSeq, snap, oracle, issued,
                   status, gen, ctl, faults>>

-----------------------------------------------------------------------------
(* checkpoint().                                                           *)

CheckpointArchive ==
    /\ pc = "ck_archive"
    /\ snap' = archive
    /\ pc' = "ck_put"
    /\ UNCHANGED <<service, ctx, drainFor, ckFor, work, commitsSince, walFloor, delSeq,
                   oracle, history, status, pub, gen, ctl, faults>>

IsBatchSeq(e) == e = batchSeq

\* effective_checkpoint_seq
IsEffectiveSeq(e) == IF queue = {} THEN e = batchSeq ELSE IsFront(e)

BuildRunningCheckpoint(e) ==
    [gen |-> gen + 1, seq |-> e, exp |-> expansions, status |-> "Running",
     seen |-> seen, archive |-> snap]

BuildCheckpoint(e) ==
    [gen |-> gen + 1, seq |-> e, exp |-> expansions, status |-> status,
     seen |-> seen, archive |-> snap]

\* put_metadata, conditional on the generation this runner last saw.
CheckpointPut ==
    /\ pc = "ck_put" /\ gen = ckpt.gen
    /\ \E e \in 0 .. MaxSeq : IsEffectiveSeq(e) /\ ckpt' = BuildCheckpoint(e)
    /\ gen' = gen + 1
    /\ delSeq' = walFloor
    /\ pc' = "ck_delete"
    /\ UNCHANGED <<rows, updated, wal, archive, ctx, drainFor, ckFor, work, commitsSince,
                   walFloor, snap, oracle, history, status, pub, ctl, faults>>

TruncateWal ==
    /\ pc = "ck_delete"
    /\ \E e \in 0 .. MaxSeq : IsEffectiveSeq(e) /\ delSeq < e
    /\ wal' = wal \ {delSeq} /\ delSeq' = delSeq + 1
    /\ UNCHANGED <<rows, updated, ckpt, archive, control, work, commitsSince, walFloor,
                   snap, oracle, history, status, pub, gen, ctl, faults>>

\* The end of checkpoint() and what its caller does next.
FinishCheckpoint ==
    /\ pc = "ck_delete"
    /\ \E e \in 0 .. MaxSeq : IsEffectiveSeq(e) /\ delSeq >= e /\ walFloor' = e
    /\ commitsSince' = 0
    /\ ckFor' = "none"
    /\ \/ /\ ckFor \in {"boot", "cadence"} \/ (ckFor = "goal" /\ ~OnGoalStop)
          /\ pc' = Outer /\ UNCHANGED <<drainFor, pub>>
       \/ /\ ckFor = "goal" /\ OnGoalStop
          /\ pc' = "drain" /\ drainFor' = "goal" /\ UNCHANGED pub
       \/ /\ ckFor = "pause"
          /\ pc' = "parked" /\ pub' = "Paused" /\ UNCHANGED drainFor
       \/ /\ ckFor = "final"
          /\ pc' = "ended" /\ pub' = status /\ UNCHANGED drainFor
    /\ UNCHANGED <<service, ctx, work, delSeq, snap, oracle, history,
                   status, gen, ctl, faults>>

-----------------------------------------------------------------------------
(* Failures, crashes, clients.                                             *)

\* An RPC gave up: Failed, then the final checkpoint of run().  During that
\* checkpoint, or during bootstrap, there is nothing left to try.
RpcFails ==
    /\ Failures
    /\ pc \in {"select", "submit", "wait", "drain", "commit", "create",
               "replay_commits", "ck_archive", "ck_put", "ck_delete"}
    /\ ckFor # "boot"
    /\ IF ckFor = "final"
       THEN /\ pc' = "ended" /\ UNCHANGED <<ckFor, drainFor>>
            /\ status' = IF status = "BudgetExhausted" THEN status ELSE "Failed"
            /\ pub' = status'
       ELSE BeginFinal("Failed") /\ UNCHANGED pub
    /\ UNCHANGED <<service, ctx, work, cadence, oracle, history, gen, ctl, faults>>

\* The process is gone, or an ended run is started again; its memory is lost.
Crash ==
    /\ pc # "down" /\ crashes < MaxCrashes
    /\ crashes' = crashes + 1
    /\ pc' = "down" /\ ctx' = "loop" /\ drainFor' = "none" /\ ckFor' = "none"
    /\ status' = "Running" /\ pub' = "Running" /\ gen' = 0
    /\ batchSeq' = 0 /\ queue' = {} /\ inflight' = {} /\ cur' = 0 /\ idx' = 0
    /\ nodes' = 0 /\ seen' = {} /\ expansions' = 0
    /\ commitsSince' = 0 /\ walFloor' = 0 /\ delSeq' = 0 /\ snap' = {} /\ ctl' = <<>>
    /\ UNCHANGED <<service, oracle, history, sent>>

Starting == {"boot_root", "boot_archive", "rs_truncate", "rs_load", "rs_restore",
             "rs_replay"}

\* Clients reach a runner once start() has returned its handle.
Send(c) ==
    /\ pc \notin Starting \cup {"down", "ended"} /\ ckFor # "boot"
    /\ sent < MaxControls /\ sent' = sent + 1
    /\ ctl' = Append(ctl, c)
    /\ UNCHANGED <<service, control, work, cadence, oracle, history,
                   status, pub, gen, crashes>>

\* The run is over, or it is parked and no client has sent anything.
Idle ==
    /\ pc = "ended" \/ (pc \in {"parked", "boot_parked"} /\ ctl = <<>>)
    /\ UNCHANGED vars

Step ==
    \/ StartFresh \/ BootstrapRoot \/ BootstrapArchive
    \/ StartResume \/ ResumeTruncate \/ ResumeLoad \/ ResumeRestoreArchive \/ ResumeFinish
    \/ PopReplay \/ ReplayDone \/ HandleControl \/ ReplayExecute \/ CheckBudget
    \/ WriteIntent \/ SubmitBatch \/ StopSelecting \/ FrontierExhausted
    \/ NextCompleted \/ Drained \/ Parked
    \/ BeginCommit \/ CommitChild \/ UpdateParent \/ FinishCommit
    \/ CheckpointArchive \/ CheckpointPut \/ TruncateWal \/ FinishCheckpoint

Next == Step \/ RpcFails \/ Crash \/ (\E c \in Controls : Send(c)) \/ Idle

Spec == Init /\ [][Next]_vars

\* The runner task is always scheduled and every RPC returns; crashes,
\* failures and clients are not obliged to act.
FairSpec == Spec /\ WF_vars(Step)

-----------------------------------------------------------------------------
(* Properties.                                                             *)

PCs == Starting \cup {"down", "ended", "replay", "replay_control", "loop", "select",
                      "submit", "wait", "drain", "commit", "create", "replay_commits",
                      "ck_archive", "ck_put", "ck_delete", "parked", "boot_parked"}

TypeService ==
    /\ DOMAIN rows \subseteq Nat /\ \A i \in DOMAIN rows : rows[i] \in Row
    /\ updated \subseteq Seqs /\ wal \subseteq Seqs /\ archive \subseteq Row
    /\ ckpt \in [gen : Nat, seq : 0 .. MaxSeq, exp : Nat, status : States,
                 seen : SUBSET Row, archive : SUBSET Row]

TypeControl ==
    /\ pc \in PCs /\ ctx \in {"loop", "replay"}
    /\ drainFor \in {"none", "pause", "stop", "budget", "goal"}
    /\ ckFor \in {"none", "boot", "cadence", "goal", "pause", "final"}
    /\ status \in States /\ pub \in States /\ gen \in Nat
    /\ ctl \in Seq(Controls) /\ crashes \in Nat /\ sent \in Nat

TypeWork ==
    /\ batchSeq \in 0 .. MaxSeq /\ queue \subseteq Seqs /\ inflight \subseteq Seqs
    /\ cur \in Nat /\ idx \in 0 .. K + 1 /\ nodes \in Nat /\ seen \subseteq Row
    /\ expansions \in Nat /\ commitsSince \in Nat
    /\ walFloor \in 0 .. MaxSeq /\ delSeq \in 0 .. MaxSeq /\ snap \subseteq Row
    /\ kids \in [Seqs -> 0 .. K] /\ goals \subseteq Seqs
    /\ issued \subseteq Seqs /\ finished \subseteq Seqs

\* Types of the state; the runner's memory stays within the bounds.
TypeOK == TypeService /\ TypeControl /\ TypeWork

\* A batch all of whose durable effects are in the store.
Complete(s) == Children(s) \subseteq Stored /\ s \in updated

\* No double commits (chaos bar of the crash lattice): one child of one batch
\* never gets two rows, whatever is replayed and adopted after a crash.
NoDoubleCommit == \A i, j \in DOMAIN rows : rows[i] = rows[j] => i = j

\* Where the runner has no batch half committed.
BetweenBatches == {"replay", "replay_control", "loop", "select", "submit", "wait",
                   "drain", "parked", "boot_parked"}

\* Zero id reuse: between batches the id counter is the next free id of a dense
\* store, so create_child_node never swallows an AlreadyExists that hides
\* another child.
DenseIds == pc \in BetweenBatches => DOMAIN rows = 0 .. nodes - 1

\* Section 8 lockstep: between batches the SeenMap and the scorer's archive,
\* restored, caught up and replayed, hold exactly the stored states.
ScorerLockstep == pc \in BetweenBatches => seen = Stored /\ archive = Stored

\* "The checkpoint covers every batch below the effective seq": a batch the
\* checkpoint claims has all its rows and its parent update in the store.
CoveredComplete == \A s \in Seqs : s < ckpt.seq => Complete(s)

\* A WAL entry is deleted only after its batch committed: until then a logged
\* intent survives any crash and is found by the next resume.
LoggedUntilCommitted == \A s \in issued : Complete(s) \/ (s \in wal /\ s >= ckpt.seq)

\* Replay neither loses nor repeats an expansion: when selection runs, the
\* budget counter is the number of batches ever committed.
ExpansionsExact ==
    pc \in {"loop", "select", "submit", "wait"} => expansions = Cardinality(finished)

\* PauseExperiment answers on a PAUSED snapshot: that status is published only
\* once it is durable and no batch is in flight, by a runner that is parked, so a
\* restart parks again with nothing lost.  It stays up until a Resume, or until
\* the final checkpoint of a Stop is written.
PausedIsDurable ==
    pub = "Paused" /\ ckFor # "final" =>
        /\ pc \in {"parked", "boot_parked"}
        /\ ckpt.status = "Paused" /\ inflight = {} /\ gen = ckpt.gen

\* StopExperiment waits for a terminal state: a queued Stop always ends the run
\* (or a crash does), also behind a Pause and in a parked runner.
StopEndsRun == (\E i \in 1 .. Len(ctl) : ctl[i] = "Stop") ~> pc \in {"ended", "down"}

\* The run ends with a terminal status published, and the checkpoint says so.
RunEnds == <>(pc = "ended" /\ pub = ckpt.status)

\* The durable state refines the crash-free ledger: an intent counts as
\* announced while its WAL entry or the checkpoint accounts for it.
Ledger == INSTANCE BatchLedger WITH
              announced <- wal \cup (0 .. ckpt.seq - 1),
              tree <- rows, done <- updated, covered <- ckpt.seq

\* Crashes, resume, adoption and truncation are invisible: every step of the
\* runner is a step of the ledger or changes none of its state.
RefinesLedger == Ledger!Spec
=============================================================================
