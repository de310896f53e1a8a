--------------------------- MODULE ReplayedSearch ---------------------------
(***************************************************************************)
(* A deterministic search (one batch in flight) that crashes and resumes:  *)
(* CommitRules applied to a live CommitState, the durable rows, checkpoint *)
(* and write-ahead log it leaves behind, and the rebuild of the state from *)
(* them.  ExperimentRunner has the protocol around a commit in full.  Here *)
(* a commit is the rules plus its durable writes in order, and the         *)
(* question is whether the search that comes out of a replay is the search *)
(* that went into the crash.  The answer is read off `ref`, the state of   *)
(* the same search run without interruption.                               *)
(*                                                                         *)
(* In-memory effects of a batch are computed in one step, because no other *)
(* task sees them before the batch is over.  The durable writes follow one *)
(* at a time and a crash may fall between any two.                         *)
(***************************************************************************)
EXTENDS CommitRules

CONSTANTS
    Captures,     \* bound: the states that bursts reach
    MaxKids,      \* bound: jobs per batch that return a capture
    MaxBatches,   \* bound: batches of the search
    MaxCrashes    \* bound: crashes

VARIABLES
    st,        \* commit_state
    phase,     \* "idle", or where in the durable writes of `batch` we are
    batch,     \* the batch under commit
    queue,     \* replay_queue: WAL entries still to replay
    due,       \* a goal batch is committed and its checkpoint not yet taken
    store,     \* durable node rows: parent, hash, by, status
    archive,   \* the scorer's committed hashes
    wal,       \* durable WAL, the batches since the checkpoint
    ckpt,      \* the checkpoint: commit state and archive at that point
    ref,       \* history: the uninterrupted search
    picked,    \* history: the nodes selected
    plain,     \* history: no state captured so far regressed or was pruned
    crashes    \* crashes so far

memory  == <<st, phase, batch, queue, due>>
durable == <<store, archive, wal, ckpt>>
history == <<ref, picked, plain>>
vars    == <<memory, durable, history, crashes>>

\* The states one batch may capture.
KidVectors == UNION {[1 .. n -> Captures] : n \in 0 .. MaxKids}

RowOf(node) == [parent |-> node.parent, hash |-> node.hash, by |-> node.by,
                status |-> node.status]

SeenHashes(s) == {h \in States : s.seen[h] # 0}

HashesOf(rows, seq) == {rows[id].hash : id \in {i \in DOMAIN rows : rows[i].by[1] = seq}}

HasGoal(tree, seq) == \E id \in DOMAIN tree : tree[id].by[1] = seq /\ tree[id].status = "goal"

\* Bootstrap: the root row, its hash in the archive, the first checkpoint.
Init ==
    /\ st = FromRoot /\ ref = FromRoot
    /\ phase = "idle" /\ batch = [seq |-> 0, parent |-> 0, kids |-> <<>>]
    /\ queue = <<>> /\ wal = <<>> /\ due = FALSE
    /\ store = <<RowOf(FromRoot.tree[1])>>
    /\ archive = {RootState}
    /\ ckpt = [st |-> FromRoot, archive |-> {RootState}]
    /\ picked = <<>> /\ plain = TRUE /\ crashes = 0

-----------------------------------------------------------------------------
(* A batch: fresh, or popped from the replay queue.                        *)

\* Select a candidate, log the intent, run the jobs, apply commit_batch.
Expand ==
    /\ phase = "idle" /\ queue = <<>> /\ ~due
    /\ Len(picked) < MaxBatches
    /\ \E parent \in Candidates(st), kids \in KidVectors :
          LET b == [seq |-> Len(picked) + 1, parent |-> parent, kids |-> kids] IN
          /\ batch' = b
          /\ wal' = Append(wal, b)
          /\ st' = CommitBatch(st, b, archive)
          /\ ref' = CommitBatch(ref, b, SeenHashes(ref))
          /\ picked' = Append(picked, parent)
          /\ plain' = (plain /\ \A i \in DOMAIN kids : 
                        /\ ScoreOf[kids[i]] + Epsilon >= ScoreOf[st.tree[parent].hash]
                        /\ kids[i] \notin PruneStates)
    /\ phase' = "rows"
    /\ UNCHANGED <<queue, due, store, archive, ckpt, crashes>>

\* The next surviving intent runs its jobs again and is committed with
\* adoption.
Replay ==
    /\ phase = "idle" /\ queue # <<>> /\ ~due
    /\ batch' = Head(queue)
    /\ queue' = Tail(queue)
    /\ st' = ReplayBatch(st, Head(queue))
    /\ phase' = "rows"
    /\ UNCHANGED <<due, durable, history, crashes>>

-----------------------------------------------------------------------------
(* The durable writes of a batch, in order.                                *)

\* create_child_node for the next child that has no row yet.
CreateRow ==
    /\ phase = "rows" /\ Len(store) < Len(st.tree)
    /\ store' = Append(store, RowOf(st.tree[Len(store) + 1]))
    /\ UNCHANGED <<memory, archive, wal, ckpt, history, crashes>>

UpdateParentRowLost ==
    /\ phase = "rows" /\ Len(store) = Len(st.tree)
    /\ phase' = "archive"
    /\ UNCHANGED <<st, batch, queue, due, durable, history, crashes>>

\* update_node writes the parent's status once every child has its row.
UpdateParentRow ==
    /\ phase = "rows" /\ Len(store) = Len(st.tree)
    /\ store' = [store EXCEPT ![batch.parent].status = st.tree[batch.parent].status]
    /\ phase' = "archive"
    /\ UNCHANGED <<st, batch, queue, due, archive, wal, ckpt, history, crashes>>

\* replay_commits tells the scorer which states were committed.  A batch with
\* a goal must be followed by a checkpoint.
CommitArchive ==
    /\ phase = "archive"
    /\ archive' = archive \cup HashesOf(store, batch.seq)
    /\ due' = HasGoal(st.tree, batch.seq)
    /\ phase' = "idle"
    /\ UNCHANGED <<st, batch, queue, store, wal, ckpt, history, crashes>>

-----------------------------------------------------------------------------
(* Checkpoint, crash and resume.                                           *)

\* The cadence (commits or seconds) may ask for a checkpoint after any
\* committed batch.  The entries it covers leave the log; those still queued
\* for replay stay.
Checkpoint ==
    /\ phase = "idle" /\ wal # queue
    /\ ckpt' = [st |-> st, archive |-> archive]
    /\ wal' = queue
    /\ due' = FALSE
    /\ UNCHANGED <<st, phase, batch, queue, store, archive, history, crashes>>

\* The process dies anywhere and resumes from what is durable.
CrashAndResume ==
    /\ crashes < MaxCrashes
    /\ crashes' = crashes + 1
    /\ st' = Rebuilt(store, ckpt.st)
    /\ archive' = ckpt.archive \cup PostCheckpoint(store, ckpt.st)
    /\ queue' = wal
    /\ phase' = "idle" /\ due' = FALSE
    /\ UNCHANGED <<batch, store, wal, ckpt, history>>

\* The frontier is empty, or the bound on batches is reached.
Finished ==
    /\ phase = "idle" /\ queue = <<>> /\ wal = <<>>
    /\ Candidates(st) = {} \/ Len(picked) = MaxBatches
    /\ UNCHANGED vars

Next ==
    \/ Expand \/ Replay
    \/ CreateRow \/ UpdateParentRow \/ CommitArchive
    \/ Checkpoint \/ CrashAndResume \/ Finished

Spec == Init /\ [][Next]_vars

-----------------------------------------------------------------------------
(* What resume promises.                                                   *)

\* No batch is under commit and no surviving intent waits for its replay.
Settled == phase = "idle" /\ queue = <<>>

\* Whatever the crashes and however far a replay has come, the durable rows
\* are the first rows of the uninterrupted search, with the same ids, parents
\* and hashes, and all of them once the replay is over (the tree hash that
\* simulate and the chaos tests compare).  commit_replayed must adopt every
\* row the first attempt wrote, keep every child it had not written yet, and
\* discard again what it had discarded.  It takes its duplicate verdicts from
\* the orchestrator's seen set and commit_completed from the scorer's archive:
\* the two are equal between batches, and after a replay every hash routes to
\* the node it routed to before.
TreeExact ==
    /\ Len(store) <= Len(ref.tree)
    /\ \A id \in DOMAIN store :
          /\ store[id].parent = ref.tree[id].parent
          /\ store[id].hash = ref.tree[id].hash
          /\ store[id].by = ref.tree[id].by
    /\ Settled => Len(store) = Len(ref.tree) /\ st.seen = ref.seen
    /\ phase = "idle" => archive = SeenHashes(st)

\* Between batches the nodes the policy may select are exactly the rows whose
\* durable status is FRONTIER: no row is stranded by a resume and no evicted,
\* pruned or goal node comes back as a candidate.
FrontierDurable ==
    phase = "idle" => Candidates(st) = {id \in DOMAIN store : store[id].status = "frontier"}

\* An eviction, once durable, is final: no later write, by a replay of an
\* older batch of the same parent in particular, makes the row FRONTIER again.
EvictionIsFinal ==
    [][\A id \in DOMAIN store :
          store[id].status # "frontier" => store'[id].status = store[id].status]_vars

\* The replayed search selects from the same nodes as the uninterrupted one.
CandidatesExact == Settled => Candidates(st) = Candidates(ref)

\* The novelty counts behind the selection weights are recomputed exactly.
MirrorExact == Settled => st.mirror = ref.mirror

\* The plateau detector has seen the same scores.
PlateauExact == Settled => st.best = ref.best /\ st.since = ref.since

\* As long as nothing regressed and nothing was pruned, everything selection
\* reads is restored: candidates, their visits and all-duplicate streaks, the
\* mirror and the plateau counters.
SelectionExact == plain =>
    /\ CandidatesExact /\ MirrorExact /\ PlateauExact
    /\ Settled => \A id \in Candidates(ref) :
                     /\ st.tree[id].visits = ref.tree[id].visits
                     /\ st.tree[id].streak = ref.tree[id].streak
=============================================================================
