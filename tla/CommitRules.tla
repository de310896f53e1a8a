----------------------------- MODULE CommitRules -----------------------------
(***************************************************************************)
(* The commit rules of orch-core: what one scored child, and one scored    *)
(* batch, does to the in-memory search state.  The state (CommitState) is  *)
(* a record                                                                *)
(*                                                                         *)
(*   tree      the nodes in id order; node id n of the code is tree[n + 1] *)
(*   frontier  the ids the selection policy may look at                    *)
(*   seen      SeenMap: state hash -> first node that has it, 0 for none   *)
(*   mirror    CellMirror: visits of each cell, as novelty sees them       *)
(*   best, since   StallDetector: best score, observations since then      *)
(*                                                                         *)
(* A captured machine state is one element of States.  Its score, cell,    *)
(* prune and goal verdicts are functions of it, because scoring is pure.   *)
(***************************************************************************)
EXTENDS Integers, Sequences, FiniteSets, SequencesExt

CONSTANTS
    States,        \* captured machine states, named by their state hash
    RootState,     \* the state the bootstrap captures
    CellOf,        \* the cell key the scorer gives each state
    ScoreOf,       \* its progress score
    PruneStates,   \* states with a prune verdict (or a hung guest)
    GoalStates,    \* states with a goal verdict
    PruneDrop,     \* PruneAction: TRUE is Drop, FALSE is Exhausted
    Epsilon,       \* plateau.epsilon_s: tolerated score loss
    MaxVisits,     \* selection.max_visits_per_node
    ExhaustAfter   \* selection.exhaust_after_dup_expansions

Cells == {CellOf[s] : s \in States}

\* What validate_rules demands, and that the verdicts cover the states.
ASSUME RulesAssumption ==
    /\ RootState \in States
    /\ DOMAIN CellOf = States
    /\ ScoreOf \in [States -> Nat]
    /\ PruneStates \subseteq States /\ GoalStates \subseteq States
    /\ PruneDrop \in BOOLEAN
    /\ Epsilon \in Nat
    /\ MaxVisits \in Nat \ {0} /\ ExhaustAfter \in Nat \ {0}

-----------------------------------------------------------------------------
(* The tree, the mirrors and the stall detector.                           *)

\* NodeRecord; `by` is the producing burst, unique to one job of one batch.
Node(parent, child, status) ==
    [parent |-> parent, hash |-> child.hash, by |-> child.by, status |-> status,
     exhausted |-> status = "pruned", visits |-> 0, streak |-> 0]

\* Node ids are handed out densely.
NextNodeId(st) == Len(st.tree) + 1

\* CommitState::from_root, after the root's score has been observed.
FromRoot ==
    [tree     |-> <<Node(0, [hash |-> RootState, by |-> <<0, 0>>], "frontier")>>,
     frontier |-> {1},
     seen     |-> [s \in States |-> IF s = RootState THEN 1 ELSE 0],
     mirror   |-> [c \in Cells |-> IF c = CellOf[RootState] THEN 1 ELSE 0],
     best     |-> ScoreOf[RootState],
     since    |-> 0]

\* SeenMap::insert: the first node with a hash keeps it.
SeenInsert(st, hash, id) == [st EXCEPT !.seen[hash] = IF @ = 0 THEN id ELSE @]

\* CellMirror::bump.
Bump(st, hash) == [st EXCEPT !.mirror[CellOf[hash]] = @ + 1]

\* Tree::increment_visits.
IncrementVisits(st, id) == [st EXCEPT !.tree[id].visits = @ + 1]

\* Tree::insert_child with the hash and the cell it adds to the mirrors.
InsertChild(st, parent, child, status) ==
    Bump(SeenInsert([st EXCEPT !.tree = Append(@, Node(parent, child, status))],
                    child.hash, NextNodeId(st)),
         child.hash)

\* Frontier::deterministic_candidates: what the policy can select.
Candidates(st) ==
    {id \in st.frontier : st.tree[id].status = "frontier" /\ ~st.tree[id].exhausted}

\* StallDetector::observe.
Observe(st, score) ==
    IF score > st.best + Epsilon
    THEN [st EXCEPT !.best = score, !.since = 0]
    ELSE [st EXCEPT !.since = @ + 1]

-----------------------------------------------------------------------------
(* One child.                                                              *)

WorseThanParent(st, parent, child) ==
    ScoreOf[child.hash] + Epsilon < ScoreOf[st.tree[parent].hash]

KnownCell(st, child) == st.mirror[CellOf[child.hash]] > 0

\* Which rule decides a child: prune, then duplicate, then regression.
Disposition(st, parent, child) ==
    CASE child.hash \in PruneStates ->
            IF PruneDrop THEN "prune_drop" ELSE "pruned_exhausted"
      [] child.hash \notin PruneStates /\ child.duplicate -> "duplicate"
      [] OTHER ->
            IF WorseThanParent(st, parent, child) /\ KnownCell(st, child)
            THEN "regression" ELSE "keep"

\* A duplicate bumps its cell and visits the node that owns the hash, unless
\* that is the parent, which is visited once for the batch anyway.
RouteDuplicate(st, parent, child) ==
    LET route == st.seen[child.hash]
    IN  IF route \in {0, parent}
        THEN Bump(st, child.hash)
        ELSE Bump(IncrementVisits(st, route), child.hash)

\* A kept child; `listed` says whether it joins the frontier.
KeepChild(st, parent, child, listed) ==
    LET kept == InsertChild(st, parent, child,
                            IF child.hash \in GoalStates THEN "goal" ELSE "frontier")
    IN  IF listed THEN [kept EXCEPT !.frontier = @ \cup {NextNodeId(st)}] ELSE kept

ApplyChild(st, parent, child, disposition, listed) ==
    CASE disposition = "pruned_exhausted" -> InsertChild(st, parent, child, "pruned")
      [] disposition = "duplicate"        -> RouteDuplicate(st, parent, child)
      [] disposition = "keep"             -> KeepChild(st, parent, child, listed)
      [] OTHER                            -> st

-----------------------------------------------------------------------------
(* One batch.  A batch under commit is the state so far, the dispositions  *)
(* of its children and the scores of the ones that count as committed.     *)

StartBatch(st) == [st |-> st, dispositions |-> <<>>, scores |-> {}]

AllDuplicate(work) ==
    /\ work.dispositions # <<>>
    /\ \A i \in DOMAIN work.dispositions : work.dispositions[i] = "duplicate"

\* update_parent_exhaustion: rules 4 and 5, after the parent's visit.
UpdateParentExhaustion(st, parent, allDuplicate) ==
    LET counted == [st EXCEPT !.tree[parent].streak = IF allDuplicate THEN @ + 1 ELSE 0]
        evicted == \/ counted.tree[parent].visits >= MaxVisits
                   \/ counted.tree[parent].streak >= ExhaustAfter
    IN  IF evicted
        THEN [counted EXCEPT !.tree[parent].exhausted = TRUE,
                             !.tree[parent].status = IF @ = "pruned" THEN @ ELSE "expanded",
                             !.frontier = @ \ {parent}]
        ELSE counted

\* What the plateau detector is shown: the best committed score, or the
\* parent's own when nothing was committed.
ObservedScore(work, parent) ==
    IF work.scores = {} THEN ScoreOf[work.st.tree[parent].hash] ELSE Max(work.scores)

FinishBatch(work, parent) ==
    Observe(UpdateParentExhaustion(IncrementVisits(work.st, parent), parent, AllDuplicate(work)),
            ObservedScore(work, parent))

-----------------------------------------------------------------------------
(* The two ways a batch is committed.  A batch is a record [seq, parent,   *)
(* kids], where kids are the states its jobs captured, in job order.       *)

Child(batch, i, duplicate) ==
    [hash |-> batch.kids[i], by |-> <<batch.seq, i>>, duplicate |-> duplicate]

\* Duplicate verdict of a fresh batch: the scorer's archive, plus any earlier
\* sibling with the same hash, whatever became of that sibling.
ScorerDuplicate(batch, i, archive) ==
    \/ batch.kids[i] \in archive
    \/ \E j \in 1 .. i - 1 : batch.kids[j] = batch.kids[i]

CommitScoredChild(work, batch, i, archive) ==
    LET child == Child(batch, i, ScorerDuplicate(batch, i, archive))
        d     == Disposition(work.st, batch.parent, child)
    IN  [st |-> ApplyChild(work.st, batch.parent, child, d, TRUE),
         dispositions |-> Append(work.dispositions, d),
         scores |-> IF d \in {"keep", "pruned_exhausted"}
                    THEN work.scores \cup {ScoreOf[child.hash]} ELSE work.scores]

\* commit_completed: its children, and with commit_batch all of it.
CommitWork(st, batch, archive) ==
    FoldLeft(LAMBDA work, i : CommitScoredChild(work, batch, i, archive),
             StartBatch(st), [i \in DOMAIN batch.kids |-> i])
CommitBatch(st, batch, archive) == FinishBatch(CommitWork(st, batch, archive), batch.parent)

NeverAdopted(st, batch, i) == FALSE

\* The row this very job produced is already in the tree.
AdoptedChild(st, batch, i) ==
    \E id \in DOMAIN st.tree :
        /\ st.tree[id].parent = batch.parent
        /\ st.tree[id].by = <<batch.seq, i>>
        /\ st.tree[id].hash = batch.kids[i]

\* One child of a replayed batch: adopted, or decided again with the
\* orchestrator's own seen map as the duplicate verdict.  A goal child is not
\* put on the frontier, and a newly pruned one is not a score candidate.
ReplayChild(work, batch, i) ==
    LET child == Child(batch, i, work.st.seen[batch.kids[i]] # 0)
        d     == IF AdoptedChild(work.st, batch, i) THEN "adopted"
                 ELSE Disposition(work.st, batch.parent, child)
    IN  [st |-> ApplyChild(work.st, batch.parent, child, d, child.hash \notin GoalStates),
         dispositions |-> Append(work.dispositions, d),
         scores |-> IF d \in {"keep", "adopted"}
                    THEN work.scores \cup {ScoreOf[child.hash]} ELSE work.scores]

\* commit_replayed: its children, and all of it.
ReplayWork(st, batch) ==
    FoldLeft(LAMBDA work, i : ReplayChild(work, batch, i),
             StartBatch(st), [i \in DOMAIN batch.kids |-> i])
ReplayBatch(st, batch) == FinishBatch(ReplayWork(st, batch), batch.parent)

-----------------------------------------------------------------------------
(* The rebuild of the state by resume, from the durable rows (parent,      *)
(* hash, by, status) and the state a checkpoint has saved.                 *)

RebuiltWithDefaultWeights(rows, saved, id) ==
    [parent |-> rows[id].parent, hash |-> rows[id].hash, by |-> rows[id].by,
     status |-> rows[id].status, exhausted |-> rows[id].status = "pruned",
     visits |-> 0, streak |-> 0]

RebuiltAsFrontier(rows, saved, id) ==
    [parent |-> rows[id].parent, hash |-> rows[id].hash, by |-> rows[id].by,
     status |-> "frontier", exhausted |-> FALSE, visits |-> 0, streak |-> 0]

\* The node of a row: visits and streaks come from the checkpoint's frontier
\* entries, and only for rows still FRONTIER.
RebuiltNode(rows, saved, id) ==
    LET row == rows[id]
        weighted == row.status = "frontier" /\ id \in saved.frontier
    IN  [parent |-> row.parent, hash |-> row.hash, by |-> row.by, status |-> row.status,
         exhausted |-> row.status = "pruned",
         visits |-> IF weighted THEN saved.tree[id].visits ELSE 0,
         streak |-> IF weighted THEN saved.tree[id].streak ELSE 0]

\* A row with a hash the mirrors do not know catches them up.
CatchUp(rows, s, id) ==
    IF s.seen[rows[id].hash] # 0 THEN s
    ELSE Bump(SeenInsert(s, rows[id].hash, id), rows[id].hash)

\* resume: the tree from the rows, the rest from the checkpoint.
Rebuilt(rows, saved) ==
    FoldLeft(LAMBDA s, id : CatchUp(rows, s, id),
             [saved EXCEPT
                !.tree = [id \in DOMAIN rows |-> RebuiltNode(rows, saved, id)],
                !.frontier = {id \in DOMAIN rows : rows[id].status = "frontier"}],
             [id \in DOMAIN rows |-> id])

PostCheckpointForgotten(rows, saved) == {}

\* post_checkpoint of resume: replayed into the restored archive.
PostCheckpoint(rows, saved) ==
    {rows[id].hash : id \in {i \in DOMAIN rows : saved.seen[rows[i].hash] = 0}}
=============================================================================
