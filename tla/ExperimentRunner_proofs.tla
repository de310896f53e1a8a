----------------------- MODULE ExperimentRunner_proofs -----------------------
(* Every step keeps the rows and the ids; from the inductive invariant of   *)
(* ExperimentRunner_types follow the theorems.                              *)
EXTENDS ExperimentRunner_types

\* Seconds a leaf may take on a loaded machine.
USE SMTT(20), ZenonT(30)

-----------------------------------------------------------------------------
(* The rows.                                                               *)

\* A step that touches neither the rows nor what RowInv says of them.
LEMMA RowFrame ==
    ASSUME RowInv, rows' = rows, ckpt'.seq = ckpt.seq, wal \subseteq wal',
           inflight' \subseteq inflight, Up' => Up /\ batchSeq' = batchSeq,
           ctx' = "loop" /\ pc' \in {"commit", "create"} =>
               pc' = pc /\ ctx' = ctx /\ cur' = cur /\ idx' = idx
    PROVE  RowInv'
BY DEF RowInv, NoDoubleCommit, OfBatch

\* Every step keeps the rows unique and owned by logged batches.
LEMMA RowStep ==
    ASSUME TypeService, TypeControl, TypeWork, ControlInv, WalInv, RowInv, IdInv, [Next]_vars
    PROVE  RowInv'
<1>. USE DEF Up, Starting, service, control, work, cadence, oracle, history, faults
<1>1. CASE StartFresh
  BY <1>1, RowFrame DEF StartFresh
<1>2. CASE BootstrapRoot
  <2>1. DOMAIN rows \subseteq {0} /\ inflight = {}
    BY <1>2 DEF BootstrapRoot, IdInv, ControlInv
  <2>2. /\ DOMAIN rows' = {0}
        /\ rows'[0] = Root \/ (0 \in DOMAIN rows /\ rows'[0] = rows[0])
    BY <1>2, <2>1 DEF BootstrapRoot, CreateNode
  <2>3. ckpt' = ckpt /\ wal' = wal /\ inflight' = {} /\ pc' = "boot_archive"
    BY <1>2, <2>1 DEF BootstrapRoot
  <2>. QED
    BY <2>2, <2>3 DEF RowInv, NoDoubleCommit
<1>3. CASE BootstrapArchive
  <2>1. /\ rows' = rows /\ ckpt' = ckpt /\ wal' = wal
        /\ inflight' = {} /\ pc' = "ck_archive"
    BY <1>3 DEF BootstrapArchive, ControlInv
  <2>2. ckpt.seq = 0 /\ wal = {}
    BY <1>3, SMTT(40) DEF BootstrapArchive, ControlInv, WalInv, NoCkpt
  <2>3. \A i \in DOMAIN rows : rows[i] = Root
    BY <2>2, RowFacts DEF RowInv
  <2>. QED
    BY <2>1, <2>3 DEF RowInv, NoDoubleCommit, OfBatch
<1>4. CASE StartResume
  BY <1>4, RowFrame DEF StartResume
<1>5. CASE ResumeTruncate
  <2>1. /\ rows' = rows /\ ckpt' = ckpt /\ inflight' = inflight
        /\ pc' \in {"rs_truncate", "rs_load"}
    BY <1>5 DEF ResumeTruncate
  <2>2. \A s \in wal : s < ckpt.seq \/ s \in wal'
    BY <1>5, SeqFacts DEF ResumeTruncate, WalInv
  <2>. QED
    BY <2>1, <2>2 DEF RowInv, NoDoubleCommit, OfBatch
<1>6. CASE ResumeLoad
  BY <1>6, RowFrame DEF ResumeLoad, NextId, Loaded
<1>7. CASE ResumeRestoreArchive
  BY <1>7, RowFrame DEF ResumeRestoreArchive
<1>8. CASE ResumeFinish
  <2>1. PICK b \in 0 .. MaxSeq :
           /\ IF queue = {} THEN b = ckpt.seq
              ELSE b - 1 \in queue /\ \A t \in queue : t < b
           /\ batchSeq' = b
    BY <1>8 DEF ResumeFinish
  <2>2. ckpt.seq <= b /\ \A s \in wal : s < b
    <3>1. \A s \in Seqs : s \in queue <=> s \in wal /\ ckpt.seq <= s
      BY <1>8 DEF ResumeFinish, WalInv
    <3>. QED
      BY <2>1, <3>1, SeqFacts
  <2>3. \A i \in DOMAIN rows : rows[i] # Root => rows[i][1] < b
    BY <2>1, <2>2, SeqFacts, RowFacts DEF RowInv
  <2>4. /\ rows' = rows /\ ckpt' = ckpt /\ wal' = wal /\ inflight' = inflight
        /\ pc' \notin {"commit", "create"}
    BY <1>8 DEF ResumeFinish
  <2>. QED
    BY <2>1, <2>3, <2>4 DEF RowInv, NoDoubleCommit, OfBatch
<1>9. CASE PopReplay
  BY <1>9, RowFrame DEF PopReplay, IsFront
<1>10. CASE ReplayDone
  BY <1>10, RowFrame DEF ReplayDone
<1>11. CASE HandleControl
  BY <1>11, RowFrame DEF HandleControl, DrainReason
<1>12. CASE ReplayExecute
  BY <1>12, RowFrame DEF ReplayExecute, ControlInv
<1>13. CASE CheckBudget
  BY <1>13, RowFrame DEF CheckBudget
<1>14. CASE WriteIntent
  BY <1>14, RowFrame DEF WriteIntent
<1>15. CASE SubmitBatch
  <2>1. /\ rows' = rows /\ ckpt' = ckpt /\ wal' = wal /\ pc' = "select"
        /\ batchSeq' = batchSeq + 1 /\ inflight' = inflight \cup {batchSeq}
    BY <1>15 DEF SubmitBatch
  <2>2. \A i \in DOMAIN rows : rows[i] # Root => rows[i][1] < batchSeq
    BY <1>15 DEF SubmitBatch, RowInv
  <2>3. \A i \in DOMAIN rows : rows[i] # Root => rows[i][1] < batchSeq + 1 /\ rows[i][1] # batchSeq
    BY <2>2, SeqFacts, RowFacts
  <2>. QED
    BY <2>1, <2>3 DEF RowInv, NoDoubleCommit, OfBatch
<1>16. CASE StopSelecting
  BY <1>16, RowFrame DEF StopSelecting
<1>17. CASE FrontierExhausted
  BY <1>17, RowFrame DEF FrontierExhausted, BeginFinal
<1>18. CASE NextCompleted
  <2>1. PICK s \in inflight : cur' = s /\ inflight' = inflight \ {s}
    BY <1>18 DEF NextCompleted
  <2>2. /\ rows' = rows /\ ckpt' = ckpt /\ wal' = wal /\ batchSeq' = batchSeq
        /\ pc' = "commit" /\ pc \in {"wait", "drain"}
    BY <1>18 DEF NextCompleted
  <2>. QED
    BY <2>1, <2>2 DEF RowInv, NoDoubleCommit, OfBatch
<1>19. CASE Drained
  BY <1>19, RowFrame DEF Drained, BeginFinal
<1>20. CASE Parked
  BY <1>20, RowFrame DEF Parked, BeginFinal
<1>21. CASE BeginCommit
  <2>1. /\ rows' = rows /\ ckpt' = ckpt /\ wal' = wal /\ batchSeq' = batchSeq
        /\ inflight' = inflight /\ cur' = cur /\ ctx' = ctx
        /\ pc = "commit" /\ pc' = "create"
    BY <1>21 DEF BeginCommit
  <2>. QED
    BY <2>1 DEF RowInv, NoDoubleCommit, OfBatch
<1>22. CASE CommitChild
  <2>1. cur \in Seqs /\ cur \in Nat /\ idx > 0 /\ cur < batchSeq
    BY <1>22, CurType, SeqFacts DEF CommitChild, Committing, ControlInv
  <2>2. cur < ckpt.seq \/ cur \in wal
    <3>1. \A t \in Seqs : ckpt.seq <= t /\ t < batchSeq => t \in wal
      BY <1>22 DEF CommitChild, WalInv
    <3>. QED
      BY <2>1, <3>1, SeqFacts
  <2>3. <<cur, idx>> # Root /\ cur \notin inflight
    BY <1>22, <2>1 DEF CommitChild, Root, ControlInv, Committing
  <2>4. /\ pc = "create" /\ pc' = "create" /\ ctx' = ctx /\ ckpt' = ckpt /\ wal' = wal
        /\ batchSeq' = batchSeq /\ inflight' = inflight /\ cur' = cur /\ idx' = idx + 1
    BY <1>22, SMTT(40) DEF CommitChild
  <2>5. ASSUME NEW id, id \notin DOMAIN rows, CreateNode(id, <<cur, idx>>),
               \A i \in DOMAIN rows : rows[i] # <<cur, idx>>
        PROVE  RowInv'
    <3>1. /\ DOMAIN rows' = DOMAIN rows \cup {id}
          /\ rows'[id] = <<cur, idx>>
          /\ \A i \in DOMAIN rows : rows'[i] = rows[i]
      BY <2>5, CreateFree, ZenonT(40)
    <3>2. NoDoubleCommit'
      BY <2>5, <3>1 DEF RowInv, NoDoubleCommit
    <3>3. \A i \in DOMAIN rows' : rows'[i] # Root =>
              (rows'[i][1] < ckpt.seq \/ rows'[i][1] \in wal) /\ rows'[i][1] < batchSeq
      <4>1. \A i \in DOMAIN rows : rows[i] # Root =>
                (rows[i][1] < ckpt.seq \/ rows[i][1] \in wal) /\ rows[i][1] < batchSeq
        BY <2>4, SMTT(40) DEF RowInv
      <4>2. <<cur, idx>>[1] = cur
        OBVIOUS
      <4>. QED
        BY <2>1, <2>2, <3>1, <4>1, <4>2, ZenonT(40)
    <3>4. \A i \in DOMAIN rows' : \A s \in inflight : rows'[i] # Root => rows'[i][1] # s
      <4>1. \A i \in DOMAIN rows : \A s \in inflight : rows[i] # Root => rows[i][1] # s
        BY SMTT(40) DEF RowInv, OfBatch
      <4>2. <<cur, idx>>[1] = cur
        OBVIOUS
      <4>. QED
        BY <2>3, <3>1, <4>1, <4>2, ZenonT(40)
    <3>5. ctx = "loop" => \A i \in DOMAIN rows :
              rows[i] # Root /\ rows[i][1] = cur => rows[i][2] < idx
      BY <2>4 DEF RowInv, OfBatch
    <3>6. ctx = "loop" => \A i \in DOMAIN rows' :
              rows'[i] # Root /\ rows'[i][1] = cur => rows'[i][2] < idx + 1
      BY <2>1, <3>1, <3>5, SeqFacts, RowFacts, SMTT(40)
    <3>. QED
      BY <2>4, <3>2, <3>3, <3>4, <3>6, SMTT(40) DEF RowInv, OfBatch
  <2>6. CASE ctx = "loop"
    <3>1. nodes - kids[cur] + idx - 1 \notin DOMAIN rows
      BY <1>22, <2>6, CreateDense, SMTT(40) DEF CommitChild, CreateFresh, AdoptOrCreate,
         IdInv
    <3>2. \A i \in DOMAIN rows : OfBatch(i, cur) => rows[i][2] < idx
      BY <2>4, <2>6 DEF RowInv
    <3>3. \A i \in DOMAIN rows : rows[i] # <<cur, idx>>
      BY <2>3, <3>2, SeqFacts DEF OfBatch
    <3>. QED
      BY <1>22, <2>5, <2>6, <3>1, <3>3 DEF CommitChild, CreateFresh, AdoptOrCreate
  <2>7. CASE ctx = "replay" /\ Adopted
    <3>1. rows' = rows
      BY <1>22, <2>7 DEF CommitChild, CreateFresh, AdoptOrCreate
    <3>. QED
      BY <2>4, <2>7, <3>1, RowFrame
  <2>8. CASE ctx = "replay" /\ ~Adopted
    <3>1. DOMAIN rows = 0 .. nodes - 1
      BY <2>4, <2>8 DEF IdInv, ControlInv, Checkpointing
    <3>2. nodes \notin DOMAIN rows
      BY <3>1, SeqFacts
    <3>3. \A i \in DOMAIN rows : rows[i] # <<cur, idx>>
      BY <2>8 DEF Adopted, Stored
    <3>4. CreateNode(nodes, <<cur, idx>>)
      BY <1>22, <2>8 DEF CommitChild, CreateFresh, AdoptOrCreate
    <3>. QED
      BY <2>5, <3>2, <3>3, <3>4
  <2>. QED
    BY <1>22, <2>6, <2>7, <2>8, SMTT(40) DEF CommitChild, CreateFresh, AdoptOrCreate
<1>23. CASE UpdateParent
  BY <1>23, RowFrame DEF UpdateParent
<1>24. CASE FinishCommit
  BY <1>24, RowFrame DEF FinishCommit, Outer, Due
<1>25. CASE CheckpointArchive
  BY <1>25, RowFrame DEF CheckpointArchive
<1>26. CASE CheckpointPut
  <2>1. PICK e \in 0 .. MaxSeq : IsEffectiveSeq(e) /\ ckpt' = BuildCheckpoint(e)
    BY <1>26 DEF CheckpointPut
  <2>2. ckpt'.seq = e
    BY <2>1 DEF BuildCheckpoint
  <2>3. ckpt.seq <= batchSeq /\ \A s \in queue : ckpt.seq <= s
    BY <1>26 DEF CheckpointPut, WalInv
  <2>4. ckpt.seq <= e
    BY <2>1, <2>3 DEF IsEffectiveSeq, IsFront
  <2>5. /\ rows' = rows /\ wal' = wal /\ inflight' = inflight /\ batchSeq' = batchSeq
        /\ pc = "ck_put" /\ pc' = "ck_delete"
    BY <1>26 DEF CheckpointPut
  <2>6. \A i \in DOMAIN rows : rows[i] # Root => rows[i][1] < e \/ rows[i][1] \in wal
    BY <2>1, <2>4, SeqFacts, RowFacts DEF RowInv
  <2>. QED
    BY <2>2, <2>5, <2>6 DEF RowInv, NoDoubleCommit, OfBatch
<1>27. CASE TruncateWal
  <2>1. delSeq < ckpt.seq
    BY <1>27, EffectiveUnique DEF TruncateWal, WalInv
  <2>2. /\ rows' = rows /\ ckpt' = ckpt /\ wal' = wal \ {delSeq} /\ inflight' = inflight
        /\ batchSeq' = batchSeq /\ pc = "ck_delete" /\ pc' = "ck_delete"
    BY <1>27 DEF TruncateWal
  <2>. QED
    BY <2>1, <2>2 DEF RowInv, NoDoubleCommit, OfBatch
<1>28. CASE FinishCheckpoint
  BY <1>28, RowFrame DEF FinishCheckpoint, Outer, IsEffectiveSeq, IsFront
<1>29. CASE RpcFails
  BY <1>29, RowFrame DEF RpcFails, BeginFinal
<1>30. CASE Crash
  BY <1>30, RowFrame DEF Crash
<1>31. CASE \E c \in Controls : Send(c)
  BY <1>31, RowFrame DEF Send
<1>32. CASE UNCHANGED vars
  BY <1>32, RowFrame DEF vars
<1>. QED
  BY <1>1, <1>2, <1>3, <1>4, <1>5, <1>6, <1>7, <1>8, <1>9, <1>10, <1>11, <1>12, <1>13,
     <1>14, <1>15, <1>16, <1>17, <1>18, <1>19, <1>20, <1>21, <1>22, <1>23, <1>24, <1>25,
     <1>26, <1>27, <1>28, <1>29, <1>30, <1>31, <1>32, ZenonT(40) DEF Next, Step, Idle

-----------------------------------------------------------------------------
(* The node ids.                                                           *)

\* A step that touches neither the ids nor the id counter.
LEMMA IdFrame ==
    ASSUME IdInv, DOMAIN rows' = DOMAIN rows, nodes' = nodes,
           ckpt'.gen = 0 => ckpt.gen = 0,
           pc' \in {"boot_archive", "rs_restore", "rs_replay"} =>
               pc \in {"boot_archive", "rs_restore", "rs_replay"},
           Up' /\ ckFor' # "final" /\ pc' # "ended" =>
               \/ pc \in {"boot_archive", "rs_replay"} /\ pc' # "create"
               \/ Up /\ ckFor # "final" /\ pc # "ended" /\ (pc' = "create" <=> pc = "create"),
           pc' = "create" => ctx' = ctx,
           ctx' = "loop" /\ pc' = "create" =>
               pc = "create" /\ cur' = cur /\ idx' = idx /\ kids' = kids
    PROVE  IdInv'
BY ZenonT(40) DEF IdInv

\* Every step keeps the ids dense.
LEMMA IdStep ==
    ASSUME TypeService, TypeControl, TypeWork, ControlInv, WalInv, RowInv, IdInv, [Next]_vars
    PROVE  IdInv'
<1>. USE DEF Up, Starting, service, control, work, cadence, oracle, history, faults
<1>1. CASE StartFresh
  BY <1>1, IdFrame DEF StartFresh
<1>2. CASE BootstrapRoot
  <2>1. DOMAIN rows \subseteq {0}
    BY <1>2 DEF BootstrapRoot, ControlInv, IdInv
  <2>2. DOMAIN rows' = {0}
    BY <1>2, <2>1 DEF BootstrapRoot, CreateNode
  <2>3. 1 \in Nat /\ DOMAIN rows' = 0 .. 1 - 1
    BY <2>2
  <2>. QED
    BY <1>2, <2>2, <2>3 DEF BootstrapRoot, IdInv
<1>3. CASE BootstrapArchive
  BY <1>3, IdFrame DEF BootstrapArchive
<1>4. CASE StartResume
  BY <1>4, IdFrame DEF StartResume
<1>5. CASE ResumeTruncate
  BY <1>5, IdFrame DEF ResumeTruncate
<1>6. CASE ResumeLoad
  <2>1. /\ rows' = rows /\ ckpt' = ckpt /\ pc' = "rs_restore"
        /\ DOMAIN rows = 0 .. nodes' - 1
    BY <1>6, ZenonT(40) DEF ResumeLoad, NextId
  <2>. QED
    BY <2>1, SMTT(40) DEF IdInv
<1>7. CASE ResumeRestoreArchive
  BY <1>7, IdFrame DEF ResumeRestoreArchive
<1>8. CASE ResumeFinish
  BY <1>8, IdFrame DEF ResumeFinish, IsFront, PostCheckpoint
<1>9. CASE PopReplay
  BY <1>9, IdFrame DEF PopReplay, IsFront
<1>10. CASE ReplayDone
  BY <1>10, IdFrame DEF ReplayDone
<1>11. CASE HandleControl
  BY <1>11, IdFrame DEF HandleControl, DrainReason
<1>12. CASE ReplayExecute
  BY <1>12, IdFrame DEF ReplayExecute
<1>13. CASE CheckBudget
  BY <1>13, IdFrame DEF CheckBudget
<1>14. CASE WriteIntent
  BY <1>14, IdFrame DEF WriteIntent
<1>15. CASE SubmitBatch
  BY <1>15, IdFrame DEF SubmitBatch
<1>16. CASE StopSelecting
  BY <1>16, IdFrame DEF StopSelecting
<1>17. CASE FrontierExhausted
  BY <1>17, IdFrame DEF FrontierExhausted, BeginFinal
<1>18. CASE NextCompleted
  BY <1>18, IdFrame DEF NextCompleted
<1>19. CASE Drained
  BY <1>19, IdFrame DEF Drained, BeginFinal, ControlInv, Checkpointing
<1>20. CASE Parked
  BY <1>20, IdFrame DEF Parked, BeginFinal
<1>21. CASE BeginCommit
  <2>1. DOMAIN rows = 0 .. nodes - 1 /\ kids[cur] \in 0 .. K
    BY <1>21, CurType DEF BeginCommit, ControlInv, Committing, Checkpointing, IdInv
  <2>2. CASE ctx = "replay"
    BY <1>21, <2>1, <2>2 DEF BeginCommit, IdInv
  <2>3. CASE ctx = "loop"
    <3>1. nodes' - kids'[cur'] + idx' - 1 = nodes
      BY <1>21, <2>1, <2>3, SeqFacts DEF BeginCommit
    <3>2. pc' = "create" /\ ctx' = "loop" /\ rows' = rows /\ ckpt' = ckpt
      BY <1>21, <2>3 DEF BeginCommit
    <3>. QED
      BY <2>1, <3>1, <3>2, SeqFacts, ZenonT(40) DEF IdInv
  <2>. QED
    BY <2>2, <2>3, SMTT(40) DEF TypeControl
<1>22. CASE CommitChild
  <2>1. cur \in Seqs /\ kids[cur] \in 0 .. K /\ idx > 0 /\ ckpt.gen # 0 /\ ckFor = "none"
    BY <1>22, CurType, SeqFacts DEF CommitChild, Committing, ControlInv, Checkpointing
  <2>2. CASE ctx = "loop"
    <3>. DEFINE n == nodes - kids[cur] + idx - 1
    <3>1. n \in Nat /\ DOMAIN rows = 0 .. n - 1 /\ CreateNode(n, <<cur, idx>>)
      BY <1>22, <2>2 DEF CommitChild, CreateFresh, AdoptOrCreate, IdInv
    <3>2. nodes' = nodes /\ kids' = kids /\ cur' = cur /\ idx' = idx + 1
      BY <1>22, <2>2 DEF CommitChild, CreateFresh, AdoptOrCreate
    <3>5. n + 1 = nodes' - kids'[cur'] + idx' - 1
      BY <2>1, <3>2, SeqFacts
    <3>3. pc' = "create" /\ ctx' = "loop" /\ ckpt'.gen # 0
      BY <1>22, <2>1, <2>2 DEF CommitChild, CreateFresh, AdoptOrCreate
    <3>. HIDE DEF n
    <3>4. n + 1 \in Nat /\ DOMAIN rows' = 0 .. (n + 1) - 1
      BY <3>1, CreateDense
    <3>. QED
      BY <3>3, <3>4, <3>5 DEF IdInv
  <2>3. CASE ctx = "replay" /\ Adopted
    BY <1>22, <2>3, IdFrame DEF CommitChild, CreateFresh, AdoptOrCreate
  <2>4. CASE ctx = "replay" /\ ~Adopted
    <3>1. DOMAIN rows = 0 .. nodes - 1
      BY <1>22, <2>1, <2>4 DEF CommitChild, CreateFresh, AdoptOrCreate, IdInv
    <3>2. nodes' = nodes + 1 /\ pc' = "create" /\ ctx' = "replay" /\ ckpt'.gen # 0
      BY <1>22, <2>1, <2>4 DEF CommitChild, CreateFresh, AdoptOrCreate
    <3>3. nodes + 1 \in Nat /\ DOMAIN rows' = 0 .. (nodes + 1) - 1
      BY <1>22, <2>4, <3>1, SeqFacts, CreateDense DEF CommitChild, CreateFresh,
         AdoptOrCreate
    <3>. QED
      BY <3>2, <3>3 DEF IdInv
  <2>. QED
    BY <1>22, <2>2, <2>3, <2>4, SMTT(40) DEF CommitChild, CreateFresh, AdoptOrCreate
<1>23. CASE UpdateParent
  <2>1. kids[cur] \in 0 .. K
    BY <1>23, CurType, SMTT(40) DEF UpdateParent, Committing
  <2>2. idx = kids[cur] + 1
    BY <1>23, <2>1, SeqFacts DEF UpdateParent, ControlInv
  <2>3. (nodes - kids[cur] + idx - 1) - 1 = nodes - 1
    BY <2>1, <2>2, SeqFacts, SMTT(40)
  <2>4. DOMAIN rows = 0 .. nodes - 1
    BY <1>23, <2>3 DEF UpdateParent, ControlInv, Checkpointing, TypeControl, IdInv
  <2>. QED
    BY <1>23, <2>4 DEF UpdateParent, IdInv
<1>24. CASE FinishCommit
  BY <1>24, IdFrame DEF FinishCommit, Outer, Due, ControlInv, Checkpointing
<1>25. CASE CheckpointArchive
  BY <1>25, IdFrame DEF CheckpointArchive
<1>26. CASE CheckpointPut
  <2>1. ckpt'.gen # 0
    BY <1>26 DEF CheckpointPut, BuildCheckpoint, TypeControl
  <2>. QED
    BY <1>26, <2>1, IdFrame DEF CheckpointPut
<1>27. CASE TruncateWal
  BY <1>27, IdFrame DEF TruncateWal, IsEffectiveSeq, IsFront
<1>28. CASE FinishCheckpoint
  BY <1>28, IdFrame DEF FinishCheckpoint, Outer, IsEffectiveSeq, IsFront
<1>29. CASE RpcFails
  BY <1>29, IdFrame DEF RpcFails, BeginFinal
<1>30. CASE Crash
  <2>1. rows' = rows /\ ckpt' = ckpt /\ pc' = "down"
    BY <1>30 DEF Crash
  <2>. QED
    BY <2>1, ZenonT(40) DEF IdInv
<1>31. CASE \E c \in Controls : Send(c)
  BY <1>31, IdFrame DEF Send
<1>32. CASE UNCHANGED vars
  BY <1>32, IdFrame DEF vars
<1>. QED
  BY <1>1, <1>2, <1>3, <1>4, <1>5, <1>6, <1>7, <1>8, <1>9, <1>10, <1>11, <1>12, <1>13,
     <1>14, <1>15, <1>16, <1>17, <1>18, <1>19, <1>20, <1>21, <1>22, <1>23, <1>24, <1>25,
     <1>26, <1>27, <1>28, <1>29, <1>30, <1>31, <1>32, ZenonT(40) DEF Next, Step, Idle

-----------------------------------------------------------------------------
(* The theorems.                                                           *)

\* The runner starts in the invariant.
LEMMA InitInv == Init => IInv
<1>. SUFFICES ASSUME Init PROVE IInv
  BY SMTT(40)
<1>. USE BoundsAssumption DEF Init
<1>1. TypeService
  BY DEF TypeService, NoCkpt, States, Seqs, Row
<1>2. TypeControl
  BY DEF TypeControl, PCs, Starting, States
<1>3. TypeWork
  BY DEF TypeWork, Seqs
<1>4. ControlInv
  BY SMTT(40) DEF ControlInv, CurPending, Committing, Checkpointing, Starting, Up
<1>5. WalInv
  BY DEF WalInv, Up, NoCkpt
<1>6. RowInv
  BY DEF RowInv, NoDoubleCommit, Up
<1>7. IdInv
  <2>1. 0 \in Nat /\ DOMAIN rows = 0 .. 0 - 1
    OBVIOUS
  <2>. QED
    BY <2>1 DEF IdInv, Up
<1>. QED
  BY <1>1, <1>2, <1>3, <1>4, <1>5, <1>6, <1>7 DEF IInv, TypeOK

\* IInv is inductive: it holds in every state of every run of the runner, in
\* both scheduling modes, across any crashes, failures and control messages.
THEOREM Invariance == Spec => []IInv
<1>1. IInv /\ [Next]_vars => IInv'
  BY TypeServiceStep, TypeControlStep, TypeWorkStep, ControlStep, WalStep, RowStep, IdStep
  DEF IInv, TypeOK
<1>. QED
  BY InitInv, <1>1, PTL DEF Spec

\* The runner's memory and the store keep their types and bounds.
THEOREM TypeCorrect == Spec => []TypeOK
<1>1. IInv => TypeOK
  BY DEF IInv
<1>. QED
  BY Invariance, <1>1, PTL

\* However often commit_replayed runs over the children a dead process left
\* behind, no child of any batch ever has two rows in the store.
THEOREM NeverTwiceCommitted == Spec => []NoDoubleCommit
<1>1. IInv => NoDoubleCommit
  BY DEF IInv, RowInv
<1>. QED
  BY Invariance, <1>1, PTL

\* Between batches tree.len() is the next free id of a dense store: a
\* CreateNode never lands on an id another child has taken.
THEOREM IdsStayDense == Spec => []DenseIds
<1>1. IInv => DenseIds
  BY DEF IInv, IdInv, ControlInv, Checkpointing, DenseIds, BetweenBatches, Up, Starting
<1>. QED
  BY Invariance, <1>1, PTL

================================================================================
