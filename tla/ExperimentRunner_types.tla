----------------------- MODULE ExperimentRunner_types ------------------------
(* The inductive invariant of ExperimentRunner, and the proof that every    *)
(* step keeps the types, the control state and the replay window: which     *)
(* batches are logged, queued and in flight.  The proofs are for every      *)
(* number of batches, children, crashes and control messages, in fast and   *)
(* in deterministic mode, with and without failing RPCs.                    *)
EXTENDS ExperimentRunner, FiniteSetTheorems, TLAPS

\* Seconds a leaf may take on a loaded machine.
USE SMTT(20), ZenonT(30)

-----------------------------------------------------------------------------
(* The inductive invariant.                                                *)

Checkpointing == {"ck_archive", "ck_put", "ck_delete"}
Committing == {"commit", "create", "replay_commits"}
Up == pc \notin Starting \cup {"down"}

\* Row i is a child of batch s.
OfBatch(i, s) == rows[i] # Root /\ rows[i][1] = s

\* A popped replay intent waits in cur while handle_control runs.
CurPending ==
    \/ pc \in Committing \cup {"replay_control"}
    \/ ctx = "replay" /\ \/ pc = "parked"
                         \/ pc = "drain" /\ drainFor = "pause"
                         \/ pc \in Checkpointing /\ ckFor = "pause"

\* Memory before run() starts, and what the control state says of it.
ControlInv ==
    /\ pc \in Starting \cup {"down"} => inflight = {} /\ ckFor = "none" /\ drainFor = "none"
    /\ pc \in {"down", "boot_root", "boot_archive", "rs_truncate", "rs_load"} =>
           batchSeq = 0 /\ queue = {}
    /\ pc \in {"boot_root", "boot_archive"} => ckpt.gen = 0
    /\ pc \in {"down", "boot_root", "boot_archive"} => ctx = "loop"
    /\ pc \in {"loop", "select", "submit", "wait"} => ctx = "loop"
    /\ pc \in {"replay", "replay_control", "boot_parked"} => ctx = "replay"
    /\ ctx = "replay" => inflight = {}
    /\ ckFor # "none" => pc \in Checkpointing \cup {"ended"}
    /\ CurPending => cur \in Seqs /\ cur < batchSeq
    /\ pc \in Committing => cur \notin inflight
    /\ pc \in {"create", "replay_commits"} => idx > 0
    /\ pc = "create" => idx <= kids[cur] + 1
    /\ pc = "submit" => batchSeq < MaxSeq
    /\ pc \in {"rs_truncate", "rs_load", "rs_restore", "rs_replay", "ck_delete"} => ckpt.gen > 0
    /\ Up /\ ckpt.gen = 0 => ckFor = "boot"

\* The replay window above the checkpoint is contiguous and ends at batch_seq;
\* entries are only deleted below it.
WalInv ==
    /\ ckpt.gen = 0 => ckpt = NoCkpt /\ wal = {}
    /\ \A s \in wal : \A t \in Seqs : ckpt.seq <= t /\ t <= s => t \in wal
    /\ pc \in {"rs_restore", "rs_replay"} =>
           \A s \in Seqs : s \in queue <=> s \in wal /\ ckpt.seq <= s
    /\ pc = "rs_truncate" => delSeq <= ckpt.seq
    /\ pc = "ck_delete" => IsEffectiveSeq(ckpt.seq)
    /\ pc = "submit" => batchSeq \in wal
    /\ Up => /\ ckpt.seq <= batchSeq
             /\ \A t \in Seqs : ckpt.seq <= t /\ t < batchSeq => t \in wal
             /\ \A s \in wal : s <= batchSeq
             /\ pc \notin {"submit", "ended"} /\ ckFor # "final" => batchSeq \notin wal
             /\ \A s \in queue : ckpt.seq <= s /\ s < batchSeq
             /\ \A s \in inflight : s < batchSeq

\* Rows belong to logged batches; a batch in flight has none yet; a fresh
\* commit has written exactly the children before idx.
RowInv ==
    /\ NoDoubleCommit
    /\ \A i \in DOMAIN rows : rows[i] # Root => rows[i][1] < ckpt.seq \/ rows[i][1] \in wal
    /\ Up => \A i \in DOMAIN rows : rows[i] # Root => rows[i][1] < batchSeq
    /\ \A i \in DOMAIN rows : \A s \in inflight : ~OfBatch(i, s)
    /\ pc = "commit" /\ ctx = "loop" => \A i \in DOMAIN rows : ~OfBatch(i, cur)
    /\ pc = "create" /\ ctx = "loop" =>
           \A i \in DOMAIN rows : OfBatch(i, cur) => rows[i][2] < idx

\* The store is dense, and outside a fresh commit and a failed run its size
\* is the id counter.
IdInv ==
    /\ \E n \in Nat : DOMAIN rows = 0 .. n - 1
    /\ ckpt.gen = 0 => DOMAIN rows \subseteq {0}
    /\ pc \in {"boot_archive", "rs_restore", "rs_replay"} => DOMAIN rows = 0 .. nodes - 1
    /\ Up /\ ckFor # "final" /\ pc # "ended" /\ ~(pc = "create" /\ ctx = "loop") =>
           DOMAIN rows = 0 .. nodes - 1
    /\ pc = "create" /\ ctx = "loop" =>
           /\ nodes - kids[cur] + idx - 1 \in Nat
           /\ DOMAIN rows = 0 .. (nodes - kids[cur] + idx - 1) - 1

IInv == TypeOK /\ ControlInv /\ WalInv /\ RowInv /\ IdInv

-----------------------------------------------------------------------------
(* Type correctness.                                                       *)

\* The batch being committed is one the oracle knows.
LEMMA CurType ==
    ASSUME TypeWork, ControlInv, pc \in Committing
    PROVE  cur \in Seqs /\ kids[cur] \in 0 .. K /\ cur < batchSeq
BY DEF TypeWork, ControlInv, CurPending

\* The children of a batch are nodes.
LEMMA ChildrenType ==
    ASSUME TypeWork, NEW s \in Seqs
    PROVE  Children(s) \subseteq Row
BY BoundsAssumption DEF TypeWork, Children, Row

\* Node ids are dense, so the rows are finitely many.
LEMMA DenseFinite ==
    ASSUME IdInv
    PROVE  Cardinality(DOMAIN rows) \in Nat
<1>1. PICK n \in Nat : DOMAIN rows = 0 .. n - 1
  BY DEF IdInv
<1>2. IsFiniteSet(0 .. n - 1)
  BY FS_Interval
<1>. QED
  BY <1>1, <1>2, FS_CardinalityType

\* Every step keeps the types of the store and the scorer.
LEMMA TypeServiceStep ==
    ASSUME TypeService, TypeControl, TypeWork, ControlInv, IdInv, [Next]_vars
    PROVE  TypeService'
<1>. USE BoundsAssumption DEF TypeService, service, control, work, cadence, oracle, history,
         faults
<1>1. CASE StartFresh
  BY <1>1 DEF StartFresh
<1>2. CASE BootstrapRoot
  BY <1>2 DEF BootstrapRoot, CreateNode, Row, Root
<1>3. CASE BootstrapArchive
  BY <1>3 DEF BootstrapArchive, Row
<1>4. CASE StartResume
  BY <1>4 DEF StartResume
<1>5. CASE ResumeTruncate
  BY <1>5 DEF ResumeTruncate
<1>6. CASE ResumeLoad
  BY <1>6 DEF ResumeLoad, NextId, Loaded
<1>7. CASE ResumeRestoreArchive
  BY <1>7 DEF ResumeRestoreArchive
<1>8. CASE ResumeFinish
  BY <1>8 DEF ResumeFinish, IsFront, PostCheckpoint, Stored, PostCheckpoint
<1>9. CASE PopReplay
  BY <1>9 DEF PopReplay, IsFront
<1>10. CASE ReplayDone
  BY <1>10 DEF ReplayDone
<1>11. CASE HandleControl
  BY <1>11 DEF HandleControl, DrainReason
<1>12. CASE ReplayExecute
  BY <1>12 DEF ReplayExecute
<1>13. CASE CheckBudget
  BY <1>13 DEF CheckBudget
<1>14. CASE WriteIntent
  BY <1>14 DEF WriteIntent, TypeWork, Seqs
<1>15. CASE SubmitBatch
  BY <1>15 DEF SubmitBatch
<1>16. CASE StopSelecting
  BY <1>16 DEF StopSelecting
<1>17. CASE FrontierExhausted
  BY <1>17 DEF FrontierExhausted, BeginFinal
<1>18. CASE NextCompleted
  BY <1>18 DEF NextCompleted
<1>19. CASE Drained
  BY <1>19 DEF Drained, BeginFinal
<1>20. CASE Parked
  BY <1>20 DEF Parked, BeginFinal
<1>21. CASE BeginCommit
  BY <1>21 DEF BeginCommit
<1>22. CASE CommitChild
  <2>1. cur \in Seqs /\ kids[cur] \in 0 .. K /\ idx > 0
    BY <1>22, CurType DEF CommitChild, Committing, ControlInv
  <2>2. <<cur, idx>> \in Row
    BY <1>22, <2>1 DEF CommitChild, Row, TypeWork
  <2>3. CASE ctx = "loop"
    <3>1. nodes - kids[cur] + idx - 1 \in Nat
      BY <1>22, <2>1, <2>3 DEF CommitChild, CreateFresh, AdoptOrCreate, IdInv, TypeWork
    <3>. QED
      BY <1>22, <2>2, <2>3, <3>1 DEF CommitChild, CreateFresh, AdoptOrCreate, CreateNode
  <2>4. CASE ctx = "replay"
    BY <1>22, <2>2, <2>4 DEF CommitChild, CreateFresh, AdoptOrCreate, CreateNode, TypeWork
  <2>. QED
    BY <1>22, <2>3, <2>4 DEF CommitChild, CreateFresh, AdoptOrCreate
<1>23. CASE UpdateParent
  BY <1>23, ZenonT(40) DEF UpdateParent, ControlInv, CurPending, Committing, Seqs
<1>24. CASE FinishCommit
  <2>1. Children(cur) \subseteq Row
    BY <1>24, CurType, ChildrenType DEF FinishCommit, Committing
  <2>. QED
    BY <1>24, <2>1 DEF FinishCommit
<1>25. CASE CheckpointArchive
  BY <1>25 DEF CheckpointArchive
<1>26. CASE CheckpointPut
  BY <1>26 DEF CheckpointPut, BuildCheckpoint, IsEffectiveSeq, IsFront, TypeWork,
     TypeControl
<1>27. CASE TruncateWal
  BY <1>27 DEF TruncateWal, IsEffectiveSeq, IsFront
<1>28. CASE FinishCheckpoint
  BY <1>28 DEF FinishCheckpoint, Outer, IsEffectiveSeq, IsFront
<1>29. CASE RpcFails
  BY <1>29 DEF RpcFails, BeginFinal
<1>30. CASE Crash
  BY <1>30 DEF Crash
<1>31. CASE \E c \in Controls : Send(c)
  BY <1>31 DEF Send
<1>32. CASE UNCHANGED vars
  BY <1>32, SMTT(40) DEF vars
<1>. QED
  BY <1>1, <1>2, <1>3, <1>4, <1>5, <1>6, <1>7, <1>8, <1>9, <1>10, <1>11, <1>12, <1>13,
     <1>14, <1>15, <1>16, <1>17, <1>18, <1>19, <1>20, <1>21, <1>22, <1>23, <1>24, <1>25,
     <1>26, <1>27, <1>28, <1>29, <1>30, <1>31, <1>32, ZenonT(40) DEF Next, Step, Idle

\* Every step keeps the types of the control state.
LEMMA TypeControlStep ==
    ASSUME TypeService, TypeControl, TypeWork, ControlInv, IdInv, [Next]_vars
    PROVE  TypeControl'
<1>. USE BoundsAssumption DEF TypeControl, PCs, Starting, States, service, control, work,
         cadence, oracle, history, faults
<1>1. CASE StartFresh
  BY <1>1 DEF StartFresh
<1>2. CASE BootstrapRoot
  BY <1>2 DEF BootstrapRoot, CreateNode
<1>3. CASE BootstrapArchive
  BY <1>3 DEF BootstrapArchive
<1>4. CASE StartResume
  BY <1>4 DEF StartResume, TypeService
<1>5. CASE ResumeTruncate
  BY <1>5 DEF ResumeTruncate
<1>6. CASE ResumeLoad
  BY <1>6 DEF ResumeLoad, NextId, Loaded
<1>7. CASE ResumeRestoreArchive
  BY <1>7 DEF ResumeRestoreArchive
<1>8. CASE ResumeFinish
  BY <1>8 DEF ResumeFinish, IsFront, PostCheckpoint
<1>9. CASE PopReplay
  BY <1>9 DEF PopReplay, IsFront
<1>10. CASE ReplayDone
  BY <1>10 DEF ReplayDone
<1>11. CASE HandleControl
  BY <1>11 DEF HandleControl, DrainReason
<1>12. CASE ReplayExecute
  BY <1>12 DEF ReplayExecute
<1>13. CASE CheckBudget
  BY <1>13 DEF CheckBudget
<1>14. CASE WriteIntent
  BY <1>14 DEF WriteIntent
<1>15. CASE SubmitBatch
  BY <1>15 DEF SubmitBatch
<1>16. CASE StopSelecting
  BY <1>16 DEF StopSelecting
<1>17. CASE FrontierExhausted
  BY <1>17 DEF FrontierExhausted, BeginFinal
<1>18. CASE NextCompleted
  BY <1>18 DEF NextCompleted
<1>19. CASE Drained
  BY <1>19 DEF Drained, BeginFinal
<1>20. CASE Parked
  BY <1>20 DEF Parked, BeginFinal
<1>21. CASE BeginCommit
  BY <1>21 DEF BeginCommit
<1>22. CASE CommitChild
  BY <1>22 DEF CommitChild, CreateFresh, AdoptOrCreate, CreateNode, Adopted
<1>23. CASE UpdateParent
  BY <1>23 DEF UpdateParent
<1>24. CASE FinishCommit
  BY <1>24 DEF FinishCommit, Outer, Due
<1>25. CASE CheckpointArchive
  BY <1>25 DEF CheckpointArchive
<1>26. CASE CheckpointPut
  BY <1>26 DEF CheckpointPut, BuildCheckpoint, IsEffectiveSeq, IsFront
<1>27. CASE TruncateWal
  BY <1>27 DEF TruncateWal, IsEffectiveSeq, IsFront
<1>28. CASE FinishCheckpoint
  BY <1>28 DEF FinishCheckpoint, Outer, IsEffectiveSeq, IsFront
<1>29. CASE RpcFails
  BY <1>29 DEF RpcFails, BeginFinal
<1>30. CASE Crash
  BY <1>30 DEF Crash
<1>31. CASE \E c \in Controls : Send(c)
  BY <1>31 DEF Send
<1>32. CASE UNCHANGED vars
  BY <1>32, SMTT(40) DEF vars
<1>. QED
  BY <1>1, <1>2, <1>3, <1>4, <1>5, <1>6, <1>7, <1>8, <1>9, <1>10, <1>11, <1>12, <1>13,
     <1>14, <1>15, <1>16, <1>17, <1>18, <1>19, <1>20, <1>21, <1>22, <1>23, <1>24, <1>25,
     <1>26, <1>27, <1>28, <1>29, <1>30, <1>31, <1>32, ZenonT(40) DEF Next, Step, Idle

\* Every step keeps the types of the runner's counters and sets.
LEMMA TypeWorkStep ==
    ASSUME TypeService, TypeControl, TypeWork, ControlInv, IdInv, [Next]_vars
    PROVE  TypeWork'
<1>. USE BoundsAssumption DEF TypeWork, service, control, work, cadence, oracle, history,
         faults
<1>1. CASE StartFresh
  BY <1>1 DEF StartFresh
<1>2. CASE BootstrapRoot
  BY <1>2 DEF BootstrapRoot, CreateNode, Row
<1>3. CASE BootstrapArchive
  BY <1>3 DEF BootstrapArchive
<1>4. CASE StartResume
  BY <1>4 DEF StartResume, TypeService
<1>5. CASE ResumeTruncate
  BY <1>5 DEF ResumeTruncate
<1>6. CASE ResumeLoad
  <2>1. Cardinality(DOMAIN rows) \in Nat
    BY DenseFinite
  <2>2. Stored \subseteq Row /\ ckpt.seen \subseteq Row /\ Loaded \subseteq Seqs
    BY DEF TypeService, Stored, Loaded
  <2>. QED
    BY <1>6, <2>1, <2>2 DEF ResumeLoad, NextId
<1>7. CASE ResumeRestoreArchive
  BY <1>7 DEF ResumeRestoreArchive
<1>8. CASE ResumeFinish
  BY <1>8, ZenonT(40) DEF ResumeFinish, IsFront, PostCheckpoint, TypeService, Seqs
<1>9. CASE PopReplay
  BY <1>9 DEF PopReplay, IsFront, Seqs
<1>10. CASE ReplayDone
  BY <1>10 DEF ReplayDone
<1>11. CASE HandleControl
  BY <1>11 DEF HandleControl, DrainReason
<1>12. CASE ReplayExecute
  BY <1>12 DEF ReplayExecute
<1>13. CASE CheckBudget
  BY <1>13 DEF CheckBudget
<1>14. CASE WriteIntent
  BY <1>14 DEF WriteIntent, Seqs
<1>15. CASE SubmitBatch
  BY <1>15 DEF SubmitBatch, Seqs, ControlInv
<1>16. CASE StopSelecting
  BY <1>16 DEF StopSelecting
<1>17. CASE FrontierExhausted
  BY <1>17 DEF FrontierExhausted, BeginFinal
<1>18. CASE NextCompleted
  BY <1>18 DEF NextCompleted, Seqs
<1>19. CASE Drained
  BY <1>19 DEF Drained, BeginFinal
<1>20. CASE Parked
  BY <1>20 DEF Parked, BeginFinal
<1>21. CASE BeginCommit
  <2>1. Children(cur) \subseteq Row /\ kids[cur] \in 0 .. K
    BY <1>21, CurType, ChildrenType DEF BeginCommit, Committing
  <2>. QED
    BY <1>21, <2>1 DEF BeginCommit
<1>22. CASE CommitChild
  <2>1. cur \in Seqs /\ kids[cur] \in 0 .. K /\ idx > 0
    BY <1>22, CurType DEF CommitChild, Committing, ControlInv
  <2>2. <<cur, idx>> \in Row
    BY <1>22, <2>1 DEF CommitChild, Row, TypeWork
  <2>. QED
    BY <1>22, <2>1, <2>2 DEF CommitChild, CreateFresh, AdoptOrCreate
<1>23. CASE UpdateParent
  BY <1>23 DEF UpdateParent
<1>24. CASE FinishCommit
  BY <1>24 DEF FinishCommit, Outer, Due, ControlInv, CurPending, Committing, Seqs
<1>25. CASE CheckpointArchive
  BY <1>25 DEF CheckpointArchive, TypeService
<1>26. CASE CheckpointPut
  BY <1>26 DEF CheckpointPut, BuildCheckpoint, IsEffectiveSeq, IsFront
<1>27. CASE TruncateWal
  BY <1>27 DEF TruncateWal, IsEffectiveSeq, IsFront
<1>28. CASE FinishCheckpoint
  BY <1>28 DEF FinishCheckpoint, Outer, IsEffectiveSeq, IsFront
<1>29. CASE RpcFails
  BY <1>29 DEF RpcFails, BeginFinal
<1>30. CASE Crash
  BY <1>30 DEF Crash
<1>31. CASE \E c \in Controls : Send(c)
  BY <1>31 DEF Send
<1>32. CASE UNCHANGED vars
  BY <1>32 DEF vars
<1>. QED
  BY <1>1, <1>2, <1>3, <1>4, <1>5, <1>6, <1>7, <1>8, <1>9, <1>10, <1>11, <1>12, <1>13,
     <1>14, <1>15, <1>16, <1>17, <1>18, <1>19, <1>20, <1>21, <1>22, <1>23, <1>24, <1>25,
     <1>26, <1>27, <1>28, <1>29, <1>30, <1>31, <1>32, ZenonT(40) DEF Next, Step, Idle

-----------------------------------------------------------------------------
(* The replay window.                                                      *)

\* Batch numbers are naturals.
LEMMA SeqFacts ==
    ASSUME TypeService, TypeWork
    PROVE  /\ ckpt.seq \in Nat /\ ckpt.seq <= MaxSeq /\ batchSeq \in Nat /\ batchSeq <= MaxSeq
           /\ delSeq \in Nat /\ cur \in Nat /\ idx \in Nat /\ nodes \in Nat
           /\ \A s \in wal : s \in Nat /\ s \in Seqs
           /\ \A s \in queue : s \in Nat /\ s \in Seqs
           /\ \A s \in inflight : s \in Nat /\ s \in Seqs
           /\ \A s \in Seqs : s \in Nat /\ s < MaxSeq
BY BoundsAssumption DEF TypeService, TypeWork, Seqs

\* The upward scan finds the whole replay window.
LEMMA LoadedWindow ==
    ASSUME TypeService, TypeWork, WalInv
    PROVE  \A s \in Seqs : s \in Loaded <=> s \in wal /\ ckpt.seq <= s
<1>1. ASSUME NEW s \in wal, ckpt.seq <= s, NEW t \in ckpt.seq .. s
      PROVE  \E u \in t .. t + MaxInflight + 1 : u \in wal
  <2>1. t \in Seqs /\ t \in Nat
    BY <1>1, SeqFacts, BoundsAssumption DEF Seqs
  <2>2. t \in wal
    BY <1>1, <2>1, SeqFacts DEF WalInv
  <2>. QED
    BY <2>1, <2>2, BoundsAssumption
<1>. QED
  BY <1>1, SeqFacts DEF Loaded

\* The batch and the child number of a row.
LEMMA RowFacts ==
    ASSUME TypeService
    PROVE  \A i \in DOMAIN rows : rows[i] # Root =>
               /\ rows[i][1] \in Seqs /\ rows[i][1] \in Nat /\ rows[i][2] \in Nat
               /\ rows[i] = <<rows[i][1], rows[i][2]>>
BY BoundsAssumption DEF TypeService, Row, Seqs

\* CreateNode on a free id adds that row and keeps every other.
LEMMA CreateFree ==
    ASSUME NEW id, NEW row, id \notin DOMAIN rows, CreateNode(id, row)
    PROVE  /\ DOMAIN rows' = DOMAIN rows \cup {id}
           /\ rows'[id] = row
           /\ \A i \in DOMAIN rows : rows'[i] = rows[i]
BY DEF CreateNode

\* CreateNode on the next id of a dense store.
LEMMA CreateDense ==
    ASSUME NEW n \in Nat, NEW row, DOMAIN rows = 0 .. n - 1, CreateNode(n, row)
    PROVE  /\ n \notin DOMAIN rows
           /\ n + 1 \in Nat /\ DOMAIN rows' = 0 .. (n + 1) - 1
<1>1. n \notin DOMAIN rows
  OBVIOUS
<1>2. DOMAIN rows' = (0 .. n - 1) \cup {n}
  BY <1>1, CreateFree, ZenonT(40)
<1>. QED
  BY <1>1, <1>2

\* At most one number is the effective checkpoint sequence.
LEMMA EffectiveUnique ==
    ASSUME TypeService, TypeWork, NEW d, NEW e, IsEffectiveSeq(d), IsEffectiveSeq(e)
    PROVE  d = e
BY SeqFacts DEF IsEffectiveSeq, IsFront

\* Every step keeps what the control state says of the memory.
LEMMA ControlStep ==
    ASSUME TypeService, TypeControl, TypeWork, ControlInv, WalInv, RowInv, IdInv, [Next]_vars
    PROVE  ControlInv'
<1>. USE BoundsAssumption DEF ControlInv, CurPending, Committing, Checkpointing, Starting,
         Up, service, control, work, cadence, oracle, history, faults
<1>1. CASE StartFresh
  BY <1>1 DEF StartFresh
<1>2. CASE BootstrapRoot
  BY <1>2 DEF BootstrapRoot, CreateNode
<1>3. CASE BootstrapArchive
  BY <1>3 DEF BootstrapArchive
<1>4. CASE StartResume
  BY <1>4 DEF StartResume, TypeService
<1>5. CASE ResumeTruncate
  BY <1>5 DEF ResumeTruncate
<1>6. CASE ResumeLoad
  BY <1>6 DEF ResumeLoad, NextId, Loaded
<1>7. CASE ResumeRestoreArchive
  BY <1>7 DEF ResumeRestoreArchive
<1>8. CASE ResumeFinish
  <2>1. /\ pc = "rs_replay" /\ pc' \in {"boot_parked", "replay"} /\ ctx' = "replay"
        /\ UNCHANGED <<ckpt, drainFor, ckFor, inflight, cur, idx, kids>>
    BY <1>8 DEF ResumeFinish
  <2>. QED
    BY <2>1
<1>9. CASE PopReplay
  BY <1>9 DEF PopReplay, IsFront, TypeWork, WalInv, Up
<1>10. CASE ReplayDone
  BY <1>10 DEF ReplayDone
<1>11. CASE HandleControl
  BY <1>11 DEF HandleControl, DrainReason
<1>12. CASE ReplayExecute
  BY <1>12 DEF ReplayExecute
<1>13. CASE CheckBudget
  BY <1>13 DEF CheckBudget
<1>14. CASE WriteIntent
  BY <1>14 DEF WriteIntent, TypeWork
<1>15. CASE SubmitBatch
  BY <1>15 DEF SubmitBatch, TypeWork
<1>16. CASE StopSelecting
  BY <1>16 DEF StopSelecting
<1>17. CASE FrontierExhausted
  BY <1>17 DEF FrontierExhausted, BeginFinal
<1>18. CASE NextCompleted
  BY <1>18 DEF NextCompleted, TypeWork, WalInv, Up, Seqs
<1>19. CASE Drained
  BY <1>19 DEF Drained, BeginFinal
<1>20. CASE Parked
  BY <1>20 DEF Parked, BeginFinal, TypeControl
<1>21. CASE BeginCommit
  BY <1>21, CurType DEF BeginCommit
<1>22. CASE CommitChild
  BY <1>22, SeqFacts, CurType DEF CommitChild, CreateFresh, AdoptOrCreate, CreateNode,
     Adopted
<1>23. CASE UpdateParent
  BY <1>23 DEF UpdateParent
<1>24. CASE FinishCommit
  BY <1>24 DEF FinishCommit, Outer, Due, TypeControl
<1>25. CASE CheckpointArchive
  BY <1>25 DEF CheckpointArchive
<1>26. CASE CheckpointPut
  BY <1>26 DEF CheckpointPut, BuildCheckpoint, IsEffectiveSeq, IsFront, TypeService,
     TypeControl, TypeWork
<1>27. CASE TruncateWal
  BY <1>27 DEF TruncateWal, IsEffectiveSeq, IsFront
<1>28. CASE FinishCheckpoint
  BY <1>28 DEF FinishCheckpoint, Outer, IsEffectiveSeq, IsFront, TypeControl
<1>29. CASE RpcFails
  BY <1>29 DEF RpcFails, BeginFinal
<1>30. CASE Crash
  BY <1>30 DEF Crash
<1>31. CASE \E c \in Controls : Send(c)
  BY <1>31 DEF Send
<1>32. CASE UNCHANGED vars
  BY <1>32, SMTT(40) DEF vars
<1>. QED
  BY <1>1, <1>2, <1>3, <1>4, <1>5, <1>6, <1>7, <1>8, <1>9, <1>10, <1>11, <1>12, <1>13,
     <1>14, <1>15, <1>16, <1>17, <1>18, <1>19, <1>20, <1>21, <1>22, <1>23, <1>24, <1>25,
     <1>26, <1>27, <1>28, <1>29, <1>30, <1>31, <1>32, ZenonT(40) DEF Next, Step, Idle

\* Every step keeps the replay window contiguous.
LEMMA WalStep ==
    ASSUME TypeService, TypeControl, TypeWork, ControlInv, WalInv, RowInv, IdInv, [Next]_vars
    PROVE  WalInv'
<1>. USE BoundsAssumption DEF WalInv, Up, Starting, IsEffectiveSeq, IsFront, service,
         control, work, cadence, oracle, history, faults
<1>1. CASE StartFresh
  BY <1>1 DEF StartFresh
<1>2. CASE BootstrapRoot
  BY <1>2 DEF BootstrapRoot, CreateNode
<1>3. CASE BootstrapArchive
  BY <1>3, SeqFacts DEF BootstrapArchive, ControlInv, NoCkpt
<1>4. CASE StartResume
  BY <1>4, SeqFacts DEF StartResume
<1>5. CASE ResumeTruncate
  BY <1>5, SeqFacts DEF ResumeTruncate
<1>6. CASE ResumeLoad
  BY <1>6, LoadedWindow DEF ResumeLoad, NextId, Loaded, ControlInv
<1>7. CASE ResumeRestoreArchive
  BY <1>7 DEF ResumeRestoreArchive
<1>8. CASE ResumeFinish
  <2>1. PICK b \in 0 .. MaxSeq :
           /\ IF queue = {} THEN b = ckpt.seq
              ELSE b - 1 \in queue /\ \A t \in queue : t < b
           /\ batchSeq' = b
    BY <1>8 DEF ResumeFinish
  <2>2. \A s \in Seqs : s \in queue <=> s \in wal /\ ckpt.seq <= s
    BY <1>8 DEF ResumeFinish
  <2>3. /\ ckpt' = ckpt /\ wal' = wal /\ queue' = queue /\ inflight' = inflight
        /\ ckFor' = ckFor /\ inflight = {}
    BY <1>8 DEF ResumeFinish, ControlInv
  <2>4. ckpt.seq <= b /\ \A s \in wal : s < b
    BY <2>1, <2>2, SeqFacts
  <2>5. \A t \in Seqs : ckpt.seq <= t /\ t < b => t \in wal
    BY <2>1, <2>2, SeqFacts
  <2>6. \A s \in queue : ckpt.seq <= s /\ s < b
    BY <2>1, <2>2, SeqFacts
  <2>. QED
    BY <1>8, <2>1, <2>3, <2>4, <2>5, <2>6, SeqFacts DEF ResumeFinish
<1>9. CASE PopReplay
  BY <1>9, SeqFacts DEF PopReplay, IsFront
<1>10. CASE ReplayDone
  BY <1>10 DEF ReplayDone
<1>11. CASE HandleControl
  BY <1>11 DEF HandleControl, DrainReason
<1>12. CASE ReplayExecute
  BY <1>12 DEF ReplayExecute
<1>13. CASE CheckBudget
  BY <1>13 DEF CheckBudget
<1>14. CASE WriteIntent
  BY <1>14, SeqFacts DEF WriteIntent, ControlInv, Checkpointing
<1>15. CASE SubmitBatch
  BY <1>15, SeqFacts DEF SubmitBatch, ControlInv, Checkpointing
<1>16. CASE StopSelecting
  BY <1>16 DEF StopSelecting
<1>17. CASE FrontierExhausted
  BY <1>17 DEF FrontierExhausted, BeginFinal
<1>18. CASE NextCompleted
  BY <1>18 DEF NextCompleted
<1>19. CASE Drained
  BY <1>19 DEF Drained, BeginFinal, ControlInv, Checkpointing
<1>20. CASE Parked
  BY <1>20 DEF Parked, BeginFinal
<1>21. CASE BeginCommit
  BY <1>21 DEF BeginCommit
<1>22. CASE CommitChild
  BY <1>22 DEF CommitChild, CreateFresh, AdoptOrCreate, CreateNode, Adopted
<1>23. CASE UpdateParent
  BY <1>23 DEF UpdateParent
<1>24. CASE FinishCommit
  BY <1>24 DEF FinishCommit, Outer, Due, ControlInv, Checkpointing
<1>25. CASE CheckpointArchive
  BY <1>25 DEF CheckpointArchive
<1>26. CASE CheckpointPut
  <2>1. PICK e \in 0 .. MaxSeq : IsEffectiveSeq(e) /\ ckpt' = BuildCheckpoint(e)
    BY <1>26 DEF CheckpointPut
  <2>2. ckpt'.seq = e /\ ckpt'.gen # 0
    BY <1>26, <2>1 DEF CheckpointPut, BuildCheckpoint, TypeControl
  <2>3. ckpt.seq <= e /\ e <= batchSeq /\ \A s \in queue : e <= s
    BY <1>26, <2>1, SeqFacts DEF CheckpointPut
  <2>. QED
    BY <1>26, <2>1, <2>2, <2>3, SeqFacts DEF CheckpointPut
<1>27. CASE TruncateWal
  <2>1. delSeq < ckpt.seq
    BY <1>27, EffectiveUnique DEF TruncateWal
  <2>. QED
    BY <1>27, <2>1, SeqFacts DEF TruncateWal
<1>28. CASE FinishCheckpoint
  BY <1>28 DEF FinishCheckpoint, Outer, IsEffectiveSeq, IsFront
<1>29. CASE RpcFails
  BY <1>29 DEF RpcFails, BeginFinal
<1>30. CASE Crash
  BY <1>30 DEF Crash
<1>31. CASE \E c \in Controls : Send(c)
  BY <1>31 DEF Send
<1>32. CASE UNCHANGED vars
  BY <1>32 DEF vars
<1>. QED
  BY <1>1, <1>2, <1>3, <1>4, <1>5, <1>6, <1>7, <1>8, <1>9, <1>10, <1>11, <1>12, <1>13,
     <1>14, <1>15, <1>16, <1>17, <1>18, <1>19, <1>20, <1>21, <1>22, <1>23, <1>24, <1>25,
     <1>26, <1>27, <1>28, <1>29, <1>30, <1>31, <1>32, ZenonT(40) DEF Next, Step, Idle
=============================================================================
