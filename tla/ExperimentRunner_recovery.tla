---------------------- MODULE ExperimentRunner_recovery ----------------------
(* What a restart finds: PAUSED is durable, the scorer is in lockstep with    *)
(* the store, and with one batch in flight the checkpoint and the log account *)
(* for every batch, so that the runner implements the ledger.                 *)
EXTENDS ExperimentRunner_proofs

\* Seconds a leaf may take on a loaded machine.
USE SMTT(20), ZenonT(30)

-----------------------------------------------------------------------------
(* PAUSED is durable.                                                         *)

\* The runner owns the generation it last wrote; a pause checkpoint is begun
\* with nothing in flight, and its status is in the store before it is published.
PauseInv ==
    /\ gen = IF pc = "down" THEN 0 ELSE ckpt.gen
    /\ pc \in Checkpointing /\ ckFor = "pause" => status = "Paused" /\ inflight = {}
    /\ pc = "ck_delete" => ckpt.status = status
    /\ pc \in {"parked", "boot_parked"} => ckpt.status = "Paused" /\ inflight = {}

\* A step that writes no checkpoint and neither begins nor ends one.
LEMMA PauseQuiet ==
    ASSUME PauseInv, UNCHANGED <<ckpt, gen>>, pc # "down",
           pc' \notin Checkpointing \cup {"down", "parked", "boot_parked"}
    PROVE  PauseInv'
BY DEF PauseInv, Checkpointing

\* A step that begins a checkpoint for another reason than a pause.
LEMMA PauseOther ==
    ASSUME PauseInv, UNCHANGED <<ckpt, gen>>, pc # "down", pc' = "ck_archive", ckFor' # "pause"
    PROVE  PauseInv'
BY DEF PauseInv

\* Every step keeps it.
LEMMA PauseStep ==
    ASSUME TypeOK, ControlInv, PauseInv, [Next]_vars
    PROVE  PauseInv'
<1>. USE DEF service, control, work, cadence, oracle, history, faults, Checkpointing
<1>1. CASE StartFresh \/ StartResume
  BY <1>1 DEF StartFresh, StartResume, PauseInv
<1>2. CASE BootstrapRoot \/ ResumeTruncate \/ ResumeLoad \/ ResumeRestoreArchive
  BY <1>2, PauseQuiet DEF BootstrapRoot, ResumeTruncate, ResumeLoad, ResumeRestoreArchive
<1>3. CASE BootstrapArchive \/ FrontierExhausted
  BY <1>3, PauseOther DEF BootstrapArchive, FrontierExhausted, BeginFinal
<1>4. CASE ResumeFinish
  <2>1. UNCHANGED <<ckpt, gen, inflight>> /\ inflight = {} /\ pc = "rs_replay"
    BY <1>4 DEF ResumeFinish, ControlInv, Starting
  <2>2. (pc' = "boot_parked" /\ ckpt.status = "Paused") \/ pc' = "replay"
    BY <1>4 DEF ResumeFinish
  <2>. QED
    BY <2>1, <2>2 DEF PauseInv
<1>5. CASE PopReplay \/ ReplayDone \/ HandleControl \/ ReplayExecute \/ CheckBudget
  BY <1>5, PauseQuiet DEF PopReplay, ReplayDone, HandleControl, ReplayExecute, CheckBudget
<1>6. CASE WriteIntent \/ SubmitBatch \/ StopSelecting \/ NextCompleted
  BY <1>6, PauseQuiet DEF WriteIntent, SubmitBatch, StopSelecting, NextCompleted
<1>7. CASE Drained
  <2>1. UNCHANGED <<ckpt, gen, inflight>> /\ inflight = {} /\ pc = "drain" /\ pc' = "ck_archive"
    BY <1>7 DEF Drained, BeginFinal
  <2>2. ckFor' = "pause" => status' = "Paused"
    BY <1>7 DEF Drained, BeginFinal
  <2>. QED
    BY <2>1, <2>2 DEF PauseInv
<1>8. CASE Parked
  <2>1. UNCHANGED <<ckpt, gen, inflight>> /\ pc \in {"parked", "boot_parked"}
    BY <1>8 DEF Parked
  <2>2. \/ pc' \in {"replay", "replay_control", "loop"}
        \/ pc' = "ck_archive" /\ ckFor' = "final"
        \/ pc' = pc
    BY <1>8 DEF Parked, BeginFinal
  <2>. QED
    BY <2>1, <2>2 DEF PauseInv
<1>9. CASE BeginCommit \/ CommitChild \/ UpdateParent
  BY <1>9, PauseQuiet DEF BeginCommit, CommitChild, UpdateParent
<1>10. CASE FinishCommit
  <2>1. UNCHANGED <<ckpt, gen>> /\ pc = "replay_commits"
    BY <1>10 DEF FinishCommit
  <2>2. pc' \in {"drain", "replay", "loop"} \/ (pc' = "ck_archive" /\ ckFor' # "pause")
    BY <1>10 DEF FinishCommit, Outer
  <2>. QED
    BY <2>1, <2>2, PauseQuiet, PauseOther
<1>11. CASE CheckpointArchive
  BY <1>11 DEF CheckpointArchive, PauseInv
<1>12. CASE CheckpointPut
  <2>1. pc = "ck_put" /\ pc' = "ck_delete" /\ UNCHANGED <<ckFor, status, inflight>> /\ gen' = gen + 1
    BY <1>12 DEF CheckpointPut
  <2>2. ckpt'.gen = gen + 1 /\ ckpt'.status = status
    BY <1>12 DEF CheckpointPut, BuildCheckpoint
  <2>. QED
    BY <2>1, <2>2 DEF PauseInv
<1>13. CASE TruncateWal
  BY <1>13 DEF TruncateWal, PauseInv
<1>14. CASE FinishCheckpoint
  <2>1. UNCHANGED <<ckpt, gen, inflight, status>> /\ pc = "ck_delete"
    BY <1>14 DEF FinishCheckpoint
  <2>2. pc' \in {"replay", "loop", "drain", "ended"} \/ (pc' = "parked" /\ ckFor = "pause")
    BY <1>14 DEF FinishCheckpoint, Outer
  <2>. QED
    BY <2>1, <2>2 DEF PauseInv
<1>15. CASE RpcFails
  <2>1. UNCHANGED <<ckpt, gen>> /\ pc # "down"
    BY <1>15 DEF RpcFails
  <2>2. pc' = "ended" \/ (pc' = "ck_archive" /\ ckFor' = "final")
    BY <1>15 DEF RpcFails, BeginFinal
  <2>. QED
    BY <2>1, <2>2, PauseQuiet, PauseOther
<1>16. CASE Crash
  BY <1>16 DEF Crash, PauseInv
<1>17. CASE (\E c \in Controls : Send(c)) \/ UNCHANGED vars
  BY <1>17 DEF Send, vars, PauseInv
<1>. QED
  BY <1>1, <1>2, <1>3, <1>4, <1>5, <1>6, <1>7, <1>8, <1>9, <1>10, <1>11, <1>12, <1>13,
     <1>14, <1>15, <1>16, <1>17, Zenon DEF Next, Step, Idle

\* The runner's status is Paused from the pause checkpoint on and while it is parked; the published one
\* while it is parked, and in the final checkpoint of a Stop that ends the pause.
PubInv ==
    /\ status = "Paused" => pc \in {"parked", "boot_parked"} \/ (pc \in Checkpointing /\ ckFor = "pause")
    /\ pub = "Paused" => pc \in {"parked", "boot_parked"} \/ (pc \in Checkpointing /\ ckFor = "final")

\* A step from elsewhere that publishes nothing but what the status is.
LEMMA PubQuiet ==
    ASSUME PubInv, pc \notin Checkpointing \cup {"parked", "boot_parked"},
           status' # "Paused" \/ status' = status, pub' \in {pub, status}
    PROVE  PubInv'
BY DEF PubInv

\* Every step keeps it.
LEMMA PubStep ==
    ASSUME PubInv, [Next]_vars
    PROVE  PubInv'
<1>. USE DEF service, control, work, cadence, oracle, history, faults, Checkpointing
<1>1. CASE StartFresh \/ StartResume \/ BootstrapRoot \/ ResumeTruncate \/ ResumeLoad \/ ResumeRestoreArchive
  BY <1>1, PubQuiet DEF StartFresh, StartResume, BootstrapRoot, ResumeTruncate, ResumeLoad, ResumeRestoreArchive
<1>2. CASE BootstrapArchive \/ FrontierExhausted
  BY <1>2, PubQuiet DEF BootstrapArchive, FrontierExhausted, BeginFinal
<1>3. CASE ResumeFinish
  BY <1>3 DEF ResumeFinish, PubInv
<1>4. CASE PopReplay \/ ReplayDone \/ HandleControl \/ ReplayExecute \/ CheckBudget
  BY <1>4, PubQuiet DEF PopReplay, ReplayDone, HandleControl, ReplayExecute, CheckBudget
<1>5. CASE WriteIntent \/ SubmitBatch \/ StopSelecting \/ NextCompleted
  BY <1>5, PubQuiet DEF WriteIntent, SubmitBatch, StopSelecting, NextCompleted
<1>6. CASE Drained
  BY <1>6 DEF Drained, BeginFinal, PubInv
<1>7. CASE Parked
  BY <1>7 DEF Parked, BeginFinal, PubInv
<1>8. CASE BeginCommit \/ CommitChild \/ UpdateParent
  BY <1>8, PubQuiet DEF BeginCommit, CommitChild, UpdateParent
<1>9. CASE FinishCommit
  <2>1. pc = "replay_commits" /\ status' = status /\ pub' \in {pub, status}
    BY <1>9 DEF FinishCommit
  <2>. QED
    BY <2>1, PubQuiet
<1>10. CASE CheckpointArchive \/ CheckpointPut \/ TruncateWal
  <2>1. UNCHANGED <<status, pub, ckFor>> /\ pc \in Checkpointing /\ pc' \in Checkpointing
    BY <1>10 DEF CheckpointArchive, CheckpointPut, TruncateWal
  <2>. QED
    BY <2>1 DEF PubInv
<1>11. CASE FinishCheckpoint
  BY <1>11 DEF FinishCheckpoint, PubInv
<1>12. CASE RpcFails
  BY <1>12 DEF RpcFails, BeginFinal, PubInv
<1>13. CASE Crash
  BY <1>13 DEF Crash, PubInv
<1>14. CASE (\E c \in Controls : Send(c)) \/ UNCHANGED vars
  BY <1>14 DEF Send, vars, PubInv
<1>. QED
  BY <1>1, <1>2, <1>3, <1>4, <1>5, <1>6, <1>7, <1>8, <1>9, <1>10, <1>11, <1>12, <1>13,
     <1>14, Zenon DEF Next, Step, Idle

\* PauseExperiment answers on a PAUSED snapshot: in fast and in deterministic mode, whatever fails and
\* whenever the process dies, the store said PAUSED under this runner's generation before that was
\* published, and no batch is in flight until a Resume.
THEOREM PauseSurvives == Spec => []PausedIsDurable
<1>1. Init => PauseInv /\ PubInv
  BY DEF Init, PauseInv, PubInv, Checkpointing
<1>2. IInv /\ PauseInv /\ PubInv /\ [Next]_vars => PauseInv' /\ PubInv'
  BY PauseStep, PubStep DEF IInv
<1>3. PauseInv /\ PubInv => PausedIsDurable
  BY DEF PauseInv, PubInv, PausedIsDurable
<1>. QED
  BY <1>1, <1>2, <1>3, Invariance, PTL DEF Spec

-----------------------------------------------------------------------------
(* What is written to the store.                                              *)

\* Which steps write rows, parent updates, checkpoints and the log, and how a commit is entered.
Effects ==
    /\ kids' = kids
    /\ rows' = rows \/ BootstrapRoot \/ CommitChild
    /\ updated' = updated \/ UpdateParent
    /\ ckpt' = ckpt \/ CheckpointPut
    /\ wal' = wal \/ WriteIntent \/ ResumeTruncate \/ TruncateWal
    /\ pc' = "create" => BeginCommit \/ CommitChild \/ (pc = "create" /\ UNCHANGED <<cur, idx>>)
    /\ pc' = "replay_commits" => UpdateParent \/ (pc = "replay_commits" /\ cur' = cur)

\* Only BootstrapRoot and CommitChild create rows, only UpdateParent updates them.
LEMMA StepEffects ==
    ASSUME [Next]_vars
    PROVE  Effects
<1>. USE DEF service, control, work, cadence, oracle, history, faults, Effects
<1>1. CASE StartFresh \/ StartResume \/ ResumeTruncate \/ ResumeLoad \/ ResumeRestoreArchive
  BY <1>1, Zenon DEF StartFresh, StartResume, ResumeTruncate, ResumeLoad, ResumeRestoreArchive
<1>2. CASE BootstrapRoot \/ BootstrapArchive
  BY <1>2, Zenon DEF BootstrapRoot, BootstrapArchive
<1>3. CASE ResumeFinish
  BY <1>3, Zenon DEF ResumeFinish
<1>4. CASE PopReplay \/ ReplayDone \/ HandleControl \/ ReplayExecute \/ CheckBudget
  BY <1>4, Zenon DEF PopReplay, ReplayDone, HandleControl, ReplayExecute, CheckBudget
<1>5. CASE WriteIntent \/ SubmitBatch \/ StopSelecting \/ FrontierExhausted \/ NextCompleted
  BY <1>5, Zenon DEF WriteIntent, SubmitBatch, StopSelecting, FrontierExhausted, BeginFinal, NextCompleted
<1>6. CASE Drained
  BY <1>6, Zenon DEF Drained, BeginFinal
<1>7. CASE Parked
  BY <1>7 DEF Parked, BeginFinal
<1>8. CASE BeginCommit
  BY <1>8, Zenon DEF BeginCommit
<1>9. CASE CommitChild
  BY <1>9, Zenon DEF CommitChild
<1>10. CASE UpdateParent
  BY <1>10, Zenon DEF UpdateParent
<1>11. CASE FinishCommit
  BY <1>11 DEF FinishCommit, Outer
<1>12. CASE CheckpointArchive \/ CheckpointPut \/ TruncateWal
  BY <1>12, Zenon DEF CheckpointArchive, CheckpointPut, TruncateWal
<1>13. CASE FinishCheckpoint
  BY <1>13 DEF FinishCheckpoint, Outer
<1>14. CASE RpcFails
  BY <1>14 DEF RpcFails, BeginFinal
<1>15. CASE Crash \/ (\E c \in Controls : Send(c)) \/ UNCHANGED vars
  BY <1>15, Zenon DEF Crash, Send, vars
<1>. QED
  BY <1>1, <1>2, <1>3, <1>4, <1>5, <1>6, <1>7, <1>8, <1>9, <1>10, <1>11, <1>12, <1>13,
     <1>14, <1>15, Zenon DEF Next, Step, Idle

\* CreateNode never takes a row away, and adds one on a free id.
LEMMA CreateGrows ==
    ASSUME NEW id, NEW row, CreateNode(id, row)
    PROVE  /\ Stored \subseteq Stored' /\ Stored' \subseteq Stored \cup {row}
           /\ id \notin DOMAIN rows => Stored' = Stored \cup {row}
<1>1. /\ DOMAIN rows' = DOMAIN rows \cup {id}
      /\ \A i \in DOMAIN rows : rows'[i] = rows[i]
      /\ id \notin DOMAIN rows => rows'[id] = row
  BY DEF CreateNode
<1>2. Stored \subseteq Stored'
  BY <1>1 DEF Stored
<1>3. Stored' \subseteq Stored \cup {row}
  BY <1>1 DEF Stored
<1>4. id \notin DOMAIN rows => row \in Stored'
  BY <1>1 DEF Stored
<1>. QED
  BY <1>2, <1>3, <1>4

\* A commit adds the child at idx, under a free id, unless a replay finds it stored.
LEMMA CommitAdds ==
    ASSUME IInv, CommitChild
    PROVE  /\ Stored' = Stored \cup {<<cur, idx>>}
           /\ ctx = "loop" => <<cur, idx>> \notin Stored
           /\ <<cur, idx>> \in Stored => rows' = rows
           /\ <<cur, idx>> \notin Stored =>
                  \E n \in Nat : DOMAIN rows = 0 .. n - 1 /\ CreateNode(n, <<cur, idx>>)
<1>0. pc = "create" /\ cur \in Seqs /\ idx \in 1 .. K /\ idx <= kids[cur] /\ kids[cur] \in 0 .. K
  BY CurType, BoundsAssumption DEF IInv, TypeOK, TypeWork, ControlInv, CommitChild, Committing
<1>1. CASE CreateFresh
  <2>1. PICK n : n = nodes - kids[cur] + idx - 1
    OBVIOUS
  <2>2. n \in Nat /\ DOMAIN rows = 0 .. n - 1 /\ CreateNode(n, <<cur, idx>>) /\ ctx = "loop"
    BY <1>0, <1>1, <2>1 DEF CreateFresh, IInv, IdInv
  <2>3. n \notin DOMAIN rows
    BY <2>2
  <2>4. ASSUME <<cur, idx>> \in Stored
        PROVE  FALSE
    <3>1. PICK i \in DOMAIN rows : rows[i] = <<cur, idx>>
      BY <2>4 DEF Stored
    <3>2. rows[i] # Root
      BY <1>0, <3>1 DEF Root
    <3>3. rows[i][2] < idx
      BY <1>0, <2>2, <3>1, <3>2 DEF IInv, RowInv, OfBatch
    <3>. QED
      BY <1>0, <3>1, <3>3
  <2>. QED
    BY <2>2, <2>3, <2>4, CreateGrows
<1>2. CASE AdoptOrCreate /\ Adopted
  <2>1. rows' = rows /\ ctx = "replay" /\ <<cur, idx>> \in Stored
    BY <1>2 DEF AdoptOrCreate, Adopted
  <2>2. Stored' = Stored
    BY <2>1 DEF Stored
  <2>. QED
    BY <2>1, <2>2
<1>3. CASE AdoptOrCreate /\ ~Adopted
  <2>1. CreateNode(nodes, <<cur, idx>>) /\ ctx = "replay" /\ <<cur, idx>> \notin Stored
    BY <1>3 DEF AdoptOrCreate, Adopted
  <2>2. Up /\ ckFor # "final"
    BY <1>0 DEF IInv, ControlInv, Up, Starting, Checkpointing
  <2>3. nodes \in Nat /\ DOMAIN rows = 0 .. nodes - 1
    BY <1>0, <2>1, <2>2 DEF IInv, IdInv, TypeOK, TypeWork
  <2>4. nodes \notin DOMAIN rows
    BY <2>3
  <2>. QED
    BY <2>1, <2>3, <2>4, CreateGrows
<1>. QED
  BY <1>1, <1>2, <1>3 DEF CommitChild

\* BootstrapRoot leaves the root as the only row, also after a crash during bootstrap.
LEMMA RootStored ==
    ASSUME IInv, BootstrapRoot
    PROVE  Stored \subseteq {Root} /\ Stored' = {Root}
<1>1. ckpt.gen = 0 /\ CreateNode(0, Root)
  BY DEF BootstrapRoot, IInv, ControlInv
<1>2. wal = {} /\ ckpt.seq = 0 /\ DOMAIN rows \subseteq {0}
  BY <1>1 DEF IInv, WalInv, IdInv, NoCkpt
<1>3. \A i \in DOMAIN rows : rows[i] = Root
  BY <1>2, RowFacts DEF IInv, TypeOK, RowInv
<1>4. Stored \subseteq {Root}
  BY <1>3, Zenon DEF Stored
<1>5. CASE 0 \in DOMAIN rows
  <2>1. Root \in Stored
    BY <1>3, <1>5 DEF Stored
  <2>. QED
    BY <1>1, <1>4, <2>1, CreateGrows
<1>6. CASE 0 \notin DOMAIN rows
  BY <1>1, <1>4, <1>6, CreateGrows
<1>. QED
  BY <1>5, <1>6

\* No step takes a row out of the store.
LEMMA StoredGrows ==
    ASSUME IInv, [Next]_vars
    PROVE  Stored \subseteq Stored'
<1>1. CASE rows' = rows
  BY <1>1 DEF Stored
<1>2. CASE BootstrapRoot
  BY <1>2, RootStored
<1>3. CASE CommitChild
  BY <1>3, CommitAdds
<1>. QED
  BY <1>1, <1>2, <1>3, StepEffects DEF Effects

\* A batch whose parent is updated has all its children in the store, and so has
\* the batch being committed, as far as it got.
StoreInv ==
    /\ pc = "create" => \A i \in 1 .. idx - 1 : <<cur, i>> \in Stored
    /\ pc = "replay_commits" => Complete(cur)
    /\ \A s \in updated : Children(s) \subseteq Stored

\* Every step keeps it, also one that fails.
LEMMA StoreStep ==
    ASSUME IInv, StoreInv, [Next]_vars
    PROVE  StoreInv'
<1>0. Effects /\ Stored \subseteq Stored' /\ (\A s : Children(s)' = Children(s))
  BY StepEffects, StoredGrows DEF Effects, Children
<1>1. ASSUME pc' = "create"
      PROVE  (\A i \in 1 .. idx - 1 : <<cur, i>> \in Stored)'
  <2>1. CASE BeginCommit
    BY <2>1 DEF BeginCommit
  <2>2. CASE CommitChild
    <3>1. pc = "create" /\ cur' = cur /\ idx' = idx + 1 /\ idx \in Nat
      BY <2>2 DEF CommitChild, IInv, TypeOK, TypeWork
    <3>2. <<cur, idx>> \in Stored'
      BY <2>2, CommitAdds
    <3>3. \A i \in 1 .. idx : i \in 1 .. idx - 1 \/ i = idx
      BY <3>1
    <3>. QED
      BY <1>0, <3>1, <3>2, <3>3 DEF StoreInv
  <2>3. CASE pc = "create" /\ UNCHANGED <<cur, idx>>
    BY <1>0, <2>3 DEF StoreInv
  <2>. QED
    BY <1>0, <1>1, <2>1, <2>2, <2>3 DEF Effects
<1>2. ASSUME UpdateParent
      PROVE  Children(cur) \subseteq Stored /\ cur' = cur /\ rows' = rows /\ updated' = updated \cup {cur}
  <2>1. pc = "create" /\ idx > kids[cur] /\ idx \in Nat /\ kids[cur] \in Nat
    BY <1>2, CurType DEF UpdateParent, IInv, TypeOK, TypeWork, Committing
  <2>2. \A i \in 1 .. kids[cur] : i \in 1 .. idx - 1
    BY <2>1
  <2>3. Children(cur) \subseteq Stored
    BY <2>1, <2>2 DEF StoreInv, Children
  <2>. QED
    BY <1>2, <2>3 DEF UpdateParent, work
<1>3. (\A s \in updated : Children(s) \subseteq Stored)'
  <2>1. CASE updated' = updated
    BY <1>0, <2>1 DEF StoreInv
  <2>2. CASE UpdateParent
    BY <1>0, <1>2, <2>2 DEF StoreInv
  <2>. QED
    BY <1>0, <2>1, <2>2 DEF Effects
<1>4. ASSUME pc' = "replay_commits"
      PROVE  Complete(cur)'
  <2>1. cur' = cur /\ cur \in updated'
    <3>1. CASE UpdateParent
      BY <1>2, <3>1
    <3>2. CASE pc = "replay_commits" /\ cur' = cur /\ ~UpdateParent
      BY <1>0, <3>2 DEF Effects, StoreInv, Complete
    <3>. QED
      BY <1>0, <1>4, <3>1, <3>2 DEF Effects
  <2>. QED
    BY <1>3, <2>1 DEF Complete
<1>. QED
  BY <1>1, <1>3, <1>4 DEF StoreInv

\* The store starts empty.
LEMMA StoreInit == Init => StoreInv
BY DEF Init, StoreInv

-----------------------------------------------------------------------------
(* The scorer in lockstep with the store.                                     *)

\* Where the seen map and the archive are exactly the store.
Settled == BetweenBatches \cup Checkpointing \cup {"commit"}

\* A checkpoint is taken between batches, so its seen map and its archive agree and are stored;
\* a resume adds what is stored since; a commit is ahead of the store by children of its batch.
LockInv ==
    /\ ckpt.archive = ckpt.seen /\ ckpt.seen \subseteq Stored
    /\ ckpt.gen = 0 => archive \subseteq {Root}
    /\ pc = "boot_archive" => seen = Stored /\ Stored = {Root}
    /\ pc \in {"rs_restore", "rs_replay"} => seen = Stored
    /\ pc = "rs_replay" => archive = ckpt.archive
    /\ pc \in Settled => seen = Stored /\ archive = Stored
    /\ pc = "ck_put" => snap = Stored
    /\ pc \in {"create", "replay_commits"} =>
           /\ archive \cup Children(cur) = Stored \cup Children(cur)
           /\ seen = IF ctx = "replay" THEN Stored ELSE Stored \cup Children(cur)

\* A step that touches neither the store nor the scorer and stays outside a commit.
LEMMA LockQuiet ==
    ASSUME LockInv, UNCHANGED <<rows, ckpt, archive>>,
           pc' \in Settled => pc \in Settled /\ seen' = seen,
           pc' \notin {"boot_archive", "rs_restore", "rs_replay", "ck_put", "create", "replay_commits"}
    PROVE  LockInv'
<1>1. Stored' = Stored
  BY DEF Stored
<1>. QED
  BY <1>1 DEF LockInv

\* A step that changes nothing the lockstep is about.
LEMMA LockFrame ==
    ASSUME LockInv, UNCHANGED <<rows, ckpt, archive, seen, snap, pc, ctx, cur, kids>>
    PROVE  LockInv'
<1>1. Stored' = Stored /\ Children(cur)' = Children(cur)
  BY DEF Stored, Children
<1>. QED
  BY <1>1 DEF LockInv

\* Every step keeps the lockstep, unless an RPC gives up.
LEMMA LockStep ==
    ASSUME IInv, StoreInv, LockInv, ~Failures, [Next]_vars
    PROVE  LockInv'
<1>. USE DEF service, control, work, cadence, oracle, history, faults
<1>0. /\ {"replay", "replay_control", "loop", "select", "submit", "wait", "drain", "parked",
          "boot_parked", "ck_archive", "ck_put", "ck_delete", "commit"} = Settled
      /\ Children(cur)' = {<<cur', i>> : i \in 1 .. kids'[cur']}
  BY DEF Settled, BetweenBatches, Checkpointing, Children
<1>1. CASE StartFresh \/ StartResume \/ ResumeTruncate \/ Crash
  <2>1. UNCHANGED <<rows, ckpt, archive>> /\ pc' \in {"boot_root", "rs_truncate", "rs_load", "down"}
    BY <1>1 DEF StartFresh, StartResume, ResumeTruncate, Crash
  <2>. QED
    BY <1>0, <2>1, LockQuiet
<1>2. CASE BootstrapRoot
  <2>1. ckpt.gen = 0 /\ UNCHANGED <<ckpt, archive>> /\ seen' = {Root} /\ pc' = "boot_archive"
    BY <1>2 DEF BootstrapRoot, IInv, ControlInv
  <2>2. ckpt.seen \subseteq Stored'
    BY <1>2, StoredGrows DEF LockInv
  <2>. QED
    BY <1>0, <1>2, <2>1, <2>2, RootStored DEF LockInv
<1>3. CASE BootstrapArchive
  <2>1. pc = "boot_archive" /\ pc' = "ck_archive" /\ ckpt.gen = 0
    BY <1>3 DEF BootstrapArchive, IInv, ControlInv
  <2>2. UNCHANGED <<rows, ckpt, seen>> /\ archive' = archive \cup {Root} /\ Stored' = Stored
    BY <1>3 DEF BootstrapArchive, Stored
  <2>3. archive' = {Root} /\ seen = Stored /\ Stored = {Root}
    BY <2>1, <2>2 DEF LockInv
  <2>. QED
    BY <1>0, <2>1, <2>2, <2>3 DEF LockInv
<1>4. CASE ResumeLoad
  <2>1. UNCHANGED <<rows, ckpt, archive>> /\ pc' = "rs_restore" /\ seen' = ckpt.seen \cup Stored
    BY <1>4 DEF ResumeLoad
  <2>2. Stored' = Stored /\ seen' = Stored
    BY <2>1 DEF LockInv, Stored
  <2>. QED
    BY <1>0, <2>1, <2>2 DEF LockInv
<1>5. CASE ResumeRestoreArchive
  <2>1. pc = "rs_restore" /\ pc' = "rs_replay" /\ ckpt.gen > 0
    BY <1>5 DEF ResumeRestoreArchive, IInv, ControlInv
  <2>2. UNCHANGED <<rows, ckpt, seen>> /\ archive' = ckpt.archive /\ Stored' = Stored
    BY <1>5 DEF ResumeRestoreArchive, Stored
  <2>. QED
    BY <1>0, <2>1, <2>2 DEF LockInv
<1>6. CASE ResumeFinish
  <2>1. pc = "rs_replay" /\ pc' \in {"boot_parked", "replay"} /\ ckpt.gen > 0
    BY <1>6 DEF ResumeFinish, IInv, ControlInv
  <2>2. UNCHANGED <<rows, ckpt, seen>> /\ archive' = archive \cup (Stored \ ckpt.seen) /\ Stored' = Stored
    BY <1>6 DEF ResumeFinish, Stored, PostCheckpoint
  <2>3. archive' = Stored
    BY <2>1, <2>2 DEF LockInv
  <2>. QED
    BY <1>0, <2>1, <2>2, <2>3 DEF LockInv
<1>7. CASE PopReplay \/ ReplayDone \/ HandleControl \/ ReplayExecute \/ CheckBudget
  <2>1. /\ UNCHANGED <<rows, ckpt, archive, seen>> /\ pc \in {"replay", "replay_control", "loop"}
        /\ pc' \in {"replay", "replay_control", "loop", "drain", "commit", "select"}
    BY <1>7 DEF PopReplay, ReplayDone, HandleControl, ReplayExecute, CheckBudget
  <2>. QED
    BY <1>0, <2>1, LockQuiet
<1>8. CASE WriteIntent \/ SubmitBatch \/ StopSelecting \/ FrontierExhausted \/ NextCompleted
  <2>1. /\ UNCHANGED <<rows, ckpt, archive, seen>> /\ pc \in {"select", "submit", "wait", "drain"}
        /\ pc' \in {"select", "submit", "wait", "commit", "ck_archive"}
    BY <1>8 DEF WriteIntent, SubmitBatch, StopSelecting, FrontierExhausted, BeginFinal, NextCompleted
  <2>. QED
    BY <1>0, <2>1, LockQuiet
<1>9. CASE Drained \/ Parked
  <2>1. /\ UNCHANGED <<rows, ckpt, archive, seen>> /\ pc \in {"drain", "parked", "boot_parked"}
        /\ pc' \in {pc, "ck_archive", "replay", "replay_control", "loop"}
    BY <1>9 DEF Drained, Parked, BeginFinal
  <2>. QED
    BY <1>0, <2>1, LockQuiet
<1>10. CASE BeginCommit
  <2>1. /\ UNCHANGED <<rows, ckpt, archive, ctx>> /\ pc = "commit" /\ pc' = "create"
        /\ seen' = IF ctx = "replay" THEN seen ELSE seen \cup Children(cur)
    BY <1>10 DEF BeginCommit
  <2>2. Stored' = Stored /\ Children(cur)' = Children(cur)
    BY <1>10 DEF BeginCommit, Stored, Children
  <2>3. seen = Stored /\ archive = Stored
    BY <1>0, <2>1 DEF LockInv
  <2>. QED
    BY <1>0, <2>1, <2>2, <2>3 DEF LockInv
<1>11. CASE CommitChild
  <2>1. /\ UNCHANGED <<ckpt, archive, ctx, pc>> /\ pc = "create"
        /\ Children(cur)' = Children(cur) /\ ckpt.gen > 0
    BY <1>11 DEF CommitChild, Children, IInv, ControlInv, Up, Starting, TypeOK, TypeService, Checkpointing
  <2>2. <<cur, idx>> \in Children(cur)
    BY <1>11 DEF CommitChild, Children, IInv, ControlInv, TypeOK, TypeWork
  <2>3. Stored' = Stored \cup {<<cur, idx>>}
    BY <1>11, CommitAdds
  <2>4. \/ ctx = "loop" /\ seen' = seen
        \/ ctx = "replay" /\ seen' = seen \cup {<<cur, idx>>}
    <3>1. ctx = "loop" \/ ctx = "replay"
      BY DEF IInv, TypeOK, TypeControl
    <3>2. CASE ctx = "loop"
      BY <1>11, <3>2 DEF CommitChild, CreateFresh, AdoptOrCreate
    <3>3. CASE ctx = "replay" /\ Adopted
      BY <1>11, <2>1, <3>3 DEF CommitChild, CreateFresh, AdoptOrCreate, Adopted, LockInv
    <3>4. CASE ctx = "replay" /\ ~Adopted
      BY <1>11, <3>4 DEF CommitChild, CreateFresh, AdoptOrCreate
    <3>. QED
      BY <3>1, <3>2, <3>3, <3>4
  <2>5. archive \cup Children(cur) = Stored' \cup Children(cur)
    BY <2>1, <2>2, <2>3 DEF LockInv
  <2>6. seen' = IF ctx = "replay" THEN Stored' ELSE Stored' \cup Children(cur)
    BY <2>1, <2>2, <2>3, <2>4 DEF LockInv
  <2>7. ckpt.seen \subseteq Stored' /\ ckpt.archive = ckpt.seen
    BY <2>3 DEF LockInv
  <2>8. pc' \notin {"boot_archive", "rs_restore", "rs_replay", "ck_put"} /\ pc' \notin Settled
    BY <1>0, <2>1
  <2>9. archive' \cup Children(cur)' = Stored' \cup Children(cur)'
    BY <2>1, <2>5
  <2>10. seen' = IF ctx' = "replay" THEN Stored' ELSE Stored' \cup Children(cur)'
    BY <2>1, <2>6
  <2>11. ckpt' = ckpt /\ ckpt'.gen # 0
    BY <2>1
  <2>. QED
    BY <2>7, <2>8, <2>9, <2>10, <2>11 DEF LockInv
<1>12. CASE UpdateParent
  <2>1. UNCHANGED <<ckpt, archive, seen, ctx>> /\ pc = "create" /\ pc' = "replay_commits"
    BY <1>12 DEF UpdateParent
  <2>2. Stored' = Stored /\ Children(cur)' = Children(cur)
    BY <1>12 DEF UpdateParent, Stored, Children
  <2>. QED
    BY <1>0, <2>1, <2>2 DEF LockInv
<1>13. CASE FinishCommit
  <2>1. /\ UNCHANGED <<ckpt, seen>> /\ pc = "replay_commits" /\ archive' = archive \cup Children(cur)
        /\ Stored' = Stored /\ ckpt.gen > 0
    BY <1>13 DEF FinishCommit, Stored, IInv, ControlInv, Up, Starting, TypeOK, TypeService, Checkpointing
  <2>2. pc' \in {"drain", "ck_archive", "replay", "loop"}
    BY <1>13 DEF FinishCommit, Outer
  <2>3. Children(cur) \subseteq Stored
    BY <2>1 DEF StoreInv, Complete
  <2>4. archive' = Stored /\ seen = Stored
    BY <2>1, <2>3 DEF LockInv
  <2>. QED
    BY <1>0, <2>1, <2>2, <2>4 DEF LockInv
<1>14. CASE CheckpointArchive
  <2>1. /\ UNCHANGED <<ckpt, archive, seen>> /\ snap' = archive /\ pc = "ck_archive" /\ pc' = "ck_put"
        /\ Stored' = Stored
    BY <1>14 DEF CheckpointArchive, Stored
  <2>2. seen = Stored /\ archive = Stored
    BY <1>0, <2>1 DEF LockInv
  <2>. QED
    BY <1>0, <2>1, <2>2 DEF LockInv
<1>15. CASE CheckpointPut
  <2>1. UNCHANGED <<archive, seen>> /\ Stored' = Stored /\ pc = "ck_put" /\ pc' = "ck_delete"
    BY <1>15 DEF CheckpointPut, Stored
  <2>2. ckpt'.seen = seen /\ ckpt'.archive = snap /\ ckpt'.gen = gen + 1 /\ gen \in Nat
    BY <1>15 DEF CheckpointPut, BuildCheckpoint, IInv, TypeOK, TypeControl
  <2>3. seen = Stored /\ archive = Stored /\ snap = Stored
    BY <1>0, <2>1 DEF LockInv
  <2>4. ~(ckpt'.gen = 0)
    BY <2>2
  <2>. QED
    BY <1>0, <2>1, <2>2, <2>3, <2>4 DEF LockInv
<1>16. CASE TruncateWal \/ FinishCheckpoint
  <2>1. UNCHANGED <<rows, ckpt, archive, seen>> /\ pc = "ck_delete"
    BY <1>16 DEF TruncateWal, FinishCheckpoint
  <2>2. pc' \in {"ck_delete", "replay", "loop", "drain", "parked", "ended"}
    BY <1>16 DEF TruncateWal, FinishCheckpoint, Outer
  <2>. QED
    BY <1>0, <2>1, <2>2, LockQuiet
<1>17. CASE (\E c \in Controls : Send(c)) \/ UNCHANGED vars
  BY <1>17, LockFrame DEF Send, vars
<1>. QED
  BY <1>1, <1>2, <1>3, <1>4, <1>5, <1>6, <1>7, <1>8, <1>9, <1>10, <1>11, <1>12, <1>13,
     <1>14, <1>15, <1>16, <1>17, Zenon DEF Next, Step, Idle, RpcFails

\* As long as no RPC exhausts its retries, and whatever else happens (crashes, controls, several batches
\* in flight): the resume's restore, catch-up and replay leave the SeenMap and the scorer's archive equal
\* to the stored states whenever no batch is half committed.
THEOREM ScorerStaysInLockstep == ~Failures => (Spec => []ScorerLockstep)
<1>. SUFFICES ASSUME ~Failures
              PROVE  Spec => []ScorerLockstep
  OBVIOUS
<1>1. Init => StoreInv /\ LockInv
  <2>. SUFFICES ASSUME Init
                PROVE  StoreInv /\ LockInv
    OBVIOUS
  <2>1. Stored = {} /\ pc = "down"
    BY DEF Init, Stored
  <2>2. ckpt = NoCkpt /\ archive = {}
    BY DEF Init
  <2>. QED
    BY <2>1, <2>2, StoreInit DEF LockInv, NoCkpt, Settled, BetweenBatches, Checkpointing
<1>2. IInv /\ StoreInv /\ LockInv /\ [Next]_vars => StoreInv' /\ LockInv'
  BY StoreStep, LockStep
<1>3. LockInv => ScorerLockstep
  BY DEF LockInv, ScorerLockstep, Settled
<1>. QED
  BY <1>1, <1>2, <1>3, Invariance, PTL DEF Spec

-----------------------------------------------------------------------------
(* One batch in flight: what the control state says of it.                    *)

\* max_inflight_batches = 1 and no RPC exhausts its retries.
Deterministic == MaxInflight = 1 /\ ~Failures

\* No Pause and no Stop reaches handle_control while a popped replay intent waits for it.
UndisturbedReplay == pc = "replay_control" => ctl = <<>> \/ Head(ctl) = "Resume"

\* A batch is in flight only while the loop selects or waits; a replay is never paused half-way.
ModeInv ==
    /\ inflight # {} => pc \in {"select", "wait"} /\ inflight = {batchSeq - 1}
    /\ Up /\ ctx = "loop" => queue = {}
    /\ ctx = "replay" => pc # "parked" /\ drainFor \in {"none", "goal"} /\ ckFor # "pause"
    /\ pc \in {"down", "boot_root", "boot_archive"} => expansions = 0

\* A step that neither fills nor empties the pipeline and the replay queue.
LEMMA ModeQuiet ==
    ASSUME ModeInv, UNCHANGED <<inflight, batchSeq, queue, ctx, expansions>>, Up,
           pc \in {"select", "wait"} => pc' \in {"select", "wait"} \/ inflight = {},
           pc' \notin {"down", "boot_root", "boot_archive"},
           ctx = "replay" => pc' # "parked" /\ drainFor' \in {"none", "goal"} /\ ckFor' # "pause"
    PROVE  ModeInv'
BY DEF ModeInv

\* Every step keeps it, when nothing disturbs a replay.
LEMMA ModeStep ==
    ASSUME IInv, ModeInv, Deterministic, UndisturbedReplay, [Next]_vars
    PROVE  ModeInv'
<1>. USE DEF service, control, work, cadence, oracle, history, faults
<1>0. /\ Up <=> pc \notin {"boot_root", "boot_archive", "rs_truncate", "rs_load", "rs_restore",
                           "rs_replay", "down"}
      /\ Up' <=> pc' \notin {"boot_root", "boot_archive", "rs_truncate", "rs_load", "rs_restore",
                             "rs_replay", "down"}
      /\ ctx \in {"loop", "replay"}
  BY DEF Up, Starting, IInv, TypeOK, TypeControl
<1>c. /\ pc \in {"loop", "select", "submit", "wait"} => ctx = "loop"
      /\ pc \in {"boot_root", "boot_archive", "down"} => ctx = "loop" /\ queue = {}
      /\ pc \in {"replay", "replay_control", "boot_parked"} => ctx = "replay"
      /\ ~Up => inflight = {} /\ drainFor = "none" /\ ckFor = "none"
  BY DEF IInv, ControlInv, Up
<1>1. CASE StartFresh \/ StartResume \/ BootstrapRoot \/ ResumeTruncate
  <2>1. /\ UNCHANGED <<inflight, batchSeq, queue, ctx, expansions, drainFor, ckFor>> /\ ~Up /\ ~Up'
        /\ pc' \in {"down", "boot_root", "boot_archive"} => pc \in {"down", "boot_root", "boot_archive"}
        /\ pc' # "parked"
    BY <1>0, <1>1 DEF StartFresh, StartResume, BootstrapRoot, ResumeTruncate
  <2>. QED
    BY <1>c, <2>1 DEF ModeInv
<1>2. CASE ResumeLoad \/ ResumeRestoreArchive
  <2>1. /\ UNCHANGED <<inflight, batchSeq, ctx, drainFor, ckFor>> /\ ~Up /\ ~Up'
        /\ pc' \in {"rs_restore", "rs_replay"}
    BY <1>0, <1>2 DEF ResumeLoad, ResumeRestoreArchive
  <2>. QED
    BY <1>c, <2>1 DEF ModeInv
<1>3. CASE BootstrapArchive
  <2>1. UNCHANGED <<inflight, queue, ctx>> /\ pc = "boot_archive" /\ pc' = "ck_archive"
    BY <1>3 DEF BootstrapArchive
  <2>. QED
    BY <1>0, <1>c, <2>1 DEF ModeInv
<1>4. CASE ResumeFinish
  <2>1. UNCHANGED <<inflight, drainFor, ckFor>> /\ pc = "rs_replay" /\ pc' \in {"boot_parked", "replay"}
    BY <1>4 DEF ResumeFinish
  <2>2. ctx' = "replay"
    BY <1>4 DEF ResumeFinish
  <2>. QED
    BY <1>0, <1>c, <2>1, <2>2 DEF ModeInv
<1>5. CASE PopReplay
  <2>1. UNCHANGED <<inflight, drainFor, ckFor, ctx>> /\ pc = "replay" /\ pc' = "replay_control"
    BY <1>5 DEF PopReplay
  <2>. QED
    BY <1>0, <1>c, <2>1 DEF ModeInv
<1>6. CASE ReplayDone
  <2>1. UNCHANGED <<inflight, queue>> /\ queue = {} /\ pc = "replay" /\ pc' = "loop" /\ ctx' = "loop"
    BY <1>6 DEF ReplayDone
  <2>. QED
    BY <1>0, <2>1 DEF ModeInv
<1>7. CASE HandleControl
  <2>1. UNCHANGED <<inflight, batchSeq, queue, ctx, expansions, ckFor>> /\ pc \in {"loop", "replay_control"}
    BY <1>7 DEF HandleControl
  <2>2. pc' \in {pc, "drain"}
    BY <1>7 DEF HandleControl
  <2>3. ctx = "replay" => pc' = pc /\ drainFor' = drainFor
    BY <1>7, <1>c DEF HandleControl, UndisturbedReplay
  <2>. QED
    BY <1>0, <1>c, <2>1, <2>2, <2>3, ModeQuiet DEF ModeInv
<1>8. CASE ReplayExecute \/ CheckBudget
  <2>1. /\ UNCHANGED <<inflight, batchSeq, queue, ctx, expansions, ckFor>> /\ pc \in {"loop", "replay_control"}
        /\ pc' \in {"commit", "drain", "select"} /\ (pc = "replay_control" => drainFor' = drainFor)
    BY <1>8 DEF ReplayExecute, CheckBudget
  <2>. QED
    BY <1>0, <1>c, <2>1, ModeQuiet DEF ModeInv
<1>9. CASE WriteIntent
  <2>1. /\ UNCHANGED <<inflight, batchSeq, queue, ctx, expansions, ckFor, drainFor>> /\ pc = "select"
        /\ pc' = "submit" /\ Cardinality(inflight) < 1
    BY <1>9 DEF WriteIntent, Deterministic
  <2>2. inflight # {} => Cardinality(inflight) = 1
    BY FS_Singleton DEF ModeInv
  <2>3. inflight = {}
    BY <2>1, <2>2
  <2>. QED
    BY <1>0, <1>c, <2>1, <2>3, ModeQuiet
<1>10. CASE SubmitBatch
  <2>1. /\ pc = "submit" /\ pc' = "select" /\ inflight' = inflight \cup {batchSeq} /\ batchSeq' = batchSeq + 1
        /\ UNCHANGED <<queue, ctx>> /\ batchSeq \in Nat
    BY <1>10, BoundsAssumption DEF SubmitBatch, IInv, TypeOK, TypeWork
  <2>2. inflight = {}
    BY <2>1 DEF ModeInv
  <2>3. inflight' = {batchSeq' - 1}
    BY <2>1, <2>2
  <2>. QED
    BY <1>0, <1>c, <2>1, <2>3 DEF ModeInv
<1>11. CASE StopSelecting
  <2>1. UNCHANGED <<inflight, batchSeq, queue, ctx, expansions, ckFor, drainFor>> /\ pc = "select" /\ pc' = "wait"
    BY <1>11 DEF StopSelecting
  <2>. QED
    BY <1>0, <1>c, <2>1, ModeQuiet
<1>12. CASE FrontierExhausted
  <2>1. UNCHANGED <<inflight, batchSeq, queue, ctx, expansions>> /\ pc = "select" /\ pc' = "ck_archive" /\ inflight = {}
    BY <1>12 DEF FrontierExhausted, BeginFinal
  <2>. QED
    BY <1>0, <1>c, <2>1, ModeQuiet
<1>13. CASE NextCompleted
  <2>1. UNCHANGED <<queue, ctx, ckFor, drainFor>> /\ pc \in {"wait", "drain"} /\ pc' = "commit"
    BY <1>13 DEF NextCompleted
  <2>2. PICK s \in inflight : inflight' = inflight \ {s}
    BY <1>13 DEF NextCompleted
  <2>3. inflight' = {}
    BY <2>2 DEF ModeInv
  <2>. QED
    BY <1>0, <2>1, <2>3 DEF ModeInv
<1>14. CASE Drained
  <2>1. UNCHANGED <<inflight, batchSeq, queue, ctx, expansions>> /\ pc = "drain" /\ pc' = "ck_archive" /\ drainFor' = "none"
    BY <1>14 DEF Drained, BeginFinal
  <2>2. ctx = "replay" => ckFor' = "final"
    BY <1>14 DEF Drained, BeginFinal, ModeInv
  <2>. QED
    BY <1>0, <2>1, <2>2, ModeQuiet
<1>15. CASE Parked
  <2>1. /\ UNCHANGED <<inflight, batchSeq, queue, ctx, expansions>> /\ pc \in {"parked", "boot_parked"}
        /\ pc' \in {pc, "replay", "replay_control", "loop", "ck_archive"}
    BY <1>15 DEF Parked, BeginFinal
  <2>2. drainFor' \in {drainFor, "none"} /\ ckFor' \in {ckFor, "final"}
    BY <1>15 DEF Parked, BeginFinal
  <2>. QED
    BY <1>0, <2>1, <2>2, ModeQuiet DEF ModeInv
<1>16. CASE BeginCommit \/ CommitChild \/ UpdateParent
  <2>1. /\ UNCHANGED <<inflight, batchSeq, queue, ctx, expansions, drainFor, ckFor>>
        /\ pc \in {"commit", "create"} /\ pc' \in {"create", "replay_commits"}
    BY <1>16 DEF BeginCommit, CommitChild, UpdateParent
  <2>. QED
    BY <1>0, <2>1, ModeQuiet DEF ModeInv
<1>17. CASE FinishCommit
  <2>1. UNCHANGED <<inflight, batchSeq, queue, ctx, drainFor>> /\ pc = "replay_commits"
    BY <1>17 DEF FinishCommit
  <2>2. pc' \in {"drain", "ck_archive", "replay", "loop"} /\ ckFor' \in {ckFor, "goal", "cadence"}
    BY <1>17 DEF FinishCommit, Outer
  <2>. QED
    BY <1>0, <2>1, <2>2 DEF ModeInv
<1>18. CASE CheckpointArchive \/ CheckpointPut \/ TruncateWal
  <2>1. /\ UNCHANGED <<inflight, batchSeq, queue, ctx, expansions, drainFor, ckFor>>
        /\ pc \in {"ck_archive", "ck_put", "ck_delete"} /\ pc' \in {"ck_put", "ck_delete"}
    BY <1>18 DEF CheckpointArchive, CheckpointPut, TruncateWal
  <2>. QED
    BY <1>0, <2>1, ModeQuiet DEF ModeInv
<1>19. CASE FinishCheckpoint
  <2>1. UNCHANGED <<inflight, batchSeq, queue, ctx, expansions>> /\ pc = "ck_delete" /\ ckFor' = "none"
    BY <1>19 DEF FinishCheckpoint
  <2>2. /\ pc' \in {"replay", "loop", "drain", "parked", "ended"} /\ drainFor' \in {drainFor, "goal"}
        /\ pc' = "parked" => ckFor = "pause"
    BY <1>19 DEF FinishCheckpoint, Outer
  <2>. QED
    BY <1>0, <2>1, <2>2, ModeQuiet DEF ModeInv
<1>20. CASE Crash
  <2>1. inflight' = {} /\ pc' = "down" /\ ctx' = "loop" /\ expansions' = 0
    BY <1>20 DEF Crash
  <2>. QED
    BY <1>0, <2>1 DEF ModeInv
<1>21. CASE (\E c \in Controls : Send(c)) \/ UNCHANGED vars
  <2>1. UNCHANGED <<inflight, batchSeq, queue, ctx, expansions, drainFor, ckFor, pc>>
    BY <1>21 DEF Send, vars
  <2>. QED
    BY <1>0, <2>1 DEF ModeInv
<1>. QED
  BY <1>1, <1>2, <1>3, <1>4, <1>5, <1>6, <1>7, <1>8, <1>9, <1>10, <1>11, <1>12, <1>13, <1>14,
     <1>15, <1>16, <1>17, <1>18, <1>19, <1>20, <1>21, Zenon DEF Next, Step, Idle, RpcFails, Deterministic

-----------------------------------------------------------------------------
(* One batch in flight: every batch is accounted for.                         *)

\* A batch has been taken from the queue or the pipeline and not counted yet.
Pending == pc \in Committing \cup {"replay_control"}

\* What is durable: the checkpoint counts the batches it covers, they are complete,
\* and the log has every other batch that was begun.
DurableInv ==
    /\ ckpt.exp = ckpt.seq
    /\ \A s \in Seqs : s < ckpt.seq => Complete(s) /\ s \in finished
    /\ \A s \in issued \cup finished : s < ckpt.seq \/ s \in wal

\* What is in memory: the counter of expansions is the first batch not committed in this
\* run, and the queue holds the batches from there on.
WorkInv ==
    /\ expansions <= batchSeq
    /\ \A s \in Seqs : s < expansions => Complete(s) /\ s \in finished
    /\ \A s \in finished : s < batchSeq
    /\ Pending => expansions = cur /\ \A s \in Seqs : s \in queue <=> cur < s /\ s < batchSeq
    /\ ~Pending /\ inflight = {} => \A s \in Seqs : s \in queue <=> expansions <= s /\ s < batchSeq
    /\ inflight # {} => expansions = batchSeq - 1 /\ expansions \notin finished
    /\ pc \in Committing /\ ctx = "loop" => cur \notin finished

\* A batch that is complete stays complete.
LEMMA CompleteStays ==
    ASSUME IInv, [Next]_vars
    PROVE  \A s : Complete(s) => Complete(s)'
<1>1. \A s : Children(s)' = Children(s)
  BY StepEffects DEF Effects, Children
<1>2. Stored \subseteq Stored'
  BY StoredGrows
<1>3. updated \subseteq updated'
  BY StepEffects DEF Effects, UpdateParent
<1>. QED
  BY <1>1, <1>2, <1>3 DEF Complete

\* A finished batch stays finished; only FinishCommit finishes one, and it is complete.
LEMMA FinishedGrows ==
    ASSUME IInv, StoreInv, [Next]_vars
    PROVE  \/ finished' = finished
           \/ /\ FinishCommit /\ finished' = finished \cup {cur}
              /\ Complete(cur) /\ cur \in Seqs /\ cur < batchSeq
<1>. USE DEF service, control, work, cadence, oracle, history, faults
<1>1. CASE StartFresh \/ BootstrapRoot \/ BootstrapArchive \/ StartResume \/ ResumeTruncate \/ ResumeLoad
  BY <1>1, Zenon DEF StartFresh, BootstrapRoot, BootstrapArchive, StartResume, ResumeTruncate, ResumeLoad
<1>2. CASE ResumeRestoreArchive \/ ResumeFinish \/ PopReplay \/ ReplayDone \/ HandleControl \/ ReplayExecute
  BY <1>2, Zenon DEF ResumeRestoreArchive, ResumeFinish, PopReplay, ReplayDone, HandleControl, ReplayExecute
<1>3. CASE CheckBudget \/ WriteIntent \/ SubmitBatch \/ StopSelecting \/ FrontierExhausted \/ NextCompleted
  BY <1>3, Zenon DEF CheckBudget, WriteIntent, SubmitBatch, StopSelecting, FrontierExhausted, NextCompleted
<1>4. CASE Drained \/ Parked \/ BeginCommit \/ CommitChild \/ UpdateParent
  BY <1>4, Zenon DEF Drained, Parked, BeginCommit, CommitChild, UpdateParent
<1>5. CASE FinishCommit
  <2>1. finished' = finished \cup {cur} /\ pc = "replay_commits"
    BY <1>5 DEF FinishCommit
  <2>. QED
    BY <1>5, <2>1, CurType DEF StoreInv, IInv, TypeOK, Committing
<1>6. CASE CheckpointArchive \/ CheckpointPut \/ TruncateWal \/ FinishCheckpoint \/ RpcFails \/ Crash
  BY <1>6, Zenon DEF CheckpointArchive, CheckpointPut, TruncateWal, FinishCheckpoint, RpcFails, Crash
<1>7. CASE (\E c \in Controls : Send(c)) \/ UNCHANGED vars
  BY <1>7, Zenon DEF Send, vars
<1>. QED
  BY <1>1, <1>2, <1>3, <1>4, <1>5, <1>6, <1>7, Zenon DEF Next, Step, Idle

\* A step of a running process that moves no batch.
LEMMA WorkQuiet ==
    ASSUME IInv, WorkInv, [Next]_vars, UNCHANGED <<finished, batchSeq, expansions, queue, inflight, cur>>,
           Pending' <=> Pending,
           pc' \in Committing /\ ctx' = "loop" => pc \in Committing /\ ctx = "loop"
    PROVE  WorkInv'
<1>1. \A s : Complete(s) => Complete(s)'
  BY CompleteStays
<1>2. (\A s \in Seqs : s < expansions => Complete(s) /\ s \in finished)'
  BY <1>1 DEF WorkInv, Seqs
<1>3. (pc \in Committing /\ ctx = "loop" => cur \notin finished)'
  BY DEF WorkInv
<1>4. (Pending => expansions = cur /\ \A s \in Seqs : s \in queue <=> cur < s /\ s < batchSeq)'
  BY DEF WorkInv, Seqs
<1>5. (~Pending /\ inflight = {} => \A s \in Seqs : s \in queue <=> expansions <= s /\ s < batchSeq)'
  BY DEF WorkInv, Seqs
<1>. QED
  BY <1>2, <1>3, <1>4, <1>5 DEF WorkInv

\* Between batches the checkpoint sequence is the counter of expansions.
LEMMA EffectiveIsCounter ==
    ASSUME IInv, WorkInv, ~Pending, inflight = {}, NEW e, IsEffectiveSeq(e)
    PROVE  e = expansions
<1>0. expansions \in Nat /\ batchSeq \in Nat /\ batchSeq <= MaxSeq /\ expansions <= batchSeq /\ MaxSeq \in Nat
  BY BoundsAssumption DEF IInv, TypeOK, TypeWork, WorkInv
<1>1. \A s \in Seqs : s \in queue <=> expansions <= s /\ s < batchSeq
  BY DEF WorkInv
<1>2. expansions < batchSeq => expansions \in queue
  BY <1>0, <1>1 DEF Seqs
<1>3. CASE queue = {}
  BY <1>0, <1>2, <1>3 DEF IsEffectiveSeq
<1>4. CASE queue # {}
  <2>1. e \in queue /\ e \in Seqs /\ (\A t \in queue : e <= t)
    BY <1>4 DEF IsEffectiveSeq, IsFront, IInv, TypeOK, TypeWork
  <2>2. expansions <= e /\ e < batchSeq /\ e \in Nat
    BY <1>1, <2>1 DEF Seqs
  <2>3. e <= expansions
    BY <1>0, <1>2, <2>1, <2>2
  <2>. QED
    BY <1>0, <2>2, <2>3
<1>. QED
  BY <1>3, <1>4

\* Every step keeps what is durable.
LEMMA DurableStep ==
    ASSUME IInv, StoreInv, ModeInv, DurableInv, Up => WorkInv, [Next]_vars, Deterministic
    PROVE  DurableInv'
<1>. USE DEF service, control, work, cadence, oracle, history, faults
<1>0. (\A s : Complete(s) => Complete(s)') /\ finished \subseteq finished'
  BY CompleteStays, FinishedGrows
<1>n. /\ batchSeq \in Nat /\ ckpt.seq \in Nat /\ MaxSeq \in Nat /\ Seqs \subseteq Nat
      /\ wal \subseteq Seqs /\ finished \subseteq Seqs /\ issued \subseteq Seqs
  BY BoundsAssumption DEF IInv, TypeOK, TypeWork, TypeService, Seqs
<1>1. ASSUME ckpt' = ckpt, \A s \in issued' \cup finished' : s < ckpt.seq \/ s \in wal'
      PROVE  DurableInv'
  BY <1>0, <1>1 DEF DurableInv
<1>2. ASSUME UNCHANGED <<ckpt, issued, finished, wal>>
      PROVE  DurableInv'
  BY <1>1, <1>2 DEF DurableInv
<1>3. CASE StartFresh \/ BootstrapRoot \/ BootstrapArchive \/ StartResume \/ ResumeLoad
  BY <1>2, <1>3, Zenon DEF StartFresh, BootstrapRoot, BootstrapArchive, StartResume, ResumeLoad
<1>4. CASE ResumeRestoreArchive \/ ResumeFinish \/ PopReplay \/ ReplayDone \/ HandleControl \/ ReplayExecute
  BY <1>2, <1>4, Zenon DEF ResumeRestoreArchive, ResumeFinish, PopReplay, ReplayDone, HandleControl, ReplayExecute
<1>5. CASE CheckBudget \/ SubmitBatch \/ StopSelecting \/ FrontierExhausted \/ NextCompleted
  BY <1>2, <1>5, Zenon DEF CheckBudget, SubmitBatch, StopSelecting, FrontierExhausted, NextCompleted
<1>6. CASE Drained \/ Parked \/ BeginCommit \/ CommitChild \/ UpdateParent
  BY <1>2, <1>6, Zenon DEF Drained, Parked, BeginCommit, CommitChild, UpdateParent
<1>7. CASE CheckpointArchive \/ FinishCheckpoint \/ RpcFails \/ Crash
  BY <1>2, <1>7, Zenon DEF CheckpointArchive, FinishCheckpoint, RpcFails, Crash
<1>8. CASE (\E c \in Controls : Send(c)) \/ UNCHANGED vars
  BY <1>2, <1>8, Zenon DEF Send, vars
<1>9. CASE WriteIntent
  <2>1. ckpt' = ckpt /\ issued' = issued \cup {batchSeq} /\ wal' = wal \cup {batchSeq} /\ finished' = finished
    BY <1>9 DEF WriteIntent
  <2>. QED
    BY <1>1, <2>1 DEF DurableInv
<1>10. CASE FinishCommit
  <2>1. UNCHANGED <<ckpt, issued, wal>> /\ pc = "replay_commits" /\ finished' = finished \cup {cur}
    BY <1>10 DEF FinishCommit
  <2>2. cur \in Seqs /\ cur < batchSeq /\ Up
    BY <2>1, CurType DEF IInv, TypeOK, Committing, Up, Starting
  <2>3. cur < ckpt.seq \/ cur \in wal
    BY <1>n, <2>2 DEF IInv, WalInv
  <2>. QED
    BY <1>1, <2>1, <2>3 DEF DurableInv
<1>11. CASE ResumeTruncate
  <2>1. UNCHANGED <<ckpt, issued, finished>> /\ pc = "rs_truncate" /\ (wal' = wal \/ wal' = wal \ {delSeq - 1})
    BY <1>11 DEF ResumeTruncate
  <2>2. delSeq <= ckpt.seq /\ delSeq \in Nat
    BY <2>1, BoundsAssumption DEF IInv, WalInv, TypeOK, TypeWork
  <2>3. delSeq - 1 < ckpt.seq
    BY <1>n, <2>2
  <2>. QED
    BY <1>1, <2>1, <2>3 DEF DurableInv
<1>12. CASE TruncateWal
  <2>1. UNCHANGED <<ckpt, issued, finished>> /\ pc = "ck_delete" /\ wal' = wal \ {delSeq}
    BY <1>12 DEF TruncateWal
  <2>2. PICK e \in 0 .. MaxSeq : IsEffectiveSeq(e) /\ delSeq < e
    BY <1>12 DEF TruncateWal
  <2>3. e = ckpt.seq
    BY <2>1, <2>2, EffectiveUnique DEF IInv, WalInv, TypeOK
  <2>. QED
    BY <1>1, <2>1, <2>2, <2>3 DEF DurableInv
<1>13. CASE CheckpointPut
  <2>1. UNCHANGED <<issued, finished, wal>> /\ pc = "ck_put"
    BY <1>13 DEF CheckpointPut
  <2>2. PICK e \in 0 .. MaxSeq : IsEffectiveSeq(e) /\ ckpt' = BuildCheckpoint(e)
    BY <1>13 DEF CheckpointPut
  <2>3. WorkInv /\ ~Pending /\ inflight = {} /\ Up
    BY <2>1 DEF Up, Starting, Pending, Committing, ModeInv
  <2>4. e = expansions
    BY <2>2, <2>3, EffectiveIsCounter
  <2>5. ckpt'.seq = e /\ ckpt'.exp = e
    BY <2>2, <2>4 DEF BuildCheckpoint
  <2>6. ckpt.seq <= e
    BY <2>2, <2>3 DEF IsEffectiveSeq, IsFront, IInv, WalInv
  <2>7. \A s \in Seqs : s < e => Complete(s)' /\ s \in finished
    BY <1>0, <2>3, <2>4 DEF WorkInv
  <2>8. \A s \in issued \cup finished : s < e \/ s \in wal
    BY <1>n, <2>2, <2>6 DEF DurableInv
  <2>. QED
    BY <2>1, <2>5, <2>7, <2>8 DEF DurableInv
<1>. QED
  BY <1>3, <1>4, <1>5, <1>6, <1>7, <1>8, <1>9, <1>10, <1>11, <1>12, <1>13, Zenon DEF Next, Step, Idle

\* Every step keeps what is in memory.
LEMMA WorkStep ==
    ASSUME IInv, IInv', StoreInv, ModeInv, ModeInv', DurableInv, Up => WorkInv, Deterministic,
           UndisturbedReplay, [Next]_vars, Up'
    PROVE  WorkInv'
<1>. USE DEF service, control, work, cadence, oracle, history, faults
<1>0. /\ Up <=> pc \notin {"boot_root", "boot_archive", "rs_truncate", "rs_load", "rs_restore",
                           "rs_replay", "down"}
      /\ pc' \notin {"boot_root", "boot_archive", "rs_truncate", "rs_load", "rs_restore", "rs_replay", "down"}
      /\ Pending <=> pc \in {"commit", "create", "replay_commits", "replay_control"}
      /\ Pending' <=> pc' \in {"commit", "create", "replay_commits", "replay_control"}
      /\ pc \in Committing <=> pc \in {"commit", "create", "replay_commits"}
      /\ pc' \in Committing <=> pc' \in {"commit", "create", "replay_commits"}
  BY DEF Up, Starting, Pending, Committing
<1>c. \A s : Complete(s) => Complete(s)'
  BY CompleteStays
<1>n. /\ batchSeq \in Nat /\ ckpt.seq \in Nat /\ MaxSeq \in Nat /\ Seqs = 0 .. MaxSeq - 1 /\ batchSeq <= MaxSeq
      /\ wal \subseteq Seqs /\ finished \subseteq Seqs /\ queue \subseteq Seqs /\ expansions \in Nat /\ cur \in Nat
      /\ batchSeq' \in Nat /\ batchSeq' <= MaxSeq
  <2>1. MaxSeq \in Nat /\ Seqs = 0 .. MaxSeq - 1
    BY BoundsAssumption DEF Seqs
  <2>2. /\ batchSeq \in 0 .. MaxSeq /\ cur \in Nat /\ expansions \in Nat
        /\ queue \subseteq Seqs /\ finished \subseteq Seqs
    BY <2>1 DEF IInv, TypeOK, TypeWork
  <2>3. batchSeq' \in 0 .. MaxSeq
    BY DEF IInv, TypeOK, TypeWork
  <2>4. ckpt.seq \in Nat /\ wal \subseteq Seqs
    BY <2>1 DEF IInv, TypeOK, TypeService
  <2>. QED
    BY <2>1, <2>2, <2>3, <2>4
<1>1. CASE BootstrapArchive
  <2>1. /\ UNCHANGED <<finished, batchSeq, expansions, queue, inflight>> /\ pc = "boot_archive"
        /\ pc' = "ck_archive"
    BY <1>1 DEF BootstrapArchive
  <2>2. batchSeq = 0 /\ queue = {} /\ inflight = {} /\ ckpt.gen = 0 /\ expansions = 0
    BY <2>1 DEF IInv, ControlInv, Starting, ModeInv
  <2>3. wal = {} /\ ckpt.seq = 0
    BY <2>2 DEF IInv, WalInv, NoCkpt
  <2>4. finished = {}
    BY <1>n, <2>3 DEF DurableInv
  <2>. QED
    BY <1>0, <1>n, <2>1, <2>2, <2>4 DEF WorkInv
<1>2. CASE ResumeFinish
  <2>1. /\ UNCHANGED <<finished, queue, inflight, ckpt, wal>> /\ pc = "rs_replay" /\ expansions' = ckpt.exp
        /\ ctx' = "replay"
    BY <1>2 DEF ResumeFinish
  <2>2. pc' \in {"boot_parked", "replay"}
    BY <1>2 DEF ResumeFinish
  <2>3. inflight = {} /\ expansions' = ckpt.seq
    BY <2>1 DEF IInv, ControlInv, Starting, DurableInv
  <2>4. \A s \in Seqs : s \in queue <=> s \in wal /\ ckpt.seq <= s
    BY <2>1 DEF IInv, WalInv
  <2>5. /\ ckpt.seq <= batchSeq'
        /\ \A t \in Seqs : ckpt.seq <= t /\ t < batchSeq' => t \in wal
        /\ \A s \in queue : s < batchSeq'
    BY <2>1 DEF IInv, WalInv
  <2>6. \A s \in Seqs : s \in queue <=> ckpt.seq <= s /\ s < batchSeq'
    BY <1>n, <2>4, <2>5
  <2>7. \A s \in finished : s < batchSeq'
    BY <1>n, <2>4, <2>5 DEF DurableInv
  <2>8. \A s \in Seqs : s < ckpt.seq => Complete(s)' /\ s \in finished
    BY <1>c DEF DurableInv
  <2>. QED
    BY <1>0, <2>1, <2>2, <2>3, <2>5, <2>6, <2>7, <2>8 DEF WorkInv
<1>3. CASE PopReplay
  <2>1. /\ UNCHANGED <<finished, batchSeq, expansions, inflight, ctx>> /\ pc = "replay" /\ pc' = "replay_control"
        /\ queue # {}
    BY <1>3 DEF PopReplay
  <2>2. IsFront(cur') /\ queue' = queue \ {cur'}
    BY <1>3 DEF PopReplay
  <2>3. WorkInv /\ inflight = {}
    BY <1>0, <2>1 DEF ModeInv
  <2>4. cur' = expansions
    BY <1>0, <2>1, <2>2, <2>3, EffectiveIsCounter DEF IsEffectiveSeq
  <2>5. \A s \in Seqs : s \in queue <=> expansions <= s /\ s < batchSeq
    BY <1>0, <2>1, <2>3 DEF WorkInv
  <2>6. \A s \in Seqs : s \in queue' <=> cur' < s /\ s < batchSeq
    BY <1>n, <2>2, <2>4, <2>5
  <2>7. \A s \in Seqs : s < expansions => Complete(s)' /\ s \in finished
    BY <1>c, <2>3 DEF WorkInv
  <2>. QED
    BY <1>0, <2>1, <2>3, <2>4, <2>6, <2>7 DEF WorkInv
<1>4. CASE SubmitBatch
  <2>1. /\ UNCHANGED <<finished, expansions, queue>> /\ pc = "submit" /\ pc' = "select"
        /\ batchSeq' = batchSeq + 1 /\ inflight' = inflight \cup {batchSeq}
    BY <1>4 DEF SubmitBatch
  <2>2. WorkInv /\ inflight = {} /\ queue = {}
    BY <1>0, <2>1 DEF ModeInv, IInv, ControlInv
  <2>3. expansions = batchSeq
    BY <1>0, <2>1, <2>2, EffectiveIsCounter DEF IsEffectiveSeq
  <2>4. expansions = batchSeq' - 1 /\ expansions <= batchSeq' /\ expansions \notin finished
    BY <1>n, <2>1, <2>2, <2>3 DEF WorkInv
  <2>5. \A s \in finished : s < batchSeq'
    BY <1>n, <2>1, <2>2 DEF WorkInv
  <2>6. \A s \in Seqs : s < expansions => Complete(s)' /\ s \in finished
    BY <1>c, <2>2 DEF WorkInv
  <2>7. inflight' # {}
    BY <2>1
  <2>. QED
    BY <1>0, <2>1, <2>4, <2>5, <2>6, <2>7 DEF WorkInv
<1>5. CASE NextCompleted
  <2>1. /\ UNCHANGED <<finished, expansions, queue, batchSeq>> /\ pc \in {"wait", "drain"} /\ pc' = "commit"
        /\ cur' \in inflight
    BY <1>5 DEF NextCompleted
  <2>2. WorkInv /\ inflight = {batchSeq - 1} /\ inflight' = {} /\ pc = "wait"
    BY <1>0, <2>1 DEF ModeInv
  <2>3. queue = {} /\ cur' = batchSeq - 1
    BY <1>0, <2>1, <2>2 DEF ModeInv, IInv, ControlInv
  <2>4. expansions = cur' /\ expansions \notin finished
    BY <2>2, <2>3 DEF WorkInv
  <2>5. \A s \in Seqs : ~(cur' < s /\ s < batchSeq)
    BY <1>n, <2>3
  <2>6. \A s \in Seqs : s < expansions => Complete(s)' /\ s \in finished
    BY <1>c, <2>2 DEF WorkInv
  <2>. QED
    BY <1>0, <2>1, <2>2, <2>3, <2>4, <2>5, <2>6 DEF WorkInv
<1>6. CASE FinishCommit
  <2>1. /\ UNCHANGED <<batchSeq, queue, inflight, cur>> /\ pc = "replay_commits"
        /\ expansions' = expansions + 1 /\ finished' = finished \cup {cur}
    BY <1>6 DEF FinishCommit
  <2>2. pc' \in {"drain", "ck_archive", "replay", "loop"}
    BY <1>6 DEF FinishCommit, Outer
  <2>3. WorkInv /\ inflight = {} /\ Complete(cur) /\ cur < batchSeq
    BY <1>0, <2>1, CurType DEF ModeInv, StoreInv, IInv, TypeOK
  <2>4. expansions = cur /\ \A s \in Seqs : s \in queue <=> cur < s /\ s < batchSeq
    BY <1>0, <2>1, <2>3 DEF WorkInv
  <2>5. expansions' = cur + 1
    BY <2>1, <2>4
  <2>6. expansions' <= batchSeq /\ \A s \in Seqs : s \in queue <=> expansions' <= s /\ s < batchSeq
    BY <1>n, <2>3, <2>4, <2>5
  <2>7. \A s \in Seqs : s < expansions' => s < expansions \/ s = cur
    BY <1>n, <2>4, <2>5
  <2>8. \A s \in Seqs : s < expansions' => Complete(s)' /\ s \in finished'
    BY <1>c, <2>1, <2>3, <2>7 DEF WorkInv
  <2>9. \A s \in finished' : s < batchSeq
    BY <2>1, <2>3 DEF WorkInv
  <2>. QED
    BY <1>0, <2>1, <2>2, <2>3, <2>6, <2>8, <2>9 DEF WorkInv
<1>q. ASSUME UNCHANGED <<finished, batchSeq, expansions, queue, inflight, cur>>, Up, Pending' <=> Pending,
             pc' \in Committing /\ ctx' = "loop" => pc \in Committing /\ ctx = "loop"
      PROVE  WorkInv'
  BY <1>q, WorkQuiet
<1>7. CASE ReplayDone \/ HandleControl \/ ReplayExecute \/ CheckBudget
  <2>1. UNCHANGED <<finished, batchSeq, expansions, queue, inflight, cur>>
    BY <1>7 DEF ReplayDone, HandleControl, ReplayExecute, CheckBudget
  <2>2. \/ pc \in {"replay", "loop"} /\ pc' \in {"loop", "drain", "select"}
        \/ pc = "replay_control" /\ pc' \in {"replay_control", "commit"} /\ ctx' = ctx
    BY <1>7 DEF ReplayDone, HandleControl, ReplayExecute, CheckBudget, UndisturbedReplay
  <2>. QED
    BY <1>0, <1>q, <2>1, <2>2 DEF IInv, ControlInv
<1>8. CASE WriteIntent \/ StopSelecting \/ FrontierExhausted \/ Drained
  <2>1. /\ UNCHANGED <<finished, batchSeq, expansions, queue, inflight, cur>>
        /\ pc \in {"select", "drain"} /\ pc' \in {"submit", "wait", "ck_archive"}
    BY <1>8 DEF WriteIntent, StopSelecting, FrontierExhausted, Drained, BeginFinal
  <2>. QED
    BY <1>0, <1>q, <2>1
<1>9. CASE Parked
  <2>1. /\ UNCHANGED <<finished, batchSeq, expansions, queue, inflight, cur, ctx>> /\ pc \in {"parked", "boot_parked"}
        /\ pc' \in {pc, "replay", "replay_control", "loop", "ck_archive"}
        /\ pc' = "replay_control" => pc = "parked" /\ ctx = "replay"
    BY <1>9 DEF Parked, BeginFinal
  <2>2. pc' # "replay_control"
    BY <2>1 DEF ModeInv
  <2>. QED
    BY <1>0, <1>q, <2>1, <2>2
<1>10. CASE BeginCommit \/ CommitChild \/ UpdateParent
  <2>1. /\ UNCHANGED <<finished, batchSeq, expansions, queue, inflight, cur, ctx>>
        /\ pc \in {"commit", "create"} /\ pc' \in {"create", "replay_commits"}
    BY <1>10 DEF BeginCommit, CommitChild, UpdateParent
  <2>. QED
    BY <1>0, <1>q, <2>1
<1>11. CASE CheckpointArchive \/ CheckpointPut \/ TruncateWal
  <2>1. /\ UNCHANGED <<finished, batchSeq, expansions, queue, inflight, cur>>
        /\ pc \in {"ck_archive", "ck_put", "ck_delete"} /\ pc' \in {"ck_put", "ck_delete"}
    BY <1>11 DEF CheckpointArchive, CheckpointPut, TruncateWal
  <2>. QED
    BY <1>0, <1>q, <2>1
<1>12. CASE FinishCheckpoint
  <2>1. UNCHANGED <<finished, batchSeq, expansions, queue, inflight, cur>> /\ pc = "ck_delete"
    BY <1>12 DEF FinishCheckpoint
  <2>2. pc' \in {"replay", "loop", "drain", "parked", "ended"}
    BY <1>12 DEF FinishCheckpoint, Outer
  <2>. QED
    BY <1>0, <1>q, <2>1, <2>2
<1>13. CASE (\E c \in Controls : Send(c)) \/ UNCHANGED vars
  <2>1. UNCHANGED <<finished, batchSeq, expansions, queue, inflight, cur, pc, ctx>>
    BY <1>13 DEF Send, vars
  <2>. QED
    BY <1>0, <1>q, <2>1
<1>14. ~(StartFresh \/ BootstrapRoot \/ StartResume \/ ResumeTruncate \/ ResumeLoad \/ ResumeRestoreArchive \/ Crash)
  BY <1>0 DEF StartFresh, BootstrapRoot, StartResume, ResumeTruncate, ResumeLoad, ResumeRestoreArchive, Crash
<1>. QED
  BY <1>1, <1>2, <1>3, <1>4, <1>5, <1>6, <1>7, <1>8, <1>9, <1>10, <1>11, <1>12, <1>13, <1>14, Zenon
  DEF Next, Step, Idle, RpcFails, Deterministic

-----------------------------------------------------------------------------
(* The theorems about recovery.                                               *)

\* Everything that holds with one batch in flight and an undisturbed replay.
RecoveryInv == IInv /\ StoreInv /\ ModeInv /\ DurableInv /\ (Up => WorkInv)

\* The runner starts with nothing begun.
LEMMA RecoveryInit == Init => RecoveryInv
<1>. SUFFICES ASSUME Init
              PROVE  RecoveryInv
  OBVIOUS
<1>1. ModeInv
  BY DEF Init, ModeInv, Up
<1>2. DurableInv
  <2>1. ckpt.exp = 0 /\ ckpt.seq = 0
    BY DEF Init, NoCkpt
  <2>2. issued = {} /\ finished = {}
    BY DEF Init
  <2>. QED
    BY <2>1, <2>2, BoundsAssumption DEF DurableInv, Seqs
<1>3. ~Up
  BY DEF Init, Up
<1>. QED
  BY <1>1, <1>2, <1>3, InitInv, StoreInit DEF RecoveryInv

\* With one batch in flight, no RPC out of retries and an undisturbed replay, every step keeps it.
LEMMA RecoveryStep ==
    ASSUME RecoveryInv, IInv', Deterministic, UndisturbedReplay, [Next]_vars
    PROVE  RecoveryInv'
<1>1. StoreInv' /\ ModeInv'
  BY StoreStep, ModeStep DEF RecoveryInv
<1>2. DurableInv'
  BY DurableStep DEF RecoveryInv
<1>3. Up' => WorkInv'
  BY <1>1, WorkStep DEF RecoveryInv
<1>. QED
  BY <1>1, <1>2, <1>3 DEF RecoveryInv

\* The inductive invariant of recovery, for any number of batches, children and crashes.
THEOREM Recovery == Deterministic => (Spec /\ []UndisturbedReplay => []RecoveryInv)
<1>. SUFFICES ASSUME Deterministic
              PROVE  Spec /\ []UndisturbedReplay => []RecoveryInv
  OBVIOUS
<1>1. RecoveryInv /\ IInv' /\ UndisturbedReplay /\ [Next]_vars => RecoveryInv'
  BY RecoveryStep
<1>. QED
  BY <1>1, RecoveryInit, Invariance, PTL DEF Spec

\* "The checkpoint covers every batch below the effective seq": with one batch in flight, no RPC out of
\* retries and no Pause or Stop handled while a popped replay intent waits, every batch the checkpoint claims
\* has all its rows and its parent update in the store, after any number of crashes.
THEOREM CheckpointCoversOnlyComplete == Deterministic => (Spec /\ []UndisturbedReplay => []CoveredComplete)
<1>. SUFFICES ASSUME Deterministic
              PROVE  Spec /\ []UndisturbedReplay => []CoveredComplete
  OBVIOUS
<1>1. RecoveryInv => CoveredComplete
  BY DEF RecoveryInv, DurableInv, CoveredComplete
<1>. QED
  BY <1>1, Recovery, PTL

\* Under the same assumptions a WAL entry is deleted only after its batch committed: an intent that was
\* logged and is not complete is still in the log, where the next resume finds it.
THEOREM IntentsSurvive == Deterministic => (Spec /\ []UndisturbedReplay => []LoggedUntilCommitted)
<1>. SUFFICES ASSUME Deterministic
              PROVE  Spec /\ []UndisturbedReplay => []LoggedUntilCommitted
  OBVIOUS
<1>1. RecoveryInv => LoggedUntilCommitted
  <2>. SUFFICES ASSUME RecoveryInv, NEW s \in issued
                PROVE  Complete(s) \/ (s \in wal /\ s >= ckpt.seq)
    BY DEF LoggedUntilCommitted
  <2>1. s \in Seqs /\ s \in Nat /\ ckpt.seq \in Nat
    BY BoundsAssumption DEF RecoveryInv, IInv, TypeOK, TypeWork, TypeService, Seqs
  <2>2. s < ckpt.seq => Complete(s)
    BY <2>1 DEF RecoveryInv, DurableInv
  <2>3. s < ckpt.seq \/ s \in wal
    BY DEF RecoveryInv, DurableInv
  <2>. QED
    BY <2>1, <2>2, <2>3
<1>. QED
  BY <1>1, Recovery, PTL

\* Under the same assumptions a replay neither loses nor repeats an expansion: when selection runs, the
\* budget counter is the number of batches ever committed.
THEOREM ExpansionsAreCounted == Deterministic => (Spec /\ []UndisturbedReplay => []ExpansionsExact)
<1>. SUFFICES ASSUME Deterministic
              PROVE  Spec /\ []UndisturbedReplay => []ExpansionsExact
  OBVIOUS
<1>1. RecoveryInv => ExpansionsExact
  <2>. SUFFICES ASSUME RecoveryInv, pc \in {"loop", "select", "submit", "wait"}
                PROVE  expansions = Cardinality(finished)
    BY DEF ExpansionsExact
  <2>1. Up /\ WorkInv /\ ~Pending /\ queue = {}
    BY DEF RecoveryInv, Up, Starting, Pending, Committing, ModeInv, IInv, ControlInv
  <2>2. /\ expansions \in Nat /\ batchSeq \in Nat /\ finished \subseteq Seqs /\ MaxSeq \in Nat
        /\ Seqs = 0 .. MaxSeq - 1 /\ batchSeq <= MaxSeq
    BY BoundsAssumption DEF RecoveryInv, IInv, TypeOK, TypeWork, Seqs
  <2>3. \A s \in finished : s < expansions
    <3>1. CASE inflight = {}
      <4>1. expansions = batchSeq
        BY <2>1, <3>1, EffectiveIsCounter DEF IsEffectiveSeq, RecoveryInv
      <4>. QED
        BY <2>1, <4>1 DEF WorkInv
    <3>2. CASE inflight # {}
      <4>1. expansions = batchSeq - 1 /\ expansions \notin finished /\ (\A s \in finished : s < batchSeq)
        BY <2>1, <3>2 DEF WorkInv
      <4>. QED
        BY <2>2, <4>1
    <3>. QED
      BY <3>1, <3>2
  <2>4. \A s \in Seqs : s < expansions => s \in finished
    BY <2>1 DEF WorkInv
  <2>5. expansions <= batchSeq
    BY <2>1 DEF WorkInv
  <2>6. finished = 0 .. expansions - 1
    <3>1. \A s \in finished : s \in 0 .. expansions - 1
      BY <2>2, <2>3
    <3>2. \A s \in 0 .. expansions - 1 : s \in Seqs /\ s < expansions
      BY <2>2, <2>5
    <3>. QED
      BY <2>4, <3>1, <3>2
  <2>7. Cardinality(0 .. expansions - 1) = expansions
    <3>1. 0 \in Int /\ expansions - 1 \in Int
      BY <2>2
    <3>2. Cardinality(0 .. expansions - 1) = IF 0 > expansions - 1 THEN 0 ELSE expansions - 1 - 0 + 1
      BY <3>1, FS_Interval
    <3>. QED
      BY <2>2, <3>2
  <2>. QED
    BY <2>6, <2>7
<1>. QED
  BY <1>1, Recovery, PTL

-----------------------------------------------------------------------------
(* The runner implements the ledger.                                          *)

\* The store is a function from node ids to rows.
RowsFunction == rows = [i \in DOMAIN rows |-> rows[i]]

\* CreateNode keeps it one.
LEMMA RowsFunctionStep ==
    ASSUME RowsFunction, [Next]_vars
    PROVE  RowsFunction'
<1>1. ASSUME NEW id, NEW row, CreateNode(id, row)
      PROVE  RowsFunction'
  BY <1>1 DEF CreateNode, RowsFunction
<1>2. CASE rows' = rows
  BY <1>2 DEF RowsFunction
<1>3. CASE BootstrapRoot
  BY <1>1, <1>3 DEF BootstrapRoot
<1>4. CASE CommitChild
  BY <1>1, <1>2, <1>4 DEF CommitChild, CreateFresh, AdoptOrCreate
<1>. QED
  BY <1>2, <1>3, <1>4, StepEffects DEF Effects

\* A store without some row has at most as many rows as all batches have children.
LEMMA RowsBounded ==
    ASSUME IInv, NEW n \in Nat, DOMAIN rows = 0 .. n - 1, NEW row \in Row, row \notin Stored
    PROVE  n <= MaxSeq * K
<1>. DEFINE Kids == Seqs \X (1 .. K)
<1>0. MaxSeq \in Nat /\ K \in Nat /\ Seqs = 0 .. MaxSeq - 1
  BY BoundsAssumption DEF Seqs
<1>1. IsFiniteSet(Seqs) /\ Cardinality(Seqs) = MaxSeq
  <2>1. 0 \in Int /\ MaxSeq - 1 \in Int
    BY <1>0
  <2>2. IsFiniteSet(0 .. MaxSeq - 1) /\ Cardinality(0 .. MaxSeq - 1) = IF 0 > MaxSeq - 1 THEN 0 ELSE MaxSeq - 1 - 0 + 1
    BY <2>1, FS_Interval
  <2>. QED
    BY <1>0, <2>2
<1>2. IsFiniteSet(1 .. K) /\ Cardinality(1 .. K) = K
  <2>1. 1 \in Int /\ K \in Int
    BY <1>0
  <2>2. IsFiniteSet(1 .. K) /\ Cardinality(1 .. K) = IF 1 > K THEN 0 ELSE K - 1 + 1
    BY <2>1, FS_Interval
  <2>. QED
    BY <1>0, <2>2
<1>3. IsFiniteSet(Kids) /\ Cardinality(Kids) = MaxSeq * K
  BY <1>1, <1>2, FS_Product
<1>4. Root \notin Kids /\ Row = Kids \cup {Root}
  BY <1>0 DEF Root, Row
<1>5. IsFiniteSet(Row) /\ Cardinality(Row) = MaxSeq * K + 1
  <2>. HIDE DEF Kids
  <2>1. IsFiniteSet(Kids \cup {Root}) /\ Cardinality(Kids \cup {Root}) = Cardinality(Kids) + 1
    BY <1>3, <1>4, FS_AddElement
  <2>. QED
    BY <1>3, <1>4, <2>1
<1>6. IsFiniteSet(Row \ {row}) /\ Cardinality(Row \ {row}) = MaxSeq * K
  <2>1. IsFiniteSet(Row \ {row}) /\ Cardinality(Row \ {row}) = Cardinality(Row) - 1
    BY <1>5, FS_RemoveElement
  <2>2. MaxSeq * K \in Int
    BY <1>0
  <2>. QED
    BY <1>5, <2>1, <2>2
<1>7. IsFiniteSet(0 .. n - 1) /\ Cardinality(0 .. n - 1) = n
  <2>1. 0 \in Int /\ n - 1 \in Int
    OBVIOUS
  <2>2. IsFiniteSet(0 .. n - 1) /\ Cardinality(0 .. n - 1) = IF 0 > n - 1 THEN 0 ELSE n - 1 - 0 + 1
    BY <2>1, FS_Interval
  <2>. QED
    BY <2>2
<1>8. [i \in 0 .. n - 1 |-> rows[i]] \in Injection(0 .. n - 1, Row \ {row})
  <2>1. \A i \in 0 .. n - 1 : rows[i] \in Row /\ rows[i] # row
    BY DEF IInv, TypeOK, TypeService, Stored
  <2>2. \A i, j \in 0 .. n - 1 : rows[i] = rows[j] => i = j
    BY DEF IInv, RowInv, NoDoubleCommit
  <2>. QED
    BY <2>1, <2>2 DEF Injection, IsInjective
<1>. QED
  BY <1>6, <1>7, <1>8, FS_Injection DEF ExistsInjection

\* The announced batches are those below a number, batch_seq while the runner is up.
LEMMA AnnouncedPrefix ==
    ASSUME IInv, Up, batchSeq \notin wal
    PROVE  wal \cup (0 .. ckpt.seq - 1) = 0 .. batchSeq - 1
<1>0. /\ batchSeq \in Nat /\ ckpt.seq \in Nat /\ MaxSeq \in Nat /\ Seqs = 0 .. MaxSeq - 1 /\ batchSeq <= MaxSeq
      /\ wal \subseteq Seqs
  BY BoundsAssumption DEF IInv, TypeOK, TypeWork, TypeService, Seqs
<1>1. /\ ckpt.seq <= batchSeq /\ (\A s \in wal : s <= batchSeq)
      /\ \A t \in Seqs : ckpt.seq <= t /\ t < batchSeq => t \in wal
  BY DEF IInv, WalInv
<1>2. \A s \in wal : s \in 0 .. batchSeq - 1
  BY <1>0, <1>1
<1>3. \A s \in 0 .. ckpt.seq - 1 : s \in 0 .. batchSeq - 1
  BY <1>0, <1>1
<1>4. \A s \in 0 .. batchSeq - 1 : s \in wal \/ s \in 0 .. ckpt.seq - 1
  BY <1>0, <1>1
<1>. QED
  BY <1>2, <1>3, <1>4

\* A row the runner adds is a row the ledger adds.
LEMMA LedgerRow ==
    ASSUME IInv, NEW n \in Nat, DOMAIN rows = 0 .. n - 1, NEW row \in Row, row \notin Stored,
           CreateNode(n, row), UNCHANGED <<wal, ckpt, updated, kids>>
    PROVE  Ledger!AddRow(row)
<1>1. n \in 0 .. MaxSeq * K
  BY RowsBounded, BoundsAssumption
<1>2. rows' = [i \in 0 .. n |-> IF i = n THEN row ELSE rows[i]]
  <2>1. DOMAIN rows \cup {n} = 0 .. n
    OBVIOUS
  <2>2. \A i \in 0 .. n : i \in DOMAIN rows <=> i # n
    OBVIOUS
  <2>. QED
    BY <2>1, <2>2 DEF CreateNode
<1>3. row \notin Ledger!InTree
  BY DEF Ledger!InTree, Stored
<1>. QED
  BY <1>1, <1>2, <1>3 DEF Ledger!AddRow

\* Every step of the runner is a step of the ledger, or none of the ledger's state changes.
LEMMA LedgerStep ==
    ASSUME RecoveryInv, RecoveryInv', RowsFunction, [Next]_vars
    PROVE  [Ledger!Next]_(Ledger!ledger)
<1>. USE DEF service, control, work, cadence, oracle, history, faults
<1>0. IInv /\ StoreInv /\ DurableInv /\ DurableInv' /\ Effects
  BY StepEffects DEF RecoveryInv
<1>n. /\ batchSeq \in Nat /\ ckpt.seq \in Nat /\ MaxSeq \in Nat /\ Seqs = 0 .. MaxSeq - 1 /\ batchSeq <= MaxSeq
      /\ wal \subseteq Seqs /\ delSeq \in Nat
  BY <1>0, BoundsAssumption DEF IInv, TypeOK, TypeWork, TypeService, Seqs
<1>1. ASSUME UNCHANGED <<rows, updated, kids>>, ckpt'.seq = ckpt.seq,
             wal' \cup (0 .. ckpt.seq - 1) = wal \cup (0 .. ckpt.seq - 1)
      PROVE  [Ledger!Next]_(Ledger!ledger)
  BY <1>1 DEF Ledger!ledger
<1>2. CASE WriteIntent
  <2>1. /\ pc = "select" /\ wal' = wal \cup {batchSeq} /\ UNCHANGED <<rows, updated, kids, ckpt>>
        /\ batchSeq < MaxSeq
    BY <1>2 DEF WriteIntent
  <2>2. Up /\ batchSeq \notin wal
    BY <1>0, <2>1 DEF IInv, WalInv, ControlInv, Up, Starting, Checkpointing
  <2>3. wal \cup (0 .. ckpt.seq - 1) = 0 .. batchSeq - 1
    BY <1>0, <2>2, AnnouncedPrefix
  <2>4. 0 .. batchSeq = (0 .. batchSeq - 1) \cup {batchSeq}
    BY <1>n
  <2>5. wal' \cup (0 .. ckpt'.seq - 1) = 0 .. batchSeq
    BY <2>1, <2>3, <2>4
  <2>6. batchSeq \in 0 .. MaxSeq - 1
    BY <1>n, <2>1
  <2>7. Ledger!Announce
    BY <2>1, <2>3, <2>5, <2>6 DEF Ledger!Announce
  <2>. QED
    BY <2>7 DEF Ledger!Next
<1>3. CASE BootstrapRoot
  <2>1. CreateNode(0, Root) /\ UNCHANGED <<wal, ckpt, updated, kids>> /\ ckpt.gen = 0
    BY <1>0, <1>3 DEF BootstrapRoot, IInv, ControlInv
  <2>2. CASE 0 \in DOMAIN rows
    <3>1. DOMAIN rows \cup {0} = DOMAIN rows
      BY <2>2
    <3>2. rows' = rows
      BY <2>1, <3>1 DEF CreateNode, RowsFunction
    <3>. QED
      BY <1>1, <2>1, <3>2
  <2>3. CASE 0 \notin DOMAIN rows
    <3>1. DOMAIN rows = {}
      BY <1>0, <2>1, <2>3 DEF IInv, IdInv
    <3>2. rows = [i \in {} |-> <<0, 0>>]
      BY <3>1 DEF RowsFunction
    <3>3. Stored = {} /\ DOMAIN rows = 0 .. 0 - 1 /\ Root \in Row
      BY <3>1 DEF Stored, Row
    <3>4. Ledger!AddRow(Root)
      BY <1>0, <2>1, <3>3, LedgerRow
    <3>5. Ledger!AddRoot
      BY <3>2, <3>4 DEF Ledger!AddRoot, Root
    <3>. QED
      BY <3>5 DEF Ledger!Next
  <2>. QED
    BY <2>2, <2>3
<1>p. ASSUME pc = "create"
      PROVE  cur \in wal \cup (0 .. ckpt.seq - 1) /\ cur \in Seqs /\ kids[cur] \in 0 .. K
  <2>1. cur \in Seqs /\ kids[cur] \in 0 .. K /\ cur < batchSeq /\ Up
    BY <1>0, <1>p, CurType DEF IInv, TypeOK, Committing, Up, Starting
  <2>2. cur < ckpt.seq \/ cur \in wal
    BY <1>0, <1>n, <2>1 DEF IInv, WalInv
  <2>. QED
    BY <1>n, <2>1, <2>2
<1>4. CASE CommitChild
  <2>1. UNCHANGED <<wal, ckpt, updated, kids>> /\ pc = "create" /\ idx <= kids[cur]
    BY <1>4 DEF CommitChild
  <2>2. idx \in 1 .. kids[cur] /\ idx \in 1 .. K
    BY <1>0, <1>p, <2>1, BoundsAssumption DEF IInv, ControlInv, TypeOK, TypeWork
  <2>3. CASE <<cur, idx>> \in Stored
    BY <1>0, <1>1, <1>4, <2>1, <2>3, CommitAdds
  <2>4. CASE <<cur, idx>> \notin Stored
    <3>1. PICK n \in Nat : DOMAIN rows = 0 .. n - 1 /\ CreateNode(n, <<cur, idx>>)
      BY <1>0, <1>4, <2>4, CommitAdds
    <3>2. <<cur, idx>> \in Row
      BY <1>p, <2>1, <2>2 DEF Row
    <3>3. Ledger!AddRow(<<cur, idx>>)
      BY <1>0, <2>1, <2>4, <3>1, <3>2, LedgerRow
    <3>4. <<cur, idx>> \in Children(cur) /\ Ledger!Children(cur) = Children(cur)
      BY <2>2 DEF Children, Ledger!Children
    <3>5. cur \notin updated
      BY <1>0, <2>4, <3>4 DEF StoreInv
    <3>6. Ledger!AddChild
      BY <1>p, <2>1, <3>3, <3>4, <3>5 DEF Ledger!AddChild
    <3>. QED
      BY <3>6 DEF Ledger!Next
  <2>. QED
    BY <2>3, <2>4
<1>5. CASE UpdateParent
  <2>1. UNCHANGED <<wal, ckpt, rows, kids, cur>> /\ pc = "create" /\ pc' = "replay_commits" /\ updated' = updated \cup {cur}
    BY <1>5 DEF UpdateParent
  <2>2. CASE cur \in updated
    <3>1. updated' = updated
      BY <2>1, <2>2
    <3>. QED
      BY <1>1, <2>1, <3>1
  <2>3. CASE cur \notin updated
    <3>1. Children(cur)' \subseteq Stored'
      BY <2>1 DEF RecoveryInv, StoreInv, Complete
    <3>2. Ledger!Children(cur) \subseteq Ledger!InTree
      BY <2>1, <3>1 DEF Children, Stored, Ledger!Children, Ledger!InTree
    <3>3. Ledger!Finish
      BY <1>p, <2>1, <2>3, <3>2 DEF Ledger!Finish
    <3>. QED
      BY <3>3 DEF Ledger!Next
  <2>. QED
    BY <2>2, <2>3
<1>6. CASE CheckpointPut
  <2>1. UNCHANGED <<wal, rows, kids, updated>> /\ pc = "ck_put" /\ pc' = "ck_delete" /\ batchSeq' = batchSeq
    BY <1>6 DEF CheckpointPut
  <2>2. PICK e \in 0 .. MaxSeq : IsEffectiveSeq(e) /\ ckpt' = BuildCheckpoint(e)
    BY <1>6 DEF CheckpointPut
  <2>3. ckpt'.seq = e /\ e \in Nat /\ Up
    BY <1>n, <2>1, <2>2 DEF BuildCheckpoint, Up, Starting
  <2>4. /\ ckpt.seq <= e /\ e <= batchSeq
        /\ \A t \in Seqs : ckpt.seq <= t /\ t < batchSeq => t \in wal
    BY <1>0, <1>n, <2>2, <2>3 DEF IsEffectiveSeq, IsFront, IInv, WalInv
  <2>5. \A s \in 0 .. e - 1 : s \in updated
    BY <1>0, <1>n, <2>1, <2>3, <2>4 DEF DurableInv, Complete
  <2>6. wal' \cup (0 .. ckpt'.seq - 1) = wal \cup (0 .. ckpt.seq - 1)
    <3>1. \A s \in 0 .. e - 1 : s \in wal \/ s \in 0 .. ckpt.seq - 1
      BY <1>n, <2>3, <2>4
    <3>2. \A s \in 0 .. ckpt.seq - 1 : s \in 0 .. e - 1
      BY <1>n, <2>3, <2>4
    <3>. QED
      BY <2>1, <2>3, <3>1, <3>2
  <2>7. e \in ckpt.seq .. MaxSeq
    BY <1>n, <2>2, <2>4
  <2>8. Ledger!Cover
    BY <2>1, <2>3, <2>5, <2>6, <2>7 DEF Ledger!Cover
  <2>. QED
    BY <2>8 DEF Ledger!Next
<1>7. CASE ResumeTruncate
  <2>1. UNCHANGED <<ckpt, rows, updated, kids>> /\ pc = "rs_truncate" /\ (wal' = wal \/ wal' = wal \ {delSeq - 1})
    BY <1>7 DEF ResumeTruncate
  <2>2. delSeq <= ckpt.seq
    BY <1>0, <2>1 DEF IInv, WalInv
  <2>3. wal' = wal \ {delSeq - 1} /\ delSeq - 1 \in wal => delSeq - 1 \in 0 .. ckpt.seq - 1
    BY <1>n, <2>2
  <2>4. wal' \cup (0 .. ckpt.seq - 1) = wal \cup (0 .. ckpt.seq - 1)
    BY <2>1, <2>3
  <2>. QED
    BY <1>1, <2>1, <2>4
<1>8. CASE TruncateWal
  <2>1. UNCHANGED <<ckpt, rows, updated, kids>> /\ pc = "ck_delete" /\ wal' = wal \ {delSeq}
    BY <1>8 DEF TruncateWal
  <2>2. PICK e \in 0 .. MaxSeq : IsEffectiveSeq(e) /\ delSeq < e
    BY <1>8 DEF TruncateWal
  <2>3. e = ckpt.seq
    BY <1>0, <2>1, <2>2, EffectiveUnique DEF IInv, WalInv, TypeOK
  <2>4. delSeq \in 0 .. ckpt.seq - 1
    BY <1>n, <2>2, <2>3
  <2>5. wal' \cup (0 .. ckpt.seq - 1) = wal \cup (0 .. ckpt.seq - 1)
    BY <2>1, <2>4
  <2>. QED
    BY <1>1, <2>1, <2>5
<1>9. CASE UNCHANGED <<wal, rows, updated, kids, ckpt>>
  BY <1>1, <1>9
<1>. QED
  BY <1>0, <1>2, <1>3, <1>4, <1>5, <1>6, <1>7, <1>8, <1>9 DEF Effects

\* With one batch in flight, no RPC out of retries and an undisturbed replay, crashes, resume, adoption and
\* truncation are invisible: what is durable changes only as the crash-free ledger says.
THEOREM RunnerImplementsLedger == Deterministic => (Spec /\ []UndisturbedReplay => RefinesLedger)
<1>. SUFFICES ASSUME Deterministic
              PROVE  Spec /\ []UndisturbedReplay => RefinesLedger
  OBVIOUS
<1>1. Init => Ledger!Init /\ RowsFunction
  <2>. SUFFICES ASSUME Init
                PROVE  Ledger!Init /\ RowsFunction
    OBVIOUS
  <2>1. ckpt.seq = 0 /\ wal = {} /\ updated = {}
    BY DEF Init, NoCkpt
  <2>2. rows = [i \in {} |-> <<0, 0>>] /\ kids \in [0 .. MaxSeq - 1 -> 0 .. K]
    BY DEF Init, Root, Seqs
  <2>3. 0 .. ckpt.seq - 1 = {}
    BY <2>1
  <2>4. RowsFunction
    BY <2>2 DEF RowsFunction
  <2>. QED
    BY <2>1, <2>2, <2>3, <2>4 DEF Ledger!Init
<1>2. RowsFunction /\ [Next]_vars => RowsFunction'
  BY RowsFunctionStep
<1>3. RecoveryInv /\ RecoveryInv' /\ RowsFunction /\ [Next]_vars => [Ledger!Next]_(Ledger!ledger)
  BY LedgerStep
<1>. QED
  BY <1>1, <1>2, <1>3, Recovery, PTL DEF Spec, RefinesLedger, Ledger!Spec
=============================================================================
