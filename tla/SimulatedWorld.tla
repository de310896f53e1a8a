---------------------------- MODULE SimulatedWorld ----------------------------
(* The simulated services behind their journal (orch-simstate, and the world   *)
(* that `orchestratord --simulate --state-dir` runs against).  A mutating call *)
(* appends its request to the journal, takes effect, and appends a digest of   *)
(* its answer; the process can be killed between and within any of these.  A   *)
(* restart replays the requests of the journal against fresh services, checks  *)
(* the digests, ends the sessions of the dead process and goes on appending.   *)
(*                                                                             *)
(* A frame is [kind, id, request | digest]; the digest of an answer is the     *)
(* answer.  Reads pass the journal by and are not steps here; the one thing a  *)
(* read moves, where a watcher stands in the slot events, starts over with     *)
(* each process and is not part of the world that the journal rebuilds.        *)
EXTENDS FakeWorker, FakeStore, FakeScorer, FakeSynth

CONSTANTS
    Requests(_, _, _),  \* the calls a client may make: (workload, service, services)
    Workloads,          \* name -> [ops, crashes]: bounds of the runs of that workload
    NoCall, NoFile

ASSUME WorldAssumption ==
    \A w \in DOMAIN Workloads : Workloads[w].ops \in Nat /\ Workloads[w].crashes \in Nat

Services == {"worker", "store", "scorer", "synth"}

VARIABLES
    workload,
    file,          \* the frames of journal.v1, or NoFile
    proc,          \* "down", "creating", "loaded", "up", "panicked"
    services,      \* the fakes, in memory
    nextOp,        \* Journal::next_op_id
    calls,         \* per service (behind its mutex): the call under way
    acked,         \* history: answers that reached their caller, by operation id
    ops, crashes   \* counters of the bounds

vars == <<workload, file, proc, services, nextOp, calls, acked, ops, crashes>>

Fresh == [worker |-> NewWorker, store |-> NewStore, scorer |-> NewScorer, synth |-> NewSynth]
Idle == [s \in Services |-> NoCall]

Init ==
    /\ workload \in DOMAIN Workloads
    /\ file = NoFile /\ proc = "down" /\ services = Fresh /\ nextOp = 1 /\ calls = Idle
    /\ acked = <<>> /\ ops = 0 /\ crashes = 0

-----------------------------------------------------------------------------
(* The services, without faults.                                              *)

NoFault == [error |-> "none", flip |-> FALSE]

ApplyWorker(st, r) ==
    CASE r.op = "create_vm"        -> CreateVm(st, r)
      [] r.op = "restore_snapshot" -> RestoreSnapshot(st, r)
      [] r.op = "fork"             -> Fork(st, r)
      [] r.op = "inject_inputs"    -> InjectInputs(st, r)
      [] r.op = "run"              -> Run(st, r)
      [] r.op = "take_snapshot"    -> TakeSnapshot(st, r)
      [] r.op = "destroy_vm"       -> DestroyVm(st, r)

ApplyStore(st, r) ==
    CASE r.op = "create_node"     -> CreateNode(st, r)
      [] r.op = "update_nodes"    -> UpdateNodes(st, r)
      [] r.op = "put_metadata"    -> PutMetadata(st, r)
      [] r.op = "delete_metadata" -> DeleteMetadata(st, r)
      [] r.op = "prune_subtree"   -> PruneSubtree(st, r)

ApplyScorer(st, r) ==
    CASE r.op = "load_feature_map"     -> LoadFeatureMap(st, r)
      [] r.op = "load_scoring_program" -> LoadScoringProgram(st, r)
      [] r.op = "score_batch"          -> ScoreBatch(st, r, Len(r.states))
      [] r.op = "checkpoint_archive"   -> CheckpointArchive(st, r)
      [] r.op = "restore_archive"      -> RestoreArchive(st, r)
      [] r.op = "replay_commits"       -> ReplayCommits(st, r, Len(r.states))

ApplySynth(st, r) ==
    CASE r.op = "load_macro_pack" -> LoadMacroPack(st, r)
      [] r.op = "propose_bursts"  -> ProposeBursts(st, r, NoFault)
      [] r.op = "mine_macros"     -> MineMacros(st, r)

Apply(service, st, r) ==
    CASE service = "worker" -> ApplyWorker(st, r)
      [] service = "store"  -> ApplyStore(st, r)
      [] service = "scorer" -> ApplyScorer(st, r)
      [] service = "synth"  -> ApplySynth(st, r)

-----------------------------------------------------------------------------
(* The journal.                                                               *)

Header == [kind |-> "header"]
OpFrame(id, service, r) == [kind |-> "op", id |-> id, service |-> service, request |-> r]
AppliedFrame(id, digest) == [kind |-> "applied", id |-> id, digest |-> digest]
ReclaimFrame(id) == [kind |-> "reclaim", id |-> id]
Torn == [kind |-> "torn"]

\* Journal::load drops a torn tail; a nonempty journal must then start with the header.
Records(frames) == SelectSeq(frames, LAMBDA f : f.kind # "torn")
HeaderMissing(records) == records # <<>> /\ Head(records) # Header

\* An operation of the journal, done again with this outcome.
Redone(w, f, out) ==
    [w EXCEPT !.services[f.service] = out.st, !.rsp = (f.id :> out.rsp) @@ @, !.max = Max({@, f.id})]

ReplayFrameWithoutReclaim(w, f) ==
    CASE f.kind = "op" -> Redone(w, f, Apply(f.service, w.services[f.service], f.request))
      [] OTHER -> w

\* One record of the replay loop of reload_inner.
ReplayFrame(w, f) ==
    CASE f.kind = "op" -> Redone(w, f, Apply(f.service, w.services[f.service], f.request))
      [] f.kind = "reclaim" -> [w EXCEPT !.services.worker = ReclaimSession(@), !.max = Max({@, f.id})]
      [] OTHER -> w

Replay(records) == FoldLeft(ReplayFrame, [services |-> Fresh, rsp |-> <<>>, max |-> 0], records)

\* The check of reload_inner; an operation without a digest is not checked.
DigestMismatch(records, rsp) ==
    \E i \in DOMAIN records :
        /\ records[i].kind = "applied"
        /\ records[i].id \in DOMAIN rsp
        /\ rsp[records[i].id] # records[i].digest

NextAfterRestart(max) == 1

\* The operation id open_existing goes on with.
NextAfter(max) == max + 1

-----------------------------------------------------------------------------
(* The process.                                                               *)

\* Journal::create: the file is there before its header.
CreateFile ==
    /\ proc = "down" /\ file = NoFile
    /\ file' = <<>> /\ proc' = "creating"
    /\ UNCHANGED <<workload, services, nextOp, calls, acked, ops, crashes>>

WriteHeader ==
    /\ proc = "creating"
    /\ file' = <<Header>> /\ proc' = "up"
    /\ UNCHANGED <<workload, services, nextOp, calls, acked, ops, crashes>>

\* The end of the replay: it panics, or the services are as it left them.
Checked(records, world) ==
    IF HeaderMissing(records) \/ DigestMismatch(records, world.rsp)
    THEN proc' = "panicked" /\ UNCHANGED <<services, nextOp>>
    ELSE /\ proc' = "loaded" /\ services' = world.services
         /\ nextOp' = NextAfter(world.max)

\* world and reload_inner up to the reopening of the journal.
Load ==
    /\ proc = "down" /\ file # NoFile
    /\ file' = Records(file) /\ Checked(Records(file), Replay(Records(file)))
    /\ UNCHANGED <<workload, calls, acked, ops, crashes>>

ReopenSilently ==
    /\ proc = "loaded"
    /\ services' = [services EXCEPT !.worker = ReclaimSession(@)]
    /\ proc' = "up"
    /\ UNCHANGED <<workload, file, nextOp, calls, acked, ops, crashes>>

\* The rest of it: the sessions of the dead process end, and the journal says so.
Reopen ==
    /\ proc = "loaded"
    /\ services' = [services EXCEPT !.worker = ReclaimSession(@)]
    /\ file' = Append(file, ReclaimFrame(nextOp)) /\ nextOp' = nextOp + 1
    /\ proc' = "up"
    /\ UNCHANGED <<workload, calls, acked, ops, crashes>>

\* The three steps of a journaled call.  Calls of different services interleave.
AppendOp(s) ==
    /\ proc = "up" /\ calls[s] = NoCall /\ ops < Workloads[workload].ops
    /\ \E r \in Requests(workload, s, services) :
          /\ file' = Append(file, OpFrame(nextOp, s, r))
          /\ calls' = [calls EXCEPT ![s] = [stage |-> "appended", id |-> nextOp, request |-> r]]
    /\ nextOp' = nextOp + 1 /\ ops' = ops + 1
    /\ UNCHANGED <<workload, proc, services, acked, crashes>>

ApplyOp(s) ==
    /\ proc = "up" /\ calls[s] # NoCall /\ calls[s].stage = "appended"
    /\ \E out \in {Apply(s, services[s], calls[s].request)} :
          /\ services' = [services EXCEPT ![s] = out.st]
          /\ calls' = [calls EXCEPT ![s] = [stage |-> "applied", id |-> calls[s].id, rsp |-> out.rsp]]
    /\ UNCHANGED <<workload, file, proc, nextOp, acked, ops, crashes>>

Answer(s) ==
    /\ proc = "up" /\ calls[s] # NoCall /\ calls[s].stage = "applied"
    /\ file' = Append(file, AppliedFrame(calls[s].id, calls[s].rsp))
    /\ acked' = (calls[s].id :> calls[s].rsp) @@ acked
    /\ calls' = [calls EXCEPT ![s] = NoCall]
    /\ UNCHANGED <<workload, proc, services, nextOp, ops, crashes>>

\* SIGKILL, possibly within a write: the memory is gone.
Killed ==
    /\ proc \in {"creating", "loaded", "up"} /\ crashes < Workloads[workload].crashes
    /\ file' \in {file, Append(file, Torn)}
    /\ proc' = "down" /\ services' = Fresh /\ calls' = Idle /\ nextOp' = 1
    /\ crashes' = crashes + 1
    /\ UNCHANGED <<workload, acked, ops>>

Next ==
    \/ CreateFile \/ WriteHeader \/ Load \/ Reopen \/ Killed
    \/ \E s \in Services : AppendOp(s) \/ ApplyOp(s) \/ Answer(s)

Spec == Init /\ [][Next]_vars

-----------------------------------------------------------------------------
(* Properties of the journal.                                                 *)

\* "Rebuilds the exact committed world": a reload never trips over the journal that an earlier
\* incarnation left, neither over its frames nor over a digest.  The one exception is a journal whose
\* creation was killed before the header: load takes it for empty, reload appends to it all the same,
\* and the reload after that finds a first frame that is no header.
ReloadSucceeds == proc = "panicked" => HeaderMissing(Records(file))

\* What is in memory is what the journal says, at every instruction: each service is in the state the
\* replay of the journal would give it, short of the one operation it has logged and not yet done.
\* So an operation that fails half-way, or a reclaim, must be logged like any other.  And an answer a
\* caller has had stays true: in every later incarnation the replay gives the operation that answer
\* again, also when its digest was lost.
LiveIsReplay ==
    /\ proc = "up" =>
          \A s \in Services :
              LET underway == calls[s] # NoCall /\ calls[s].stage = "appended"
                  logged   == SelectSeq(file, LAMBDA f : ~(underway /\ f.kind = "op" /\ f.id = calls[s].id))
              IN  services[s] = Replay(logged).services[s]
    /\ file # NoFile =>
          \A rsp \in {Replay(Records(file)).rsp} :
              \A id \in DOMAIN acked : id \in DOMAIN rsp /\ rsp[id] = acked[id]

-----------------------------------------------------------------------------
(* Properties of the services over every sequence of calls and restarts.      *)

\* A machine is frozen exactly while forks of it are alive, and a client that follows the slot events
\* sees each slot as it is (the events of a run show the slot as it starts and ends).
LastEvent(st, id) ==
    Last(SelectSeq(st.events, LAMBDA e : e[1] = id))[2]
SlotsAsWatched ==
    LET st == services.worker
    IN  \A id \in 1 .. st.next - 1 :
            /\ LastEvent(st, id) = IF id \in DOMAIN st.slots THEN st.slots[id].kind ELSE "Empty"
            /\ id \in DOMAIN st.slots =>
                   (st.slots[id].kind = "Frozen" <=> LiveChildren(st, id) # {})

\* Two machines with the same snapshot reference have the same future, although the reference does not
\* cover the pending inputs: the inputs of later frames are those its log implies, and whatever of the
\* current frame is still to be played (an input given as an instruction count or a time counts for
\* the frame it falls into, so it may be due at once), the machines, live or restored, show the same
\* guest in every frame to come.  Only a clock that has overflowed and fallen behind the frames ends this.
ImpliedPending(ref) ==
    LET all == [i \in DOMAIN ref.log |-> [frame |-> EventFrame(ref.log[i]), order |-> i - 1,
                                          action |-> EventToAction(ref.log[i].buttons)]]
    IN  SortSeq(SelectSeq(all, LAMBDA p : p.frame > ref.frame), Earlier)
Shown(slot) == [f \in slot.frame .. MaxFrame |-> PlayDue(slot, f).state]
InStep(ref) == ref.icount >= ref.frame * IcountPerFrame /\ ref.vns >= ref.frame * VnsPerFrame
ReferenceDeterminesFuture ==
    LET st == services.worker
    IN  \A ref \in {r \in DOMAIN st.snapshots : InStep(r)} :
            LET restored == FromSnapshot(ref, st.snapshots[ref], 0)
            IN  /\ SelectSeq(restored.pending, LAMBDA p : p.frame > ref.frame) = ImpliedPending(ref)
                /\ \A id \in DOMAIN st.slots :
                       SnapshotRef(st.slots[id]) = ref => Shown(st.slots[id]) = Shown(restored)

\* The rows form one tree whichever way they are read: the lists of children are the parent pointers,
\* with no child twice, a path leads from the root to its row in as many steps as the row is deep, and a
\* query in order of creation, which resume relies on, shows parents before their children.
RowsFormTree ==
    LET st   == services.store
        rows == QueryNodes(st, [statuses |-> {}, minProgress |-> NoValue, updatedAfter |-> NoValue,
                                order |-> "CreatedAt", limit |-> NoValue])
    IN  /\ \A id \in DOMAIN st.nodes :
               /\ IsInjective(GetChildren(st, id))
               /\ Range(GetChildren(st, id)) = {c \in DOMAIN st.nodes : st.nodes[c].parent = id}
               /\ Head(GetPath(st, id)) = 0 /\ Len(GetPath(st, id)) = st.nodes[id].depth + 1
        /\ \A i \in DOMAIN rows : rows[i].parent = NoValue \/ \E j \in 1 .. i - 1 : rows[j].id = rows[i].parent

\* A batch the scorer would answer from its cache is one whose states are in the archive, also after a
\* restore: a retried batch is never answered as inserted and then missing.  And no hash is counted
\* twice, however often it is scored, replayed or restored.
CacheMatchesArchive ==
    services.scorer.archive # Absent =>
        LET archive == services.scorer.archive
        IN  /\ \A b \in DOMAIN archive.cache : \A i \in DOMAIN archive.cache[b].results :
                   archive.cache[b].results[i].error = "none"
                       => archive.cache[b].results[i].state \in archive.seen
            /\ \A c \in DOMAIN archive.cells : c \in archive.seen /\ archive.cells[c] = 1
=============================================================================
