---------------------------- MODULE EscalatedSearch ----------------------------
(* One experiment from its configuration to its end (orch-server/experiment.rs,    *)
(* config.rs, bringup.rs, orch-checkpoint): start, bring-up, selection by a policy *)
(* under the escalation ladder, proposals from the synthesizer, commits, re-bins   *)
(* of the feature map and checkpoints, by one or two orchestrator processes that   *)
(* crash, restart, stand down or take over.  The components are those of the       *)
(* modules below; ExperimentRunner has the runner's control flow in full (several  *)
(* batches in flight, controls, goals), ReplayedSearch the commit rules in full    *)
(* (several children, regressions, prunes).  Here a batch has one child, captured  *)
(* states do not regress, and a batch is named by its burst.                       *)
(* The scorer is abstracted to the layout it was loaded with and the hashes it has *)
(* committed: in this system it scores without inserting, so its sequence number   *)
(* never moves, and a re-bin names the same artifact.                              *)
EXTENDS CommitRules, Ladder, Policies, FeatureMaps, LaunchConfig, SynthClient, Faults

CONSTANTS
    Hosts,         \* orchestrator processes
    Workloads,     \* what a behaviour may be about, by name: see the assumption
    StageOfState,  \* the stage the scoring program gives each state
    SelectDraws,   \* batch number -> the draws of its selection stream
    FaultDraws,    \* the draws of the fault plan that are tried
    MaxVersion,    \* bound: re-bins
    Nothing        \* no checkpoint, no state, no intent, no layout

\* A caller may send the configuration as it was written or with every field spelled out; the effective
\* configuration and its hash.
Forms == {"sparse", "explicit"}
Wire(w, form) == IF form = "sparse" THEN w.wire ELSE ToWire(EffectiveConfig(w.wire))
Configs == [name \in DOMAIN Workloads |-> [form \in Forms |-> EffectiveConfig(Wire(Workloads[name], form))]]

\* What bring_up makes of coarsened_map for a version: whether it succeeds, and the compiled map.
BringUp(w, cfg, version) ==
    LET factor == [num |-> cfg.radius, den |-> 1000]
        map    == CoarsenedMap(w.map, factor, version)
        ok     == CoarseningOk(w.map, w.layouts, factor, version) /\ Compiles(map, w.layouts)
    IN  [ok |-> ok, compiled |-> IF ok THEN Compile(map, w.layouts) ELSE Nothing]
BringUps ==
    [name \in DOMAIN Workloads |-> [form \in Forms |-> [version \in 0 .. MaxVersion |->
        BringUp(Workloads[name], Configs[name][form], version)]]]

\* A workload: the wire configuration, the documents, the region layouts, the features to decode, the pack
\* another experiment loads, the processes, the fault plan, the states bursts lead to, and bounds on
\* crashes, starts, lost acknowledgements, faults and loads.
ASSUME WorkloadAssumption ==
    \A w \in Range(Workloads) :
        /\ Accepts(w.wire) /\ w.hosts \subseteq Hosts
        /\ LET cfg == EffectiveConfig(w.wire) IN
              /\ cfg.epsilon = Epsilon /\ cfg.maxVisits = MaxVisits /\ cfg.exhaustAfter = ExhaustAfter
              /\ cfg.k = 1 /\ cfg.maxInflight = 1 /\ cfg.maxExpansions > 0
        /\ Compiles(w.map, w.layouts)
        /\ DOMAIN w.left = {"crashes", "starts", "acks", "faults", "loads"}

VARIABLES
    workload,
    rows,        \* durable node rows: parent, hash, by, status, burst
    wal,         \* durable log: batch number -> intent
    ckpt,        \* durable checkpoint with its generation
    scorer,      \* layout, seen
    synth,       \* the synthesizer (FakeSynth)
    calls,       \* calls of propose_bursts so far; only the second one is special
    host,        \* the processes
    guest,       \* what a burst does to a state: decided once, jobs are pure
    left,        \* what is left of the bounds
    scores,      \* history: the score each batch observed when it was first committed
    intents,     \* history: the first intent built for each batch number
    dispatched,  \* history: the first intent and burst dispatched for each batch number
    diverged     \* history: a batch was dispatched again with another burst

durable == <<rows, wal, ckpt>>
services == <<scorer, synth, calls>>
history == <<scores, intents, dispatched, diverged>>
vars == <<workload, durable, services, host, guest, left, history>>

Experiment == "e"
Load == Workloads[workload]
Config(p) == Configs[workload][p.form]
Cfg(h) == Config(host[h])
Compiled(h, version) == BringUps[workload][host[h].form][version].compiled

\* A process that is not running.
Off == [pc |-> "off", read |-> Nothing, form |-> Nothing, version |-> 0, captureVersion |-> 0, decoded |-> <<>>,
        st |-> Nothing, plateau |-> NewPlateau, registry |-> <<>>, pinned |-> Unset,
        gen |-> 0, seq |-> 1, floor |-> 1, queue |-> <<>>, expansions |-> 0, since |-> 0,
        tries |-> 0, intent |-> Nothing, replay |-> FALSE, burst |-> Nothing, kid |-> Nothing,
        duplicate |-> FALSE, score |-> 0, archive |-> {}, after |-> "idle"]

Init ==
    /\ workload \in DOMAIN Workloads
    /\ rows = <<>> /\ wal = <<>> /\ ckpt = Nothing
    /\ scorer = [layout |-> Nothing, seen |-> {}] /\ synth = NewSynth /\ calls = 0
    /\ host = [h \in Hosts |-> Off]
    /\ guest = <<>> /\ left = Load.left
    /\ scores = <<>> /\ intents = <<>> /\ dispatched = <<>> /\ diverged = FALSE

At(h, pc) == host[h].pc = pc
Goes(h, changes) == host' = [host EXCEPT ![h] = changes @@ @]

\* An error ends the run with one more checkpoint; before the run it ends the start.
Failing(h) ==
    IF host[h].gen = 0 THEN [pc |-> "failed"] ELSE [pc |-> "archive", after |-> "failed"]
Spend(what) == left[what] > 0 /\ left' = [left EXCEPT ![what] = @ - 1]
-----------------------------------------------------------------------------
(* Start.                                                                    *)

\* start_with_metrics reads and checks the checkpoint.  (An experiment that has failed is not started
\* again here.)
Starts(h) ==
    /\ h \in Load.hosts /\ host[h].pc \in {"off", "stood_down"} /\ Spend("starts")
    /\ \A g \in Hosts : host[g].pc \notin {"failed", "over"}
    /\ \E form \in Forms :
          LET refused == ckpt # Nothing /\ ckpt.hash # ConfigHash(Configs[workload][form])
          IN  host' = [host EXCEPT ![h] = [Off EXCEPT !.form = form, !.read = ckpt,
                                                      !.pc = IF refused THEN "refused" ELSE "scorer"]]
    /\ UNCHANGED <<workload, durable, services, guest, history>>

\* The version bring_up is called for: the checkpoint's, or the ladder's in maybe_rebin.
Target(h) ==
    IF host[h].st # Nothing THEN host[h].plateau.ladder.version
    ELSE IF host[h].read = Nothing THEN 0 ELSE host[h].read.version

\* bring_up: compile, load_feature_map, load_scoring_program.
LoadsScorer(h) ==
    /\ At(h, "scorer")
    /\ IF BringUps[workload][host[h].form][Target(h)].ok
       THEN /\ scorer' = [scorer EXCEPT !.layout = Compiled(h, Target(h)).layout]
            /\ Goes(h, [pc |-> "synth"])
       ELSE UNCHANGED scorer /\ Goes(h, Failing(h))
    /\ UNCHANGED <<workload, durable, synth, calls, guest, left, history>>

ResetForRebin(st) == [st EXCEPT !.mirror = [c \in Cells |-> 0]]

\* bring_up: the synthesizer.  What is captured and decoded is settled once, at the start; a re-bin empties
\* the mirror.
LoadsSynth(h) ==
    /\ At(h, "synth")
    /\ LET up == SynthBringup(synth, Experiment, Load.sources)
           compiled == Compiled(h, Target(h))
       IN
       /\ synth' = up.st
       /\ Goes(h, IF IsError(up.rsp) THEN Failing(h)
                  ELSE IF host[h].st # Nothing
                  THEN [pc |-> "cadence", version |-> Target(h), st |-> ResetForRebin(host[h].st)]
                  ELSE IF ~DecodedOk(Load.wanted, compiled) THEN Failing(h)
                  ELSE [pc |-> IF host[h].read = Nothing THEN "boot" ELSE "resume",
                        version |-> Target(h), captureVersion |-> Target(h),
                        decoded |-> MaterializeDecoded(Load.wanted, compiled)])
    /\ UNCHANGED <<workload, durable, scorer, calls, guest, left, history>>

RootRow == [parent |-> 0, hash |-> RootState, by |-> <<0, 0>>, status |-> "frontier", burst |-> Unset]

\* bootstrap_fresh, up to its checkpoint.
Boots(h) ==
    /\ At(h, "boot")
    /\ rows' = IF rows = <<>> THEN <<RootRow>> ELSE rows
    /\ scorer' = [scorer EXCEPT !.seen = @ \cup {RootState}]
    /\ Goes(h, [pc |-> "archive", st |-> FromRoot,
                plateau |-> ObservePlateau(NewPlateau, Cfg(h), ScoreOf[RootState])])
    /\ UNCHANGED <<workload, wal, ckpt, synth, calls, guest, left, history>>

\* load_wal_entries: the log below the checkpoint that an interrupted truncation left, downward to the
\* first gap, and the window above, up to a gap that is too wide.
Leftovers(seq) == {n \in DOMAIN wal : n < seq /\ \A m \in n .. seq - 1 : m \in DOMAIN wal}
Window(seq, inflight) ==
    {n \in DOMAIN wal : n >= seq /\ \A m \in seq .. n : \E i \in m .. m + inflight + 1 : i \in DOMAIN wal}
Without(log, seqs) == [n \in DOMAIN log \ seqs |-> log[n]]

\* resume: the log and the rows.
Rebuilds(h) ==
    /\ At(h, "resume")
    /\ LET read  == host[h].read
           queue == SetToSortSeq(Window(read.seq, Cfg(h).maxInflight), <)
       IN  /\ wal' = Without(wal, Leftovers(read.seq))
           /\ Goes(h, [pc |-> "restore", gen |-> read.gen, st |-> Rebuilt(rows, read.st),
                       archive |-> read.archive \cup PostCheckpoint(rows, read.st),
                       queue |-> [i \in DOMAIN queue |-> wal[queue[i]]],
                       seq |-> IF queue = <<>> THEN read.seq ELSE Last(queue) + 1,
                       floor |-> IF queue = <<>> THEN read.seq ELSE Head(queue)])
    /\ UNCHANGED <<workload, rows, ckpt, services, guest, left, history>>

\* resume: the scorer's archive, with the states committed since the checkpoint, and the rest.
RestoresArchive(h) ==
    /\ At(h, "restore")
    /\ LET read == host[h].read IN
       /\ scorer' = [scorer EXCEPT !.seen = host[h].archive]
       /\ Goes(h, [pc |-> "idle", read |-> Nothing, archive |-> {}, pinned |-> read.fingerprint,
                   expansions |-> read.expansions, plateau |-> RestorePlateau(read.plateau)])
    /\ UNCHANGED <<workload, durable, synth, calls, guest, left, history>>
-----------------------------------------------------------------------------
(* Selection.                                                                *)

DepthOf(st) ==
    LET depth[id \in DOMAIN st.tree] ==
            IF st.tree[id].parent = 0 THEN 0 ELSE depth[st.tree[id].parent] + 1
    IN  depth

\* The candidates as the policies see them.
CandidateNodes(st) ==
    LET ids == SetToSortSeq(Candidates(st), <)
    IN  [i \in DOMAIN ids |->
            [id |-> ids[i], score |-> ScoreOf[st.tree[ids[i]].hash],
             count |-> st.mirror[CellOf[st.tree[ids[i]].hash]], visits |-> st.tree[ids[i]].visits,
             depth |-> DepthOf(st)[ids[i]], stage |-> StageOfState[st.tree[ids[i]].hash]]]
TargetStage(st) == Max({StageOfState[st.tree[id].hash] : id \in DOMAIN st.tree})

\* The knobs of the ladder in the selection and in the request.
Heated(cfg, snap) == [cfg EXCEPT !.temperature = (@ * snap.temp) \div 1000]
LengthHint(cfg, snap) == Max({Min({(cfg.baseLen * snap.burstLen) \div 1000, Max({cfg.maxLen, 1})}), 1})
OverridesOf(snap) ==
    IF snap.macroHot = NoOverride THEN [form |-> "empty", set |-> <<>>]
    ELSE [form |-> "mix", set |-> [macro |-> snap.macroHot]]

\* build_intent; the selection stream is derived from the batch number.
BuildIntent(p) ==
    LET snap == Snapshot(p.plateau.ladder, Config(p))
    IN  [seq |-> p.seq,
         node |-> SelectNode(CandidateNodes(p.st), TargetStage(p.st), Heated(Config(p), snap),
                             snap.kappa, snap.quantile, p.expansions, SelectDraws[p.seq]),
         k |-> Config(p).k, frames |-> LengthHint(Config(p), snap), overrides |-> OverridesOf(snap)]

\* run_phases: the next surviving intent.
PopsIntent(h) ==
    /\ At(h, "idle") /\ host[h].queue # <<>>
    /\ Goes(h, [pc |-> "propose", replay |-> TRUE, tries |-> 0,
                intent |-> Head(host[h].queue), queue |-> Tail(host[h].queue)])
    /\ UNCHANGED <<workload, durable, services, guest, left, history>>

\* run_loop: budget_exhausted, an empty frontier, or a new intent.
Exhausted(p) == p.expansions >= Config(p).maxExpansions \/ Candidates(p.st) = {}
Ends(h) ==
    /\ At(h, "idle") /\ host[h].queue = <<>> /\ Exhausted(host[h])
    /\ Goes(h, [pc |-> "archive", after |-> "over"])
    /\ UNCHANGED <<workload, durable, services, guest, left, history>>

First(record, seq, value) == IF seq \in DOMAIN record THEN record ELSE (seq :> value) @@ record

BuildsIntent(h) ==
    /\ At(h, "idle") /\ host[h].queue = <<>> /\ ~Exhausted(host[h])
    /\ LET intent == BuildIntent(host[h]) IN
       /\ Goes(h, [pc |-> "propose", replay |-> FALSE, tries |-> 0, intent |-> intent])
       /\ intents' = First(intents, intent.seq, intent)
    /\ UNCHANGED <<workload, durable, services, guest, left, scores, dispatched, diverged>>
-----------------------------------------------------------------------------
(* A batch.                                                                  *)

Request(h) == ProposeRequest(rows, Experiment, Cfg(h).seed, host[h].intent)
Retryable(kind) == kind \in {"unavailable", "internal", "data_loss", "resource_exhausted"}

\* guarded_propose of dispatch_intent and dispatch_replay, one attempt of it.
Proposes(h) ==
    /\ At(h, "propose")
    /\ \E draws \in FaultDraws :
       LET p        == host[h]
           decision == Decide(Load.plan, "synth", "propose_bursts", 1, calls, draws)
           faulty   == decision.error # "none" \/ decision.flip
           request  == Request(h)
           response == ProposeBursts(synth, request, decision).rsp
           burst    == response.bursts[1]
       IN  /\ IF faulty THEN Spend("faults") ELSE UNCHANGED left
           /\ calls' = Min({calls + 1, 2})
           /\ IF IsError(response)
              THEN /\ Goes(h, IF Retryable(response.error) /\ p.tries < Config(p).retryMax
                              THEN [tries |-> p.tries + 1] ELSE Failing(h))
                   /\ UNCHANGED <<dispatched, diverged>>
              ELSE IF ~ResponseOk(request, response)
                      \/ ~GuardPasses(p.registry, p.pinned, request, response)
              THEN Goes(h, Failing(h)) /\ UNCHANGED <<dispatched, diverged>>
              ELSE /\ Goes(h, [pc |-> IF p.replay THEN "run" ELSE "wal", burst |-> burst, tries |-> 0,
                               registry |-> Inserted(p.registry, Profile(request), response.fingerprint),
                               pinned |-> PinnedAfter(p.pinned, request, response)])
                   /\ dispatched' = First(dispatched, p.intent.seq, [intent |-> p.intent, burst |-> burst])
                   /\ diverged' = (diverged \/ dispatched'[p.intent.seq].burst.id # burst.id)
    /\ UNCHANGED <<workload, durable, scorer, synth, guest, scores, intents>>

\* dispatch_intent: log, then submit.
Logs(h) ==
    /\ At(h, "wal")
    /\ LET intent == host[h].intent IN
       /\ wal' = (intent.seq :> intent) @@ wal
       /\ Goes(h, [pc |-> "run", seq |-> Max({host[h].seq, intent.seq + 1})])
    /\ UNCHANGED <<workload, rows, ckpt, services, guest, left, history>>

\* The job runs on the guest and its capture is scored.
Executes(h) ==
    /\ At(h, "run")
    /\ LET p   == host[h]
           key == <<p.st.tree[p.intent.node].hash, p.burst.body>>
           outcomes == IF key \in DOMAIN guest THEN {guest[key]}
                       ELSE {s \in Load.outcomes : ScoreOf[s] >= ScoreOf[key[1]]}
       IN  \E kid \in outcomes :
              /\ guest' = (key :> kid) @@ guest
              /\ Goes(h, [pc |-> "owner", kid |-> kid, duplicate |-> kid \in scorer.seen])
    /\ UNCHANGED <<workload, durable, services, left, history>>

\* ensure_checkpoint_owner
ChecksOwner(h) ==
    /\ At(h, "owner")
    /\ Goes(h, [pc |-> IF ckpt.gen = host[h].gen THEN "row" ELSE "stood_down"])
    /\ UNCHANGED <<workload, durable, services, guest, left, history>>

BatchOf(p) == [seq |-> p.burst.id, parent |-> p.intent.node, kids |-> <<p.kid>>]
WorkOf(p) ==
    IF p.replay THEN ReplayWork(p.st, BatchOf(p))
    ELSE CommitWork(p.st, BatchOf(p), IF p.duplicate THEN {p.kid} ELSE {})

RowOf(node, burst) ==
    [parent |-> node.parent, hash |-> node.hash, by |-> node.by, status |-> node.status, burst |-> burst]

\* commit_completed or commit_replayed: the rules, then create_child_node for a new node.  A row that is
\* already there stays as it is, also one of another process: create_child_node takes AlreadyExists for
\* success.
CommitsRow(h) ==
    /\ At(h, "row")
    /\ LET p    == host[h]
           work == WorkOf(p)
           id   == Len(work.st.tree)
           row  == RowOf(work.st.tree[id], p.burst)
           new  == id > Len(p.st.tree)
           done == [pc |-> "finish", st |-> FinishBatch(work, p.intent.node),
                    score |-> ObservedScore(work, p.intent.node)]
       IN  /\ rows' = IF new /\ id = Len(rows) + 1 THEN Append(rows, row) ELSE rows
           /\ Goes(h, done)
    /\ UNCHANGED <<workload, wal, ckpt, services, guest, left, history>>

\* The parent's row, replay_commits, the observation and the ladder.
FinishesBatch(h) ==
    /\ At(h, "finish")
    /\ LET p       == host[h]
           node    == p.intent.node
           own     == {id \in DOMAIN p.st.tree \ {1} : p.st.tree[id].by[1] = p.burst.id}
           plateau == ObservePlateau(p.plateau, Config(p), p.score)
       IN  /\ rows' = [rows EXCEPT ![node].status = p.st.tree[node].status]
           /\ scorer' = [scorer EXCEPT !.seen = @ \cup {p.st.tree[id].hash : id \in own}]
           /\ scores' = IF Len(scores) = p.expansions THEN Append(scores, p.score) ELSE scores
           /\ Goes(h, [pc |-> IF plateau.ladder.version # p.version THEN "scorer" ELSE "cadence",
                       plateau |-> plateau, expansions |-> p.expansions + 1, since |-> p.since + 1,
                       intent |-> Nothing, burst |-> Nothing, kid |-> Nothing, duplicate |-> FALSE,
                       score |-> 0, replay |-> FALSE])
    /\ UNCHANGED <<workload, wal, ckpt, synth, calls, guest, left, intents, dispatched, diverged>>
-----------------------------------------------------------------------------
(* Checkpoints.                                                              *)

\* maybe_checkpoint: so many commits, or so many seconds, which may have passed at any time.
ChecksCadence(h) ==
    /\ At(h, "cadence")
    /\ \/ Goes(h, [pc |-> "archive"])
       \/ host[h].since < Cfg(h).everyCommits /\ Goes(h, [pc |-> "idle"])
    /\ UNCHANGED <<workload, durable, services, guest, left, history>>

\* checkpoint_archive
Archives(h) ==
    /\ At(h, "archive")
    /\ Goes(h, [pc |-> "put", archive |-> scorer.seen, tries |-> 0])
    /\ UNCHANGED <<workload, durable, services, guest, left, history>>

\* effective_checkpoint_seq
EffectiveSeq(p) == IF p.queue = <<>> THEN p.seq ELSE Head(p.queue).seq

\* build_checkpoint
BuildCheckpoint(p) ==
    [gen |-> p.gen + 1, hash |-> ConfigHash(Config(p)), seq |-> EffectiveSeq(p), expansions |-> p.expansions,
     st |-> p.st, archive |-> p.archive, plateau |-> PlateauCheckpoint(p.plateau),
     version |-> p.plateau.ladder.version, fingerprint |-> p.pinned]

Generation == IF ckpt = Nothing THEN 0 ELSE ckpt.gen

CasAlways(p) == TRUE

\* check_metadata_expectation: create-only, or the generation the process knows.
CasHolds(p) == p.gen = Generation

\* The put, whose acknowledgement may be lost: then it is retried as it was.
Puts(h) ==
    /\ At(h, "put")
    /\ LET p == host[h] IN
       \/ /\ CasHolds(p) /\ ckpt' = BuildCheckpoint(p)
          /\ \/ Goes(h, [pc |-> "truncate", gen |-> p.gen + 1, archive |-> {}]) /\ UNCHANGED left
             \/ /\ Spend("acks")
                /\ Goes(h, IF p.tries < Config(p).retryMax THEN [tries |-> p.tries + 1]
                           ELSE IF p.after = "idle" THEN Failing(h) ELSE [pc |-> "failed"])
       \/ /\ ~CasHolds(p)
          /\ Goes(h, [pc |-> IF p.after = "failed" THEN "failed" ELSE "stood_down"])
          /\ UNCHANGED <<ckpt, left>>
    /\ UNCHANGED <<workload, rows, wal, services, guest, history>>

\* Truncation of the log, and the counters.
Truncates(h) ==
    /\ At(h, "truncate")
    /\ LET effective == EffectiveSeq(host[h]) IN
       /\ wal' = Without(wal, host[h].floor .. effective - 1)
       /\ Goes(h, [pc |-> host[h].after, floor |-> effective, since |-> 0])
    /\ UNCHANGED <<workload, rows, ckpt, services, guest, left, history>>
-----------------------------------------------------------------------------
Crashes(h) ==
    /\ host[h].pc \notin {"off", "stood_down", "refused", "failed", "over"} /\ Spend("crashes")
    /\ host' = [host EXCEPT ![h] = Off]
    /\ UNCHANGED <<workload, durable, services, guest, history>>

\* Another experiment brings the same synthesizer up with a pack of its own.
OtherLoads ==
    /\ Spend("loads")
    /\ synth' = LoadMacroPack(synth, [kind |-> "MacroPack", doc |-> Load.otherPack]).st
    /\ UNCHANGED <<workload, durable, scorer, calls, host, guest, history>>

Step(h) ==
    \/ Starts(h) \/ LoadsScorer(h) \/ LoadsSynth(h) \/ Boots(h) \/ Rebuilds(h) \/ RestoresArchive(h)
    \/ PopsIntent(h) \/ Ends(h) \/ BuildsIntent(h)
    \/ Proposes(h) \/ Logs(h) \/ Executes(h) \/ ChecksOwner(h) \/ CommitsRow(h) \/ FinishesBatch(h)
    \/ ChecksCadence(h) \/ Archives(h) \/ Puts(h) \/ Truncates(h) \/ Crashes(h)

Next == OtherLoads \/ \E h \in Hosts : Step(h)

Spec == Init /\ [][Next]_vars
-----------------------------------------------------------------------------
(* Properties.                                                               *)

Up(h) == host[h].st # Nothing
Settled(h) == At(h, "idle") /\ host[h].queue = <<>>
Alone == Cardinality(Load.hosts) = 1

\* The stall detector and the ladder of a process that has replayed its log are those of a search that
\* was never interrupted: every batch was observed once, in order, whatever the crashes, and the map in
\* use is the one of the ladder's version.
LadderExact ==
    ~diverged /\ Alone => \A h \in Hosts : Settled(h) =>
        /\ host[h].plateau =
              FoldLeft(LAMBDA plateau, score : ObservePlateau(plateau, Cfg(h), score),
                       ObservePlateau(NewPlateau, Cfg(h), ScoreOf[RootState]),
                       SubSeq(scores, 1, host[h].expansions))
        /\ host[h].version = host[h].plateau.ladder.version

\* "jobs are pure, so the batch re-executes bit-identically": a batch dispatched again, under the
\* fingerprint it had, has the burst it had, although the request is built from the store as it is now,
\* with siblings that were not there the first time.
ReplayIsIdentical ==
    \A h \in Hosts : host[h].burst # Nothing =>
        LET first == dispatched[host[h].intent.seq] IN
        host[h].intent = first.intent /\ host[h].burst.fingerprint = first.burst.fingerprint
            => host[h].burst.body = first.burst.body

\* "the checkpointed fingerprint pins the base (no-overrides) profile across restarts": once a checkpoint
\* has a fingerprint no later one has another, whatever packs the synthesizer is given meanwhile.
BasePinned ==
    [][ckpt # Nothing /\ ckpt.fingerprint # Unset => ckpt'.fingerprint = ckpt.fingerprint]_vars

\* "one compilation, two consumers": the bytes that the capture made at start-up brings are, at the offset
\* of every field of the map now in use, the bytes of that field, also after a re-bin; the
\* scorer unpacks that layout, and the fields to decode are there.
CaptureFits ==
    \A h \in Hosts : Up(h) =>
        LET capture == Compiled(h, host[h].captureVersion).layout
            fields  == Compiled(h, host[h].version).fields
        IN  /\ ReadTheirBytes(fields, capture)
            /\ scorer.layout = capture
            /\ DecodedOk(host[h].decoded, [fields |-> fields])

\* The effective configuration does not depend on how much of it the caller spells out: a restart with
\* every field explicit has the hash of the checkpoint and is not refused.
RestartAccepted == \A h \in Hosts : ~At(h, "refused")

\* "Single-writer CAS": with two processes, or a put whose acknowledgement was lost and that is repeated,
\* the durable checkpoint never goes back to fewer batches, nor does the log lose an intent that is not
\* covered.
CheckpointNeverBack ==
    [][/\ ckpt # Nothing => /\ ckpt'.seq >= ckpt.seq /\ ckpt'.expansions >= ckpt.expansions
                            /\ ckpt'.version >= ckpt.version
       /\ \A n \in DOMAIN wal \ DOMAIN wal' : n < ckpt.seq]_vars

\* Deterministic selection: until a re-bin, a process that builds the intent of a batch again after a
\* crash selects the node, and sends the length and the mix, of the first time.
IntentsStable ==
    ~diverged /\ Alone => \A h \in Hosts :
        host[h].intent # Nothing /\ host[h].plateau.ladder.version = 0
            => host[h].intent = intents[host[h].intent.seq]

\* Softmax picks candidates in proportion to their weights, for every candidate set a search reaches.
DrawsFair ==
    \A h \in Hosts : Settled(h) /\ Candidates(host[h].st) # {} =>
        LET cfg == Heated(Cfg(h), Snapshot(host[h].plateau.ladder, Cfg(h)))
        IN  DrawsProportional(SoftmaxWeights(
                CandidateSnapshots(CandidateNodes(host[h].st), cfg, NoBacktrack, cfg.quantile),
                cfg.temperature))
=============================================================================
