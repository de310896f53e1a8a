------------------------------ MODULE SynthClient ------------------------------
(* The orchestrator's side of the input synthesizer (orch-driver/input_synth.rs, *)
(* node_attrs.rs and guarded_propose of orch-server/experiment.rs): bring-up,    *)
(* requests built from the rows of the store, and the guard on fingerprints.     *)
(* Sources are [config, packs]: a config document, with the ids of the packs it  *)
(* requires in config.packs, and a sequence of pack documents.  A row is         *)
(* [parent, status, burst, ...], parent 0 and no burst for the root.             *)
EXTENDS FakeSynth

CONSTANTS MaxSiblings   \* max_sibling_bursts
ASSUME ClientAssumption == MaxSiblings \in Nat \ {0}

-----------------------------------------------------------------------------
(* Bring-up.                                                                  *)

IsError(rsp) == "error" \in DOMAIN rsp

\* SynthBringup::run: load everything, then see whether it is there.
SynthBringup(synth, experiment, sources) ==
    LET config   == LoadMacroPack(synth, [kind |-> "ExperimentConfig", doc |-> sources.config])
        loaded   == FoldLeft(LAMBDA st, doc : LoadMacroPack(st, [kind |-> "MacroPack", doc |-> doc]).st,
                             config.st, sources.packs)
        expected == sources.config.packs \cup {sources.packs[i].id : i \in DOMAIN sources.packs}
        health   == Health(loaded)
        healthy  == /\ health.status # "NotServing"
                    /\ expected \subseteq health.packs /\ experiment \in health.experiments
    IN  IF IsError(config.rsp) THEN config
        ELSE IF ~healthy THEN Declines(loaded, "failed_precondition")
        ELSE Answers(loaded, health)

-----------------------------------------------------------------------------
(* Requests.                                                                  *)

ContextStatuses == {"frontier", "expanded", "goal"}

\* build_sibling_bursts: the other children of the parent that count, by id, up to the limit.
SiblingBursts(rows, id) ==
    LET Sibling(n) == /\ n # id /\ rows[n].parent = rows[id].parent
                      /\ rows[n].status \in ContextStatuses /\ rows[n].burst # Unset
        all == SetToSortSeq({n \in DOMAIN rows : Sibling(n)}, <)
    IN  [i \in 1 .. Min({Len(all), MaxSiblings}) |-> rows[all[i]].burst]

\* build_input_synth_node_context
NodeContext(rows, id) ==
    [parentBurst |-> rows[id].burst,
     siblings |-> IF rows[id].parent = 0 THEN <<>> ELSE SiblingBursts(rows, id)]

\* build_propose_bursts_request: the seed is derived from the experiment's and the batch number.
ProposeRequest(rows, experiment, seed, intent) ==
    [experiment |-> experiment, k |-> intent.k, seed |-> <<seed, intent.seq>>, model |-> "pad",
     overrides |-> intent.overrides, node |-> NodeContext(rows, intent.node), frames |-> intent.frames]

\* validate_propose_bursts_response
ResponseOk(request, response) ==
    /\ response.seed = request.seed /\ Len(response.bursts) = request.k
    /\ \A i \in DOMAIN response.bursts : /\ response.bursts[i].fingerprint = response.fingerprint
                                         /\ response.bursts[i].slot = i - 1

-----------------------------------------------------------------------------
(* Fingerprints.  A registry maps profiles to the fingerprint they came with. *)

Profile(request) == <<request.experiment, request.model, request.overrides>>
IsBase(request) == request.overrides.form = "empty"

\* check_or_insert
Mismatch(registry, profile, actual) == profile \in DOMAIN registry /\ registry[profile] # actual
Inserted(registry, profile, actual) == (profile :> actual) @@ registry

UnpinnedGuard(registry, pinned, request, response) ==
    ~Mismatch(registry, Profile(request), response.fingerprint)

\* guarded_propose: the base profile must match what a checkpoint has pinned, every profile what this
\* process has seen before.
GuardPasses(registry, pinned, request, response) ==
    /\ IsBase(request) /\ pinned # Unset => response.fingerprint = pinned
    /\ ~Mismatch(registry, Profile(request), response.fingerprint)
PinnedAfter(pinned, request, response) == IF IsBase(request) THEN response.fingerprint ELSE pinned
=============================================================================
