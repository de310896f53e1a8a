--------------------------- MODULE MCSimulatedWorld ---------------------------
(* Workloads for SimulatedWorld.  Each drives one service, or two at a time,   *)
(* so that the state space is a sum and every service gets far.                *)
EXTENDS SimulatedWorld

\* The states a player can reach in as many steps as the longest way to a goal needs.
Reachable(w) ==
    FoldLeft(LAMBDA seen, i : seen \cup {Step(w, s, a) : s \in seen, a \in GridActions},
             {InitialState(w)}, [i \in 1 .. 32 |-> i])

\* The two worlds of the tests: the goal can be reached, its room is not entered without the key, and the
\* bytes of a capture are the state.
ASSUME WorldsAreSolvable ==
    \A w \in {ThreeRoom, CorridorHiddenKey} :
        /\ \E s \in Reachable(w) : GoalReached(w, s)
        /\ \A s \in Reachable(w) :
              /\ s.room = "Boss" => HasKey(s)
              /\ DecodeError(EncodeGrid(s)) = "none" /\ DecodeGrid(EncodeGrid(s)) = s

MCWorkloads ==
    [slots   |-> [ops |-> 5, crashes |-> 1],
     guest   |-> [ops |-> 5, crashes |-> 1],
     store   |-> [ops |-> 4, crashes |-> 1],
     archive |-> [ops |-> 5, crashes |-> 1],
     synth   |-> [ops |-> 3, crashes |-> 1],
     both    |-> [ops |-> 3, crashes |-> 2]]

Leases(st) == {Lease(id, st.slots[id].token) : id \in DOMAIN st.slots}
Stale == Lease(1, 9)
Budget(kind, n) == [kind |-> kind, n |-> n]
RunFor(lease, until, cap, capture) ==
    [op |-> "run", lease |-> lease, until |-> until, cap |-> cap, capture |-> capture]
WholeGrid == <<[region |-> "grid", version |-> 1, offset |-> 0, len |-> 5]>>
PastGrid == <<[region |-> "grid", version |-> 1, offset |-> 3, len |-> 3]>>

SlotRequests(st) ==
    {[op |-> "create_vm", seed |-> 1]}
    \cup {[op |-> "fork", lease |-> l, count |-> Len(seeds), seeds |-> seeds] :
             l \in Leases(st), seeds \in {<<1>>, <<1, 2>>}}
    \cup {[op |-> "destroy_vm", lease |-> l] : l \in Leases(st) \cup {Stale}}

Press(by, at, buttons) == [by |-> by, at |-> at, buttons |-> buttons]
\* An input one instruction or nanosecond ahead: it falls into the frame the guest is in.
Soon(st, lease, by, buttons) ==
    LET slot == st.slots[lease.slot]
    IN  Press(by, 1 + (IF by = "Icount" THEN slot.icount ELSE slot.vns), buttons)
GuestRequests(st) ==
    (IF st.next = 1 THEN {[op |-> "create_vm", seed |-> 1]} ELSE {})
    \cup {[op |-> "inject_inputs", lease |-> l,
           events |-> <<Press("Frame", 2, {"Down"}), Press("Frame", 1, {"Right", "Attack"})>>] : l \in Leases(st)}
    \cup {[op |-> "inject_inputs", lease |-> l, events |-> <<Soon(st, l, b[1], b[2])>>] :
             l \in {m \in Leases(st) : Max({st.slots[m.slot].icount, st.slots[m.slot].vns}) < MaxClock},
             b \in {<<"Icount", {"Left"}>>, <<"Icount", {"Right"}>>, <<"Vns", {"Right"}>>}}
    \cup {RunFor(l, Budget("FrameBudget", 1), None, PastGrid) : l \in Leases(st)}
    \cup {RunFor(l, u[1], u[2], WholeGrid) :
             l \in Leases(st),
             u \in {<<Budget("FrameBudget", 1), None>>, <<Budget("FrameBudget", 3), None>>,
                    <<Budget("FrameBudget", 2), 3>>, <<Budget("FrameBudget", 1), 1>>,
                    <<Budget("IcountBudget", 3), None>>, <<Budget("Goal", 0), None>>}}
    \cup (IF st.snapshots = <<>>
          THEN {[op |-> "take_snapshot", lease |-> l, seal |-> TRUE, capture |-> None] : l \in Leases(st)}
          ELSE {[op |-> "restore_snapshot", snapshot |-> ref, seed |-> 2] : ref \in DOMAIN st.snapshots})

NewNode(id, parent, logId, container) ==
    [op |-> "create_node", id |-> id, parent |-> parent, snapshot |-> "snap", logId |-> logId,
     container |-> container, status |-> "frontier", progress |-> id]
Update(id, status, visits) ==
    [id |-> id, status |-> status, progress |-> NoValue, visits |-> visits, expands |-> 0, touch |-> TRUE]
StoreRequests(st) ==
    (IF st.nodes = <<>> THEN {NewNode(0, NoValue, NoValue, NoValue), NewNode(1, 0, "log", NoValue)}
     ELSE {NewNode(1, 0, "log", NoValue), NewNode(2, 1, "log", NoValue)}
          \cup {NewNode(2, 0, NoValue, [body |-> "log", intact |-> i]) : i \in BOOLEAN}
          \cup {[op |-> "update_nodes", updates |-> u] :
                   u \in {<<Update(0, NoValue, 1), Update(1, "expanded", 2)>>, <<Update(1, "frontier", 1)>>}}
          \cup {[op |-> "prune_subtree", id |-> 1, allowRoot |-> FALSE]})
    \cup (IF st.clock > 1 THEN {}
          ELSE {[op |-> "put_metadata", key |-> "k", value |-> 1, expect |-> e, generation |-> 1] :
                   e \in {"create_only", "generation"}}
               \cup {[op |-> "delete_metadata", key |-> "k", expect |-> "generation", generation |-> 1]})

Seen(x) == [ref |-> x, bytes |-> <<0, x, 2, 0, 3>>, fb |-> Absent, meta |-> Absent]
Broken == [ref |-> 7, bytes |-> <<0, 9, 2, 0, 3>>, fb |-> Absent, meta |-> Absent]
LoadMap(m) ==
    [op |-> "load_feature_map", map |-> m, layout |-> <<5>>, frame |-> Absent, rebin |-> m = "n"]
ArchiveRequests(st) ==
    CASE LoadedError(st) = "not_found" -> {LoadMap("m"), [op |-> "load_scoring_program", program |-> "p"]}
      [] LoadedError(st) = "failed_precondition" ->
            {LoadMap("m"), [op |-> "load_scoring_program", program |-> "p"], [op |-> "checkpoint_archive", id |-> 1]}
      [] OTHER ->
            {[op |-> "score_batch", batch |-> b, insert |-> TRUE, states |-> <<Seen(b), Seen(1), Broken>>] :
                b \in {1, 2}}
            \cup {LoadMap("n"), [op |-> "checkpoint_archive", id |-> 1],
                  [op |-> "replay_commits", states |-> <<DecodeGrid(Seen(2).bytes)>>]}
            \cup {[op |-> "restore_archive", id |-> key[1], ref |-> key[2]] : key \in DOMAIN st.checkpoints}

NoNode == [parentBurst |-> Unset, siblings |-> <<>>]
Mix(set) == [form |-> "mix", set |-> set]
SynthRequests(st) ==
    {[op |-> "load_macro_pack", kind |-> "ExperimentConfig",
      doc |-> [id |-> "e", model |-> "pad", mix |-> mix]] :
        mix \in {[form |-> "no_mix"], Mix([macro |-> 1000, weighted_random |-> 0])}}
    \cup {[op |-> "load_macro_pack", kind |-> "MacroPack", doc |-> [id |-> 1, macros |-> m]] :
             m \in {<<>>, <<"jab", "dash">>}}
    \cup {[op |-> "propose_bursts", experiment |-> "e", k |-> 2, seed |-> 1, model |-> "pad",
           overrides |-> o, node |-> NoNode, frames |-> 30] : o \in {[form |-> "empty"], Mix([policy |-> 2])}}
    \cup {[op |-> "mine_macros", paths |-> <<<<Pad(<<Segment({}, 1)>>)>>>>]}

MCRequests(load, s, st) ==
    CASE s = "worker" /\ load = "slots"   -> SlotRequests(st.worker)
      [] s = "worker" /\ load = "guest"   -> GuestRequests(st.worker)
      [] s = "store"  /\ load = "store"   -> StoreRequests(st.store)
      [] s = "scorer" /\ load = "archive" -> ArchiveRequests(st.scorer)
      [] s = "synth"  /\ load = "synth"   -> SynthRequests(st.synth)
      [] s = "worker" /\ load = "both"    ->
            {[op |-> "create_vm", seed |-> 1]} \cup {[op |-> "destroy_vm", lease |-> Lease(1, 1)]}
      [] s = "store"  /\ load = "both"    ->
            {NewNode(0, NoValue, NoValue, NoValue), NewNode(1, 0, "log", NoValue)}
      [] OTHER -> {}

MCDraws == [p \in {1} \X {0, 1} |-> IF p[2] = 0 THEN <<1, 3, 2>> ELSE <<3, 0, 2, 1>>]
=============================================================================
