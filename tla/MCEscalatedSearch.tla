-------------------------- MODULE MCEscalatedSearch --------------------------
(* Worlds and workloads for EscalatedSearch.                                  *)
EXTENDS EscalatedSearch

\* `a` scores as the root does, in the same cell; `b` scores more.
MCStates == {"r", "a", "b"}
MCCell   == [s \in MCStates |-> IF s = "b" THEN "far" ELSE "near"]
MCScore  == [s \in MCStates |-> IF s = "b" THEN 5 ELSE 0]
MCStage  == [s \in MCStates |-> IF s = "b" THEN 1 ELSE 0]

\* Monotone tables in units of 1/8.
MCNovelty(count) == IF count = 0 THEN 8 ELSE IF count = 1 THEN 6 ELSE IF count <= 3 THEN 4 ELSE 3
MCLog(n) == IF n = 0 THEN 0 ELSE IF n = 1 THEN 6 ELSE IF n = 2 THEN 9 ELSE 11
MCSqrtLog(total, visits) == MCLog(total) \div (visits + 1)
MCExp(distance) == IF distance <= 1 THEN 4 ELSE IF distance <= 4 THEN 2 ELSE 1

Batches == 1 .. 8
MCSelectDraws == [q \in Batches |-> IF q % 2 = 0 THEN <<3, 3>> ELSE <<0, 0>>]
MCDraws == [p \in {<<<<7, q>>, 0>> : q \in Batches} |-> IF p[1][2] % 2 = 0 THEN <<2, 3, 1>> ELSE <<1, 0, 3>>]
MCFaultDraws ==
    {[terminal |-> 1, partial |-> 1, length |-> 0, flip |-> 1],
     [terminal |-> 0, partial |-> 1, length |-> 0, flip |-> 1],
     [terminal |-> 1, partial |-> 1, length |-> 0, flip |-> 0]}

Whole == [kind |-> "none"]
Feature(name, offset, type, width, semantics, disc) ==
    [name |-> name, region |-> "wram", offset |-> offset, type |-> type, width |-> width,
     stable |-> name = "room", semantics |-> semantics, disc |-> disc]
MCMap ==
    [schema |-> 1, version |-> 1, name |-> "map", regions |-> <<[name |-> "wram", size |-> 16]>>,
     features |->
        <<Feature("hp", 4, "u8", NoWidth, "generic", [kind |-> "bucket", size |-> 3]),
          Feature("block", 2, "bytes", 6, "generic", Whole),
          Feature("x", 10, "u8", NoWidth, "position_x",
                  [kind |-> "grid", cellW |-> 2, cellH |-> 2, x |-> "x", y |-> "y", room |-> "room"]),
          Feature("y", 11, "u8", NoWidth, "position_y", Whole),
          Feature("room", 14, "u16le", NoWidth, "room_id", Whole)>>]
MCLayouts == [wram |-> [size |-> 16, version |-> 3]]

\* What a caller would send: the fields it cares for, in the messages they need.
Sparse(set) ==
    LET own == [version |-> 1, seed |-> 7, refs |-> 4, k |-> 1, baseLen |-> 2, maxLen |-> 3,
                maxVisits |-> 3, exhaustAfter |-> 2, gamma |-> 1000, window |-> 1, mode |-> "deterministic",
                retryMax |-> 1]
    IN  [present |-> {MessageOf(f) : f \in DOMAIN own \cup DOMAIN set} \ {"top"},
         value |-> [f \in Fields |-> IF f \in DOMAIN set THEN set[f]
                                     ELSE IF f \in DOMAIN own THEN own[f] ELSE ZeroOf(f)]]

MCSources ==
    [config |-> [id |-> Experiment, model |-> "pad", packs |-> {1},
                 mix |-> [form |-> "mix", set |-> [weighted_random |-> 500, mutation |-> 500]]],
     packs |-> <<[id |-> 1, macros |-> <<"jab">>]>>]

Work(set, hosts, plan, outcomes, bounds) ==
    [wire |-> Sparse(set), map |-> MCMap, layouts |-> MCLayouts, sources |-> MCSources,
     wanted |-> IF hosts = {1} THEN <<>> ELSE <<"hp">>,
     otherPack |-> [id |-> 2, macros |-> <<"dash">>], hosts |-> hosts, plan |-> plan,
     outcomes |-> outcomes, left |-> bounds]

\* A stalled search up to the top of the ladder and beyond, with a crash.
LadderLoad ==
    Work([maxExpansions |-> 6, everyCommits |-> 4, policy |-> "staged", epsilonRegress |-> 500],
         {1}, NoFaults, {"a", "b"},
         [crashes |-> 1, starts |-> 2, acks |-> 0, faults |-> 0, loads |-> 0])
\* A synthesizer that fails, answers with another fingerprint, or is given other packs.
PackLoad ==
    Work([maxExpansions |-> 3, everyCommits |-> 3], {1}, [NoFaults EXCEPT !.error = 1, !.flip = 1], MCStates,
         [crashes |-> 1, starts |-> 2, acks |-> 0, faults |-> 1, loads |-> 1])
\* Two processes at a time.
OwnerLoad ==
    Work([maxExpansions |-> 2, everyCommits |-> 2, policy |-> "ucb"], {1, 2},
         [NoFaults EXCEPT !.oneShot = [propose_bursts |-> "internal"]], {"b"},
         [crashes |-> 0, starts |-> 2, acks |-> 0, faults |-> 1, loads |-> 0])
\* A ladder that is switched off, and checkpoints whose acknowledgements are lost.
FlatLoad ==
    Work([maxExpansions |-> 2, everyCommits |-> 1, maxLevel |-> 0], {1}, NoFaults, MCStates,
         [crashes |-> 1, starts |-> 3, acks |-> 2, faults |-> 0, loads |-> 0])

MCWorkloads == [ladder |-> LadderLoad, packs |-> PackLoad, owners |-> OwnerLoad, flat |-> FlatLoad]
=============================================================================
