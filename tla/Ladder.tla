--------------------------------- MODULE Ladder ---------------------------------
(* The stall detector and the escalation ladder (orch-core/plateau.rs).  A      *)
(* detector is [observations, best, since, windows], a ladder [level, version], *)
(* and knobs are the record [window, epsilon, maxLevel, burstLen, temp,         *)
(* macroHot, kappa, quantile, radius] of plateau configuration, in thousandths. *)
EXTENDS Integers

NoScore == -1

TopLevel == 4

NewStall == [observations |-> 0, best |-> NoScore, since |-> 0, windows |-> 0]
NewLadder == [level |-> 0, version |-> 0]

Improves(stall, knobs, score) == stall.best = NoScore \/ score > stall.best + knobs.epsilon

\* StallDetector::observe, the counters.
ObserveStall(stall, knobs, score) ==
    LET since == stall.since + 1 IN
    IF Improves(stall, knobs, score)
    THEN [observations |-> stall.observations + 1, best |-> score, since |-> 0, windows |-> 0]
    ELSE [observations |-> stall.observations + 1, best |-> stall.best, since |-> since,
          windows |-> IF knobs.window = 0 THEN 0 ELSE since \div knobs.window]

\* completed_new_window of the observation that led to `stall`.
CompletedWindow(stall, knobs) ==
    knobs.window > 0 /\ stall.since > 0 /\ stall.since % knobs.window = 0

\* set_level after set_completed_stall_windows: levels only rise, up to the cap, and every arrival at
\* the top is a new version of the feature map.
SetLevel(ladder, knobs, windows) ==
    LET capped == IF windows < knobs.maxLevel THEN windows ELSE knobs.maxLevel
        next   == IF capped > ladder.level THEN capped ELSE ladder.level
    IN  [level |-> next,
         version |-> ladder.version + IF ladder.level < TopLevel /\ next >= TopLevel THEN 1 ELSE 0]

\* apply_stall_observation: an improvement drops to level 0 and keeps the version.
ApplyObservation(ladder, knobs, improved, stall) ==
    CASE improved                                     -> [ladder EXCEPT !.level = 0]
      [] ~improved /\ CompletedWindow(stall, knobs)   -> SetLevel(ladder, knobs, stall.windows)
      [] OTHER                                        -> ladder

\* One observation of both: plateau is [stall, ladder].
ObservePlateau(plateau, knobs, score) ==
    LET stall == ObserveStall(plateau.stall, knobs, score) IN
    [stall |-> stall,
     ladder |-> ApplyObservation(plateau.ladder, knobs,
                                 Improves(plateau.stall, knobs, score), stall)]

NewPlateau == [stall |-> NewStall, ladder |-> NewLadder]

NoOverride == -1

\* EscalationLadder::snapshot: each level adds its measure to those below.
Snapshot(ladder, knobs) ==
    [level    |-> ladder.level,
     burstLen |-> IF ladder.level >= 1 THEN knobs.burstLen ELSE 1000,
     temp     |-> IF ladder.level >= 2 THEN knobs.temp ELSE 1000,
     macroHot |-> IF ladder.level >= 3 THEN knobs.macroHot ELSE NoOverride,
     kappa    |-> IF ladder.level >= 3 THEN knobs.kappa ELSE NoOverride,
     quantile |-> knobs.quantile]

\* What a checkpoint keeps of a plateau, and what resume makes of it: restore of detector and ladder.
PlateauCheckpoint(plateau) ==
    [best |-> plateau.stall.best, observations |-> plateau.stall.observations,
     since |-> plateau.stall.since, windows |-> plateau.stall.windows,
     level |-> plateau.ladder.level, version |-> plateau.ladder.version]

RestorePlateauFresh(saved) ==
    [stall |-> [NewStall EXCEPT !.best = saved.best, !.observations = saved.observations],
     ladder |-> [level |-> saved.level, version |-> saved.version]]

RestorePlateau(saved) ==
    [stall |-> [observations |-> saved.observations, best |-> saved.best,
                since |-> saved.since, windows |-> saved.windows],
     ladder |-> [level |-> IF saved.level < TopLevel THEN saved.level ELSE TopLevel,
                 version |-> saved.version]]
=============================================================================
