------------------------------ MODULE LaunchConfig ------------------------------
(* Experiment configurations: the sparse message of the wire, the effective         *)
(* configuration the server makes of it (orch-server/config.rs) and its validation  *)
(* (orch-core/types.rs).  A wire configuration is [present, value]: the submessages *)
(* that are there, and the value of every field, zero or "unspecified" when unset.  *)
(* An effective configuration is the function of values alone.  Real numbers are    *)
(* in thousandths.                                                                  *)
EXTENDS Integers, FiniteSets

CONSTANTS
    MinWindow,        \* the least window_n (10), scaled down
    MaxK              \* the most bursts per expansion (256), scaled down

ASSUME ConfigAssumption == MinWindow \in Nat /\ MaxK \in Nat

Thousand == 1000

Messages == {"budgets", "selection", "staged", "burst", "plateau", "ladder", "scheduling", "checkpoint"}

\* The submessage a field belongs to; fields of the message itself are not listed.
BudgetFields     == {"maxNodes", "maxWallClock", "maxGuestInstructions", "maxExpansions"}
SelectionFields  == {"policy", "alpha", "beta", "gamma", "delta", "temperature", "ucbC",
                     "maxVisits", "exhaustAfter"}
StagedFields     == {"inner", "epsilonRegress"}
BurstFields      == {"k", "baseLen", "maxLen", "guestPerJob"}
PlateauFields    == {"window", "epsilon"}
LadderFields     == {"burstLen", "temp", "macroHot", "kappa", "quantile", "radius", "maxLevel"}
SchedulingFields == {"mode", "maxInflight", "jobTimeout", "retryMax", "retryBackoff", "classMismatch"}
CheckpointFields == {"everyCommits", "everySeconds"}
TopFields        == {"version", "seed", "refs", "pruneAction", "onGoal"}

Enums == {"policy", "inner", "mode", "pruneAction", "onGoal"}

MessageOf(field) ==
    CASE field \in BudgetFields     -> "budgets"
      [] field \in SelectionFields  -> "selection"
      [] field \in StagedFields     -> "staged"
      [] field \in BurstFields      -> "burst"
      [] field \in PlateauFields    -> "plateau"
      [] field \in LadderFields     -> "ladder"
      [] field \in SchedulingFields -> "scheduling"
      [] field \in CheckpointFields -> "checkpoint"
      [] OTHER                      -> "top"

\* The documented defaults, and what an unspecified or unknown enum value stands for.
Defaults ==
    [maxNodes |-> 1000000, maxWallClock |-> 86400, maxGuestInstructions |-> 0, maxExpansions |-> 0,
     policy |-> "softmax", alpha |-> 1000, beta |-> 500, gamma |-> 300, delta |-> 100,
     temperature |-> 1000, ucbC |-> 1400, maxVisits |-> 64, exhaustAfter |-> 8,
     inner |-> "softmax", epsilonRegress |-> 50,
     k |-> 16, baseLen |-> 120, maxLen |-> 600, guestPerJob |-> 0,
     window |-> 200, epsilon |-> 1,
     burstLen |-> 1500, temp |-> 1750, macroHot |-> 500, kappa |-> 1000, quantile |-> 500,
     radius |-> 2000, maxLevel |-> 4,
     mode |-> "fast", maxInflight |-> 2, jobTimeout |-> 120, retryMax |-> 3, retryBackoff |-> 250,
     classMismatch |-> 0,
     everyCommits |-> 64, everySeconds |-> 30,
     version |-> 0, seed |-> 0, refs |-> 0, pruneAction |-> "exhausted", onGoal |-> "stop"]

Fields == DOMAIN Defaults

\* Fields that keep a zero: the budgets and the top level once their message is there, and the others
\* for which zero is a value of its own.
PresenceKeyed == {"maxNodes", "maxWallClock", "maxLevel"}
Verbatim == TopFields \cup {"maxGuestInstructions", "maxExpansions", "guestPerJob", "classMismatch"}

\* An absent submessage reads as zeroes, an absent plateau or selection hides what is nested in it.
IsPresent(wire, message) ==
    CASE message = "top"    -> TRUE
      [] message = "staged" -> {"selection", "staged"} \subseteq wire.present
      [] message = "ladder" -> {"plateau", "ladder"} \subseteq wire.present
      [] OTHER              -> message \in wire.present

ZeroOf(field) == IF field \in Enums THEN "unspecified" ELSE 0
Read(wire, field) ==
    IF IsPresent(wire, MessageOf(field)) THEN wire.value[field] ELSE ZeroOf(field)

\* effective_config, one field: an enum, a field keyed on presence, a verbatim one, or zero-is-default.
EffectiveField(wire, field) ==
    LET read == Read(wire, field) IN
    IF field \in Enums
    THEN IF read \in {"unspecified", "unknown"} THEN Defaults[field] ELSE read
    ELSE CASE field \in PresenceKeyed ->
                IF IsPresent(wire, MessageOf(field)) THEN read ELSE Defaults[field]
           [] field \in Verbatim -> read
           [] OTHER -> IF read = 0 THEN Defaults[field] ELSE read

\* Deterministic scheduling has one batch in flight whatever the message says.
EffectiveConfig(wire) ==
    [field \in Fields |->
        IF field = "maxInflight" /\ EffectiveField(wire, "mode") = "deterministic" THEN 1
        ELSE EffectiveField(wire, field)]

\* An encoding that leaves out a ladder of level zero as if it were unset.
ToWireOmittingZeroLadder(cfg) ==
    [present |-> IF cfg.maxLevel = 0 THEN Messages \ {"ladder"} ELSE Messages, value |-> cfg]

\* to_wire: every submessage and every field.
ToWire(cfg) == [present |-> Messages, value |-> cfg]

\* config_hash hashes the encoding of the effective configuration.
ConfigHash(cfg) == ToWire(cfg)

\* validate_sparse_wire_config: unknown enum values would be lost in the defaults.
SparseOk(wire) == \A field \in Enums : Read(wire, field) # "unknown"

\* validate_all.  `refs` counts the references that are not empty.
ValidConfig(cfg) ==
    /\ cfg.version = 1 /\ cfg.seed # 0 /\ cfg.refs = 4
    /\ cfg.k \in 1 .. MaxK
    /\ cfg.baseLen \in 1 .. cfg.maxLen
    /\ cfg.temperature > 0
    /\ \A weight \in {"alpha", "beta", "gamma", "delta", "ucbC", "macroHot", "kappa"} : cfg[weight] >= 0
    /\ cfg.epsilonRegress \in 0 .. Thousand /\ cfg.quantile \in 0 .. Thousand
    /\ cfg.maxVisits # 0 /\ cfg.exhaustAfter # 0
    /\ ~(cfg.policy = "staged" /\ cfg.inner = "staged")
    /\ cfg.window >= MinWindow /\ cfg.epsilon > 0 /\ cfg.maxLevel <= 4
    /\ IF cfg.mode = "deterministic" THEN cfg.maxInflight = 1 ELSE cfg.maxInflight # 0
    /\ cfg.jobTimeout # 0 /\ cfg.everyCommits # 0 /\ cfg.everySeconds # 0
    /\ \A factor \in {"burstLen", "temp", "radius"} : cfg[factor] >= Thousand

\* validated_effective_config.
Accepts(wire) == SparseOk(wire) /\ ValidConfig(EffectiveConfig(wire))
=============================================================================
