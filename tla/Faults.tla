-------------------------------- MODULE Faults --------------------------------
(* The fault plan of the simulated services (orch-fakes/fault.rs).  A plan is a *)
(* record                                                                       *)
(*   timeout, error, partial, flip   rates, in parts of Denominator             *)
(*   kind                            the error of an error fault                *)
(*   minKeep                         what a partial response keeps at least     *)
(*   oneShot                         operation -> error of its second call      *)
(* A decision takes the draws of its channels, which the code hashes from the   *)
(* seed, the request and its place in the operation's call stream.  Latency has *)
(* no effect on what a fake answers and is left out.                            *)
EXTENDS Integers, Functions, FiniteSetsExt

CONSTANTS Denominator   \* FaultRate::DENOMINATOR
ASSUME FaultAssumption == Denominator \in Nat \ {0}

NoFaults == [timeout |-> 0, error |-> 0, partial |-> 0, flip |-> 0,
             kind |-> "unavailable", minKeep |-> 0, oneShot |-> <<>>]

\* FaultRate::fires
Fires(rate, draw) == draw < rate

\* decide_terminal with client_error: timeouts come first and are reported as unavailable; the
\* two rates share one draw.
DecideTerminal(plan, draw) ==
    CASE draw < plan.timeout                    -> "unavailable"
      [] draw >= plan.timeout /\ draw < Min({plan.timeout + plan.error, Denominator}) -> plan.kind
      [] OTHER                                  -> "none"

\* PartialResponseFault::decide with truncate_len: how many items the response keeps.
KeepItems(plan, items, draws) ==
    IF items <= plan.minKeep \/ ~Fires(plan.partial, draws.partial) THEN items
    ELSE plan.minKeep + (draws.length % (items - plan.minKeep))

\* decide_with_attempt.  The second call of an operation gets its one-shot error or none at all.
\* Only an answered request is shortened or, for the synthesizer, has its fingerprint flipped.
Decide(plan, target, operation, items, attempt, draws) ==
    LET terminal == IF attempt # 1 THEN DecideTerminal(plan, draws.terminal)
                    ELSE IF operation \in DOMAIN plan.oneShot THEN plan.oneShot[operation] ELSE "none"
        answered == terminal = "none"
    IN  [error |-> terminal,
         keep  |-> IF answered THEN KeepItems(plan, items, draws) ELSE items,
         flip  |-> answered /\ target = "synth" /\ Fires(plan.flip, draws.flip)]
=============================================================================
