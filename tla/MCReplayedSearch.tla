------------------------- MODULE MCReplayedSearch -------------------------
(***************************************************************************)
(* Worlds for ReplayedSearch: what the captured states score, which cell   *)
(* they fall into, and which carry a prune or a goal verdict.              *)
(***************************************************************************)
EXTENDS ReplayedSearch

\* A world with everything: `a` and `l` share a cell, `l` scores below the
\* rest, `p` is pruned and `g` a goal.
FullStates == {"r", "a", "l", "p", "g"}
FullCell   == [s \in FullStates |-> IF s \in {"a", "l"} THEN "near" ELSE s]
FullScore  == [s \in FullStates |-> CASE s = "l" -> 0 [] s = "p" -> 2 [] OTHER -> 1]

\* A world where `a` and `h` share a cell and score below the
\* root, `h` above `a`; `p` scores best of all.
HillStates == {"r", "a", "h", "p"}
HillCell   == [s \in HillStates |-> IF s \in {"a", "h"} THEN "low" ELSE s]
HillScore  == [s \in HillStates |->
                  CASE s = "r" -> 2 [] s = "a" -> 0 [] s = "h" -> 1 [] OTHER -> 3]
=============================================================================
