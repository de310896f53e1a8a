----------------------------- MODULE BatchLedger -----------------------------
(***************************************************************************)
(* What the durable side of one experiment promises, with no runner, no    *)
(* log and no crash in it: batches are announced in sequence, each adds    *)
(* its children to the tree once, under the next dense node id, then it is *)
(* done; and a checkpoint covers only batches that are done.  A crash, a   *)
(* resume or a replay is a step that changes nothing here.                 *)
(***************************************************************************)
EXTENDS Integers

CONSTANTS MaxSeq, K

VARIABLES
    announced,  \* batches whose intent is durable
    tree,       \* node id -> <<batch, child>>, the root is <<0, 0>>
    done,       \* batches all of whose effects are durable
    covered,    \* the checkpoint claims the batches below this number
    kids        \* how many children each batch keeps

ledger == <<announced, tree, done, covered, kids>>

Children(s) == {<<s, i>> : i \in 1 .. kids[s]}
InTree == {tree[i] : i \in DOMAIN tree}

Init ==
    /\ announced = {} /\ done = {} /\ covered = 0
    /\ tree = [i \in {} |-> <<0, 0>>]
    /\ kids \in [0 .. MaxSeq - 1 -> 0 .. K]

Announce ==
    /\ \E n \in 0 .. MaxSeq - 1 : announced = 0 .. n - 1 /\ announced' = 0 .. n
    /\ UNCHANGED <<tree, done, covered, kids>>

\* One new row, under the next id, never a second row for the same child.
AddRow(row) ==
    /\ row \notin InTree
    /\ \E n \in 0 .. MaxSeq * K :
          /\ DOMAIN tree = 0 .. n - 1
          /\ tree' = [i \in 0 .. n |-> IF i = n THEN row ELSE tree[i]]
    /\ UNCHANGED <<announced, done, covered, kids>>

AddRoot == tree = [i \in {} |-> <<0, 0>>] /\ AddRow(<<0, 0>>)

AddChild == \E s \in announced \ done : \E row \in Children(s) : AddRow(row)

Finish ==
    /\ \E s \in announced \ done : Children(s) \subseteq InTree /\ done' = done \cup {s}
    /\ UNCHANGED <<announced, tree, covered, kids>>

Cover ==
    /\ \E n \in covered .. MaxSeq : 0 .. n - 1 \subseteq done /\ covered' = n
    /\ UNCHANGED <<announced, tree, done, kids>>

Next == Announce \/ AddRoot \/ AddChild \/ Finish \/ Cover

Spec == Init /\ [][Next]_ledger
=============================================================================
