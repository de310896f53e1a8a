------------------------------- MODULE Policies -------------------------------
(* Selection policies (orch-core/policy): softmax, UCB and staged.  The numbers  *)
(* of the code are floats.  Here weights are thousandths, draws, scores after     *)
(* normalisation and what the library functions yield are counts of 1/Unit, and   *)
(* those functions are monotone tables.                                           *)
(* A node is [id, score, count, visits, depth, stage]; `count` is the visits of  *)
(* its cell in the mirror.  Nodes come in the order of their ids.                *)
EXTENDS Integers, Sequences, FiniteSets, SequencesExt

CONSTANTS
    Unit,              \* 1.0
    NoveltyOf(_),      \* Unit / sqrt(1 + count)
    LogOf(_),          \* Unit * ln(1 + n)
    SqrtLogOf(_, _),   \* Unit * sqrt(ln(total) / (visits + 1))
    ExpOf(_),          \* weight of a distance from the best priority, in 1/Unit temperatures
    ArgmaxTemperature  \* at or below it softmax is argmax

ASSUME PolicyAssumption ==
    /\ Unit \in Nat \ {0} /\ ArgmaxTemperature \in Nat
    /\ \A n \in 0..3 : /\ NoveltyOf(n) \in 0 .. Unit /\ NoveltyOf(n) >= NoveltyOf(n + 1)
                       /\ LogOf(n) \in Nat /\ LogOf(n) <= LogOf(n + 1)
                       /\ ExpOf(n) \in Nat \ {0} /\ ExpOf(n) >= ExpOf(n + 1)

NoBacktrack == -1

\* normalize_scores: onto [0, 1], or all zero when they are equal.
NormalizeScores(nodes) ==
    LET scores == {nodes[i].score : i \in DOMAIN nodes}
        low == Min(scores)
        span == Max(scores) - low
    IN  [i \in DOMAIN nodes |-> IF span = 0 THEN 0 ELSE ((nodes[i].score - low) * Unit) \div span]

\* weighted_priority.
WeightedPriority(normalized, node, sel) ==
    sel.alpha * normalized + sel.beta * NoveltyOf(node.count)
        - sel.gamma * LogOf(node.visits) - sel.delta * LogOf(node.depth)

\* The depth up to which backtracking favours a candidate: a quantile of the candidates' depths.
CutoffDepth(nodes, quantile) ==
    LET depths == SortSeq([i \in DOMAIN nodes |-> nodes[i].depth], LAMBDA a, b : a < b)
        clamped == IF quantile > 1000 THEN 1000 ELSE quantile
    IN  depths[1 + ((Len(nodes) - 1) * clamped) \div 1000]

\* candidate_snapshots: nodes with their priorities.
CandidateSnapshots(nodes, sel, kappa, quantile) ==
    LET normalized == NormalizeScores(nodes)
        cutoff == CutoffDepth(nodes, quantile)
        Bonus(n) == IF kappa # NoBacktrack /\ n.depth <= cutoff THEN kappa * NoveltyOf(n.count) ELSE 0
    IN  [i \in DOMAIN nodes |->
            [id |-> nodes[i].id, visits |-> nodes[i].visits, stage |-> nodes[i].stage,
             priority |-> WeightedPriority(normalized[i], nodes[i], sel) + Bonus(nodes[i])]]

\* The first index with the largest value.
FirstMax(values) ==
    CHOOSE i \in DOMAIN values :
        \A j \in DOMAIN values : values[j] < values[i] \/ (values[j] = values[i] /\ i <= j)

Priorities(cands) == [i \in DOMAIN cands |-> cands[i].priority]

SoftmaxWeights(cands, temperature) ==
    LET best == Max(ToSet(Priorities(cands)))
    IN  [i \in DOMAIN cands |-> ExpOf((best - cands[i].priority) \div temperature)]

Sum(values) == FoldLeft(+, 0, values)

\* The walk that stops at a prefix it equals.
PrefixWalkInclusive(weights, draw) ==
    LET Reaches(i) == draw * Sum(weights) <= Sum(SubSeq(weights, 1, i)) * Unit
    IN  CHOOSE i \in DOMAIN weights :
            /\ Reaches(i) \/ i = Len(weights)
            /\ \A j \in 1 .. i - 1 : ~Reaches(j)

\* The prefix walk: the first index whose prefix exceeds the drawn share of the total, or the last one.
PrefixWalk(weights, draw) ==
    LET Reaches(i) == draw * Sum(weights) < Sum(SubSeq(weights, 1, i)) * Unit
    IN  CHOOSE i \in DOMAIN weights :
            /\ Reaches(i) \/ i = Len(weights)
            /\ \A j \in 1 .. i - 1 : ~Reaches(j)

\* softmax::select_from_candidates; a draw is in 0 .. Unit - 1.
SoftmaxSelect(cands, temperature, draw) ==
    IF temperature <= ArgmaxTemperature THEN FirstMax(Priorities(cands))
    ELSE PrefixWalk(SoftmaxWeights(cands, temperature), draw)

\* ucb::select_from_candidates.
UcbValues(cands, total, c) ==
    [i \in DOMAIN cands |->
        cands[i].priority + c * SqrtLogOf(IF total < 2 THEN 2 ELSE total, cands[i].visits)]
UcbSelect(cands, total, c) == FirstMax(UcbValues(cands, total, c))

DispatchInner(cands, sel, policy, total, draw) ==
    IF policy = "ucb" THEN UcbSelect(cands, total, sel.ucbC)
    ELSE SoftmaxSelect(cands, sel.temperature, draw)

\* staged::select_from_candidates: the candidates of the highest stage in the whole tree lead; a first
\* draw may send the search back to the others, and an empty side gives way to the other.
StagedSide(cands, target, sel, draw) ==
    LET leading == SelectSeq(cands, LAMBDA c : c.stage = target)
        regress == SelectSeq(cands, LAMBDA c : c.stage # target)
        mixed == draw * 1000 < sel.epsilonRegress * Unit
    IN  IF (mixed \/ leading = <<>>) /\ regress # <<>> THEN regress ELSE leading

\* PolicyBox::select: the id of the node.  Only a staged policy is told the number of expansions, so a
\* plain UCB policy counts none.
SelectNode(nodes, target, sel, kappa, quantile, total, draws) ==
    LET cands == CandidateSnapshots(nodes, sel, kappa, quantile)
        side  == StagedSide(cands, target, sel, draws[1])
    IN  IF sel.policy = "staged"
        THEN side[DispatchInner(side, sel, sel.inner, total, draws[2])].id
        ELSE cands[DispatchInner(cands, sel, sel.policy, 0, draws[1])].id
-----------------------------------------------------------------------------
(* Properties.                                                               *)

Shares(weights, i) == Cardinality({d \in 0 .. Unit - 1 : PrefixWalk(weights, d) = i})

\* Over all draws a candidate is picked in proportion to its weight: its share of the Unit draws differs
\* from weight / total by less than one draw, for the first candidate and the last one too.
DrawsProportional(weights) ==
    \A i \in DOMAIN weights :
        LET exact == weights[i] * Unit
            picked == Shares(weights, i) * Sum(weights)
        IN  picked < exact + Sum(weights) /\ exact < picked + Sum(weights)
=============================================================================
