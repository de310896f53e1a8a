------------------------------- MODULE FakeSynth -------------------------------
(* The simulated input synthesizer (orch-fakes/synth.rs) as operators on its    *)
(* state, a record                                                              *)
(*   packs        loaded macro packs: pack number -> its macro names         *)
(*   experiments  loaded experiment configs: id -> [model, mix]                 *)
(* A document is a record of what its text parses to.  Buttons are sets of bit  *)
(* numbers.  The random stream of a request is Draws[<<seed, slot>>], a period  *)
(* of numbers below Resolution (a draw of the code is such a number divided by  *)
(* Resolution); weights are thousandths.  Hashes are what they hash.            *)
EXTENDS Integers, Sequences, FiniteSets, TLC, Functions, SequencesExt

CONSTANTS
    Draws, Resolution,
    MaxBursts,       \* MAX_PROPOSE_BURSTS
    AttackMacros,    \* macro names whose hash is even
    Unset            \* an optional value that is not there

ASSUME SynthAssumption == Resolution \in Nat \ {0} /\ MaxBursts \in Nat

GeneratorOrder == <<"weighted_random", "macro", "mutation", "policy">>
Generators == Range(GeneratorOrder)
ButtonMasks == <<{}, {0}, {1}, {3}, {0, 1}, {6}, {8}, {9}>>

NewSynth == [packs |-> <<>>, experiments |-> <<>>]

Answers(st, rsp) == [st |-> st, rsp |-> rsp]
Declines(st, kind) == [st |-> st, rsp |-> [error |-> kind]]

-----------------------------------------------------------------------------
(* Documents and generator mixes.  What a mix text holds is [form, set]: form *)
(* is "empty" (blank or {}), "no_mix" (no generator_mix key), "bad" (not text,*)
(* an unknown key, no number) or "mix", whose entries are set.                *)

DefaultMix == [g \in Generators |-> IF g = "weighted_random" THEN 1000 ELSE 0]

\* with_overrides, clamp_nonnegative
OverridesError(o) == o.form \in {"no_mix", "bad"}
WithOverrides(mix, o) ==
    [g \in Generators |-> Max({0, IF o.form = "mix" /\ g \in DOMAIN o.set THEN o.set[g] ELSE mix[g]})]

\* load_experiment_config: a config without a mix has the default one.
LoadExperimentConfig(st, doc) ==
    IF doc.mix.form = "bad" THEN Declines(st, "invalid_request")
    ELSE Answers([st EXCEPT !.experiments =
                     (doc.id :> [model |-> doc.model, mix |-> WithOverrides(DefaultMix, doc.mix)]) @@ @],
                 [id |-> doc.id, items |-> 1])

\* load_macro_pack_document: the i-th macro has weight i; an empty pack gets one macro.
LoadMacroPackDocument(st, doc) ==
    LET macros == IF doc.macros = <<>> THEN <<"default-dash">> ELSE doc.macros
    IN  Answers([st EXCEPT !.packs = (doc.id :> macros) @@ @], [id |-> doc.id, items |-> Len(macros)])

\* load_macro_pack
LoadMacroPack(st, r) ==
    CASE r.kind = "ExperimentConfig" -> LoadExperimentConfig(st, r.doc)
      [] r.kind = "MacroPack"        -> LoadMacroPackDocument(st, r.doc)
      [] r.kind = "EventGrammar"     -> Answers(st, [id |-> r.doc.id, items |-> 1])

Health(st) ==
    [status |-> IF st.experiments = <<>> THEN "NotServing"
                ELSE IF st.packs = <<>> THEN "Degraded" ELSE "Serving",
     packs |-> DOMAIN st.packs, experiments |-> DOMAIN st.experiments]

\* config_fingerprint: over all loaded packs, whoever loaded them.
ConfigFingerprint(st, experiment, mix) ==
    [experiment |-> experiment, model |-> st.experiments[experiment].model, mix |-> mix,
     packs |-> st.packs, flipped |-> FALSE]

-----------------------------------------------------------------------------
(* Choosing a generator.                                                      *)

Draw(seed, slot, i) ==
    LET period == Draws[<<seed, slot>>] IN period[((i - 1) % Len(period)) + 1]
DrawIndex(draw, upper) == Min({(draw * upper) \div Resolution, Max({upper - 1, 0})})

Total(mix) == FoldLeft(LAMBDA sum, g : sum + mix[g], 0, GeneratorOrder)

\* The first entry of a list of <<item, weight>> whose weights reach past the draw's share of the
\* total, or the fallback.
Pick(entries, draw, fallback) ==
    LET upto(i) == FoldLeft(LAMBDA sum, e : sum + e[2], 0, SubSeq(entries, 1, i))
        reached == {i \in DOMAIN entries : /\ entries[i][2] > 0
                                           /\ draw * upto(Len(entries)) < Resolution * upto(i)}
    IN  IF reached = {} THEN fallback ELSE entries[Min(reached)][1]

\* select_generator
SelectGenerator(mix, seed, slot) ==
    Pick([i \in DOMAIN GeneratorOrder |-> <<GeneratorOrder[i], mix[GeneratorOrder[i]]>>],
         Draw(seed, slot, 1), "weighted_random")

\* effective_mix: the generators that cannot work give their weight to the random one.
HasBase(node) == node.parentBurst # Unset \/ node.siblings # <<>>
DegradedGenerators(st, mix, node) ==
    SelectSeq(<<"macro", "mutation", "policy">>,
              LAMBDA g : /\ mix[g] > 0
                         /\ CASE g = "macro" -> st.packs = <<>> [] g = "mutation" -> ~HasBase(node)
                              [] g = "policy" -> TRUE)
EffectiveMix(st, mix, node) ==
    LET lost  == Range(DegradedGenerators(st, mix, node))
        given == FoldLeft(LAMBDA sum, g : sum + IF g \in lost THEN mix[g] ELSE 0,
                          mix["weighted_random"], GeneratorOrder)
        kept  == [g \in Generators |-> IF g \in lost THEN 0
                                       ELSE IF g = "weighted_random" THEN given ELSE mix[g]]
    IN  IF Total(kept) = 0 THEN [kept EXCEPT !["weighted_random"] = 1000] ELSE kept
FallbackFrom(st, mix, node) ==
    LET lost == DegradedGenerators(st, mix, node)
    IN  IF mix["weighted_random"] = 0 /\ lost # <<>> THEN Head(lost) ELSE Unset

-----------------------------------------------------------------------------
(* Bursts.                                                                    *)

Segment(buttons, hold) == [buttons |-> buttons, hold |-> hold]
TargetFrames(hint) == IF hint = 0 THEN 16 ELSE Min({hint, 1800})

\* weighted_random_segments: draws give the number of segments and then, for each, its length (the
\* last takes what is left) and its buttons.
WeightedRandomSegments(seed, slot, frames) ==
    LET count == 1 + DrawIndex(Draw(seed, slot, 1), 3)
        next(w, i) ==
            LET isLast == i = count
                take == Max({w.remaining - (count - i), 1})
                hold == IF isLast THEN w.remaining ELSE 1 + DrawIndex(Draw(seed, slot, w.at), take)
                at   == IF isLast THEN w.at ELSE w.at + 1
                mask == ButtonMasks[1 + DrawIndex(Draw(seed, slot, at), Len(ButtonMasks))]
            IN  [remaining |-> Max({w.remaining - hold, 0}), at |-> at + 1,
                 out |-> Append(w.out, Segment(mask, hold))]
    IN  FoldLeft(next, [remaining |-> Max({frames, 1}), at |-> 2, out |-> <<>>],
                 [i \in 1 .. count |-> i]).out

\* macro_segments
MacroSegments(name, direction, frames) ==
    LET way   == IF direction = "left" THEN {8} ELSE {9}
        first == Min({Max({frames, 1}), 24})
        rest  == IF frames > first THEN <<Segment(way, frames - first)>> ELSE <<>>
    IN  <<Segment(way \cup (IF name \in AttackMacros THEN {0} ELSE {1}), first)>> \o rest

\* select_macro, over the packs in the order of their ids.
PackMacros(st) ==
    FlattenSeq([p \in DOMAIN SetToSortSeq(DOMAIN st.packs, <) |->
                   LET id == SetToSortSeq(DOMAIN st.packs, <)[p]
                   IN  [i \in DOMAIN st.packs[id] |-> <<<<id, st.packs[id][i]>>, i>>]])
SelectMacro(st, draw) == Pick(PackMacros(st), draw, PackMacros(st)[1][1])

MutationBaseOfSiblings(node) ==
    IF node.siblings # <<>> THEN Head(node.siblings) ELSE node.parentBurst

\* mutate_parent_burst: one button of the first segment of the base flips.
MutationBase(node) == IF node.parentBurst # Unset THEN node.parentBurst ELSE Head(node.siblings)
FlipButton(body, bit) ==
    IF body.kind # "pad" \/ body.segments = <<>> THEN body
    ELSE [body EXCEPT !.segments[1].buttons = (@ \ {bit}) \cup ({bit} \ @)]

Pad(segments) == [kind |-> "pad", segments |-> segments]

\* propose_pad_burst: body and generator-specific provenance.
PadBody(st, r, slot, generator) ==
    LET frames == TargetFrames(r.frames)
        random == Pad(WeightedRandomSegments(r.seed, slot, frames))
    IN  CASE generator = "macro" ->
               LET chosen == SelectMacro(st, Draw(r.seed, slot, 1))
                   way    == IF 2 * Draw(r.seed, slot, 2) < Resolution THEN "left" ELSE "right"
               IN  [body |-> Pad(MacroSegments(chosen[2], way, frames)), payload |-> "macro", base |-> Unset]
          [] generator = "mutation" ->
               IF ~HasBase(r.node) THEN [body |-> random, payload |-> "mutation", base |-> <<>>]
               ELSE [body |-> FlipButton(MutationBase(r.node).body, DrawIndex(Draw(r.seed, slot, 1), 10)),
                     payload |-> "mutation", base |-> MutationBase(r.node).id]
          [] generator = "policy" -> [body |-> random, payload |-> "policy", base |-> Unset]
          [] OTHER -> [body |-> random, payload |-> Unset, base |-> Unset]

\* propose_event_burst: no generator-specific provenance, whatever the generator.
EventBody(r, slot) ==
    [body |-> [kind |-> "event",
               events |-> [i \in 1 .. Min({Max({r.frames, 1}), 8}) |-> Draw(r.seed, slot, i)]],
     payload |-> Unset, base |-> Unset]

\* provenanced_burst with burst_id.
ProvenancedBurst(st, r, slot, generator, fallback, fingerprint) ==
    LET made == IF r.model = "pad" THEN PadBody(st, r, slot, generator) ELSE EventBody(r, slot)
    IN  [id |-> <<r.seed, slot, fingerprint, made.body>>, body |-> made.body, generator |-> generator,
         slot |-> slot, fingerprint |-> fingerprint, fallback |-> fallback,
         payload |-> made.payload, base |-> made.base]

\* The requests propose_bursts refuses before it consults the fault plan.
ProposeError(st, r) ==
    \/ r.k = 0 \/ r.k > MaxBursts
    \/ r.experiment \notin DOMAIN st.experiments
    \/ st.experiments[r.experiment].model # r.model
    \/ OverridesError(r.overrides)

\* propose_bursts, with the decision of the fault plan.
ProposeBursts(st, r, fault) ==
    LET mix       == WithOverrides(st.experiments[r.experiment].mix, r.overrides)
        effective == EffectiveMix(st, mix, r.node)
        final     == [ConfigFingerprint(st, r.experiment, mix) EXCEPT !.flipped = fault.flip]
        burst(slot) ==
            LET g == SelectGenerator(effective, r.seed, slot)
            IN  ProvenancedBurst(st, r, slot, g,
                                 IF g = "weighted_random" THEN FallbackFrom(st, mix, r.node) ELSE Unset,
                                 final)
    IN  IF ProposeError(st, r) THEN Declines(st, "invalid_request")
        ELSE IF fault.error # "none" THEN Declines(st, fault.error)
        ELSE Answers(st, [bursts |-> [i \in 1 .. r.k |-> burst(i - 1)], fingerprint |-> final,
                          seed |-> r.seed, degraded |-> DegradedGenerators(st, mix, r.node)])

\* mine_macros changes nothing; a burst has as many tokens as segments or events.
Tokens(body) == IF body.kind = "pad" THEN Len(body.segments) ELSE Len(body.events)
MineMacros(st, r) ==
    Answers(st, [paths |-> Len(r.paths),
                 tokens |-> FoldLeft(LAMBDA sum, body : sum + Tokens(body), 0, FlattenSeq(r.paths))])
=============================================================================
