------------------------------ MODULE FakeScorer ------------------------------
(* The simulated state scorer (orch-fakes/scorer.rs) as operators on its state *)
(* for one experiment, a record                                                *)
(*   archive      ExperimentArchive, or Absent before the first load           *)
(*   checkpoints  <<checkpoint id, archive reference>> -> archive              *)
(* An artifact is named by its hash.  A state hash and a cell key are          *)
(* one-to-one in the state, so they are the state; the reference of an archive *)
(* is the hash of all of it, so it is the archive.                             *)
EXTENDS GridWorld, FiniteSets, TLC, Functions, SequencesExt

CONSTANTS
    Guest,      \* the world whose states are scored
    Absent,     \* an optional value that is not there
    MaxItems    \* MAX_SCORE_BATCH_ITEMS

ASSUME ScorerAssumption == MaxItems \in Nat

NewScorer == [archive |-> Absent, checkpoints |-> <<>>]

\* ExperimentArchive::default
EmptyArchive ==
    [map |-> Absent, program |-> Absent, bytes |-> 0, layout |-> Absent, frame |-> Absent,
     seq |-> 0, seen |-> {}, cells |-> <<>>, cache |-> <<>>]

Scored(st, rsp) == [st |-> st, rsp |-> rsp]
Rejected(st, kind) == [st |-> st, rsp |-> [error |-> kind]]

\* archive_mut: the entry is made by the first call that wants one, also by one that then fails.
Entry(st) == IF st.archive = Absent THEN [st EXCEPT !.archive = EmptyArchive] ELSE st

\* ensure_loaded, behind the lookup of loaded_archive.
LoadedError(st) ==
    IF st.archive = Absent THEN "not_found"
    ELSE IF st.archive.map = Absent \/ st.archive.program = Absent THEN "failed_precondition"
    ELSE "none"

IsEmpty(archive) == archive.seq = 0 /\ archive.seen = {} /\ archive.cells = <<>>

-----------------------------------------------------------------------------
(* Artifacts.                                                                 *)

\* layout_len of a sequence of range lengths.
LayoutLen(layout) == FoldLeft(LAMBDA sum, len : sum + len, 0, layout)

\* load_feature_map: another map than the one loaded needs an empty archive or a re-bin, and a re-bin
\* the same layout; it empties the cells and keeps the hashes.
LoadFeatureMap(st, r) ==
    LET old     == Entry(st).archive
        changes == old.map # Absent /\ old.map # r.map
        binned  == IF changes /\ r.rebin THEN [old EXCEPT !.cells = <<>>] ELSE old
    IN  IF changes /\ ~r.rebin /\ ~IsEmpty(old) THEN Rejected(Entry(st), "failed_precondition")
        ELSE IF changes /\ r.rebin /\ old.layout # r.layout
             THEN Rejected(Entry(st), "failed_precondition")
        ELSE Scored([st EXCEPT !.archive = [binned EXCEPT !.map = r.map, !.layout = r.layout,
                                             !.bytes = LayoutLen(r.layout), !.frame = r.frame]],
                    [map |-> r.map, bytes |-> LayoutLen(r.layout)])

LoadScoringProgram(st, r) ==
    LET old == Entry(st).archive
    IN  IF old.map = Absent \/ (old.program \notin {Absent, r.program} /\ ~IsEmpty(old))
        THEN Rejected(Entry(st), "failed_precondition")
        ELSE Scored([st EXCEPT !.archive.program = r.program], [program |-> r.program])

-----------------------------------------------------------------------------
(* Scoring.                                                                   *)

\* validate_framebuffer
FramebufferError(input, frame) ==
    CASE input.fb = Absent -> "none"
      [] input.fb = "blob" -> "fb_ref_unsupported"
      [] OTHER -> IF frame # Absent /\ input.meta = frame THEN "none" ELSE "fb_meta_mismatch"

\* score_state_input: against the archive as it was when the batch began.
ScoreInput(archive, input) ==
    LET fb    == FramebufferError(input, archive.frame)
        state == DecodeGrid(input.bytes)
    IN  IF fb # "none" THEN [ref |-> input.ref, error |-> fb]
        ELSE IF DecodeError(input.bytes) # "none"
             THEN [ref |-> input.ref, error |-> DecodeError(input.bytes)]
        ELSE [ref |-> input.ref, error |-> "none", state |-> state,
              progress |-> ProgressScore(Guest, state), stage |-> StageOf(Guest, state),
              goal |-> GoalReached(Guest, state), prune |-> Prune(Guest, state),
              duplicate |-> state \in archive.seen,
              count |-> IF state \in DOMAIN archive.cells THEN archive.cells[state] ELSE 0]

\* A hash that is new to the archive counts into its cell.
CommitHash(archive, state) ==
    IF state \in archive.seen THEN archive
    ELSE [archive EXCEPT
             !.seen = @ \cup {state},
             !.cells = (state :> (IF state \in DOMAIN @ THEN @[state] ELSE 0) + 1) @@ @]

CommitAll(archive, states) == FoldLeft(CommitHash, archive, states)

\* score_batch, of which the fault plan keeps the first `keep` items; a batch that inserts is answered
\* from the cache when it comes again.
ScoreBatch(st, r, keep) ==
    LET old      == st.archive
        results  == [i \in 1 .. Min({keep, Len(r.states)}) |-> ScoreInput(old, r.states[i])]
        good     == SelectSeq(results, LAMBDA x : x.error = "none")
        grown    == CommitAll(old, [i \in DOMAIN good |-> good[i].state])
        response == [batch |-> r.batch, seq |-> IF r.insert THEN old.seq + 1 ELSE old.seq,
                     results |-> results]
    IN  IF Len(r.states) \notin 1 .. MaxItems THEN Rejected(st, "invalid_request")
        ELSE IF LoadedError(st) # "none" THEN Rejected(st, LoadedError(st))
        ELSE IF r.batch \in DOMAIN old.cache
             THEN Scored(st, [old.cache[r.batch] EXCEPT !.results = SubSeq(@, 1, Min({keep, Len(@)}))])
        ELSE IF ~r.insert THEN Scored(st, response)
        ELSE Scored([st EXCEPT !.archive = [grown EXCEPT !.seq = @ + 1,
                                                         !.cache = (r.batch :> response) @@ @]],
                    response)

-----------------------------------------------------------------------------
(* Checkpoints.                                                               *)

CheckpointArchive(st, r) ==
    IF LoadedError(st) # "none" THEN Rejected(st, LoadedError(st))
    ELSE Scored([st EXCEPT !.checkpoints = (<<r.id, st.archive>> :> st.archive) @@ @],
                [ref |-> st.archive, seq |-> st.archive.seq,
                 cells |-> Cardinality(DOMAIN st.archive.cells)])

RestoreArchiveKeepingCache(st, r) ==
    LET key == <<r.id, r.ref>>
        old == Entry(st).archive
    IN  IF key \notin DOMAIN st.checkpoints THEN Rejected(st, "not_found")
        ELSE IF old.map # st.checkpoints[key].map \/ old.program # st.checkpoints[key].program
             THEN Rejected(Entry(st), "failed_precondition")
        ELSE Scored([st EXCEPT !.archive = [st.checkpoints[key] EXCEPT !.cache = old.cache]],
                    [seq |-> st.checkpoints[key].seq])

\* restore_archive: only under the artifacts the archive was made with.
RestoreArchive(st, r) ==
    LET key == <<r.id, r.ref>>
        old == Entry(st).archive
    IN  IF key \notin DOMAIN st.checkpoints THEN Rejected(st, "not_found")
        ELSE IF old.map # st.checkpoints[key].map \/ old.program # st.checkpoints[key].program
             THEN Rejected(Entry(st), "failed_precondition")
        ELSE Scored([st EXCEPT !.archive = st.checkpoints[key]],
                    [seq |-> st.checkpoints[key].seq])

\* replay_commits: the sequence number of the archive does not move.
ReplayCommits(st, r, keep) ==
    LET states == SubSeq(r.states, 1, Min({keep, Len(r.states)}))
        grown  == CommitAll(st.archive, states)
        fresh  == Cardinality(grown.seen \ st.archive.seen)
    IN  IF LoadedError(st) # "none" THEN Rejected(st, LoadedError(st))
        ELSE Scored([st EXCEPT !.archive = grown], [applied |-> fresh, skipped |-> Len(states) - fresh])

=============================================================================
