------------------------------- MODULE FakeStore -------------------------------
(* The in-memory snapshot store (orch-fakes/snapshot_store.rs) as operators on  *)
(* its state for one experiment, a record                                       *)
(*   clock     logical_clock                                                    *)
(*   nodes     the rows, by node id (0 is the root)                             *)
(*   children  the ids under each row, ascending                                *)
(*   metadata  key -> [value, generation]                                       *)
(* An operation returns the state after it and its response.                    *)
EXTENDS Integers, Sequences, FiniteSets, TLC, Functions, SequencesExt

CONSTANTS
    NoValue,     \* an absent optional field
    MaxCount     \* the largest visit or expand count (u64::MAX in the code)

ASSUME StoreAssumption == MaxCount \in Nat

NewStore == [clock |-> 0, nodes |-> <<>>, children |-> <<>>, metadata |-> <<>>]

Reply(st, rsp) == [st |-> st, rsp |-> rsp]
Refuse(st, kind) == [st |-> st, rsp |-> [error |-> kind]]

-----------------------------------------------------------------------------
(* Rows.  A create request carries a log id, or a container that seals its    *)
(* body with a footer.                                                        *)

\* CreateNodeRequest::validate
ValidCreate(r) ==
    /\ IF r.id = 0 THEN r.parent = NoValue /\ r.logId = NoValue /\ r.container = NoValue
       ELSE r.parent # NoValue /\ ~(r.logId = NoValue /\ r.container = NoValue)
    /\ r.logId = NoValue \/ r.container = NoValue

\* resolved_input_log_id
SealedLog(r) == r.container = NoValue \/ r.container.intact
ResolvedLogId(r) ==
    IF r.logId # NoValue THEN r.logId
    ELSE IF r.container = NoValue THEN NoValue ELSE r.container.body

\* same_immutable_create_identity
SameCreate(row, r) == row.parent = r.parent /\ row.snapshot = r.snapshot /\ row.logId = ResolvedLogId(r)

\* insert_node: the row, its empty list of children and its place in the parent's.
InsertNode(st, row) ==
    LET listed == IF row.id \in DOMAIN st.children THEN st.children ELSE (row.id :> <<>>) @@ st.children
    IN  [st EXCEPT !.nodes = (row.id :> row) @@ @,
                   !.children = IF row.parent = NoValue THEN listed
                                ELSE [listed EXCEPT ![row.parent] = SortSeq(Append(@, row.id), <)]]

NewRow(st, r) ==
    [id |-> r.id, parent |-> r.parent,
     depth |-> IF r.id = 0 THEN 0 ELSE st.nodes[r.parent].depth + 1,
     snapshot |-> r.snapshot, logId |-> ResolvedLogId(r), log |-> r.container, status |-> r.status,
     progress |-> r.progress, visits |-> 0, expands |-> 0, visited |-> 0,
     created |-> st.clock + 1, updated |-> st.clock + 1]

CreateNodeOver(st, r) ==
    IF ~ValidCreate(r) \/ ~SealedLog(r) THEN Refuse(st, "invalid_request")
    ELSE IF r.id # 0 /\ r.parent \notin DOMAIN st.nodes THEN Refuse(st, "not_found")
    ELSE Reply([InsertNode(st, NewRow(st, r)) EXCEPT !.clock = @ + 1], NewRow(st, r))

\* create_node: the same row again is answered with the row as it is now.
CreateNode(st, r) ==
    IF ~ValidCreate(r) \/ ~SealedLog(r) THEN Refuse(st, "invalid_request")
    ELSE IF r.id \in DOMAIN st.nodes
         THEN IF SameCreate(st.nodes[r.id], r) THEN Reply(st, st.nodes[r.id])
              ELSE Refuse(st, "already_exists")
    ELSE IF r.id # 0 /\ r.parent \notin DOMAIN st.nodes THEN Refuse(st, "not_found")
    ELSE IF r.id # 0 /\ st.nodes[r.parent].status = "pruned" THEN Refuse(st, "failed_precondition")
    ELSE Reply([InsertNode(st, NewRow(st, r)) EXCEPT !.clock = @ + 1], NewRow(st, r))

\* apply_update to one row.
Overflows(row, u) == row.visits + u.visits > MaxCount \/ row.expands + u.expands > MaxCount
ApplyUpdate(row, u, at) ==
    [row EXCEPT !.status = IF u.status = NoValue THEN @ ELSE u.status,
                !.progress = IF u.progress = NoValue THEN @ ELSE u.progress,
                !.visits = @ + u.visits, !.expands = @ + u.expands,
                !.visited = IF u.touch THEN at ELSE @, !.updated = at]

\* The rows as the updates of one request leave them, one after the other.
Staged(st, updates) ==
    FoldLeft(LAMBDA rows, u : [rows EXCEPT ![u.id] = ApplyUpdate(@, u, st.clock + 1)], st.nodes, updates)

\* update_nodes: all of the updates or none of them.
UpdateNodes(st, r) ==
    LET staged(i) == Staged(st, SubSeq(r.updates, 1, i))
    IN  IF r.updates = <<>> THEN Reply(st, [at |-> st.clock, applied |-> 0])
        ELSE IF \E i \in DOMAIN r.updates : r.updates[i].id \notin DOMAIN st.nodes
             THEN Refuse(st, "not_found")
        ELSE IF \E i \in DOMAIN r.updates : Overflows(staged(i - 1)[r.updates[i].id], r.updates[i])
             THEN Refuse(st, "internal")
        ELSE Reply([st EXCEPT !.clock = @ + 1, !.nodes = staged(Len(r.updates))],
                   [at |-> st.clock + 1, applied |-> Len(r.updates)])

\* subtree_ids: what the lists of children reach in as many rounds as there are rows.
SubtreeIds(st, root) ==
    FoldLeft(LAMBDA ids, i : ids \cup UNION {Range(st.children[id]) : id \in ids},
             {root}, [i \in 1 .. Cardinality(DOMAIN st.nodes) |-> i])

\* prune_subtree
PruneSubtree(st, r) ==
    LET subtree == SubtreeIds(st, r.id)
    IN  IF r.id = 0 /\ ~r.allowRoot THEN Refuse(st, "failed_precondition")
        ELSE IF r.id \notin DOMAIN st.nodes THEN Refuse(st, "not_found")
        ELSE Reply([st EXCEPT !.clock = @ + 1,
                              !.nodes = [id \in DOMAIN @ |->
                                  IF id \in subtree
                                  THEN [@[id] EXCEPT !.status = "pruned", !.updated = st.clock + 1]
                                  ELSE @[id]]],
                   [pruned |-> Cardinality(subtree)])

-----------------------------------------------------------------------------
(* Reads.                                                                     *)

\* get_children
GetChildren(st, id) == SelectSeq(st.children[id], LAMBDA c : c \in DOMAIN st.nodes)

\* get_path: from the root down to a row.
PathUp(st, id) ==
    FoldLeft(LAMBDA path, i :
                 LET up == st.nodes[Last(path)].parent IN IF up = NoValue THEN path ELSE Append(path, up),
             <<id>>, [i \in 1 .. Cardinality(DOMAIN st.nodes) |-> i])
GetPath(st, id) == Reverse(PathUp(st, id))

\* query_matches, on the filters this system sets.
QueryMatches(row, q) ==
    /\ q.statuses = {} \/ row.status \in q.statuses
    /\ q.minProgress = NoValue \/ row.progress >= q.minProgress
    /\ q.updatedAfter = NoValue \/ row.updated > q.updatedAfter

\* sort_query_nodes
QueryBefore(order, a, b) ==
    CASE order = "CreatedAt" -> a.created < b.created \/ (a.created = b.created /\ a.id < b.id)
      [] order = "ProgressDesc" ->
            \/ a.progress > b.progress
            \/ a.progress = b.progress /\ a.created < b.created
            \/ a.progress = b.progress /\ a.created = b.created /\ a.id < b.id

\* query_nodes, with its limit.
QueryNodes(st, q) ==
    LET rows == SetToSortSeq({st.nodes[id] : id \in {n \in DOMAIN st.nodes : QueryMatches(st.nodes[n], q)}},
                             LAMBDA a, b : QueryBefore(q.order, a, b))
    IN  IF q.limit = NoValue \/ q.limit >= Len(rows) THEN rows ELSE SubSeq(rows, 1, q.limit)

-----------------------------------------------------------------------------
(* Metadata.  An expectation is "unconditional", "create_only" or a           *)
(* generation.                                                                *)

Generation(st, key) == IF key \in DOMAIN st.metadata THEN st.metadata[key].generation ELSE 0

\* check_metadata_expectation
Expected(st, r, creates) ==
    CASE r.expect = "unconditional" -> TRUE
      [] r.expect = "create_only"   -> creates /\ Generation(st, r.key) = 0
      [] OTHER -> r.key \in DOMAIN st.metadata /\ Generation(st, r.key) = r.generation

\* put_metadata: the generation of a key counts its writes since it was last created.
PutMetadata(st, r) ==
    LET generation == Generation(st, r.key) + 1
    IN  IF ~Expected(st, r, TRUE) THEN Refuse(st, "failed_precondition")
        ELSE Reply([st EXCEPT !.metadata =
                        (r.key :> [value |-> r.value, generation |-> generation]) @@ @],
                   [generation |-> generation])

DeleteMetadata(st, r) ==
    IF ~Expected(st, r, FALSE) THEN Refuse(st, "failed_precondition")
    ELSE IF r.key \notin DOMAIN st.metadata THEN Refuse(st, "not_found")
    ELSE Reply([st EXCEPT !.metadata = Restrict(@, DOMAIN @ \ {r.key})], [deleted |-> r.key])
=============================================================================
