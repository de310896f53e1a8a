------------------------------ MODULE FakeWorker ------------------------------
(* The simulated hypervisor worker (orch-fakes/hypervisor.rs) as operators on  *)
(* its state, a record                                                         *)
(*   next       next_slot_id                                                   *)
(*   slots      the live machines, by slot id                                  *)
(*   snapshots  snapshot reference -> what a restore needs beyond it           *)
(*   events     watch_events, as <<slot id, state>>                            *)
(* Where a watcher stands in the events (watch_cursor) is left out: watch_slots *)
(* hands out the events from there on, and changes nothing else.               *)
(* An operation returns the state after it and its response.  Slots share one  *)
(* machine configuration.  A snapshot reference is the hash of the record      *)
(* SnapshotRef builds, so it is that record here; a lease token is the hash    *)
(* of the slot id and a seed, so it is the seed.                               *)
EXTENDS GridWorld, FiniteSets, TLC, Functions, SequencesExt

CONSTANTS
    World,           \* the guest's world
    SlotsTotal,      \* slots_total
    IcountPerFrame, VnsPerFrame,
    MaxFrame,        \* the largest frame counter (u32::MAX in the code)
    MaxClock,        \* the largest icount and vns (u64::MAX in the code)
    None

ASSUME WorkerAssumption ==
    /\ SlotsTotal \in Nat /\ MaxFrame \in Nat /\ MaxClock \in Nat
    /\ IcountPerFrame \in Nat \ {0} /\ VnsPerFrame \in Nat \ {0}

NewWorker == [next |-> 1, slots |-> <<>>, snapshots |-> <<>>, events |-> <<>>]

Done(st, rsp) == [st |-> st, rsp |-> rsp]
Fails(st, kind) == [st |-> st, rsp |-> [error |-> kind]]

-----------------------------------------------------------------------------
(* Slots, leases and events.                                                  *)

Lease(id, seed) == [slot |-> id, token |-> seed]

HasCapacity(st, needed) == SlotsTotal - Cardinality(DOMAIN st.slots) >= needed

LiveChildren(st, id) == {c \in DOMAIN st.slots : st.slots[c].parent = id}

\* push_slot_event
PushSlotEvent(st, id) ==
    IF id \in DOMAIN st.slots
    THEN [st EXCEPT !.events = Append(@, <<id, st.slots[id].kind>>)] ELSE st

\* The slot leaves the table and its Empty event goes out.
RemoveSlot(st, id) ==
    [st EXCEPT !.slots = Restrict(@, DOMAIN @ \ {id}), !.events = Append(@, <<id, "Empty">>)]

\* slot / slot_mut, then ensure_paused where the caller asks for it.
LeaseError(st, lease) ==
    IF lease.slot \notin DOMAIN st.slots THEN "not_found"
    ELSE IF st.slots[lease.slot].token # lease.token THEN "failed_precondition" ELSE "none"

PausedError(st, lease) ==
    IF LeaseError(st, lease) # "none" THEN LeaseError(st, lease)
    ELSE IF st.slots[lease.slot].kind # "Paused" THEN "failed_precondition" ELSE "none"

\* allocate_lease and the insertion of the slot; the event is the caller's.
Insert(st, slot) ==
    [st EXCEPT !.next = @ + 1,
               !.slots = [id \in DOMAIN @ \cup {st.next} |-> IF id = st.next THEN slot ELSE @[id]]]

\* Slot::new_root
NewRoot(seed) ==
    [token |-> seed, state |-> InitialState(World), icount |-> 0, frame |-> 0, vns |-> 0,
     base |-> None, parent |-> 0, pending |-> <<>>, log |-> <<>>, kind |-> "Paused"]

\* Slot::clone_as_child
CloneAsChild(slot, seed, parent) == [slot EXCEPT !.token = seed, !.parent = parent, !.kind = "Paused"]

FromSnapshotForgets(ref, pending, seed) ==
    [token |-> seed, state |-> ref.state, icount |-> ref.icount, frame |-> ref.frame,
     vns |-> ref.vns, base |-> ref, parent |-> 0, pending |-> <<>>, log |-> ref.log,
     kind |-> "Paused"]

\* Slot::from_snapshot; next_input_order is the length of the log in every slot.
FromSnapshot(ref, pending, seed) ==
    [token |-> seed, state |-> ref.state, icount |-> ref.icount, frame |-> ref.frame,
     vns |-> ref.vns, base |-> ref, parent |-> 0, pending |-> pending, log |-> ref.log,
     kind |-> "Paused"]

-----------------------------------------------------------------------------
(* Lifecycle.                                                                 *)

CreateVm(st, r) ==
    IF ~HasCapacity(st, 1) THEN Fails(st, "resource_exhausted")
    ELSE Done(PushSlotEvent(Insert(st, NewRoot(r.seed)), st.next), [lease |-> Lease(st.next, r.seed)])

\* Capacity is tested before the snapshot is looked up.
RestoreSnapshot(st, r) ==
    IF ~HasCapacity(st, 1) THEN Fails(st, "resource_exhausted")
    ELSE IF r.snapshot \notin DOMAIN st.snapshots THEN Fails(st, "not_found")
    ELSE Done(PushSlotEvent(Insert(st, FromSnapshot(r.snapshot, st.snapshots[r.snapshot], r.seed)),
                            st.next),
              [lease |-> Lease(st.next, r.seed), state |-> r.snapshot.state,
               frame |-> r.snapshot.frame])

\* ForkRequest::validate, capacity, lease, state; the children copy the parent as it was.
Fork(st, r) ==
    LET parent == r.lease.slot
        frozen == [st EXCEPT !.slots[parent].kind = "Frozen"]
        forked == FoldLeft(LAMBDA s, seed :
                               Insert(s, CloneAsChild(st.slots[parent], seed, parent)),
                           frozen, r.seeds)
        ids    == [i \in DOMAIN r.seeds |-> st.next + i - 1]
    IN  IF r.count = 0 \/ Len(r.seeds) # r.count THEN Fails(st, "invalid_request")
        ELSE IF ~HasCapacity(st, r.count) THEN Fails(st, "resource_exhausted")
        ELSE IF PausedError(st, r.lease) # "none" THEN Fails(st, PausedError(st, r.lease))
        ELSE Done(FoldLeft(PushSlotEvent, forked, <<parent>> \o ids),
                  [leases |-> [i \in DOMAIN ids |-> Lease(ids[i], r.seeds[i])]])

UnfreezeAtOnce(st, parent) ==
    IF parent \notin DOMAIN st.slots THEN st
    ELSE PushSlotEvent([st EXCEPT !.slots[parent].kind = IF @ = "Frozen" THEN "Paused" ELSE @],
                       parent)

\* maybe_unfreeze_parent: the last child is gone.
MaybeUnfreezeParent(st, parent) ==
    IF LiveChildren(st, parent) # {} \/ parent \notin DOMAIN st.slots THEN st
    ELSE PushSlotEvent([st EXCEPT !.slots[parent].kind = IF @ = "Frozen" THEN "Paused" ELSE @],
                       parent)

DestroyVm(st, r) ==
    LET id == r.lease.slot
    IN  IF LeaseError(st, r.lease) # "none" THEN Fails(st, LeaseError(st, r.lease))
        ELSE IF st.slots[id].kind = "Running" \/ LiveChildren(st, id) # {}
             THEN Fails(st, "failed_precondition")
        ELSE Done(IF st.slots[id].parent = 0 THEN RemoveSlot(st, id)
                  ELSE MaybeUnfreezeParent(RemoveSlot(st, id), st.slots[id].parent), [destroyed |-> id])

\* One pass of reclaim_session over the slots without children, in slot order.
ReclaimLeaves(st) ==
    FoldLeft(RemoveSlot, st,
             SetToSortSeq({id \in DOMAIN st.slots : LiveChildren(st, id) = {}}, <))

\* reclaim_session: forks nest at most SlotsTotal deep, and a pass over no slots does nothing.
ReclaimSession(st) == FoldLeft(LAMBDA s, i : ReclaimLeaves(s), st, [i \in 1 .. SlotsTotal |-> i])

-----------------------------------------------------------------------------
(* Inputs and time.                                                           *)

\* event_to_action: the first of these buttons that is pressed.
EventToAction(buttons) ==
    LET order == <<"Right", "Left", "Up", "Down", "Attack">>
        held  == SelectSeq(order, LAMBDA b : b \in buttons)
    IN  IF held = <<>> THEN "Wait" ELSE Head(held)

\* event_frame
EventFrame(e) ==
    CASE e.by = "Frame"  -> e.at
      [] e.by = "Icount" -> Min({e.at \div IcountPerFrame, MaxFrame})
      [] e.by = "Vns"    -> Min({e.at \div VnsPerFrame, MaxFrame})

\* validate_scheduled_event: on the clock it is given on, an input lies in the future.
Schedulable(slot, e) ==
    e.at > (CASE e.by = "Frame" -> slot.frame [] e.by = "Icount" -> slot.icount [] e.by = "Vns" -> slot.vns)

Earlier(p, q) == p.frame < q.frame \/ (p.frame = q.frame /\ p.order < q.order)

\* inject_inputs on one slot: all of them, in order of frame and then of arrival.
Schedule(slot, events) ==
    LET n == Len(slot.log)
        added == [i \in DOMAIN events |-> [frame |-> EventFrame(events[i]), order |-> n + i - 1,
                                           action |-> EventToAction(events[i].buttons)]]
    IN  [slot EXCEPT !.log = @ \o events, !.pending = SortSeq(@ \o added, Earlier)]

InjectInputs(st, r) ==
    IF PausedError(st, r.lease) # "none" THEN Fails(st, PausedError(st, r.lease))
    ELSE IF \E i \in DOMAIN r.events : ~Schedulable(st.slots[r.lease.slot], r.events[i])
         THEN Fails(st, "invalid_request")
    ELSE Done([st EXCEPT !.slots[r.lease.slot] = Schedule(@, r.events)], [scheduled |-> Len(r.events)])

\* How much of a budget fits under the hard cap, both in instructions.
UnderCap(slot, cap, amount) ==
    IF cap = None THEN amount ELSE Min({amount, IF cap <= slot.icount THEN 0 ELSE cap - slot.icount})

CapReason(slot, cap, amount) ==
    IF UnderCap(slot, cap, amount) < amount \/ (cap # None /\ cap <= slot.icount)
    THEN "HardCap" ELSE "BudgetReached"

Ran(slot, error, reason, frames) ==
    [slot |-> slot, error |-> error, reason |-> reason, frames |-> frames]

\* drain_due_actions, and the guest's step on each of them.
PlayDue(slot, end) ==
    LET due == SortSeq(SelectSeq(slot.pending, LAMBDA p : p.frame <= end), Earlier)
    IN  [slot EXCEPT !.state = FoldLeft(LAMBDA s, p : Step(World, s, p.action), @, due),
                     !.pending = SelectSeq(@, LAMBDA p : p.frame > end), !.frame = end]

\* The clocks of a slot move on, the instructions first; each overflow is noticed where it happens.
MoveClocks(slot, icount, vns, reason, frames) ==
    IF slot.icount + icount > MaxClock THEN Ran(slot, "internal", reason, 0)
    ELSE IF slot.vns + vns > MaxClock
         THEN Ran([slot EXCEPT !.icount = @ + icount], "internal", reason, 0)
    ELSE Ran([slot EXCEPT !.icount = @ + icount, !.vns = @ + vns], "none", reason, frames)

\* advance_frames: the guest has moved when an overflow of a clock is noticed.
AdvanceFrames(slot, requested, cap) ==
    LET frames == UnderCap(slot, cap, requested * IcountPerFrame) \div IcountPerFrame
        reason == CapReason(slot, cap, requested * IcountPerFrame)
    IN  IF slot.frame + frames > MaxFrame THEN Ran(slot, "internal", reason, 0)
        ELSE MoveClocks(PlayDue(slot, slot.frame + frames), frames * IcountPerFrame,
                        frames * VnsPerFrame, reason, frames)

\* advance_icount_budget: no frame passes, and no input is played.
AdvanceIcount(slot, budget, cap) ==
    LET amount == UnderCap(slot, cap, budget)
    IN  MoveClocks(slot, amount, amount, CapReason(slot, cap, budget), 0)

\* advance_vns_budget
AdvanceVns(slot, budget) ==
    IF slot.vns + budget > MaxClock THEN Ran(slot, "internal", "BudgetReached", 0)
    ELSE Ran([slot EXCEPT !.vns = @ + budget], "none", "BudgetReached", 0)

\* The end of a run until the goal.
AtGoal(ran) ==
    IF ran.error = "none" /\ GoalReached(World, ran.slot.state)
    THEN [ran EXCEPT !.reason = "GoalSatisfied"] ELSE ran

\* run_slot
RunSlot(slot, until, cap) ==
    CASE until.kind = "NextSdkEvent" -> Ran(slot, "none", "NextSdkEvent", 0)
      [] until.kind = "FrameBudget"  -> AdvanceFrames(slot, until.n, cap)
      [] until.kind = "IcountBudget" -> AdvanceIcount(slot, until.n, cap)
      [] until.kind = "VnsBudget"    -> AdvanceVns(slot, until.n)
      [] until.kind = "Goal" ->
            IF GoalReached(World, slot.state) THEN Ran(slot, "none", "GoalSatisfied", 0)
            ELSE AtGoal(AdvanceFrames(slot, 1, cap))
-----------------------------------------------------------------------------
(* Captures.  A capture is None or a sequence of ranges of the grid region.   *)

RangeError(range) ==
    IF range.region # "grid" \/ range.version # 1 THEN "failed_precondition"
    ELSE IF range.offset + range.len > 5 THEN "invalid_request" ELSE "none"

\* validate_capture_spec: the error of the first range that has one.
CaptureError(capture) ==
    LET bad == IF capture = None THEN {} ELSE {i \in DOMAIN capture : RangeError(capture[i]) # "none"}
    IN  IF bad = {} THEN "none" ELSE RangeError(capture[Min(bad)])

\* capture_response with pack_capture_ranges.
Captured(state, capture) ==
    IF capture = None THEN None
    ELSE FlattenSeq([i \in DOMAIN capture |->
             SubSeq(EncodeGrid(state), capture[i].offset + 1, capture[i].offset + capture[i].len)])

\* The slot's events show it running and paused again, whether or not the guest's clocks overflowed.
Pause(st, id, ran, capture) ==
    LET after == [st EXCEPT !.slots[id] = ran.slot,
                            !.events = @ \o <<<<id, "Running">>, <<id, "Paused">>>>]
    IN  IF ran.error # "none" THEN Fails(after, ran.error)
        ELSE Done(after, [reason |-> ran.reason, frames |-> ran.frames, state |-> ran.slot.state,
                          icount |-> ran.slot.icount, vns |-> ran.slot.vns,
                          features |-> Captured(ran.slot.state, capture)])

\* run: the capture is checked before the slot starts.
Run(st, r) ==
    IF CaptureError(r.capture) # "none" THEN Fails(st, CaptureError(r.capture))
    ELSE IF PausedError(st, r.lease) # "none" THEN Fails(st, PausedError(st, r.lease))
    ELSE Pause(st, r.lease.slot, RunSlot(st.slots[r.lease.slot], r.until, r.cap), r.capture)

\* snapshot_ref: the pending inputs are not part of it.
SnapshotRef(slot) ==
    [state |-> slot.state, icount |-> slot.icount, vns |-> slot.vns, frame |-> slot.frame, log |-> slot.log]

TakeSnapshot(st, r) ==
    LET slot == st.slots[r.lease.slot]
        ref  == SnapshotRef(slot)
    IN  IF PausedError(st, r.lease) # "none" THEN Fails(st, PausedError(st, r.lease))
        ELSE IF CaptureError(r.capture) # "none" THEN Fails(st, CaptureError(r.capture))
        ELSE Done([st EXCEPT !.snapshots = (ref :> slot.pending) @@ @],
                  [snapshot |-> ref, logId |-> IF r.seal THEN slot.log ELSE None,
                   features |-> Captured(slot.state, r.capture)])
=============================================================================
