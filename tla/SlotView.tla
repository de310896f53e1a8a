------------------------------ MODULE SlotView ------------------------------
(* The scheduler's view of the worker's slots (orch-sched/slots.rs), with the *)
(* permits it hands out.  Every step is one critical section of the mutex: on *)
(* the multi-threaded runtime of orchestratord another thread may run between *)
(* the two sections of wake_free_waiters, and between the decrement of Drop   *)
(* and the wake-up that follows it.                                           *)
(*                                                                            *)
(* A slot id is used for one virtual machine only, and live() counts the ids  *)
(* whose last event is not Empty.  So an event is +1 or -1 and live is the    *)
(* sum of the drained events.                                                 *)
(*                                                                            *)
(* A destroy that has used up its attempts gives up: the permit is dropped,   *)
(* the machine stays, counts as live, and belongs to nobody any more.         *)
(* The worker is the one of this repository, which creates exactly the        *)
(* children it is asked for; other answers are in module BatchExecution.      *)
EXTENDS Integers, Sequences, FiniteSets

CONSTANTS
    Tasks,        \* the jobs and batches that ask for permits
    Forkers,      \* the tasks that first try to take Width permits at once
    Width,        \* permits of a fork: the parent and one per child
    SlotsTotal,   \* slots of the worker at the start
    MaxJobs,      \* bound: acquisitions of a task
    MaxUpsets     \* bound: cancelled acquires, changes of the pool, failed RPCs, destroys that give up

ASSUME SlotAssumption ==
    /\ IsFiniteSet(Tasks) /\ "drain" \notin Tasks /\ Forkers \subseteq Tasks
    /\ Width \in Nat \ {0} /\ SlotsTotal \in Nat \ {0}
    /\ MaxJobs \in Nat /\ MaxUpsets \in Nat

VARIABLES
    total, vms, events,                  \* the worker: pool, machines per task, undrained events
    leaked, orphaned,                    \* machines nobody owns, tasks with such a fork child
    capacity, reserved, live, waiters,   \* ViewState
    pc, held, next,                      \* the tasks, and permits in their hands
    hand, newcap,                        \* what the drain task has read and not applied
    jobs, upsets, resized                \* counters of the bounds; has the pool changed?

worker == <<total, vms, events, leaked, orphaned>>
view == <<capacity, reserved, live, waiters>>
task == <<pc, held, next>>
drained == <<hand, newcap>>
bounds == <<jobs, upsets, resized>>
vars == <<worker, view, task, drained, bounds>>

Drain == "drain"
Threads == Tasks \cup {Drain}

Largest(a, b) == IF a > b THEN a ELSE b

\* The permits that exist and the machines that exist, as the set of their holders' tickets.
Permits == {p \in Threads \X (1..Width + 1) : p[2] <= held[p[1]]}
Machines == {p \in Tasks \X (1..Width) : p[2] <= vms[p[1]]}

\* The change of the live count that a sequence of events stands for.
Balance(s) == Cardinality({i \in DOMAIN s : s[i] = 1}) - Cardinality({i \in DOMAIN s : s[i] = -1})

Busy == Largest(reserved, live)
Free == Largest(0, capacity - Busy)

Init ==
    /\ total = SlotsTotal /\ vms = [t \in Tasks |-> 0] /\ events = <<>>
    /\ leaked = 0 /\ orphaned = {}
    /\ capacity = SlotsTotal /\ reserved = 0 /\ live = 0 /\ waiters = <<>>
    /\ pc = [w \in Threads |-> IF w = Drain THEN "sleep" ELSE "idle"]
    /\ held = [w \in Threads |-> 0]
    /\ next = [t \in Tasks |-> "idle"]
    /\ hand = <<>> /\ newcap = SlotsTotal
    /\ jobs = [t \in Tasks |-> 0] /\ upsets = 0 /\ resized = FALSE

Upset == upsets < MaxUpsets /\ upsets' = upsets + 1
Goto(w, label) == pc' = [pc EXCEPT ![w] = label]
Reserve(w) == reserved' = reserved + 1 /\ held' = [held EXCEPT ![w] = @ + 1]
-----------------------------------------------------------------------------
(* Acquiring.                                                                 *)

\* run_batch tries to fork first; run_job acquires one permit, unless the worker has not the job's
\* determinism class.
Begin(t) ==
    /\ pc[t] = "idle" /\ jobs[t] < MaxJobs
    /\ jobs' = [jobs EXCEPT ![t] = @ + 1]
    /\ \/ t \in Forkers /\ Goto(t, "forking")
       \/ t \notin Forkers /\ Goto(t, "acquire")
       \/ t \notin Forkers /\ UNCHANGED pc
    /\ UNCHANGED <<worker, view, held, next, drained, upsets, resized>>

Acquire(t) ==
    /\ pc[t] = "acquire"
    /\ IF Free > 0
       THEN Reserve(t) /\ Goto(t, "holding") /\ UNCHANGED waiters
       ELSE waiters' = Append(waiters, t) /\ Goto(t, "waiting") /\ UNCHANGED <<reserved, held>>
    /\ UNCHANGED <<worker, capacity, live, next, drained, bounds>>

\* receiver.await returns the permit the waker has sent.
Receive(t) ==
    /\ pc[t] = "granted"
    /\ Goto(t, "holding")
    /\ UNCHANGED <<worker, view, held, next, drained, bounds>>

\* The acquire future is dropped.  Its sender stays queued; a permit already sent is dropped.
Cancel(t) ==
    /\ Upset /\ pc[t] \in {"waiting", "granted"}
    /\ Goto(t, IF pc[t] = "waiting" THEN "cancelled" ELSE "release")
    /\ UNCHANGED <<worker, view, held, next, drained, jobs, resized>>

\* One try_acquire of a fork.  A refusal, or a class mismatch at the end, drops what was taken;
\* after a refusal the batch falls back to acquire.
TryAcquire(t) ==
    /\ pc[t] = "forking" /\ held[t] < Width
    /\ IF Free > 0
       THEN Reserve(t) /\ UNCHANGED <<pc, next>>
       ELSE /\ next' = [next EXCEPT ![t] = IF held[t] > 0 THEN "acquire" ELSE @]
            /\ Goto(t, IF held[t] > 0 THEN "release" ELSE "acquire")
            /\ UNCHANGED <<reserved, held>>
    /\ UNCHANGED <<worker, capacity, live, waiters, drained, bounds>>

ForkReady(t) ==
    /\ pc[t] = "forking" /\ held[t] = Width
    /\ Goto(t, "holding") \/ Goto(t, "release")
    /\ UNCHANGED <<worker, view, held, next, drained, bounds>>
-----------------------------------------------------------------------------
(* The machines of a permit holder.                                           *)

Room(n) == Cardinality(Machines) + leaked + n <= total

\* RestoreSnapshot; without room the worker answers RESOURCE_EXHAUSTED and run_job asks again.
Restore(t) ==
    /\ pc[t] = "holding" /\ next[t] # "done" /\ vms[t] = 0 /\ Room(1)
    /\ vms' = [vms EXCEPT ![t] = 1]
    /\ events' = Append(events, 1)
    /\ next' = [next EXCEPT ![t] = IF held[t] = 1 THEN "done" ELSE @]
    /\ UNCHANGED <<total, leaked, orphaned, view, pc, held, drained, bounds>>

\* Another error of the restore, or the deadline of a retried job: the permit is dropped and there was
\* no machine.  A batch that meant to fork takes every error, RESOURCE_EXHAUSTED too, and acquires.
RestoreFails(t) ==
    /\ pc[t] = "holding" /\ next[t] # "done" /\ vms[t] = 0
    /\ \/ Upset
       \/ held[t] > 1 /\ ~Room(1) /\ UNCHANGED upsets
    /\ next' = [next EXCEPT ![t] = IF held[t] > 1 THEN "acquire" ELSE @]
    /\ Goto(t, "release")
    /\ UNCHANGED <<worker, view, held, drained, jobs, resized>>

\* One ForkRequest creates all children of the restored parent.
Fork(t) ==
    /\ pc[t] = "holding" /\ next[t] # "done" /\ vms[t] = 1 /\ Room(held[t] - 1)
    /\ vms' = [vms EXCEPT ![t] = held[t]]
    /\ events' = events \o [i \in 1..held[t] - 1 |-> 1]
    /\ next' = [next EXCEPT ![t] = "done"]
    /\ UNCHANGED <<total, leaked, orphaned, view, pc, held, drained, bounds>>

\* destroy_with_retry of one machine of t: it is gone, or every attempt has failed and it is left.  The
\* worker refuses to destroy a parent with a live child, so the parent, always the last one, is left
\* too when a child was.
Destroyed(t) ==
    /\ vms' = [vms EXCEPT ![t] = @ - 1] /\ events' = Append(events, -1)
    /\ UNCHANGED <<leaked, orphaned, upsets>>
Leaks(t) ==
    /\ vms' = [vms EXCEPT ![t] = @ - 1] /\ leaked' = leaked + 1
    /\ orphaned' = IF vms[t] > 1 THEN orphaned \cup {t} ELSE orphaned \ {t}
    /\ UNCHANGED events
Destroy(t) ==
    IF vms[t] = 1 /\ t \in orphaned THEN Leaks(t) /\ UNCHANGED upsets
    ELSE Destroyed(t) \/ (Upset /\ Leaks(t))

\* A fork that meets RESOURCE_EXHAUSTED or another error: the parent is to be destroyed and the permits
\* dropped; then the batch, or the retry of its jobs, acquires.
ForkFails(t) ==
    /\ pc[t] = "holding" /\ next[t] # "done" /\ held[t] > 1 /\ vms[t] = 1
    /\ IF Room(held[t] - 1) THEN Upset ELSE UNCHANGED upsets
    /\ next' = [next EXCEPT ![t] = "acquire"]
    /\ Goto(t, "undo")
    /\ UNCHANGED <<worker, view, held, drained, jobs, resized>>

DestroyVmAfterDrop(t) ==
    /\ pc[t] = "undo" \/ (pc[t] = "holding" /\ next[t] = "done" /\ vms[t] > 0)
    /\ Goto(t, "release")
    /\ UNCHANGED <<worker, view, held, next, drained, bounds>>

\* DestroyVm, then drop(permit), also when the destroy has given up.
DestroyVm(t) ==
    /\ pc[t] = "undo" \/ (pc[t] = "holding" /\ next[t] = "done" /\ vms[t] > 0)
    /\ Destroy(t)
    /\ Goto(t, "release")
    /\ UNCHANGED <<total, view, held, next, drained, jobs, resized>>
-----------------------------------------------------------------------------
(* Releasing and waking.                                                      *)

\* Drop for SlotPermit: the first critical section.
Release(w) ==
    /\ pc[w] = "release"
    /\ reserved' = Largest(0, reserved - 1)
    /\ held' = [held EXCEPT ![w] = @ - 1]
    /\ Goto(w, "wake")
    /\ UNCHANGED <<worker, capacity, live, waiters, next, drained, bounds>>

\* The top of the loop of wake_free_waiters: stop, or reserve for the head of the queue.
WakeStop(w) ==
    /\ pc[w] = "wake" /\ (Free = 0 \/ waiters = <<>>)
    /\ IF w = Drain
       THEN Goto(w, "sleep") /\ UNCHANGED next
       ELSE IF held[w] > 0
       THEN Goto(w, IF next[w] = "done" THEN "holding" ELSE "release") /\ UNCHANGED next
       ELSE /\ Goto(w, IF next[w] = "acquire" THEN "acquire" ELSE "idle")
            /\ next' = [next EXCEPT ![w] = "idle"]
    /\ UNCHANGED <<worker, view, held, drained, bounds>>

WakeReserve(w) ==
    /\ pc[w] = "wake" /\ Free > 0 /\ waiters # <<>>
    /\ Reserve(w) /\ Goto(w, "gap")
    /\ UNCHANGED <<worker, capacity, live, waiters, next, drained, bounds>>

WakePopForgets(w) ==
    /\ pc[w] = "gap"
    /\ held' = [held EXCEPT ![w] = @ - 1]
    /\ waiters' = IF waiters = <<>> THEN waiters ELSE Tail(waiters)
    /\ Goto(w, "wake")
    /\ UNCHANGED <<worker, capacity, reserved, live, next, drained, bounds>>

\* The second critical section and the send.  Nobody left to wake, or a cancelled receiver: the
\* permit is dropped, which wakes again.
WakePop(w) ==
    /\ pc[w] = "gap"
    /\ IF waiters = <<>>
       THEN Goto(w, "release") /\ UNCHANGED <<waiters, held>>
       ELSE LET h == Head(waiters) IN
            /\ waiters' = Tail(waiters)
            /\ IF pc[h] = "waiting"
               THEN /\ pc' = [pc EXCEPT ![w] = "wake", ![h] = "granted"]
                    /\ held' = [held EXCEPT ![w] = @ - 1, ![h] = @ + 1]
               ELSE Goto(w, "release") /\ UNCHANGED held
    /\ UNCHANGED <<worker, capacity, reserved, live, next, drained, bounds>>
-----------------------------------------------------------------------------
(* The drain task, and the worker's pool.                                     *)

\* WatchSlots returns the events past its cursor, or a prefix of them, or fails and returns none.
DrainWatch ==
    /\ pc[Drain] = "sleep"
    /\ \E n \in 0..Len(events) :
        /\ IF n < Len(events) THEN Upset ELSE UNCHANGED upsets
        /\ hand' = SubSeq(events, 1, n)
        /\ events' = SubSeq(events, n + 1, Len(events))
    /\ Goto(Drain, "info")
    /\ UNCHANGED <<total, vms, leaked, orphaned, view, held, next, newcap, jobs, resized>>

\* The second RPC of the drain reads the capacity, which may be stale when it is applied.
DrainInfo ==
    /\ pc[Drain] = "info"
    /\ \/ newcap' = total /\ UNCHANGED upsets
       \/ Upset /\ newcap' = capacity
    /\ Goto(Drain, "apply")
    /\ UNCHANGED <<worker, view, held, next, hand, jobs, resized>>

DrainApplySilently ==
    /\ pc[Drain] = "apply"
    /\ live' = live + Balance(hand) /\ capacity' = newcap
    /\ hand' = <<>>
    /\ Goto(Drain, "sleep")
    /\ UNCHANGED <<worker, reserved, waiters, held, next, newcap, bounds>>

DrainApply ==
    /\ pc[Drain] = "apply"
    /\ live' = live + Balance(hand) /\ capacity' = newcap
    /\ hand' = <<>>
    /\ Goto(Drain, "wake")
    /\ UNCHANGED <<worker, reserved, waiters, held, next, newcap, bounds>>

\* The operator of the worker shrinks or grows the pool; machines that exist stay.
SetSlotsTotal ==
    /\ Upset /\ resized' = TRUE
    /\ total' \in (1..SlotsTotal + 1) \ {total}
    /\ UNCHANGED <<vms, events, leaked, orphaned, view, task, drained, jobs>>
-----------------------------------------------------------------------------
TaskStep(t) ==
    \/ Acquire(t) \/ Receive(t) \/ TryAcquire(t) \/ ForkReady(t)
    \/ Restore(t) \/ RestoreFails(t) \/ Fork(t) \/ ForkFails(t) \/ DestroyVm(t)
WakeStep(w) == Release(w) \/ WakeStop(w) \/ WakeReserve(w) \/ WakePop(w)
DrainStep == DrainWatch \/ DrainInfo \/ DrainApply

Next ==
    \/ \E t \in Tasks : Begin(t) \/ Cancel(t) \/ TaskStep(t)
    \/ \E w \in Threads : WakeStep(w)
    \/ DrainStep
    \/ SetSlotsTotal

Spec == Init /\ [][Next]_vars

\* Every spawned task and the drain loop are scheduled, and every RPC returns.
FairSpec ==
    /\ Spec /\ WF_vars(DrainStep)
    /\ \A t \in Tasks : WF_vars(TaskStep(t))
    /\ \A w \in Threads : WF_vars(WakeStep(w))
-----------------------------------------------------------------------------
\* reserved counts exactly the permits that exist, in whoever's hands or channel they are: the
\* saturating_sub of Drop never hides a double release, and no path forgets a permit.  While the pool
\* keeps its size, what a permit holder has still to create fits beside the machines that have an
\* owner, because their permits outlive them: a holder meets RESOURCE_EXHAUSTED only because of
\* machines whose destroy gave up, which no permit covers.
ReservedExact ==
    /\ reserved = Cardinality(Permits)
    /\ ~resized => /\ reserved <= total
                   /\ \A t \in Tasks : pc[t] = "holding" /\ next[t] # "done" =>
                         Cardinality(Machines) + (held[t] - vms[t]) <= total

\* A task that queued for a slot is served or cancelled in the end, although capacity, live slots and
\* reservations are changed by different threads and each change must wake the queue.  It waits for
\* ever only if machines whose destroy gave up fill the pool for ever.
EventuallyServed == \A t \in Tasks : <>[](pc[t] = "waiting") => <>[](leaked >= total)
=============================================================================
