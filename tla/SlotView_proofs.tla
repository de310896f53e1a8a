---------------------------- MODULE SlotView_proofs ----------------------------
(* For any tasks, pool and width of a fork: the view counts the permits there *)
(* are, and a permit is worth a slot among the machines that have an owner.   *)
(* Machines whose destroy gave up have none, and no permit covers them.       *)
EXTENDS SlotView, FiniteSetTheorems, TLAPS

\* Seconds a leaf may take on a loaded machine.
USE SMTT(20), ZenonT(30)

Labels == {"idle", "forking", "acquire", "waiting", "granted", "cancelled", "holding",
           "undo", "release", "wake", "gap", "sleep", "info", "apply"}

TypeOK ==
    /\ total \in Nat /\ vms \in [Tasks -> 0 .. Width] /\ events \in Seq({1, -1})
    /\ capacity \in Nat /\ reserved \in Nat /\ live \in Int /\ waiters \in Seq(Tasks)
    /\ pc \in [Threads -> Labels] /\ held \in [Threads -> 0 .. Width]
    /\ next \in [Tasks -> {"idle", "acquire", "done"}]
    /\ hand \in Seq({1, -1}) /\ newcap \in Nat
    /\ jobs \in [Tasks -> Nat] /\ upsets \in Nat /\ resized \in BOOLEAN
    /\ leaked \in Nat /\ orphaned \subseteq Tasks

\* How many permits a thread has at each point of its way.
HeldInv ==
    /\ \A t \in Tasks :
        /\ pc[t] \in {"idle", "acquire", "waiting", "cancelled"} => held[t] = 0
        /\ pc[t] = "granted" => held[t] = 1
        /\ pc[t] \in {"holding", "undo", "release", "gap"} => held[t] >= 1
        /\ pc[t] = "wake" => held[t] < Width
    /\ pc[Drain] \in {"sleep", "info", "apply", "wake"} => held[Drain] = 0
    /\ pc[Drain] \in {"release", "gap"} => held[Drain] = 1
    /\ pc[Drain] \in {"sleep", "info", "apply", "wake", "release", "gap"}

\* A machine that has an owner is covered by a permit of the owner, who gives it back only after the
\* destroy of the machine has succeeded or given up.
Covered ==
    \A t \in Tasks :
        /\ vms[t] <= held[t]
        /\ pc[t] \in {"release", "gap"} => vms[t] < held[t]
        /\ pc[t] = "undo" => vms[t] = 1
        /\ pc[t] \notin {"holding", "undo", "release", "wake", "gap"} => vms[t] = 0
        /\ pc[t] \in {"release", "wake", "gap"} /\ next[t] # "done" => vms[t] = 0

Counted ==
    /\ reserved = Cardinality(Permits)
    /\ ~resized => capacity = total /\ newcap = total /\ reserved <= total

IInv == TypeOK /\ HeldInv /\ Covered /\ Counted
-----------------------------------------------------------------------------
(* Counting permits.                                                          *)

\* The permits of an assignment f of permits to threads.
PermitsOf(f) == {p \in Threads \X (1..Width + 1) : p[2] <= f[p[1]]}

\* A fork takes one permit at least, and the drain task is none of the job tasks.
LEMMA WidthType == Width \in Nat /\ Width >= 1 /\ Drain \notin Tasks
BY SlotAssumption DEF Drain

\* Permits are finitely many.
LEMMA PermitsFinite ==
    ASSUME NEW f
    PROVE  IsFiniteSet(PermitsOf(f)) /\ Cardinality(PermitsOf(f)) \in Nat
<1>1. IsFiniteSet(Threads)
  BY SlotAssumption, FS_AddElement DEF Threads
<1>2. IsFiniteSet(1..Width + 1)
  BY WidthType, FS_Interval
<1>3. IsFiniteSet(Threads \X (1..Width + 1))
  BY <1>1, <1>2, FS_Product, Zenon
<1>4. PermitsOf(f) \subseteq Threads \X (1..Width + 1)
  BY DEF PermitsOf
<1>5. IsFiniteSet(PermitsOf(f))
  BY <1>3, <1>4, FS_Subset
<1>. QED
  BY <1>5, FS_CardinalityType

\* One more permit in one hand is one more permit.
LEMMA Gain ==
    ASSUME NEW f \in [Threads -> 0 .. Width], NEW w \in Threads
    PROVE  Cardinality(PermitsOf([f EXCEPT ![w] = @ + 1])) = Cardinality(PermitsOf(f)) + 1
<1>. DEFINE g == [f EXCEPT ![w] = @ + 1]
            x == <<w, f[w] + 1>>
<1>1. x \notin PermitsOf(f)
  BY WidthType DEF PermitsOf
<1>2. PermitsOf(g) = PermitsOf(f) \cup {x}
  <2>1. ASSUME NEW p \in Threads \X (1..Width + 1)
        PROVE  p[2] <= g[p[1]] <=> (p[2] <= f[p[1]] \/ p = x)
    <3>1. PICK v \in Threads, i \in 1..Width + 1 : p = <<v, i>>
      OBVIOUS
    <3>2. CASE v = w
      BY <3>1, <3>2, WidthType
    <3>3. CASE v # w
      BY <3>1, <3>3, WidthType
    <3>. QED
      BY <3>2, <3>3
  <2>2. x \in Threads \X (1..Width + 1)
    BY WidthType
  <2>. QED
    BY <2>1, <2>2 DEF PermitsOf
<1>3. Cardinality(PermitsOf(f) \cup {x}) = Cardinality(PermitsOf(f)) + 1
  BY <1>1, PermitsFinite, FS_AddElement
<1>. QED
  BY <1>2, <1>3, Zenon

\* One permit less in one hand is one permit less, and there was one.
LEMMA Lose ==
    ASSUME NEW f \in [Threads -> 0 .. Width], NEW w \in Threads, f[w] >= 1
    PROVE  /\ Cardinality(PermitsOf([f EXCEPT ![w] = @ - 1])) = Cardinality(PermitsOf(f)) - 1
           /\ Cardinality(PermitsOf(f)) >= 1
<1>1. PICK g : g = [f EXCEPT ![w] = @ - 1]
  BY Zenon
<1>2. g \in [Threads -> 0 .. Width]
  BY <1>1, WidthType
<1>3. f = [g EXCEPT ![w] = @ + 1]
  <2>1. PICK h : h = [g EXCEPT ![w] = @ + 1]
    BY Zenon
  <2>2. h \in [Threads -> Int] /\ \A v \in Threads : h[v] = f[v]
    BY <1>1, <1>2, <2>1, WidthType
  <2>3. f \in [Threads -> Int]
    BY WidthType
  <2>. QED
    BY <2>1, <2>2, <2>3
<1>4. Cardinality(PermitsOf(f)) = Cardinality(PermitsOf(g)) + 1
  BY <1>2, <1>3, Gain, Zenon
<1>5. Cardinality(PermitsOf(g)) \in Nat
  BY PermitsFinite
<1>. QED
  BY <1>1, <1>4, <1>5

-----------------------------------------------------------------------------
(* Types.                                                                     *)

\* The number of free slots is positive only if not all slots are reserved.
LEMMA FreeMeansRoom ==
    ASSUME TypeOK, Free > 0
    PROVE  reserved < capacity
BY DEF TypeOK, Free, Busy, Largest

\* The change of the live count is an integer.
LEMMA BalanceType ==
    ASSUME NEW s \in Seq({1, -1})
    PROVE  Balance(s) \in Int
<1>1. IsFiniteSet(DOMAIN s)
  BY FS_Interval
<1>2. ASSUME NEW c PROVE Cardinality({i \in DOMAIN s : s[i] = c}) \in Nat
  <2>1. {i \in DOMAIN s : s[i] = c} \subseteq DOMAIN s
    OBVIOUS
  <2>2. IsFiniteSet({i \in DOMAIN s : s[i] = c})
    BY <1>1, <2>1, FS_Subset
  <2>. QED
    BY <2>2, FS_CardinalityType
<1>3. /\ Cardinality({i \in DOMAIN s : s[i] = 1}) \in Nat
      /\ Cardinality({i \in DOMAIN s : s[i] = -1}) \in Nat
  BY <1>2, Zenon
<1>. QED
  BY <1>3 DEF Balance

\* Where the threads are, how many permits and machines they have.
TypeTasks ==
    /\ pc \in [Threads -> Labels] /\ held \in [Threads -> 0 .. Width]
    /\ vms \in [Tasks -> 0 .. Width] /\ next \in [Tasks -> {"idle", "acquire", "done"}]

\* Threads that are not w keep their place, and what they hold.
Others(w) ==
    /\ \A v \in Threads : v # w => pc'[v] = pc[v] /\ held'[v] = held[v]
    /\ \A t \in Tasks : t # w => vms'[t] = vms[t] /\ next'[t] = next[t]

\* What a step of one thread has to show.
Local(w) ==
    /\ TypeTasks' /\ Others(w)
    /\ w \in Tasks =>
        /\ pc'[w] \in {"idle", "acquire", "waiting", "cancelled"} => held'[w] = 0
        /\ pc'[w] = "granted" => held'[w] = 1
        /\ pc'[w] \in {"holding", "undo", "release", "gap"} => held'[w] >= 1
        /\ pc'[w] = "wake" => held'[w] < Width
        /\ vms'[w] <= held'[w]
        /\ pc'[w] \in {"release", "gap"} => vms'[w] < held'[w]
        /\ pc'[w] = "undo" => vms'[w] = 1
        /\ pc'[w] \notin {"holding", "undo", "release", "wake", "gap"} => vms'[w] = 0
        /\ pc'[w] \in {"release", "wake", "gap"} /\ next'[w] # "done" => vms'[w] = 0
    /\ w = Drain =>
        /\ pc'[w] \in {"sleep", "info", "apply", "wake"} => held'[w] = 0
        /\ pc'[w] \in {"release", "gap"} => held'[w] = 1
        /\ pc'[w] \in {"sleep", "info", "apply", "wake", "release", "gap"}

\* A step that keeps what its threads hold in order, and leaves the others alone, keeps it for all.
LEMMA LocalIsEnough ==
    ASSUME TypeOK, HeldInv, Covered, NEW w \in Threads, Local(w)
    PROVE  TypeTasks' /\ HeldInv' /\ Covered'
<1>1. \A t \in Tasks : t \in Threads
  BY DEF Threads
<1>2. Drain \in Threads
  BY DEF Threads
<1>. QED
  BY <1>1, <1>2, WidthType DEF Local, Others, HeldInv, Covered, Threads

\* A destroy takes the machine from its owner, whether it succeeds or gives up.
LEMMA DestroyTakes ==
    ASSUME NEW t \in Tasks, Destroy(t)
    PROVE  vms' = [vms EXCEPT ![t] = @ - 1]
BY DEF Destroy, Destroyed, Leaks

\* The steps of one task before it wakes others.
LEMMA TaskLocal ==
    ASSUME TypeOK, HeldInv, Covered, NEW t \in Tasks, Begin(t) \/ Cancel(t) \/ TaskStep(t)
    PROVE  Local(t)
<1>. USE WidthType DEF TypeOK, TypeTasks, Others, Local, Threads, Labels, Goto
<1>1. CASE Begin(t)
  BY <1>1, Zenon DEF Begin, worker, HeldInv, Covered
<1>2. CASE Cancel(t)
  BY <1>2 DEF Cancel, worker, HeldInv, Covered
<1>3. CASE Acquire(t)
  <2>1. CASE Free > 0
    <3>1. /\ pc[t] = "acquire" /\ held[t] = 0 /\ vms[t] = 0 /\ UNCHANGED <<vms, next>>
          /\ held' = [held EXCEPT ![t] = @ + 1] /\ pc' = [pc EXCEPT ![t] = "holding"]
      BY <1>3, <2>1 DEF Acquire, Reserve, worker, HeldInv, Covered
    <3>. QED
      BY <3>1
  <2>2. CASE ~(Free > 0)
    BY <1>3, <2>2, Zenon DEF Acquire, worker, HeldInv, Covered
  <2>. QED
    BY <2>1, <2>2, Zenon
<1>4. CASE Receive(t)
  BY <1>4 DEF Receive, worker, HeldInv, Covered
<1>5. CASE TryAcquire(t)
  <2>1. CASE Free > 0
    <3>1. /\ pc[t] = "forking" /\ held[t] < Width /\ vms[t] = 0 /\ UNCHANGED <<vms, next, pc>>
          /\ held' = [held EXCEPT ![t] = @ + 1]
      BY <1>5, <2>1, Zenon DEF TryAcquire, Reserve, worker, Covered
    <3>. QED
      BY <3>1
  <2>2. CASE ~(Free > 0) /\ held[t] > 0
    <3>1. /\ vms[t] = 0 /\ UNCHANGED <<vms, held>> /\ pc' = [pc EXCEPT ![t] = "release"]
          /\ next' = [next EXCEPT ![t] = "acquire"]
      BY <1>5, <2>2, Zenon DEF TryAcquire, worker, Covered
    <3>. QED
      BY <2>2, <3>1
  <2>3. CASE ~(Free > 0) /\ ~(held[t] > 0)
    <3>1. /\ vms[t] = 0 /\ UNCHANGED <<vms, held>> /\ pc' = [pc EXCEPT ![t] = "acquire"]
          /\ next' = [next EXCEPT ![t] = @]
      BY <1>5, <2>3 DEF TryAcquire, worker, Covered
    <3>. QED
      BY <2>3, <3>1
  <2>. QED
    BY <2>1, <2>2, <2>3, Zenon
<1>6. CASE ForkReady(t)
  <2>1. CASE Goto(t, "holding")
    BY <1>6, <2>1 DEF ForkReady, worker, HeldInv, Covered
  <2>2. CASE Goto(t, "release")
    <3>1. /\ held[t] = Width /\ vms[t] = 0 /\ UNCHANGED <<vms, held, next>>
          /\ pc' = [pc EXCEPT ![t] = "release"]
      BY <1>6, <2>2, Zenon DEF ForkReady, worker, Covered
    <3>. QED
      BY <3>1
  <2>. QED
    BY <1>6, <2>1, <2>2 DEF ForkReady
<1>7. CASE Restore(t)
  BY <1>7 DEF Restore, HeldInv, Covered
<1>8. CASE Fork(t)
  BY <1>8 DEF Fork, HeldInv, Covered
<1>9. CASE RestoreFails(t)
  <2>1. /\ pc[t] = "holding" /\ next[t] # "done" /\ vms[t] = 0 /\ UNCHANGED <<vms, held>>
        /\ pc' = [pc EXCEPT ![t] = "release"]
        /\ next' = [next EXCEPT ![t] = IF held[t] > 1 THEN "acquire" ELSE @]
    BY <1>9, Zenon DEF RestoreFails, worker
  <2>. QED
    BY <2>1 DEF HeldInv
<1>10. CASE ForkFails(t)
  BY <1>10 DEF ForkFails, worker, HeldInv, Covered
<1>11. CASE DestroyVm(t)
  <2>1. /\ vms' = [vms EXCEPT ![t] = @ - 1] /\ UNCHANGED <<held, next>>
        /\ pc' = [pc EXCEPT ![t] = "release"]
    BY <1>11, DestroyTakes, Zenon DEF DestroyVm
  <2>2. held[t] >= 1 /\ vms[t] >= 1 /\ vms[t] <= held[t] /\ (next[t] # "done" => vms[t] = 1)
    BY <1>11 DEF DestroyVm, HeldInv, Covered
  <2>. QED
    BY <2>1, <2>2
<1>. QED
  BY <1>1, <1>2, <1>3, <1>4, <1>5, <1>6, <1>7, <1>8, <1>9, <1>10, <1>11, Zenon DEF TaskStep

\* The steps of a thread that gives a permit back or wakes others, but for the one that hands a permit on.
LEMMA WakeLocal ==
    ASSUME TypeOK, HeldInv, Covered, NEW w \in Threads,
           \/ Release(w) \/ WakeStop(w) \/ WakeReserve(w)
           \/ WakePop(w) /\ (waiters = <<>> \/ pc[Head(waiters)] # "waiting")
    PROVE  Local(w)
<1>. USE WidthType DEF TypeOK, TypeTasks, Others, Local, Threads, Labels, Goto
<1>1. CASE Release(w)
  BY <1>1 DEF Release, worker, HeldInv, Covered
<1>2. CASE WakeStop(w)
  <2>1. CASE w = Drain
    BY <1>2, <2>1 DEF WakeStop, worker, HeldInv, Covered
  <2>2. CASE w # Drain /\ held[w] > 0
    <3>1. /\ pc[w] = "wake" /\ UNCHANGED <<vms, held, next>> /\ w \in Tasks
          /\ pc' = [pc EXCEPT ![w] = IF next[w] = "done" THEN "holding" ELSE "release"]
      BY <1>2, <2>2 DEF WakeStop, worker
    <3>2. vms[w] <= held[w] /\ (next[w] # "done" => vms[w] = 0)
      BY <3>1 DEF Covered
    <3>. QED
      BY <2>2, <3>1, <3>2
  <2>3. CASE w # Drain /\ ~(held[w] > 0)
    <3>1. /\ UNCHANGED <<vms, held>> /\ w \in Tasks /\ next' = [next EXCEPT ![w] = "idle"]
          /\ pc' = [pc EXCEPT ![w] = IF next[w] = "acquire" THEN "acquire" ELSE "idle"]
      BY <1>2, <2>3 DEF WakeStop, worker
    <3>2. held[w] = 0 /\ vms[w] = 0
      BY <2>3, <3>1 DEF Covered
    <3>. QED
      BY <3>1, <3>2
  <2>. QED
    BY <2>1, <2>2, <2>3, Zenon
<1>3. CASE WakeReserve(w)
  BY <1>3 DEF WakeReserve, Reserve, worker, HeldInv, Covered
<1>4. CASE WakePop(w) /\ (waiters = <<>> \/ pc[Head(waiters)] # "waiting")
  <2>1. /\ pc[w] = "gap" /\ pc' = [pc EXCEPT ![w] = "release"] /\ UNCHANGED <<held, next, vms>>
    BY <1>4 DEF WakePop, worker
  <2>. QED
    BY <2>1 DEF HeldInv, Covered
<1>. QED
  BY <1>1, <1>2, <1>3, <1>4, Zenon

\* The drain task keeps what it holds in order.
LEMMA DrainLocal ==
    ASSUME TypeOK, HeldInv, Covered, DrainStep
    PROVE  Local(Drain)
<1>. USE WidthType DEF TypeOK, TypeTasks, Others, Local, Threads, Labels, Goto
<1>1. CASE DrainWatch
  BY <1>1 DEF DrainWatch, HeldInv
<1>2. CASE DrainInfo
  BY <1>2 DEF DrainInfo, worker, HeldInv
<1>3. CASE DrainApply
  BY <1>3 DEF DrainApply, worker, HeldInv
<1>. QED
  BY <1>1, <1>2, <1>3 DEF DrainStep

\* A permit goes from the thread that wakes to the head of the queue.
HandsOn(w, h) ==
    /\ pc[w] = "gap" /\ pc[h] = "waiting" /\ waiters' = Tail(waiters)
    /\ pc' = [pc EXCEPT ![w] = "wake", ![h] = "granted"]
    /\ held' = [held EXCEPT ![w] = @ - 1, ![h] = @ + 1]

\* A permit that is handed to a waiter is the waiter's.
LEMMA HandOver ==
    ASSUME TypeOK, HeldInv, Covered, NEW w \in Threads, NEW h \in Tasks, HandsOn(w, h),
           UNCHANGED <<vms, next>>
    PROVE  TypeTasks' /\ HeldInv' /\ Covered'
<1>. USE WidthType DEF TypeOK, Threads, Labels
<1>1. w # h /\ held[h] = 0 /\ held[w] >= 1
  BY DEF HandsOn, HeldInv
<1>2. /\ pc'[w] = "wake" /\ held'[w] = held[w] - 1 /\ pc'[h] = "granted" /\ held'[h] = 1
      /\ \A v \in Threads : v # w /\ v # h => pc'[v] = pc[v] /\ held'[v] = held[v]
  BY <1>1 DEF HandsOn
<1>3. TypeTasks'
  <2>1. pc' \in [Threads -> Labels]
    BY Zenon DEF HandsOn
  <2>2. held' \in [Threads -> Int] /\ \A v \in Threads : held'[v] \in 0 .. Width
    <3>1. DOMAIN held' = Threads /\ held' = [v \in Threads |-> held'[v]]
      BY Zenon DEF HandsOn
    <3>2. ASSUME NEW v \in Threads PROVE held'[v] \in 0 .. Width
      <4>1. held[w] \in 0 .. Width /\ held[v] \in 0 .. Width
        OBVIOUS
      <4>2. CASE v = w
        BY <1>1, <1>2, <4>1, <4>2
      <4>3. CASE v = h
        BY <1>2, <4>3
      <4>4. CASE v # w /\ v # h
        BY <1>2, <4>1, <4>4
      <4>. QED
        BY <4>2, <4>3, <4>4
    <3>. QED
      BY <3>1, <3>2
  <2>. QED
    BY <2>1, <2>2 DEF TypeTasks
<1>4. HeldInv'
  <2>1. ASSUME NEW t \in Tasks
        PROVE  /\ pc'[t] \in {"idle", "acquire", "waiting", "cancelled"} => held'[t] = 0
               /\ pc'[t] = "granted" => held'[t] = 1
               /\ pc'[t] \in {"holding", "undo", "release", "gap"} => held'[t] >= 1
               /\ pc'[t] = "wake" => held'[t] < Width
    <3>1. CASE t = w
      BY <1>2, <3>1
    <3>2. CASE t = h
      BY <1>2, <3>2, Zenon
    <3>3. CASE t # w /\ t # h
      BY <1>2, <3>3, Zenon DEF HeldInv
    <3>. QED
      BY <3>1, <3>2, <3>3
  <2>2. CASE w = Drain
    <3>1. held[Drain] = 1
      BY <2>2 DEF HandsOn, HeldInv
    <3>2. pc'[Drain] = "wake" /\ held'[Drain] = 0
      BY <1>2, <2>2, <3>1
    <3>. QED
      BY <2>1, <3>2 DEF HeldInv
  <2>3. CASE w # Drain
    BY <1>1, <1>2, <2>1, <2>3, Zenon DEF HeldInv
  <2>. QED
    BY <2>2, <2>3
<1>5. Covered'
  BY <1>1, <1>2 DEF HeldInv, Covered, HandsOn
<1>. QED
  BY <1>3, <1>4, <1>5

\* Every step keeps what the threads hold in order.
LEMMA ThreadsStep ==
    ASSUME TypeOK, HeldInv, Covered, [Next]_vars
    PROVE  TypeTasks' /\ HeldInv' /\ Covered'
<1>1. ASSUME NEW t \in Tasks, Begin(t) \/ Cancel(t) \/ TaskStep(t)
      PROVE  TypeTasks' /\ HeldInv' /\ Covered'
  BY <1>1, TaskLocal, LocalIsEnough DEF Threads
<1>2. ASSUME NEW w \in Threads, WakeStep(w) PROVE TypeTasks' /\ HeldInv' /\ Covered'
  <2>1. CASE WakePop(w) /\ ~(waiters = <<>> \/ pc[Head(waiters)] # "waiting")
    <3>1. HandsOn(w, Head(waiters)) /\ UNCHANGED <<vms, next>>
      BY <2>1 DEF WakePop, HandsOn, worker
    <3>2. Head(waiters) \in Tasks
      BY <2>1 DEF TypeOK
    <3>. QED
      BY <3>1, <3>2, HandOver
  <2>2. CASE \/ Release(w) \/ WakeStop(w) \/ WakeReserve(w)
             \/ WakePop(w) /\ (waiters = <<>> \/ pc[Head(waiters)] # "waiting")
    BY <2>2, WakeLocal, LocalIsEnough
  <2>. QED
    BY <1>2, <2>1, <2>2 DEF WakeStep
<1>3. CASE DrainStep
  BY <1>3, DrainLocal, LocalIsEnough DEF Threads
<1>4. CASE SetSlotsTotal \/ UNCHANGED vars
  BY <1>4 DEF SetSlotsTotal, vars, task, worker, TypeOK, TypeTasks, HeldInv, Covered
<1>. QED
  BY <1>1, <1>2, <1>3, <1>4 DEF Next

-----------------------------------------------------------------------------
(* The view.                                                                  *)

TypeRest ==
    /\ total \in Nat /\ events \in Seq({1, -1}) /\ capacity \in Nat /\ live \in Int
    /\ waiters \in Seq(Tasks) /\ hand \in Seq({1, -1}) /\ newcap \in Nat
    /\ jobs \in [Tasks -> Nat] /\ upsets \in Nat /\ resized \in BOOLEAN
    /\ leaked \in Nat /\ orphaned \subseteq Tasks

\* Every step keeps the types of the view and the pool.
LEMMA TypeRestStep ==
    ASSUME TypeOK, HeldInv, Covered, [Next]_vars
    PROVE  TypeRest'
<1>. USE DEF TypeOK, TypeRest
<1>1. ASSUME NEW t \in Tasks, Begin(t) \/ Cancel(t) PROVE TypeRest'
  <2>1. CASE Begin(t)
    <3>1. jobs' \in [Tasks -> Nat]
      BY <2>1 DEF Begin
    <3>. QED
      BY <2>1, <3>1 DEF Begin, worker, view, drained
  <2>2. CASE Cancel(t)
    BY <2>2 DEF Cancel, Upset, worker, view, drained
  <2>. QED
    BY <1>1, <2>1, <2>2
<1>2. ASSUME NEW t \in Tasks, Acquire(t) PROVE TypeRest'
  <2>1. waiters' \in Seq(Tasks)
    <3>1. Append(waiters, t) \in Seq(Tasks)
      OBVIOUS
    <3>2. waiters' = waiters \/ waiters' = Append(waiters, t)
      BY <1>2, Zenon DEF Acquire
    <3>. QED
      BY <3>1, <3>2, Zenon
  <2>. QED
    BY <1>2, <2>1 DEF Acquire, worker, drained, bounds
<1>3. ASSUME NEW t \in Tasks, Receive(t) \/ TryAcquire(t) \/ ForkReady(t) PROVE TypeRest'
  BY <1>3, Zenon DEF Receive, TryAcquire, ForkReady, worker, view, drained, bounds
<1>4. ASSUME NEW t \in Tasks, Restore(t) \/ DestroyVm(t) PROVE TypeRest'
  <2>1. Append(events, 1) \in Seq({1, -1}) /\ Append(events, -1) \in Seq({1, -1})
    OBVIOUS
  <2>2. CASE Restore(t)
    BY <2>1, <2>2, Zenon DEF Restore, view, drained, bounds
  <2>3. CASE DestroyVm(t)
    <3>1. leaked' \in Nat /\ upsets' \in Nat
      BY <2>3 DEF DestroyVm, Destroy, Destroyed, Leaks, Upset
    <3>2. events' \in Seq({1, -1}) /\ orphaned' \subseteq Tasks
      BY <2>1, <2>3, Zenon DEF DestroyVm, Destroy, Destroyed, Leaks
    <3>. QED
      BY <2>3, <3>1, <3>2, Zenon DEF DestroyVm, view, drained
  <2>. QED
    BY <1>4, <2>2, <2>3, Zenon
<1>5. ASSUME NEW t \in Tasks, Fork(t) PROVE TypeRest'
  <2>1. held[t] - 1 \in Nat
    BY <1>5, WidthType DEF Fork, HeldInv, Threads
  <2>2. [i \in 1..held[t] - 1 |-> 1] \in Seq({1, -1})
    BY <2>1
  <2>3. events' \in Seq({1, -1})
    BY <1>5, <2>2 DEF Fork
  <2>. QED
    BY <1>5, <2>3 DEF Fork, view, drained, bounds
<1>6. ASSUME NEW w \in Threads, WakeStep(w) PROVE TypeRest'
  <2>1. waiters' \in Seq(Tasks)
    <3>1. waiters # <<>> => Tail(waiters) \in Seq(Tasks)
      OBVIOUS
    <3>2. waiters' = waiters \/ (waiters # <<>> /\ waiters' = Tail(waiters))
      BY <1>6, Zenon DEF WakeStep, Release, WakeStop, WakeReserve, WakePop, view
    <3>. QED
      BY <3>1, <3>2, Zenon
  <2>. QED
    BY <1>6, <2>1, Zenon
    DEF WakeStep, Release, WakeStop, WakeReserve, WakePop, worker, view, drained, bounds
<1>7. CASE DrainWatch
  <2>1. PICK n \in 0..Len(events) :
            /\ IF n < Len(events) THEN Upset ELSE UNCHANGED upsets
            /\ hand' = SubSeq(events, 1, n) /\ events' = SubSeq(events, n + 1, Len(events))
    BY <1>7, Zenon DEF DrainWatch
  <2>2. hand' \in Seq({1, -1}) /\ events' \in Seq({1, -1})
    BY <2>1
  <2>. QED
    BY <1>7, <2>1, <2>2 DEF DrainWatch, Upset, view
<1>8. CASE DrainInfo
  BY <1>8 DEF DrainInfo, Upset, worker, view
<1>9. CASE DrainApply
  BY <1>9, BalanceType DEF DrainApply, worker, bounds
<1>10. CASE SetSlotsTotal
  BY <1>10, SlotAssumption DEF SetSlotsTotal, Upset, view, drained
<1>11. CASE UNCHANGED vars
  BY <1>11 DEF vars, worker, view, drained, bounds
<1>12. ASSUME NEW t \in Tasks, RestoreFails(t) \/ ForkFails(t) PROVE TypeRest'
  <2>1. upsets' \in Nat
    BY <1>12 DEF RestoreFails, ForkFails, Upset
  <2>. QED
    BY <1>12, <2>1, Zenon DEF RestoreFails, ForkFails, worker, view, drained
<1>. QED
  BY <1>1, <1>2, <1>3, <1>4, <1>5, <1>6, <1>7, <1>8, <1>9, <1>10, <1>11, <1>12
  DEF Next, TaskStep, DrainStep

\* The permits of a step: one more for a free slot, one less, one handed on, or the same.
LEMMA PermitStep ==
    ASSUME TypeOK, HeldInv, Covered, reserved = Cardinality(Permits), [Next]_vars
    PROVE  /\ reserved' = Cardinality(Permits)' /\ reserved' \in Nat
           /\ reserved' <= reserved \/ (Free > 0 /\ reserved' = reserved + 1)
<1>1. Permits = PermitsOf(held) /\ Permits' = PermitsOf(held')
  BY DEF Permits, PermitsOf
<1>. DEFINE Goal == /\ reserved' = Cardinality(PermitsOf(held')) /\ reserved' \in Nat
                    /\ reserved' <= reserved \/ (Free > 0 /\ reserved' = reserved + 1)
<1>. SUFFICES Goal
  BY <1>1
<1>2. /\ held \in [Threads -> 0 .. Width] /\ reserved = Cardinality(PermitsOf(held))
      /\ reserved \in Nat
  BY <1>1 DEF TypeOK
<1>3. ASSUME UNCHANGED <<held, reserved>> PROVE Goal
  BY <1>2, <1>3
<1>4. ASSUME NEW w \in Threads, Reserve(w), Free > 0 PROVE Goal
  <2>1. Cardinality(PermitsOf([held EXCEPT ![w] = @ + 1])) = Cardinality(PermitsOf(held)) + 1
    BY <1>2, Gain, Zenon
  <2>. QED
    BY <1>2, <1>4, <2>1 DEF Reserve
<1>5. ASSUME NEW w \in Threads, Release(w) PROVE Goal
  <2>1. held[w] >= 1
    BY <1>5 DEF Release, HeldInv, Threads
  <2>2. /\ Cardinality(PermitsOf([held EXCEPT ![w] = @ - 1])) = Cardinality(PermitsOf(held)) - 1
        /\ Cardinality(PermitsOf(held)) >= 1
    BY <1>2, <2>1, Lose, Zenon
  <2>. QED
    BY <1>2, <1>5, <2>2 DEF Release, Largest
<1>6. ASSUME NEW w \in Threads, NEW h \in Tasks, HandsOn(w, h), UNCHANGED reserved PROVE Goal
  <2>1. w # h /\ held[h] = 0 /\ held[w] >= 1
    BY <1>6 DEF HandsOn, HeldInv, Threads
  <2>2. PICK f : f = [held EXCEPT ![w] = @ - 1]
    BY Zenon
  <2>3. f \in [Threads -> 0 .. Width]
    BY <1>2, <2>1, <2>2, WidthType
  <2>4. held' = [f EXCEPT ![h] = @ + 1]
    BY <1>6, <2>2, Zenon DEF HandsOn
  <2>5. Cardinality(PermitsOf(f)) = Cardinality(PermitsOf(held)) - 1
    BY <1>2, <2>1, <2>2, Lose, Zenon
  <2>6. Cardinality(PermitsOf(held')) = Cardinality(PermitsOf(f)) + 1
    BY <2>3, <2>4, Gain, Zenon DEF Threads
  <2>. QED
    BY <1>2, <1>6, <2>5, <2>6
<1>7. ASSUME NEW t \in Tasks, Begin(t) \/ Cancel(t) \/ TaskStep(t) PROVE Goal
  <2>1. \/ UNCHANGED <<held, reserved>>
        \/ Reserve(t) /\ Free > 0
    BY <1>7 DEF Begin, Cancel, TaskStep, Acquire, Receive, TryAcquire, ForkReady, Restore,
                RestoreFails, Fork, ForkFails, DestroyVm, view
  <2>. QED
    BY <1>3, <1>4, <2>1 DEF Threads
<1>8. ASSUME NEW w \in Threads, WakeStep(w) PROVE Goal
  <2>1. CASE WakePop(w) /\ ~(waiters = <<>> \/ pc[Head(waiters)] # "waiting")
    <3>1. HandsOn(w, Head(waiters)) /\ UNCHANGED reserved
      BY <2>1 DEF WakePop, HandsOn
    <3>2. Head(waiters) \in Tasks
      BY <2>1 DEF TypeOK
    <3>. QED
      BY <1>6, <3>1, <3>2
  <2>2. CASE WakePop(w) /\ (waiters = <<>> \/ pc[Head(waiters)] # "waiting")
    BY <1>3, <2>2 DEF WakePop
  <2>3. CASE WakeStop(w)
    BY <1>3, <2>3 DEF WakeStop, view
  <2>4. CASE WakeReserve(w)
    BY <1>4, <2>4 DEF WakeReserve
  <2>. QED
    BY <1>5, <1>8, <2>1, <2>2, <2>3, <2>4 DEF WakeStep
<1>9. CASE DrainStep \/ SetSlotsTotal \/ UNCHANGED vars
  BY <1>3, <1>9 DEF DrainStep, DrainWatch, DrainInfo, DrainApply, SetSlotsTotal, vars, view, task
<1>. QED
  BY <1>7, <1>8, <1>9 DEF Next

\* Every step counts in the view the permits it takes or gives back.
LEMMA CountedStep ==
    ASSUME TypeOK, HeldInv, Covered, Counted, [Next]_vars
    PROVE  Counted' /\ reserved' \in Nat
<1>1. /\ reserved' = Cardinality(Permits)' /\ reserved' \in Nat
      /\ reserved' <= reserved \/ (Free > 0 /\ reserved' = reserved + 1)
  BY PermitStep DEF Counted
<1>2. ~resized' => ~resized /\ capacity' = total' /\ newcap' = total' /\ total' = total
  <2>1. CASE UNCHANGED <<total, resized, capacity, newcap>>
    BY <2>1 DEF Counted
  <2>2. CASE SetSlotsTotal
    BY <2>2 DEF SetSlotsTotal
  <2>3. CASE DrainInfo
    BY <2>3 DEF DrainInfo, Counted, worker, view
  <2>4. CASE DrainApply
    BY <2>4 DEF DrainApply, Counted, worker, bounds
  <2>5. CASE DrainWatch \/ UNCHANGED vars
    BY <2>1, <2>5 DEF DrainWatch, view, vars, worker, drained, bounds
  <2>6. ASSUME NEW t \in Tasks, Begin(t) \/ Cancel(t) \/ TaskStep(t)
        PROVE  UNCHANGED <<total, resized, capacity, newcap>>
    BY <2>6, Zenon DEF Begin, Cancel, TaskStep, Acquire, Receive, TryAcquire, ForkReady, Restore,
                RestoreFails, Fork, ForkFails, DestroyVm, worker, view, drained, bounds
  <2>7. ASSUME NEW w \in Threads, WakeStep(w)
        PROVE  UNCHANGED <<total, resized, capacity, newcap>>
    BY <2>7 DEF WakeStep, Release, WakeStop, WakeReserve, WakePop, worker, view, drained, bounds
  <2>. QED
    BY <2>1, <2>2, <2>3, <2>4, <2>5, <2>6, <2>7 DEF Next, DrainStep
<1>3. ~resized' => reserved' <= total'
  BY <1>1, <1>2, FreeMeansRoom DEF Counted, TypeOK
<1>. QED
  BY <1>1, <1>2, <1>3 DEF Counted

-----------------------------------------------------------------------------
(* The theorems.                                                              *)

\* The machines of all owners, and the permits of one task for which there is no machine yet, are
\* permits.
LEMMA PermitsAreSlots ==
    ASSUME TypeOK, Covered, reserved = Cardinality(Permits), reserved <= total, NEW t \in Tasks
    PROVE  Cardinality(Machines) + (held[t] - vms[t]) <= total
<1>. DEFINE Spare == {<<t, i>> : i \in vms[t] + 1 .. held[t]}
<1>1. /\ vms[t] \in Nat /\ held[t] \in Nat /\ vms[t] <= held[t] /\ held[t] <= Width
      /\ t \in Threads
  BY WidthType DEF TypeOK, Covered, Threads
<1>2. Permits = PermitsOf(held)
  BY DEF Permits, PermitsOf
<1>3. IsFiniteSet(Permits)
  BY <1>2, PermitsFinite
<1>4. Machines \subseteq Permits
  <2>1. ASSUME NEW u \in Tasks, NEW i \in 1..Width, i <= vms[u] PROVE <<u, i>> \in Permits
    <3>1. vms[u] <= held[u] /\ vms[u] \in Nat /\ held[u] \in Nat
      BY WidthType DEF TypeOK, Covered, Threads
    <3>. QED
      BY <2>1, <3>1, WidthType DEF Permits, Threads
  <2>. QED
    BY <2>1 DEF Machines
<1>5. Spare \subseteq Permits
  BY <1>1, WidthType DEF Permits
<1>6. Machines \cap Spare = {}
  BY <1>1 DEF Machines
<1>7. IsFiniteSet(Spare) /\ Cardinality(Spare) = held[t] - vms[t]
  <2>1. PICK m \in Nat : m = vms[t]
    BY <1>1
  <2>2. PICK n \in Nat : n = held[t]
    BY <1>1
  <2>3. IsFiniteSet(m + 1 .. n) /\ Cardinality(m + 1 .. n) = n - m
    <3>1. m + 1 \in Int /\ n \in Int /\ m <= n
      BY <1>1, <2>1, <2>2
    <3>2. /\ IsFiniteSet(m + 1 .. n)
          /\ Cardinality(m + 1 .. n) = IF m + 1 > n THEN 0 ELSE n - (m + 1) + 1
      BY <3>1, FS_Interval
    <3>. QED
      BY <3>1, <3>2
  <2>. DEFINE f == [i \in m + 1 .. n |-> <<t, i>>]
  <2>4. f \in Bijection(m + 1 .. n, Spare)
    BY <2>1, <2>2, Zenon DEF Bijection, Injection, Surjection, IsInjective
  <2>5. ExistsBijection(m + 1 .. n, Spare)
    BY <2>4 DEF ExistsBijection
  <2>. QED
    BY <2>1, <2>2, <2>3, <2>5, FS_Bijection
<1>8. IsFiniteSet(Machines) /\ Cardinality(Machines) \in Nat
  BY <1>3, <1>4, FS_Subset, FS_CardinalityType
<1>9. Cardinality(Machines \cup Spare) = Cardinality(Machines) + Cardinality(Spare)
  <2>1. Cardinality(Machines \cup Spare)
            = Cardinality(Machines) + Cardinality(Spare) - Cardinality(Machines \cap Spare)
    BY <1>7, <1>8, FS_Union
  <2>2. Cardinality(Machines \cap Spare) = 0
    BY <1>6, FS_EmptySet
  <2>. QED
    BY <1>1, <1>7, <1>8, <2>1, <2>2
<1>10. Cardinality(Machines \cup Spare) <= Cardinality(Permits)
  BY <1>3, <1>4, <1>5, FS_Subset
<1>. QED
  BY <1>1, <1>7, <1>8, <1>9, <1>10 DEF TypeOK

\* A view of an empty pool.
LEMMA InitInv == Init => IInv
<1>. SUFFICES ASSUME Init PROVE IInv
  OBVIOUS
<1>. USE SlotAssumption, WidthType DEF Init, Threads, Drain
<1>1. TypeOK
  <2>1. pc \in [Threads -> Labels] /\ held \in [Threads -> 0 .. Width]
    BY DEF Labels
  <2>2. vms \in [Tasks -> 0 .. Width] /\ next \in [Tasks -> {"idle", "acquire", "done"}]
        /\ jobs \in [Tasks -> Nat]
    OBVIOUS
  <2>3. events \in Seq({1, -1}) /\ hand \in Seq({1, -1}) /\ waiters \in Seq(Tasks)
    OBVIOUS
  <2>4. /\ total \in Nat /\ capacity \in Nat /\ reserved \in Nat /\ live \in Int /\ newcap \in Nat
        /\ upsets \in Nat /\ leaked \in Nat /\ orphaned \subseteq Tasks
    OBVIOUS
  <2>5. resized \in BOOLEAN
    BY Zenon
  <2>. QED
    BY <2>1, <2>2, <2>3, <2>4, <2>5, Zenon DEF TypeOK
<1>2. HeldInv /\ Covered
  BY DEF HeldInv, Covered
<1>3. Permits = {}
  BY DEF Permits
<1>4. Counted
  BY <1>3, FS_EmptySet DEF Counted
<1>. QED
  BY <1>1, <1>2, <1>4 DEF IInv

\* What each thread of slots.rs and driver.rs holds at each point of its way, on the paths where a
\* restore, a fork or a destroy fails too: a machine has a permit as long as it has an owner, and the
\* view counts the permits.
THEOREM SlotInvariance == Spec => []IInv
<1>1. IInv /\ [Next]_vars => IInv'
  <2>. SUFFICES ASSUME IInv, [Next]_vars PROVE IInv'
    OBVIOUS
  <2>1. TypeTasks' /\ HeldInv' /\ Covered'
    BY ThreadsStep DEF IInv
  <2>2. TypeRest'
    BY TypeRestStep DEF IInv
  <2>3. Counted' /\ reserved' \in Nat
    BY CountedStep DEF IInv
  <2>4. TypeOK'
    BY <2>1, <2>2, <2>3 DEF TypeOK, TypeTasks, TypeRest
  <2>. QED
    BY <2>1, <2>3, <2>4 DEF IInv
<1>. QED
  BY InitInv, <1>1, PTL DEF Spec

\* Whatever the number of tasks and slots, however acquires are cancelled between a wake-up's two
\* critical sections and whichever destroys give up, reserved counts the permits there are; and what a
\* holder has still to create fits beside the machines that have an owner, so that RESOURCE_EXHAUSTED
\* is due to machines whose destroy gave up.
THEOREM PermitsAreExact == Spec => []ReservedExact
<1>1. IInv => ReservedExact
  BY PermitsAreSlots DEF IInv, Counted, ReservedExact
<1>. QED
  BY SlotInvariance, <1>1, PTL
=============================================================================
