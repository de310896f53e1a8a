------------------------- MODULE ProgressStream_proofs -------------------------
(* For any run, ring and sink: no observatory event is sent twice, out of     *)
(* order or lost uncounted, and a stream reports no goal and no budget twice. *)
EXTENDS ProgressStream, SequenceTheorems, TLAPS

\* Seconds a leaf may take on a loaded machine.
USE SMTT(20), ZenonT(30)

-----------------------------------------------------------------------------
(* Sequences of event numbers.                                                *)

\* s increases, up to b at most.
Ordered(s, b) ==
    /\ s \in Seq(Nat)
    /\ \A i \in 1 .. Len(s) : s[i] <= b
    /\ \A i, j \in 1 .. Len(s) : i < j => s[i] < s[j]

\* s is the numbers after b.
Newest(s, b) ==
    /\ s \in Seq(Nat)
    /\ \A i \in 1 .. Len(s) : s[i] = b + i

\* Increasing numbers up to b, followed by the numbers after b, increase.
LEMMA Join ==
    ASSUME NEW b \in Nat, NEW s, Ordered(s, b), NEW t, Newest(t, b)
    PROVE  Ordered(s \o t, b + Len(t)) /\ Len(s \o t) = Len(s) + Len(t)
<1>1. s \in Seq(Nat) /\ t \in Seq(Nat)
  BY DEF Ordered, Newest
<1>2. PICK m \in Nat : m = Len(s)
  BY <1>1
<1>3. PICK n \in Nat : n = Len(t)
  BY <1>1
<1>4. PICK u \in Seq(Nat) : u = s \o t
  <2>1. s \o t \in Seq(Nat)
    BY <1>1, ConcatProperties
  <2>. QED
    BY <2>1, Zenon
<1>5. /\ Len(u) = m + n
      /\ \A i \in 1 .. m + n : u[i] = IF i <= m THEN s[i] ELSE t[i - m]
  BY <1>1, <1>2, <1>3, <1>4, ConcatProperties
<1>6. \A i \in 1 .. m : u[i] = s[i] /\ s[i] \in Nat /\ s[i] <= b
  BY <1>1, <1>2, <1>5 DEF Ordered
<1>7. \A i \in m + 1 .. m + n : u[i] = b + (i - m)
  <2>. TAKE i \in m + 1 .. m + n
  <2>1. i - m \in 1 .. n /\ i \in 1 .. m + n /\ ~(i <= m)
    OBVIOUS
  <2>2. t[i - m] = b + (i - m)
    BY <1>3, <2>1 DEF Newest
  <2>. QED
    BY <1>5, <2>1, <2>2
<1>8. \A i \in 1 .. m + n : u[i] <= b + n
  BY <1>6, <1>7
<1>9. ASSUME NEW i \in 1 .. m + n, NEW j \in 1 .. m + n, i < j PROVE u[i] < u[j]
  <2>1. CASE j <= m
    BY <1>2, <1>6, <1>9, <2>1 DEF Ordered
  <2>2. CASE j > m
    BY <1>6, <1>7, <1>9, <2>2
  <2>. QED
    BY <2>1, <2>2
<1>. QED
  BY <1>2, <1>3, <1>4, <1>5, <1>8, <1>9, Zenon DEF Ordered

\* Both parts of a flushed queue are the numbers after where they begin.
LEMMA Split ==
    ASSUME NEW b \in Nat, NEW q, Newest(q, b), NEW n \in 0 .. Len(q)
    PROVE  /\ Newest(SubSeq(q, 1, n), b) /\ Len(SubSeq(q, 1, n)) = n
           /\ Newest(SubSeq(q, n + 1, Len(q)), b + n)
           /\ Len(SubSeq(q, n + 1, Len(q))) = Len(q) - n
<1>1. q \in Seq(Nat)
  BY DEF Newest
<1>2. PICK m \in Nat : m = Len(q)
  BY <1>1
<1>3. \A i \in 1 .. m : q[i] = b + i /\ q[i] \in Nat
  BY <1>1, <1>2 DEF Newest
<1>4. n \in Nat /\ n <= m
  BY <1>2
<1>5. /\ SubSeq(q, 1, n) \in Seq(Nat) /\ Len(SubSeq(q, 1, n)) = n
      /\ \A i \in 1 .. n : SubSeq(q, 1, n)[i] = q[1 + i - 1]
  <2>1. \A i \in 1 .. n : q[i] \in Nat
    BY <1>3, <1>4
  <2>. QED
    BY <1>4, <2>1, SubSeqProperties
<1>6. /\ SubSeq(q, n + 1, m) \in Seq(Nat) /\ Len(SubSeq(q, n + 1, m)) = m - n
      /\ \A i \in 1 .. m - n : SubSeq(q, n + 1, m)[i] = q[n + 1 + i - 1]
  <2>1. \A i \in n + 1 .. m : q[i] \in Nat
    BY <1>3, <1>4
  <2>2. /\ SubSeq(q, n + 1, m) \in Seq(Nat)
        /\ Len(SubSeq(q, n + 1, m)) = IF n + 1 <= m THEN m - (n + 1) + 1 ELSE 0
        /\ \A i \in 1 .. m - (n + 1) + 1 : SubSeq(q, n + 1, m)[i] = q[(n + 1) + i - 1]
    BY <1>4, <2>1, SubSeqProperties
  <2>. QED
    BY <1>4, <2>2
<1>7. Newest(SubSeq(q, 1, n), b)
  <2>1. \A i \in 1 .. n : q[1 + i - 1] = b + i
    BY <1>3, <1>4
  <2>. QED
    BY <1>5, <2>1 DEF Newest
<1>8. Newest(SubSeq(q, n + 1, m), b + n)
  <2>1. \A i \in 1 .. m - n : q[n + 1 + i - 1] = b + n + i
    BY <1>3, <1>4
  <2>. QED
    BY <1>6, <2>1, Zenon DEF Newest
<1>. QED
  BY <1>2, <1>5, <1>6, <1>7, <1>8

\* A new event continues the queue.
LEMMA Push ==
    ASSUME NEW b \in Nat, NEW q, Newest(q, b)
    PROVE  /\ Newest(Append(q, b + Len(q) + 1), b)
           /\ Len(Append(q, b + Len(q) + 1)) = Len(q) + 1
<1>1. q \in Seq(Nat) /\ Len(q) \in Nat /\ b + Len(q) + 1 \in Nat
  BY DEF Newest
<1>2. PICK x \in Nat : x = b + Len(q) + 1
  BY <1>1
<1>3. /\ Append(q, x) \in Seq(Nat) /\ Len(Append(q, x)) = Len(q) + 1
      /\ \A i \in 1 .. Len(q) : Append(q, x)[i] = q[i]
      /\ Append(q, x)[Len(q) + 1] = x
  BY <1>1, AppendProperties
<1>4. \A i \in 1 .. Len(q) + 1 : Append(q, x)[i] = b + i
  BY <1>1, <1>2, <1>3 DEF Newest
<1>. QED
  BY <1>2, <1>3, <1>4 DEF Newest

\* The queue without its oldest event.
LEMMA Shift ==
    ASSUME NEW b \in Nat, NEW q, Newest(q, b), Len(q) > 0
    PROVE  Newest(Tail(q), b + 1) /\ Len(Tail(q)) = Len(q) - 1
<1>1. q \in Seq(Nat) /\ q # <<>>
  BY DEF Newest
<1>2. /\ Tail(q) \in Seq(Nat) /\ Len(Tail(q)) = Len(q) - 1
      /\ \A i \in 1 .. Len(Tail(q)) : Tail(q)[i] = q[i + 1]
  BY <1>1, HeadTailProperties
<1>3. \A i \in 1 .. Len(q) - 1 : q[i + 1] = b + 1 + i
  BY <1>1 DEF Newest
<1>. QED
  BY <1>2, <1>3 DEF Newest

-----------------------------------------------------------------------------
(* The emitter.                                                               *)

\* The events sent are older than the ones in the ring, which are the newest.
Base(e) == Len(e.accepted) + e.dropped
RingInv(e) ==
    /\ e \in [next : Nat, queue : Seq(Nat), dropped : Nat, accepted : Seq(Nat)]
    /\ Base(e) + Len(e.queue) = e.next - 1
    /\ Ordered(e.accepted, Base(e)) /\ Newest(e.queue, Base(e))

\* The parts of an emitter.
LEMMA RingParts ==
    ASSUME NEW e, RingInv(e)
    PROVE  /\ e.next \in Nat /\ e.dropped \in Nat /\ Base(e) \in Nat /\ Len(e.queue) \in Nat
           /\ Len(e.accepted) \in Nat /\ e.queue \in Seq(Nat) /\ e.accepted \in Seq(Nat)
           /\ e.next = Base(e) + Len(e.queue) + 1
           /\ Ordered(e.accepted, Base(e)) /\ Newest(e.queue, Base(e))
<1>1. /\ e.next \in Nat /\ e.dropped \in Nat /\ e.queue \in Seq(Nat) /\ e.accepted \in Seq(Nat)
      /\ Base(e) + Len(e.queue) = e.next - 1
      /\ Ordered(e.accepted, Base(e)) /\ Newest(e.queue, Base(e))
  BY DEF RingInv
<1>2. Len(e.queue) \in Nat /\ Len(e.accepted) \in Nat
  BY <1>1, LenProperties
<1>3. Base(e) \in Nat
  BY <1>1, <1>2 DEF Base
<1>. QED
  BY <1>1, <1>2, <1>3

\* The ring's invariant says that every event is accounted for.
LEMMA RingAccounted ==
    ASSUME NEW e, RingInv(e)
    PROVE  Accounted(e)
<1>0. /\ e.next \in Nat /\ e.dropped \in Nat /\ Base(e) \in Nat /\ Len(e.queue) \in Nat
      /\ Len(e.accepted) \in Nat /\ e.queue \in Seq(Nat) /\ e.accepted \in Seq(Nat)
      /\ e.next = Base(e) + Len(e.queue) + 1
      /\ Ordered(e.accepted, Base(e)) /\ Newest(e.queue, Base(e))
  BY RingParts
<1>1. PICK all : all = e.accepted \o e.queue
  OBVIOUS
<1>2. Ordered(all, Base(e) + Len(e.queue)) /\ Len(all) = Len(e.accepted) + Len(e.queue)
  BY <1>0, <1>1, Join
<1>3. DOMAIN all = 1 .. Len(all)
  BY <1>2 DEF Ordered
<1>4. \A i, j \in DOMAIN all : i < j => all[i] < all[j]
  BY <1>2, <1>3, Zenon DEF Ordered
<1>5. Len(all) + e.dropped = e.next - 1
  <2>1. PICK a \in Nat, q \in Nat, d \in Nat, n \in Nat :
            a = Len(e.accepted) /\ q = Len(e.queue) /\ d = e.dropped /\ n = e.next
    BY <1>0
  <2>2. (a + d) + q = n - 1
    BY <2>1 DEF RingInv, Base
  <2>3. Len(all) = a + q
    BY <1>2, <2>1
  <2>4. Len(all) + d = n - 1
    BY <2>2, <2>3
  <2>. QED
    BY <2>1, <2>4
<1>6. \A i \in DOMAIN e.queue : e.queue[i] = e.next - 1 - Len(e.queue) + i
  <2>1. \A i \in 1 .. Len(e.queue) : e.queue[i] = Base(e) + i
    BY <1>0, Zenon DEF Newest
  <2>2. DOMAIN e.queue = 1 .. Len(e.queue) /\ Base(e) = e.next - 1 - Len(e.queue)
    BY <1>0
  <2>. QED
    BY <2>1, <2>2
<1>. QED
  BY <1>1, <1>4, <1>5, <1>6, Zenon DEF Accounted

\* A flush moves the oldest events of the ring behind the ones sent.
LEMMA FlushKeeps ==
    ASSUME NEW e, RingInv(e), NEW f \in Flushed(e)
    PROVE  RingInv(f)
<1>0. /\ e.next \in Nat /\ e.dropped \in Nat /\ Base(e) \in Nat /\ Len(e.queue) \in Nat
      /\ Len(e.accepted) \in Nat /\ e.queue \in Seq(Nat) /\ e.accepted \in Seq(Nat)
      /\ e.next = Base(e) + Len(e.queue) + 1
      /\ Ordered(e.accepted, Base(e)) /\ Newest(e.queue, Base(e))
  BY RingParts
<1>1. PICK n \in 0 .. Len(e.queue) :
          f = [e EXCEPT !.queue = SubSeq(@, n + 1, Len(@)),
                        !.accepted = @ \o SubSeq(e.queue, 1, n)]
  BY Zenon DEF Flushed
<1>2. /\ f.next = e.next /\ f.dropped = e.dropped
      /\ f.queue = SubSeq(e.queue, n + 1, Len(e.queue))
      /\ f.accepted = e.accepted \o SubSeq(e.queue, 1, n)
      /\ f = [next |-> f.next, queue |-> f.queue, dropped |-> f.dropped, accepted |-> f.accepted]
  BY <1>1, Zenon DEF RingInv
<1>3. /\ Newest(SubSeq(e.queue, 1, n), Base(e)) /\ Len(SubSeq(e.queue, 1, n)) = n
      /\ Newest(f.queue, Base(e) + n) /\ Len(f.queue) = Len(e.queue) - n
  <2>1. /\ Newest(SubSeq(e.queue, 1, n), Base(e)) /\ Len(SubSeq(e.queue, 1, n)) = n
        /\ Newest(SubSeq(e.queue, n + 1, Len(e.queue)), Base(e) + n)
        /\ Len(SubSeq(e.queue, n + 1, Len(e.queue))) = Len(e.queue) - n
    BY <1>0, Split
  <2>. QED
    BY <1>2, <2>1
<1>4. Ordered(f.accepted, Base(e) + n) /\ Len(f.accepted) = Len(e.accepted) + n
  <2>1. PICK sent : sent = SubSeq(e.queue, 1, n)
    OBVIOUS
  <2>2. Newest(sent, Base(e)) /\ Len(sent) = n
    BY <1>3, <2>1
  <2>3. Base(e) \in Nat /\ Ordered(e.accepted, Base(e))
    BY <1>0
  <2>4. /\ Ordered(e.accepted \o sent, Base(e) + Len(sent))
        /\ Len(e.accepted \o sent) = Len(e.accepted) + Len(sent)
    BY <2>2, <2>3, Join
  <2>. QED
    BY <1>2, <2>1, <2>2, <2>4
<1>5. Base(f) = Base(e) + n
  BY <1>2, <1>4, <1>0 DEF Base
<1>6. f \in [next : Nat, queue : Seq(Nat), dropped : Nat, accepted : Seq(Nat)]
  BY <1>2, <1>3, <1>4, <1>0, Zenon DEF Newest, Ordered
<1>7. Base(f) + Len(f.queue) = f.next - 1
  BY <1>2, <1>3, <1>5, <1>0
<1>. QED
  BY <1>3, <1>4, <1>5, <1>6, <1>7 DEF RingInv

\* A full ring loses its oldest event and counts it.
LEMMA QueueKeeps ==
    ASSUME NEW e, RingInv(e)
    PROVE  RingInv(Queued(e))
<1>0. /\ e.next \in Nat /\ e.dropped \in Nat /\ Base(e) \in Nat /\ Len(e.queue) \in Nat
      /\ Len(e.accepted) \in Nat /\ e.queue \in Seq(Nat) /\ e.accepted \in Seq(Nat)
      /\ e.next = Base(e) + Len(e.queue) + 1
      /\ Ordered(e.accepted, Base(e)) /\ Newest(e.queue, Base(e))
  BY RingParts
<1>. DEFINE full == Len(e.queue) = RingCapacity
<1>1. PICK f : f = Queued(e)
  OBVIOUS
<1>2. PICK q : q = IF full THEN Tail(e.queue) ELSE e.queue
  OBVIOUS
<1>3. PICK b : b = IF full THEN Base(e) + 1 ELSE Base(e)
  OBVIOUS
<1>4. /\ f.next = e.next + 1 /\ f.accepted = e.accepted
      /\ f.dropped = e.dropped + IF full THEN 1 ELSE 0
      /\ f.queue = Append(q, e.next)
      /\ f = [next |-> f.next, queue |-> f.queue, dropped |-> f.dropped, accepted |-> f.accepted]
  BY <1>1, <1>2, Zenon DEF Queued, RingInv
<1>5. b \in Nat /\ Newest(q, b) /\ b + Len(q) + 1 = e.next
  <2>1. CASE full
    <3>1. Len(e.queue) > 0
      BY <2>1, RingAssumption
    <3>2. Newest(Tail(e.queue), Base(e) + 1) /\ Len(Tail(e.queue)) = Len(e.queue) - 1
      BY <1>0, <3>1, Shift
    <3>. QED
      <4>1. q = Tail(e.queue) /\ b = Base(e) + 1
        BY <1>2, <1>3, <2>1
      <4>. QED
        BY <1>0, <3>2, <4>1
  <2>2. CASE ~full
    BY <1>2, <1>3, <2>2, <1>0
  <2>. QED
    BY <2>1, <2>2
<1>6. Newest(f.queue, b) /\ Len(f.queue) = Len(q) + 1
  BY <1>4, <1>5, Push
<1>7. Base(f) = b /\ f.dropped \in Nat
  BY <1>3, <1>4, <1>0 DEF Base
<1>8. Ordered(f.accepted, b)
  BY <1>3, <1>4, <1>0 DEF Ordered
<1>9. f \in [next : Nat, queue : Seq(Nat), dropped : Nat, accepted : Seq(Nat)]
  <2>1. f.next \in Nat /\ f.queue \in Seq(Nat) /\ f.dropped \in Nat /\ f.accepted \in Seq(Nat)
    BY <1>0, <1>4, <1>6, <1>7 DEF Newest
  <2>. QED
    BY <1>4, <2>1, Zenon
<1>10. Base(f) + Len(f.queue) = f.next - 1
  <2>1. Len(q) \in Nat
    BY <1>5 DEF Newest
  <2>. QED
    BY <1>4, <1>5, <1>6, <1>7, <2>1, <1>0
<1>. QED
  BY <1>1, <1>6, <1>7, <1>8, <1>9, <1>10 DEF RingInv

\* emit (flush, queue, flush) keeps the ring's invariant.
LEMMA EmitKeeps ==
    ASSUME NEW e, RingInv(e), NEW f \in Emitted(e)
    PROVE  RingInv(f)
<1>1. PICK g \in Flushed(e) : f \in Flushed(Queued(g))
  BY DEF Emitted
<1>. QED
  BY <1>1, FlushKeeps, QueueKeeps

-----------------------------------------------------------------------------
(* The stream.                                                                *)

\* The goals sent increase, up to the number emitted.  The edge of a budget is sent once the watch
\* shows it, and a run with a final state publishes nothing more.
StreamInv ==
    /\ RingInv(emitter)
    /\ task \in {"up", "closed", "done"} /\ run \in Status /\ pub = run /\ previous \in Status
    /\ task = "up" => run.state \notin Terminal
    /\ emitted \in Nat /\ budgetEdges \in Nat
    /\ spc \in {"idle", "initial"} => edges = <<>> /\ budgetEdges = 0
    /\ Ordered(edges, emitted)
    /\ budgetEdges # 0 => budgetEdges = 1 /\ previous.state = "BudgetExhausted"
                          /\ pub.state = "BudgetExhausted"

\* An edge newer than all others.
LEMMA EdgeAppended ==
    ASSUME NEW b \in Nat, NEW s, Ordered(s, b), NEW g \in Nat, b < g
    PROVE  Ordered(Append(s, g), g)
<1>1. s \in Seq(Nat) /\ Len(s) \in Nat
  BY DEF Ordered
<1>2. /\ Append(s, g) \in Seq(Nat) /\ Len(Append(s, g)) = Len(s) + 1
      /\ \A i \in 1 .. Len(s) : Append(s, g)[i] = s[i] /\ s[i] \in Nat
      /\ Append(s, g)[Len(s) + 1] = g
  BY <1>1, AppendProperties
<1>3. \A i \in 1 .. Len(s) : s[i] < g
  BY <1>2 DEF Ordered
<1>4. \A i \in 1 .. Len(s) + 1 : Append(s, g)[i] <= g
  BY <1>1, <1>2, <1>3
<1>5. ASSUME NEW i \in 1 .. Len(s) + 1, NEW j \in 1 .. Len(s) + 1, i < j
      PROVE  Append(s, g)[i] < Append(s, g)[j]
  <2>1. CASE j = Len(s) + 1
    BY <1>1, <1>2, <1>3, <1>5, <2>1
  <2>2. CASE j # Len(s) + 1
    <3>1. i \in 1 .. Len(s) /\ j \in 1 .. Len(s)
      BY <1>1, <1>5, <2>2
    <3>. QED
      BY <1>2, <1>5, <3>1 DEF Ordered
  <2>. QED
    BY <2>1, <2>2
<1>. QED
  BY <1>2, <1>4, <1>5, Zenon DEF Ordered

\* A new run and a stream that is not open yet.
LEMMA StreamInit == Init => StreamInv
<1>. SUFFICES ASSUME Init PROVE StreamInv
  OBVIOUS
<1>1. RingInv(emitter)
  BY DEF Init, NewEmitter, RingInv, Base, Ordered, Newest
<1>2. run \in Status /\ run.state \notin Terminal
  BY StreamAssumption DEF Init, Status, Terminal
<1>3. Ordered(edges, emitted)
  BY DEF Init, Ordered
<1>. QED
  BY <1>1, <1>2, <1>3 DEF Init, StreamInv

\* A step of the run keeps the ring in order, and publishes nothing after a final state.
LEMMA RunStep ==
    ASSUME StreamInv, Commits \/ Pauses \/ Resumes \/ Closes \/ Returns
    PROVE  StreamInv'
<1>1. RingInv(emitter')
  BY EmitKeeps DEF StreamInv, Commits, Pauses, Resumes, Closes, Returns, Emits
<1>2. task' \in {"up", "closed", "done"} /\ run' \in Status /\ pub' = run'
  BY DEF StreamInv, Commits, Pauses, Resumes, Closes, Returns, Publish, After, Status, Terminal
<1>3. task' = "up" => run'.state \notin Terminal
  BY DEF StreamInv, Commits, Pauses, Resumes, Closes, Returns, After, Status, Terminal
<1>4. UNCHANGED stream
  BY DEF Commits, Pauses, Resumes, Closes, Returns
<1>5. budgetEdges # 0 => pub' = pub
  BY DEF StreamInv, Commits, Pauses, Resumes, Closes, Returns, Terminal
<1>. QED
  BY <1>1, <1>2, <1>3, <1>4, <1>5 DEF StreamInv, stream

\* A step of the stream sends the next goal at most, and a budget's edge with the first event of that state.
LEMMA SendStep ==
    ASSUME StreamInv, Opens \/ StreamStep \/ Dropped
    PROVE  StreamInv'
<1>1. UNCHANGED runner
  BY DEF Opens, StreamStep, SendsInitial, SendingRound, QuietRound, Round, Dropped
<1>. SUFFICES /\ previous' \in Status /\ emitted' \in Nat /\ budgetEdges' \in Nat
              /\ spc' \in {"idle", "initial"} => edges' = <<>> /\ budgetEdges' = 0
              /\ Ordered(edges', emitted')
              /\ budgetEdges' # 0 => budgetEdges' = 1 /\ previous'.state = "BudgetExhausted"
                                     /\ pub.state = "BudgetExhausted"
  BY <1>1 DEF StreamInv, runner
<1>2. run.goals \in Nat
  BY StreamAssumption DEF StreamInv, Status
<1>3. CASE Opens \/ Dropped
  BY <1>3 DEF StreamInv, Opens, Dropped
<1>4. CASE SendsInitial
  <2>1. Ordered(edges', emitted')
    <3>1. edges = <<>>
      BY <1>4 DEF SendsInitial, StreamInv
    <3>2. edges' = <<>> \/ (edges' = <<pub.goals>> /\ pub.goals > 0)
      BY <1>4, <3>1 DEF SendsInitial, GoalEdge, NoGoalEdge
    <3>3. emitted' = pub.goals /\ pub.goals \in Nat
      BY <1>2, <1>4 DEF SendsInitial, Latched, StreamInv
    <3>4. Ordered(<<>>, emitted') /\ Ordered(<<pub.goals>>, pub.goals)
      BY <3>3 DEF Ordered
    <3>. QED
      BY <3>2, <3>3, <3>4
  <2>. QED
    BY <1>2, <1>4, <2>1 DEF SendsInitial, Latched, StreamInv
<1>5. CASE SendingRound
  <2>1. CASE OwesGoal
    <3>1. Ordered(edges', emitted')
      <4>1. emitted' = emitted + 1 /\ emitted' \in Nat
        BY <1>5, <2>1 DEF SendingRound, SendsEvent, StreamInv
      <4>2. edges' = edges \/ edges' = Append(edges, emitted')
        BY <1>5, <2>1, <4>1 DEF SendingRound, SendsEvent, GoalEdge
      <4>3. Ordered(edges, emitted')
        BY <4>1 DEF StreamInv, Ordered
      <4>4. Ordered(Append(edges, emitted'), emitted')
        BY <4>1, EdgeAppended DEF StreamInv
      <4>. QED
        BY <4>2, <4>3, <4>4, Zenon
    <3>. QED
      BY <1>5, <2>1, <3>1 DEF SendingRound, SendsEvent, Round, StreamInv
  <2>2. CASE ~OwesGoal
    BY <1>5, <2>2 DEF SendingRound, SendsEvent, NoGoalEdge, BudgetEdge, Round, StreamInv
  <2>. QED
    BY <2>1, <2>2
<1>6. CASE QuietRound
  BY <1>6 DEF QuietRound, Round, StreamInv
<1>. QED
  BY <1>3, <1>4, <1>5, <1>6 DEF StreamStep

\* The invariant of a run, its emitter and a stream that watches it.
THEOREM StreamInvariance == Spec => []StreamInv
<1>1. StreamInv /\ [Next]_vars => StreamInv'
  <2>. SUFFICES ASSUME StreamInv, [Next]_vars PROVE StreamInv'
    OBVIOUS
  <2>1. CASE UNCHANGED vars
    BY <2>1 DEF vars, runner, stream, StreamInv
  <2>. QED
    BY <2>1, RunStep, SendStep DEF Next
<1>. QED
  BY StreamInit, <1>1, PTL DEF Spec

\* However goals, pauses and the end of the run arrive at the watch, a stream sends no goal twice or
\* out of order, and the edge of a budget once.
THEOREM StreamSendsOnce == Spec => []EdgesOnce
<1>1. StreamInv => EdgesOnce
  BY DEF StreamInv, Ordered, EdgesOnce
<1>. QED
  BY StreamInvariance, <1>1, PTL

\* Whenever the sink fails and recovers, and however small the ring is, events are sent in order and once,
\* and each is sent, waiting or counted as dropped.
THEOREM NothingLostUncounted == Spec => []EventsAccounted
<1>1. StreamInv => EventsAccounted
  BY RingAccounted DEF StreamInv, EventsAccounted
<1>. QED
  BY StreamInvariance, <1>1, PTL
=============================================================================
