---------------------------- MODULE Service_proofs ----------------------------
(* For any number of calls and of runs: the service never has two runners of  *)
(* an experiment, and the answer of a Stop is final.                          *)
EXTENDS Service, FiniteSetTheorems, TLAPS

\* Seconds a leaf may take on a loaded machine.
USE SMTT(20), ZenonT(30)

Tasks == {"none", "up", "closing", "closed", "done"}
Latest == Cardinality(Spawned)
Pending == {c \in Starters : spc[c] \in {"bringup", "spawned"}}

TypeOK ==
    /\ entry \in Runs \cup {0} /\ starting \in BOOLEAN
    /\ task \in [Runs -> Tasks] /\ state \in [Runs -> States] /\ pub \in [Runs -> States]
    /\ ctl \in [Runs -> Seq(Kinds)] /\ rerun \in [Runs -> BOOLEAN] /\ orphan \in [Runs -> BOOLEAN]
    /\ spc \in [Starters -> {"idle", "bringup", "spawned", "over"}]
    /\ flag \in [Starters -> BOOLEAN] /\ srun \in [Starters -> Runs \cup {0}]
    /\ cpc \in [Callers -> {"idle", "send", "wait", "over"}] /\ kind \in [Callers -> Kinds]
    /\ crun \in [Callers -> Runs \cup {0}] /\ answer \in [Callers -> States \cup {"none", "error"}]
    /\ dpc \in {"idle", "send", "wait", "done"} /\ drain \in Runs \cup {0}

\* Runs are numbered as they are spawned, and every run before the latest is done.
InOrder ==
    /\ Spawned = 1 .. Latest
    /\ \A q, r \in Spawned : q < r => task[q] = "done"
    /\ \A r \in Spawned : r > 1 => rerun[r]

\* The reservation: at most one Start call is past it, and as long as the id is not reserved the
\* registered run is the latest.  A call that brings a run up has seen the latest one done.
Reservation ==
    /\ entry \in Spawned \cup {0}
    /\ ~starting => entry = Latest
    /\ \A c, d \in Pending : c = d
    /\ Pending # {} => starting
    /\ \A c \in Starters : spc[c] = "bringup" =>
          entry = Latest /\ (entry # 0 => task[entry] = "done" /\ flag[c])
    /\ \A c \in Starters : spc[c] = "spawned" => srun[c] = Latest /\ Latest \in Spawned

\* A final state is in the watch when the run is closed, and not before.
Watched ==
    /\ \A r \in Runs : task[r] \in {"none", "up"} => pub[r] \notin Terminal
    /\ \A r \in Runs : task[r] = "closing" => state[r] \in Terminal /\ pub[r] \notin Terminal
    /\ \A r \in Runs : Closed(r) => state[r] \in Terminal /\ pub[r] = state[r]
    /\ \A c \in Callers : cpc[c] # "idle" => crun[c] \in Spawned
    /\ dpc = "idle" => drain = 0
    /\ dpc \in {"send", "wait"} => drain \in Spawned
    /\ drain \in Spawned \cup {0}

IInv == TypeOK /\ InOrder /\ Reservation /\ Watched /\ StopIsFinal
-----------------------------------------------------------------------------
(* Types.                                                                     *)

\* The number of runs so far is a natural number within the bound.
LEMMA LatestType == IsFiniteSet(Spawned) /\ Latest \in Nat /\ Latest <= MaxRuns
<1>1. IsFiniteSet(1 .. MaxRuns) /\ Cardinality(1 .. MaxRuns) = MaxRuns
  BY FS_Interval, ServiceAssumption
<1>2. Spawned \subseteq 1 .. MaxRuns
  BY DEF Spawned, Runs
<1>. QED
  BY <1>1, <1>2, FS_Subset, FS_CardinalityType, Zenon DEF Latest

\* A queue without its head is a queue.
LEMMA TailType ==
    ASSUME NEW S, NEW q \in Seq(S), q # <<>>
    PROVE  Tail(q) \in Seq(S) /\ Head(q) \in S
OBVIOUS

\* Every step keeps the types.
LEMMA TypeStep == TypeOK /\ Watched /\ [Next]_vars => TypeOK'
<1>. SUFFICES ASSUME TypeOK, Watched, [Next]_vars PROVE TypeOK'
  OBVIOUS
<1>. USE DEF TypeOK, Runs, Kinds, Terminal, States, Tasks
<1>1. ASSUME NEW r \in Runs, HandleControl(r) PROVE TypeOK'
  <2>1. ctl' \in [Runs -> Seq(Kinds)]
    BY <1>1, TailType, Zenon DEF HandleControl
  <2>2. task' \in [Runs -> Tasks]
    BY <1>1 DEF HandleControl, Leaves
  <2>3. state' \in [Runs -> States]
    BY <1>1 DEF HandleControl, Leaves
  <2>4. pub' \in [Runs -> States]
    BY <1>1, <2>3 DEF HandleControl, Leaves, Publish
  <2>. QED
    BY <1>1, <2>1, <2>2, <2>3, <2>4 DEF HandleControl, registry, starts, calls, shutdown
<1>2. ASSUME NEW r \in Runs, Parked(r) PROVE TypeOK'
  <2>1. ctl' \in [Runs -> Seq(Kinds)]
    BY <1>2, TailType DEF Parked
  <2>2. task' \in [Runs -> Tasks]
    BY <1>2 DEF Parked, Leaves
  <2>3. state' \in [Runs -> States]
    BY <1>2 DEF Parked, Leaves
  <2>4. pub' \in [Runs -> States]
    BY <1>2, <2>3 DEF Parked, Leaves, Publish
  <2>. QED
    BY <1>2, <2>1, <2>2, <2>3, <2>4 DEF Parked, registry, starts, calls, shutdown
<1>3. ASSUME NEW r \in Runs, Closes(r) PROVE TypeOK'
  BY <1>3, ZenonT(60) DEF Closes, Publish, registry, starts, calls, shutdown
<1>4. ASSUME NEW r \in Runs, Returns(r) PROVE TypeOK'
  BY <1>4 DEF Returns, registry, starts, calls, shutdown
<1>5. ASSUME NEW r \in Runs, Ends(r) PROVE TypeOK'
  BY <1>5 DEF Ends, Leaves, registry, starts, calls, shutdown
<1>6. ASSUME NEW c \in Starters, NEW resume \in BOOLEAN, Start(c, resume) PROVE TypeOK'
  <2>1. CASE AnswersAtOnce(resume) \/ Reserved
    BY <1>6, <2>1, ZenonT(60) DEF Start, StartAnswers, runs, calls, shutdown
  <2>2. CASE ~(AnswersAtOnce(resume) \/ Reserved)
    BY <1>6, <2>2, ZenonT(60) DEF Start, runs, calls, shutdown
  <2>. QED
    BY <2>1, <2>2
<1>7. ASSUME NEW c \in Starters, BringUpFails(c) PROVE TypeOK'
  BY <1>7, Zenon DEF BringUpFails, StartAnswers, runs, calls, shutdown
<1>8. ASSUME NEW c \in Starters, Spawns(c) PROVE TypeOK'
  <2>1. Cardinality(Spawned) + 1 \in Runs
    BY <1>8, LatestType, ServiceAssumption DEF Spawns, Latest
  <2>. QED
    BY <1>8, <2>1 DEF Spawns, Publish, registry, calls, shutdown
<1>9. ASSUME NEW c \in Starters, Registers(c) PROVE TypeOK'
  BY <1>9, Zenon DEF Registers, StartAnswers, runs, calls, shutdown
<1>10. ASSUME NEW c \in Starters, CancelsStart(c) PROVE TypeOK'
  BY <1>10, ZenonT(60) DEF CancelsStart, StartAnswers, runs, calls, shutdown
<1>11. ASSUME NEW c \in Callers, NEW k \in Kinds, LooksUp(c, k) PROVE TypeOK'
  BY <1>11 DEF LooksUp, registry, runs, starts, shutdown
<1>12. ASSUME NEW c \in Callers, Sends(c) PROVE TypeOK'
  <2>1. crun[c] \in Runs
    BY <1>12 DEF Sends, Watched, Spawned
  <2>2. ctl' \in [Runs -> Seq(Kinds)]
    BY <1>12, <2>1 DEF Sends
  <2>3. cpc' \in [Callers -> {"idle", "send", "wait", "over"}]
    <3>1. cpc' = [cpc EXCEPT ![c] = "over"] \/ cpc' = [cpc EXCEPT ![c] = "wait"]
      BY <1>12, Zenon DEF Sends
    <3>. QED
      BY <3>1
  <2>4. answer' \in [Callers -> States \cup {"none", "error"}]
    BY <1>12 DEF Sends
  <2>. QED
    BY <1>12, <2>2, <2>3, <2>4 DEF Sends, registry, starts, shutdown
<1>13. ASSUME NEW c \in Callers, Answers(c) PROVE TypeOK'
  BY <1>13 DEF Answers, EndsWait, registry, runs, starts, shutdown
<1>14. CASE ShutdownCollects
  BY <1>14 DEF ShutdownCollects, registry, runs, starts, calls
<1>15. CASE ShutdownSends
  <2>1. drain \in Runs
    BY <1>15 DEF ShutdownSends, Watched, Spawned
  <2>. QED
    BY <1>15, <2>1 DEF ShutdownSends, registry, starts, calls
<1>16. CASE ShutdownWaits
  BY <1>16 DEF ShutdownWaits, registry, runs, starts, calls
<1>17. CASE UNCHANGED vars
  BY <1>17 DEF vars, registry, runs, starts, calls, shutdown
<1>. QED
  BY <1>1, <1>2, <1>3, <1>4, <1>5, <1>6, <1>7, <1>8, <1>9, <1>10, <1>11, <1>12, <1>13, <1>14,
     <1>15, <1>16, <1>17, Zenon DEF Next, RunnerStep, StartStep, CallStep, ShutdownStep

-----------------------------------------------------------------------------
(* The runs and their numbers.                                                *)

\* What every step but the spawning of a run keeps: the runs there are, and that a run is done.
LEMMA TaskStep ==
    ASSUME TypeOK, Watched, [Next]_vars, \A c \in Starters : ~Spawns(c)
    PROVE  /\ \A r \in Runs : task[r] = "none" <=> task'[r] = "none"
           /\ \A r \in Runs : task[r] = "done" => task'[r] = "done"
           /\ rerun' = rerun /\ Spawned' = Spawned /\ Latest' = Latest
<1>. USE DEF TypeOK, Tasks
<1>a. DEFINE Kept == /\ \A r \in Runs : task[r] = "none" <=> task'[r] = "none"
                     /\ \A r \in Runs : task[r] = "done" => task'[r] = "done"
                     /\ rerun' = rerun
<1>1. ASSUME NEW r \in Runs, HandleControl(r) \/ Parked(r) PROVE Kept
  <2>1. task' = task \/ (task[r] = "up" /\ task' = [task EXCEPT ![r] = "closing"])
    BY <1>1 DEF HandleControl, Parked, Leaves
  <2>. QED
    BY <1>1, <2>1 DEF HandleControl, Parked
<1>2. ASSUME NEW r \in Runs, Closes(r) \/ Returns(r) \/ Ends(r) PROVE Kept
  <2>1. /\ task[r] # "none" /\ task[r] # "done"
        /\ \E s \in Tasks \ {"none"} : task' = [task EXCEPT ![r] = s]
    BY <1>2 DEF Closes, Returns, Ends, Leaves
  <2>. QED
    BY <1>2, <2>1 DEF Closes, Returns, Ends
<1>3. ASSUME NEW c \in Starters, NEW resume \in BOOLEAN, Start(c, resume) PROVE Kept
  BY <1>3 DEF Start, runs
<1>4. ASSUME NEW c \in Starters, BringUpFails(c) \/ Registers(c) \/ CancelsStart(c) PROVE Kept
  BY <1>4 DEF BringUpFails, Registers, CancelsStart, runs
<1>5. ASSUME NEW c \in Callers, NEW k \in Kinds, LooksUp(c, k) PROVE Kept
  BY <1>5 DEF LooksUp, runs
<1>6. ASSUME NEW c \in Callers, CallStep(c) PROVE Kept
  BY <1>6 DEF CallStep, Sends, Answers, runs
<1>7. ASSUME ShutdownCollects \/ ShutdownStep PROVE Kept
  BY <1>7 DEF ShutdownCollects, ShutdownStep, ShutdownSends, ShutdownWaits, runs
<1>8. ASSUME UNCHANGED vars PROVE Kept
  BY <1>8 DEF vars, runs
<1>9. Kept
  BY <1>1, <1>2, <1>3, <1>4, <1>5, <1>6, <1>7, <1>8 DEF Next, RunnerStep, StartStep
<1>10. Spawned' = Spawned
  BY <1>9 DEF Spawned
<1>. QED
  BY <1>9, <1>10 DEF Latest

\* A run that is spawned gets the next number.
LEMMA SpawnStep ==
    ASSUME TypeOK, InOrder, NEW c \in Starters, Spawns(c)
    PROVE  /\ Spawned' = 1 .. Latest + 1 /\ Latest' = Latest + 1 /\ Latest + 1 \in Runs
           /\ task[Latest + 1] = "none" /\ task' = [task EXCEPT ![Latest + 1] = "up"]
<1>1. Latest \in Nat /\ Latest + 1 \in Runs
  BY LatestType, ServiceAssumption DEF Spawns, Latest, Runs
<1>2. task' = [task EXCEPT ![Latest + 1] = "up"]
  BY DEF Spawns, Latest
<1>3. task[Latest + 1] = "none"
  <2>1. Latest + 1 \notin Spawned
    BY <1>1 DEF InOrder
  <2>. QED
    BY <2>1, <1>1 DEF Spawned
<1>4. Spawned' = Spawned \cup {Latest + 1}
  BY <1>1, <1>2 DEF Spawned, TypeOK, Runs
<1>5. Spawned' = 1 .. Latest + 1
  BY <1>1, <1>4 DEF InOrder
<1>6. Cardinality(1 .. Latest + 1) = Latest + 1
  BY <1>1, FS_Interval
<1>7. Latest' = Latest + 1
  BY <1>5, <1>6 DEF Latest
<1>. QED
  BY <1>1, <1>2, <1>3, <1>5, <1>7

\* A run is spawned only after all runs before it are done.
LEMMA InOrderStep ==
    ASSUME TypeOK, InOrder, Reservation, Watched, [Next]_vars
    PROVE  InOrder'
<1>1. CASE \A c \in Starters : ~Spawns(c)
  BY <1>1, TaskStep DEF InOrder, Spawned
<1>2. ASSUME NEW c \in Starters, Spawns(c) PROVE InOrder'
  <2>. DEFINE new == Latest + 1
  <2>1. /\ Spawned' = 1 .. new /\ Latest' = new /\ new \in Runs /\ Latest \in Nat
        /\ task' = [task EXCEPT ![new] = "up"]
    BY <1>2, SpawnStep, LatestType
  <2>2. rerun' = [rerun EXCEPT ![new] = flag[c]]
    BY <1>2 DEF Spawns, Latest
  <2>3. Latest # 0 => task[Latest] = "done" /\ flag[c]
    BY <1>2 DEF Spawns, Reservation
  <2>4. \A q \in 1 .. Latest : task'[q] = "done"
    <3>1. \A q \in 1 .. Latest : task[q] = "done"
      BY <2>1, <2>3 DEF InOrder
    <3>. QED
      BY <3>1, <2>1 DEF TypeOK, Runs
  <2>5. \A q, r \in 1 .. new : q < r => task'[q] = "done"
    BY <2>1, <2>4
  <2>6. \A r \in 1 .. new : r > 1 => rerun'[r]
    <3>1. ASSUME NEW r \in 1 .. Latest, r > 1 PROVE rerun'[r]
      BY <3>1, <2>1, <2>2 DEF InOrder, TypeOK, Runs
    <3>2. new > 1 => rerun'[new]
      BY <2>1, <2>2, <2>3 DEF TypeOK
    <3>. QED
      BY <2>1, <3>1, <3>2
  <2>. QED
    BY <2>1, <2>5, <2>6 DEF InOrder
<1>. QED
  BY <1>1, <1>2

-----------------------------------------------------------------------------
(* The reservation of the id.                                                 *)

\* Start reserves the id before it brings a run up, and registers the run before it gives the id back.
LEMMA ReservationStep ==
    ASSUME TypeOK, InOrder, Reservation, Watched, [Next]_vars
    PROVE  Reservation'
<1>. USE DEF Reservation, Pending
<1>1. CASE UNCHANGED <<registry, starts>> /\ \A c \in Starters : ~Spawns(c)
  BY <1>1, TaskStep DEF registry, starts, TypeOK
<1>2. ASSUME NEW c \in Starters, NEW resume \in BOOLEAN, Start(c, resume) PROVE Reservation'
  <2>2. Spawned' = Spawned /\ Latest' = Latest /\ UNCHANGED <<entry, task>>
    BY <1>2 DEF Start, runs, Spawned, Latest
  <2>3. CASE AnswersAtOnce(resume) \/ Reserved
    <3>1. /\ UNCHANGED starting /\ spc' = [spc EXCEPT ![c] = "over"]
          /\ flag' = [flag EXCEPT ![c] = FALSE] /\ srun' = [srun EXCEPT ![c] = 0]
      BY <1>2, <2>3 DEF Start, StartAnswers
    <3>2. \A d \in Starters : spc'[d] # "over" =>
              spc'[d] = spc[d] /\ flag'[d] = flag[d] /\ srun'[d] = srun[d]
      BY <3>1, Zenon DEF TypeOK
    <3>. QED
      BY <2>2, <3>1, <3>2, ZenonT(60)
  <2>4. CASE ~(AnswersAtOnce(resume) \/ Reserved)
    BY <1>2, <2>2, <2>4 DEF Start, AnswersAtOnce, Reserved, TypeOK
  <2>. QED
    BY <2>3, <2>4, Zenon
<1>3. ASSUME NEW c \in Starters, Spawns(c) PROVE Reservation'
  <2>1. Spawned' = 1 .. Latest + 1 /\ Latest' = Latest + 1 /\ Latest \in Nat
    BY <1>3, SpawnStep, LatestType
  <2>2. UNCHANGED <<entry, starting>> /\ spc' = [spc EXCEPT ![c] = "spawned"]
        /\ srun' = [srun EXCEPT ![c] = Latest + 1] /\ spc[c] = "bringup"
    BY <1>3 DEF Spawns, registry, Latest
  <2>3. \A d \in Starters : d # c => spc[d] \notin {"bringup", "spawned"}
    BY <2>2
  <2>. QED
    BY <2>1, <2>2, <2>3 DEF TypeOK, InOrder
<1>4. ASSUME NEW c \in Starters, BringUpFails(c) \/ Registers(c) \/ CancelsStart(c)
      PROVE  Reservation'
  <2>1. spc[c] \in {"bringup", "spawned"} /\ spc' = [spc EXCEPT ![c] = "over"]
    BY <1>4 DEF BringUpFails, Registers, CancelsStart, StartAnswers
  <2>2. \A d \in Starters : spc'[d] \notin {"bringup", "spawned"}
    BY <2>1 DEF TypeOK
  <2>3. Spawned' = Spawned /\ Latest' = Latest
    BY <1>4 DEF BringUpFails, Registers, CancelsStart, runs, Spawned, Latest
  <2>4. BringUpFails(c) => entry' = Latest
    BY DEF BringUpFails
  <2>5. Registers(c) => entry' = Latest
    BY DEF Registers
  <2>6. CancelsStart(c) => starting'
    <3>1. starting
      BY <2>1
    <3>. QED
      BY <3>1, Zenon DEF CancelsStart
  <2>7. entry' \in Spawned \cup {0}
    <3>1. CancelsStart(c) => entry' = entry \/ (spc[c] = "spawned" /\ entry' = srun[c])
      BY Zenon DEF CancelsStart
    <3>. QED
      BY <1>4, <3>1 DEF BringUpFails, Registers
  <2>. QED
    BY <1>4, <2>2, <2>3, <2>4, <2>5, <2>6, <2>7
<1>5. ASSUME NEW r \in Runs, RunnerStep(r) \/ Ends(r) PROVE UNCHANGED <<registry, starts>>
  BY <1>5 DEF RunnerStep, HandleControl, Parked, Closes, Returns, Ends
<1>6. ASSUME NEW c \in Callers, CallStep(c) \/ \E k \in Kinds : LooksUp(c, k)
      PROVE  UNCHANGED <<registry, starts>>
  BY <1>6 DEF CallStep, Sends, Answers, LooksUp
<1>7. ASSUME ShutdownCollects \/ ShutdownStep PROVE UNCHANGED <<registry, starts>>
  BY <1>7 DEF ShutdownCollects, ShutdownStep, ShutdownSends, ShutdownWaits
<1>8. ASSUME UNCHANGED vars PROVE UNCHANGED <<registry, starts>>
  BY <1>8 DEF vars
<1>. QED
  BY <1>1, <1>2, <1>3, <1>4, <1>5, <1>6, <1>7, <1>8, Zenon DEF Next, StartStep

-----------------------------------------------------------------------------
(* Final states.                                                              *)

\* The shape of a runner's step: its run is up or closing, and a final state reaches the watch only
\* with the end of the last checkpoint.
LEMMA RunnerSteps ==
    ASSUME TypeOK, Watched, NEW r \in Runs, RunnerStep(r) \/ Ends(r)
    PROVE  /\ \A q \in Runs : q # r => task'[q] = task[q] /\ state'[q] = state[q] /\ pub'[q] = pub[q]
           /\ \/ task[r] = "up" /\ task'[r] = "up" /\ pub'[r] \notin Terminal
              \/ /\ task[r] = "up" /\ task'[r] = "closing"
                 /\ state'[r] \in Terminal /\ pub'[r] = pub[r]
              \/ /\ task[r] = "closing" /\ task'[r] = "closed"
                 /\ state'[r] \in Terminal /\ pub'[r] = state'[r]
              \/ task[r] = "closed" /\ task'[r] = "done" /\ UNCHANGED <<state, pub>>
           /\ UNCHANGED <<calls, shutdown>>
<1>. USE DEF TypeOK, Terminal
<1>1. CASE HandleControl(r)
  BY <1>1 DEF HandleControl, Leaves, Publish, Watched
<1>2. CASE Parked(r)
  BY <1>2 DEF Parked, Leaves, Publish, Watched
<1>3. CASE Closes(r)
  BY <1>3 DEF Closes, Publish, Watched
<1>4. CASE Returns(r)
  BY <1>4 DEF Returns
<1>5. CASE Ends(r)
  BY <1>5 DEF Ends, Leaves
<1>. QED
  BY <1>1, <1>2, <1>3, <1>4, <1>5 DEF RunnerStep

\* The runner publishes its final state with its end, and callers hold on to runs that were spawned.
LEMMA WatchedStep ==
    ASSUME TypeOK, InOrder, Reservation, Watched, StopIsFinal, [Next]_vars
    PROVE  Watched' /\ StopIsFinal'
<1>. USE DEF Watched, StopIsFinal, Closed
<1>1. ASSUME NEW r \in Runs, RunnerStep(r) \/ Ends(r) PROVE Watched' /\ StopIsFinal'
  <2>1. Spawned' = Spawned
    BY <1>1, RunnerSteps DEF Spawned
  <2>2. Watched'
    BY <1>1, <2>1, RunnerSteps DEF calls, shutdown
  <2>3. \A q \in Runs : Closed(q) => Closed(q)' /\ state'[q] = state[q]
    BY <1>1, RunnerSteps, Zenon
  <2>4. StopIsFinal'
    BY <1>1, <2>3, RunnerSteps DEF calls, shutdown, Spawned
  <2>. QED
    BY <2>2, <2>4
<1>2. ASSUME NEW c \in Starters, Spawns(c) PROVE Watched' /\ StopIsFinal'
  <2>. DEFINE new == Latest + 1
  <2>1. /\ Spawned' = 1 .. new /\ new \in Runs /\ task[new] = "none" /\ Spawned = 1 .. Latest
        /\ task' = [task EXCEPT ![new] = "up"] /\ Latest \in Nat
    BY <1>2, SpawnStep, LatestType DEF InOrder
  <2>2. /\ \A q \in Runs : q # new => state'[q] = state[q] /\ pub'[q] = pub[q]
        /\ pub'[new] \in {"Running", "Paused"}
    BY <1>2, <2>1 DEF Spawns, Publish, Latest, TypeOK
  <2>3. Watched'
    BY <1>2, <2>1, <2>2 DEF Spawns, calls, shutdown, TypeOK, Terminal
  <2>4. StopIsFinal'
    BY <1>2, <2>1, <2>2 DEF Spawns, calls, shutdown, TypeOK
  <2>. QED
    BY <2>3, <2>4, Zenon
<1>3. CASE UNCHANGED <<task, state, pub, calls, shutdown>>
  BY <1>3 DEF calls, shutdown, Spawned
<1>4. ASSUME NEW c \in Callers, NEW k \in Kinds, LooksUp(c, k) PROVE Watched' /\ StopIsFinal'
  BY <1>4 DEF LooksUp, runs, shutdown, Spawned, Reservation, TypeOK
<1>5. ASSUME NEW c \in Callers, Sends(c) PROVE Watched' /\ StopIsFinal'
  <2>1. /\ UNCHANGED <<task, state, pub, kind, crun, dpc, drain>> /\ crun[c] \in Spawned
        /\ \A d \in Callers : d # c => cpc'[d] = cpc[d] /\ answer'[d] = answer[d]
        /\ kind[c] = "Stop" => cpc'[c] = "wait"
    BY <1>5 DEF Sends, shutdown, TypeOK
  <2>. QED
    BY <2>1 DEF Spawned
<1>6. ASSUME NEW c \in Callers, Answers(c) PROVE Watched' /\ StopIsFinal'
  <2>1. /\ UNCHANGED <<task, state, pub, kind, crun, dpc, drain>> /\ crun[c] \in Spawned
        /\ \A d \in Callers : d # c => cpc'[d] = cpc[d] /\ answer'[d] = answer[d]
        /\ answer'[c] = pub[crun[c]]
        /\ kind[c] = "Stop" => pub[crun[c]] \in Terminal
    BY <1>6 DEF Answers, EndsWait, runs, shutdown, TypeOK
  <2>2. kind[c] = "Stop" => Closed(crun[c])
    BY <2>1 DEF Spawned, TypeOK, Tasks
  <2>. QED
    BY <2>1, <2>2 DEF Spawned
<1>7. CASE ShutdownCollects
  BY <1>7 DEF ShutdownCollects, runs, calls, Spawned, Reservation
<1>8. CASE ShutdownSends
  BY <1>8 DEF ShutdownSends, calls, Spawned
<1>9. CASE ShutdownWaits
  BY <1>9 DEF ShutdownWaits, EndsWait, runs, calls, Spawned, TypeOK, Tasks
<1>10. ASSUME NEW c \in Starters, \/ BringUpFails(c) \/ Registers(c) \/ CancelsStart(c)
                                  \/ \E resume \in BOOLEAN : Start(c, resume)
       PROVE  UNCHANGED <<task, state, pub, calls, shutdown>>
  BY <1>10 DEF BringUpFails, Registers, CancelsStart, Start, runs
<1>. QED
  BY <1>1, <1>2, <1>3, <1>4, <1>5, <1>6, <1>7, <1>8, <1>9, <1>10, Zenon
  DEF Next, StartStep, CallStep, ShutdownStep, vars, runs

-----------------------------------------------------------------------------
(* The theorems.                                                              *)

\* A service without runs and calls.
LEMMA InitInv == Init => IInv
<1>. SUFFICES ASSUME Init PROVE IInv
  OBVIOUS
<1>. USE DEF Init
<1>1. TypeOK
  <2>1. ctl \in [Runs -> Seq(Kinds)] /\ task \in [Runs -> Tasks] /\ state \in [Runs -> States]
    BY DEF Tasks, States
  <2>. QED
    BY <2>1, Zenon DEF TypeOK, States, Kinds
<1>2. Spawned = {} /\ Latest = 0
  <2>1. Spawned = {}
    BY DEF Spawned
  <2>. QED
    BY <2>1, FS_EmptySet DEF Latest
<1>3. InOrder /\ Reservation
  BY <1>2 DEF InOrder, Reservation, Pending
<1>4. Watched /\ StopIsFinal
  BY DEF Watched, StopIsFinal, Terminal, Closed
<1>. QED
  BY <1>1, <1>3, <1>4 DEF IInv

\* The invariant of the registry, the calls and the runs is kept by every step of a start, a control
\* call, a runner and the shutdown, also when a client drops its call half-way.
THEOREM ServiceInvariance == Spec => []IInv
<1>1. IInv /\ [Next]_vars => IInv'
  BY TypeStep, InOrderStep, ReservationStep, WatchedStep DEF IInv
<1>. QED
  BY InitInv, <1>1, PTL DEF Spec

\* start_experiment never has two runners of an experiment, whatever the number of calls and however
\* many of them are dropped; and it runs a finished one again only if asked to.
THEOREM NeverTwoRunners == Spec => []OneRunner
<1>1. ASSUME TypeOK, InOrder PROVE OneRunner
  <2>. DEFINE Live == {r \in Spawned : task[r] # "done"}
  <2>1. ASSUME NEW q \in Live, NEW r \in Live PROVE q = r
    <3>1. q \in Int /\ r \in Int
      BY <1>1, LatestType DEF InOrder
    <3>2. ~(q < r) /\ ~(r < q)
      BY <1>1 DEF InOrder
    <3>. QED
      BY <3>1, <3>2
  <2>2. Cardinality(Live) <= 1
    <3>1. CASE Live = {}
      BY <3>1, FS_EmptySet
    <3>2. CASE Live # {}
      <4>1. PICK r \in Live : TRUE
        BY <3>2
      <4>2. Live = {r}
        BY <2>1, <4>1
      <4>3. Cardinality({r}) = 1
        BY FS_Singleton
      <4>. QED
        BY <4>2, <4>3
    <3>. QED
      BY <3>1, <3>2
  <2>. QED
    BY <1>1, <2>2 DEF OneRunner, InOrder
<1>2. IInv => OneRunner
  BY <1>1 DEF IInv
<1>. QED
  BY ServiceInvariance, <1>2, PTL

\* What stop_experiment and shutdown() answer is the state after the final checkpoint.
THEOREM StopAnswersAreFinal == Spec => []StopIsFinal
<1>1. IInv => StopIsFinal
  BY DEF IInv
<1>. QED
  BY ServiceInvariance, <1>1, PTL
=============================================================================
