------------------------------ MODULE GridWorld ------------------------------
(* The deterministic guest of the simulated services (orch-fakes/grid.rs): a   *)
(* player in a graph of 5 x 5 rooms with walls, doors, a key, a boss and a     *)
(* goal.  A world w is a record; an operator takes it where the method takes   *)
(* &self.  A state is named by its contents, as its hash and its cell key are  *)
(* one-to-one in them.                                                         *)
EXTENDS Integers, Sequences

Width == 5
Height == 5
BossMaxHp == 3

Rooms == {"Start", "KeyVault", "Boss"}
RoomId == [Start |-> 0, KeyVault |-> 1, Boss |-> 2]
Moves == {"Up", "Down", "Left", "Right"}
GridActions == Moves \cup {"Wait", "Attack"}

\* GridPos, and the optional places of a world as sets of at most one.
Pos(room, x, y) == [room |-> room, x |-> x, y |-> y]
At(state) == Pos(state.room, state.x, state.y)
Door(at, action, to, key) == [at |-> at, action |-> action, to |-> to, requiresKey |-> key]

ThreeRoom ==
    [start |-> Pos("Start", 0, 2),
     walls |-> {Pos("Start", 1, y) : y \in (0 .. Height - 1) \ {2}}
               \cup {Pos("KeyVault", 3, 1)} \cup {Pos("Boss", x, 3) : x \in {1, 3}},
     doors |-> {Door(Pos("Start", 4, 2), "Right", Pos("KeyVault", 0, 2), FALSE),
                Door(Pos("KeyVault", 0, 2), "Left", Pos("Start", 4, 2), FALSE),
                Door(Pos("Start", 2, 0), "Up", Pos("Boss", 2, 4), TRUE)},
     key   |-> {Pos("KeyVault", 2, 2)},
     boss  |-> {Pos("Boss", 2, 2)},
     goal  |-> Pos("Boss", 4, 0),
     base  |-> [Start |-> 0, KeyVault |-> 100, Boss |-> 200],
     xWeight |-> [r \in Rooms |-> 10],
     yWeight |-> [r \in Rooms |-> 1],
     pruneCell |-> {Pos("Start", 0, 0)}]

CorridorHiddenKey ==
    [start |-> Pos("Start", 0, 2),
     walls |-> {Pos("Start", x, y) : x \in 0 .. Width - 1, y \in {3, 4}}
               \cup {Pos("Start", x, y) : x \in 1 .. Width - 1, y \in {0, 1}},
     doors |-> {Door(Pos("Start", 0, 0), "Up", Pos("KeyVault", 0, 0), FALSE),
                Door(Pos("KeyVault", 4, 0), "Up", Pos("Start", 0, 2), FALSE),
                Door(Pos("Start", 4, 2), "Right", Pos("Boss", 0, 2), TRUE)},
     key   |-> {Pos("KeyVault", 4, 0)},
     boss  |-> {},
     goal  |-> Pos("Boss", 4, 2),
     base  |-> [Start |-> 0, KeyVault |-> 0, Boss |-> 200],
     xWeight |-> [Start |-> 10, KeyVault |-> 0, Boss |-> 10],
     yWeight |-> [r \in Rooms |-> 0],
     pruneCell |-> {}]

\* boss_hp_max
BossHpMax(w) == IF w.boss = {} THEN 0 ELSE BossMaxHp

\* GridState, at the start of world w.
InitialState(w) ==
    [room |-> w.start.room, x |-> w.start.x, y |-> w.start.y, keys |-> 0, bossHp |-> BossHpMax(w)]

HasKey(state) == state.keys = 1

GoalReached(w, state) == At(state) = w.goal /\ state.bossHp = 0

Attack(w, state) ==
    IF At(state) \in w.boss /\ state.bossHp > 0 THEN [state EXCEPT !.bossHp = @ - 1] ELSE state

\* add_delta: a step out of the room on the low side has no target, on the high side a wall.
Towards(pos, action) ==
    CASE action = "Up"    -> [pos EXCEPT !.y = @ - 1]
      [] action = "Down"  -> [pos EXCEPT !.y = @ + 1]
      [] action = "Left"  -> [pos EXCEPT !.x = @ - 1]
      [] action = "Right" -> [pos EXCEPT !.x = @ + 1]

MoveTo(state, pos) == [state EXCEPT !.room = pos.room, !.x = pos.x, !.y = pos.y]

\* move_dir: a door at this place in this direction decides alone, open or not.
MoveDir(w, state, action) ==
    LET doors == {d \in w.doors : d.at = At(state) /\ d.action = action}
        next  == Towards(At(state), action)
    IN  IF doors # {}
        THEN LET d == CHOOSE d \in doors : TRUE
             IN  IF d.requiresKey /\ ~HasKey(state) THEN state ELSE MoveTo(state, d.to)
        ELSE IF next.x \in 0 .. Width - 1 /\ next.y \in 0 .. Height - 1 /\ next \notin w.walls
             THEN MoveTo(state, next) ELSE state

TakeKey(w, state) == IF At(state) \in w.key THEN [state EXCEPT !.keys = 1] ELSE state

\* step, without the outcome, which its callers drop.
Step(w, state, action) ==
    TakeKey(w, CASE action = "Wait"   -> state
                 [] action = "Attack" -> Attack(w, state)
                 [] OTHER             -> MoveDir(w, state, action))

\* progress_score_value
ProgressScore(w, state) ==
    w.base[state.room] + state.x * w.xWeight[state.room]
    + (Height - 1 - state.y) * w.yWeight[state.room]
    + (IF HasKey(state) THEN 25 ELSE 0)
    + (BossHpMax(w) - state.bossHp) * 40
    + (IF GoalReached(w, state) THEN 1000 ELSE 0)

\* stage_value
StageOf(w, state) ==
    IF GoalReached(w, state) THEN 4
    ELSE IF state.room = "Boss" THEN 3
    ELSE IF HasKey(state) THEN 2
    ELSE IF state.room = "Start" THEN 1 ELSE 0

Prune(w, state) == At(state) \in w.pruneCell

-----------------------------------------------------------------------------
(* The bytes a capture takes of a state, and the state the scorer reads in    *)
(* them (orch-fakes/scorer.rs).                                               *)

\* encode_grid_features
EncodeGrid(state) == <<RoomId[state.room], state.x, state.y, state.keys, state.bossHp>>

\* decode_grid_features: the error of bytes that are no state.
DecodeError(bytes) ==
    IF Len(bytes) # 5 THEN "feature_len_mismatch"
    ELSE IF \/ bytes[1] \notin 0 .. 2 \/ bytes[2] >= Width \/ bytes[3] >= Height
            \/ bytes[5] > BossMaxHp
         THEN "decode_failed" ELSE "none"

DecodeGrid(bytes) ==
    [room |-> CHOOSE r \in Rooms : RoomId[r] = bytes[1],
     x |-> bytes[2], y |-> bytes[3], keys |-> bytes[4], bossHp |-> bytes[5]]
=============================================================================
