---------------------------- MODULE ShutterProofs ---------------------------
(***************************************************************************)
(* Proofs about Shutter: the position stays in its range whatever edges    *)
(* are lost and whatever timeouts come early, and it is right while none   *)
(* are.                                                                    *)
(***************************************************************************)
EXTENDS Shutter, TLAPS

(* The goal of a value is in range, whatever the length was measured to be.  *)
LEMMA GoalInRange ==
  ASSUME TypeOK, NEW val \in 0 .. Full
  PROVE  Goal(val) \in -MaxBound .. MaxBound
<1>1. MaxBound \in Nat /\ Full \in Nat /\ Full > 1 /\ val \in 0 .. Full
  BY BoundAssumption, ValueAssumption
<1>2. upperbound \in -MaxBound .. MaxBound
  BY DEF TypeOK
<1>3. ASSUME NEW u \in 0 .. MaxBound
      PROVE  (val * u) \div Full \in 0 .. MaxBound
  <2>1. val * u \in Nat /\ val * u <= Full * MaxBound
    BY <1>1, <1>3
  <2>2. QED
    BY <1>1, <2>1
<1>4. Share(val) \in -MaxBound .. MaxBound
  <2>1. CASE upperbound >= 0
    BY <1>1, <1>2, <1>3, <2>1 DEF Share
  <2>2. CASE ~(upperbound >= 0)
    <3>1. -upperbound \in 0 .. MaxBound
      BY <1>1, <1>2, <2>2
    <3>2. (val * (-upperbound)) \div Full \in 0 .. MaxBound
      BY <1>3, <3>1
    <3>3. QED
      BY <1>1, <2>2, <3>2 DEF Share
  <2>3. QED
    BY <2>1, <2>2
<1>5. QED
  BY <1>1, <1>4 DEF Goal

-----------------------------------------------------------------------------
Inv == TypeOK /\ Toward /\ PositionKnown

(* A write that starts, stops or leaves the shutter, with what it does to    *)
(* the history; the endpoint and the setup process share it.                 *)
Toggled(val) ==
  /\ shutter_toggle(val)
  /\ homed' = (homed /\ (needspoll => direction' = direction))
  /\ UNCHANGED <<pos, upperbound, needspoll, at, measured>>

(* An event that is posted leaves a queue of events.                         *)
LEMMA QueueGrows ==
  ASSUME NEW q \in Seq({"timer", "poke"}), NEW e \in {"timer", "poke"}
  PROVE  Append(q, e) \in Seq({"timer", "poke"})
OBVIOUS

(* And so does one that is delivered.                                        *)
LEMMA QueueShrinks ==
  ASSUME NEW q \in Seq({"timer", "poke"}), q # <<>>
  PROVE  Tail(q) \in Seq({"timer", "poke"})
OBVIOUS

(* shutter_open and shutter_close set the direction and post a poke.         *)
LEMMA StartTypes ==
  ASSUME TypeOK, NEW d \in {UP, DOWN}, Start(d)
  PROVE  /\ direction' = d
         /\ queue' \in Seq({"timer", "poke"})
         /\ timer' \in {"off", "on", "renewed"}
         /\ refused' \in BOOLEAN
<1>1. queue \in Seq({"timer", "poke"}) /\ refused \in BOOLEAN /\ timer \in {"off", "on", "renewed"}
  BY DEF TypeOK
<1>2. queue' \in Seq({"timer", "poke"}) /\ refused' \in BOOLEAN
  BY <1>1, QueueGrows DEF Start, Poke
<1>3. QED
  BY <1>1, <1>2 DEF Start

(* Whatever is written, the shutter goes towards its goal or stands still.   *)
LEMMA ToggledKeeps ==
  ASSUME Inv, NEW val \in 0 .. Full, Toggled(val), setup' \in {"closing", "opening", "done", "hung"}
  PROVE  Inv'
<1> USE DEF UP, DOWN, STOP
<1>1. TypeOK /\ Toward /\ PositionKnown
  BY DEF Inv
<1>2. CASE direction = STOP /\ val # 0 /\ shutter_set(val)
  <2>1. goal' = Goal(val) /\ goal' \in -MaxBound .. MaxBound
    BY <1>1, <1>2, GoalInRange DEF shutter_set
  <2>2. /\ direction' \in {UP, DOWN, STOP}
        /\ direction' = UP => goal' > pos
        /\ direction' = DOWN => goal' < pos
        /\ queue' \in Seq({"timer", "poke"})
        /\ timer' \in {"off", "on", "renewed"}
        /\ refused' \in BOOLEAN
    BY <1>1, <1>2, StartTypes DEF shutter_set, TypeOK
  <2>3. TypeOK'
    BY <1>1, <2>1, <2>2 DEF TypeOK, Toggled
  <2>4. Toward'
    BY <2>2 DEF Toward, Toggled
  <2>5. PositionKnown'
    BY <1>1 DEF PositionKnown, Toggled, TypeOK
  <2>6. QED
    BY <2>3, <2>4, <2>5 DEF Inv
<1>3. CASE shutter_stop /\ UNCHANGED goal
  <2>1. TypeOK'
    BY <1>1, <1>3 DEF TypeOK, Toggled, shutter_stop
  <2>2. Toward'
    BY <1>3 DEF Toward, shutter_stop
  <2>3. PositionKnown'
    BY <1>1, <1>3 DEF PositionKnown, Toggled, TypeOK, shutter_stop
  <2>4. QED
    BY <2>1, <2>2, <2>3 DEF Inv
<1>4. QED
  BY <1>2, <1>3 DEF Toggled, shutter_toggle

(* The position steps towards a goal it has not reached, and so not beyond   *)
(* the bound.                                                                *)
LEMMA PollKeeps ==
  ASSUME Inv, Poll
  PROVE  Inv'
<1> USE DEF UP, DOWN, STOP
<1>1. TypeOK /\ Toward /\ PositionKnown
  BY DEF Inv
<1>2. MaxBound \in Nat
  BY BoundAssumption
<1>3. pos' = pos + direction /\ pos' \in -MaxBound .. MaxBound
  BY <1>1, <1>2 DEF Poll, Counted, TypeOK, Toward
<1>4. TypeOK'
  BY <1>1, <1>3 DEF Poll, TypeOK, Restart, history
<1>5. Toward'
  BY <1>1, <1>3 DEF Poll, Toward, Reached, Counted, TypeOK
<1>6. PositionKnown'
  BY <1>1, <1>3 DEF Poll, PositionKnown, TypeOK, history
<1>7. QED
  BY <1>4, <1>5, <1>6 DEF Inv

(* A timeout stops the shutter; at an end stop it corrects the position.     *)
LEMMA TimerKeeps ==
  ASSUME Inv, Timer
  PROVE  Inv'
<1> USE DEF UP, DOWN, STOP
<1>1. TypeOK /\ Toward /\ PositionKnown
  BY DEF Inv
<1>2. MaxBound \in Nat \ {0} /\ Top \in Nat
  BY BoundAssumption
<1>3. queue' \in Seq({"timer", "poke"})
  BY <1>1, QueueShrinks DEF Timer, TypeOK
<1>4. homed' \in BOOLEAN /\ measured' \in BOOLEAN
  BY <1>1 DEF Timer, TypeOK
<1>5. TypeOK'
  BY <1>1, <1>2, <1>3, <1>4 DEF Timer, EndStop, TypeOK
<1>6. Toward'
  BY DEF Timer, Toward
<1>7. PositionKnown'
  <2>1. /\ direction' = STOP
        /\ needspoll' = needspoll /\ at' = at
    BY DEF Timer
  <2>2. CASE direction = DOWN
    <3>1. homed' => at = 0
      BY <2>2, Zenon DEF Timer
    <3>2. pos' = 1 /\ UNCHANGED <<upperbound, measured>>
      BY <2>2 DEF Timer, EndStop
    <3>3. QED
      BY <1>1, <2>1, <3>1, <3>2 DEF PositionKnown
  <2>3. CASE direction # DOWN
    <3>1. homed' => homed /\ (needspoll => direction = STOP)
      BY <2>3, Zenon DEF Timer
    <3>2. pos' = pos
      BY <2>3 DEF Timer, EndStop
    <3>3. homed' => pos' + (IF needspoll' THEN direction' ELSE STOP) = at' + 1
      BY <1>1, <2>1, <3>1, <3>2 DEF PositionKnown, TypeOK
    <3>4. measured' => upperbound' = Top + 1
      <4>1. CASE direction = UP
        <5>1. measured' => homed /\ at = Top /\ ~needspoll
          BY <4>1, Zenon DEF Timer
        <5>2. upperbound' = pos
          BY <4>1 DEF Timer, EndStop
        <5>3. QED
          BY <1>1, <1>2, <5>1, <5>2 DEF PositionKnown, TypeOK
      <4>2. CASE direction # UP
        BY <1>1, <4>2 DEF Timer, EndStop, PositionKnown
      <4>3. QED
        BY <4>1, <4>2
    <3>5. QED
      BY <3>3, <3>4 DEF PositionKnown
  <2>4. QED
    BY <2>2, <2>3
<1>8. QED
  BY <1>5, <1>6, <1>7 DEF Inv

(* An edge that is not lost is counted by the next poll. *)
LEMMA EdgeKeeps ==
  ASSUME Inv, Edge
  PROVE  Inv'
<1> USE DEF UP, DOWN, STOP
<1>1. TypeOK /\ Toward /\ PositionKnown
  BY DEF Inv
<1>2. Top \in Nat
  BY BoundAssumption
<1>3. homed' \in BOOLEAN
  BY <1>1 DEF Edge, TypeOK
<1>4. TypeOK'
  BY <1>1, <1>2, <1>3 DEF Edge, CanMove, TypeOK, position
<1>5. Toward'
  BY <1>1 DEF Edge, Toward, position
<1>6. PositionKnown'
  <2>1. homed' => homed /\ ~needspoll
    BY Zenon DEF Edge
  <2>2. homed' => pos = at + 1
    BY <1>1, <2>1 DEF PositionKnown, TypeOK
  <2>3. UNCHANGED <<pos, direction, upperbound, measured>> /\ needspoll' /\ at' = at + direction
    BY DEF Edge, position
  <2>4. homed' => pos' + (IF needspoll' THEN direction' ELSE STOP) = at' + 1
    BY <1>1, <2>2, <2>3 DEF TypeOK
  <2>5. QED
    BY <1>1, <2>3, <2>4 DEF PositionKnown
<1>7. QED
  BY <1>4, <1>5, <1>6 DEF Inv

(* Everything else leaves position and shutter alone. *)
LEMMA RestKeeps ==
  ASSUME Inv, PauseRefused \/ Poked \/ Expire \/ UNCHANGED vars
  PROVE  Inv'
<1>1. TypeOK /\ Toward /\ PositionKnown
  BY DEF Inv
<1>2. UNCHANGED <<position, needspoll, at, homed, measured>>
  BY DEF PauseRefused, Poked, Expire, vars, position, kernel, history
<1>3. queue' \in Seq({"timer", "poke"})
  BY <1>1, QueueShrinks, QueueGrows DEF PauseRefused, Poked, Expire, vars, kernel, TypeOK
<1>4. TypeOK'
  BY <1>1, <1>2, <1>3 DEF PauseRefused, Poked, Expire, Restart, vars, position, kernel, history, TypeOK
<1>5. Toward' /\ PositionKnown'
  BY <1>1, <1>2 DEF Toward, PositionKnown, position
<1>6. QED
  BY <1>4, <1>5 DEF Inv

LEMMA InvInitially == Init => Inv
<1> SUFFICES ASSUME Init PROVE Inv
  OBVIOUS
<1> USE DEF UP, DOWN, STOP
<1>1. MaxBound \in Nat \ {0} /\ Top \in Nat
  BY BoundAssumption
<1>2. MaxBound \div 2 \in 0 .. MaxBound
  BY <1>1
<1>3. TypeOK
  <2>1. <<"poke">> \in Seq({"timer", "poke"})
    OBVIOUS
  <2>2. queue \in Seq({"timer", "poke"})
    BY <2>1 DEF Init
  <2>3. /\ goal \in -MaxBound .. MaxBound
        /\ pos \in -MaxBound .. MaxBound
        /\ upperbound \in -MaxBound .. MaxBound
        /\ at \in 0 .. Top
    BY <1>1, <1>2 DEF Init
  <2>4. /\ direction \in {UP, DOWN, STOP}
        /\ timer \in {"off", "on", "renewed"}
        /\ setup \in {"closing", "opening", "done", "hung"}
    BY DEF Init
  <2>5. /\ needspoll \in BOOLEAN
        /\ homed \in BOOLEAN
        /\ measured \in BOOLEAN
        /\ refused \in BOOLEAN
    BY Zenon DEF Init
  <2>6. QED
    BY <2>2, <2>3, <2>4, <2>5 DEF TypeOK
<1>4. Toward /\ PositionKnown
  BY <1>1, <1>2 DEF Init, Toward, PositionKnown
<1>5. QED
  BY <1>3, <1>4 DEF Inv

LEMMA InvPreserved == Inv /\ [Next]_vars => Inv'
<1> SUFFICES ASSUME Inv, [Next]_vars PROVE Inv'
  OBVIOUS
<1>1. ASSUME NEW val \in Values, Write(val) PROVE Inv'
  <2>1. Toggled(val) /\ setup' \in {"closing", "opening", "done", "hung"}
    BY <1>1 DEF Write, Toggled, Inv, TypeOK
  <2>2. val \in 0 .. Full
    BY <1>1, ValueAssumption
  <2>3. QED
    BY <2>1, <2>2, ToggledKeeps
<1>2. CASE Setup
  <2>1. PICK val \in {1, Full} : Toggled(val) /\ setup' \in {"opening", "done"}
    BY <1>2 DEF Setup, SetupMove, Toggled
  <2>2. val \in 0 .. Full
    BY <2>1, ValueAssumption
  <2>3. QED
    BY <2>1, <2>2, ToggledKeeps
<1>3. CASE PauseRefused \/ Poked \/ Expire \/ UNCHANGED vars
  BY <1>3, RestKeeps
<1>4. QED
  BY <1>1, <1>2, <1>3, PollKeeps, TimerKeeps, EdgeKeeps DEF Next

(* Whatever is lost, refused or comes early, for every length of the shutter *)
(* and every value written: the position, the goal and the measured length   *)
(* stay within SHUTTER_MAX_BOUND, and so within their 16 bits.               *)
THEOREM PositionInRange == Spec => []TypeOK
<1>1. Inv => TypeOK
  BY DEF Inv
<1>2. QED
  BY <1>1, InvInitially, InvPreserved, PTL DEF Spec

(* While the motor runs, its goal lies ahead of the position that is counted, *)
(* however often it is written to, stopped or turned.                        *)
THEOREM MovesToGoal == Spec => []Toward
<1>1. Inv => Toward
  BY DEF Inv
<1>2. QED
  BY <1>1, InvInitially, InvPreserved, PTL DEF Spec

(* A shutter that was closed knows its position until an edge is lost or     *)
(* counted too late, or a timeout comes early, and its length if it was then *)
(* opened; shutter_process counts right otherwise.                           *)
THEOREM KnowsPosition == Spec => []PositionKnown
<1>1. Inv => PositionKnown
  BY DEF Inv
<1>2. QED
  BY <1>1, InvInitially, InvPreserved, PTL DEF Spec

-----------------------------------------------------------------------------
(* The motor that runs has its end coming: the encoder timer is set, or the  *)
(* process has an event in the queue that stops the motor or sets the timer. *)
StopComes == direction # STOP => refused \/ timer # "off" \/ queue # <<>>

(* Whatever a write does to the shutter, a motor it starts has poked the     *)
(* process; one it leaves running keeps the event and the timer it had.      *)
LEMMA ToggleWatched ==
  ASSUME TypeOK, StopComes, NEW val, shutter_toggle(val)
  PROVE  StopComes'
<1>1. ASSUME NEW d, Start(d) PROVE StopComes'
  <2>1. queue' = Append(queue, "poke") => queue' # <<>>
    BY DEF TypeOK
  <2>2. QED
    BY <1>1, <2>1 DEF Start, Poke, StopComes
<1>2. CASE shutter_stop
  BY <1>2 DEF shutter_stop, StopComes
<1>3. CASE UNCHANGED <<direction, queue, timer, refused>>
  BY <1>3 DEF StopComes
<1>4. QED
  BY <1>1, <1>2, <1>3 DEF shutter_toggle, shutter_set

(* A running motor is never left without what stops it, unless the queue     *)
(* refused a poke: a timeout that was used up was the last movement's, and   *)
(* shutter_process restarts the timer on every edge and every poke.          *)
THEOREM MotorWatched == Spec => []StopComes
<1>1. Init => StopComes
  BY DEF Init, StopComes
<1>2. TypeOK /\ StopComes /\ [Next]_vars => StopComes'
  <2> SUFFICES ASSUME TypeOK, StopComes, [Next]_vars PROVE StopComes'
    OBVIOUS
  <2>1. ASSUME NEW val \in Values, Write(val) PROVE StopComes'
    BY <2>1, ToggleWatched DEF Write
  <2>2. CASE Setup
    BY <2>2, ToggleWatched DEF Setup, SetupMove
  <2>3. CASE PauseRefused
    BY <2>3 DEF PauseRefused, StopComes
  <2>4. CASE Poll \/ Poked
    BY <2>4 DEF Poll, Poked, Restart, StopComes
  <2>5. CASE Timer
    BY <2>5 DEF Timer, StopComes
  <2>6. CASE Edge \/ UNCHANGED vars
    BY <2>6 DEF Edge, StopComes, vars, position, kernel, history
  <2>7. CASE Expire
    <3>1. queue' # <<>>
      BY <2>7 DEF Expire, TypeOK
    <3>2. QED
      BY <3>1 DEF StopComes
  <2>8. QED
    BY <2>1, <2>2, <2>3, <2>4, <2>5, <2>6, <2>7 DEF Next
<1>3. QED
  BY <1>1, <1>2, PositionInRange, PTL DEF Spec
=============================================================================
