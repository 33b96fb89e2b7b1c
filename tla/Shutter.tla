------------------------------- MODULE Shutter ------------------------------
(***************************************************************************)
(* The window shutter: a motor with two end stops and an encoder, and the  *)
(* process that follows the encoder.                                       *)
(*                                                                         *)
(* The device does not see where the shutter is.  It counts the edges of   *)
(* the encoder, which an interrupt reports as polls of shutter_process,    *)
(* and takes an encoder that has been silent for ENCODER_TIMEOUT for an    *)
(* end stop.  Three things can spoil the count: a second edge before the   *)
(* poll, an edge that is handled after the motor was stopped or turned,    *)
(* and a TIMER that is in the event queue when a movement begins.          *)
(*                                                                         *)
(* The process runs between handlers that write to the endpoint (packets,  *)
(* the state machine) and between the steps of the setup process; no       *)
(* handler is interrupted by another.                                      *)
(***************************************************************************)
EXTENDS Integers, Sequences

CONSTANTS
  Top,         \* edges between the end stops
  MaxBound,    \* SHUTTER_MAX_BOUND
  Full,        \* the greatest value that can be written, 255
  Values,      \* the values that are written
  QueueSize    \* bound: shutter_process's events in the queue

ASSUME BoundAssumption ==
  Top \in Nat \ {0} /\ MaxBound \in Nat \ {0} /\ 2 * Top < MaxBound
ASSUME ValueAssumption == Full \in Nat /\ Full > 1 /\ Values \subseteq 0 .. Full
ASSUME QueueAssumption == QueueSize \in Nat \ {0}

UP == 1
DOWN == -1
STOP == 0

VARIABLES
  direction, goal, pos, upperbound, \* shutter_direction, ...
  queue,       \* the events for shutter_process, oldest first
  timer,       \* encoder_timer: "off", "on", or "renewed" if set since the movement began
  needspoll,   \* of shutter_process
  setup,       \* where shutter_setup_process is; "hung" for ever
  at,          \* where the shutter is: 0 is closed, Top is open
  homed,       \* history: pos has followed at since the shutter was last closed
  measured,    \* history: upperbound was set by a shutter that was open and homed
  refused      \* history: an event was refused by a full queue

position == <<direction, goal, pos, upperbound>>
kernel   == <<queue, timer, needspoll>>
history  == <<homed, measured, refused>>
vars     == <<position, kernel, setup, at, history>>

TypeOK ==
  /\ direction \in {UP, DOWN, STOP}
  /\ goal \in -MaxBound .. MaxBound
  /\ pos \in -MaxBound .. MaxBound
  /\ upperbound \in -MaxBound .. MaxBound
  /\ queue \in Seq({"timer", "poke"})
  /\ timer \in {"off", "on", "renewed"}
  /\ needspoll \in BOOLEAN
  /\ setup \in {"closing", "opening", "done", "hung"}
  /\ at \in 0 .. Top
  /\ homed \in BOOLEAN
  /\ measured \in BOOLEAN
  /\ refused \in BOOLEAN

(* After shutter_init and process_start of shutter_setup_process, which      *)
(* begins to close the shutter, and of shutter_process, which sets its timer *)
(* and has the poke in the queue.                                            *)
Init ==
  /\ direction = DOWN
  /\ goal = -MaxBound
  /\ pos = MaxBound \div 2
  /\ upperbound = MaxBound
  /\ queue = <<"poke">>
  /\ timer = "renewed"
  /\ needspoll = FALSE
  /\ setup = "closing"
  /\ at \in 0 .. Top
  /\ homed = FALSE
  /\ measured = FALSE
  /\ refused = FALSE

-----------------------------------------------------------------------------
(* The motor can turn in the direction d. *)
CanMove(d) == (d = UP /\ at < Top) \/ (d = DOWN /\ at > 0)

(* The poke of shutter_open and shutter_close, which nobody looks after. *)
Poke ==
  \/ /\ Len(queue) < QueueSize
     /\ queue' = Append(queue, "poke")
     /\ UNCHANGED refused
  \/ UNCHANGED queue /\ refused' = TRUE

(* Mutant: no poke. *)
StartsQuietly(d) ==
  /\ direction' = d
  /\ timer' = IF timer = "renewed" THEN "on" ELSE timer
  /\ UNCHANGED <<queue, refused>>

(* shutter_open, shutter_close.  The timer is the last movement's. *)
Start(d) ==
  /\ direction' = d
  /\ timer' = IF timer = "renewed" THEN "on" ELSE timer
  /\ Poke

shutter_stop == direction' = STOP /\ UNCHANGED <<queue, timer, refused>>

(* The share val / Full of the length, towards zero.  (A float in the code,  *)
(* whose rounding errors are left out.)                                      *)
Share(val) ==
  IF upperbound >= 0 THEN (val * upperbound) \div Full
  ELSE -((val * (-upperbound)) \div Full)

(* Where the value takes the shutter. *)
Goal(val) ==
  IF val = Full THEN MaxBound
  ELSE IF val = 1 THEN -MaxBound
  ELSE Share(val)

shutter_set(val) ==
  /\ goal' = Goal(val)
  /\ \/ goal' > pos /\ Start(UP)
     \/ goal' < pos /\ Start(DOWN)
     \/ goal' = pos /\ UNCHANGED <<direction, queue, timer, refused>>

(* Mutant: a moving shutter is given its new goal. *)
Redirects(val) ==
  \/ val # 0 /\ shutter_set(val)
  \/ val = 0 /\ shutter_stop /\ UNCHANGED goal

shutter_toggle(val) ==
  \/ direction = STOP /\ val # 0 /\ shutter_set(val)
  \/ (direction # STOP \/ val = 0) /\ shutter_stop /\ UNCHANGED goal

(* A write to the endpoint. *)
Write(val) ==
  /\ shutter_toggle(val)
  /\ homed' = (homed /\ (needspoll => direction' = direction))
  /\ UNCHANGED <<pos, upperbound, needspoll, setup, at, measured>>

-----------------------------------------------------------------------------
(***************************************************************************)
(* shutter_setup_process: close, open, go to the initial position, which   *)
(* is closed.  It waits for the end of a movement by PROCESS_PAUSE, whose  *)
(* CONTINUE may be refused.                                                *)
(***************************************************************************)
SetupMove(from, val, to) ==
  /\ setup = from
  /\ direction = STOP
  /\ shutter_toggle(val)
  /\ setup' = to
  /\ homed' = (homed /\ (needspoll => direction' = direction))
  /\ UNCHANGED <<pos, upperbound, needspoll, at, measured>>

Setup ==
  \/ SetupMove("closing", Full, "opening")
  \/ SetupMove("opening", 1, "done")

PauseRefused ==
  /\ setup \in {"closing", "opening"}
  /\ direction # STOP
  /\ setup' = "hung"
  /\ refused' = TRUE
  /\ UNCHANGED <<position, kernel, at, homed, measured>>

-----------------------------------------------------------------------------
(***************************************************************************)
(* shutter_process.                                                        *)
(***************************************************************************)

(* etimer_restart; a TIMER that is in the queue stays there. *)
Restart == timer' = IF direction = STOP THEN "on" ELSE "renewed"

(* The position after one more edge. *)
Counted == pos + direction

(* Mutant: stops beyond the goal. *)
PassesGoal(p) == (p > goal /\ direction = UP) \/ (p < goal /\ direction = DOWN)

Reached(p) == (p >= goal /\ direction = UP) \/ (p <= goal /\ direction = DOWN)

Poll ==
  /\ needspoll
  /\ needspoll' = FALSE
  /\ Restart
  /\ pos' = Counted
  /\ direction' = IF Reached(Counted) THEN STOP ELSE direction
  /\ UNCHANGED <<goal, upperbound, queue, setup, at, history>>

(* Mutant: the end stop is position 0. *)
HomesAtZero ==
  /\ upperbound' = IF direction = UP THEN pos ELSE upperbound
  /\ pos' = IF direction = DOWN THEN 0 ELSE pos

EndStop ==
  /\ upperbound' = IF direction = UP THEN pos ELSE upperbound
  /\ pos' = IF direction = DOWN THEN 1 ELSE pos

(* The timeout tells the truth if the shutter is at the end stop. *)
Timer ==
  /\ queue # <<>>
  /\ Head(queue) = "timer"
  /\ queue' = Tail(queue)
  /\ EndStop
  /\ direction' = STOP
  /\ homed' = IF direction = DOWN THEN at = 0 ELSE homed /\ (needspoll => direction = STOP)
  /\ measured' = IF direction = UP THEN homed /\ at = Top /\ ~needspoll ELSE measured
  /\ UNCHANGED <<goal, timer, needspoll, setup, at, refused>>

Poked ==
  /\ queue # <<>>
  /\ Head(queue) = "poke"
  /\ queue' = Tail(queue)
  /\ Restart
  /\ UNCHANGED <<position, needspoll, setup, at, history>>

-----------------------------------------------------------------------------
(***************************************************************************)
(* The hardware and the timer.                                             *)
(***************************************************************************)

(* The motor turns by one edge, and the interrupt polls the process: an edge *)
(* before the last one was counted is lost.                                  *)
Edge ==
  /\ CanMove(direction)
  /\ at' = at + direction
  /\ needspoll' = TRUE
  /\ homed' = (homed /\ ~needspoll)
  /\ UNCHANGED <<position, queue, timer, setup, measured, refused>>

(* The encoder timer expires.  A timer that was set during a movement does   *)
(* not before the shutter is at the end: the edges are closer than that.     *)
Expire ==
  /\ timer # "off"
  /\ timer = "renewed" => ~CanMove(direction) /\ ~needspoll
  /\ Len(queue) < QueueSize
  /\ queue' = Append(queue, "timer")
  /\ timer' = "off"
  /\ UNCHANGED <<position, needspoll, setup, at, history>>

Next ==
  \/ \E val \in Values : Write(val)
  \/ Setup
  \/ PauseRefused
  \/ Poll
  \/ Timer
  \/ Poked
  \/ Edge
  \/ Expire

Spec == Init /\ [][Next]_vars

(* process_run goes on polling and delivering, the motor turns and time      *)
(* passes.                                                                   *)
Fairness ==
  /\ WF_vars(Setup)
  /\ WF_vars(Poll)
  /\ WF_vars(Timer)
  /\ WF_vars(Poked)
  /\ WF_vars(Edge)
  /\ WF_vars(Expire)

FairSpec == Spec /\ Fairness

-----------------------------------------------------------------------------
(***************************************************************************)
(* What must hold.                                                         *)
(***************************************************************************)

(* A shutter moves towards its goal and has not reached it: whatever edges   *)
(* are lost and whatever timeouts come early, the position stays within      *)
(* SHUTTER_MAX_BOUND and its 16 bits.                                        *)
Toward ==
  /\ direction = UP => pos < goal
  /\ direction = DOWN => pos > goal

(* A shutter that was closed once knows its position until an edge is lost   *)
(* (or counted too late, or a timeout comes early), however often it has     *)
(* been stopped, turned and written to; and its length if it was opened.     *)
PositionKnown ==
  /\ homed => pos + (IF needspoll THEN direction ELSE STOP) = at + 1
  /\ measured => upperbound = Top + 1

(* The motor does not push against an end stop for ever, unless the queue    *)
(* has refused the poke that restarts the encoder timer.                     *)
MotorStops == direction # STOP ~> direction = STOP \/ refused

(* Unless somebody keeps writing, or the queue refuses an event, the setup   *)
(* process ends.                                                             *)
SetupEnds ==
  <>[][~\E val \in Values : Write(val)]_vars => <>(setup = "done" \/ refused)
=============================================================================
