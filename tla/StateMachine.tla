---------------------------- MODULE StateMachine ----------------------------
(***************************************************************************)
(* The state machine process of a Hexabus device (state_machine.c), with   *)
(* what it calls: the endpoint registry, the relay, the meter and the      *)
(* value broadcast, and what calls it: the Contiki event queue, the UDP    *)
(* handler and sm_upload.                                                  *)
(*                                                                         *)
(* The firmware has one stack.  A transition that switches the relay       *)
(* resets the meter, which broadcasts its readings to the network and, by  *)
(* process_post_synch, to the state machine itself: the process may be     *)
(* called while it is being called.  call_process drops the inner call     *)
(* unless the process is in state RUNNING, and a restart from within puts  *)
(* it there.  The variable frames is that stack.                           *)
(***************************************************************************)
EXTENDS Integers, Sequences

CONSTANTS
  Table,             \* the value transitions in the EEPROM
  DtTable,           \* the date/time transitions in the EEPROM
  Inputs,            \* envelopes that arrive from outside the machine
  Metered,           \* the readings metering_reset broadcasts, in order
  SmIdZero,          \* the machine's ID is 0: no automatic reset
  Clocks,            \* the dates and times the datetime service may show
  TimestampModulus,  \* getTimestamp() wraps here, at 2^32 in the build
  QueueSize,         \* PROCESS_CONF_NUMEVENTS, 32 in the build
  MaxStarts          \* cap on the starts that others ask for

Numeric == {"bool", "u8", "u32", "float"}
Fields  == <<"hour", "minute", "second", "day", "month", "year", "weekday">>
Acts    == {"none", "relay_on", "relay_off", "sm_stop", "sm_start", "sm_bad", "reject"}
Byte    == 0 .. 255

Condition == [src : STRING, eid : STRING, dtype : STRING, op : STRING,
              fields : SUBSET {Fields[k] : k \in 1 .. 7}, val : Nat]
Transition == [from : Byte, cond : Condition, act : Acts, good : Byte, bad : Byte]

(* TRUE_COND_INDEX is a condition of its own type; NULL is no envelope. *)
TrueCond   == [src |-> "any", eid |-> "none", dtype |-> "true", op |-> "eq", fields |-> {}, val |-> 0]
NoEnvelope == [src |-> "null", eid |-> "none", dtype |-> "none", val |-> 0]

ASSUME TableAssumption == Table \in Seq(Transition) /\ DtTable \in Seq(Transition)
ASSUME ClockAssumption == Clocks # {} /\ TimestampModulus \in Nat \ {0}
ASSUME QueueAssumption == QueueSize \in Nat /\ MaxStarts \in Nat /\ SmIdZero \in BOOLEAN
ASSUME InputAssumption == NoEnvelope \notin Inputs
ASSUME MeterAssumption ==
  /\ Metered \in Seq([src : {"self"}, eid : STRING, dtype : STRING, val : Nat])
  /\ \A k \in 1 .. Len(Metered) : Metered[k] # NoEnvelope

VARIABLES
  proc,          \* state of state_machine_process: NONE, RUNNING or CALLED
  curState,
  inStateSince,
  frames,        \* the calls in progress, the innermost last
  relay,         \* relay_state
  now,           \* getTimestamp()
  clock,         \* getDatetime()
  dtValid,       \* its return value
  timer,         \* check_timer is on the etimer list
  queue,         \* events under way to the process: TIMER, UP and DOWN
  starts         \* how often the process was started

timeVars == <<now, clock, dtValid>>
vars     == <<proc, curState, inStateSince, frames, relay, timeVars, timer, queue, starts>>

-----------------------------------------------------------------------------
(***************************************************************************)
(* Conditions.                                                             *)
(***************************************************************************)
Compare(op, a, b) ==
  \/ op = "eq"  /\ a = b
  \/ op = "leq" /\ a <= b
  \/ op = "geq" /\ a >= b
  \/ op = "lt"  /\ a < b
  \/ op = "gt"  /\ a > b
  \/ op = "neq" /\ a # b

(* Only the first field that is set in op is compared. *)
DatetimeHolds(c, dt) ==
  \E k \in 1 .. 7 :
    /\ Fields[k] \in c.fields
    /\ \A j \in 1 .. k - 1 : Fields[j] \notin c.fields
    /\ IF c.op = "geq" THEN dt[Fields[k]] >= c.val ELSE dt[Fields[k]] < c.val

eval(c, env) ==
  \/ c.dtype = "true"
  \/ /\ env # NoEnvelope
     /\ c.dtype \in Numeric
     /\ c.src \in {"any", env.src}
     /\ c.eid = env.eid
     /\ c.dtype = env.dtype
     /\ Compare(c.op, env.val, c.val)
  \/ /\ env.dtype = "datetime"
     /\ c.dtype = "datetime"
     /\ dtValid
     /\ DatetimeHolds(c, env.val)
  \/ /\ env # NoEnvelope
     /\ c.dtype = "timestamp"
     /\ c.op = "since"
     /\ (now - inStateSince) % TimestampModulus >= c.val

-----------------------------------------------------------------------------
(***************************************************************************)
(* The stack.  A frame is a call of the process's thread that is scanning  *)
(* a table ("value" or "datetime") or, for tab = "outside", a relay write  *)
(* by somebody else.  i is the transition it looks at, todo the broadcasts *)
(* that the endpoint write it is in still has to make, wrote the write's   *)
(* outcome.                                                                *)
(***************************************************************************)
Call(tab, env) == [tab |-> tab, env |-> env, i |-> 1, todo |-> <<>>, wrote |-> "no"]
Outside(todo)  == [tab |-> "outside", env |-> NoEnvelope, i |-> 1, todo |-> todo, wrote |-> "good"]

Top          == frames[Len(frames)]
Below        == SubSeq(frames, 1, Len(frames) - 1)
WithTop(f)   == [frames EXCEPT ![Len(frames)] = f]
Entries(tab) == IF tab = "datetime" THEN DtTable ELSE Table
Entry        == Entries(Top.tab)[Top.i]
Scanning     == frames # <<>> /\ Top.tab # "outside" /\ Top.wrote = "no"
Idle         == frames = <<>>

InBroadcast  == frames # <<>> /\ Top.todo # <<>>
Finished     == frames # <<>> /\ Top.wrote # "no" /\ Top.todo = <<>>

Readings  == {Metered[k] : k \in 1 .. Len(Metered)}
Envelopes == Inputs \cup Readings \cup {NoEnvelope}
               \cup [src : {"clock"}, eid : {"none"}, dtype : {"datetime"}, val : Clocks]
FrameType == [tab : {"value", "datetime", "outside"}, env : Envelopes, i : Nat \ {0},
              todo : Seq(Readings), wrote : {"no", "good", "bad"}]

TypeOK ==
  /\ proc \in {"NONE", "RUNNING", "CALLED"}
  /\ curState \in Byte
  /\ inStateSince \in 0 .. TimestampModulus - 1
  /\ frames \in Seq(FrameType)
  /\ relay \in BOOLEAN
  /\ now \in 0 .. TimestampModulus - 1
  /\ clock \in Clocks
  /\ dtValid \in BOOLEAN
  /\ timer \in {"off", "armed"}
  /\ queue \in Seq({"TIMER", "UP", "DOWN"})
  /\ Len(queue) <= QueueSize
  /\ starts \in Nat

(* After the boot: the machine was started, nothing has happened yet. *)
Init ==
  /\ proc = "RUNNING"
  /\ curState = 0
  /\ inStateSince = 0
  /\ frames = <<>>
  /\ relay \in BOOLEAN
  /\ now = 0
  /\ clock \in Clocks
  /\ dtValid = FALSE
  /\ timer = "armed"
  /\ queue = <<>>
  /\ starts = 1

-----------------------------------------------------------------------------
(***************************************************************************)
(* Starting and stopping.  sm_restart is sm_stop and sm_start, and has the *)
(* effect of sm_start: the process is run up to its first wait.            *)
(***************************************************************************)

sm_start ==
  /\ proc' = "RUNNING"
  /\ curState' = 0
  /\ timer' = "armed"
  /\ starts' = starts + 1

(* The etimer process removes the timers of a process that exits. *)
sm_stop ==
  /\ proc' = "NONE"
  /\ timer' = IF proc = "NONE" THEN timer ELSE "off"
  /\ UNCHANGED <<curState, starts>>

(* A Reset-ID of another device that names this machine. *)
Resets(env) == ~SmIdZero /\ env.src # "self" /\ env.eid = "reset" /\ env.dtype = "16bytes" /\ env.val = 0

(***************************************************************************)
(* call_process(state_machine_process, ev, env) on top of the calls below. *)
(***************************************************************************)
Dropped(below) == frames' = below /\ UNCHANGED <<proc, curState, timer, starts>>

(* A machine with an ID announces the reset to the others (it ignores its   *)
(* own announcement) and looks for transitions that need no value.          *)
OnUp(below) ==
  IF SmIdZero THEN Dropped(below)
              ELSE /\ proc' = "CALLED"
                   /\ curState' = 0
                   /\ frames' = Append(below, Call("value", NoEnvelope))
                   /\ UNCHANGED <<timer, starts>>

(* Mutant: the timer is re-armed but the date/time table is not looked at. *)
TimerIgnored(below) ==
  /\ frames' = below
  /\ timer' = "armed"
  /\ UNCHANGED <<proc, curState, starts>>

OnTimer(below) ==
  /\ proc' = "CALLED"
  /\ frames' = Append(below, Call("datetime",
                 [src |-> "clock", eid |-> "none", dtype |-> "datetime", val |-> clock]))
  /\ UNCHANGED <<curState, timer, starts>>

OnInput(below, env) ==
  /\ frames' = Append(below, Call("value", env))
  /\ IF Resets(env) THEN sm_start
                    ELSE proc' = "CALLED" /\ UNCHANGED <<curState, timer, starts>>

Dispatch(below, ev, env) ==
  CASE ev = "UP"    -> OnUp(below)
    [] ev = "TIMER" -> OnTimer(below)
    [] ev = "input" -> OnInput(below, env)
    [] OTHER        -> Dropped(below)

(* Mutant: the inner call is not dropped while the process is being called. *)
CalledAgain(below, ev, env) ==
  IF proc # "NONE" THEN Dispatch(below, ev, env) ELSE Dropped(below)

call_process(below, ev, env) ==
  IF proc = "RUNNING" THEN Dispatch(below, ev, env) ELSE Dropped(below)

sm_handle_input(below, env) == call_process(below, "input", env)

-----------------------------------------------------------------------------
(***************************************************************************)
(* The relay.  relay_on does nothing if the relay is on; relay_off always  *)
(* resets the meter.                                                       *)
(***************************************************************************)
SwitchTodo(on) == IF on /\ relay THEN <<>> ELSE Metered

(* endpoint_write of the transition the top frame looks at. *)
Write(act) ==
  \/ /\ act \in {"relay_on", "relay_off"}
     /\ relay' = (act = "relay_on")
     /\ frames' = WithTop([Top EXCEPT !.wrote = "good", !.todo = SwitchTodo(act = "relay_on")])
     /\ UNCHANGED <<proc, curState, timer, starts>>
  \/ /\ act = "sm_stop"
     /\ sm_stop
     /\ frames' = WithTop([Top EXCEPT !.wrote = "good"])
     /\ UNCHANGED relay
  \/ /\ act = "sm_start"
     /\ sm_start
     /\ frames' = WithTop([Top EXCEPT !.wrote = "good"])
     /\ UNCHANGED relay
  \/ /\ act \in {"sm_bad", "reject"}
     /\ frames' = WithTop([Top EXCEPT !.wrote = "bad"])
     /\ UNCHANGED <<relay, proc, curState, timer, starts>>

Matches(t) == t.from = curState /\ eval(t.cond, Top.env)

(* Mutants: the loop does not advance; a broadcast is made over and over. *)
SkipStays ==
  /\ Scanning
  /\ Top.i <= Len(Entries(Top.tab))
  /\ ~Matches(Entry)
  /\ frames' = frames
  /\ UNCHANGED <<proc, curState, inStateSince, relay, timeVars, timer, queue, starts>>
BroadcastRepeats ==
  /\ InBroadcast
  /\ sm_handle_input(frames, Head(Top.todo))
  /\ UNCHANGED <<inStateSince, relay, timeVars, queue>>

(* One round of the loop of check_value_transitions or                      *)
(* check_datetime_transitions: the transition does not match ...            *)
Skip ==
  /\ Scanning
  /\ Top.i <= Len(Entries(Top.tab))
  /\ ~Matches(Entry)
  /\ frames' = WithTop([Top EXCEPT !.i = @ + 1])
  /\ UNCHANGED <<proc, curState, inStateSince, relay, timeVars, timer, queue, starts>>

(* ... it matches and has no action, and the loop goes on ...                *)
Move ==
  /\ Scanning
  /\ Top.i <= Len(Entries(Top.tab))
  /\ Matches(Entry)
  /\ Entry.act = "none"
  /\ curState' = Entry.good
  /\ inStateSince' = now
  /\ frames' = WithTop([Top EXCEPT !.i = @ + 1])
  /\ UNCHANGED <<proc, relay, timeVars, timer, queue, starts>>

(* ... or it matches and writes to an endpoint.                              *)
Act ==
  /\ Scanning
  /\ Top.i <= Len(Entries(Top.tab))
  /\ Matches(Entry)
  /\ Write(Entry.act)
  /\ UNCHANGED <<inStateSince, timeVars, queue>>

(* broadcast_value within the write: the reading goes to the machine itself. *)
Broadcast ==
  /\ InBroadcast
  /\ sm_handle_input(WithTop([Top EXCEPT !.todo = Tail(@)]), Head(Top.todo))
  /\ UNCHANGED <<inStateSince, relay, timeVars, queue>>

(* Mutant: the timer is not re-armed. *)
TimerNotReset ==
  /\ frames' = Below
  /\ proc' = IF proc = "NONE" THEN "NONE" ELSE "RUNNING"
  /\ timer' = timer

(* The thread returns.  It re-arms the timer after a date/time scan, even if *)
(* the process was stopped meanwhile; a stopped process stays so.            *)
Return ==
  /\ frames' = Below
  /\ proc' = IF proc = "NONE" THEN "NONE" ELSE "RUNNING"
  /\ timer' = IF Top.tab = "datetime" THEN "armed" ELSE timer

(* Mutant: the failed write counts as a success. *)
GoodAlways ==
  /\ Finished
  /\ Top.tab # "outside"
  /\ curState' = Entry.good
  /\ inStateSince' = now
  /\ Return
  /\ UNCHANGED <<relay, timeVars, queue, starts>>

(* The write has returned: the machine changes its state, whatever happened  *)
(* to it during the write, and the scan is over.                             *)
Commit ==
  /\ Finished
  /\ Top.tab # "outside"
  /\ curState' = IF Top.wrote = "good" THEN Entry.good ELSE Entry.bad
  /\ inStateSince' = now
  /\ Return
  /\ UNCHANGED <<relay, timeVars, queue, starts>>

(* The table is exhausted. *)
Exhausted ==
  /\ Scanning
  /\ Top.i > Len(Entries(Top.tab))
  /\ Return
  /\ UNCHANGED <<curState, inStateSince, relay, timeVars, queue, starts>>

(* The relay write of somebody else has returned. *)
Switched ==
  /\ Finished
  /\ Top.tab = "outside"
  /\ frames' = Below
  /\ UNCHANGED <<proc, curState, inStateSince, relay, timeVars, timer, queue, starts>>

Step == Skip \/ Move \/ Act \/ Broadcast \/ Commit \/ Exhausted \/ Switched

-----------------------------------------------------------------------------
(***************************************************************************)
(* What happens between two calls.                                         *)
(***************************************************************************)

(* The cap: a machine that may start itself takes no more events then.     *)
StartsItself == \E t \in {Table[k] : k \in 1 .. Len(Table)} \cup {DtTable[k] : k \in 1 .. Len(DtTable)} :
                   t.act = "sm_start"
Open == starts < MaxStarts \/ ~StartsItself

(* An INFO packet, or a broadcast of one of the device's own endpoints.    *)
Input(env) ==
  /\ Idle /\ Open
  /\ Resets(env) => starts < MaxStarts
  /\ sm_handle_input(<<>>, env)
  /\ UNCHANGED <<inStateSince, relay, timeVars, queue>>

(* A WRITE to EP_SM_CONTROL. *)
WriteControl(v) ==
  /\ Idle
  /\ \/ v = 0 /\ sm_stop
     \/ v = 1 /\ starts < MaxStarts /\ sm_start
  /\ UNCHANGED <<frames, inStateSince, relay, timeVars, queue>>

(* A WRITE to EP_POWER_SWITCH, or the button. *)
WriteSwitch(on) ==
  /\ Idle /\ Open
  /\ relay' = on
  /\ frames' = <<Outside(SwitchTodo(on))>>
  /\ UNCHANGED <<proc, curState, inStateSince, timeVars, timer, queue, starts>>

(* Mutant: the event is posted to a full queue. *)
PostsAnyway(ev) ==
  /\ Idle
  /\ queue' = Append(queue, ev)
  /\ UNCHANGED <<proc, curState, inStateSince, frames, relay, timeVars, timer, starts>>

(* The UDP handler posts that the network is up or down; a full queue       *)
(* swallows the event.                                                      *)
LinkChange(ev) ==
  /\ Idle
  /\ Len(queue) < QueueSize
  /\ queue' = Append(queue, ev)
  /\ UNCHANGED <<proc, curState, inStateSince, frames, relay, timeVars, timer, starts>>

(* check_timer expires; while the queue is full it stays on the list.       *)
Expire ==
  /\ Idle
  /\ timer = "armed"
  /\ Len(queue) < QueueSize
  /\ queue' = Append(queue, "TIMER")
  /\ timer' = "off"
  /\ UNCHANGED <<proc, curState, inStateSince, frames, relay, timeVars, starts>>

(* do_event delivers the oldest event to the process. *)
Deliver ==
  /\ Idle /\ Open
  /\ queue # <<>>
  /\ queue' = Tail(queue)
  /\ call_process(<<>>, Head(queue), NoEnvelope)
  /\ UNCHANGED <<inStateSince, relay, timeVars>>

(* The datetime service counts a second, or takes the time from a packet.   *)
Tick ==
  /\ Idle
  /\ \/ now' = (now + 1) % TimestampModulus
     \/ now' = now
  /\ clock' \in Clocks
  /\ dtValid' \in BOOLEAN
  /\ UNCHANGED <<proc, curState, inStateSince, frames, relay, timer, queue, starts>>

Outer ==
  \/ \E env \in Inputs : Input(env)
  \/ \E v \in {0, 1} : WriteControl(v)
  \/ \E on \in BOOLEAN : WriteSwitch(on)
  \/ \E ev \in {"UP", "DOWN"} : LinkChange(ev)
  \/ Expire
  \/ Deliver
  \/ Tick

Next == Step \/ Outer

Spec == Init /\ [][Next]_vars

(* A call runs to its end before anything else happens on the device.  The  *)
(* main loop polls the timers and delivers one event in every round, however *)
(* many packets arrive between two rounds.                                   *)
Fairness == WF_vars(Step) /\ SF_vars(Expire) /\ SF_vars(Deliver)
FairSpec == Spec /\ Fairness

-----------------------------------------------------------------------------
(***************************************************************************)
(* What must hold.                                                         *)
(***************************************************************************)

(* The machine follows its table: it starts in state 0, is reset to it when  *)
(* the network comes back or a Reset-ID arrives, and otherwise changes its   *)
(* state only by a transition of the table that leaves the state it is in,   *)
(* to the good or bad state according to the write.                          *)
M == INSTANCE Machine WITH
       Rules   <- {Table[k] : k \in 1 .. Len(Table)} \cup {DtTable[k] : k \in 1 .. Len(DtTable)},
       running <- proc # "NONE",
       state   <- IF proc = "NONE" THEN 0 ELSE curState
Implements == M!Spec

(* The calls on the stack that belong to the machine. *)
Calls == {k \in 1 .. Len(frames) : frames[k].tab # "outside"}

(* The process is never called while it is being called: call_process looks  *)
(* at the process state, and nothing puts it back to RUNNING too early.      *)
NotReentered == \A j, k \in Calls : j = k

(* However the machine restarts and resets itself, at most two calls are on  *)
(* the device's small stack: a call nested in a nested call is dropped.      *)
StackBounded == Len(frames) <= 2

(* A running machine that waits is woken by its five second timer: it is on  *)
(* the timer list, or its event is in the queue.                             *)
TimerAlive == Idle /\ proc = "RUNNING" => timer = "armed" \/ \E k \in 1 .. Len(queue) : queue[k] = "TIMER"

(* The scan of a table ends, with all the calls nested in it: transitions    *)
(* without an action do not make it loop, a machine that switches its own    *)
(* relay does not wake itself for ever.                                      *)
ReturnsToIdle == frames # <<>> ~> frames = <<>>

(* The date/time transitions of a machine that keeps running are looked at   *)
(* again and again (the cap on starts is the model's).                       *)
DatetimeChecked ==
  proc # "NONE" ~> proc = "NONE" \/ ~Open \/ \E k \in Calls : frames[k].tab = "datetime"

(* inStateSince is when the machine "did change into that state"             *)
(* (state_machine.c:27).                                                     *)
SinceOfState == [][curState' # curState => inStateSince' = now]_vars
=============================================================================
