-------------------------------- MODULE Meter -------------------------------
(***************************************************************************)
(* The power meter of a Hexabus socket, the relay and the button that      *)
(* starts the meter's calibration.                                         *)
(*                                                                         *)
(* The meter chip raises an interrupt for every amount of energy.  The     *)
(* interrupt routine shares its variables with the handlers of the main    *)
(* loop, and nothing disables it: a handler is a sequence of steps with    *)
(* pulses between any two.  (A step is what the handler does between two   *)
(* accesses that the interrupt can tell apart.)  Times are differences of  *)
(* a 16 bit clock.                                                         *)
(*                                                                         *)
(* The relay opens the circuit: while it is on there are no pulses.        *)
(***************************************************************************)
EXTENDS Integers, Sequences

CONSTANTS
  W,             \* the clock wraps at W, 2^16 in the build
  OutOfDate,     \* OUT_OF_DATE_TIME in ticks
  MaxGap,        \* ticks between two readings by the value broadcast, at most
  Cycles,        \* pulses a calibration measures, 10 in the build
  CalPower,      \* metering_calibration_power: the load of the calibration
  Factory,       \* reference values a device may come with
  MaxHits        \* bound: pulses while one handler runs

ASSUME ClockAssumption == W \in Nat /\ OutOfDate \in Nat /\ MaxGap \in Nat \ {0} /\ OutOfDate + MaxGap < W
ASSUME CalAssumption   == Cycles \in Nat \ {0} /\ CalPower \in 0 .. W - 1 /\ Factory \subseteq 0 .. W - 1
ASSUME HitsAssumption  == MaxHits \in 0 .. Cycles \* a calibration lasts longer than a handler

Word == 0 .. W - 1

VARIABLES
  clock,   \* clock_time()
  ram,     \* the variables of metering.c, relay.c and the stop timer
  rom,     \* EE_METERING_REF, and whether EE_METERING_CAL_FLAG is 0
  todo,    \* the steps of the handler that is running
  tmp,     \* of metering_get_power; 0 when it is not running
  hits,    \* pulses since the handler was called
  gap,     \* ticks since the power was last read
  age,     \* history: the true time since clock_old was set, up to W
  pulse,   \* history: the power of the last pulse or reset
  torn,    \* history: the last pulse came while the power was being read
  counted, \* history: the calibration that runs, or ran last, has seen a pulse
  raced,   \* history: it had when its stop timer was set
  found    \* history: the result of the last calibration to end

meterVars == <<ram, rom>>
taskVars  == <<todo, tmp>>
calHist   == <<counted, raced, found>>
vars      == <<clock, meterVars, taskVars, hits, gap, age, pulse, torn, calHist>>

Ram == [clock_old : Word, power : Word, reference : Word,
        calibration : BOOLEAN, state : 0 .. Cycles, period : Word,
        stop_timer : BOOLEAN, relay : BOOLEAN]

TaskSteps == {"calibrating", "first", "off", "on", "reset", "elapsed", "decide", "set_timer", "long",
              "no_ref", "lock", "clear", "done", "stop_timer"}

TypeOK ==
  /\ clock \in Word
  /\ ram \in Ram
  /\ rom \in [ref : Word, locked : BOOLEAN]
  /\ todo \in Seq(TaskSteps)
  /\ tmp \in Word
  /\ hits \in 0 .. MaxHits
  /\ gap \in 0 .. MaxGap
  /\ age \in 0 .. W
  /\ pulse \in Word
  /\ torn \in BOOLEAN
  /\ counted \in BOOLEAN
  /\ raced \in BOOLEAN
  /\ found \in Word

(* metering_init and relay_init, with what the EEPROM holds. *)
Booted(ref, relay) ==
  [clock_old |-> 0, power |-> 0, reference |-> ref, calibration |-> FALSE, state |-> 0,
   period |-> 0, stop_timer |-> FALSE, relay |-> relay]

Init ==
  /\ \E ref \in Factory, locked, relay \in BOOLEAN :
       /\ rom = [ref |-> ref, locked |-> locked]
       /\ ram = Booted(ref, relay)
       /\ found = ref
  /\ clock = 0
  /\ todo = <<>>
  /\ tmp = 0
  /\ hits = 0
  /\ gap = 0
  /\ age = 0
  /\ pulse = 0
  /\ torn = FALSE
  /\ counted = FALSE
  /\ raced = FALSE

-----------------------------------------------------------------------------
(* Mutant: in 32 bits, where the same time twice is a whole turn apart. *)
Unwrapped(old) == IF clock > old THEN clock - old ELSE (W - 1 - old) + clock + 1

(* Time since old, in 16 bits. *)
Elapsed(old) == (IF clock > old THEN clock - old ELSE (W - 1 - old) + clock + 1) % W

(* calc_power.  The division routine of the AVR, which has no division of    *)
(* its own, answers a division by zero with all ones.                        *)
calc_power(period) == IF period = 0 THEN W - 1 ELSE ram.reference \div period

(* Twice the time between pulses at the power p. *)
TwoPeriods(p) == (2 * (ram.reference \div p)) % W

(* The power fails, or the device reboots: the EEPROM then holds rom2. *)
Reboot(rom2) ==
  /\ rom' = rom2
  /\ \E relay \in BOOLEAN : ram' = Booted(rom2.ref, relay)
  /\ clock' = 0
  /\ todo' = <<>>
  /\ tmp' = 0
  /\ hits' = 0
  /\ gap' = 0
  /\ age' = 0
  /\ pulse' = 0
  /\ torn' = FALSE
  /\ UNCHANGED <<counted, raced>>

-----------------------------------------------------------------------------
(***************************************************************************)
(* The handlers of the main loop, as sequences of steps.                   *)
(***************************************************************************)
metering_get_power == <<"elapsed", "decide">>

(* The power that is broadcast is read. *)
metering_reset == <<"reset">> \o metering_get_power

relay_off == <<"off">> \o metering_reset
relay_on  == IF ram.relay THEN <<>> ELSE <<"on">> \o metering_reset

(* Mutant: a calibration that runs is started again. *)
StartsAgain ==
  IF ~rom.locked THEN <<"calibrating", "first">> \o relay_off \o <<"set_timer">> ELSE <<>>

metering_calibrate ==
  IF ~rom.locked /\ ~ram.calibration
    THEN <<"calibrating", "first">> \o relay_off \o <<"set_timer">>
    ELSE <<>>

(* Mutant: the calibration is locked before its result is there. *)
LocksFirst == <<"lock", "no_ref", "clear", "done", "stop_timer">>

metering_calibration_stop == <<"no_ref", "lock", "clear", "done", "stop_timer">>

(* A handler is called when none is running. *)
Call(steps) ==
  /\ todo = <<>>
  /\ todo' = steps
  /\ UNCHANGED <<clock, meterVars, tmp, hits, gap, age, pulse, torn, calHist>>

(* A query, or the value broadcast. *)
Read == Call(metering_get_power)

(* A write to the relay's endpoint. *)
Write(value) == Call(IF value THEN relay_off ELSE relay_on)

(* button_pressed: every tick while the button is held, and when it is let   *)
(* go; after seven seconds the boot loader is entered.                       *)
button_pressed(long) == Call(metering_calibrate \o IF long THEN <<"long">> ELSE <<>>)

(* The callback of the stop timer. *)
StopTimer ==
  /\ ram.stop_timer
  /\ todo = <<>>
  /\ ram' = [ram EXCEPT !.stop_timer = FALSE]
  /\ todo' = metering_calibration_stop
  /\ UNCHANGED <<clock, rom, tmp, hits, gap, age, pulse, torn, calHist>>

-----------------------------------------------------------------------------
(***************************************************************************)
(* One step of a handler.                                                  *)
(***************************************************************************)
At(step) ==
  /\ todo # <<>>
  /\ Head(todo) = step
  /\ todo' = Tail(todo)
  /\ hits' = IF Len(todo) = 1 THEN 0 ELSE hits

(* A step that assigns to variables of the main memory. *)
Assign(r) == ram' = r /\ UNCHANGED <<clock, rom, tmp, gap, age, pulse, torn, calHist>>

Switch ==
  \/ At("off") /\ Assign([ram EXCEPT !.relay = FALSE])
  \/ At("on")  /\ Assign([ram EXCEPT !.relay = TRUE])

Reset ==
  /\ At("reset")
  /\ ram' = [ram EXCEPT !.power = 0]
  /\ pulse' = 0
  /\ UNCHANGED <<clock, rom, tmp, gap, age, torn, calHist>>

(* metering_get_power: how old is the measurement? *)
ReadElapsed ==
  /\ At("elapsed")
  /\ tmp' = Elapsed(ram.clock_old)
  /\ UNCHANGED <<clock, meterVars, gap, age, pulse, torn, calHist>>

(* Mutant: a measurement is never out of date. *)
NeverOutOfDate ==
  IF ram.power # 0 /\ tmp > TwoPeriods(ram.power) THEN calc_power(tmp) ELSE ram.power

(* What metering_get_power makes of the power. *)
UpToDate ==
  IF tmp > OutOfDate THEN 0
  ELSE IF ram.power # 0 /\ tmp > TwoPeriods(ram.power) THEN calc_power(tmp)
  ELSE ram.power

ReadDecide ==
  /\ At("decide")
  /\ ram' = [ram EXCEPT !.power = UpToDate]
  /\ tmp' = 0
  /\ gap' = 0
  /\ UNCHANGED <<clock, rom, age, pulse, torn, calHist>>

Calibrate ==
  \/ /\ At("calibrating")
     /\ ram' = [ram EXCEPT !.calibration = TRUE]
     /\ counted' = FALSE
     /\ UNCHANGED <<clock, rom, tmp, gap, age, pulse, torn, raced, found>>
  \/ At("first") /\ Assign([ram EXCEPT !.state = 0])
  \/ /\ At("set_timer")
     /\ ram' = [ram EXCEPT !.stop_timer = TRUE]
     /\ raced' = counted
     /\ UNCHANGED <<clock, rom, tmp, gap, age, pulse, torn, counted, found>>

(* (The period is forgotten here and after a calibration: the first pulse of *)
(* the next one sets it before it is read.)                                  *)
CalibrationStop ==
  \/ /\ At("no_ref")
     /\ rom' = [rom EXCEPT !.ref = 0]
     /\ UNCHANGED <<clock, ram, tmp, gap, age, pulse, torn, calHist>>
  \/ /\ At("lock")
     /\ rom' = [rom EXCEPT !.locked = TRUE]
     /\ found' = 0
     /\ UNCHANGED <<clock, ram, tmp, gap, age, pulse, torn, counted, raced>>
  \/ At("clear")      /\ Assign([ram EXCEPT !.state = 0, !.period = 0])
  \/ At("done")       /\ Assign([ram EXCEPT !.calibration = FALSE])
  \/ At("stop_timer") /\ Assign([ram EXCEPT !.stop_timer = FALSE])

(* metering_calibrate has returned; unless a calibration is running the boot *)
(* loader is entered.                                                        *)
LongPress ==
  \/ At("long") /\ ram.calibration /\ Assign(ram)
  \/ todo # <<>> /\ Head(todo) = "long" /\ ~ram.calibration /\ Reboot(rom) /\ UNCHANGED found

Step == Switch \/ Reset \/ ReadElapsed \/ ReadDecide \/ Calibrate \/ CalibrationStop \/ LongPress

-----------------------------------------------------------------------------
(***************************************************************************)
(* The interrupt.                                                          *)
(***************************************************************************)

(* The pulse came between the two bytes of clock_old that a handler reads:   *)
(* what it has read may be anything.                                         *)
Tear ==
  IF todo # <<>> /\ Head(todo) = "decide"
    THEN tmp' \in Word /\ torn' = TRUE
    ELSE torn' = FALSE /\ UNCHANGED tmp

(* A pulse, with the load switched on. *)
Hit ==
  /\ ~ram.relay
  /\ todo = <<>> \/ hits < MaxHits
  /\ hits' = IF todo = <<>> THEN 0 ELSE hits + 1

(* The mean of the calibration's periods, times the load, in 16 bits. *)
NewReference == ((Elapsed(ram.period) \div Cycles) * CalPower) % W

(* The first pulses; the very first one stops the stop timer. *)
Counted ==
  [ram EXCEPT !.state = @ + 1,
              !.period = IF ram.state = 0 THEN clock ELSE @,
              !.stop_timer = IF ram.state = 0 THEN FALSE ELSE @]

CalibrationPulse ==
  /\ Hit
  /\ ram.calibration
  /\ ram.state < Cycles
  /\ ram' = Counted
  /\ counted' = TRUE
  /\ UNCHANGED <<clock, rom, taskVars, gap, age, pulse, torn, raced, found>>

(* The last pulse: the result is stored, then locked, and the load switched  *)
(* off.                                                                      *)
CalibrationResult ==
  /\ Hit
  /\ ram.calibration
  /\ ram.state = Cycles
  /\ ram' = [ram EXCEPT !.period = 0, !.reference = NewReference,
                        !.state = 0, !.calibration = FALSE, !.relay = TRUE, !.power = 0]
  /\ rom' = [ref |-> NewReference, locked |-> TRUE]
  /\ found' = NewReference
  /\ pulse' = 0
  /\ UNCHANGED <<clock, taskVars, gap, age, torn, counted, raced>>

(* ... or the power fails between the two writes to the EEPROM. *)
CalibrationCut ==
  /\ ram.calibration /\ ~ram.relay
  /\ todo = <<>> \/ hits < MaxHits
  /\ ram.state = Cycles
  /\ Reboot([rom EXCEPT !.ref = NewReference])
  /\ UNCHANGED found

(* Mutant: clock_old is only set when the power has changed. *)
MeasuresFromChange ==
  /\ Hit
  /\ ~ram.calibration
  /\ pulse' = calc_power(Elapsed(ram.clock_old))
  /\ ram' = [ram EXCEPT !.power = pulse', !.clock_old = IF pulse' = ram.power THEN @ ELSE clock]
  /\ age' = 0
  /\ Tear
  /\ UNCHANGED <<clock, rom, todo, gap, calHist>>

(* A pulse outside a calibration.  (It may broadcast the power, which does   *)
(* not change it.)                                                           *)
MeasurementPulse ==
  /\ Hit
  /\ ~ram.calibration
  /\ pulse' = calc_power(Elapsed(ram.clock_old))
  /\ ram' = [ram EXCEPT !.power = pulse', !.clock_old = clock]
  /\ age' = 0
  /\ Tear
  /\ UNCHANGED <<clock, rom, todo, gap, calHist>>

Pulse == CalibrationPulse \/ CalibrationResult \/ MeasurementPulse

-----------------------------------------------------------------------------
(* Time passes between handlers; the value broadcast reads in time.  (Inside *)
(* a handler a tick changes nothing: both ways to take the difference of two *)
(* times give the same, and take the clock at the end.)                      *)
Tick ==
  /\ todo = <<>>
  /\ gap < MaxGap
  /\ gap' = gap + 1
  /\ clock' = (clock + 1) % W
  /\ age' = IF age < W THEN age + 1 ELSE W
  /\ UNCHANGED <<meterVars, taskVars, hits, pulse, torn, calHist>>

PowerFail == Reboot(rom) /\ UNCHANGED found

Next ==
  \/ Step
  \/ Read
  \/ \E value \in BOOLEAN : Write(value)
  \/ \E long \in BOOLEAN : button_pressed(long)
  \/ StopTimer
  \/ Pulse
  \/ Tick
  \/ PowerFail
  \/ CalibrationCut

Spec == Init /\ [][Next]_vars

(* A handler that was called goes on, and a timer that stays set expires.    *)
Fairness == WF_vars(Step) /\ SF_vars(StopTimer)
FairSpec == Spec /\ Fairness

-----------------------------------------------------------------------------
(***************************************************************************)
(* What must hold.                                                         *)
(***************************************************************************)

(* However long ago the last pulse was, and however often the clock has      *)
(* wrapped since: a power that is read is zero after OUT_OF_DATE_TIME.       *)
(* Before, it is at most what the time since the pulse allows, once that is  *)
(* more than two periods.                                                    *)
ReadPlausible ==
  [][ReadDecide /\ ram'.power # 0 =>
       /\ age <= OutOfDate
       /\ age <= TwoPeriods(ram'.power) \/ ram'.power <= ram.reference \div age]_vars

(* A measurement stands until it is older than two of its periods (or the    *)
(* meter is reset), unless a pulse came while the power was being read.      *)
PowerKept ==
  ~torn /\ pulse # 0 /\ age <= OutOfDate /\ age <= TwoPeriods(pulse) => ram.power = pulse

(* A locked calibration is one that has ended, with the reference value it   *)
(* has found (none, if there were no pulses), whenever the power fails.      *)
LockedCorrect == rom.locked /\ ~raced => rom.ref = found

(* "stop calibration if there was no pulse in 60 seconds" (metering.c:283):  *)
(* the callback comes only to a calibration that has seen none.              *)
StopsWithoutPulse == [][StopTimer => ~counted]_vars

(* A calibration without pulses ends; one whose pulses keep coming does too. *)
CalibrationEnds ==
  /\ ram.calibration ~> ~ram.calibration \/ ram.state > 0
  /\ []<><<Pulse>>_vars => (ram.calibration ~> ~ram.calibration)
=============================================================================
