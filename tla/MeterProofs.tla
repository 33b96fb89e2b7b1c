----------------------------- MODULE MeterProofs ----------------------------
(***************************************************************************)
(* Proofs about Meter, for every width of the clock, every number of       *)
(* pulses of a calibration and every reference value.                      *)
(*                                                                         *)
(* The interrupt may come between any two steps of a handler.  What it     *)
(* finds there is told by the steps the handler has still to take: the     *)
(* invariants below relate them to the variables that both sides write.    *)
(***************************************************************************)
EXTENDS Meter, TLAPS, SequenceTheorems

(* The step is still to be taken. *)
Has(s, step) == \E k \in 1 .. Len(s) : s[k] = step
Pending(step) == Has(todo, step)

(* What all handlers have in common: no step is taken twice; a calibration   *)
(* is started first of all; its stop clears the reference value, then locks  *)
(* it, and ends the calibration later; the decision comes after the elapsed  *)
(* time.                                                                     *)
Orderly(s) ==
  /\ \A j, k \in 1 .. Len(s) : s[j] = s[k] => j = k
  /\ \A k \in 1 .. Len(s) : s[k] \in {"calibrating", "no_ref"} => k = 1
  /\ \A k \in 1 .. Len(s) : s[k] = "lock" => k = 1 \/ (k = 2 /\ s[1] = "no_ref")
  /\ Has(s, "no_ref") => Has(s, "lock")
  /\ Has(s, "lock") => Has(s, "done")
  /\ Has(s, "done") => ~Has(s, "set_timer") /\ ~Has(s, "calibrating")
  /\ Has(s, "calibrating") => Has(s, "set_timer")
  /\ \A k \in 2 .. Len(s) : s[k] = "decide" => s[k - 1] = "elapsed"

Tasks ==
  /\ Orderly(todo)
  /\ todo = <<>> => hits = 0

(* The calibration begins with no pulse counted and nothing locked, and      *)
(* cannot end before the stop timer is set: a handler does not last as many  *)
(* pulses.                                                                   *)
Starting ==
  /\ ~rom.locked /\ ~ram.calibration => ram.state = 0
  /\ ram.calibration /\ ~counted => ram.state = 0
  /\ Pending("calibrating") => ~rom.locked /\ ~ram.calibration
  /\ Pending("set_timer") =>
       /\ ~rom.locked
       /\ ram.state <= hits
       /\ Pending("calibrating") \/ ram.calibration

(* Unless the stop timer was set too late: it runs only for a calibration    *)
(* that has counted no pulse, and so that calibration cannot end either      *)
(* while it is being stopped.                                                *)
Stopping ==
  /\ ram.stop_timer /\ ~raced => ~rom.locked /\ ram.state = 0 /\ ram.calibration /\ ~counted
  /\ Pending("lock") /\ ~raced => ~rom.locked /\ ram.calibration
  /\ Pending("lock") /\ ~raced /\ ~Pending("no_ref") => rom.ref = 0
  /\ Pending("done") /\ ~raced => ram.state <= hits /\ ~ram.stop_timer
  /\ Pending("done") /\ ~Pending("lock") => rom.locked
  /\ rom.locked /\ ram.calibration /\ ~raced => Pending("done")

CalInv == Tasks /\ Starting /\ Stopping /\ LockedCorrect

(* The clock shows the age of a measurement until it has wrapped; a handler  *)
(* that is about to decide has read it, unless a pulse came since; and an    *)
(* old power has been read, and cleared, in time.                            *)
Clocked ==
  /\ age < W => Elapsed(ram.clock_old) = age
  /\ todo # <<>> /\ Head(todo) = "decide" => (torn /\ age = 0) \/ tmp = Elapsed(ram.clock_old)
  /\ age - gap > OutOfDate => ram.power = 0

-----------------------------------------------------------------------------
(***************************************************************************)
(* Types.                                                                  *)
(***************************************************************************)

(* The difference of two times is a time. *)
LEMMA ElapsedType ==
  ASSUME clock \in Word, NEW old \in Word
  PROVE  Elapsed(old) \in Word
BY ClockAssumption DEF Elapsed, Word

(* A power that is calculated is a power: also that of a period of zero.     *)
LEMMA PowerType ==
  ASSUME ram \in Ram, NEW period \in Word
  PROVE  calc_power(period) \in Word
<1>1. ram.reference \in Word /\ W \in Nat /\ W > 0
  BY ClockAssumption DEF Ram
<1>2. ASSUME NEW r \in Word, period # 0
      PROVE  r \div period \in Word
  BY <1>1, <1>2 DEF Word
<1>3. QED
  BY <1>1, <1>2 DEF calc_power, Word

(* The steps of every handler, written out. *)
LEMMA Handlers ==
  /\ metering_get_power = <<"elapsed", "decide">>
  /\ metering_reset = <<"reset", "elapsed", "decide">>
  /\ relay_off = <<"off", "reset", "elapsed", "decide">>
  /\ relay_on \in {<<>>, <<"on", "reset", "elapsed", "decide">>}
  /\ metering_calibrate \in
       {<<>>, <<"calibrating", "first", "off", "reset", "elapsed", "decide", "set_timer">>}
<1> DEFINE get == <<"elapsed", "decide">>
           res == <<"reset", "elapsed", "decide">>
           off == <<"off", "reset", "elapsed", "decide">>
           on  == <<"on", "reset", "elapsed", "decide">>
           cal == <<"calibrating", "first", "off", "reset", "elapsed", "decide", "set_timer">>
<1>1. <<"reset">> \o get = res
  <2> DEFINE l == <<"reset">> \o get
  <2>1. l \in Seq(TaskSteps) /\ res \in Seq(TaskSteps) /\ Len(l) = 3 /\ Len(res) = 3
    BY DEF TaskSteps
  <2>2. \A k \in 1 .. 3 : l[k] = res[k]
    OBVIOUS
  <2> HIDE DEF l, res
  <2>3. l = res
    BY <2>1, <2>2, SeqEqual
  <2>4. QED
    BY <2>3 DEF l
<1>2. <<"off">> \o res = off /\ <<"on">> \o res = on
  <2> DEFINE l == <<"off">> \o res
             m == <<"on">> \o res
  <2>1. /\ l \in Seq(TaskSteps) /\ off \in Seq(TaskSteps) /\ Len(l) = 4 /\ Len(off) = 4
        /\ m \in Seq(TaskSteps) /\ on \in Seq(TaskSteps) /\ Len(m) = 4 /\ Len(on) = 4
    BY DEF TaskSteps
  <2>2. \A k \in 1 .. 4 : l[k] = off[k] /\ m[k] = on[k]
    OBVIOUS
  <2> HIDE DEF l, m, off, on
  <2>3. l = off /\ m = on
    BY <2>1, <2>2, SeqEqual
  <2>4. QED
    BY <2>3 DEF l, m
<1>3. <<"calibrating", "first">> \o off \o <<"set_timer">> = cal
  <2> DEFINE l == <<"calibrating", "first">> \o off \o <<"set_timer">>
  <2>1. l \in Seq(TaskSteps) /\ cal \in Seq(TaskSteps) /\ Len(l) = 7 /\ Len(cal) = 7
    BY DEF TaskSteps
  <2>2. \A k \in 1 .. 7 : l[k] = cal[k]
    OBVIOUS
  <2> HIDE DEF l, cal
  <2>3. l = cal
    BY <2>1, <2>2, SeqEqual
  <2>4. QED
    BY <2>3 DEF l
<1> HIDE DEF get, res, off, on, cal
<1>4. metering_get_power = get /\ metering_reset = res /\ relay_off = off
  BY <1>1, <1>2 DEF metering_get_power, metering_reset, relay_off, get
<1>5. relay_on \in {<<>>, on}
  BY <1>2, <1>4 DEF relay_on
<1>6. metering_calibrate \in {<<>>, cal}
  BY <1>3, <1>4 DEF metering_calibrate
<1>7. QED
  BY <1>4, <1>5, <1>6 DEF get, res, off, on, cal

(* A button that is held long enough to reboot. *)
LEMMA LongHandlers ==
  ASSUME NEW long \in BOOLEAN
  PROVE  metering_calibrate \o (IF long THEN <<"long">> ELSE <<>>) \in
           {<<>>, <<"long">>,
            <<"calibrating", "first", "off", "reset", "elapsed", "decide", "set_timer">>,
            <<"calibrating", "first", "off", "reset", "elapsed", "decide", "set_timer", "long">>}
<1> DEFINE cal  == <<"calibrating", "first", "off", "reset", "elapsed", "decide", "set_timer">>
           both == <<"calibrating", "first", "off", "reset", "elapsed", "decide", "set_timer", "long">>
           l    == cal \o <<"long">>
<1>1. <<"long">> \in Seq(TaskSteps) /\ cal \in Seq(TaskSteps)
  BY DEF TaskSteps
<1>2. l = both
  <2>1. l \in Seq(TaskSteps) /\ both \in Seq(TaskSteps) /\ Len(l) = 8 /\ Len(both) = 8
    BY DEF TaskSteps
  <2>2. \A k \in 1 .. 8 : l[k] = both[k]
    OBVIOUS
  <2> HIDE DEF l, both
  <2>3. QED
    BY <2>1, <2>2, SeqEqual
<1>3. metering_calibrate \in {<<>>, cal}
  BY Handlers
<1> HIDE DEF cal, both
<1>4. /\ <<>> \o <<"long">> = <<"long">>
      /\ <<>> \o <<>> = <<>>
      /\ cal \o <<>> = cal
  BY <1>1, ConcatEmptySeq
<1>5. QED
  BY <1>2, <1>3, <1>4 DEF cal, both

(* What the main loop may call, the stop timer's callback apart. *)
Callable ==
  {<<>>, <<"elapsed", "decide">>, <<"off", "reset", "elapsed", "decide">>,
   <<"on", "reset", "elapsed", "decide">>, <<"long">>,
   <<"calibrating", "first", "off", "reset", "elapsed", "decide", "set_timer">>,
   <<"calibrating", "first", "off", "reset", "elapsed", "decide", "set_timer", "long">>}

(* All handlers are orderly, and only the stop timer's stops a calibration.  *)
LEMMA CallableOrderly ==
  ASSUME NEW s \in Callable
  PROVE  /\ s \in Seq(TaskSteps)
         /\ Orderly(s)
         /\ ~Has(s, "lock") /\ ~Has(s, "done")
         /\ s # <<>> => Head(s) # "decide"
<1>1. CASE s = <<>>
  BY <1>1 DEF Orderly, Has
<1>2. CASE s = <<"elapsed", "decide">>
  BY <1>2 DEF Orderly, Has, TaskSteps
<1>3. CASE s = <<"off", "reset", "elapsed", "decide">>
  BY <1>3 DEF Orderly, Has, TaskSteps
<1>4. CASE s = <<"on", "reset", "elapsed", "decide">>
  BY <1>4 DEF Orderly, Has, TaskSteps
<1>5. CASE s = <<"long">>
  BY <1>5 DEF Orderly, Has, TaskSteps
<1>6. CASE s = <<"calibrating", "first", "off", "reset", "elapsed", "decide", "set_timer">>
  BY <1>6 DEF Orderly, Has, TaskSteps
<1>7. CASE s = <<"calibrating", "first", "off", "reset", "elapsed", "decide", "set_timer", "long">>
  BY <1>7 DEF Orderly, Has, TaskSteps
<1>8. QED
  BY <1>1, <1>2, <1>3, <1>4, <1>5, <1>6, <1>7 DEF Callable

(* The callback of the stop timer is orderly too. *)
LEMMA StopOrderly ==
  /\ metering_calibration_stop \in Seq(TaskSteps)
  /\ Orderly(metering_calibration_stop)
  /\ Has(metering_calibration_stop, "no_ref")
  /\ Has(metering_calibration_stop, "lock")
  /\ Has(metering_calibration_stop, "done")
  /\ ~Has(metering_calibration_stop, "decide")
  /\ metering_calibration_stop # <<>>
  /\ Head(metering_calibration_stop) # "decide"
<1>1. \A s : s = metering_calibration_stop => s \in Seq(TaskSteps) /\ s # <<>> /\ Head(s) = "no_ref"
  BY DEF metering_calibration_stop, TaskSteps
<1>2. \A s : s = metering_calibration_stop => Orderly(s)
  BY DEF metering_calibration_stop, Orderly, Has
<1>3. \A s : s = metering_calibration_stop =>
        Has(s, "no_ref") /\ Has(s, "lock") /\ Has(s, "done") /\ ~Has(s, "decide")
  BY DEF metering_calibration_stop, Has
<1>4. QED
  BY <1>1, <1>2, <1>3

(* A handler that has taken a step is still orderly.                         *)
LEMMA TailOrderly ==
  ASSUME NEW s \in Seq(TaskSteps), s # <<>>, Orderly(s)
  PROVE  /\ Tail(s) \in Seq(TaskSteps)
         /\ \A step : Has(Tail(s), step) <=> Has(s, step) /\ step # Head(s)
         /\ Orderly(Tail(s))
         /\ Has(s, Head(s))
<1>1. /\ Tail(s) \in Seq(TaskSteps)
      /\ Len(Tail(s)) = Len(s) - 1
      /\ Len(s) \in Nat \ {0}
      /\ Head(s) = s[1]
      /\ \A k \in 1 .. Len(Tail(s)) : Tail(s)[k] = s[k + 1]
  OBVIOUS
<1>2. ASSUME NEW step
      PROVE  Has(Tail(s), step) <=> Has(s, step) /\ step # Head(s)
  <2>1. ASSUME NEW k \in 1 .. Len(Tail(s)), Tail(s)[k] = step
        PROVE  Has(s, step) /\ step # Head(s)
    BY <1>1, <2>1 DEF Has, Orderly
  <2>2. ASSUME NEW k \in 1 .. Len(s), s[k] = step, step # Head(s)
        PROVE  Has(Tail(s), step)
    <3>1. k - 1 \in 1 .. Len(Tail(s)) /\ Tail(s)[k - 1] = step
      BY <1>1, <2>2
    <3>2. QED
      BY <3>1 DEF Has
  <2>3. QED
    BY <2>1, <2>2 DEF Has
<1>3. Orderly(Tail(s))
  <2>1. /\ \A j, k \in 1 .. Len(Tail(s)) : Tail(s)[j] = Tail(s)[k] => j = k
        /\ \A k \in 1 .. Len(Tail(s)) : Tail(s)[k] \notin {"calibrating", "no_ref"}
        /\ \A k \in 1 .. Len(Tail(s)) : Tail(s)[k] = "lock" => k = 1 /\ Head(s) = "no_ref"
        /\ \A k \in 2 .. Len(Tail(s)) : Tail(s)[k] = "decide" => Tail(s)[k - 1] = "elapsed"
    BY <1>1 DEF Orderly
  <2>2. /\ Has(Tail(s), "lock") => Has(Tail(s), "done")
        /\ Has(Tail(s), "done") => ~Has(Tail(s), "set_timer") /\ ~Has(Tail(s), "calibrating")
        /\ ~Has(Tail(s), "calibrating") /\ ~Has(Tail(s), "no_ref")
    BY <1>2, <2>1 DEF Orderly, Has
  <2>3. QED
    BY <2>1, <2>2 DEF Orderly
<1>4. Has(s, Head(s))
  BY <1>1 DEF Has
<1>5. QED
  BY <1>1, <1>2, <1>3, <1>4

(* The device starts with well-typed variables, whatever its EEPROM holds.   *)
LEMMA RebootTypes ==
  ASSUME TypeOK, NEW rom2 \in [ref : Word, locked : BOOLEAN], Reboot(rom2), found' \in Word
  PROVE  TypeOK'
<1>1. 0 \in Word /\ 0 \in 0 .. W /\ 0 \in 0 .. MaxGap /\ 0 \in 0 .. MaxHits /\ 0 \in 0 .. Cycles
  BY ClockAssumption, CalAssumption, HitsAssumption DEF Word
<1>2. ram' \in Ram
  BY <1>1 DEF Reboot, Booted, Ram
<1>3. <<>> \in Seq(TaskSteps)
  OBVIOUS
<1>4. QED
  BY <1>1, <1>2, <1>3 DEF TypeOK, Reboot

(* A step of a handler. *)
LEMMA StepTypes ==
  ASSUME TypeOK, Step
  PROVE  TypeOK'
<1> USE DEF TypeOK
<1>1. 0 \in Word /\ 0 \in 0 .. W /\ 0 \in 0 .. MaxGap /\ 0 \in 0 .. MaxHits /\ 0 \in 0 .. Cycles
  BY ClockAssumption, CalAssumption, HitsAssumption DEF Word
<1>2. ASSUME NEW step, At(step)
      PROVE  todo' \in Seq(TaskSteps) /\ hits' \in 0 .. MaxHits
  BY <1>1, <1>2 DEF At
<1>3. CASE Switch
  BY <1>2, <1>3 DEF Switch, Assign, Ram, calHist
<1>4. CASE Reset
  BY <1>1, <1>2, <1>4 DEF Reset, Ram, calHist
<1>5. CASE ReadElapsed
  <2>1. tmp' \in Word
    BY <1>5, ElapsedType DEF ReadElapsed, Ram
  <2>2. QED
    BY <1>2, <1>5, <2>1 DEF ReadElapsed, meterVars, calHist
<1>6. CASE ReadDecide
  <2>1. UpToDate \in Word
    BY <1>1, PowerType DEF UpToDate, Ram
  <2>2. QED
    BY <1>1, <1>2, <1>6, <2>1 DEF ReadDecide, Ram, calHist
<1>7. CASE Calibrate
  BY <1>1, <1>2, <1>7 DEF Calibrate, Assign, Ram, calHist
<1>8. CASE CalibrationStop
  BY <1>1, <1>2, <1>8 DEF CalibrationStop, Assign, Ram, calHist
<1>9. CASE LongPress
  <2>1. CASE At("long") /\ Assign(ram)
    BY <1>2, <2>1 DEF Assign, calHist
  <2>2. CASE Reboot(rom) /\ UNCHANGED found
    BY <2>2, RebootTypes
  <2>3. QED
    BY <1>9, <2>1, <2>2 DEF LongPress
<1>10. QED
  BY <1>3, <1>4, <1>5, <1>6, <1>7, <1>8, <1>9 DEF Step

(* The result of a calibration is a word. *)
LEMMA NewReferenceType ==
  ASSUME TypeOK
  PROVE  NewReference \in Word
<1>1. W \in Nat /\ W > 0 /\ Cycles \in Nat \ {0} /\ CalPower \in Nat
  BY ClockAssumption, CalAssumption
<1>2. Elapsed(ram.period) \in Nat
  BY <1>1, ElapsedType DEF TypeOK, Ram, Word
<1>3. ASSUME NEW e \in Nat
      PROVE  ((e \div Cycles) * CalPower) % W \in Word
  <2>1. e \div Cycles \in Nat
    BY <1>1
  <2>2. ASSUME NEW q \in Nat
        PROVE  (q * CalPower) % W \in Word
    <3>1. q * CalPower \in Nat
      BY <1>1
    <3>2. QED
      BY <1>1, <3>1 DEF Word
  <2>3. QED
    BY <2>1, <2>2
<1>4. QED
  BY <1>2, <1>3 DEF NewReference

(* A pulse. *)
LEMMA PulseTypes ==
  ASSUME TypeOK, Pulse
  PROVE  TypeOK'
<1> USE DEF TypeOK
<1>1. /\ 0 \in Word /\ 0 \in 0 .. W /\ 0 \in 0 .. MaxHits /\ 0 \in 0 .. Cycles
      /\ W \in Nat /\ W > 0 /\ Cycles \in Nat \ {0} /\ CalPower \in Nat /\ MaxHits \in Nat
  BY ClockAssumption, CalAssumption, HitsAssumption DEF Word
<1>2. Hit => hits' \in 0 .. MaxHits
  BY <1>1 DEF Hit
<1>3. CASE CalibrationPulse
  <2>1. Counted \in Ram
    <3>1. ram.state + 1 \in 0 .. Cycles
      BY <1>1, <1>3 DEF CalibrationPulse, Ram
    <3>2. CASE ram.state = 0
      BY <3>1, <3>2 DEF Counted, Ram
    <3>3. CASE ram.state # 0
      <4>1. Counted = [ram EXCEPT !.state = ram.state + 1]
        BY <3>3 DEF Counted, Ram
      <4>2. QED
        BY <3>1, <4>1 DEF Ram
    <3>4. QED
      BY <3>2, <3>3
  <2>2. ram' \in Ram /\ counted' \in BOOLEAN
    BY <1>3, <2>1 DEF CalibrationPulse
  <2>3. QED
    BY <1>2, <1>3, <2>2 DEF CalibrationPulse, taskVars
<1>4. CASE CalibrationResult
  <2>1. NewReference \in Word
    BY NewReferenceType
  <2>2. ram' \in Ram
    BY <1>1, <1>4, <2>1 DEF CalibrationResult, Ram
  <2>3. rom' \in [ref : Word, locked : BOOLEAN]
    BY <1>4, <2>1 DEF CalibrationResult
  <2>4. QED
    BY <1>1, <1>2, <1>4, <2>1, <2>2, <2>3 DEF CalibrationResult, taskVars
<1>5. CASE MeasurementPulse
  <2>1. pulse' \in Word
    BY <1>5, ElapsedType, PowerType DEF MeasurementPulse, Ram
  <2>2. ram' \in Ram
    BY <1>5, <2>1 DEF MeasurementPulse, Ram
  <2>3. tmp' \in Word /\ torn' \in BOOLEAN
    BY <1>5 DEF MeasurementPulse, Tear
  <2>4. QED
    BY <1>1, <1>2, <1>5, <2>1, <2>2, <2>3 DEF MeasurementPulse, calHist
<1>6. QED
  BY <1>3, <1>4, <1>5 DEF Pulse

(* A handler that is called. *)
LEMMA CallTypes ==
  ASSUME TypeOK, NEW s \in Callable, Call(s)
  PROVE  TypeOK'
BY CallableOrderly DEF TypeOK, Call, meterVars, calHist

(* What the calls of the main loop put into todo. *)
LEMMA CalledCallable ==
  /\ metering_get_power \in Callable
  /\ relay_off \in Callable
  /\ relay_on \in Callable
  /\ \A long \in BOOLEAN :
       metering_calibrate \o (IF long THEN <<"long">> ELSE <<>>) \in Callable
<1>1. metering_get_power \in Callable /\ relay_off \in Callable /\ relay_on \in Callable
  BY Handlers DEF Callable
<1>2. ASSUME NEW long \in BOOLEAN
      PROVE  metering_calibrate \o (IF long THEN <<"long">> ELSE <<>>) \in Callable
  <2> DEFINE s == metering_calibrate \o (IF long THEN <<"long">> ELSE <<>>)
  <2>2. s \in {<<>>, <<"long">>,
            <<"calibrating", "first", "off", "reset", "elapsed", "decide", "set_timer">>,
            <<"calibrating", "first", "off", "reset", "elapsed", "decide", "set_timer", "long">>}
    BY LongHandlers
  <2> HIDE DEF s
  <2>3. s \in Callable
    BY <2>2 DEF Callable
  <2>4. QED
    BY <2>3 DEF s
<1>3. QED
  BY <1>1, <1>2

(* The other actions; a handler is called by one of three. *)
LEMMA CallOf ==
  ASSUME NEW value \in BOOLEAN, Read \/ Write(value) \/ button_pressed(value)
  PROVE  \E s \in Callable :
           /\ Call(s)
           /\ Has(s, "set_timer") \/ Has(s, "calibrating") => ~rom.locked /\ ~ram.calibration
           /\ Has(s, "set_timer") => Has(s, "calibrating")
<1> DEFINE free(s) ==
      /\ Has(s, "set_timer") \/ Has(s, "calibrating") => ~rom.locked /\ ~ram.calibration
      /\ Has(s, "set_timer") => Has(s, "calibrating")
<1>1. /\ free(<<>>) /\ free(<<"elapsed", "decide">>) /\ free(<<"long">>)
      /\ free(<<"off", "reset", "elapsed", "decide">>)
      /\ free(<<"on", "reset", "elapsed", "decide">>)
  BY DEF Has
<1>2. CASE Read
  BY <1>1, <1>2, CalledCallable, Handlers DEF Read
<1>3. CASE Write(value)
  <2>1. PICK s \in {relay_off, relay_on} : Call(s)
    BY <1>3 DEF Write
  <2>2. free(s)
    BY <1>1, <2>1, Handlers
  <2>3. QED
    BY <2>1, <2>2, CalledCallable
<1>4. CASE button_pressed(value)
  <2> DEFINE s == metering_calibrate \o (IF value THEN <<"long">> ELSE <<>>)
  <2>1. Call(s) /\ s \in Callable
    BY <1>4, CalledCallable DEF button_pressed
  <2>2. free(s)
    <3>1. CASE ~rom.locked /\ ~ram.calibration
      <4>1. s \in {<<>>, <<"long">>,
              <<"calibrating", "first", "off", "reset", "elapsed", "decide", "set_timer">>,
              <<"calibrating", "first", "off", "reset", "elapsed", "decide", "set_timer", "long">>}
        BY LongHandlers
      <4> HIDE DEF s
      <4>2. Has(s, "set_timer") => Has(s, "calibrating")
        <5>1. CASE s = <<>> \/ s = <<"long">>
          BY <5>1 DEF Has
        <5>2. CASE s # <<>> /\ s # <<"long">>
          <6>1. 1 \in 1 .. Len(s) /\ s[1] = "calibrating"
            BY <4>1, <5>2
          <6>2. QED
            BY <6>1 DEF Has
        <5>3. QED
          BY <5>1, <5>2
      <4>3. QED
        BY <3>1, <4>2
    <3>2. CASE ~(~rom.locked /\ ~ram.calibration)
      <4>1. metering_calibrate = <<>>
        BY <3>2 DEF metering_calibrate
      <4>2. s \in {<<>>, <<"long">>}
        <5>1. <<"long">> \in Seq(TaskSteps)
          BY DEF TaskSteps
        <5>2. <<>> \o <<"long">> = <<"long">> /\ <<>> \o <<>> = <<>>
          BY <5>1, ConcatEmptySeq
        <5>3. QED
          BY <4>1, <5>2
      <4>3. QED
        BY <1>1, <4>2
    <3>3. QED
      BY <3>1, <3>2
  <2>3. QED
    BY <2>1, <2>2
<1>5. QED
  BY <1>2, <1>3, <1>4

(* The variables of metering.c, relay.c and of the EEPROM have their types,  *)
(* and a time stays a word: for every width of the clock.                    *)
LEMMA TypesInitially == Init => TypeOK
<1> SUFFICES ASSUME Init PROVE TypeOK
  OBVIOUS
<1>1. 0 \in Word /\ 0 \in 0 .. W /\ 0 \in 0 .. MaxGap /\ 0 \in 0 .. MaxHits /\ 0 \in 0 .. Cycles
  BY ClockAssumption, CalAssumption, HitsAssumption DEF Word
<1>2. PICK ref \in Factory, locked \in BOOLEAN, relay \in BOOLEAN :
        rom = [ref |-> ref, locked |-> locked] /\ ram = Booted(ref, relay) /\ found = ref
  BY DEF Init
<1>3. ref \in Word
  BY CalAssumption DEF Word
<1>4. ram \in Ram /\ rom \in [ref : Word, locked : BOOLEAN] /\ found \in Word
  BY <1>1, <1>2, <1>3 DEF Booted, Ram
<1>5. <<>> \in Seq(TaskSteps)
  OBVIOUS
<1>6. QED
  BY <1>1, <1>4, <1>5 DEF Init, TypeOK

(* All actions. *)
LEMMA TypesPreserved == TypeOK /\ [Next]_vars => TypeOK'
<1> SUFFICES ASSUME TypeOK, [Next]_vars PROVE TypeOK'
  OBVIOUS
<1>1. ASSUME NEW value \in BOOLEAN, Read \/ Write(value) \/ button_pressed(value)
      PROVE  TypeOK'
  BY <1>1, CallOf, CallTypes
<1>2. CASE StopTimer
  BY <1>2, StopOrderly DEF StopTimer, TypeOK, Ram, calHist
<1>3. CASE Tick
  <2>1. clock' \in Word /\ gap' \in 0 .. MaxGap /\ age' \in 0 .. W
    BY <1>3, ClockAssumption DEF Tick, TypeOK, Word
  <2>2. QED
    BY <1>3, <2>1 DEF Tick, TypeOK, meterVars, taskVars, calHist
<1>4. CASE PowerFail
  <2>1. rom \in [ref : Word, locked : BOOLEAN] /\ found' \in Word
    BY <1>4 DEF PowerFail, TypeOK
  <2>2. QED
    BY <1>4, <2>1, RebootTypes DEF PowerFail
<1>5. CASE CalibrationCut
  <2>1. NewReference \in Word
    BY NewReferenceType DEF TypeOK
  <2>2. [rom EXCEPT !.ref = NewReference] \in [ref : Word, locked : BOOLEAN]
    BY <2>1 DEF TypeOK
  <2>3. found' \in Word
    BY <1>5 DEF CalibrationCut, TypeOK
  <2>4. QED
    BY <1>5, <2>2, <2>3, RebootTypes DEF CalibrationCut
<1>6. CASE UNCHANGED vars
  BY <1>6 DEF vars, meterVars, taskVars, calHist, TypeOK
<1>7. QED
  BY <1>1, <1>2, <1>3, <1>4, <1>5, <1>6, StepTypes, PulseTypes DEF Next

(* No reading, time or reference value leaves its 16 bits, and no count of   *)
(* the calibration its range, wherever the pulses come.                      *)
THEOREM MeterTypes == Spec => []TypeOK
BY TypesInitially, TypesPreserved, PTL DEF Spec

-----------------------------------------------------------------------------
(***************************************************************************)
(* The calibration.                                                        *)
(***************************************************************************)

(* Taking a step changes what is pending and nothing else of the tasks.      *)
LEMMA StepTaken ==
  ASSUME TypeOK, Tasks, NEW step, At(step)
  PROVE  /\ Tasks'
         /\ Pending(step)
         /\ \A t : Pending(t)' <=> Pending(t) /\ t # step
         /\ (\E t : Pending(t)') => hits' = hits
         /\ todo' # <<>> => hits' = hits
<1>1. todo \in Seq(TaskSteps) /\ todo # <<>> /\ Head(todo) = step /\ todo' = Tail(todo)
  BY DEF TypeOK, At
<1>2. /\ Orderly(todo') /\ Has(todo, step)
      /\ \A t : Has(todo', t) <=> Has(todo, t) /\ t # step
  BY <1>1, TailOrderly DEF Tasks
<1>3. Len(todo) = 1 <=> todo' = <<>>
  <2>1. ASSUME NEW s \in Seq(TaskSteps), s # <<>>
        PROVE  Len(s) = 1 <=> Tail(s) = <<>>
    <3>1. Tail(s) \in Seq(TaskSteps) /\ Len(Tail(s)) = Len(s) - 1 /\ Len(s) \in Nat
      BY <2>1, HeadTailProperties
    <3>2. Tail(s) = <<>> <=> Len(Tail(s)) = 0
      BY <3>1, EmptySeq
    <3>3. QED
      BY <3>1, <3>2
  <2>2. QED
    BY <1>1, <2>1
<1>4. hits' = IF todo' = <<>> THEN 0 ELSE hits
  BY <1>3 DEF At
<1>5. ASSUME NEW t, Pending(t)' PROVE todo' # <<>>
  BY <1>5 DEF Pending, Has
<1>6. QED
  BY <1>2, <1>4, <1>5 DEF Tasks, Pending

(* Where a handler is when its step comes first.                             *)
LEMMA StepPlace ==
  ASSUME TypeOK, Tasks, NEW step, At(step)
  PROVE  /\ step # "calibrating" => ~Pending("calibrating")
         /\ step # "no_ref" => ~Pending("no_ref")
         /\ step \notin {"no_ref", "lock"} => ~Pending("lock")
         /\ Pending("lock") => Pending("done")
         /\ Pending("done") => ~Pending("set_timer") /\ ~Pending("calibrating")
<1>1. todo \in Seq(TaskSteps) /\ todo # <<>> /\ todo[1] = step
  BY DEF TypeOK, At
<1>2. QED
  BY <1>1 DEF Tasks, Orderly, Pending, Has

(* What the calibration looks at is unchanged. *)
CalUnchanged ==
  /\ ram'.calibration = ram.calibration
  /\ ram'.state = ram.state
  /\ ram'.stop_timer = ram.stop_timer
  /\ UNCHANGED <<rom, counted, raced, found>>

CalSteps == {"calibrating", "first", "set_timer", "no_ref", "lock", "clear", "done", "stop_timer"}

(* Steps that are not about the calibration. *)
LEMMA QuietStepKeeps ==
  ASSUME TypeOK, CalInv, NEW step, At(step), step \notin CalSteps, CalUnchanged
  PROVE  CalInv'
<1>1. /\ Tasks'
      /\ \A t \in CalSteps : Pending(t)' <=> Pending(t)
      /\ \A t \in CalSteps : Pending(t) => hits' = hits
  BY StepTaken DEF CalInv
<1>2. /\ Pending("calibrating")' <=> Pending("calibrating")
      /\ Pending("set_timer")' <=> Pending("set_timer")
      /\ Pending("no_ref")' <=> Pending("no_ref")
      /\ Pending("lock")' <=> Pending("lock")
      /\ Pending("done")' <=> Pending("done")
      /\ Pending("set_timer") \/ Pending("done") => hits' = hits
  BY <1>1 DEF CalSteps
<1>3. Starting'
  BY <1>2 DEF CalInv, Starting, CalUnchanged
<1>4. Stopping'
  BY <1>2 DEF CalInv, Stopping, CalUnchanged
<1>5. LockedCorrect'
  BY DEF CalInv, LockedCorrect, CalUnchanged
<1>6. QED
  BY <1>1, <1>3, <1>4, <1>5 DEF CalInv

(* The first steps of a calibration. *)
LEMMA CalibrateKeeps ==
  ASSUME TypeOK, CalInv, Calibrate
  PROVE  CalInv'
<1>0. Tasks /\ Starting /\ Stopping /\ LockedCorrect
  BY DEF CalInv
<1>1. CASE At("calibrating") /\ ram' = [ram EXCEPT !.calibration = TRUE] /\ counted' = FALSE
           /\ UNCHANGED <<rom, raced, found>>
  <2>1. /\ Tasks' /\ Pending("calibrating")
        /\ ~Pending("calibrating")'
        /\ Pending("set_timer")' <=> Pending("set_timer")
        /\ Pending("no_ref")' <=> Pending("no_ref")
        /\ Pending("lock")' <=> Pending("lock")
        /\ Pending("done")' <=> Pending("done")
        /\ Pending("set_timer") \/ Pending("done") => hits' = hits
    BY <1>0, <1>1, StepTaken
  <2>2. ~Pending("lock") /\ ~Pending("done")
    BY <1>0, <1>1, <2>1, StepPlace
  <2>3. /\ ram'.calibration = TRUE
        /\ ram'.state = ram.state
        /\ ram'.stop_timer = ram.stop_timer
    BY <1>1 DEF TypeOK, Ram
  <2>4. ~rom.locked /\ ~ram.calibration /\ ram.state = 0
    BY <1>0, <2>1 DEF Starting
  <2>5. Starting'
    BY <1>0, <1>1, <2>1, <2>3, <2>4 DEF Starting
  <2>6. Stopping' /\ LockedCorrect'
    BY <1>0, <1>1, <2>1, <2>2, <2>3, <2>4 DEF Stopping, LockedCorrect
  <2>7. QED
    BY <2>1, <2>5, <2>6 DEF CalInv
<1>2. CASE At("first") /\ Assign([ram EXCEPT !.state = 0])
  <2>1. /\ Tasks'
        /\ Pending("calibrating")' <=> Pending("calibrating")
        /\ Pending("set_timer")' <=> Pending("set_timer")
        /\ Pending("no_ref")' <=> Pending("no_ref")
        /\ Pending("lock")' <=> Pending("lock")
        /\ Pending("done")' <=> Pending("done")
    BY <1>0, <1>2, StepTaken
  <2>2. /\ ram'.calibration = ram.calibration
        /\ ram'.state = 0
        /\ ram'.stop_timer = ram.stop_timer
        /\ UNCHANGED <<rom, counted, raced, found>>
        /\ hits' \in Nat
    BY <1>2 DEF TypeOK, Ram, Assign, calHist, At
  <2>3. 0 <= hits'
    BY <2>2
  <2>4. Starting'
    BY <1>0, <2>1, <2>2, <2>3 DEF Starting
  <2>5. Stopping' /\ LockedCorrect'
    BY <1>0, <2>1, <2>2, <2>3 DEF Stopping, LockedCorrect
  <2>6. QED
    BY <2>1, <2>4, <2>5 DEF CalInv
<1>3. CASE At("set_timer") /\ ram' = [ram EXCEPT !.stop_timer = TRUE] /\ raced' = counted
           /\ UNCHANGED <<rom, counted, found>>
  <2>1. /\ Tasks' /\ Pending("set_timer")
        /\ ~Pending("set_timer")'
        /\ Pending("calibrating")' <=> Pending("calibrating")
        /\ Pending("lock")' <=> Pending("lock")
        /\ Pending("done")' <=> Pending("done")
    BY <1>0, <1>3, StepTaken
  <2>2. ~Pending("lock") /\ ~Pending("done") /\ ~Pending("calibrating")
    BY <1>0, <1>3, <2>1, StepPlace
  <2>3. /\ ram'.calibration = ram.calibration
        /\ ram'.state = ram.state
        /\ ram'.stop_timer = TRUE
    BY <1>3 DEF TypeOK, Ram
  <2>4. ~rom.locked /\ ram.calibration /\ (~counted => ram.state = 0)
    BY <1>0, <2>1, <2>2 DEF Starting
  <2>5. Starting'
    BY <1>0, <1>3, <2>1, <2>2, <2>3, <2>4 DEF Starting
  <2>6. Stopping' /\ LockedCorrect'
    BY <1>0, <1>3, <2>1, <2>2, <2>3, <2>4 DEF Stopping, LockedCorrect
  <2>7. QED
    BY <2>1, <2>5, <2>6 DEF CalInv
<1>4. QED
  BY <1>1, <1>2, <1>3 DEF Calibrate

(* The steps that stop a calibration. *)
LEMMA StopKeeps ==
  ASSUME TypeOK, CalInv, CalibrationStop
  PROVE  CalInv'
<1>0. Tasks /\ Starting /\ Stopping /\ LockedCorrect
  BY DEF CalInv
<1>1. CASE At("no_ref") /\ rom' = [rom EXCEPT !.ref = 0] /\ UNCHANGED <<ram, counted, raced, found>>
  <2>1. /\ Tasks' /\ Pending("no_ref")
        /\ ~Pending("no_ref")'
        /\ Pending("calibrating")' <=> Pending("calibrating")
        /\ Pending("set_timer")' <=> Pending("set_timer")
        /\ Pending("lock")' <=> Pending("lock")
        /\ Pending("done")' <=> Pending("done")
        /\ Pending("set_timer") \/ Pending("done") => hits' = hits
    BY <1>0, <1>1, StepTaken
  <2>2. Pending("no_ref") => Pending("lock")
    BY <1>0 DEF Tasks, Orderly, Pending
  <2>3. rom'.locked = rom.locked /\ rom'.ref = 0
    BY <1>1 DEF TypeOK
  <2>4. Starting'
    BY <1>0, <1>1, <2>1, <2>3 DEF Starting
  <2>5. Stopping'
    BY <1>0, <1>1, <2>1, <2>3 DEF Stopping
  <2>6. LockedCorrect'
    BY <1>0, <1>1, <2>1, <2>2, <2>3 DEF Stopping, LockedCorrect
  <2>7. QED
    BY <2>1, <2>4, <2>5, <2>6 DEF CalInv
<1>2. CASE At("lock") /\ rom' = [rom EXCEPT !.locked = TRUE] /\ found' = 0
           /\ UNCHANGED <<ram, counted, raced>>
  <2>1. /\ Tasks' /\ Pending("lock")
        /\ ~Pending("lock")'
        /\ Pending("calibrating")' <=> Pending("calibrating")
        /\ Pending("set_timer")' <=> Pending("set_timer")
        /\ Pending("done")' <=> Pending("done")
        /\ Pending("set_timer") \/ Pending("done") => hits' = hits
    BY <1>0, <1>2, StepTaken
  <2>2. ~Pending("no_ref") /\ Pending("done") /\ ~Pending("set_timer") /\ ~Pending("calibrating")
    BY <1>0, <1>2, <2>1, StepPlace
  <2>3. rom'.locked = TRUE /\ rom'.ref = rom.ref
    BY <1>2 DEF TypeOK
  <2>4. Starting'
    BY <1>0, <1>2, <2>1, <2>2, <2>3 DEF Starting
  <2>5. Stopping'
    BY <1>0, <1>2, <2>1, <2>2, <2>3 DEF Stopping
  <2>6. LockedCorrect'
    BY <1>0, <1>2, <2>1, <2>2, <2>3 DEF Stopping, LockedCorrect
  <2>7. QED
    BY <2>1, <2>4, <2>5, <2>6 DEF CalInv
<1>3. CASE At("clear") /\ Assign([ram EXCEPT !.state = 0, !.period = 0])
  <2>1. /\ Tasks'
        /\ Pending("calibrating")' <=> Pending("calibrating")
        /\ Pending("set_timer")' <=> Pending("set_timer")
        /\ Pending("no_ref")' <=> Pending("no_ref")
        /\ Pending("lock")' <=> Pending("lock")
        /\ Pending("done")' <=> Pending("done")
    BY <1>0, <1>3, StepTaken
  <2>2. /\ ram'.calibration = ram.calibration
        /\ ram'.state = 0
        /\ ram'.stop_timer = ram.stop_timer
        /\ UNCHANGED <<rom, counted, raced, found>>
        /\ hits' \in Nat
    BY <1>3 DEF TypeOK, Ram, Assign, calHist, At
  <2>3. 0 <= hits'
    BY <2>2
  <2>4. Starting'
    BY <1>0, <2>1, <2>2, <2>3 DEF Starting
  <2>5. Stopping' /\ LockedCorrect'
    BY <1>0, <2>1, <2>2, <2>3 DEF Stopping, LockedCorrect
  <2>6. QED
    BY <2>1, <2>4, <2>5 DEF CalInv
<1>4. CASE At("done") /\ Assign([ram EXCEPT !.calibration = FALSE])
  <2>1. /\ Tasks' /\ Pending("done")
        /\ ~Pending("done")'
        /\ Pending("calibrating")' <=> Pending("calibrating")
        /\ Pending("set_timer")' <=> Pending("set_timer")
        /\ Pending("lock")' <=> Pending("lock")
    BY <1>0, <1>4, StepTaken
  <2>2. ~Pending("lock") /\ ~Pending("set_timer") /\ ~Pending("calibrating")
    BY <1>0, <1>4, <2>1, StepPlace
  <2>3. /\ ram'.calibration = FALSE
        /\ ram'.state = ram.state
        /\ ram'.stop_timer = ram.stop_timer
        /\ UNCHANGED <<rom, counted, raced, found>>
    BY <1>4 DEF TypeOK, Ram, Assign, calHist
  <2>4. rom.locked /\ (~raced => ~ram.stop_timer)
    BY <1>0, <2>1, <2>2 DEF Stopping
  <2>5. Starting'
    BY <1>0, <2>1, <2>2, <2>3, <2>4 DEF Starting
  <2>6. Stopping' /\ LockedCorrect'
    BY <1>0, <2>1, <2>2, <2>3, <2>4 DEF Stopping, LockedCorrect
  <2>7. QED
    BY <2>1, <2>5, <2>6 DEF CalInv
<1>5. CASE At("stop_timer") /\ Assign([ram EXCEPT !.stop_timer = FALSE])
  <2>1. /\ Tasks'
        /\ Pending("calibrating")' <=> Pending("calibrating")
        /\ Pending("set_timer")' <=> Pending("set_timer")
        /\ Pending("no_ref")' <=> Pending("no_ref")
        /\ Pending("lock")' <=> Pending("lock")
        /\ Pending("done")' <=> Pending("done")
        /\ Pending("set_timer") \/ Pending("done") => hits' = hits
    BY <1>0, <1>5, StepTaken
  <2>2. /\ ram'.calibration = ram.calibration
        /\ ram'.state = ram.state
        /\ ram'.stop_timer = FALSE
        /\ UNCHANGED <<rom, counted, raced, found>>
    BY <1>5 DEF TypeOK, Ram, Assign, calHist
  <2>3. Starting'
    BY <1>0, <2>1, <2>2 DEF Starting
  <2>4. Stopping' /\ LockedCorrect'
    BY <1>0, <2>1, <2>2 DEF Stopping, LockedCorrect
  <2>5. QED
    BY <2>1, <2>3, <2>4 DEF CalInv
<1>6. QED
  BY <1>1, <1>2, <1>3, <1>4, <1>5 DEF CalibrationStop, calHist

(* A device that starts has no task; it keeps its EEPROM. *)
LEMMA RebootKeeps ==
  ASSUME NEW rom2, Reboot(rom2), LockedCorrect'
  PROVE  CalInv'
<1>1. todo' = <<>> /\ hits' = 0 /\ \A t : ~Pending(t)'
  BY DEF Reboot, Pending, Has
<1>2. ram'.calibration = FALSE /\ ram'.state = 0 /\ ram'.stop_timer = FALSE
  BY DEF Reboot, Booted
<1>3. Tasks'
  <2>1. Orderly(<<>>)
    BY DEF Orderly, Has
  <2>2. QED
    BY <1>1, <2>1 DEF Tasks
<1>4. Starting' /\ Stopping'
  BY <1>1, <1>2 DEF Starting, Stopping
<1>5. QED
  BY <1>3, <1>4 DEF CalInv

(* The interrupt cannot find the end of a calibration while it is being      *)
(* started or stopped.                                                       *)
LEMMA NotTheLast ==
  ASSUME TypeOK, CalInv, ram.calibration, ram.state = Cycles, todo = <<>> \/ hits < MaxHits
  PROVE  /\ ~Pending("calibrating") /\ ~Pending("set_timer")
         /\ ram.stop_timer => raced
         /\ Pending("done") => raced
         /\ Pending("lock") => raced
         /\ rom.locked => raced
<1>1. ram.state > 0 /\ (hits < MaxHits => ~(ram.state <= hits))
  BY CalAssumption, HitsAssumption DEF TypeOK
<1>2. (\E t : Pending(t)) => hits < MaxHits
  BY DEF Pending, Has
<1>3. Pending("lock") => Pending("done")
  BY DEF CalInv, Tasks, Orderly, Pending
<1>4. QED
  BY <1>1, <1>2, <1>3 DEF CalInv, Starting, Stopping

(* Pulses. *)
LEMMA PulseKeeps ==
  ASSUME TypeOK, CalInv, Pulse
  PROVE  CalInv'
<1>0. Tasks /\ Starting /\ Stopping /\ LockedCorrect
  BY DEF CalInv
<1>1. UNCHANGED todo /\ (todo = <<>> => hits' = 0) /\ (todo # <<>> => hits' = hits + 1)
  BY DEF Pulse, CalibrationPulse, CalibrationResult, MeasurementPulse, Hit, taskVars
<1>2. Tasks'
  BY <1>0, <1>1 DEF Tasks, Orderly, Has
<1>3. \A t : Pending(t)' <=> Pending(t)
  BY <1>1 DEF Pending, Has
<1>4. (\E t : Pending(t)) => hits' = hits + 1
  BY <1>1 DEF Pending, Has
<1>5. CASE CalibrationPulse
  <2>1. /\ ram'.calibration = ram.calibration
        /\ ram'.state = ram.state + 1
        /\ ram'.stop_timer = IF ram.state = 0 THEN FALSE ELSE ram.stop_timer
    BY <1>5 DEF CalibrationPulse, Counted, TypeOK, Ram
  <2>2. ram.calibration /\ counted' = TRUE /\ UNCHANGED <<rom, raced, found>>
    BY <1>5 DEF CalibrationPulse
  <2>3. ram.state <= hits /\ hits' = hits + 1 => ram'.state <= hits'
    BY <2>1 DEF TypeOK, Ram
  <2>4. Starting'
    BY <1>0, <1>3, <1>4, <2>1, <2>2, <2>3 DEF Starting
  <2>5. ram'.stop_timer = TRUE => raced
    BY <1>0, <2>1 DEF Stopping
  <2>6. ~raced /\ Pending("done") => ~ram'.stop_timer
    BY <1>0, <2>1 DEF Stopping
  <2>7. Stopping'
    BY <1>0, <1>3, <1>4, <2>1, <2>2, <2>3, <2>5, <2>6 DEF Stopping
  <2>8. QED
    BY <1>0, <1>2, <2>2, <2>4, <2>7 DEF CalInv, LockedCorrect
<1>6. CASE CalibrationResult
  <2>1. ram.calibration /\ ram.state = Cycles /\ (todo = <<>> \/ hits < MaxHits)
    BY <1>6 DEF CalibrationResult, Hit
  <2>2. /\ ~Pending("calibrating") /\ ~Pending("set_timer")
        /\ ram.stop_timer => raced
        /\ Pending("done") => raced
        /\ Pending("lock") => raced
    BY <2>1, NotTheLast
  <2>3. /\ ram'.calibration = FALSE /\ ram'.state = 0 /\ ram'.stop_timer = ram.stop_timer
        /\ rom'.locked = TRUE /\ rom'.ref = found'
        /\ UNCHANGED <<counted, raced>>
    BY <1>6 DEF CalibrationResult, TypeOK, Ram
  <2>4. Starting' /\ Stopping' /\ LockedCorrect'
    BY <1>3, <2>2, <2>3 DEF Starting, Stopping, LockedCorrect
  <2>5. QED
    BY <1>2, <2>4 DEF CalInv
<1>7. CASE MeasurementPulse
  <2>1. /\ ram'.calibration = FALSE /\ ram.calibration = FALSE
        /\ ram'.state = ram.state /\ ram'.stop_timer = ram.stop_timer
        /\ UNCHANGED <<rom, counted, raced, found>>
    BY <1>7 DEF MeasurementPulse, TypeOK, Ram, calHist
  <2>2. ram.state <= hits /\ hits' = hits + 1 => ram'.state <= hits'
    BY <2>1 DEF TypeOK, Ram
  <2>3. Starting' /\ LockedCorrect'
    BY <1>0, <1>3, <1>4, <2>1, <2>2 DEF Starting, LockedCorrect
  <2>4. Stopping'
    BY <1>0, <1>3, <1>4, <2>1, <2>2 DEF Stopping
  <2>5. QED
    BY <1>2, <2>3, <2>4 DEF CalInv
<1>8. QED
  BY <1>5, <1>6, <1>7 DEF Pulse

(* A handler is called; the stop timer's callback among them. *)
LEMMA CallKeeps ==
  ASSUME TypeOK, CalInv, NEW value \in BOOLEAN, Read \/ Write(value) \/ button_pressed(value)
  PROVE  CalInv'
<1>0. Tasks /\ Starting /\ Stopping /\ LockedCorrect
  BY DEF CalInv
<1>1. PICK s \in Callable :
        /\ Call(s)
        /\ Has(s, "set_timer") \/ Has(s, "calibrating") => ~rom.locked /\ ~ram.calibration
        /\ Has(s, "set_timer") => Has(s, "calibrating")
  BY CallOf
<1>2. todo = <<>> /\ todo' = s /\ hits' = 0 /\ UNCHANGED <<ram, rom, counted, raced, found>>
  BY <1>0, <1>1 DEF Call, meterVars, calHist, Tasks
<1>3. /\ Orderly(s) /\ ~Has(s, "lock") /\ ~Has(s, "done")
  BY CallableOrderly
<1>4. Tasks' /\ ~Pending("lock")' /\ ~Pending("done")'
  BY <1>2, <1>3 DEF Tasks, Pending
<1>5. /\ Pending("set_timer")' => Pending("calibrating")'
      /\ Pending("calibrating")' => ~rom.locked /\ ~ram.calibration
  BY <1>1, <1>2 DEF Pending
<1>6. \A t : ~Pending(t)
  BY <1>2 DEF Pending, Has
<1>7. ram.state = 0 => ram.state <= hits'
  BY <1>2
<1>8. Starting'
  BY <1>0, <1>2, <1>5, <1>7 DEF Starting
<1>9. Stopping' /\ LockedCorrect'
  BY <1>0, <1>2, <1>4, <1>6 DEF Stopping, LockedCorrect
<1>10. QED
  BY <1>4, <1>8, <1>9 DEF CalInv

(* The callback of the stop timer: nothing has been counted yet. *)
LEMMA StopTimerKeeps ==
  ASSUME TypeOK, CalInv, StopTimer
  PROVE  CalInv'
<1>0. Tasks /\ Starting /\ Stopping /\ LockedCorrect
  BY DEF CalInv
<1>1. /\ todo = <<>> /\ ram.stop_timer /\ hits' = 0
      /\ todo' = metering_calibration_stop
      /\ UNCHANGED <<rom, counted, raced, found>>
      /\ ram'.calibration = ram.calibration /\ ram'.state = ram.state /\ ram'.stop_timer = FALSE
  BY <1>0 DEF StopTimer, TypeOK, Ram, calHist, Tasks
<1>2. /\ Tasks'
      /\ Pending("no_ref")' /\ Pending("lock")' /\ Pending("done")'
      /\ ~Pending("set_timer")' /\ ~Pending("calibrating")'
  <2>1. ~Has(metering_calibration_stop, "set_timer") /\ ~Has(metering_calibration_stop, "calibrating")
    BY StopOrderly DEF Orderly
  <2>2. QED
    BY <1>1, <2>1, StopOrderly DEF Tasks, Pending
<1>3. \A t : ~Pending(t)
  BY <1>1 DEF Pending, Has
<1>4. ram.state = 0 => ram'.state <= hits'
  BY <1>1
<1>5. Starting'
  BY <1>0, <1>1, <1>2 DEF Starting
<1>6. Stopping' /\ LockedCorrect'
  BY <1>0, <1>1, <1>2, <1>3, <1>4 DEF Stopping, LockedCorrect
<1>7. QED
  BY <1>2, <1>5, <1>6 DEF CalInv

(* A calibration does not run at the start. *)
LEMMA CalInvInitially == Init => CalInv
<1> SUFFICES ASSUME Init PROVE CalInv
  OBVIOUS
<1>1. todo = <<>> /\ hits = 0 /\ \A t : ~Pending(t)
  BY DEF Init, Pending, Has
<1>2. /\ ram.calibration = FALSE /\ ram.state = 0 /\ ram.stop_timer = FALSE
      /\ rom.ref = found
  BY DEF Init, Booted
<1>3. Tasks
  <2>1. Orderly(<<>>)
    BY DEF Orderly, Has
  <2>2. QED
    BY <1>1, <2>1 DEF Tasks
<1>4. QED
  BY <1>1, <1>2, <1>3 DEF CalInv, Starting, Stopping, LockedCorrect

(* All actions. *)
LEMMA CalInvPreserved == TypeOK /\ CalInv /\ [Next]_vars => CalInv'
<1> SUFFICES ASSUME TypeOK, CalInv, [Next]_vars PROVE CalInv'
  OBVIOUS
<1>1. CASE Switch \/ Reset \/ ReadElapsed \/ ReadDecide
  <2>1. CalUnchanged
    BY <1>1 DEF Switch, Reset, ReadElapsed, ReadDecide, Assign, CalUnchanged, TypeOK, Ram, meterVars,
                calHist
  <2>2. PICK step \in {"off", "on", "reset", "elapsed", "decide"} : At(step)
    BY <1>1 DEF Switch, Reset, ReadElapsed, ReadDecide
  <2>3. QED
    BY <2>1, <2>2, QuietStepKeeps DEF CalSteps
<1>2. CASE LongPress
  <2>1. CASE At("long") /\ Assign(ram)
    BY <2>1, QuietStepKeeps DEF CalSteps, CalUnchanged, Assign, calHist
  <2>2. CASE Reboot(rom) /\ UNCHANGED found
    <3>1. LockedCorrect'
      BY <2>2 DEF Reboot, LockedCorrect, CalInv
    <3>2. QED
      BY <2>2, <3>1, RebootKeeps
  <2>3. QED
    BY <1>2, <2>1, <2>2 DEF LongPress
<1>3. ASSUME NEW value \in BOOLEAN, Read \/ Write(value) \/ button_pressed(value)
      PROVE  CalInv'
  BY <1>3, CallKeeps
<1>4. CASE Tick
  BY <1>4 DEF Tick, CalInv, Tasks, Starting, Stopping, LockedCorrect, Pending, Orderly, Has,
              meterVars, taskVars, calHist
<1>5. CASE PowerFail
  <2>1. LockedCorrect'
    BY <1>5 DEF PowerFail, Reboot, LockedCorrect, CalInv
  <2>2. QED
    BY <1>5, <2>1, RebootKeeps DEF PowerFail
<1>6. CASE CalibrationCut
  <2>1. rom.locked => raced
    BY <1>6, NotTheLast DEF CalibrationCut
  <2>2. rom'.locked = rom.locked /\ raced' = raced
    BY <1>6 DEF CalibrationCut, Reboot, TypeOK
  <2>3. LockedCorrect'
    BY <2>1, <2>2 DEF LockedCorrect
  <2>4. QED
    BY <1>6, <2>3, RebootKeeps DEF CalibrationCut
<1>7. CASE UNCHANGED vars
  BY <1>7 DEF vars, CalInv, Tasks, Starting, Stopping, LockedCorrect, Pending, Orderly, Has,
              meterVars, taskVars, calHist
<1>8. QED
  BY <1>1, <1>2, <1>3, <1>4, <1>5, <1>6, <1>7, CalibrateKeeps, StopKeeps, StopTimerKeeps, PulseKeeps
  DEF Next, Step

(* A calibration that is locked in the EEPROM holds the value that was       *)
(* found, wherever pulses and power failures come, unless the first pulse    *)
(* came before metering_calibrate had set the stop timer.                    *)
THEOREM CalibrationLocked == Spec => []LockedCorrect
<1>1. CalInv => LockedCorrect
  BY DEF CalInv
<1>2. QED
  BY <1>1, CalInvInitially, CalInvPreserved, MeterTypes, PTL DEF Spec

(* "stop calibration if there was no pulse in 60 seconds" (metering.c:283)   *)
(* is true of every other calibration: the callback comes to one that has    *)
(* counted none, and that has not ended.                                     *)
THEOREM StopsInTime == Spec => [][StopTimer /\ ~raced => ~counted /\ ~rom.locked]_vars
<1>1. CalInv => (StopTimer /\ ~raced => ~counted /\ ~rom.locked)
  BY DEF CalInv, Stopping, StopTimer
<1>2. Spec => []CalInv
  BY CalInvInitially, CalInvPreserved, MeterTypes, PTL DEF Spec
<1>3. QED
  BY <1>1, <1>2, PTL

(* A calibration that has counted no pulse is watched: its stop timer is     *)
(* set, or a handler is about to set it or to end the calibration.  The stop *)
(* timer is not stopped by the handler that ends a calibration before it has *)
(* ended it.                                                                 *)
Watched ==
  /\ ram.calibration /\ ~counted => ram.stop_timer \/ Pending("set_timer") \/ Pending("done")
  /\ Pending("stop_timer") /\ ~Pending("done") => ~ram.calibration
  /\ Pending("stop_timer") => ~Pending("calibrating")

(* Only the stop timer's callback stops the timer. *)
LEMMA CallableTimer ==
  /\ \A s \in Callable : ~Has(s, "stop_timer")
  /\ Has(metering_calibration_stop, "done")
  /\ ~Has(metering_calibration_stop, "calibrating")
<1>1. ASSUME NEW s \in Callable PROVE ~Has(s, "stop_timer")
  BY DEF Callable, Has
<1>2. QED
  BY <1>1, StopOrderly DEF Orderly

(* A step that leaves the calibration and its timer alone. *)
LEMMA QuietStepWatched ==
  ASSUME TypeOK, Tasks, Watched, NEW step, At(step),
         step \notin {"calibrating", "set_timer", "done", "stop_timer"},
         ram'.calibration = ram.calibration, ram'.stop_timer = ram.stop_timer, UNCHANGED counted
  PROVE  Watched'
BY StepTaken DEF Watched

(* The steps that start a calibration and set its timer. *)
LEMMA CalibrateWatched ==
  ASSUME TypeOK, Tasks, Watched, Calibrate
  PROVE  Watched'
<1>1. CASE At("calibrating") /\ ram' = [ram EXCEPT !.calibration = TRUE] /\ counted' = FALSE
  <2>1. Pending("calibrating") /\ ~Pending("calibrating")'
        /\ (Pending("set_timer")' <=> Pending("set_timer"))
        /\ (Pending("stop_timer")' <=> Pending("stop_timer"))
    BY <1>1, StepTaken
  <2>2. Pending("set_timer")
    BY <2>1 DEF Tasks, Orderly, Pending
  <2>3. QED
    BY <2>1, <2>2 DEF Watched
<1>2. CASE At("first") /\ Assign([ram EXCEPT !.state = 0])
  BY <1>2, QuietStepWatched DEF Assign, calHist, TypeOK, Ram
<1>3. CASE At("set_timer") /\ ram' = [ram EXCEPT !.stop_timer = TRUE] /\ UNCHANGED counted
  <2>1. ram'.calibration = ram.calibration /\ ram'.stop_timer = TRUE
    BY <1>3 DEF TypeOK, Ram
  <2>2. \A t : Pending(t)' <=> Pending(t) /\ t # "set_timer"
    BY <1>3, StepTaken
  <2>3. QED
    BY <1>3, <2>1, <2>2 DEF Watched
<1>4. QED
  BY <1>1, <1>2, <1>3 DEF Calibrate

(* The steps that end a calibration, and only then stop its timer. *)
LEMMA StopWatched ==
  ASSUME TypeOK, Tasks, Watched, CalibrationStop
  PROVE  Watched'
<1>1. CASE UNCHANGED <<ram, counted>> /\ (At("no_ref") \/ At("lock"))
  BY <1>1, QuietStepWatched
<1>2. CASE At("clear") /\ Assign([ram EXCEPT !.state = 0, !.period = 0])
  BY <1>2, QuietStepWatched DEF Assign, calHist, TypeOK, Ram
<1>3. CASE At("done") /\ Assign([ram EXCEPT !.calibration = FALSE])
  <2>1. ram'.calibration = FALSE
    BY <1>3 DEF Assign, TypeOK, Ram
  <2>2. \A t : Pending(t)' <=> Pending(t) /\ t # "done"
    BY <1>3, StepTaken
  <2>3. QED
    BY <2>1, <2>2 DEF Watched
<1>4. CASE At("stop_timer") /\ Assign([ram EXCEPT !.stop_timer = FALSE])
  <2>1. ram'.calibration = ram.calibration /\ UNCHANGED counted
    BY <1>4 DEF Assign, TypeOK, Ram, calHist
  <2>2. Pending("stop_timer") /\ \A t : Pending(t)' <=> Pending(t) /\ t # "stop_timer"
    BY <1>4, StepTaken
  <2>3. QED
    BY <2>1, <2>2 DEF Watched
<1>5. QED
  BY <1>1, <1>2, <1>3, <1>4 DEF CalibrationStop, calHist

(* A pulse ends a calibration or is counted by it. *)
LEMMA PulseWatched ==
  ASSUME TypeOK, Watched, Pulse
  PROVE  Watched'
<1>1. UNCHANGED todo
  BY DEF Pulse, CalibrationPulse, CalibrationResult, MeasurementPulse, taskVars
<1>2. \A t : Pending(t)' <=> Pending(t)
  BY <1>1 DEF Pending, Has
<1>3. CASE CalibrationPulse
  <2>1. ram'.calibration = ram.calibration /\ counted' = TRUE
    BY <1>3 DEF CalibrationPulse, Counted, TypeOK, Ram
  <2>2. QED
    BY <1>2, <2>1 DEF Watched
<1>4. CASE CalibrationResult \/ MeasurementPulse
  <2>1. ram'.calibration = FALSE
    BY <1>4 DEF CalibrationResult, MeasurementPulse, TypeOK, Ram
  <2>2. QED
    BY <1>2, <2>1 DEF Watched
<1>5. QED
  BY <1>3, <1>4 DEF Pulse

(* A device that starts calibrates nothing. *)
LEMMA RebootWatched ==
  ASSUME NEW rom2, Reboot(rom2)
  PROVE  Watched'
<1>1. ram'.calibration = FALSE /\ \A t : ~Pending(t)'
  BY DEF Reboot, Booted, Pending, Has
<1>2. QED
  BY <1>1 DEF Watched

(* A calibration without pulses cannot be left running for ever: wherever    *)
(* the handlers are, and whatever the interrupt did between their steps, the *)
(* stop timer is set or a step that sets it or ends the calibration is due.  *)
THEOREM CalibrationWatched == Spec => []Watched
<1>1. Init => Watched
  <2> SUFFICES ASSUME Init PROVE Watched
    OBVIOUS
  <2>1. ram.calibration = FALSE /\ \A t : ~Pending(t)
    BY DEF Init, Booted, Pending, Has
  <2>2. QED
    BY <2>1 DEF Watched
<1>2. TypeOK /\ CalInv /\ Watched /\ [Next]_vars => Watched'
  <2> SUFFICES ASSUME TypeOK, CalInv, Watched, [Next]_vars PROVE Watched'
    OBVIOUS
  <2>0. Tasks
    BY DEF CalInv
  <2>1. CASE Switch \/ Reset \/ ReadElapsed \/ ReadDecide
    <3>1. CalUnchanged
      BY <2>1 DEF Switch, Reset, ReadElapsed, ReadDecide, Assign, CalUnchanged, TypeOK, Ram, meterVars,
                  calHist
    <3>2. PICK step \in {"off", "on", "reset", "elapsed", "decide"} : At(step)
      BY <2>1 DEF Switch, Reset, ReadElapsed, ReadDecide
    <3>3. QED
      BY <2>0, <3>1, <3>2, QuietStepWatched DEF CalUnchanged
  <2>2. CASE LongPress
    <3>1. CASE At("long") /\ Assign(ram)
      BY <2>0, <3>1, QuietStepWatched DEF Assign, calHist
    <3>2. QED
      BY <2>2, <3>1, RebootWatched DEF LongPress
  <2>3. ASSUME NEW value \in BOOLEAN, Read \/ Write(value) \/ button_pressed(value)
        PROVE  Watched'
    <3>1. PICK s \in Callable : Call(s)
      BY <2>3, CallOf
    <3>2. ~Pending("stop_timer")' /\ UNCHANGED <<ram, counted>> /\ \A t : ~Pending(t)
      BY <3>1, CallableTimer DEF Call, Pending, Has, meterVars, calHist
    <3>3. QED
      BY <3>2 DEF Watched
  <2>4. CASE StopTimer
    <3>1. Pending("done")' /\ ~Pending("calibrating")'
      BY <2>4, CallableTimer DEF StopTimer, Pending
    <3>2. QED
      BY <3>1 DEF Watched
  <2>5. CASE Tick \/ UNCHANGED vars
    <3>1. UNCHANGED <<ram, todo, counted>>
      BY <2>5 DEF Tick, vars, meterVars, taskVars, calHist
    <3>2. QED
      BY <3>1 DEF Watched, Pending, Has
  <2>6. CASE PowerFail \/ CalibrationCut
    BY <2>6, RebootWatched DEF PowerFail, CalibrationCut
  <2>7. QED
    BY <2>0, <2>1, <2>2, <2>3, <2>4, <2>5, <2>6, CalibrateWatched, StopWatched, PulseWatched
    DEF Next, Step
<1>3. QED
  BY <1>1, <1>2, CalInvInitially, CalInvPreserved, MeterTypes, PTL DEF Spec

-----------------------------------------------------------------------------
(***************************************************************************)
(* The power that is read.                                                 *)
(***************************************************************************)

(* The time from a clock to itself is zero, though it is taken modulo W; a   *)
(* tick later it is one more, until W.                                       *)
LEMMA ElapsedSteps ==
  ASSUME clock \in Word, NEW old \in Word
  PROVE  /\ Elapsed(clock) = 0
         /\ clock' = (clock + 1) % W /\ Elapsed(old) < W - 1 => Elapsed(old)' = Elapsed(old) + 1
<1>1. Elapsed(clock) = 0
  BY ClockAssumption DEF Elapsed, Word
<1>2. ASSUME NEW a \in 0 .. W - 2, Elapsed(old) = a, clock' = (clock + 1) % W
      PROVE  (IF clock' > old THEN clock' - old ELSE (W - 1 - old) + clock' + 1) % W = a + 1
  BY <1>2, ClockAssumption DEF Word, Elapsed
<1>3. Elapsed(old) < W - 1 => Elapsed(old) \in 0 .. W - 2
  BY ElapsedType, ClockAssumption DEF Word
<1>4. QED
  BY <1>1, <1>2, <1>3 DEF Elapsed

(* The time that two periods take is a time. *)
LEMMA TwoPeriodsType ==
  ASSUME ram \in Ram, NEW p \in Word, p # 0
  PROVE  TwoPeriods(p) \in Nat
<1>1. ram.reference \in Nat /\ p \in Nat \ {0} /\ W \in Nat \ {0}
  BY ClockAssumption DEF Ram, Word
<1>2. ASSUME NEW r \in Nat
      PROVE  r \div p \in Nat
  BY <1>1
<1>3. ASSUME NEW q \in Nat
      PROVE  (2 * q) % W \in Nat
  BY <1>1
<1>4. QED
  BY <1>1, <1>2, <1>3 DEF TwoPeriods

(* What a handler that is about to decide knows of the age. *)
LEMMA DecideKnows ==
  ASSUME TypeOK, Clocked, At("decide")
  PROVE  /\ age = W \/ (torn /\ age = 0) \/ tmp = age
         /\ age = W => ram.power = 0
<1>1. age = W => ram.power = 0
  BY ClockAssumption DEF Clocked, TypeOK
<1>2. age # W => age < W
  BY ClockAssumption DEF TypeOK
<1>3. (torn /\ age = 0) \/ tmp = Elapsed(ram.clock_old)
  BY DEF Clocked, At
<1>4. QED
  BY <1>1, <1>2, <1>3 DEF Clocked

(* The step after which the decision is to be taken has read the clock. *)
LEMMA BeforeDecide ==
  ASSUME todo \in Seq(TaskSteps), Orderly(todo), NEW step, At(step),
         todo' # <<>>, Head(todo') = "decide"
  PROVE  step = "elapsed"
<1>1. /\ Len(todo) \in Nat \ {0}
      /\ Head(todo) = todo[1]
      /\ Len(todo') = Len(todo) - 1
      /\ todo' \in Seq(TaskSteps)
      /\ \A k \in 1 .. Len(todo') : todo'[k] = todo[k + 1]
  BY DEF At
<1>2. 2 \in 2 .. Len(todo) /\ todo[2] = "decide"
  BY <1>1
<1>3. QED
  BY <1>1, <1>2 DEF Orderly, At

(* A device that has started, and one that starts again. *)
LEMMA RebootClocked ==
  ASSUME NEW rom2, Reboot(rom2)
  PROVE  Clocked' /\ PowerKept'
<1>1. /\ todo' = <<>> /\ clock' = 0 /\ age' = 0 /\ gap' = 0 /\ pulse' = 0
      /\ ram'.clock_old = 0 /\ ram'.power = 0
  BY DEF Reboot, Booted
<1>2. Elapsed(ram.clock_old)' = 0
  BY <1>1, ClockAssumption DEF Elapsed
<1>3. QED
  BY <1>1, <1>2, ClockAssumption DEF Clocked, PowerKept

(* What the two invariants are about. *)
MeasureUnchanged ==
  /\ UNCHANGED <<clock, gap, age, pulse, torn>>
  /\ ram'.power = ram.power /\ ram'.clock_old = ram.clock_old /\ ram'.reference = ram.reference

(* A step or a call that leaves it alone, and that no decision follows. *)
LEMMA QuietMeasureKeeps ==
  ASSUME TypeOK, Clocked, PowerKept, MeasureUnchanged,
         todo' # <<>> => Head(todo') # "decide" \/ UNCHANGED <<todo, tmp>>
  PROVE  Clocked' /\ PowerKept'
<1>1. Elapsed(ram.clock_old)' = Elapsed(ram.clock_old) /\ TwoPeriods(pulse)' = TwoPeriods(pulse)
  BY DEF MeasureUnchanged, Elapsed, TwoPeriods
<1>2. Clocked'
  BY <1>1 DEF Clocked, MeasureUnchanged
<1>3. PowerKept'
  BY <1>1 DEF PowerKept, MeasureUnchanged
<1>4. QED
  BY <1>2, <1>3

(* The decision itself: a power that is too old is cleared, one that stands  *)
(* is kept.                                                                  *)
LEMMA DecideKeeps ==
  ASSUME TypeOK, Tasks, Clocked, PowerKept, ReadDecide
  PROVE  Clocked' /\ PowerKept'
<1>1. /\ age = W \/ (torn /\ age = 0) \/ tmp = age
      /\ age = W => ram.power = 0
  BY DecideKnows DEF ReadDecide
<1>2. /\ UNCHANGED <<clock, age, pulse, torn>> /\ gap' = 0
      /\ ram'.power = UpToDate /\ ram'.clock_old = ram.clock_old /\ ram'.reference = ram.reference
  BY DEF ReadDecide, TypeOK, Ram, calHist
<1>3. Elapsed(ram.clock_old)' = Elapsed(ram.clock_old) /\ TwoPeriods(pulse)' = TwoPeriods(pulse)
  BY <1>2 DEF Elapsed, TwoPeriods
<1>4. todo' # <<>> => Head(todo') # "decide"
  BY BeforeDecide DEF ReadDecide, Tasks, TypeOK
<1>5. age > OutOfDate => UpToDate = 0
  BY <1>1, ClockAssumption DEF UpToDate, TypeOK
<1>6. age' - gap' > OutOfDate => ram'.power = 0
  BY <1>2, <1>5 DEF TypeOK
<1>7. Clocked'
  BY <1>2, <1>3, <1>4, <1>6 DEF Clocked
<1>8. PowerKept'
  <2> SUFFICES ASSUME ~torn, pulse # 0, age <= OutOfDate, age <= TwoPeriods(pulse)
               PROVE  UpToDate = pulse
    BY <1>2, <1>3 DEF PowerKept
  <2>1. ram.power = pulse
    BY DEF PowerKept
  <2>2. tmp = age
    BY <1>1, ClockAssumption DEF TypeOK
  <2>3. TwoPeriods(pulse) \in Nat
    BY TwoPeriodsType DEF TypeOK
  <2>4. ~(tmp > OutOfDate) /\ ~(tmp > TwoPeriods(ram.power))
    BY <2>1, <2>2, <2>3, ClockAssumption DEF TypeOK
  <2>5. QED
    BY <2>1, <2>4 DEF UpToDate
<1>9. QED
  BY <1>7, <1>8

(* A tick makes everything one older. *)
LEMMA TickKeeps ==
  ASSUME TypeOK, Clocked, PowerKept, Tick
  PROVE  Clocked' /\ PowerKept'
<1>1. /\ todo' = <<>> /\ UNCHANGED <<ram, pulse, torn>>
      /\ gap' = gap + 1
      /\ clock' = (clock + 1) % W
      /\ age' = IF age < W THEN age + 1 ELSE W
      /\ ram.clock_old \in Word
  BY DEF Tick, meterVars, taskVars, TypeOK, Ram
<1>2. ASSUME age' < W
      PROVE  Elapsed(ram.clock_old)' = age'
  <2>1. age < W - 1 /\ age' = age + 1
    BY <1>1, <1>2, ClockAssumption DEF TypeOK
  <2>2. Elapsed(ram.clock_old) = age
    BY <2>1, ClockAssumption DEF Clocked, TypeOK
  <2>3. \A old \in Word : Elapsed(old) < W - 1 => Elapsed(old)' = Elapsed(old) + 1
    BY <1>1, ElapsedSteps DEF TypeOK
  <2>4. ram' = ram /\ Elapsed(ram.clock_old)' = Elapsed(ram.clock_old) + 1
    <3>1. PICK old \in Word : old = ram.clock_old
      BY <1>1
    <3>2. Elapsed(old)' = Elapsed(old) + 1
      BY <2>1, <2>2, <2>3, <3>1
    <3>3. QED
      BY <1>1, <3>1, <3>2 DEF Elapsed
  <2>5. QED
    BY <2>1, <2>2, <2>4
<1>3. age' - gap' > OutOfDate => age - gap > OutOfDate
  BY <1>1, ClockAssumption DEF TypeOK
<1>4. Clocked'
  BY <1>1, <1>2, <1>3 DEF Clocked
<1>5. PowerKept'
  <2> SUFFICES ASSUME ~torn, pulse # 0, age' <= OutOfDate, age' <= TwoPeriods(pulse)
               PROVE  ram.power = pulse
    BY <1>1 DEF PowerKept, TwoPeriods
  <2>1. TwoPeriods(pulse) \in Nat
    BY TwoPeriodsType DEF TypeOK
  <2>2. age <= OutOfDate /\ age <= TwoPeriods(pulse)
    BY <1>1, <2>1, ClockAssumption DEF TypeOK
  <2>3. QED
    BY <2>2 DEF PowerKept
<1>6. QED
  BY <1>4, <1>5

(* A pulse measures, counts, or ends a calibration and resets the power. *)
LEMMA PulseMeasures ==
  ASSUME TypeOK, Clocked, PowerKept, Pulse
  PROVE  Clocked' /\ PowerKept'
<1>1. CASE CalibrationPulse
  BY <1>1, QuietMeasureKeeps DEF CalibrationPulse, Counted, MeasureUnchanged, TypeOK, Ram, taskVars
<1>2. CASE CalibrationResult
  <2>1. /\ UNCHANGED <<clock, gap, age, torn, todo, tmp>>
        /\ ram'.power = 0 /\ pulse' = 0 /\ ram'.clock_old = ram.clock_old
    BY <1>2 DEF CalibrationResult, TypeOK, Ram, taskVars
  <2>2. Elapsed(ram.clock_old)' = Elapsed(ram.clock_old)
    BY <2>1 DEF Elapsed
  <2>3. QED
    BY <2>1, <2>2 DEF Clocked, PowerKept
<1>3. CASE MeasurementPulse
  <2>1. /\ UNCHANGED <<clock, todo>> /\ age' = 0
        /\ ram'.power = pulse' /\ ram'.clock_old = clock
        /\ todo' # <<>> /\ Head(todo') = "decide" => torn'
        /\ gap' \in Nat
    BY <1>3 DEF MeasurementPulse, Tear, TypeOK, Ram
  <2>2. Elapsed(ram.clock_old)' = 0
    <3>1. Elapsed(clock) = 0
      BY ElapsedSteps DEF TypeOK
    <3>2. QED
      BY <2>1, <3>1 DEF Elapsed
  <2>3. ~(age' - gap' > OutOfDate)
    <3>1. \A g \in Nat : ~(0 - g > OutOfDate)
      BY ClockAssumption
    <3>2. QED
      BY <2>1, <3>1
  <2>4. QED
    BY <2>1, <2>2, <2>3 DEF Clocked, PowerKept
<1>4. QED
  BY <1>1, <1>2, <1>3 DEF Pulse

(* At the start, nothing has been measured. *)
LEMMA ClockedInitially == Init => Clocked /\ PowerKept
<1> SUFFICES ASSUME Init PROVE Clocked /\ PowerKept
  OBVIOUS
<1>1. todo = <<>> /\ clock = 0 /\ age = 0 /\ gap = 0 /\ pulse = 0 /\ ram.clock_old = 0 /\ ram.power = 0
  BY DEF Init, Booted
<1>2. Elapsed(ram.clock_old) = 0
  BY <1>1, ClockAssumption DEF Elapsed
<1>3. QED
  BY <1>1, <1>2, ClockAssumption DEF Clocked, PowerKept

(* All actions. *)
LEMMA ClockedPreserved ==
  TypeOK /\ Tasks /\ Clocked /\ PowerKept /\ [Next]_vars => Clocked' /\ PowerKept'
<1> SUFFICES ASSUME TypeOK, Tasks, Clocked, PowerKept, [Next]_vars PROVE Clocked' /\ PowerKept'
  OBVIOUS
<1>1. ASSUME NEW step, At(step), step # "elapsed"
      PROVE  todo' # <<>> => Head(todo') # "decide"
  BY <1>1, BeforeDecide DEF Tasks, TypeOK
<1>2. CASE Switch \/ Calibrate \/ CalibrationStop
  <2>1. MeasureUnchanged
    BY <1>2 DEF Switch, Calibrate, CalibrationStop, Assign, MeasureUnchanged, TypeOK, Ram
  <2>2. PICK step \in TaskSteps \ {"elapsed"} : At(step)
    BY <1>2 DEF Switch, Calibrate, CalibrationStop, TaskSteps
  <2>3. QED
    BY <1>1, <2>1, <2>2, QuietMeasureKeeps
<1>3. CASE Reset
  <2>1. /\ UNCHANGED <<clock, gap, age, torn>>
        /\ ram'.power = 0 /\ pulse' = 0 /\ ram'.clock_old = ram.clock_old
        /\ todo' # <<>> => Head(todo') # "decide"
    BY <1>1, <1>3 DEF Reset, TypeOK, Ram
  <2>2. Elapsed(ram.clock_old)' = Elapsed(ram.clock_old)
    BY <2>1 DEF Elapsed
  <2>3. QED
    BY <2>1, <2>2 DEF Clocked, PowerKept
<1>4. CASE ReadElapsed
  <2>1. MeasureUnchanged /\ tmp' = Elapsed(ram.clock_old)
    BY <1>4 DEF ReadElapsed, MeasureUnchanged, meterVars
  <2>2. /\ Elapsed(ram.clock_old)' = Elapsed(ram.clock_old)
        /\ TwoPeriods(pulse)' = TwoPeriods(pulse)
    BY <2>1 DEF MeasureUnchanged, Elapsed, TwoPeriods
  <2>3. QED
    BY <2>1, <2>2 DEF MeasureUnchanged, Clocked, PowerKept
<1>5. CASE LongPress
  <2>1. CASE At("long") /\ Assign(ram)
    BY <1>1, <2>1, QuietMeasureKeeps DEF MeasureUnchanged, Assign
  <2>2. QED
    BY <1>5, <2>1, RebootClocked DEF LongPress
<1>6. ASSUME NEW value \in BOOLEAN, Read \/ Write(value) \/ button_pressed(value)
      PROVE  Clocked' /\ PowerKept'
  <2>1. PICK s \in Callable : Call(s)
    BY <1>6, CallOf
  <2>2. todo' # <<>> => Head(todo') # "decide"
    BY <2>1, CallableOrderly DEF Call
  <2>3. QED
    BY <2>1, <2>2, QuietMeasureKeeps DEF MeasureUnchanged, Call, meterVars
<1>7. CASE StopTimer
  <2>1. todo' # <<>> => Head(todo') # "decide"
    BY <1>7, StopOrderly DEF StopTimer
  <2>2. MeasureUnchanged
    BY <1>7 DEF StopTimer, MeasureUnchanged, TypeOK, Ram
  <2>3. QED
    BY <2>1, <2>2, QuietMeasureKeeps
<1>8. CASE PowerFail \/ CalibrationCut
  BY <1>8, RebootClocked DEF PowerFail, CalibrationCut
<1>9. CASE UNCHANGED vars
  BY <1>9, QuietMeasureKeeps DEF vars, MeasureUnchanged, meterVars, taskVars
<1>10. QED
  BY <1>2, <1>3, <1>4, <1>5, <1>6, <1>7, <1>8, <1>9, DecideKeeps, PulseMeasures, TickKeeps
  DEF Next, Step

(* Both, with the types and the order of the steps they rest on. *)
LEMMA ClockedAlways == Spec => [](Clocked /\ PowerKept)
<1>1. CalInv => Tasks
  BY DEF CalInv
<1>2. Spec => [](TypeOK /\ CalInv)
  BY CalInvInitially, CalInvPreserved, MeterTypes, PTL DEF Spec
<1>3. QED
  BY <1>1, <1>2, ClockedInitially, ClockedPreserved, PTL DEF Spec

(* A measurement stands until it is older than two of its periods or the     *)
(* meter is reset, whatever handlers run and wherever the clock wraps,       *)
(* unless a pulse came while metering_get_power was reading.                 *)
THEOREM MeasurementKept == Spec => []PowerKept
BY ClockedAlways, PTL

(* No reading is above what the time since the last pulse allows, and one    *)
(* later than OUT_OF_DATE_TIME is zero: also when the 16 bit difference of   *)
(* the times is small again, and when a pulse interrupts the reading.        *)
THEOREM ReadingsPlausible == Spec => ReadPlausible
<1> DEFINE Plausible ==
      ReadDecide /\ ram'.power # 0 =>
        /\ age <= OutOfDate
        /\ age <= TwoPeriods(ram'.power) \/ ram'.power <= ram.reference \div age
<1>1. TypeOK /\ Clocked => Plausible
  <2> SUFFICES ASSUME TypeOK, Clocked, ReadDecide, ram'.power # 0
               PROVE  /\ age <= OutOfDate
                      /\ \/ age <= TwoPeriods(ram'.power)
                         \/ ram'.power <= ram.reference \div age
    OBVIOUS
  <2>1. /\ age = W \/ (torn /\ age = 0) \/ tmp = age
        /\ age = W => ram.power = 0
    BY DecideKnows DEF ReadDecide
  <2>2. ram'.power = UpToDate
    BY DEF ReadDecide, TypeOK, Ram
  <2>3. age # W
    BY <2>1, <2>2 DEF UpToDate
  <2>4. UpToDate \in Word
    <3>1. 0 \in Word
      BY ClockAssumption DEF Word
    <3>2. QED
      BY <3>1, PowerType DEF UpToDate, TypeOK, Ram
  <2>5. TwoPeriods(ram'.power) \in Nat
    BY <2>2, <2>4, TwoPeriodsType DEF TypeOK
  <2>6. CASE torn /\ age = 0
    BY <2>5, <2>6, ClockAssumption
  <2>7. CASE tmp = age
    <3>1. age <= OutOfDate
      BY <2>2, <2>7, ClockAssumption DEF UpToDate, TypeOK
    <3>2. CASE ram.power # 0 /\ age > TwoPeriods(ram.power)
      <4>1. ram.power # 0 => TwoPeriods(ram.power) \in Nat
        BY TwoPeriodsType DEF TypeOK, Ram
      <4>2. age # 0
        BY <3>2, <4>1
      <4>3. ram'.power = ram.reference \div age
        BY <2>2, <2>7, <3>1, <3>2, <4>2, ClockAssumption DEF UpToDate, calc_power, TypeOK
      <4>4. QED
        BY <2>2, <2>4, <3>1, <4>3 DEF Word
    <3>3. CASE ~(ram.power # 0 /\ age > TwoPeriods(ram.power))
      <4>1. ram'.power = ram.power
        BY <2>2, <2>7, <3>1, <3>3, ClockAssumption DEF UpToDate, TypeOK
      <4>2. QED
        BY <2>5, <3>1, <3>3, <4>1 DEF TypeOK
    <3>4. QED
      BY <3>2, <3>3
  <2>8. QED
    BY <2>1, <2>3, <2>6, <2>7
<1>2. Spec => [](TypeOK /\ Clocked)
  BY MeterTypes, ClockedAlways, PTL
<1>3. Spec => [][Plausible]_vars
  BY <1>1, <1>2, PTL
<1>4. QED
  BY <1>3 DEF ReadPlausible
=============================================================================
