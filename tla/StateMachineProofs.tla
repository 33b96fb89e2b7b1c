------------------------- MODULE StateMachineProofs -------------------------
(* Theorems about StateMachine, for every table, input and clock.          *)
EXTENDS StateMachine, SequenceTheorems, TLAPS

(***************************************************************************)
(* What the operations on the stack do.                                    *)
(***************************************************************************)

(* Replacing the innermost frame changes nothing below it. *)
LEMMA Edit ==
  ASSUME NEW S, NEW s \in Seq(S), s # <<>>, NEW f \in S
  PROVE  /\ [s EXCEPT ![Len(s)] = f] \in Seq(S)
         /\ Len([s EXCEPT ![Len(s)] = f]) = Len(s)
         /\ \A k \in 1 .. Len(s) : [s EXCEPT ![Len(s)] = f][k] = IF k = Len(s) THEN f ELSE s[k]
  OBVIOUS

(* A new call is the innermost frame. *)
LEMMA Push ==
  ASSUME NEW S, NEW s \in Seq(S), NEW f \in S
  PROVE  /\ Append(s, f) \in Seq(S)
         /\ Len(Append(s, f)) = Len(s) + 1
         /\ \A k \in 1 .. Len(s) : Append(s, f)[k] = s[k]
         /\ Append(s, f)[Len(s) + 1] = f
  OBVIOUS

(* Returning removes the innermost frame only. *)
LEMMA Pop ==
  ASSUME NEW S, NEW s \in Seq(S), s # <<>>
  PROVE  /\ SubSeq(s, 1, Len(s) - 1) \in Seq(S)
         /\ Len(SubSeq(s, 1, Len(s) - 1)) = Len(s) - 1
         /\ \A k \in 1 .. Len(s) - 1 : SubSeq(s, 1, Len(s) - 1)[k] = s[k]
         /\ Len(s) \in Nat \ {0}
         /\ s[Len(s)] \in S
<1>1. Len(s) \in Nat \ {0} /\ \A k \in 1 .. Len(s) : s[k] \in S
  BY EmptySeq, LenProperties
<1>2. /\ SubSeq(s, 1, Len(s) - 1) \in Seq(S)
      /\ Len(SubSeq(s, 1, Len(s) - 1)) = IF 1 <= Len(s) - 1 THEN Len(s) - 1 - 1 + 1 ELSE 0
      /\ \A k \in 1 .. Len(s) - 1 - 1 + 1 : SubSeq(s, 1, Len(s) - 1)[k] = s[1 + k - 1]
  <2>1. 1 \in Int /\ Len(s) - 1 \in Int /\ \A k \in 1 .. Len(s) - 1 : s[k] \in S
    BY <1>1
  <2> QED  BY <2>1, SubSeqProperties
<1>3. Len(SubSeq(s, 1, Len(s) - 1)) = Len(s) - 1
  <2> DEFINE l == Len(SubSeq(s, 1, Len(s) - 1))
             n == Len(s)
  <2>1. n \in Nat \ {0} /\ l = IF 1 <= n - 1 THEN n - 1 - 1 + 1 ELSE 0
    BY <1>1, <1>2
  <2> HIDE DEF l, n
  <2>2. l = n - 1
    BY <2>1
  <2> QED  BY <2>2 DEF l, n
<1>4. ASSUME NEW k \in 1 .. Len(s) - 1
      PROVE  SubSeq(s, 1, Len(s) - 1)[k] = s[k]
  <2>1. k \in 1 .. Len(s) - 1 - 1 + 1 /\ 1 + k - 1 = k
    BY <1>1
  <2> QED  BY <1>2, <2>1
<1>5. s[Len(s)] \in S
  BY <1>1
<1> QED  BY <1>1, <1>2, <1>3, <1>4, <1>5

(* What is left of the broadcasts of a write. *)
LEMMA Rest ==
  ASSUME NEW S, NEW s \in Seq(S), s # <<>>
  PROVE  Head(s) \in S /\ Tail(s) \in Seq(S)
  OBVIOUS

(* One or two. *)
LEMMA OneTwo == \A n \in Nat \ {0} : n <= 2 => n \in 1 .. 2
  OBVIOUS

(* The broadcasts of a relay write are readings of the device's own meter. *)
LEMMA MeteredType == Metered \in Seq(Readings)
<1> DEFINE E == [src : {"self"}, eid : STRING, dtype : STRING, val : Nat]
<1>1. Metered \in Seq(E)
  BY MeterAssumption
<1>2. Len(Metered) \in Nat /\ Metered \in [1 .. Len(Metered) -> E]
  BY <1>1, LenProperties
<1>3. Metered \in [1 .. Len(Metered) -> Readings]
  BY <1>2 DEF Readings
<1> QED  BY <1>2, <1>3, SeqDef

LEMMA ReadingsOwn == \A e \in Readings : e.src = "self"
<1> DEFINE E == [src : {"self"}, eid : STRING, dtype : STRING, val : Nat]
<1>1. Len(Metered) \in Nat /\ Metered \in [1 .. Len(Metered) -> E]
  BY MeterAssumption, LenProperties
<1> QED  BY <1>1 DEF Readings

(***************************************************************************)
(* The inductive invariant, for every table.                               *)
(***************************************************************************)

(* A frame that has written stands at a transition; one that scans has no   *)
(* broadcasts to make; a relay write of somebody else is at the bottom.     *)
FrameOK(f, k) ==
  /\ f.wrote = "no" => f.todo = <<>>
  /\ f.tab # "outside" /\ f.wrote # "no" => f.i <= Len(Entries(f.tab))
  /\ f.tab = "outside" => k = 1 /\ f.wrote = "good"
Indexed == \A k \in 1 .. Len(frames) : FrameOK(frames[k], k)

(* A nested call is a call with one of the device's own readings, so it     *)
(* cannot be a reset; once it has put the process back to RUNNING it has no *)
(* broadcasts left to make.  While the process is CALLED, the innermost     *)
(* frame is its own.                                                        *)
Bounded ==
  /\ Len(frames) <= 2
  /\ proc = "CALLED" => frames # <<>> /\ frames[Len(frames)].tab # "outside"
  /\ Len(frames) = 2 =>
       /\ frames[2].wrote = "no" => proc # "RUNNING"
       /\ proc = "RUNNING" => frames[2].todo = <<>>

(* Something will wake the process: the timer, its event, or the return of  *)
(* a date/time scan, which re-arms the timer.                               *)
Woken ==
  proc # "NONE" => \/ timer = "armed"
                   \/ \E k \in 1 .. Len(queue) : queue[k] = "TIMER"
                   \/ \E k \in 1 .. Len(frames) : frames[k].tab = "datetime"

IInv == TypeOK /\ Indexed /\ Bounded /\ Woken

LEMMA InitIInv == Init => IInv
<1> SUFFICES ASSUME Init PROVE IInv
  OBVIOUS
<1>1. TypeOK
  <2>1. frames \in Seq(FrameType) /\ queue \in Seq({"TIMER", "UP", "DOWN"}) /\ Len(queue) <= QueueSize
    BY EmptySeq, QueueAssumption DEF Init
  <2>2. relay \in BOOLEAN /\ dtValid \in BOOLEAN
    BY Zenon DEF Init
  <2>3. /\ proc \in {"NONE", "RUNNING", "CALLED"} /\ curState \in Byte
        /\ inStateSince \in 0 .. TimestampModulus - 1 /\ now \in 0 .. TimestampModulus - 1
        /\ clock \in Clocks /\ timer \in {"off", "armed"} /\ starts \in Nat
    BY ClockAssumption DEF Init, Byte
  <2> QED  BY <2>1, <2>2, <2>3 DEF TypeOK
<1>2. Indexed /\ Bounded /\ Woken
  BY DEF Init, Indexed, Bounded, Woken
<1> QED  BY <1>1, <1>2 DEF IInv

-----------------------------------------------------------------------------
(***************************************************************************)
(* What an edit of the innermost frame and a call of the process preserve. *)
(***************************************************************************)
LEMMA TopType ==
  ASSUME TypeOK, frames # <<>>
  PROVE  Len(frames) \in Nat \ {0} /\ Top \in FrameType
  BY Pop DEF TypeOK, Top

(* An edit of the innermost frame that keeps it sound and keeps its table.  *)
LEMMA Edited ==
  ASSUME TypeOK, Indexed, frames # <<>>,
         NEW STATE f, f \in FrameType, FrameOK(f, Len(frames)), f.tab = Top.tab,
         NEW STATE g, g = WithTop(f)
  PROVE  /\ g \in Seq(FrameType)
         /\ Len(g) = Len(frames)
         /\ g[Len(frames)] = f
         /\ \A k \in 1 .. Len(frames) : FrameOK(g[k], k) /\ g[k].tab = frames[k].tab
<1>1. frames \in Seq(FrameType) /\ Len(frames) \in Nat \ {0}
  BY TopType DEF TypeOK
<1>2. /\ g \in Seq(FrameType)
      /\ Len(g) = Len(frames)
      /\ \A k \in 1 .. Len(frames) : g[k] = IF k = Len(frames) THEN f ELSE frames[k]
  BY <1>1, Edit DEF WithTop
<1>3. \A k \in 1 .. Len(frames) : FrameOK(g[k], k)
  BY <1>2 DEF Indexed
<1>4. \A k \in 1 .. Len(frames) : g[k].tab = frames[k].tab
  BY <1>2 DEF Top
<1> QED  BY <1>1, <1>2, <1>3, <1>4

(* A new call is a sound frame. *)
LEMMA CallType ==
  ASSUME NEW tab \in {"value", "datetime"}, NEW env \in Envelopes, NEW k
  PROVE  /\ Call(tab, env) \in FrameType
         /\ FrameOK(Call(tab, env), k)
         /\ Call(tab, env).tab = tab
         /\ Call(tab, env).todo = <<>>
  BY DEF Call, FrameType, FrameOK

(* call_process keeps the stack sound and bounded, and loses no timer.      *)
LEMMA Called ==
  ASSUME TypeOK, Indexed, Bounded,
         NEW STATE below, below \in Seq(FrameType), Len(below) = Len(frames),
         \A k \in 1 .. Len(frames) : FrameOK(below[k], k) /\ below[k].tab = frames[k].tab,
         Len(below) = 2 => proc # "RUNNING",
         NEW STATE ev, NEW STATE env, env \in Envelopes,
         Len(below) # 0 => ~Resets(env),
         call_process(below, ev, env)
  PROVE  /\ proc' \in {"NONE", "RUNNING", "CALLED"} /\ curState' \in Byte
         /\ timer' \in {"off", "armed"} /\ starts' \in Nat
         /\ frames' \in Seq(FrameType)
         /\ Indexed'
         /\ Bounded'
         /\ \/ timer' = "armed"
            \/ /\ timer' = timer
               /\ proc' # "NONE" => proc # "NONE"
               /\ Len(frames) <= Len(frames')
               /\ \A k \in 1 .. Len(frames) : frames'[k].tab = frames[k].tab
         /\ ev = "TIMER" /\ proc = "RUNNING" => \E k \in 1 .. Len(frames') : frames'[k].tab = "datetime"
<1> USE DEF Byte
<1>0. /\ Len(frames) \in 0 .. 2 /\ Len(below) \in 0 .. 2
      /\ frames \in Seq(FrameType)
      /\ frames # <<>> <=> Len(frames) # 0
      /\ below # <<>> <=> Len(below) # 0
  BY EmptySeq, LenProperties DEF TypeOK, Bounded
<1>1. CASE Dropped(below) /\ ~(ev = "TIMER" /\ proc = "RUNNING")
  <2>1. frames' = below /\ proc' = proc /\ curState' = curState /\ timer' = timer /\ starts' = starts
    BY <1>1 DEF Dropped
  <2>2. Indexed'
    BY <1>0, <2>1 DEF Indexed
  <2>3. Bounded /\ Len(below) = Len(frames)
    OBVIOUS
  <2>4. Bounded'
    <3>1. proc = "CALLED" => Len(frames) # 0 /\ below[Len(below)].tab # "outside"
      BY <1>0 DEF Bounded
    <3>2. Len(below) = 2 => proc # "RUNNING"
      OBVIOUS
    <3> QED  BY <1>0, <2>1, <3>1, <3>2 DEF Bounded
  <2> QED  BY <1>0, <1>1, <2>1, <2>2, <2>4 DEF TypeOK
<1>2. ASSUME proc = "RUNNING",
             NEW STATE tab, tab \in {"value", "datetime"}, NEW STATE e, e \in Envelopes,
             frames' = Append(below, Call(tab, e)),
             Len(below) # 0 => proc' # "RUNNING",
             ev = "TIMER" => tab = "datetime"
      PROVE  /\ frames' \in Seq(FrameType)
             /\ Indexed'
             /\ Bounded'
             /\ Len(frames) <= Len(frames')
             /\ \A k \in 1 .. Len(frames) : frames'[k].tab = frames[k].tab
             /\ ev = "TIMER" => \E k \in 1 .. Len(frames') : frames'[k].tab = "datetime"
  <2> DEFINE n == Len(below) + 1
  <2>1. Len(below) \in 0 .. 1 /\ n \in 1 .. 2
    BY <1>0, <1>2
  <2>2. Call(tab, e) \in FrameType /\ FrameOK(Call(tab, e), n) /\ Call(tab, e).tab = tab
          /\ Call(tab, e).todo = <<>>
    BY <1>2, CallType
  <2>3. /\ frames' \in Seq(FrameType)
        /\ Len(frames') = n
        /\ \A k \in 1 .. Len(below) : frames'[k] = below[k]
        /\ frames'[n] = Call(tab, e)
    BY <1>2, <2>2, Push
  <2>4. Indexed'
    BY <2>1, <2>2, <2>3 DEF Indexed
  <2>5. Bounded'
    <3>1. Len(frames') <= 2 /\ frames' # <<>> /\ frames'[Len(frames')].tab # "outside"
      BY <1>2, <2>1, <2>2, <2>3, EmptySeq
    <3>2. Len(frames') = 2 => frames'[2].todo = <<>> /\ proc' # "RUNNING"
      BY <1>2, <2>1, <2>2, <2>3
    <3> QED  BY <3>1, <3>2 DEF Bounded
  <2>6. \A k \in 1 .. Len(frames) : frames'[k].tab = frames[k].tab
    BY <1>0, <2>3
  <2>7. ev = "TIMER" => \E k \in 1 .. Len(frames') : frames'[k].tab = "datetime"
    BY <1>2, <2>1, <2>2, <2>3
  <2> QED  BY <1>0, <2>1, <2>3, <2>4, <2>5, <2>6, <2>7
<1>3. CASE proc = "RUNNING" /\ ev = "UP" /\ OnUp(below) /\ ~SmIdZero
  <2>1. /\ proc' = "CALLED" /\ curState' = 0 /\ timer' = timer /\ starts' = starts
        /\ frames' = Append(below, Call("value", NoEnvelope))
    BY <1>3 DEF OnUp
  <2>2. NoEnvelope \in Envelopes
    BY DEF Envelopes
  <2> QED  BY <1>2, <1>3, <2>1, <2>2 DEF TypeOK
<1>4. CASE proc = "RUNNING" /\ ev = "TIMER" /\ OnTimer(below)
  <2> DEFINE e == [src |-> "clock", eid |-> "none", dtype |-> "datetime", val |-> clock]
  <2>1. /\ proc' = "CALLED" /\ curState' = curState /\ timer' = timer /\ starts' = starts
        /\ frames' = Append(below, Call("datetime", e))
    BY <1>4 DEF OnTimer
  <2>2. e \in Envelopes
    BY DEF Envelopes, TypeOK
  <2> HIDE DEF e
  <2> QED  BY <1>2, <1>4, <2>1, <2>2 DEF TypeOK
<1>5. CASE proc = "RUNNING" /\ ev = "input" /\ OnInput(below, env)
  <2>1. /\ frames' = Append(below, Call("value", env))
        /\ IF Resets(env) THEN sm_start
                          ELSE proc' = "CALLED" /\ UNCHANGED <<curState, timer, starts>>
    BY <1>5 DEF OnInput
  <2>2. Len(below) # 0 => proc' # "RUNNING"
    BY <2>1
  <2>3. /\ proc' \in {"NONE", "RUNNING", "CALLED"} /\ curState' \in Byte
        /\ timer' \in {"off", "armed"} /\ starts' \in Nat
        /\ timer' = "armed" \/ timer' = timer
    <3>1. CASE Resets(env)
      <4>1. proc' = "RUNNING" /\ curState' = 0 /\ timer' = "armed" /\ starts' = starts + 1
        BY <2>1, <3>1 DEF sm_start
      <4> QED  BY <4>1 DEF TypeOK
    <3>2. CASE ~Resets(env)
      <4>1. proc' = "CALLED" /\ curState' = curState /\ timer' = timer /\ starts' = starts
        BY <2>1, <3>2
      <4> QED  BY <4>1 DEF TypeOK
    <3> QED  BY <3>1, <3>2
  <2> QED  BY <1>2, <1>5, <2>1, <2>2, <2>3
<1>6. \/ proc # "RUNNING" /\ Dropped(below)
      \/ proc = "RUNNING" /\ Dispatch(below, ev, env)
  BY DEF call_process
<1>7. ASSUME proc = "RUNNING", Dispatch(below, ev, env)
      PROVE  \/ ev = "UP" /\ OnUp(below)
             \/ ev = "TIMER" /\ OnTimer(below)
             \/ ev = "input" /\ OnInput(below, env)
             \/ ev # "TIMER" /\ Dropped(below)
  BY <1>7 DEF Dispatch
<1>8. OnUp(below) /\ SmIdZero => Dropped(below)
  BY DEF OnUp
<1> QED  BY <1>1, <1>3, <1>4, <1>5, <1>6, <1>7, <1>8

-----------------------------------------------------------------------------
(***************************************************************************)
(* Every step preserves the invariant.                                     *)
(***************************************************************************)

(* The transition a frame stands at is one of the tables. *)
LEMMA EntryType ==
  ASSUME TypeOK, frames # <<>>, Top.i <= Len(Entries(Top.tab))
  PROVE  /\ Entry \in Transition
         /\ Entry \in {Table[k] : k \in 1 .. Len(Table)} \cup {DtTable[k] : k \in 1 .. Len(DtTable)}
<1>1. Top.i \in Nat \ {0}
  BY TopType DEF FrameType
<1>2. /\ Len(Table) \in Nat /\ \A k \in 1 .. Len(Table) : Table[k] \in Transition
      /\ Len(DtTable) \in Nat /\ \A k \in 1 .. Len(DtTable) : DtTable[k] \in Transition
  BY TableAssumption, LenProperties
<1>3. CASE Top.tab = "datetime"
  BY <1>1, <1>2, <1>3 DEF Entry, Entries
<1>4. CASE Top.tab # "datetime"
  BY <1>1, <1>2, <1>4 DEF Entry, Entries
<1> QED  BY <1>3, <1>4

(* After an edit of a frame that leaves the process alone, or starts or      *)
(* stops it, the stack is still bounded and the process is still woken.      *)
LEMMA EditBounded ==
  ASSUME IInv, frames # <<>>, NEW STATE f, f \in FrameType, FrameOK(f, Len(frames)),
         f.tab = Top.tab, frames' = WithTop(f),
         \/ proc' = proc /\ timer' = timer
         \/ proc' = "RUNNING" /\ timer' = "armed"
         \/ proc' = "NONE",
         Len(frames) = 2 /\ proc' = "RUNNING" => f.wrote # "no" /\ f.todo = <<>>,
         Top.tab # "outside" \/ proc' # "CALLED",
         queue' = queue
  PROVE  frames' \in Seq(FrameType) /\ Indexed' /\ Bounded' /\ Woken'
<1>1. TypeOK /\ Indexed /\ Bounded /\ Woken
  BY DEF IInv
<1>2. /\ frames' \in Seq(FrameType)
      /\ Len(frames') = Len(frames)
      /\ frames'[Len(frames)] = f
      /\ \A k \in 1 .. Len(frames) : FrameOK(frames'[k], k) /\ frames'[k].tab = frames[k].tab
  <2> DEFINE g == WithTop(f)
  <2>1. /\ g \in Seq(FrameType)
        /\ Len(g) = Len(frames)
        /\ g[Len(frames)] = f
        /\ \A k \in 1 .. Len(frames) : FrameOK(g[k], k) /\ g[k].tab = frames[k].tab
    BY <1>1, Edited
  <2> QED  BY <2>1
<1>3. Len(frames) \in 1 .. 2
  <2>1. Len(frames) \in Nat \ {0}
    BY <1>1, TopType
  <2>2. Len(frames) <= 2
    BY <1>1 DEF Bounded
  <2> QED  BY <2>1, <2>2, OneTwo, Zenon
<1>4. Indexed'
  BY <1>2 DEF Indexed
<1>5. Bounded'
  <2>1. frames' # <<>>
    BY <1>2, <1>3, EmptySeq
  <2>2. proc' = "CALLED" => frames'[Len(frames')].tab # "outside"
    BY <1>2, <1>3 DEF Top
  <2>3. Len(frames') = 2 => /\ frames'[2].wrote = "no" => proc' # "RUNNING"
                            /\ proc' = "RUNNING" => frames'[2].todo = <<>>
    BY <1>2, <1>3
  <2> QED  BY <1>2, <1>3, <2>1, <2>2, <2>3 DEF Bounded
<1>6. Woken'
  <2>1. SUFFICES ASSUME proc' # "NONE", timer' # "armed",
                        ~ \E k \in 1 .. Len(queue) : queue[k] = "TIMER"
                 PROVE  \E k \in 1 .. Len(frames') : frames'[k].tab = "datetime"
    BY DEF Woken
  <2>2. proc' = proc /\ timer' = timer
    BY <2>1
  <2>3. PICK k \in 1 .. Len(frames) : frames[k].tab = "datetime"
    BY <1>1, <2>1, <2>2 DEF Woken
  <2> QED  BY <1>2, <2>3
<1> QED  BY <1>2, <1>4, <1>5, <1>6

(* The return of a call, or of a relay write. *)
LEMMA PopBounded ==
  ASSUME IInv, frames # <<>>, frames' = Below, queue' = queue,
         \/ proc' = "NONE"
         \/ proc' = "RUNNING" /\ proc # "NONE",
         Top.tab = "datetime" => timer' = "armed",
         Top.tab # "datetime" => timer' = timer
  PROVE  frames' \in Seq(FrameType) /\ Indexed' /\ Bounded' /\ Woken'
<1>1. TypeOK /\ Indexed /\ Bounded /\ Woken
  BY DEF IInv
<1>2. /\ frames' \in Seq(FrameType)
      /\ Len(frames') = Len(frames) - 1
      /\ \A k \in 1 .. Len(frames) - 1 : frames'[k] = frames[k]
      /\ Len(frames) \in Nat \ {0}
  BY <1>1, Pop DEF TypeOK, Below
<1>3. Len(frames) \in 1 .. 2
  BY <1>1, <1>2 DEF Bounded
<1>4. Indexed'
  BY <1>1, <1>2 DEF Indexed
<1>5. Bounded'
  BY <1>2, <1>3 DEF Bounded
<1>6. Woken'
  <2>1. SUFFICES ASSUME proc # "NONE", Top.tab # "datetime",
                        \E k \in 1 .. Len(frames) : frames[k].tab = "datetime"
                 PROVE  \E k \in 1 .. Len(frames') : frames'[k].tab = "datetime"
    BY <1>1 DEF Woken
  <2>2. PICK k \in 1 .. Len(frames) : frames[k].tab = "datetime"
    BY <2>1
  <2>3. k \in 1 .. Len(frames')
    BY <1>2, <2>1, <2>2 DEF Top
  <2> QED  BY <1>2, <2>2, <2>3
<1> QED  BY <1>2, <1>4, <1>5, <1>6

(* The parts of the type invariant that no step of a call touches. *)
Rested == UNCHANGED <<timeVars, queue>>

LEMMA StepIInv ==
  ASSUME IInv, Step
  PROVE  IInv'
<1>1. TypeOK /\ Indexed /\ Bounded /\ Woken
  BY DEF IInv
<1>2. frames # <<>> /\ Rested
  BY DEF Step, Skip, Move, Act, Broadcast, Commit, Exhausted, Switched, Scanning, InBroadcast,
         Finished, Rested
<1>3. Top \in FrameType /\ Len(frames) \in 1 .. 2 /\ FrameOK(Top, Len(frames))
  <2>1. Len(frames) \in Nat \ {0} /\ Top \in FrameType
    BY <1>1, <1>2, TopType
  <2>2. Len(frames) <= 2
    BY <1>1 DEF Bounded
  <2>3. FrameOK(Top, Len(frames))
    BY <1>1, <2>1 DEF Indexed, Top
  <2>4. Len(frames) \in 1 .. 2
    BY <2>1, <2>2, OneTwo, Zenon
  <2> QED  BY <2>1, <2>3, <2>4
<1>4. ASSUME /\ proc' \in {"NONE", "RUNNING", "CALLED"} /\ curState' \in Byte
             /\ inStateSince' \in {inStateSince, now} /\ relay' \in BOOLEAN
             /\ timer' \in {"off", "armed"} /\ starts' \in Nat,
             frames' \in Seq(FrameType)
      PROVE  TypeOK'
  <2>1. relay' \in BOOLEAN /\ dtValid' \in BOOLEAN
    BY <1>1, <1>2, <1>4, Zenon DEF TypeOK, Rested, timeVars
  <2> QED  BY <1>1, <1>2, <1>4, <2>1 DEF TypeOK, Rested, timeVars
<1>5. TypeOK => relay \in BOOLEAN
  BY Zenon DEF TypeOK
<1>6. CASE Skip
  <2> DEFINE f == [Top EXCEPT !.i = @ + 1]
  <2>1. /\ Scanning /\ frames' = WithTop(f)
        /\ UNCHANGED <<proc, curState, inStateSince, relay, timer, queue, starts>>
    BY <1>6 DEF Skip
  <2>2. f \in FrameType /\ f.tab = Top.tab /\ f.wrote = "no" /\ f.todo = Top.todo
    BY <1>3, <2>1 DEF FrameType, Scanning
  <2>3. FrameOK(f, Len(frames))
    BY <1>3, <2>1, <2>2 DEF FrameOK, Scanning
  <2>4. Len(frames) = 2 => proc # "RUNNING"
    BY <1>1, <2>1 DEF Bounded, Scanning, Top
  <2> HIDE DEF f
  <2>5. frames' \in Seq(FrameType) /\ Indexed' /\ Bounded' /\ Woken'
    BY <1>2, <2>1, <2>2, <2>3, <2>4, EditBounded DEF Scanning
  <2>6. TypeOK'
    BY <1>1, <1>4, <1>5, <2>1, <2>5 DEF TypeOK
  <2> QED  BY <2>5, <2>6 DEF IInv
<1>7. CASE Move
  <2> DEFINE f == [Top EXCEPT !.i = @ + 1]
  <2>1. /\ Scanning /\ frames' = WithTop(f) /\ Top.i <= Len(Entries(Top.tab))
        /\ curState' = Entry.good /\ inStateSince' = now
        /\ UNCHANGED <<proc, relay, timer, queue, starts>>
    BY <1>7 DEF Move
  <2>2. f \in FrameType /\ f.tab = Top.tab /\ f.wrote = "no" /\ f.todo = Top.todo
    BY <1>3, <2>1 DEF FrameType, Scanning
  <2>3. FrameOK(f, Len(frames))
    BY <1>3, <2>1, <2>2 DEF FrameOK, Scanning
  <2>4. Len(frames) = 2 => proc # "RUNNING"
    BY <1>1, <2>1 DEF Bounded, Scanning, Top
  <2> HIDE DEF f
  <2>5. frames' \in Seq(FrameType) /\ Indexed' /\ Bounded' /\ Woken'
    BY <1>2, <2>1, <2>2, <2>3, <2>4, EditBounded DEF Scanning
  <2>6. curState' \in Byte
    BY <1>1, <1>2, <2>1, EntryType DEF Transition
  <2>7. TypeOK'
    BY <1>1, <1>4, <1>5, <2>1, <2>5, <2>6 DEF TypeOK
  <2> QED  BY <2>5, <2>7 DEF IInv
<1>8. CASE Act
  <2>1. /\ Scanning /\ Top.i <= Len(Entries(Top.tab)) /\ Write(Entry.act)
        /\ UNCHANGED <<inStateSince, queue>>
    BY <1>8 DEF Act
  <2>2. /\ Top.tab # "outside" /\ Top.wrote = "no" /\ Top.todo = <<>>
        /\ Len(frames) = 2 => proc # "RUNNING"
    BY <1>1, <1>3, <2>1 DEF Bounded, Scanning, FrameOK, Top
  <2>3. ASSUME NEW w \in {"good", "bad"}, NEW todo \in Seq(Readings),
               frames' = WithTop([Top EXCEPT !.wrote = w, !.todo = todo]),
               \/ proc' = proc /\ timer' = timer
               \/ proc' = "RUNNING" /\ timer' = "armed" /\ todo = <<>>
               \/ proc' = "NONE"
        PROVE  frames' \in Seq(FrameType) /\ Indexed' /\ Bounded' /\ Woken'
    <3> DEFINE f == [Top EXCEPT !.wrote = w, !.todo = todo]
    <3>1. f \in FrameType /\ f.tab = Top.tab /\ f.wrote = w /\ f.todo = todo /\ f.i = Top.i
      BY <1>3 DEF FrameType
    <3>2. FrameOK(f, Len(frames))
      BY <2>1, <2>2, <3>1 DEF FrameOK
    <3>3. frames' = WithTop(f)
      BY <2>3
    <3> HIDE DEF f
    <3> QED  BY <1>2, <2>1, <2>2, <2>3, <3>1, <3>2, <3>3, EditBounded
  <2>4. <<>> \in Seq(Readings) /\ Metered \in Seq(Readings)
    BY MeteredType, EmptySeq
  <2>5. [Top EXCEPT !.wrote = "good"] = [Top EXCEPT !.wrote = "good", !.todo = <<>>]
          /\ [Top EXCEPT !.wrote = "bad"] = [Top EXCEPT !.wrote = "bad", !.todo = <<>>]
    BY <1>3, <2>2 DEF FrameType
  <2>6. CASE Entry.act \in {"relay_on", "relay_off"} /\ relay' = (Entry.act = "relay_on")
             /\ frames' = WithTop([Top EXCEPT !.wrote = "good", !.todo = SwitchTodo(Entry.act = "relay_on")])
             /\ UNCHANGED <<proc, curState, timer, starts>>
    <3>1. SwitchTodo(Entry.act = "relay_on") \in Seq(Readings)
      BY <2>4 DEF SwitchTodo
    <3>2. frames' \in Seq(FrameType) /\ Indexed' /\ Bounded' /\ Woken'
      BY <2>3, <2>6, <3>1
    <3>3. relay' \in BOOLEAN
      BY <2>6, Zenon
    <3>4. TypeOK'
      BY <1>1, <1>4, <2>1, <2>6, <3>2, <3>3 DEF TypeOK
    <3> QED  BY <3>2, <3>4 DEF IInv
  <2>7. CASE sm_stop /\ frames' = WithTop([Top EXCEPT !.wrote = "good"]) /\ UNCHANGED relay
    <3>1. proc' = "NONE" /\ timer' \in {"off", "armed"} /\ curState' = curState /\ starts' = starts
      BY <1>1, <2>7 DEF sm_stop, TypeOK
    <3>2. frames' \in Seq(FrameType) /\ Indexed' /\ Bounded' /\ Woken'
      BY <2>3, <2>4, <2>5, <2>7, <3>1
    <3>3. TypeOK'
      BY <1>1, <1>4, <1>5, <2>1, <2>7, <3>1, <3>2 DEF TypeOK
    <3> QED  BY <3>2, <3>3 DEF IInv
  <2>8. CASE sm_start /\ frames' = WithTop([Top EXCEPT !.wrote = "good"]) /\ UNCHANGED relay
    <3>1. proc' = "RUNNING" /\ timer' = "armed" /\ curState' \in Byte /\ starts' \in Nat
      BY <1>1, <2>8 DEF sm_start, TypeOK, Byte
    <3>2. frames' \in Seq(FrameType) /\ Indexed' /\ Bounded' /\ Woken'
      BY <2>3, <2>4, <2>5, <2>8, <3>1
    <3>3. TypeOK'
      BY <1>1, <1>4, <1>5, <2>1, <2>8, <3>1, <3>2 DEF TypeOK
    <3> QED  BY <3>2, <3>3 DEF IInv
  <2>9. CASE /\ frames' = WithTop([Top EXCEPT !.wrote = "bad"])
             /\ UNCHANGED <<relay, proc, curState, timer, starts>>
    <3>1. frames' \in Seq(FrameType) /\ Indexed' /\ Bounded' /\ Woken'
      BY <2>3, <2>4, <2>5, <2>9
    <3>2. TypeOK'
      BY <1>1, <1>4, <1>5, <2>1, <2>9, <3>1 DEF TypeOK
    <3> QED  BY <3>1, <3>2 DEF IInv
  <2> QED  BY <2>1, <2>6, <2>7, <2>8, <2>9 DEF Write
<1>9. CASE Broadcast
  <2> DEFINE f == [Top EXCEPT !.todo = Tail(@)]
             g == WithTop(f)
             e == Head(Top.todo)
  <2>1. /\ Top.todo # <<>> /\ sm_handle_input(g, e)
        /\ UNCHANGED <<inStateSince, relay, queue>>
    BY <1>9 DEF Broadcast, InBroadcast
  <2>2. e \in Readings /\ Tail(Top.todo) \in Seq(Readings)
    BY <1>3, <2>1, Rest DEF FrameType
  <2>3. f \in FrameType /\ f.tab = Top.tab /\ f.wrote = Top.wrote /\ f.i = Top.i
    BY <1>3, <2>2 DEF FrameType
  <2>4. FrameOK(f, Len(frames))
    BY <1>3, <2>1, <2>3 DEF FrameOK
  <2>5. e \in Envelopes /\ ~Resets(e)
    BY <2>2, ReadingsOwn DEF Envelopes, Resets
  <2>6. Len(frames) = 2 => proc # "RUNNING"
    BY <1>1, <2>1 DEF Bounded, Top
  <2> HIDE DEF f
  <2>7. /\ g \in Seq(FrameType)
        /\ Len(g) = Len(frames)
        /\ \A k \in 1 .. Len(frames) : FrameOK(g[k], k) /\ g[k].tab = frames[k].tab
    BY <1>1, <1>2, <2>3, <2>4, Edited
  <2>8. call_process(g, "input", e)
    BY <2>1 DEF sm_handle_input
  <2> HIDE DEF g, e
  <2>9. /\ proc' \in {"NONE", "RUNNING", "CALLED"} /\ curState' \in Byte
        /\ timer' \in {"off", "armed"} /\ starts' \in Nat
        /\ frames' \in Seq(FrameType)
        /\ Indexed'
        /\ Bounded'
        /\ \/ timer' = "armed"
           \/ /\ timer' = timer
              /\ proc' # "NONE" => proc # "NONE"
              /\ Len(frames) <= Len(frames')
              /\ \A k \in 1 .. Len(frames) : frames'[k].tab = frames[k].tab
    BY <1>1, <2>5, <2>6, <2>7, <2>8, Called
  <2>10. TypeOK'
    BY <1>1, <1>4, <1>5, <2>1, <2>9 DEF TypeOK
  <2>11. Woken'
    <3>1. Len(frames') \in Nat
      BY <2>9, LenProperties
    <3> QED  BY <1>1, <1>3, <2>1, <2>9, <3>1 DEF Woken
  <2> QED  BY <2>9, <2>10, <2>11 DEF IInv
<1>10. ASSUME Return, UNCHANGED <<relay, queue, starts>>, curState' \in Byte,
              inStateSince' \in {inStateSince, now}
       PROVE  IInv'
  <2>1. /\ frames' = Below
        /\ proc' = IF proc = "NONE" THEN "NONE" ELSE "RUNNING"
        /\ timer' = IF Top.tab = "datetime" THEN "armed" ELSE timer
    BY <1>10 DEF Return
  <2>2. frames' \in Seq(FrameType) /\ Indexed' /\ Bounded' /\ Woken'
    BY <1>2, <1>10, <2>1, PopBounded
  <2>3. TypeOK'
    BY <1>1, <1>4, <1>5, <1>10, <2>1, <2>2 DEF TypeOK
  <2> QED  BY <2>2, <2>3 DEF IInv
<1>11. CASE Commit
  <2>1. /\ Finished /\ Top.tab # "outside" /\ Return
        /\ curState' = IF Top.wrote = "good" THEN Entry.good ELSE Entry.bad
        /\ inStateSince' = now /\ UNCHANGED <<relay, queue, starts>>
    BY <1>11 DEF Commit
  <2>2. Top.i <= Len(Entries(Top.tab))
    BY <1>3, <2>1 DEF FrameOK, Finished
  <2>3. curState' \in Byte
    BY <1>1, <1>2, <2>1, <2>2, EntryType DEF Transition
  <2> QED  BY <1>10, <2>1, <2>3
<1>12. CASE Exhausted
  <2>1. Return /\ UNCHANGED <<curState, inStateSince, relay, queue, starts>> /\ curState \in Byte
    BY <1>1, <1>12 DEF Exhausted, TypeOK
  <2> QED  BY <1>10, <2>1
<1>13. CASE Switched
  <2>1. /\ Top.tab = "outside" /\ frames' = Below
        /\ UNCHANGED <<proc, curState, inStateSince, relay, timer, queue, starts>>
    BY <1>13 DEF Switched
  <2>2. proc \in {"NONE", "RUNNING"}
    BY <1>1, <1>2, <2>1 DEF TypeOK, Bounded, Top
  <2>3. frames' \in Seq(FrameType) /\ Indexed' /\ Bounded' /\ Woken'
    BY <1>2, <2>1, <2>2, PopBounded
  <2>4. TypeOK'
    BY <1>1, <1>4, <1>5, <2>1, <2>3 DEF TypeOK
  <2> QED  BY <2>3, <2>4 DEF IInv
<1> QED  BY <1>6, <1>7, <1>8, <1>9, <1>11, <1>12, <1>13 DEF Step

LEMMA OuterIInv ==
  ASSUME IInv, Outer
  PROVE  IInv'
<1>1. TypeOK /\ Indexed /\ Bounded /\ Woken
  BY DEF IInv
<1>2. /\ relay \in BOOLEAN /\ dtValid \in BOOLEAN
      /\ inStateSince \in 0 .. TimestampModulus - 1 /\ now \in 0 .. TimestampModulus - 1
      /\ clock \in Clocks
  BY <1>1, Zenon DEF TypeOK
<1>3. CASE \E env \in Inputs : Input(env)
  <2>1. PICK env \in Inputs : Input(env)
    BY <1>3
  <2>2. /\ frames = <<>> /\ call_process(<<>>, "input", env)
        /\ UNCHANGED <<inStateSince, relay, timeVars, queue>>
    BY <2>1 DEF Input, Idle, sm_handle_input
  <2>3. env \in Envelopes /\ <<>> \in Seq(FrameType) /\ Len(<<>>) = 0 /\ 1 .. 0 = {}
    BY <2>1, EmptySeq DEF Envelopes
  <2>4. /\ proc' \in {"NONE", "RUNNING", "CALLED"} /\ curState' \in Byte
        /\ timer' \in {"off", "armed"} /\ starts' \in Nat
        /\ frames' \in Seq(FrameType)
        /\ Indexed'
        /\ Bounded'
        /\ \/ timer' = "armed"
           \/ timer' = timer /\ (proc' # "NONE" => proc # "NONE")
    <3> DEFINE below == <<>>
    <3>1. /\ below \in Seq(FrameType) /\ Len(below) = Len(frames) /\ Len(below) = 0
          /\ call_process(below, "input", env)
          /\ \A k \in 1 .. Len(frames) : FrameOK(below[k], k) /\ below[k].tab = frames[k].tab
      BY <2>2, <2>3
    <3> HIDE DEF below
    <3>2. (Len(below) = 2 => proc # "RUNNING") /\ (Len(below) # 0 => ~Resets(env))
      BY <3>1
    <3> QED  BY <1>1, <2>3, <3>1, <3>2, Called
  <2>5. TypeOK'
    BY <1>1, <1>2, <2>2, <2>4 DEF TypeOK, timeVars
  <2>6. Woken'
    BY <1>1, <2>2, <2>4 DEF Woken
  <2> QED  BY <2>4, <2>5, <2>6 DEF IInv
<1>4. CASE \E v \in {0, 1} : WriteControl(v)
  <2>1. /\ frames = <<>> /\ frames' = frames
        /\ UNCHANGED <<inStateSince, relay, timeVars, queue>>
        /\ sm_stop \/ sm_start
    BY <1>4 DEF WriteControl, Idle
  <2>2. \/ proc' = "NONE" /\ timer' \in {"off", "armed"} /\ curState' \in Byte /\ starts' \in Nat
        \/ proc' = "RUNNING" /\ timer' = "armed" /\ curState' \in Byte /\ starts' \in Nat
    <3>1. CASE sm_stop
      BY <1>1, <3>1 DEF sm_stop, TypeOK
    <3>2. CASE sm_start
      BY <1>1, <3>2 DEF sm_start, TypeOK, Byte
    <3> QED  BY <2>1, <3>1, <3>2
  <2>3. TypeOK'
    BY <1>1, <1>2, <2>1, <2>2 DEF TypeOK, timeVars
  <2>4. Indexed' /\ Bounded' /\ Woken'
    BY <1>1, <2>1, <2>2 DEF Indexed, Bounded, Woken
  <2> QED  BY <2>3, <2>4 DEF IInv
<1>5. CASE \E on \in BOOLEAN : WriteSwitch(on)
  <2>1. PICK on \in BOOLEAN : WriteSwitch(on)
    BY <1>5
  <2> DEFINE f == Outside(SwitchTodo(on))
  <2>2. /\ frames = <<>> /\ frames' = <<f>> /\ relay' = on
        /\ UNCHANGED <<proc, curState, inStateSince, timeVars, timer, queue, starts>>
    BY <2>1 DEF WriteSwitch, Idle
  <2>3. SwitchTodo(on) \in Seq(Readings)
    BY MeteredType, EmptySeq DEF SwitchTodo
  <2>4. f \in FrameType /\ f.tab = "outside" /\ FrameOK(f, 1)
    BY <2>3 DEF Outside, FrameType, FrameOK, Envelopes
  <2> HIDE DEF f
  <2>5. /\ frames' \in Seq(FrameType) /\ Len(frames') = 1 /\ frames'[1] = f /\ Len(frames) = 0
    BY <2>2, <2>4
  <2>6. relay' \in BOOLEAN
    BY <2>1, <2>2, Zenon
  <2>7. TypeOK'
    BY <1>1, <1>2, <2>2, <2>5, <2>6 DEF TypeOK, timeVars
  <2>8. Indexed'
    BY <2>4, <2>5 DEF Indexed
  <2>9. Bounded'
    BY <1>1, <2>2, <2>5 DEF Bounded
  <2>10. Woken'
    BY <1>1, <2>2, <2>5 DEF Woken
  <2> QED  BY <2>7, <2>8, <2>9, <2>10 DEF IInv
<1>6. CASE \E ev \in {"UP", "DOWN"} : LinkChange(ev)
  <2>1. PICK ev \in {"UP", "DOWN"} : LinkChange(ev)
    BY <1>6
  <2>2. /\ Len(queue) < QueueSize /\ queue' = Append(queue, ev)
        /\ UNCHANGED <<proc, curState, inStateSince, frames, relay, timeVars, timer, starts>>
    BY <2>1 DEF LinkChange
  <2>3. /\ queue' \in Seq({"TIMER", "UP", "DOWN"}) /\ Len(queue') = Len(queue) + 1
        /\ \A k \in 1 .. Len(queue) : queue'[k] = queue[k]
        /\ Len(queue) \in Nat
    BY <1>1, <2>1, <2>2 DEF TypeOK
  <2>4. TypeOK'
    BY <1>1, <1>2, <2>2, <2>3, QueueAssumption DEF TypeOK, timeVars
  <2>5. Indexed' /\ Bounded'
    BY <1>1, <2>2 DEF Indexed, Bounded
  <2>6. Woken'
    BY <1>1, <2>2, <2>3 DEF Woken
  <2> QED  BY <2>4, <2>5, <2>6 DEF IInv
<1>7. CASE Expire
  <2>2. /\ Len(queue) < QueueSize /\ queue' = Append(queue, "TIMER") /\ timer' = "off"
        /\ UNCHANGED <<proc, curState, inStateSince, frames, relay, timeVars, starts>>
    BY <1>7 DEF Expire
  <2>3. /\ queue' \in Seq({"TIMER", "UP", "DOWN"}) /\ Len(queue') = Len(queue) + 1
        /\ queue'[Len(queue) + 1] = "TIMER"
        /\ Len(queue) \in Nat
    BY <1>1, <2>2 DEF TypeOK
  <2>4. TypeOK'
    BY <1>1, <1>2, <2>2, <2>3, QueueAssumption DEF TypeOK, timeVars
  <2>5. Indexed' /\ Bounded'
    BY <1>1, <2>2 DEF Indexed, Bounded
  <2>6. Woken'
    BY <2>3 DEF Woken
  <2> QED  BY <2>4, <2>5, <2>6 DEF IInv
<1>8. CASE Deliver
  <2> DEFINE ev == Head(queue)
  <2>1. /\ frames = <<>> /\ queue # <<>> /\ queue' = Tail(queue)
        /\ call_process(<<>>, ev, NoEnvelope)
        /\ UNCHANGED <<inStateSince, relay, timeVars>>
    BY <1>8 DEF Deliver, Idle
  <2>2. /\ queue' \in Seq({"TIMER", "UP", "DOWN"}) /\ Len(queue') = Len(queue) - 1
        /\ \A k \in 1 .. Len(queue) : k # 1 => k - 1 \in 1 .. Len(queue') /\ queue'[k - 1] = queue[k]
        /\ Len(queue) \in Nat \ {0}
        /\ ev = queue[1]
    <3>1. queue \in Seq({"TIMER", "UP", "DOWN"}) /\ Len(queue) \in Nat \ {0} /\ ev = queue[1]
      BY <1>1, <2>1, EmptySeq DEF TypeOK
    <3>2. /\ queue' \in Seq({"TIMER", "UP", "DOWN"}) /\ Len(queue') = Len(queue) - 1
          /\ \A i \in 1 .. Len(queue') : queue'[i] = queue[i + 1]
      BY <2>1, <3>1, HeadTailProperties
    <3>3. ASSUME NEW k \in 1 .. Len(queue), k # 1
          PROVE  k - 1 \in 1 .. Len(queue') /\ queue'[k - 1] = queue[k]
      <4>1. k - 1 \in 1 .. Len(queue') /\ (k - 1) + 1 = k
        BY <3>1, <3>2, <3>3
      <4> QED  BY <3>2, <4>1
    <3> QED  BY <3>1, <3>2, <3>3
  <2>3. NoEnvelope \in Envelopes /\ <<>> \in Seq(FrameType) /\ Len(<<>>) = 0 /\ 1 .. 0 = {}
    BY EmptySeq DEF Envelopes
  <2> HIDE DEF ev
  <2>4. /\ proc' \in {"NONE", "RUNNING", "CALLED"} /\ curState' \in Byte
        /\ timer' \in {"off", "armed"} /\ starts' \in Nat
        /\ frames' \in Seq(FrameType)
        /\ Indexed'
        /\ Bounded'
        /\ \/ timer' = "armed"
           \/ timer' = timer /\ (proc' # "NONE" => proc # "NONE")
        /\ ev = "TIMER" /\ proc = "RUNNING" => \E k \in 1 .. Len(frames') : frames'[k].tab = "datetime"
    <3> DEFINE below == <<>>
    <3>1. /\ below \in Seq(FrameType) /\ Len(below) = Len(frames) /\ Len(below) = 0
          /\ call_process(below, ev, NoEnvelope)
          /\ \A k \in 1 .. Len(frames) : FrameOK(below[k], k) /\ below[k].tab = frames[k].tab
      BY <2>1, <2>3
    <3> HIDE DEF below
    <3>2. (Len(below) = 2 => proc # "RUNNING") /\ (Len(below) # 0 => ~Resets(NoEnvelope))
      BY <3>1
    <3> QED  BY <1>1, <2>3, <3>1, <3>2, Called
  <2>5. TypeOK'
    <3>1. Len(queue') <= QueueSize
      BY <1>1, <2>2, QueueAssumption DEF TypeOK
    <3> QED  BY <1>2, <2>1, <2>2, <2>4, <3>1 DEF TypeOK, timeVars
  <2>6. proc # "CALLED"
    BY <1>1, <2>1 DEF Bounded
  <2>7. Woken'
    <3>1. SUFFICES ASSUME proc' # "NONE", timer' # "armed",
                          ~ \E k \in 1 .. Len(frames') : frames'[k].tab = "datetime"
                   PROVE  \E k \in 1 .. Len(queue') : queue'[k] = "TIMER"
      BY DEF Woken
    <3>2. proc = "RUNNING" /\ timer # "armed" /\ ev # "TIMER"
      BY <1>1, <2>4, <2>6, <3>1 DEF TypeOK
    <3>3. PICK k \in 1 .. Len(queue) : queue[k] = "TIMER"
      <4>1. ~ \E j \in 1 .. Len(frames) : frames[j].tab = "datetime"
        BY <2>1
      <4> QED  BY <1>1, <3>2, <4>1 DEF Woken
    <3> QED  BY <2>2, <3>2, <3>3
  <2> QED  BY <2>4, <2>5, <2>7 DEF IInv
<1>9. CASE Tick
  <2>1. /\ now' = (now + 1) % TimestampModulus \/ now' = now
        /\ clock' \in Clocks
        /\ UNCHANGED <<proc, curState, inStateSince, frames, relay, timer, queue, starts>>
    BY <1>9 DEF Tick
  <2>2. dtValid' \in BOOLEAN /\ relay' \in BOOLEAN
    BY <1>2, <1>9, Zenon DEF Tick
  <2>3. now' \in 0 .. TimestampModulus - 1
    BY <1>2, <2>1, ClockAssumption
  <2>4. TypeOK'
    BY <1>1, <2>1, <2>2, <2>3 DEF TypeOK
  <2>5. Indexed' /\ Bounded' /\ Woken'
    BY <1>1, <2>1 DEF Indexed, Bounded, Woken
  <2> QED  BY <2>4, <2>5 DEF IInv
<1> QED  BY <1>3, <1>4, <1>5, <1>6, <1>7, <1>8, <1>9 DEF Outer

LEMMA NextIInv == IInv /\ [Next]_vars => IInv'
<1>1. ASSUME IInv, UNCHANGED vars PROVE IInv'
  <2>1. TypeOK'
    BY <1>1 DEF IInv, TypeOK, vars, timeVars
  <2>2. Indexed' /\ Bounded' /\ Woken'
    BY <1>1 DEF IInv, Indexed, Bounded, Woken, vars
  <2> QED  BY <2>1, <2>2 DEF IInv
<1> QED  BY <1>1, StepIInv, OuterIInv DEF Next

(* The machine, its stack and the event queue stay in their types, for every *)
(* table, whatever the machine writes and whatever arrives.                  *)
THEOREM MachineTypes == Spec => []TypeOK
<1>1. IInv => TypeOK
  BY DEF IInv
<1> QED  BY <1>1, InitIInv, NextIInv, PTL DEF Spec

(* At most two calls are on the stack, for every table: also for machines    *)
(* that restart themselves and are reset by others.                          *)
THEOREM StackIsBounded == Spec => []StackBounded
<1>1. IInv => StackBounded
  BY DEF IInv, Bounded, StackBounded
<1> QED  BY <1>1, InitIInv, NextIInv, PTL DEF Spec

(* A running machine that waits has its timer on the list or in the queue,   *)
(* for every table and queue size: no order of stops, starts, resets and     *)
(* expiries loses the timer.                                                 *)
THEOREM TimerStaysAlive == Spec => []TimerAlive
<1>1. IInv => TimerAlive
  <2> SUFFICES ASSUME IInv, frames = <<>>, proc = "RUNNING"
               PROVE  timer = "armed" \/ \E k \in 1 .. Len(queue) : queue[k] = "TIMER"
    BY DEF TimerAlive, Idle
  <2>1. ~ \E k \in 1 .. Len(frames) : frames[k].tab = "datetime"
    OBVIOUS
  <2> QED  BY <2>1 DEF IInv, Woken
<1> QED  BY <1>1, InitIInv, NextIInv, PTL DEF Spec

-----------------------------------------------------------------------------
(***************************************************************************)
(* Machines that do not start themselves and are not reset by others       *)
(* implement Machine.                                                      *)
(***************************************************************************)
Undisturbed == ~StartsItself /\ \A env \in Inputs : ~Resets(env)

(* The transition a frame is about to commit still leaves the state c, and   *)
(* its write turned out as its action says.                              *)
Due(f, c) == /\ Entries(f.tab)[f.i].from = c
             /\ f.wrote = "bad" <=> Entries(f.tab)[f.i].act \in {"sm_bad", "reject"}

(* One call at a time; none while the process is RUNNING.                    *)
Single ==
  /\ \A j, k \in 1 .. Len(frames) : frames[j].tab # "outside" /\ frames[k].tab # "outside" => j = k
  /\ proc = "RUNNING" => \A k \in 1 .. Len(frames) : frames[k].tab = "outside"
  /\ \A k \in 1 .. Len(frames) :
        frames[k].tab # "outside" /\ proc # "NONE" /\ frames[k].wrote # "no" => Due(frames[k], curState)

Rules == {Table[k] : k \in 1 .. Len(Table)} \cup {DtTable[k] : k \in 1 .. Len(DtTable)}

(* The four kinds of abstract step. *)
LEMMA AbsStutter ==
  ASSUME proc' = "NONE" <=> proc = "NONE", proc # "NONE" => curState' = curState
  PROVE  UNCHANGED M!vars
  BY DEF M!vars

LEMMA AbsStart ==
  ASSUME proc' # "NONE", curState' = 0
  PROVE  M!Next
  BY DEF M!Next, M!Start

LEMMA AbsStop ==
  ASSUME proc' = "NONE"
  PROVE  M!Next
  BY DEF M!Next, M!Stop

LEMMA AbsTake ==
  ASSUME NEW STATE t, t \in Rules, proc # "NONE", proc' # "NONE", curState = t.from,
         curState' = M!Target(t)
  PROVE  M!Next
<1>1. M!Take(t)
  BY DEF M!Take
<1> QED  BY <1>1 DEF M!Next, Rules

(* A call of the process is a stutter or a reset, and keeps calls single.   *)
LEMMA CalledSingle ==
  ASSUME TypeOK, Bounded, Single,
         NEW STATE below, below \in Seq(FrameType), Len(below) = Len(frames),
         \A k \in 1 .. Len(frames) :
            below[k].tab = frames[k].tab /\ below[k].wrote = frames[k].wrote /\ below[k].i = frames[k].i,
         NEW STATE ev, NEW STATE env, env \in Envelopes, ~Resets(env),
         call_process(below, ev, env)
  PROVE  Single' /\ [M!Next]_(M!vars)
<1>0. Len(frames) \in Nat /\ Len(below) \in Nat
  BY LenProperties DEF TypeOK
<1>1. CASE Dropped(below)
  <2>1. frames' = below /\ proc' = proc /\ curState' = curState
    BY <1>1 DEF Dropped
  <2>2. Single'
    BY <1>0, <2>1 DEF Single, Due
  <2>3. UNCHANGED M!vars
    BY <2>1, AbsStutter
  <2> QED  BY <2>2, <2>3
<1>2. ASSUME proc = "RUNNING", proc' # "RUNNING",
             NEW STATE tab, tab \in {"value", "datetime"}, NEW STATE e, e \in Envelopes,
             frames' = Append(below, Call(tab, e))
      PROVE  Single'
  <2> DEFINE n == Len(below) + 1
  <2>1. Call(tab, e) \in FrameType /\ Call(tab, e).wrote = "no"
    BY <1>2, CallType DEF Call
  <2>2. /\ Len(frames') = n
        /\ \A k \in 1 .. Len(below) : frames'[k] = below[k]
        /\ frames'[n] = Call(tab, e)
    BY <1>2, <2>1, Push
  <2>3. \A k \in 1 .. Len(below) : frames'[k].tab = "outside"
    BY <1>2, <2>2 DEF Single
  <2>4. \A k \in 1 .. n : k \in 1 .. Len(below) \/ k = n
    BY <1>0
  <2>5. n \in 1 .. n /\ frames'[n].wrote = "no"
    BY <1>0, <2>1, <2>2
  <2> HIDE DEF n
  <2> QED  BY <1>2, <2>2, <2>3, <2>4, <2>5 DEF Single
<1>3. CASE proc = "RUNNING" /\ OnUp(below) /\ ~SmIdZero
  <2>1. proc' = "CALLED" /\ curState' = 0 /\ frames' = Append(below, Call("value", NoEnvelope))
    BY <1>3 DEF OnUp
  <2>2. NoEnvelope \in Envelopes
    BY DEF Envelopes
  <2>3. Single'
    BY <1>2, <1>3, <2>1, <2>2
  <2> QED  BY <2>1, <2>3, AbsStart
<1>4. CASE proc = "RUNNING" /\ OnTimer(below)
  <2> DEFINE e == [src |-> "clock", eid |-> "none", dtype |-> "datetime", val |-> clock]
  <2>1. proc' = "CALLED" /\ curState' = curState /\ frames' = Append(below, Call("datetime", e))
    BY <1>4 DEF OnTimer
  <2>2. e \in Envelopes
    BY DEF Envelopes, TypeOK
  <2> HIDE DEF e
  <2>3. Single'
    BY <1>2, <1>4, <2>1, <2>2
  <2>4. UNCHANGED M!vars
    BY <1>4, <2>1, AbsStutter
  <2> QED  BY <2>3, <2>4
<1>5. CASE proc = "RUNNING" /\ OnInput(below, env)
  <2>1. proc' = "CALLED" /\ curState' = curState /\ frames' = Append(below, Call("value", env))
    BY <1>5 DEF OnInput
  <2>3. Single'
    BY <1>2, <1>5, <2>1
  <2>4. UNCHANGED M!vars
    BY <1>5, <2>1, AbsStutter
  <2> QED  BY <2>3, <2>4
<1>6. \/ Dropped(below)
      \/ proc = "RUNNING" /\ Dispatch(below, ev, env)
  BY DEF call_process
<1>7. Dispatch(below, ev, env) => OnUp(below) \/ OnTimer(below) \/ OnInput(below, env) \/ Dropped(below)
  BY DEF Dispatch
<1>8. OnUp(below) /\ SmIdZero => Dropped(below)
  BY DEF OnUp
<1> QED  BY <1>1, <1>3, <1>4, <1>5, <1>6, <1>7, <1>8

(* An edit of the innermost frame, whose commit is due once it has written. *)
LEMMA EditSingle ==
  ASSUME IInv, Single, frames # <<>>, Top.tab # "outside",
         NEW STATE f, f \in FrameType, f.tab = Top.tab, frames' = WithTop(f),
         proc' \in {proc, "NONE"},
         f.wrote # "no" /\ proc' # "NONE" => Due(f, curState')
  PROVE  Single'
<1>1. frames \in Seq(FrameType) /\ Len(frames) \in Nat \ {0}
  BY TopType DEF IInv, TypeOK
<1>2. /\ Len(frames') = Len(frames)
      /\ \A k \in 1 .. Len(frames) : frames'[k] = IF k = Len(frames) THEN f ELSE frames[k]
  BY <1>1, Edit DEF WithTop
<1>3. \A k \in 1 .. Len(frames) : frames'[k].tab = frames[k].tab
  BY <1>2 DEF Top
<1>4. Len(frames) \in 1 .. Len(frames) /\ frames[Len(frames)].tab # "outside"
  BY <1>1 DEF Top
<1>5. \A j, k \in 1 .. Len(frames') :
         frames'[j].tab # "outside" /\ frames'[k].tab # "outside" => j = k
  BY <1>2, <1>3 DEF Single
<1>6. proc' # "RUNNING"
  BY <1>4 DEF Single
<1>7. ASSUME NEW k \in 1 .. Len(frames'), frames'[k].tab # "outside", proc' # "NONE", frames'[k].wrote # "no"
      PROVE  Due(frames'[k], curState')
  <2>1. k = Len(frames)
    BY <1>2, <1>3, <1>4, <1>7 DEF Single
  <2>2. frames'[k] = f
    BY <1>2, <1>4, <2>1
  <2> QED  BY <1>7, <2>2
<1> QED  BY <1>5, <1>6, <1>7 DEF Single

LEMMA NotStarted ==
  ASSUME Undisturbed, NEW STATE t, t \in Rules
  PROVE  t.act # "sm_start"
  BY DEF Undisturbed, StartsItself, Rules

LEMMA StepSingle ==
  ASSUME Undisturbed, IInv, Single, Step
  PROVE  Single' /\ [M!Next]_(M!vars)
<1>1. TypeOK /\ Indexed /\ Bounded
  BY DEF IInv
<1>2. frames # <<>>
  BY DEF Step, Skip, Move, Act, Broadcast, Commit, Exhausted, Switched, Scanning, InBroadcast, Finished
<1>3. Top \in FrameType /\ Len(frames) \in Nat \ {0} /\ FrameOK(Top, Len(frames)) /\ Top = frames[Len(frames)]
  <2>1. Top \in FrameType /\ Len(frames) \in Nat \ {0}
    BY <1>1, <1>2, TopType
  <2> QED  BY <1>1, <2>1 DEF Indexed, Top
<1>4. Top.tab # "outside" => proc # "RUNNING"
  BY <1>3 DEF Single
<1>5. proc \in {"NONE", "RUNNING", "CALLED"}
  BY <1>1 DEF TypeOK
<1>6. CASE Skip
  <2> DEFINE f == [Top EXCEPT !.i = @ + 1]
  <2>1. Scanning /\ frames' = WithTop(f) /\ proc' = proc /\ curState' = curState
    BY <1>6 DEF Skip
  <2>2. f \in FrameType /\ f.tab = Top.tab /\ f.wrote = "no" /\ Top.tab # "outside"
    BY <1>3, <2>1 DEF FrameType, Scanning
  <2> HIDE DEF f
  <2>3. Single'
    BY <1>2, <2>1, <2>2, EditSingle
  <2>4. UNCHANGED M!vars
    BY <2>1, AbsStutter
  <2> QED  BY <2>3, <2>4
<1>7. CASE Move
  <2> DEFINE f == [Top EXCEPT !.i = @ + 1]
  <2>1. /\ Scanning /\ frames' = WithTop(f) /\ proc' = proc /\ Top.i <= Len(Entries(Top.tab))
        /\ Entry.from = curState /\ Entry.act = "none" /\ curState' = Entry.good
    BY <1>7 DEF Move, Matches
  <2>2. f \in FrameType /\ f.tab = Top.tab /\ f.wrote = "no" /\ Top.tab # "outside"
    BY <1>3, <2>1 DEF FrameType, Scanning
  <2> HIDE DEF f
  <2>3. Single'
    BY <1>2, <2>1, <2>2, EditSingle
  <2>4. Entry \in Rules
    BY <1>1, <1>2, <2>1, EntryType DEF Rules
  <2>5. curState' = M!Target(Entry)
    BY <2>1 DEF M!Target
  <2>6. CASE proc # "NONE"
    BY <2>1, <2>3, <2>4, <2>5, <2>6, AbsTake
  <2>7. CASE proc = "NONE"
    BY <2>1, <2>3, <2>7, AbsStutter
  <2> QED  BY <2>6, <2>7
<1>8. CASE Act
  <2>1. /\ Scanning /\ Top.i <= Len(Entries(Top.tab)) /\ Write(Entry.act) /\ Entry.from = curState
    BY <1>8 DEF Act, Matches
  <2>2. Top.tab # "outside" /\ Top.wrote = "no" /\ Top.todo = <<>>
    BY <1>3, <2>1 DEF Scanning, FrameOK
  <2>3. Entry \in Rules
    BY <1>1, <1>2, <2>1, EntryType DEF Rules
  <2>4. Entry.act # "sm_start"
    BY <2>3, NotStarted
  <2>5. ASSUME NEW w \in {"good", "bad"}, NEW todo \in Seq(Readings),
               frames' = WithTop([Top EXCEPT !.wrote = w, !.todo = todo]),
               w = "bad" <=> Entry.act \in {"sm_bad", "reject"},
               \/ proc' = proc /\ curState' = curState
               \/ proc' = "NONE"
        PROVE  Single' /\ [M!Next]_(M!vars)
    <3> DEFINE f == [Top EXCEPT !.wrote = w, !.todo = todo]
    <3>1. f \in FrameType /\ f.tab = Top.tab /\ f.wrote = w /\ f.i = Top.i
      BY <1>3 DEF FrameType
    <3>2. frames' = WithTop(f)
      BY <2>5
    <3> HIDE DEF f
    <3>3. proc' # "NONE" => Due(f, curState')
      BY <2>1, <2>5, <3>1 DEF Due, Entry
    <3>4. Single'
      BY <1>2, <2>2, <2>5, <3>1, <3>2, <3>3, EditSingle
    <3>5. CASE proc' = "NONE"
      BY <3>4, <3>5, AbsStop
    <3>6. CASE proc' # "NONE"
      <4>1. proc' = proc /\ curState' = curState
        BY <2>5, <3>6
      <4>2. UNCHANGED M!vars
        BY <4>1, AbsStutter
      <4> QED  BY <3>4, <4>2
    <3> QED  BY <3>5, <3>6
  <2>6. <<>> \in Seq(Readings) /\ Metered \in Seq(Readings)
    BY MeteredType, EmptySeq
  <2>7. /\ [Top EXCEPT !.wrote = "good"] = [Top EXCEPT !.wrote = "good", !.todo = <<>>]
        /\ [Top EXCEPT !.wrote = "bad"] = [Top EXCEPT !.wrote = "bad", !.todo = <<>>]
    BY <1>3, <2>2 DEF FrameType
  <2>8. CASE /\ Entry.act \in {"relay_on", "relay_off"}
             /\ frames' = WithTop([Top EXCEPT !.wrote = "good", !.todo = SwitchTodo(Entry.act = "relay_on")])
             /\ UNCHANGED <<proc, curState, timer, starts>>
    <3>1. SwitchTodo(Entry.act = "relay_on") \in Seq(Readings)
      BY <2>6 DEF SwitchTodo
    <3> QED  BY <2>5, <2>8, <3>1
  <2>9. CASE Entry.act = "sm_stop" /\ sm_stop /\ frames' = WithTop([Top EXCEPT !.wrote = "good"])
    <3>1. proc' = "NONE"
      BY <2>9 DEF sm_stop
    <3> QED  BY <2>5, <2>6, <2>7, <2>9, <3>1
  <2>10. CASE /\ Entry.act \in {"sm_bad", "reject"}
              /\ frames' = WithTop([Top EXCEPT !.wrote = "bad"])
              /\ UNCHANGED <<relay, proc, curState, timer, starts>>
    BY <2>5, <2>6, <2>7, <2>10
  <2> QED  BY <2>1, <2>4, <2>8, <2>9, <2>10 DEF Write
<1>9. CASE Broadcast
  <2> DEFINE f == [Top EXCEPT !.todo = Tail(@)]
             g == WithTop(f)
             e == Head(Top.todo)
  <2>1. Top.todo # <<>> /\ sm_handle_input(g, e)
    BY <1>9 DEF Broadcast, InBroadcast
  <2>2. e \in Readings /\ Tail(Top.todo) \in Seq(Readings)
    BY <1>3, <2>1, Rest DEF FrameType
  <2>3. f \in FrameType /\ f.tab = Top.tab /\ f.wrote = Top.wrote /\ f.i = Top.i
    BY <1>3, <2>2 DEF FrameType
  <2>4. e \in Envelopes /\ ~Resets(e)
    BY <2>2, ReadingsOwn DEF Envelopes, Resets
  <2> HIDE DEF f
  <2>5. frames \in Seq(FrameType)
    BY <1>1 DEF TypeOK
  <2>6. /\ g \in Seq(FrameType)
        /\ Len(g) = Len(frames)
        /\ \A k \in 1 .. Len(frames) : g[k] = IF k = Len(frames) THEN f ELSE frames[k]
    BY <1>2, <2>3, <2>5, Edit DEF WithTop
  <2>7. \A k \in 1 .. Len(frames) :
           g[k].tab = frames[k].tab /\ g[k].wrote = frames[k].wrote /\ g[k].i = frames[k].i
    BY <1>3, <2>3, <2>6
  <2>8. call_process(g, "input", e)
    BY <2>1 DEF sm_handle_input
  <2> HIDE DEF g, e
  <2> QED  BY <1>1, <2>4, <2>6, <2>7, <2>8, CalledSingle
<1>10. /\ Len(Below) = Len(frames) - 1
       /\ \A k \in 1 .. Len(frames) - 1 : Below[k] = frames[k]
  BY <1>1, <1>2, Pop DEF TypeOK, Below
<1>11. ASSUME frames' = Below, Top.tab # "outside", proc' = IF proc = "NONE" THEN "NONE" ELSE "RUNNING"
       PROVE  Single'
  <2>1. \A k \in 1 .. Len(frames') : frames'[k].tab = "outside"
    BY <1>3, <1>10, <1>11 DEF Single
  <2> QED  BY <2>1 DEF Single
<1>12. CASE Commit
  <2>1. /\ Finished /\ Top.tab # "outside" /\ frames' = Below
        /\ proc' = IF proc = "NONE" THEN "NONE" ELSE "RUNNING"
        /\ curState' = IF Top.wrote = "good" THEN Entry.good ELSE Entry.bad
    BY <1>12 DEF Commit, Return
  <2>2. Single'
    BY <1>11, <2>1
  <2>3. Top.i <= Len(Entries(Top.tab)) /\ Top.wrote \in {"good", "bad"}
    BY <1>3, <2>1 DEF FrameOK, Finished, FrameType
  <2>4. Entry \in Rules
    BY <1>1, <1>2, <2>3, EntryType DEF Rules
  <2>5. CASE proc = "NONE"
    <3>1. UNCHANGED M!vars
      BY <2>1, <2>5, AbsStutter
    <3> QED  BY <2>2, <3>1
  <2>6. CASE proc # "NONE"
    <3>1. Due(Top, curState)
      BY <1>3, <2>1, <2>3, <2>6 DEF Single
    <3>2. Entry.from = curState /\ curState' = M!Target(Entry)
      BY <2>1, <2>3, <3>1 DEF Due, Entry, M!Target
    <3>3. proc' # "NONE"
      BY <2>1, <2>6
    <3> QED  BY <2>2, <2>4, <2>6, <3>2, <3>3, AbsTake
  <2> QED  BY <2>5, <2>6
<1>13. CASE Exhausted
  <2>1. /\ Top.tab # "outside" /\ frames' = Below /\ curState' = curState
        /\ proc' = IF proc = "NONE" THEN "NONE" ELSE "RUNNING"
    BY <1>13 DEF Exhausted, Return, Scanning
  <2>2. Single'
    BY <1>11, <2>1
  <2>3. UNCHANGED M!vars
    BY <2>1, AbsStutter
  <2> QED  BY <2>2, <2>3
<1>14. CASE Switched
  <2>1. frames' = Below /\ proc' = proc /\ curState' = curState
    BY <1>14 DEF Switched
  <2>2. Single'
    BY <1>3, <1>10, <2>1 DEF Single
  <2>3. UNCHANGED M!vars
    BY <2>1, AbsStutter
  <2> QED  BY <2>2, <2>3
<1> QED  BY <1>6, <1>7, <1>8, <1>9, <1>12, <1>13, <1>14 DEF Step

LEMMA OuterSingle ==
  ASSUME Undisturbed, IInv, Single, Outer
  PROVE  Single' /\ [M!Next]_(M!vars)
<1>1. TypeOK /\ Bounded
  BY DEF IInv
<1>2. ASSUME frames = <<>>, NEW STATE ev, NEW STATE env, env \in Envelopes, ~Resets(env),
             call_process(<<>>, ev, env)
      PROVE  Single' /\ [M!Next]_(M!vars)
  <2> DEFINE below == <<>>
  <2>1. /\ below \in Seq(FrameType) /\ Len(below) = Len(frames) /\ call_process(below, ev, env)
        /\ \A k \in 1 .. Len(frames) :
             below[k].tab = frames[k].tab /\ below[k].wrote = frames[k].wrote /\ below[k].i = frames[k].i
    BY <1>2, EmptySeq
  <2> HIDE DEF below
  <2> QED  BY <1>1, <1>2, <2>1, CalledSingle
<1>3. CASE \E env \in Inputs : Input(env)
  <2>1. PICK env \in Inputs : Input(env)
    BY <1>3
  <2>2. frames = <<>> /\ call_process(<<>>, "input", env)
    BY <2>1 DEF Input, Idle, sm_handle_input
  <2>3. env \in Envelopes /\ ~Resets(env)
    BY <2>1 DEF Envelopes, Undisturbed
  <2> QED  BY <1>2, <2>2, <2>3
<1>4. CASE \E v \in {0, 1} : WriteControl(v)
  <2>1. frames = <<>> /\ frames' = <<>> /\ (sm_stop \/ sm_start)
    BY <1>4 DEF WriteControl, Idle
  <2>2. Single'
    BY <2>1 DEF Single
  <2>3. CASE sm_stop
    BY <2>2, <2>3, AbsStop DEF sm_stop
  <2>4. CASE sm_start
    BY <2>2, <2>4, AbsStart DEF sm_start
  <2> QED  BY <2>1, <2>3, <2>4
<1>5. CASE \E on \in BOOLEAN : WriteSwitch(on)
  <2>1. PICK on \in BOOLEAN : WriteSwitch(on)
    BY <1>5
  <2> DEFINE f == Outside(SwitchTodo(on))
  <2>2. frames' = <<f>> /\ proc' = proc /\ curState' = curState /\ f.tab = "outside"
    BY <2>1 DEF WriteSwitch, Outside
  <2> HIDE DEF f
  <2>3. Len(frames') = 1 /\ frames'[1] = f
    BY <2>2
  <2>4. Single'
    BY <2>2, <2>3 DEF Single
  <2>5. UNCHANGED M!vars
    BY <2>2, AbsStutter
  <2> QED  BY <2>4, <2>5
<1>6. CASE (\E ev \in {"UP", "DOWN"} : LinkChange(ev)) \/ Expire \/ Tick
  <2>1. frames' = frames /\ proc' = proc /\ curState' = curState
    BY <1>6 DEF LinkChange, Expire, Tick
  <2>2. Single'
    BY <2>1 DEF Single, Due
  <2>3. UNCHANGED M!vars
    BY <2>1, AbsStutter
  <2> QED  BY <2>2, <2>3
<1>7. CASE Deliver
  <2> DEFINE ev == Head(queue)
  <2>1. frames = <<>> /\ call_process(<<>>, ev, NoEnvelope)
    BY <1>7 DEF Deliver, Idle
  <2>2. NoEnvelope \in Envelopes /\ ~Resets(NoEnvelope)
    BY DEF Envelopes, Resets, NoEnvelope
  <2> HIDE DEF ev
  <2> QED  BY <1>2, <2>1, <2>2
<1> QED  BY <1>3, <1>4, <1>5, <1>6, <1>7 DEF Outer

(* A machine that does not start itself and that no Reset-ID restarts is     *)
(* never called while it is being called, whatever its tables switch and     *)
(* whatever the relay's readings wake.                                       *)
THEOREM OneCallAtATime ==
  ASSUME Undisturbed
  PROVE  Spec => []NotReentered
<1>1. Init => Single
  BY DEF Init, Single
<1>2. IInv /\ Single /\ [Next]_vars => Single'
  <2>1. ASSUME UNCHANGED vars, Single PROVE Single'
    BY <2>1 DEF Single, Due, vars
  <2> QED  BY <2>1, StepSingle, OuterSingle DEF Next
<1>3. Single => NotReentered
  BY DEF Single, NotReentered, Calls
<1> QED  BY <1>1, <1>2, <1>3, InitIInv, NextIInv, PTL DEF Spec

(* Such a machine follows its table: every change of its state is a reset    *)
(* to 0 or a transition that leaves the state it is in, and ends where its   *)
(* write says.                                                               *)
THEOREM FollowsTable ==
  ASSUME Undisturbed
  PROVE  Spec => Implements
<1>1. Init => Single
  BY DEF Init, Single
<1>2. IInv /\ Single /\ [Next]_vars => Single'
  <2>1. ASSUME UNCHANGED vars, Single PROVE Single'
    BY <2>1 DEF Single, Due, vars
  <2> QED  BY <2>1, StepSingle, OuterSingle DEF Next
<1>3. Init => M!Init
  BY DEF Init, M!Init
<1>4. IInv /\ Single /\ [Next]_vars => [M!Next]_(M!vars)
  <2>1. ASSUME UNCHANGED vars PROVE UNCHANGED M!vars
    BY <2>1 DEF vars, M!vars
  <2> QED  BY <2>1, StepSingle, OuterSingle DEF Next
<1> QED  BY <1>1, <1>2, <1>3, <1>4, InitIInv, NextIInv, PTL DEF Spec, Implements, M!Spec
=============================================================================
