----------------------------- MODULE SensorLog ------------------------------
(***************************************************************************)
(* What a logger promises: a reading of a sensor that is known is saved; a *)
(* reading of one that is not waits.  When the sensor becomes known, all   *)
(* readings that wait for it are saved behind the earlier ones (those the  *)
(* store refuses excepted), or they are dropped together.                  *)
(***************************************************************************)
EXTENDS Naturals, Sequences

CONSTANTS
  Sensors,
  Readings  \* numbers, in the order of time

VARIABLES
  known,    \* sensors of the store
  waiting,  \* sensor -> readings that wait for it
  saved     \* sensor -> readings in the store, in their order

Init ==
  /\ known = {}
  /\ waiting = [s \in Sensors |-> {}]
  /\ saved = [s \in Sensors |-> <<>>]

(* The sequence new is old with the readings N behind it, in the order of    *)
(* time.                                                                     *)
Appended(old, new, N) ==
  LET behind == Len(old) + 1 .. Len(new)
  IN  /\ Len(old) <= Len(new)
      /\ \A k \in 1 .. Len(old) : new[k] = old[k]
      /\ {new[k] : k \in behind} = N
      /\ \A j, k \in behind : j < k => new[j] < new[k]

(* Of the readings that are to be saved for each sensor, the store takes     *)
(* some.                                                                     *)
Save(readings) ==
  /\ saved' \in [Sensors -> Seq(Readings)]
  /\ \A s \in Sensors : \E N \in SUBSET readings[s] : Appended(saved[s], saved'[s], N)

Accept(s, n) ==
  /\ \A m \in waiting[s] : m < n
  /\ \A k \in 1 .. Len(saved[s]) : saved[s][k] < n
  /\ \/ /\ s \in known
        /\ Save([t \in Sensors |-> IF t = s THEN {n} ELSE {}])
        /\ UNCHANGED <<known, waiting>>
     \/ /\ s \notin known
        /\ waiting' = [waiting EXCEPT ![s] = @ \cup {n}]
        /\ UNCHANGED <<known, saved>>

(* Several sensors of one device become known at once. *)
Learn(S) ==
  /\ S \cap known = {}
  /\ known' = known \cup S
  /\ Save([s \in Sensors |-> IF s \in S THEN waiting[s] ELSE {}])
  /\ waiting' = [s \in Sensors |-> IF s \in S THEN {} ELSE waiting[s]]

Drop(S) ==
  /\ waiting' = [s \in Sensors |-> IF s \in S THEN {} ELSE waiting[s]]
  /\ UNCHANGED <<known, saved>>

Next ==
  \/ \E s \in Sensors, n \in Readings : Accept(s, n)
  \/ \E S \in SUBSET Sensors : Learn(S) \/ Drop(S)

Spec == Init /\ [][Next]_<<known, waiting, saved>>
=============================================================================
