---------------------------- MODULE LoggerProofs ----------------------------
(***************************************************************************)
(* Proofs about hexalog, for any number of sensors, devices and readings:  *)
(* the logger and the interrogator agree on who is asked, the shared timer *)
(* forgets no query, no sensor is added twice, and the logger implements   *)
(* SensorLog.                                                              *)
(***************************************************************************)
EXTENDS Logger, InterrogatorProofs

-----------------------------------------------------------------------------
(***************************************************************************)
(* Readings in the order of time.                                          *)
(***************************************************************************)

(* The sequence r lists the readings N in their order. *)
Lists(r, N) == r \in [1 .. Cardinality(N) -> N] /\ \A j, k \in DOMAIN r : j < k => r[j] < r[k]

(* A list of all but the first is made one of all. *)
LEMMA ListsOneMore ==
  ASSUME NEW D, D \subseteq Nat, IsFiniteSet(D), NEW x \in D, \A y \in D : x <= y,
         NEW r, Lists(r, D \ {x})
  PROVE  \E t : Lists(t, D)
<1>1. PICK n : n = Cardinality(D)
  OBVIOUS
<1>2. n \in Nat /\ n # 0 /\ Cardinality(D \ {x}) = n - 1
  BY <1>1, FS_CardinalityType, FS_RemoveElement, FS_EmptySet
<1>3. r \in [1 .. n - 1 -> D \ {x}] /\ \A j, k \in 1 .. n - 1 : j < k => r[j] < r[k]
  BY <1>2 DEF Lists
<1>4. PICK t : t = [k \in 1 .. n |-> IF k = 1 THEN x ELSE r[k - 1]]
  OBVIOUS
<1>5. \A k \in 1 .. n : k # 1 => k - 1 \in 1 .. n - 1
  BY <1>2
<1>6. t \in [1 .. n -> D]
  BY <1>3, <1>4, <1>5
<1>7. ASSUME NEW j \in 1 .. n, NEW k \in 1 .. n, j < k
      PROVE  t[j] < t[k]
  <2>1. k # 1 /\ k - 1 \in 1 .. n - 1 /\ t[k] = r[k - 1]
    BY <1>2, <1>4, <1>5, <1>7
  <2>2. CASE j = 1
    <3>1. t[j] = x /\ r[k - 1] \in D \ {x}
      BY <1>3, <1>4, <2>1, <2>2
    <3>2. x \in Nat /\ r[k - 1] \in Nat /\ x <= r[k - 1] /\ x # r[k - 1]
      BY <3>1
    <3>3. QED
      BY <2>1, <3>1, <3>2
  <2>3. CASE j # 1
    <3>1. j - 1 \in 1 .. n - 1 /\ t[j] = r[j - 1] /\ j - 1 < k - 1
      BY <1>2, <1>4, <1>5, <1>7, <2>3
    <3>2. QED
      BY <1>3, <2>1, <3>1
  <2>4. QED
    BY <2>2, <2>3
<1>8. Lists(t, D)
  BY <1>1, <1>6, <1>7 DEF Lists
<1>9. QED
  BY <1>8

(* Readings that can be counted can be listed: a smallest set of which this  *)
(* were false would not be empty, and not be without its first reading.      *)
LEMMA ListExists ==
  ASSUME NEW N, N \subseteq Nat, IsFiniteSet(N)
  PROVE  \E r : Lists(r, N)
<1> DEFINE Bad(D) == ~\E r : Lists(r, D)
           Sizes == {Cardinality(D) : D \in {E \in SUBSET N : Bad(E)}}
<1>1. ASSUME NEW D \in SUBSET N
      PROVE  IsFiniteSet(D) /\ Cardinality(D) \in Nat
  BY FS_Subset, FS_CardinalityType
<1> HIDE DEF Bad
<1>2. Sizes = {}
  <2> SUFFICES ASSUME Sizes # {} PROVE FALSE
    OBVIOUS
  <2>1. Sizes \subseteq Nat
    BY <1>1
  <2>2. PICK n \in Sizes : \A m \in Sizes : n <= m
    BY <2>1, LeastNumber
  <2>3. PICK D \in SUBSET N : Bad(D) /\ Cardinality(D) = n
    BY <2>2
  <2>4. D # {}
    <3> SUFFICES ASSUME D = {} PROVE FALSE
      OBVIOUS
    <3>1. Cardinality(D) = 0
      BY FS_EmptySet
    <3>2. [k \in 1 .. 0 |-> 0] \in [1 .. Cardinality(D) -> D]
      BY <3>1
    <3>3. Lists([k \in 1 .. 0 |-> 0], D)
      BY <3>2 DEF Lists
    <3>4. QED
      BY <2>3, <3>3 DEF Bad
  <2>5. PICK x \in D : \A y \in D : x <= y
    BY <2>4, LeastNumber
  <2>6. ~Bad(D \ {x})
    <3> SUFFICES ASSUME Bad(D \ {x}) PROVE FALSE
      OBVIOUS
    <3>1. Cardinality(D \ {x}) \in Sizes
      OBVIOUS
    <3>2. Cardinality(D \ {x}) = n - 1
      BY <1>1, <2>3, FS_RemoveElement
    <3>3. n \in Nat
      BY <2>1
    <3>4. QED
      BY <2>2, <3>1, <3>2, <3>3
  <2>7. ~Bad(D)
    <3>1. PICK r : Lists(r, D \ {x})
      BY <2>6 DEF Bad
    <3>2. D \subseteq Nat /\ IsFiniteSet(D)
      BY <1>1
    <3>3. QED
      BY <2>5, <3>1, <3>2, ListsOneMore DEF Bad
  <2>8. QED
    BY <2>3, <2>7
<1>3. ~Bad(N)
  BY <1>2
<1>4. QED
  BY <1>3 DEF Bad

(* InOrder is such a list, and leaves no reading out. *)
LEMMA InOrderLists ==
  ASSUME NEW N, N \subseteq Nat, IsFiniteSet(N)
  PROVE  /\ InOrder(N) \in Seq(N) /\ Len(InOrder(N)) = Cardinality(N)
         /\ \A x \in N : \E k \in 1 .. Cardinality(N) : InOrder(N)[k] = x
         /\ \A j, k \in 1 .. Cardinality(N) : j < k => InOrder(N)[j] < InOrder(N)[k]
<1>1. \E r \in [1 .. Cardinality(N) -> N] : \A j, k \in DOMAIN r : j < k => r[j] < r[k]
  BY ListExists DEF Lists
<1>2. PICK r : r = InOrder(N)
  OBVIOUS
<1>3. Lists(r, N)
  BY <1>1, <1>2 DEF InOrder, Lists
<1>4. Cardinality(N) \in Nat
  BY FS_CardinalityType
<1>5. r \in [1 .. Cardinality(N) -> N] /\ \A j, k \in 1 .. Cardinality(N) : j < k => r[j] < r[k]
  BY <1>3 DEF Lists
<1>6. r \in Seq(N) /\ Len(r) = Cardinality(N)
  BY <1>4, <1>5
<1>7. r \in Injection(1 .. Cardinality(N), N)
  <2>1. ASSUME NEW j \in 1 .. Cardinality(N), NEW k \in 1 .. Cardinality(N), r[j] = r[k]
        PROVE  j = k
    <3>1. r[j] \in Nat /\ r[k] \in Nat
      BY <1>5
    <3>2. QED
      BY <1>4, <1>5, <2>1, <3>1
  <2>2. QED
    BY <1>5, <2>1 DEF Injection, IsInjective
<1>8. IsFiniteSet(1 .. Cardinality(N)) /\ Cardinality(1 .. Cardinality(N)) = Cardinality(N)
  BY <1>4, FS_Interval
<1>9. r \in Surjection(1 .. Cardinality(N), N)
  BY <1>7, <1>8, FS_Injection
<1>10. QED
  BY <1>2, <1>5, <1>6, <1>9 DEF Surjection

(* A sequence of some of them is a sequence of them all. *)
LEMMA WiderSeq ==
  ASSUME NEW S, NEW T, S \subseteq T, NEW q \in Seq(S)
  PROVE  q \in Seq(T)
<1>1. Len(q) \in Nat /\ q \in [1 .. Len(q) -> S]
  OBVIOUS
<1>2. q \in [1 .. Len(q) -> T]
  BY <1>1
<1>3. QED
  BY <1>1, <1>2

(* The elements of a sequence. *)
LEMMA SeqElements ==
  ASSUME NEW S, NEW q \in Seq(S)
  PROVE  \A k \in 1 .. Len(q) : q[k] \in S
OBVIOUS

(* Readings that are appended in order. *)
LEMMA AppendInOrder ==
  ASSUME NEW C \in Nat, NEW old \in Seq(1 .. C), NEW N \in SUBSET (1 .. C)
  PROVE  old \o InOrder(N) \in Seq(1 .. C) /\ Log!Appended(old, old \o InOrder(N), N)
<1>1. N \subseteq Nat /\ IsFiniteSet(N)
  <2>1. N \in SUBSET Nat /\ \A x \in N : x <= C
    OBVIOUS
  <2>2. QED
    BY <2>1, FS_BoundedSetOfNaturals
<1>2. PICK r, n : r = InOrder(N) /\ n = Cardinality(N)
  OBVIOUS
<1>3. /\ r \in Seq(N) /\ Len(r) = n /\ n \in Nat
      /\ \A x \in N : \E k \in 1 .. n : r[k] = x
      /\ \A j, k \in 1 .. n : j < k => r[j] < r[k]
  BY <1>1, <1>2, InOrderLists, FS_CardinalityType
<1>4. PICK new : new = old \o r
  OBVIOUS
<1>5. Len(old) \in Nat /\ r \in Seq(1 .. C)
  <2>1. N \subseteq 1 .. C
    OBVIOUS
  <2>2. r \in Seq(1 .. C)
    BY <1>3, <2>1, WiderSeq
  <2>3. QED
    BY <2>2
<1>6. new \in Seq(1 .. C) /\ Len(new) = Len(old) + n
  <2>1. new \in Seq(1 .. C)
    BY <1>4, <1>5
  <2>2. Len(new) = Len(old) + Len(r)
    BY <1>4, <1>5
  <2>3. QED
    BY <1>3, <2>1, <2>2
<1>7. \A k \in 1 .. Len(old) : new[k] = old[k]
  BY <1>3, <1>4, <1>5
<1>8. \A k \in Len(old) + 1 .. Len(new) : k - Len(old) \in 1 .. n /\ new[k] = r[k - Len(old)]
  BY <1>3, <1>4, <1>5, <1>6
<1>9. {new[k] : k \in Len(old) + 1 .. Len(new)} = N
  <2>1. \A k \in Len(old) + 1 .. Len(new) : new[k] \in N
    BY <1>3, <1>8
  <2>2. ASSUME NEW x \in N
        PROVE  \E k \in Len(old) + 1 .. Len(new) : new[k] = x
    <3>1. PICK k \in 1 .. n : r[k] = x
      BY <1>3
    <3>2. Len(old) + k \in Len(old) + 1 .. Len(new) /\ Len(old) + k - Len(old) = k
      BY <1>3, <1>5, <1>6
    <3>3. new[Len(old) + k] = r[Len(old) + k - Len(old)]
      BY <1>8, <3>2
    <3>4. new[Len(old) + k] = x
      BY <3>1, <3>2, <3>3
    <3>5. QED
      BY <3>2, <3>4
  <2>3. QED
    BY <2>1, <2>2
<1>10. \A j, k \in Len(old) + 1 .. Len(new) : j < k => new[j] < new[k]
  <2> SUFFICES ASSUME NEW j \in Len(old) + 1 .. Len(new), NEW k \in Len(old) + 1 .. Len(new), j < k
               PROVE  r[j - Len(old)] < r[k - Len(old)]
    BY <1>8
  <2>1. j - Len(old) < k - Len(old)
    BY <1>5, <1>6
  <2>2. QED
    BY <1>3, <1>8, <2>1
<1>11. Len(old) <= Len(new)
  BY <1>3, <1>5, <1>6
<1>12. Log!Appended(old, new, N)
  BY <1>7, <1>9, <1>10, <1>11 DEF Log!Appended
<1>13. QED
  BY <1>2, <1>4, <1>6, <1>12

(* Nothing is appended. *)
LEMMA AppendNothing ==
  ASSUME NEW T, NEW old \in Seq(T)
  PROVE  Log!Appended(old, old, {})
<1>1. Len(old) \in Nat /\ Len(old) + 1 .. Len(old) = {} /\ Len(old) <= Len(old)
  OBVIOUS
<1>2. QED
  BY <1>1 DEF Log!Appended

(* What the store takes is saved behind what it has. *)
LEMMA RecordKeeps ==
  ASSUME NEW bound \in [Sensors -> Nat], NEW kept, record_readings(kept),
         \A s \in Sensors : saved[s] \in Seq(1 .. bound[s]),
         \A s \in DOMAIN kept : kept[s] \in SUBSET (1 .. bound[s])
  PROVE  /\ saved' = [s \in Sensors |-> saved'[s]]
         /\ \A s \in Sensors :
              /\ saved'[s] \in Seq(1 .. bound[s])
              /\ s \in DOMAIN kept => Log!Appended(saved[s], saved'[s], kept[s])
              /\ s \notin DOMAIN kept => saved'[s] = saved[s]
<1>1. /\ saved' = [s \in Sensors |-> saved'[s]]
      /\ \A s \in Sensors :
           /\ s \in DOMAIN kept => saved'[s] = saved[s] \o InOrder(kept[s])
           /\ s \notin DOMAIN kept => saved'[s] = saved[s]
  BY DEF record_readings
<1>2. ASSUME NEW s \in Sensors, s \in DOMAIN kept
      PROVE  saved'[s] \in Seq(1 .. bound[s]) /\ Log!Appended(saved[s], saved'[s], kept[s])
  <2>1. bound[s] \in Nat /\ saved[s] \in Seq(1 .. bound[s]) /\ kept[s] \in SUBSET (1 .. bound[s])
    BY <1>2
  <2>2. QED
    BY <1>1, <1>2, <2>1, AppendInOrder
<1>3. QED
  BY <1>1, <1>2

-----------------------------------------------------------------------------
(***************************************************************************)
(* The inductive invariant.                                                *)
(***************************************************************************)

(* A query that could not be sent leaves a backlog behind. *)
Asked == AskedWhileWaiting /\ refused \subseteq Waiting

(* A sensor that is asked for is not in the store, one in the cache is. *)
Once ==
  /\ AddedOnce
  /\ \A s \in Waiting : added[s] = 0
  /\ \A s \in sensor_cache : added[s] > 0

(* Only what was received waits or is saved. *)
Received ==
  /\ \A s \in Waiting : new_sensor_backlog[s] \subseteq 1 .. count[s]
  /\ \A s \in Sensors : saved[s] \in Seq(1 .. count[s])

Inv == TypeOK /\ Types /\ TimerInv /\ Asked /\ Once /\ Received

(* What the logger keeps besides its queries. *)
StoreOK ==
  /\ count \in [Sensors -> Nat] /\ \A s \in Sensors : count[s] <= MaxReadings[s]
  /\ Waiting \subseteq Sensors
  /\ new_sensor_backlog = [s \in Waiting |-> new_sensor_backlog[s]]
  /\ sensor_cache \subseteq Sensors
  /\ added \in [Sensors -> Nat]
  /\ saved = [s \in Sensors |-> saved[s]]
  /\ refused \subseteq Sensors

(* Numbers that are no greater than the count are readings. *)
LEMMA CountedAreReadings ==
  ASSUME count \in [Sensors -> Nat], \A s \in Sensors : count[s] <= MaxReadings[s], NEW s \in Sensors
  PROVE  1 .. count[s] \subseteq Readings
<1>1. MaxReadings[s] \in Nat /\ count[s] \in Nat /\ count[s] <= MaxReadings[s]
  BY ReadingsAssumption
<1>2. 1 .. count[s] \subseteq 1 .. MaxReadings[s]
  BY <1>1
<1>3. QED
  BY <1>2 DEF Readings

(* The types follow from the rest. *)
LEMMA TypesFollow ==
  ASSUME StoreOK, Types, Received
  PROVE  TypeOK
<1>1. \A s \in Sensors : 1 .. count[s] \subseteq Readings
  BY CountedAreReadings DEF StoreOK
<1>2. new_sensor_backlog \in [Waiting -> SUBSET Readings]
  <2>1. \A s \in Waiting : new_sensor_backlog[s] \in SUBSET Readings
    BY <1>1 DEF StoreOK, Received
  <2>2. QED
    BY <2>1 DEF StoreOK
<1>3. saved \in [Sensors -> Seq(Readings)]
  <2>1. ASSUME NEW s \in Sensors
        PROVE  saved[s] \in Seq(Readings)
    <3>1. saved[s] \in Seq(1 .. count[s])
      BY DEF Received
    <3>2. QED
      BY <1>1, <3>1, WiderSeq
  <2>2. QED
    BY <2>1 DEF StoreOK
<1>4. QED
  BY <1>2, <1>3 DEF TypeOK, StoreOK, Types

(* The same of the next state. *)
LEMMA TypesFollowAfterwards == StoreOK' /\ Types' /\ Received' => TypeOK'
<1>1. StoreOK /\ Types /\ Received => TypeOK
  BY TypesFollow
<1>2. QED
  BY <1>1, PTL

(* What is to be shown of the next state. *)
LEMMA InvFollows == StoreOK' /\ Types' /\ TimerInv' /\ Asked' /\ Once' /\ Received' => Inv'
BY TypesFollowAfterwards DEF Inv

(* What the invariant says of the store. *)
LEMMA InvStore ==
  ASSUME Inv
  PROVE  StoreOK
BY DEF Inv, StoreOK, TypeOK

(* Nothing happens to the queries. *)
LEMMA AskUnchanged ==
  ASSUME Types, TimerInv, UNCHANGED askVars
  PROVE  Types' /\ TimerInv' /\ Running' = Running
<1>1. UNCHANGED <<running_queries, wait, ready, overtaken>>
  BY DEF askVars
<1>2. Types' /\ Running' = Running
  BY <1>1 DEF Types, InterrogatorTypeOK, Running
<1>3. Watched' /\ Single' /\ Dated'
  BY <1>1, <1>2 DEF TimerInv, Watched, Single, Dated
<1>4. OnTime'
  BY <1>1 DEF TimerInv, OnTime, Running, First
<1>5. QED
  BY <1>2, <1>3, <1>4 DEF TimerInv

(* A reading is entered. *)
LEMMA EnterFacts ==
  ASSUME NEW s, NEW n, Enter(s, n)
  PROVE  /\ Waiting' = Waiting \cup {s}
         /\ new_sensor_backlog' = [t \in Waiting' |-> new_sensor_backlog'[t]]
         /\ new_sensor_backlog'[s] = Backlog(s) \cup {n}
         /\ \A t \in Waiting : t # s => new_sensor_backlog'[t] = new_sensor_backlog[t]
BY DEF Enter, Waiting

(* Backlogs are erased. *)
LEMMA EraseFacts ==
  ASSUME NEW S, Erase(S)
  PROVE  /\ Waiting' = Waiting \ S
         /\ new_sensor_backlog' = [t \in Waiting' |-> new_sensor_backlog'[t]]
         /\ \A t \in Waiting \ S : new_sensor_backlog'[t] = new_sensor_backlog[t]
BY DEF Erase, Restrict, Waiting

(* At the start nothing waits and nothing is saved. *)
LEMMA InvInit == Init => Inv
<1> SUFFICES ASSUME Init PROVE Inv
  OBVIOUS
<1>1. Types /\ TimerInv /\ Running = {}
  BY NothingAsked DEF Init
<1>2. Waiting = {}
  BY DEF Init, Waiting
<1>3. StoreOK
  <2>1. \A s \in Sensors : 0 <= MaxReadings[s]
    BY ReadingsAssumption
  <2>2. QED
    BY <1>2, <2>1 DEF Init, StoreOK
<1>4. Asked
  BY <1>1, <1>2 DEF Init, Asked, AskedWhileWaiting
<1>5. Once
  BY <1>2 DEF Init, Once, AddedOnce
<1>6. Received
  BY <1>2 DEF Init, Received
<1>7. TypeOK
  BY <1>1, <1>3, <1>6, TypesFollow
<1>8. QED
  BY <1>1, <1>4, <1>5, <1>6, <1>7 DEF Inv

(* What every reading does: the count goes up. *)
LEMMA CountFacts ==
  ASSUME Inv, NEW s \in Sensors, accept_packet(s), NEW n, n = count[s] + 1
  PROVE  /\ count' \in [Sensors -> Nat] /\ \A t \in Sensors : count'[t] <= MaxReadings[t]
         /\ n \in 1 .. count'[s] /\ n \in Readings
         /\ \A m \in 1 .. count[s] : m < n
         /\ \A t \in Sensors : 1 .. count[t] \subseteq 1 .. count'[t]
         /\ \A t \in Sensors : saved[t] \in Seq(1 .. count'[t])
         /\ UNCHANGED <<sensor_cache, added>>
<1>1. count \in [Sensors -> Nat] /\ \A t \in Sensors : count[t] <= MaxReadings[t]
  BY DEF Inv, TypeOK
<1>2. /\ count[s] < MaxReadings[s] /\ count' = [count EXCEPT ![s] = n]
      /\ UNCHANGED <<sensor_cache, added>>
  BY DEF accept_packet
<1>3. count[s] \in Nat /\ n \in Nat /\ n >= 1 /\ MaxReadings[s] \in Nat /\ n <= MaxReadings[s]
  <2>1. count[s] \in Nat /\ MaxReadings[s] \in Nat /\ count[s] < MaxReadings[s]
    BY <1>1, <1>2, ReadingsAssumption
  <2>2. QED
    BY <2>1
<1>4. count' \in [Sensors -> Nat] /\ count'[s] = n /\ \A t \in Sensors : t # s => count'[t] = count[t]
  BY <1>1, <1>2, <1>3
<1>5. \A t \in Sensors : count'[t] <= MaxReadings[t]
  BY <1>1, <1>3, <1>4
<1>6. ASSUME NEW t \in Sensors
      PROVE  1 .. count[t] \subseteq 1 .. count'[t]
  <2>1. count[t] \in Nat /\ count'[t] \in Nat /\ count[t] <= count'[t]
    BY <1>1, <1>3, <1>4
  <2>2. QED
    BY <2>1
<1>7. ASSUME NEW t \in Sensors
      PROVE  saved[t] \in Seq(1 .. count'[t])
  <2>1. saved[t] \in Seq(1 .. count[t])
    BY DEF Inv, Received
  <2>2. QED
    BY <1>6, <2>1, WiderSeq
<1>8. n \in 1 .. count'[s] /\ \A m \in 1 .. count[s] : m < n
  BY <1>3, <1>4
<1>9. n \in Readings
  <2>1. n \in 1 .. MaxReadings[s]
    BY <1>3
  <2>2. QED
    BY <2>1 DEF Readings
<1>10. QED
  BY <1>2, <1>4, <1>5, <1>6, <1>7, <1>8, <1>9

(* A reading of a sensor that is known. *)
LEMMA AcceptKnownKeeps ==
  ASSUME Inv, NEW s \in Sensors, accept_packet(s), NEW n, n = count[s] + 1, AcceptKnown(s, n)
  PROVE  /\ Inv'
         /\ \E N \in SUBSET {n} : Log!Appended(saved[s], saved'[s], N)
         /\ \A t \in Sensors : t # s => saved'[t] = saved[t]
<1>1. /\ count' \in [Sensors -> Nat] /\ \A t \in Sensors : count'[t] <= MaxReadings[t]
      /\ n \in 1 .. count'[s]
      /\ \A t \in Sensors : 1 .. count[t] \subseteq 1 .. count'[t]
      /\ \A t \in Sensors : saved[t] \in Seq(1 .. count'[t])
      /\ UNCHANGED <<sensor_cache, added>>
  BY CountFacts
<1>2. UNCHANGED askVars /\ UNCHANGED <<new_sensor_backlog, refused>>
  BY DEF AcceptKnown
<1>3. PICK N \in {{}, {n}} : record_readings([t \in {s} |-> N])
  BY DEF AcceptKnown
<1>4. PICK kept : kept = [t \in {s} |-> N]
  OBVIOUS
<1>5. DOMAIN kept = {s} /\ kept[s] = N /\ N \in SUBSET {n}
  BY <1>4
<1>6. record_readings(kept) /\ \A t \in DOMAIN kept : kept[t] \in SUBSET (1 .. count'[t])
  BY <1>1, <1>3, <1>4, <1>5
<1>7. /\ saved' = [t \in Sensors |-> saved'[t]]
      /\ \A t \in Sensors :
           /\ saved'[t] \in Seq(1 .. count'[t])
           /\ t \in DOMAIN kept => Log!Appended(saved[t], saved'[t], kept[t])
           /\ t \notin DOMAIN kept => saved'[t] = saved[t]
  BY <1>1, <1>6, RecordKeeps
<1>8. Types' /\ TimerInv' /\ Running' = Running
  BY <1>2, AskUnchanged DEF Inv
<1>9. Waiting' = Waiting
  BY <1>2 DEF Waiting
<1>10. StoreOK'
  BY <1>1, <1>2, <1>7, <1>9, InvStore DEF StoreOK
<1>11. Asked' /\ Once'
  BY <1>1, <1>2, <1>8, <1>9 DEF Inv, Asked, AskedWhileWaiting, Once, AddedOnce
<1>12. Received'
  <2>1. \A t \in Waiting : new_sensor_backlog[t] \subseteq 1 .. count'[t]
    BY <1>1 DEF Inv, Received, TypeOK
  <2>2. QED
    BY <1>2, <1>7, <1>9, <2>1 DEF Received
<1>13. QED
  BY <1>5, <1>7, <1>8, <1>10, <1>11, <1>12, InvFollows

(* A reading of a sensor that is not known waits. *)
LEMMA AcceptUnknownKeeps ==
  ASSUME Inv, NEW s \in Sensors, accept_packet(s), NEW n, n = count[s] + 1,
         AcceptWaiting(s, n) \/ AcceptNew(s, n)
  PROVE  /\ Inv' /\ ~Known(s) /\ Enter(s, n) /\ saved' = saved
<1>1. /\ count' \in [Sensors -> Nat] /\ \A t \in Sensors : count'[t] <= MaxReadings[t]
      /\ n \in 1 .. count'[s]
      /\ \A t \in Sensors : 1 .. count[t] \subseteq 1 .. count'[t]
      /\ \A t \in Sensors : saved[t] \in Seq(1 .. count'[t])
      /\ UNCHANGED <<sensor_cache, added>>
  BY CountFacts
<1>2. ~Known(s) /\ Enter(s, n) /\ saved' = saved
  BY DEF AcceptWaiting, AcceptNew
<1>3. /\ Waiting' = Waiting \cup {s}
      /\ new_sensor_backlog' = [t \in Waiting' |-> new_sensor_backlog'[t]]
      /\ new_sensor_backlog'[s] = Backlog(s) \cup {n}
      /\ \A t \in Waiting : t # s => new_sensor_backlog'[t] = new_sensor_backlog[t]
  BY <1>2, EnterFacts
<1>4. /\ Types' /\ TimerInv'
      /\ Running' = Waiting' \ refused' /\ refused' \subseteq Waiting'
  <2>1. Running = Waiting \ refused /\ refused \subseteq Waiting
    BY DEF Inv, Asked, AskedWhileWaiting
  <2>2. CASE AcceptWaiting(s, n)
    <3>1. s \in Waiting /\ UNCHANGED askVars /\ refused' = refused
      BY <2>2 DEF AcceptWaiting
    <3>2. Types' /\ TimerInv' /\ Running' = Running
      BY <3>1, AskUnchanged DEF Inv
    <3>3. QED
      BY <1>3, <2>1, <3>1, <3>2
  <2>3. CASE AcceptNew(s, n) /\ queue_query(s) /\ refused' = refused
    <3>1. s \notin Waiting /\ s \notin Running /\ s \in Queries
      BY <2>1, <2>3, SensorsAssumption DEF AcceptNew
    <3>2. Types' /\ TimerInv' /\ Running' = Running \cup {s}
      BY <2>3, <3>1, QueueQueryKeeps DEF Inv
    <3>3. QED
      BY <1>3, <2>1, <2>3, <3>1, <3>2
  <2>4. CASE AcceptNew(s, n) /\ refused' = refused \cup {s} /\ UNCHANGED askVars
    <3>1. s \notin Waiting
      BY <2>4 DEF AcceptNew
    <3>2. Types' /\ TimerInv' /\ Running' = Running
      BY <2>4, AskUnchanged DEF Inv
    <3>3. QED
      BY <1>3, <2>1, <2>4, <3>1, <3>2
  <2>5. QED
    BY <2>2, <2>3, <2>4 DEF AcceptNew
<1>5. StoreOK'
  <2>1. Waiting' \subseteq Sensors /\ refused' \subseteq Sensors
    BY <1>3, <1>4, InvStore DEF StoreOK
  <2>2. saved' = [t \in Sensors |-> saved'[t]] /\ sensor_cache' \subseteq Sensors /\ added' \in [Sensors -> Nat]
    BY <1>1, <1>2, InvStore DEF StoreOK
  <2>3. QED
    BY <1>1, <1>3, <2>1, <2>2 DEF StoreOK
<1>6. Asked'
  BY <1>4 DEF Asked, AskedWhileWaiting
<1>7. Once'
  <2>1. added[s] = 0
    <3>1. added[s] \in Nat /\ ~(added[s] > 0)
      BY <1>2, InvStore DEF Known, StoreOK
    <3>2. QED
      BY <3>1
  <2>2. QED
    BY <1>1, <1>3, <2>1 DEF Inv, Once, AddedOnce
<1>8. Received'
  <2>1. \A t \in Waiting : new_sensor_backlog[t] \subseteq 1 .. count'[t]
    BY <1>1 DEF Inv, Received, TypeOK
  <2>2. new_sensor_backlog'[s] \subseteq 1 .. count'[s]
    BY <1>1, <1>3, <2>1 DEF Backlog
  <2>3. QED
    BY <1>1, <1>2, <1>3, <2>1, <2>2 DEF Received
<1>9. QED
  BY <1>2, <1>4, <1>5, <1>6, <1>7, <1>8, InvFollows

(* A reading, whatever is done with it. *)
LEMMA AcceptKeeps ==
  ASSUME Inv, NEW s \in Sensors, accept_packet(s)
  PROVE  Inv'
<1>1. PICK n : n = count[s] + 1
  OBVIOUS
<1>2. AcceptKnown(s, n) \/ AcceptWaiting(s, n) \/ AcceptNew(s, n)
  BY <1>1 DEF accept_packet
<1>3. QED
  BY <1>1, <1>2, AcceptKnownKeeps, AcceptUnknownKeeps

(* The names of the sensors S have come: what waited for them is saved, as   *)
(* far as the store takes it.                                                *)
LEMMA NamesKeep ==
  ASSUME Inv, NEW S \in SUBSET Running, on_sensor_name_received(S), UNCHANGED <<count, refused>>
  PROVE  /\ S \subseteq Sensors /\ S \subseteq Waiting /\ \A s \in S : added[s] = 0
         /\ StoreOK' /\ Once' /\ Received'
         /\ Waiting' = Waiting \ S
         /\ \A s \in Waiting \ S : new_sensor_backlog'[s] = new_sensor_backlog[s]
         /\ \A s \in Sensors : added'[s] > 0 <=> added[s] > 0 \/ s \in S
         /\ \A s \in S : \E N \in SUBSET Backlog(s) : Log!Appended(saved[s], saved'[s], N)
         /\ \A s \in Sensors \ S : saved'[s] = saved[s]
<1>1. Waiting \subseteq Sensors /\ added \in [Sensors -> Nat] /\ sensor_cache \subseteq Sensors
  BY InvStore DEF StoreOK
<1>2. S \subseteq Waiting /\ S \subseteq Sensors /\ \A s \in S : added[s] = 0
  BY <1>1 DEF Inv, Asked, AskedWhileWaiting, Once
<1>3. Erase(S) /\ sensor_cache' = sensor_cache \cup S
  BY DEF on_sensor_name_received
<1>4. /\ Waiting' = Waiting \ S
      /\ new_sensor_backlog' = [s \in Waiting' |-> new_sensor_backlog'[s]]
      /\ \A s \in Waiting \ S : new_sensor_backlog'[s] = new_sensor_backlog[s]
  BY <1>3, EraseFacts
<1>5. PICK kept \in [S -> SUBSET UNION {Backlog(s) : s \in S}] :
        (\A s \in S : kept[s] \subseteq Backlog(s)) /\ record_readings(kept)
  BY DEF on_sensor_name_received
<1>6. /\ count \in [Sensors -> Nat]
      /\ \A s \in Sensors : saved[s] \in Seq(1 .. count[s])
      /\ \A s \in Waiting : new_sensor_backlog[s] \subseteq 1 .. count[s]
  BY DEF Inv, Received, TypeOK
<1>7. DOMAIN kept = S /\ \A s \in S : kept[s] \in SUBSET (1 .. count[s]) /\ kept[s] \in SUBSET Backlog(s)
  BY <1>2, <1>5, <1>6 DEF Backlog
<1>8. /\ saved' = [s \in Sensors |-> saved'[s]]
      /\ \A s \in Sensors :
           /\ saved'[s] \in Seq(1 .. count[s])
           /\ s \in DOMAIN kept => Log!Appended(saved[s], saved'[s], kept[s])
           /\ s \notin DOMAIN kept => saved'[s] = saved[s]
  BY <1>5, <1>6, <1>7, RecordKeeps
<1>9. /\ added' \in [Sensors -> Nat]
      /\ \A s \in S : added'[s] = 1
      /\ \A s \in Sensors \ S : added'[s] = added[s]
  <2>1. added' = [s \in Sensors |-> IF s \in S THEN added[s] + 1 ELSE added[s]]
    BY DEF on_sensor_name_received
  <2>2. 0 + 1 = 1 /\ 1 \in Nat
    OBVIOUS
  <2>3. QED
    BY <1>1, <1>2, <2>1, <2>2
<1>10. StoreOK'
  BY <1>1, <1>2, <1>3, <1>4, <1>8, <1>9, InvStore DEF StoreOK
<1>11. Once'
  <2>1. 1 <= 1 /\ 1 > 0
    OBVIOUS
  <2>2. AddedOnce'
    BY <1>9, <2>1 DEF Inv, Once, AddedOnce
  <2>3. \A s \in Waiting' : added'[s] = 0
    BY <1>1, <1>4, <1>9 DEF Inv, Once
  <2>4. \A s \in sensor_cache' : added'[s] > 0
    BY <1>1, <1>3, <1>9, <2>1 DEF Inv, Once
  <2>5. QED
    BY <2>2, <2>3, <2>4 DEF Once
<1>12. Received'
  BY <1>4, <1>6, <1>8 DEF Received
<1>13. ASSUME NEW s \in Sensors
       PROVE  added'[s] > 0 <=> added[s] > 0 \/ s \in S
  <2>1. CASE s \in S
    BY <1>9, <2>1
  <2>2. CASE s \notin S
    BY <1>9, <2>2
  <2>3. QED
    BY <2>1, <2>2
<1>14. /\ \A s \in S : \E N \in SUBSET Backlog(s) : Log!Appended(saved[s], saved'[s], N)
       /\ \A s \in Sensors \ S : saved'[s] = saved[s]
  BY <1>2, <1>7, <1>8
<1>15. QED
  BY <1>2, <1>4, <1>10, <1>11, <1>12, <1>13, <1>14

(* A packet. *)
LEMMA PacketKeeps ==
  ASSUME Inv, NEW d, Packet(d)
  PROVE  Inv'
<1>1. PICK S : S = Answered(d)
  OBVIOUS
<1>2. S \in SUBSET Running
  BY <1>1 DEF Answered
<1>3. on_sensor_name_received(S) /\ packet_received(d) /\ UNCHANGED <<count, refused>>
  BY <1>1 DEF Packet
<1>4. StoreOK' /\ Once' /\ Received' /\ Waiting' = Waiting \ S
  BY <1>2, <1>3, NamesKeep
<1>5. Types' /\ TimerInv' /\ Running' = Running \ S
  BY <1>1, <1>3, PacketReceivedKeeps DEF Inv
<1>6. Asked'
  BY <1>2, <1>3, <1>4, <1>5 DEF Inv, Asked, AskedWhileWaiting
<1>7. QED
  BY <1>4, <1>5, <1>6, InvFollows

(* Nothing happens but to the queries. *)
LEMMA StoreUnchanged ==
  ASSUME Inv, UNCHANGED <<count, new_sensor_backlog, sensor_cache, added, saved, refused>>,
         Types', TimerInv', Running' = Running
  PROVE  Inv'
<1>1. Waiting' = Waiting
  BY DEF Waiting
<1>2. StoreOK'
  BY <1>1, InvStore DEF StoreOK
<1>3. Asked' /\ Once' /\ Received'
  BY <1>1 DEF Inv, Asked, AskedWhileWaiting, Once, AddedOnce, Received
<1>4. QED
  BY <1>2, <1>3, InvFollows

(* A query has failed: the backlog of its sensor is erased. *)
LEMMA ErrorKeeps ==
  ASSUME Inv, NEW s \in Sensors, timeout_gives_up(s) \/ timeout_unsent(s), on_sensor_error(s),
         UNCHANGED <<count, refused>>
  PROVE  Inv'
<1>1. Erase({s}) /\ UNCHANGED <<sensor_cache, added, saved>>
  BY DEF on_sensor_error, storeVars
<1>2. /\ Waiting' = Waiting \ {s}
      /\ new_sensor_backlog' = [t \in Waiting' |-> new_sensor_backlog'[t]]
      /\ \A t \in Waiting \ {s} : new_sensor_backlog'[t] = new_sensor_backlog[t]
  BY <1>1, EraseFacts
<1>3. Types' /\ TimerInv' /\ Running' = Running \ {s} /\ s \in Running
  BY TimeoutEndsKeeps DEF Inv
<1>4. StoreOK'
  BY <1>1, <1>2, InvStore DEF StoreOK
<1>5. Asked'
  BY <1>2, <1>3 DEF Inv, Asked, AskedWhileWaiting
<1>6. Once'
  BY <1>1, <1>2 DEF Inv, Once, AddedOnce
<1>7. Received'
  BY <1>1, <1>2 DEF Inv, Received
<1>8. QED
  BY <1>3, <1>4, <1>5, <1>6, <1>7, InvFollows

(* A handler of the timer. *)
LEMMA TimeoutKeeps ==
  ASSUME Inv, Timeout
  PROVE  Inv'
<1>1. UNCHANGED <<count, refused>>
  BY DEF Timeout
<1>2. CASE timeout_idle /\ UNCHANGED <<new_sensor_backlog, sensor_cache, storeVars>>
  <2>1. Types' /\ TimerInv' /\ Running' = Running
    BY <1>2, TimeoutIdleKeeps DEF Inv
  <2>2. QED
    BY <1>1, <1>2, <2>1, StoreUnchanged DEF storeVars
<1>3. CASE \E s \in Sensors : timeout_resends(s) /\ UNCHANGED <<new_sensor_backlog, sensor_cache, storeVars>>
  <2>1. Types' /\ TimerInv' /\ Running' = Running
    BY <1>3, TimeoutResendsKeeps DEF Inv
  <2>2. QED
    BY <1>1, <1>3, <2>1, StoreUnchanged DEF storeVars
<1>4. CASE \E s \in Sensors : (timeout_gives_up(s) \/ timeout_unsent(s)) /\ on_sensor_error(s)
  BY <1>1, <1>4, ErrorKeeps
<1>5. QED
  BY <1>2, <1>3, <1>4 DEF Timeout

(* The loop and the clock. *)
LEMMA ClockKeeps ==
  ASSUME Inv, Clock
  PROVE  Inv'
<1>1. UNCHANGED <<count, new_sensor_backlog, sensor_cache, added, saved, refused>>
  BY DEF Clock, storeVars
<1>2. Types' /\ TimerInv' /\ Running' = Running
  BY ExpireKeeps, TickKeeps DEF Inv, Clock
<1>3. QED
  BY <1>1, <1>2, StoreUnchanged

(* The start of the interrogator, after a restart of the program. *)
LEMMA NothingAskedAgain == InterrogatorInit' => Types' /\ TimerInv' /\ Running' = {}
<1>1. InterrogatorInit => Types /\ TimerInv /\ Running = {}
  BY NothingAsked
<1>2. InterrogatorInit' => (Types /\ TimerInv /\ Running = {})'
  BY <1>1, PTL
<1>3. QED
  BY <1>2

(* A restart leaves the store as it is. *)
LEMMA RestartKeeps ==
  ASSUME Inv, Restart
  PROVE  Inv'
<1>1. InterrogatorInit'
  BY DEF Restart, InterrogatorInit
<1>2. Types' /\ TimerInv' /\ Running' = {}
  BY <1>1, NothingAskedAgain
<1>3. /\ new_sensor_backlog' = [s \in {} |-> {}] /\ sensor_cache' = {} /\ refused' = {}
      /\ UNCHANGED <<count, added, saved>>
  BY DEF Restart, storeVars
<1>4. Waiting' = {}
  BY <1>3 DEF Waiting
<1>5. StoreOK'
  BY <1>3, <1>4, InvStore DEF StoreOK
<1>6. Asked' /\ Once' /\ Received'
  BY <1>2, <1>3, <1>4 DEF Inv, Asked, AskedWhileWaiting, Once, AddedOnce, Received
<1>7. QED
  BY <1>2, <1>5, <1>6, InvFollows

(* Every step keeps the invariant. *)
LEMMA InvStep == Inv /\ [Next]_vars => Inv'
<1> SUFFICES ASSUME Inv, [Next]_vars PROVE Inv'
  OBVIOUS
<1>1. ASSUME NEW s \in Sensors, accept_packet(s) PROVE Inv'
  BY <1>1, AcceptKeeps
<1>2. ASSUME NEW d \in Devices \cup {"other"}, Packet(d) PROVE Inv'
  BY <1>2, PacketKeeps
<1>3. CASE Timeout
  BY <1>3, TimeoutKeeps
<1>4. CASE Clock
  BY <1>4, ClockKeeps
<1>5. CASE Restart
  BY <1>5, RestartKeeps
<1>6. CASE UNCHANGED vars
  <2>1. UNCHANGED askVars /\ UNCHANGED <<count, new_sensor_backlog, sensor_cache, added, saved, refused>>
    BY <1>6 DEF vars, storeVars
  <2>2. Types' /\ TimerInv' /\ Running' = Running
    BY <2>1, AskUnchanged DEF Inv
  <2>3. QED
    BY <2>1, <2>2, StoreUnchanged
<1>7. QED
  BY <1>1, <1>2, <1>3, <1>4, <1>5, <1>6 DEF Next

LEMMA InvHolds == Spec => []Inv
<1>1. QED
  BY InvInit, InvStep, PTL DEF Spec

-----------------------------------------------------------------------------
(***************************************************************************)
(* What follows from it.                                                   *)
(***************************************************************************)

(* The variables keep their types: no query is tried more often than         *)
(* max_tries, and only readings that were received wait or are saved.        *)
THEOREM LoggerTypes == Spec => []TypeOK
<1>1. Inv => TypeOK
  BY DEF Inv
<1>2. QED
  BY <1>1, InvHolds, PTL

(* The logger and the interrogator agree on who is asked, whatever is        *)
(* answered, given up, cannot be sent or is restarted.                       *)
THEOREM LoggerAndInterrogatorAgree == Spec => []AskedWhileWaiting
<1>1. Inv => AskedWhileWaiting
  BY DEF Inv, Asked
<1>2. QED
  BY <1>1, InvHolds, PTL

(* The timer is set for the first deadline, or its handler is queued, until  *)
(* a handler is overtaken.                                                   *)
THEOREM TimerIsSet == Spec => []TimerSet
<1>1. Inv => TimerSet
  BY DEF Inv, TimerInv, OnTime, TimerSet
<1>2. QED
  BY <1>1, InvHolds, PTL

(* The timer or a handler looks at every query, overtaken or not. *)
THEOREM NoQueryForgotten == Spec => []NeverForgotten
<1>1. Inv => NeverForgotten
  BY DEF Inv, TimerInv, Watched, NeverForgotten
<1>2. QED
  BY <1>1, InvHolds, PTL

(* No sensor is added to the store twice. *)
THEOREM SensorsAddedOnce == Spec => []AddedOnce
<1>1. Inv => AddedOnce
  BY DEF Inv, Once
<1>2. QED
  BY <1>1, InvHolds, PTL

(* No device is given up before max_tries seconds are over, unless a handler *)
(* was overtaken.                                                            *)
THEOREM GivenUpNoSooner == Spec => GivesUpInTime
<1>1. Inv /\ [Next]_vars =>
        [\A s \in Running : timeout_gives_up(s) => overtaken \/ running_queries[s].age = Patience]_vars
  BY GivenUpInTime DEF Inv
<1>2. QED
  BY <1>1, InvHolds, PTL DEF Spec, GivesUpInTime

-----------------------------------------------------------------------------
(***************************************************************************)
(* The logger implements SensorLog.                                        *)
(***************************************************************************)

(* What the abstract logger's variables stand for. *)
InStore == {s \in Sensors : added[s] > 0}
Held    == [s \in Sensors |-> Backlog(s)]

(* A reading of s is an Accept. *)
LEMMA AcceptImplements ==
  ASSUME Inv, NEW s \in Sensors, accept_packet(s)
  PROVE  \E n \in Readings : Log!Accept(s, n)
<1>1. PICK n : n = count[s] + 1
  OBVIOUS
<1>2. /\ n \in Readings
      /\ \A m \in 1 .. count[s] : m < n
      /\ UNCHANGED <<sensor_cache, added>>
  BY <1>1, CountFacts
<1>3. \A m \in Held[s] : m < n
  BY <1>2 DEF Inv, Received, Held, Backlog
<1>4. \A k \in 1 .. Len(saved[s]) : saved[s][k] < n
  <2>1. saved[s] \in Seq(1 .. count[s])
    BY DEF Inv, Received
  <2>2. \A k \in 1 .. Len(saved[s]) : saved[s][k] \in 1 .. count[s]
    BY <2>1, SeqElements
  <2>3. QED
    BY <1>2, <2>2
<1>5. Known(s) <=> s \in InStore
  BY DEF Inv, Once, Known, InStore
<1>6. InStore' = InStore
  BY <1>2 DEF InStore
<1>7. CASE AcceptKnown(s, n)
  <2>1. /\ Inv'
        /\ \E N \in SUBSET {n} : Log!Appended(saved[s], saved'[s], N)
        /\ \A t \in Sensors : t # s => saved'[t] = saved[t]
    BY <1>1, <1>7, AcceptKnownKeeps
  <2>2. saved' \in [Sensors -> Seq(Readings)] /\ saved \in [Sensors -> Seq(Readings)]
    BY <2>1 DEF Inv, TypeOK
  <2>3. PICK readings : readings = [t \in Sensors |-> IF t = s THEN {n} ELSE {}]
    OBVIOUS
  <2>4. ASSUME NEW t \in Sensors
        PROVE  \E N \in SUBSET readings[t] : Log!Appended(saved[t], saved'[t], N)
    <3>1. CASE t = s
      BY <2>1, <2>3, <3>1
    <3>2. CASE t # s
      <4>1. saved'[t] = saved[t] /\ saved[t] \in Seq(Readings) /\ readings[t] = {}
        BY <2>1, <2>2, <2>3, <3>2
      <4>2. Log!Appended(saved[t], saved'[t], {})
        BY <4>1, AppendNothing
      <4>3. QED
        BY <4>1, <4>2
    <3>3. QED
      BY <3>1, <3>2
  <2>5. Log!Save(readings)
    BY <2>2, <2>4 DEF Log!Save
  <2>6. s \in InStore
    BY <1>5, <1>7 DEF AcceptKnown
  <2>7. Held' = Held
    BY <1>7 DEF AcceptKnown, Held, Backlog, Waiting
  <2>8. Log!Accept(s, n)
    BY <1>3, <1>4, <1>6, <2>3, <2>5, <2>6, <2>7 DEF Log!Accept, InStore, Held
  <2>9. QED
    BY <1>2, <2>8
<1>8. CASE AcceptWaiting(s, n) \/ AcceptNew(s, n)
  <2>1. ~Known(s) /\ Enter(s, n) /\ saved' = saved
    BY <1>1, <1>8, AcceptUnknownKeeps
  <2>2. /\ Waiting' = Waiting \cup {s}
        /\ new_sensor_backlog'[s] = Backlog(s) \cup {n}
        /\ \A t \in Waiting : t # s => new_sensor_backlog'[t] = new_sensor_backlog[t]
    BY <2>1, EnterFacts
  <2>3. Held' = [Held EXCEPT ![s] = Held[s] \cup {n}]
    BY <2>2 DEF Held, Backlog
  <2>4. Log!Accept(s, n)
    BY <1>3, <1>4, <1>5, <1>6, <2>1, <2>3 DEF Log!Accept, InStore, Held
  <2>5. QED
    BY <1>2, <2>4
<1>9. QED
  BY <1>1, <1>7, <1>8 DEF accept_packet

(* Answers of a device are a Learn: several sensors of it may be asked for. *)
LEMMA PacketImplements ==
  ASSUME Inv, NEW d, Packet(d)
  PROVE  \E S \in SUBSET Sensors : Log!Learn(S)
<1>1. PICK S : S = Answered(d)
  OBVIOUS
<1>2. S \in SUBSET Running
  BY <1>1 DEF Answered
<1>3. on_sensor_name_received(S) /\ UNCHANGED <<count, refused>>
  BY <1>1 DEF Packet
<1>4. /\ S \subseteq Sensors /\ S \subseteq Waiting /\ \A s \in S : added[s] = 0
      /\ Waiting' = Waiting \ S
      /\ \A s \in Waiting \ S : new_sensor_backlog'[s] = new_sensor_backlog[s]
      /\ \A s \in Sensors : added'[s] > 0 <=> added[s] > 0 \/ s \in S
      /\ \A s \in S : \E N \in SUBSET Backlog(s) : Log!Appended(saved[s], saved'[s], N)
      /\ \A s \in Sensors \ S : saved'[s] = saved[s]
  BY <1>2, <1>3, NamesKeep
<1>5. saved' \in [Sensors -> Seq(Readings)] /\ saved \in [Sensors -> Seq(Readings)]
  BY PacketKeeps DEF Inv, TypeOK
<1>6. S \cap InStore = {}
  <2>1. ~(0 > 0)
    OBVIOUS
  <2>2. QED
    BY <1>4, <2>1 DEF InStore
<1>7. InStore' = InStore \cup S
  BY <1>4 DEF InStore
<1>8. Held' = [s \in Sensors |-> IF s \in S THEN {} ELSE Held[s]]
  BY <1>4 DEF Held, Backlog
<1>9. PICK readings : readings = [s \in Sensors |-> IF s \in S THEN Held[s] ELSE {}]
  OBVIOUS
<1>10. ASSUME NEW s \in Sensors
       PROVE  \E N \in SUBSET readings[s] : Log!Appended(saved[s], saved'[s], N)
  <2>1. CASE s \in S
    BY <1>4, <1>9, <2>1 DEF Held
  <2>2. CASE s \notin S
    <3>1. saved'[s] = saved[s] /\ saved[s] \in Seq(Readings) /\ readings[s] = {}
      BY <1>4, <1>5, <1>9, <2>2
    <3>2. Log!Appended(saved[s], saved'[s], {})
      BY <3>1, AppendNothing
    <3>3. QED
      BY <3>1, <3>2
  <2>3. QED
    BY <2>1, <2>2
<1>11. Log!Save(readings)
  BY <1>5, <1>10 DEF Log!Save
<1>12. Log!Learn(S)
  BY <1>6, <1>7, <1>8, <1>9, <1>11 DEF Log!Learn, InStore, Held
<1>13. QED
  BY <1>4, <1>12

(* A query that fails, and a restart, are a Drop. *)
LEMMA DropImplements ==
  ASSUME NEW S \in SUBSET Sensors, UNCHANGED <<added, saved>>, Waiting' = Waiting \ S,
         \A s \in Waiting \ S : new_sensor_backlog'[s] = new_sensor_backlog[s]
  PROVE  Log!Drop(S)
<1>1. InStore' = InStore
  BY DEF InStore
<1>2. Held' = [s \in Sensors |-> IF s \in S THEN {} ELSE Held[s]]
  BY DEF Held, Backlog
<1>3. QED
  BY <1>1, <1>2 DEF Log!Drop, InStore, Held

(* The rest is not seen. *)
LEMMA NotSeen ==
  ASSUME UNCHANGED <<new_sensor_backlog, added, saved>>
  PROVE  InStore' = InStore /\ Held' = Held /\ saved' = saved
BY DEF InStore, Held, Backlog, Waiting

LEMMA LogInit == Init => Log!Init
<1> SUFFICES ASSUME Init PROVE Log!Init
  OBVIOUS
<1>1. ~(0 > 0)
  OBVIOUS
<1>2. InStore = {}
  BY <1>1 DEF Init, InStore
<1>3. Held = [s \in Sensors |-> {}]
  BY DEF Init, Held, Backlog, Waiting
<1>4. QED
  BY <1>2, <1>3 DEF Init, Log!Init, InStore, Held

LEMMA LogStep == Inv /\ [Next]_vars => [Log!Next]_<<InStore, Held, saved>>
<1> DEFINE Seen == [Log!Next]_<<InStore, Held, saved>>
<1> SUFFICES ASSUME Inv, [Next]_vars PROVE Seen
  OBVIOUS
<1>1. ASSUME NEW S \in SUBSET Sensors, Log!Learn(S) \/ Log!Drop(S) PROVE Seen
  BY <1>1 DEF Log!Next
<1>2. ASSUME UNCHANGED <<new_sensor_backlog, added, saved>> PROVE Seen
  BY <1>2, NotSeen
<1>3. ASSUME NEW s \in Sensors, accept_packet(s) PROVE Seen
  BY <1>3, AcceptImplements DEF Log!Next
<1> HIDE DEF Seen
<1>4. ASSUME NEW d \in Devices \cup {"other"}, Packet(d) PROVE Seen
  BY <1>1, <1>4, PacketImplements
<1>5. CASE Timeout
  <2>1. ASSUME NEW s \in Sensors, on_sensor_error(s) PROVE Seen
    <3>1. {s} \in SUBSET Sensors /\ Erase({s}) /\ UNCHANGED <<added, saved>>
      BY <2>1 DEF on_sensor_error, storeVars
    <3>2. Log!Drop({s})
      BY <3>1, EraseFacts, DropImplements
    <3>3. QED
      BY <1>1, <3>1, <3>2
  <2>2. ASSUME UNCHANGED <<new_sensor_backlog, sensor_cache, storeVars>> PROVE Seen
    BY <1>2, <2>2 DEF storeVars
  <2>3. QED
    BY <1>5, <2>1, <2>2 DEF Timeout
<1>6. CASE Clock
  BY <1>2, <1>6 DEF Clock, storeVars
<1>7. CASE Restart
  <2>1. new_sensor_backlog' = [s \in {} |-> {}] /\ UNCHANGED <<added, saved>>
    BY <1>7 DEF Restart, storeVars
  <2>2. Waiting' = {} /\ Waiting \ Sensors = {}
    BY <2>1, InvStore DEF Waiting, StoreOK
  <2>3. Log!Drop(Sensors)
    BY <2>1, <2>2, DropImplements
  <2>4. QED
    BY <1>1, <2>3
<1>8. CASE UNCHANGED vars
  BY <1>2, <1>8 DEF vars, storeVars
<1>9. QED
  BY <1>3, <1>4, <1>5, <1>6, <1>7, <1>8 DEF Next

(* The logger implements the abstract one, whatever the network, the loop    *)
(* and the clock do: a reading is saved behind the earlier ones of its       *)
(* sensor, and what waits for a sensor is saved with it or dropped with it.  *)
THEOREM ImplementsLog == Spec => LogSpec
<1>1. Inv /\ [Next]_vars => [Log!Next]_<<{s \in Sensors : added[s] > 0}, [s \in Sensors |-> Backlog(s)], saved>>
  BY LogStep DEF InStore, Held
<1>2. QED
  BY <1>1, InvHolds, LogInit, PTL DEF Spec, LogSpec, Log!Spec
=============================================================================
