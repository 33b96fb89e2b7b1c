------------------------------- MODULE Logger -------------------------------
(***************************************************************************)
(* hexalog: libhexabus' Logger on a DeviceInterrogator and a klio store.   *)
(*                                                                         *)
(* A reading of a sensor that neither the cache nor the store knows goes   *)
(* to a backlog, and the device is asked for its name.  The answer makes   *)
(* the sensor and saves its backlog; if the query fails the backlog is     *)
(* dropped.  A query is named after the sensor it is asked for; two        *)
(* sensors may be on one device, whose answer is an answer for both.       *)
(***************************************************************************)
EXTENDS Interrogator, Sequences, FiniteSets

CONSTANTS
  Sensors,      \* an address and an endpoint each
  MaxReadings   \* bound: sensor -> how many readings it sends

ASSUME SensorsAssumption  == Sensors \subseteq Queries
ASSUME ReadingsAssumption == MaxReadings \in [Sensors -> Nat]

Readings == UNION {1 .. MaxReadings[s] : s \in Sensors}

VARIABLES
  count,               \* sensor -> readings received so far
  new_sensor_backlog,  \* sensor -> readings that wait for it
  sensor_cache,        \* sensors made since the start
  added,               \* sensor -> how often it was added to the store
  saved,               \* sensor -> its readings in the store
  refused              \* sensors whose query could not be sent at once

storeVars == <<added, saved>>
vars      == <<askVars, count, new_sensor_backlog, sensor_cache, storeVars, refused>>

Waiting == DOMAIN new_sensor_backlog

TypeOK ==
  /\ InterrogatorTypeOK
  /\ count \in [Sensors -> Nat] /\ \A s \in Sensors : count[s] <= MaxReadings[s]
  /\ Waiting \subseteq Sensors
  /\ new_sensor_backlog \in [Waiting -> SUBSET Readings]
  /\ sensor_cache \subseteq Sensors
  /\ added \in [Sensors -> Nat]
  /\ saved \in [Sensors -> Seq(Readings)]
  /\ refused \subseteq Sensors

Init ==
  /\ InterrogatorInit
  /\ count = [s \in Sensors |-> 0]
  /\ new_sensor_backlog = [s \in {} |-> {}]
  /\ sensor_cache = {}
  /\ added = [s \in Sensors |-> 0]
  /\ saved = [s \in Sensors |-> <<>>]
  /\ refused = {}

-----------------------------------------------------------------------------
(* A backlog is a map from time to value: it is read in the order of time. *)
InOrder(N) ==
  CHOOSE r \in [1 .. Cardinality(N) -> N] : \A j, k \in DOMAIN r : j < k => r[j] < r[k]

(* The entry that operator[] of the map finds or makes. *)
Backlog(s) == IF s \in Waiting THEN new_sensor_backlog[s] ELSE {}

Enter(s, n) ==
  new_sensor_backlog' =
    [t \in Waiting \cup {s} |-> IF t = s THEN Backlog(s) \cup {n} ELSE new_sensor_backlog[t]]

Erase(S) == new_sensor_backlog' = Restrict(new_sensor_backlog, Waiting \ S)

(* Mutant: the store is not asked. *)
InCache(s) == s \in sensor_cache

(* lookup_sensor asks the store, without filling the cache. *)
Known(s) == s \in sensor_cache \/ added[s] > 0

(* record_reading: an error of the store is reported and otherwise ignored. *)
record_readings(kept) ==
  saved' = [s \in Sensors |-> IF s \in DOMAIN kept THEN saved[s] \o InOrder(kept[s]) ELSE saved[s]]

-----------------------------------------------------------------------------
(***************************************************************************)
(* accept_packet: an INFO packet that carries a reading.                   *)
(***************************************************************************)
AcceptKnown(s, n) ==
  /\ Known(s)
  /\ \E N \in {{}, {n}} : record_readings([t \in {s} |-> N])
  /\ UNCHANGED <<askVars, new_sensor_backlog, refused>>

AcceptWaiting(s, n) ==
  /\ ~Known(s)
  /\ s \in Waiting
  /\ Enter(s, n)
  /\ UNCHANGED <<askVars, saved, refused>>

(* The first reading: the device is asked.  If the query cannot be sent,     *)
(* send_request calls on_sensor_error before it returns, which erases the    *)
(* entry; the reading is then entered all the same.                          *)
AcceptNew(s, n) ==
  /\ ~Known(s)
  /\ s \notin Waiting
  /\ \/ queue_query(s) /\ UNCHANGED refused
     \/ refused' = refused \cup {s} /\ UNCHANGED askVars
  /\ Enter(s, n)
  /\ UNCHANGED saved

accept_packet(s) ==
  /\ count[s] < MaxReadings[s]
  /\ LET n == count[s] + 1
     IN  /\ AcceptKnown(s, n) \/ AcceptWaiting(s, n) \/ AcceptNew(s, n)
         /\ count' = [count EXCEPT ![s] = n]
  /\ UNCHANGED <<sensor_cache, added>>

-----------------------------------------------------------------------------
(***************************************************************************)
(* The callbacks of the query.                                             *)
(***************************************************************************)

(* Mutant: only readings that come after the answer are saved. *)
ForgetsBacklog(S) ==
  /\ added' = [s \in Sensors |-> IF s \in S THEN added[s] + 1 ELSE added[s]]
  /\ sensor_cache' = sensor_cache \cup S
  /\ UNCHANGED <<saved, new_sensor_backlog>>

on_sensor_name_received(S) ==
  /\ added' = [s \in Sensors |-> IF s \in S THEN added[s] + 1 ELSE added[s]]
  /\ sensor_cache' = sensor_cache \cup S
  /\ \E kept \in [S -> SUBSET UNION {Backlog(s) : s \in S}] :
       /\ \A s \in S : kept[s] \subseteq Backlog(s)
       /\ record_readings(kept)
  /\ Erase(S)

(* Mutant: the backlog of a query that failed stays. *)
KeepsBacklog(s) == UNCHANGED <<new_sensor_backlog, sensor_cache, storeVars>>

on_sensor_error(s) ==
  /\ Erase({s})
  /\ UNCHANGED <<sensor_cache, storeVars>>

(* An EndpointInfo from the device d, perhaps late or twice, or some other   *)
(* packet (d is then no device).                                             *)
Packet(d) ==
  /\ on_sensor_name_received(Answered(d))
  /\ packet_received(d)
  /\ UNCHANGED <<count, refused>>

(* A handler of the timer. *)
Timeout ==
  /\ \/ timeout_idle /\ UNCHANGED <<new_sensor_backlog, sensor_cache, storeVars>>
     \/ \E s \in Sensors :
          \/ timeout_resends(s) /\ UNCHANGED <<new_sensor_backlog, sensor_cache, storeVars>>
          \/ timeout_gives_up(s) /\ on_sensor_error(s)
          \/ timeout_unsent(s) /\ on_sensor_error(s)
  /\ UNCHANGED <<count, refused>>

Clock ==
  /\ Expire \/ Tick
  /\ UNCHANGED <<count, new_sensor_backlog, sensor_cache, storeVars, refused>>

(* The program ends, by a signal or an exception from the store or the       *)
(* socket, and is started again.                                             *)
Restart ==
  /\ running_queries' = [q \in {} |-> 0]
  /\ wait' = {}
  /\ ready' = 0
  /\ overtaken' = FALSE
  /\ new_sensor_backlog' = [s \in {} |-> {}]
  /\ sensor_cache' = {}
  /\ refused' = {}
  /\ UNCHANGED <<count, storeVars>>

Devices == {device[s] : s \in Sensors}

Next ==
  \/ \E s \in Sensors : accept_packet(s)
  \/ \E d \in Devices \cup {"other"} : Packet(d)
  \/ Timeout
  \/ Clock
  \/ Restart

Spec == Init /\ [][Next]_vars

(* The event loop calls the handlers that are queued, and time passes. *)
Fairness == WF_vars(Timeout) /\ WF_vars(Expire /\ Clock) /\ WF_vars(Tick /\ Clock)
FairSpec == Spec /\ Fairness

-----------------------------------------------------------------------------
(***************************************************************************)
(* What must hold.                                                         *)
(***************************************************************************)

(* The two components agree: a sensor has a backlog exactly while a query    *)
(* for it runs, unless the query could not be sent.  (on_sensor_name_received*)
(* reads the backlog's endpoint without looking whether there is one.)       *)
AskedWhileWaiting == Running = Waiting \ refused

(* As long as no handler has been overtaken, the timer is set for the        *)
(* earliest deadline, or its handler is queued and that deadline has passed. *)
TimerSet ==
  ~overtaken /\ Running # {} =>
    \E q \in Running :
      /\ First(running_queries, q)
      /\ \/ wait = {running_queries[q].deadline} /\ ready = 0
         \/ wait = {} /\ ready = 1 /\ running_queries[q].deadline <= 0

(* Overtaken or not, somebody will look at a query that runs. *)
NeverForgotten == Running # {} => wait # {} \/ ready > 0

(* A device is given max_tries seconds to answer before it is given up,      *)
(* unless a handler was overtaken.                                           *)
GivesUpInTime ==
  [][\A s \in Running : timeout_gives_up(s) => overtaken \/ running_queries[s].age = Patience]_vars

(* The logger implements the abstract one. *)
Log == INSTANCE SensorLog WITH
  known   <- {s \in Sensors : added[s] > 0},
  waiting <- [s \in Sensors |-> Backlog(s)]

LogSpec == Log!Spec

(* No sensor is added to the store twice, whatever is sent twice and however *)
(* often the program is started.                                             *)
AddedOnce == \A s \in Sensors : added[s] <= 1

(* "Ask for a sensor instance. If none is known for this sensor, create a    *)
(* new one." (logger.cpp:123-124): no reading waits for ever, except when    *)
(* the query could not be sent.                                              *)
ResolvedIfSent == \A s \in Sensors : s \in Waiting \ refused ~> s \notin Waiting
=============================================================================
