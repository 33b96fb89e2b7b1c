-------------------------------- MODULE Node --------------------------------
(***************************************************************************)
(* The event kernel of a Hexabus device and the processes that watch the   *)
(* network and the time on it: udp_handler, the datetime service, and the  *)
(* listeners of udp_handler's and of health's broadcasts.                  *)
(*                                                                         *)
(* The main loop calls process_run: poll the processes that asked for it   *)
(* (the etimer process posts the TIMER of every timer that has expired,    *)
(* the IP stack hands packets to udp_handler by a synchronous call), then  *)
(* deliver one event of a bounded queue.  A broadcast goes to one process  *)
(* after the other, with polls in between.  udp_handler pauses after every *)
(* event it handles: it posts CONTINUE to itself and ignores everything    *)
(* until that comes.                                                       *)
(***************************************************************************)
EXTENDS Integers, Sequences

CONSTANTS
  QueueSize,   \* PROCESS_CONF_NUMEVENTS, 32 in the build
  VALID_TIME,  \* seconds for which a received time is valid, 300 in the build
  Others       \* what the device's other processes do: report on a sensor, get events

ASSUME QueueAssumption == QueueSize \in Nat \ {0}
ASSUME TimeAssumption  == VALID_TIME \in Nat
ASSUME OtherAssumption == Others \subseteq {"sensor", "event"}

Timers    == {"unreachable", "update"}
Processes == {"udp_handler", "datetime"}

Event(to, ev) == [to |-> to, ev |-> ev]
TIMER(p)      == Event(p, "TIMER")
CONTINUE      == Event("udp_handler", "CONTINUE")
LinkEvent     == Event("all", "udp_handler_event")
HealthEvent   == Event("all", "health_event")
OtherEvent    == Event("other", "TIMER")
Events        == {TIMER(p) : p \in Processes} \cup {CONTINUE, LinkEvent, HealthEvent, OtherEvent}

Broadcasts == {"udp_handler_event", "health_event"}
Bits       == {"no_connection", "hardware"}

VARIABLES
  pt,             \* where udp_handler waits: boot (3 s), wait or pause
  state,          \* udp_handler's state: UP or DOWN
  route,          \* the default route is in use and its lifetime has not passed
  owner,          \* the process each timer is set for; NONE once it has expired
  queue,          \* the kernel's events
  delivering,     \* the broadcast that udp_handler, the last in the list, has yet to get
  status,         \* health's bits
  heard, shown,   \* what listeners last read of state and of status
  time_valid, valid_counter,   \* of the datetime service
  lost,           \* a post was refused because the queue was full
  rushed          \* something happened before the queue was worked off

linkVars  == <<pt, state>>
heardVars == <<heard, shown>>
timeVars  == <<time_valid, valid_counter>>
vars      == <<linkVars, route, owner, queue, delivering, status, heardVars, timeVars, lost, rushed>>

TypeOK ==
  /\ pt \in {"boot", "wait", "pause"}
  /\ state \in {"UP", "DOWN"}
  /\ route \in BOOLEAN
  /\ owner \in [Timers -> Processes \cup {"NONE"}]
  /\ queue \in Seq(Events) /\ Len(queue) <= QueueSize
  /\ delivering \in Broadcasts \cup {"none"}
  /\ status \subseteq Bits
  /\ heard \in {"none", "UP", "DOWN"}
  /\ shown \subseteq Bits
  /\ time_valid \in BOOLEAN
  /\ valid_counter \in 0 .. VALID_TIME
  /\ lost \in BOOLEAN
  /\ rushed \in BOOLEAN

(* All processes are started: udp_handler waits for its three seconds. *)
Init ==
  /\ pt = "boot"
  /\ state = "UP"
  /\ route \in BOOLEAN
  /\ owner = [unreachable |-> "udp_handler", update |-> "datetime"]
  /\ queue = <<>>
  /\ delivering = "none"
  /\ status = {}
  /\ heard = "none"
  /\ shown = {}
  /\ time_valid = FALSE
  /\ valid_counter = VALID_TIME
  /\ lost = FALSE
  /\ rushed = FALSE

-----------------------------------------------------------------------------
(***************************************************************************)
(* The kernel.                                                             *)
(***************************************************************************)

(* Mutant: the queue has no bound. *)
PostsAlways(q, es) == queue' = q \o es /\ UNCHANGED lost

(* process_post of the events es, one after the other, to the queue q: once *)
(* it is full the rest is refused, and no caller looks at the result.       *)
process_post(q, es) ==
  LET all == q \o es
  IN  /\ queue' = IF Len(all) <= QueueSize THEN all ELSE SubSeq(all, 1, QueueSize)
      /\ lost' = (lost \/ Len(all) > QueueSize)

(* add_timer: a timer that has expired is set for the process that is       *)
(* running; one that is on the list keeps its process.                      *)
add_timer(t, p) == IF owner[t] = "NONE" THEN [owner EXCEPT ![t] = p] ELSE owner

etimer_expired(t) == owner[t] = "NONE"

(* health_update posts a broadcast if a bit changes. *)
Flip(bit, set) == IF set THEN status \cup {bit} ELSE status \ {bit}

(* Mutant: only a new problem is posted. *)
PostsProblems(bit, set) == IF set /\ bit \notin status THEN <<HealthEvent>> ELSE <<>>

HealthEvents(bit, set) == IF Flip(bit, set) # status THEN <<HealthEvent>> ELSE <<>>

health_update(bit, set) ==
  /\ status' = Flip(bit, set)
  /\ process_post(queue, HealthEvents(bit, set))

-----------------------------------------------------------------------------
(***************************************************************************)
(* udp_handler.                                                            *)
(***************************************************************************)

(* Mutant: a pause that nobody ends. *)
PauseForever(q, es) == pt' = "pause" /\ process_post(q, es)

(* The handler has posted es; PROCESS_PAUSE posts CONTINUE after them. *)
Pause(q, es) == pt' = "pause" /\ process_post(q, Append(es, CONTINUE))

(* Mutants: a route that is still missing is announced again; the timer is   *)
(* not set again.                                                            *)
AnnouncesAgain(q) ==
  LET up      == route
      changes == ~up \/ state = "DOWN"
  IN  /\ etimer_expired("unreachable")
      /\ owner' = add_timer("unreachable", "udp_handler")
      /\ state' = IF up THEN "UP" ELSE "DOWN"
      /\ status' = IF changes THEN Flip("no_connection", ~up) ELSE status
      /\ Pause(q, IF changes THEN <<LinkEvent>> \o HealthEvents("no_connection", ~up) ELSE <<>>)
TimerNotSet(q) ==
  LET up      == route
      changes == up # (state = "UP")
  IN  /\ etimer_expired("unreachable")
      /\ state' = IF up THEN "UP" ELSE "DOWN"
      /\ status' = IF changes THEN Flip("no_connection", ~up) ELSE status
      /\ Pause(q, IF changes THEN <<LinkEvent>> \o HealthEvents("no_connection", ~up) ELSE <<>>)
      /\ UNCHANGED owner

(* udphandler on the expiry of udp_unreachable_timer: set it again, compare  *)
(* the route with the state, announce a change.                              *)
CheckLink(q) ==
  LET up      == route
      changes == up # (state = "UP")
  IN  /\ etimer_expired("unreachable")
      /\ owner' = add_timer("unreachable", "udp_handler")
      /\ state' = IF up THEN "UP" ELSE "DOWN"
      /\ status' = IF changes THEN Flip("no_connection", ~up) ELSE status
      /\ Pause(q, IF changes THEN <<LinkEvent>> \o HealthEvents("no_connection", ~up) ELSE <<>>)

(* An event that udphandler does nothing about still costs a pause. *)
Ignore(q) == Pause(q, <<>>) /\ UNCHANGED <<state, owner, status>>

(* The three seconds are over: the process opens its socket, sets the timer, *)
(* announces that it is up, and waits.                                       *)
Boot(q) ==
  /\ pt' = "wait"
  /\ state' = "UP"
  /\ owner' = add_timer("unreachable", "udp_handler")
  /\ process_post(q, <<LinkEvent>>)
  /\ UNCHANGED status

(* Not what the process waits for. *)
Swallow(q) == queue' = q /\ UNCHANGED <<linkVars, owner, status, lost>>

(* call_process(udp_handler, ev), q being the queue at the call. *)
udp_handler(ev, q) ==
  \/ pt = "boot"  /\ ev = "TIMER" /\ Boot(q)
  \/ pt = "boot"  /\ ev # "TIMER" /\ Swallow(q)
  \/ pt = "wait"  /\ ev = "TIMER" /\ CheckLink(q)
  \/ pt = "wait"  /\ ~(ev = "TIMER" /\ etimer_expired("unreachable")) /\ Ignore(q)
  \/ pt = "pause" /\ ev = "CONTINUE" /\ pt' = "wait" /\ queue' = q
       /\ UNCHANGED <<state, owner, status, lost>>
  \/ pt = "pause" /\ ev # "CONTINUE" /\ Swallow(q)

-----------------------------------------------------------------------------
(***************************************************************************)
(* What the polls bring.                                                   *)
(***************************************************************************)

(* Nothing is being delivered and nothing but timer events waits. *)
OnlyTimers == delivering = "none" /\ \A k \in 1 .. Len(queue) : queue[k].ev = "TIMER"
Rested     == delivering = "none" /\ queue = <<>>

(* The etimer process: a timer has expired; if the queue is full it stays   *)
(* on the list and is tried again.                                          *)
Expire(t) ==
  /\ ~etimer_expired(t)
  /\ Len(queue) < QueueSize
  /\ queue' = Append(queue, TIMER(owner[t]))
  /\ owner' = [owner EXCEPT ![t] = "NONE"]
  /\ rushed' = (rushed \/ ~OnlyTimers)
  /\ UNCHANGED <<linkVars, route, delivering, status, heardVars, timeVars, lost>>

(* A packet for the Hexabus port that does not carry the time, or any other  *)
(* synchronous call of the process (EXITED, when a process exits).           *)
Packet ==
  /\ pt # "boot"
  /\ udp_handler("tcpip_event", queue)
  /\ rushed' = (rushed \/ ~Rested)
  /\ UNCHANGED <<route, delivering, heardVars, timeVars>>

(* An INFO packet with the date and time.  updateDatetime runs inside        *)
(* udp_handler, and so does its etimer_restart.                              *)
updateDatetime ==
  /\ pt = "wait"
  /\ time_valid' = TRUE
  /\ valid_counter' = 0
  /\ owner' = add_timer("update", "udp_handler")
  /\ Pause(queue, <<>>)
  /\ rushed' = (rushed \/ ~Rested)
  /\ UNCHANGED <<state, route, delivering, status, heardVars>>

(* The route is lost or found. *)
RouteChange ==
  /\ route' = ~route
  /\ UNCHANGED <<linkVars, owner, queue, delivering, status, heardVars, timeVars, lost, rushed>>

(* A sensor's process reports that its hardware is broken or works again. *)
Sensor(broken) ==
  /\ "sensor" \in Others
  /\ health_update("hardware", broken)
  /\ rushed' = (rushed \/ ~Rested)
  /\ UNCHANGED <<linkVars, route, owner, delivering, heardVars, timeVars>>

(* An event for some other process is posted. *)
Other ==
  /\ "event" \in Others
  /\ Len(queue) < QueueSize
  /\ process_post(queue, <<OtherEvent>>)
  /\ rushed' = (rushed \/ ~Rested)
  /\ UNCHANGED <<linkVars, route, owner, delivering, status, heardVars, timeVars>>

-----------------------------------------------------------------------------
(***************************************************************************)
(* do_event.                                                               *)
(***************************************************************************)

(* Mutant: the validity is never counted down. *)
NeverInvalid ==
  /\ owner' = IF etimer_expired("update") THEN add_timer("update", "datetime") ELSE owner
  /\ UNCHANGED <<valid_counter, time_valid>>

(* The datetime process counts a second, and invalidates a time that has     *)
(* not been renewed.  (What the seconds add up to is the clock of            *)
(* StateMachine.)                                                            *)
datetime_service ==
  /\ owner' = IF etimer_expired("update") THEN add_timer("update", "datetime") ELSE owner
  /\ IF valid_counter < VALID_TIME
       THEN valid_counter' = valid_counter + 1 /\ UNCHANGED time_valid
       ELSE time_valid' = FALSE /\ UNCHANGED valid_counter

(* The head of the queue is for one process. *)
Deliver ==
  /\ delivering = "none"
  /\ queue # <<>>
  /\ \/ /\ Head(queue).to = "udp_handler"
        /\ udp_handler(Head(queue).ev, Tail(queue))
        /\ UNCHANGED timeVars
     \/ /\ Head(queue).to = "datetime"
        /\ datetime_service
        /\ queue' = Tail(queue)
        /\ UNCHANGED <<linkVars, status, lost>>
     \/ /\ Head(queue).to = "other"
        /\ queue' = Tail(queue)
        /\ UNCHANGED <<linkVars, owner, status, timeVars, lost>>
  /\ UNCHANGED <<route, delivering, heardVars, rushed>>

(* It is a broadcast: the listeners, started later than udp_handler, are     *)
(* called first.  They get a pointer and read what is there now.             *)
DeliverBroadcast ==
  /\ delivering = "none"
  /\ queue # <<>>
  /\ Head(queue).to = "all"
  /\ queue' = Tail(queue)
  /\ delivering' = Head(queue).ev
  /\ IF Head(queue).ev = "udp_handler_event"
       THEN heard' = state /\ UNCHANGED shown
       ELSE shown' = status /\ UNCHANGED heard
  /\ UNCHANGED <<linkVars, route, owner, status, timeVars, lost, rushed>>

(* ... and udp_handler itself after them. *)
BroadcastToSelf ==
  /\ delivering # "none"
  /\ udp_handler(delivering, queue)
  /\ delivering' = "none"
  /\ UNCHANGED <<route, heardVars, timeVars, rushed>>

DoEvent == Deliver \/ DeliverBroadcast \/ BroadcastToSelf

Poll ==
  \/ \E t \in Timers : Expire(t)
  \/ Packet
  \/ updateDatetime
  \/ RouteChange
  \/ \E b \in BOOLEAN : Sensor(b)
  \/ Other

Next == DoEvent \/ Poll

Spec == Init /\ [][Next]_vars

(* The main loop never stops delivering.  The etimer process is polled in   *)
(* every round, before an event is delivered, until it has found a place in  *)
(* the queue for every timer that has expired.                               *)
Fairness == WF_vars(DoEvent) /\ \A t \in Timers : SF_vars(Expire(t))
FairSpec == Spec /\ Fairness

-----------------------------------------------------------------------------
(***************************************************************************)
(* What must hold.                                                         *)
(***************************************************************************)

(* Listeners are called with a pointer to state, long after the post.  Still *)
(* every change of the state reaches them as it was: each call tells them    *)
(* something new, an UP is never announced twice and a DOWN never missed     *)
(* (the state machine resets itself at every UP), unless a post was refused. *)
ChangesHeard ==
  [][delivering = "none" /\ delivering' = "udp_handler_event" => lost \/ state # heard]_vars

(* When no health event is under way, the display shows the device's health. *)
HealthShown ==
  (\A k \in 1 .. Len(queue) : queue[k] # HealthEvent) => lost \/ shown = status

(* Only a full queue, which refuses the CONTINUE, can keep udp_handler in    *)
(* its pause.                                                                *)
PauseEndsUnlessFull == pt = "pause" ~> pt = "wait" \/ lost

(* On a device that is done with one thing before the next comes, a link     *)
(* that is down for good is announced, and one that is up for good too.      *)
LinkReported ==
  [](~rushed /\ ~lost) =>
    /\ <>[]~route => <>[](heard = "DOWN")
    /\ <>[]route  => <>[](heard = "UP")

(* "Valid for 5Minutes" (datetime_service.h:9): on such a device a time that *)
(* is no longer renewed becomes invalid.                                     *)
TimeExpiresCalm == [](~rushed) => []<>(~time_valid) \/ []<><<updateDatetime>>_vars
=============================================================================
