----------------------------- MODULE NodeProofs -----------------------------
(***************************************************************************)
(* Proofs about Node, for every size of the event queue and every set of   *)
(* other processes.                                                        *)
(*                                                                         *)
(* Listeners are told of a change by a pointer to what has changed, through*)
(* a queue: what they read is right only because of the order in which the *)
(* events of the queue were posted.  The invariants below are about that   *)
(* order.                                                                  *)
(***************************************************************************)
EXTENDS Node, TLAPS, SequenceTheorems

(* The event e is in the queue q, at most once, and always before f. *)
Has(q, e)       == \E k \in 1 .. Len(q) : q[k] = e
Once(q, e)      == \A j, k \in 1 .. Len(q) : q[j] = e /\ q[k] = e => j = k
Before(q, e, f) == \A j, k \in 1 .. Len(q) : q[j] = e /\ q[k] = f => j < k

(* Before udp_handler has started, the only event for it is that its three   *)
(* seconds are over, and nobody has heard of it.                             *)
Booting(q) ==
  /\ ~Has(q, LinkEvent) /\ ~Has(q, CONTINUE)
  /\ heard = "none"
  /\ Once(q, TIMER("udp_handler"))
  /\ Has(q, TIMER("udp_handler")) => owner["unreachable"] = "NONE"
  /\ owner["unreachable"] \in {"udp_handler", "NONE"}
  /\ owner["update"] \in {"datetime", "NONE"}

(* While it runs, the queue holds one event for a state that has not been    *)
(* heard of and none for one that has.  The event comes before anything that *)
(* could make udp_handler change the state again: before the TIMERs it will  *)
(* look at, and before the CONTINUE that ends a pause.                       *)
Linked(q) ==
  /\ Once(q, LinkEvent)
  /\ Has(q, LinkEvent) <=> state # heard
  /\ pt = "wait" => ~Has(q, CONTINUE) /\ Before(q, LinkEvent, TIMER("udp_handler"))
  /\ pt = "pause" => Once(q, CONTINUE) /\ Before(q, LinkEvent, CONTINUE)

(* Nothing is said once a post has been refused: the event that is missing   *)
(* may be any of these.                                                      *)
LinkOn(q) ==
  /\ pt = "boot" => Booting(q)
  /\ pt # "boot" => Linked(q)

LinkInv == ~lost => LinkOn(queue)

(* A pause ends: the event that will end it is in the queue. *)
PauseHasEnd == pt = "pause" => lost \/ Has(queue, CONTINUE)

-----------------------------------------------------------------------------
(***************************************************************************)
(* The queue.                                                              *)
(***************************************************************************)

(* What is left when the head has been taken out. *)
LEMMA TailFacts ==
  ASSUME NEW q \in Seq(Events), q # <<>>
  PROVE  /\ Tail(q) \in Seq(Events)
         /\ Len(Tail(q)) < Len(q)
         /\ Head(q) \in Events /\ Has(q, Head(q))
         /\ \A e : Has(q, e) <=> e = Head(q) \/ Has(Tail(q), e)
         /\ \A e : Once(q, e) => Once(Tail(q), e) /\ ~(e = Head(q) /\ Has(Tail(q), e))
         /\ \A e, f : Before(q, e, f) => Before(Tail(q), e, f) /\ ~(f = Head(q) /\ Has(q, e))
<1>1. /\ Tail(q) \in Seq(Events)
      /\ Len(q) \in Nat \ {0}
      /\ Len(Tail(q)) = Len(q) - 1
      /\ Head(q) = q[1] /\ q[1] \in Events
      /\ \A k \in 1 .. Len(Tail(q)) : Tail(q)[k] = q[k + 1]
  OBVIOUS
<1>2. ASSUME NEW e
      PROVE  Has(q, e) <=> e = Head(q) \/ Has(Tail(q), e)
  <2>1. ASSUME NEW k \in 1 .. Len(q), q[k] = e, e # Head(q)
        PROVE  Has(Tail(q), e)
    <3>1. k - 1 \in 1 .. Len(Tail(q)) /\ Tail(q)[k - 1] = e
      BY <1>1, <2>1
    <3>2. QED
      BY <3>1 DEF Has
  <2>2. ASSUME NEW k \in 1 .. Len(Tail(q)), Tail(q)[k] = e
        PROVE  Has(q, e)
    BY <1>1, <2>2 DEF Has
  <2>3. 1 \in 1 .. Len(q)
    BY <1>1
  <2>4. QED
    BY <1>1, <2>1, <2>2, <2>3 DEF Has
<1>3. ASSUME NEW e, Once(q, e)
      PROVE  Once(Tail(q), e) /\ ~(e = Head(q) /\ Has(Tail(q), e))
  <2>1. Once(Tail(q), e)
    BY <1>1, <1>3 DEF Once
  <2>2. ASSUME NEW k \in 1 .. Len(Tail(q)), Tail(q)[k] = e
        PROVE  e # Head(q)
    BY <1>1, <1>3, <2>2 DEF Once
  <2>3. QED
    BY <2>1, <2>2 DEF Has
<1>4. ASSUME NEW e, NEW f, Before(q, e, f)
      PROVE  Before(Tail(q), e, f) /\ ~(f = Head(q) /\ Has(q, e))
  <2>1. Before(Tail(q), e, f)
    BY <1>1, <1>4 DEF Before
  <2>2. ASSUME NEW k \in 1 .. Len(q), q[k] = e
        PROVE  f # Head(q)
    BY <1>1, <1>4, <2>2 DEF Before
  <2>3. QED
    BY <2>1, <2>2 DEF Has
<1>5. QED
  BY <1>1, <1>2, <1>3, <1>4

(* What is there when the events es have been posted to q. *)
LEMMA ConcatFacts ==
  ASSUME NEW q \in Seq(Events), NEW es \in Seq(Events)
  PROVE  /\ q \o es \in Seq(Events)
         /\ Len(q \o es) = Len(q) + Len(es)
         /\ \A e : Has(q \o es, e) <=> Has(q, e) \/ Has(es, e)
         /\ \A e : Once(q, e) /\ Once(es, e) /\ ~(Has(q, e) /\ Has(es, e)) => Once(q \o es, e)
         /\ \A e, f : /\ Before(q, e, f) /\ Before(es, e, f)
                      /\ ~(Has(q, f) /\ Has(es, e))
                      => Before(q \o es, e, f)
<1> DEFINE s == q \o es
<1>1. /\ s \in Seq(Events)
      /\ Len(q) \in Nat /\ Len(es) \in Nat
      /\ Len(s) = Len(q) + Len(es)
      /\ \A k \in 1 .. Len(s) : s[k] = IF k <= Len(q) THEN q[k] ELSE es[k - Len(q)]
  BY ConcatProperties
<1> HIDE DEF s
<1>2. ASSUME NEW k \in 1 .. Len(s)
      PROVE  \/ k \in 1 .. Len(q) /\ s[k] = q[k]
             \/ k - Len(q) \in 1 .. Len(es) /\ s[k] = es[k - Len(q)]
  BY <1>1
<1>3. ASSUME NEW e
      PROVE  Has(s, e) <=> Has(q, e) \/ Has(es, e)
  <2>1. ASSUME NEW k \in 1 .. Len(q), q[k] = e
        PROVE  Has(s, e)
    BY <1>1, <2>1 DEF Has
  <2>2. ASSUME NEW k \in 1 .. Len(es), es[k] = e
        PROVE  Has(s, e)
    <3>1. Len(q) + k \in 1 .. Len(s) /\ s[Len(q) + k] = e
      BY <1>1, <2>2
    <3>2. QED
      BY <3>1 DEF Has
  <2>3. QED
    BY <1>2, <2>1, <2>2 DEF Has
<1>4. ASSUME NEW e, Once(q, e), Once(es, e), ~(Has(q, e) /\ Has(es, e))
      PROVE  Once(s, e)
  <2> SUFFICES ASSUME NEW j \in 1 .. Len(s), NEW k \in 1 .. Len(s), s[j] = e, s[k] = e
               PROVE  j = k
    BY DEF Once
  <2>1. CASE j \in 1 .. Len(q) /\ k \in 1 .. Len(q)
    BY <1>1, <1>4, <2>1 DEF Once
  <2>2. CASE j - Len(q) \in 1 .. Len(es) /\ k - Len(q) \in 1 .. Len(es)
    <3>1. es[j - Len(q)] = e /\ es[k - Len(q)] = e
      BY <1>1, <2>2
    <3>2. j - Len(q) = k - Len(q)
      BY <1>4, <2>2, <3>1 DEF Once
    <3>3. QED
      BY <1>1, <3>2
  <2>3. QED
    BY <1>2, <1>4, <2>1, <2>2 DEF Has
<1>5. ASSUME NEW e, NEW f, Before(q, e, f), Before(es, e, f), ~(Has(q, f) /\ Has(es, e))
      PROVE  Before(s, e, f)
  <2> SUFFICES ASSUME NEW j \in 1 .. Len(s), NEW k \in 1 .. Len(s), s[j] = e, s[k] = f
               PROVE  j < k
    BY DEF Before
  <2>1. CASE j \in 1 .. Len(q) /\ k \in 1 .. Len(q)
    BY <1>1, <1>5, <2>1 DEF Before
  <2>2. CASE j - Len(q) \in 1 .. Len(es) /\ k - Len(q) \in 1 .. Len(es)
    <3>1. es[j - Len(q)] = e /\ es[k - Len(q)] = f
      BY <1>1, <2>2
    <3>2. j - Len(q) < k - Len(q)
      BY <1>5, <2>2, <3>1 DEF Before
    <3>3. QED
      BY <1>1, <3>2
  <2>3. CASE j \in 1 .. Len(q) /\ k - Len(q) \in 1 .. Len(es)
    BY <1>1, <2>3
  <2>4. QED
    BY <1>2, <1>5, <2>1, <2>2, <2>3 DEF Has
<1>6. QED
  BY <1>1, <1>3, <1>4, <1>5 DEF s

(* process_post keeps the queue within its bound; unless it refuses an event *)
(* it appends them all.                                                      *)
LEMMA PostFacts ==
  ASSUME NEW q \in Seq(Events), NEW es \in Seq(Events), lost \in BOOLEAN, process_post(q, es)
  PROVE  /\ queue' \in Seq(Events) /\ Len(queue') <= QueueSize
         /\ lost' \in BOOLEAN
         /\ ~lost' => ~lost /\ queue' = q \o es
<1> DEFINE all == q \o es
<1>1. all \in Seq(Events) /\ Len(all) \in Nat
  OBVIOUS
<1>2. /\ queue' = IF Len(all) <= QueueSize THEN all ELSE SubSeq(all, 1, QueueSize)
      /\ lost' = (lost \/ Len(all) > QueueSize)
  BY DEF process_post
<1> HIDE DEF all
<1>3. CASE Len(all) <= QueueSize
  <2>1. ~(Len(all) > QueueSize)
    BY <1>1, <1>3, QueueAssumption
  <2>2. QED
    BY <1>1, <1>2, <1>3, <2>1 DEF all
<1>4. CASE ~(Len(all) <= QueueSize)
  <2>1. Len(all) > QueueSize
    BY <1>1, <1>4, QueueAssumption
  <2>2. lost' = TRUE /\ queue' = SubSeq(all, 1, QueueSize)
    BY <1>2, <1>4, <2>1
  <2>3. SubSeq(all, 1, QueueSize) \in Seq(Events) /\ Len(SubSeq(all, 1, QueueSize)) <= QueueSize
    BY <1>1, <2>1, QueueAssumption
  <2>4. QED
    BY <2>2, <2>3
<1>5. QED
  BY <1>3, <1>4

-----------------------------------------------------------------------------
(***************************************************************************)
(* Types.                                                                  *)
(***************************************************************************)

(* What a process posts are events, and sequences of them. *)
LEMMA EventTypes ==
  /\ LinkEvent \in Events /\ HealthEvent \in Events /\ CONTINUE \in Events /\ OtherEvent \in Events
  /\ \A p \in Processes : TIMER(p) \in Events
  /\ <<>> \in Seq(Events) /\ <<LinkEvent>> \in Seq(Events) /\ <<OtherEvent>> \in Seq(Events)
  /\ \A bit, set : HealthEvents(bit, set) \in Seq(Events)
<1>1. /\ LinkEvent \in Events /\ HealthEvent \in Events /\ CONTINUE \in Events /\ OtherEvent \in Events
      /\ \A p \in Processes : TIMER(p) \in Events
  BY DEF Events
<1>2. QED
  BY <1>1 DEF HealthEvents

(* No two kinds of event are the same. *)
LEMMA EventsDiffer ==
  /\ LinkEvent # HealthEvent /\ LinkEvent # CONTINUE /\ LinkEvent # OtherEvent
  /\ HealthEvent # CONTINUE /\ HealthEvent # OtherEvent /\ CONTINUE # OtherEvent
  /\ \A p \in Processes : TIMER(p) \notin {LinkEvent, HealthEvent, CONTINUE, OtherEvent}
  /\ TIMER("udp_handler") # TIMER("datetime")
BY DEF LinkEvent, HealthEvent, CONTINUE, OtherEvent, TIMER, Event, Processes

(* An event for udp_handler alone is a TIMER or its CONTINUE; a broadcast is *)
(* one of two.                                                               *)
LEMMA EventKinds ==
  ASSUME NEW e \in Events
  PROVE  /\ e.to = "udp_handler" => \/ e = TIMER("udp_handler") /\ e.ev = "TIMER"
                                    \/ e = CONTINUE /\ e.ev = "CONTINUE"
         /\ e.to = "datetime" => e = TIMER("datetime")
         /\ e.to = "other" => e = OtherEvent
         /\ e.to = "all" => \/ e = LinkEvent /\ e.ev = "udp_handler_event"
                            \/ e = HealthEvent /\ e.ev = "health_event"
BY DEF Events, LinkEvent, HealthEvent, CONTINUE, OtherEvent, TIMER, Event, Processes

(* A bit that is set or cleared. *)
LEMMA FlipType ==
  ASSUME status \subseteq Bits, NEW bit \in Bits, NEW set \in BOOLEAN
  PROVE  Flip(bit, set) \subseteq Bits
BY DEF Flip

(* A timer that is set belongs to a process. *)
LEMMA AddTimerType ==
  ASSUME owner \in [Timers -> Processes \cup {"NONE"}], NEW t \in Timers, NEW p \in Processes
  PROVE  add_timer(t, p) \in [Timers -> Processes \cup {"NONE"}]
BY DEF add_timer

(* udp_handler, whoever calls it. *)
LEMMA UdpHandlerTypes ==
  ASSUME TypeOK, NEW q \in Seq(Events), Len(q) <= QueueSize, NEW ev, udp_handler(ev, q)
  PROVE  /\ pt' \in {"boot", "wait", "pause"}
         /\ state' \in {"UP", "DOWN"}
         /\ owner' \in [Timers -> Processes \cup {"NONE"}]
         /\ queue' \in Seq(Events) /\ Len(queue') <= QueueSize
         /\ status' \subseteq Bits
         /\ lost' \in BOOLEAN
<1>1. ASSUME NEW es \in Seq(Events)
      PROVE  Append(es, CONTINUE) \in Seq(Events)
  BY EventTypes
<1>2. ASSUME NEW es \in Seq(Events), process_post(q, es)
      PROVE  queue' \in Seq(Events) /\ Len(queue') <= QueueSize /\ lost' \in BOOLEAN
  BY <1>2, PostFacts DEF TypeOK
<1>3. ASSUME NEW es \in Seq(Events), Pause(q, es)
      PROVE  pt' = "pause" /\ queue' \in Seq(Events) /\ Len(queue') <= QueueSize /\ lost' \in BOOLEAN
  BY <1>1, <1>2, <1>3 DEF Pause
<1>4. add_timer("unreachable", "udp_handler") \in [Timers -> Processes \cup {"NONE"}]
  BY AddTimerType DEF TypeOK, Timers, Processes
<1>5. CASE Boot(q)
  BY <1>2, <1>4, <1>5, EventTypes DEF Boot, TypeOK
<1>6. CASE CheckLink(q)
  <2> DEFINE es == IF route # (state = "UP")
                     THEN <<LinkEvent>> \o HealthEvents("no_connection", ~route) ELSE <<>>
  <2>1. es \in Seq(Events)
    BY EventTypes
  <2>2. Pause(q, es)
    BY <1>6 DEF CheckLink
  <2>3. status' \subseteq Bits
    <3>1. Flip("no_connection", ~route) \subseteq Bits
      BY FlipType DEF TypeOK, Bits
    <3>2. status' \in {status, Flip("no_connection", ~route)}
      BY <1>6 DEF CheckLink
    <3>3. QED
      BY <3>1, <3>2 DEF TypeOK
  <2>4. state' \in {"UP", "DOWN"} /\ owner' = add_timer("unreachable", "udp_handler")
    BY <1>6 DEF CheckLink
  <2> HIDE DEF es
  <2>5. QED
    BY <1>3, <1>4, <2>1, <2>2, <2>3, <2>4
<1>7. CASE Ignore(q)
  BY <1>3, <1>7, EventTypes DEF Ignore, TypeOK
<1>8. CASE queue' = q /\ pt' \in {"boot", "wait", "pause"} /\ UNCHANGED <<state, owner, status, lost>>
  BY <1>8 DEF TypeOK
<1>9. QED
  BY <1>5, <1>6, <1>7, <1>8 DEF udp_handler, Swallow, linkVars, TypeOK

(* At the start. *)
LEMMA TypesInitially == Init => TypeOK
<1> SUFFICES ASSUME Init PROVE TypeOK
  OBVIOUS
<1>1. <<>> \in Seq(Events) /\ Len(<<>>) <= QueueSize
  BY QueueAssumption
<1>2. VALID_TIME \in 0 .. VALID_TIME
  BY TimeAssumption
<1>3. [unreachable |-> "udp_handler", update |-> "datetime"] \in [Timers -> Processes \cup {"NONE"}]
  BY DEF Timers, Processes
<1>4. QED
  BY <1>1, <1>2, <1>3 DEF Init, TypeOK

(* All actions. *)
LEMMA TypesPreserved == TypeOK /\ [Next]_vars => TypeOK'
<1> SUFFICES ASSUME TypeOK, [Next]_vars PROVE TypeOK'
  OBVIOUS
<1>1. queue \in Seq(Events) /\ Len(queue) <= QueueSize
  BY DEF TypeOK
<1>2. queue # <<>> => /\ Tail(queue) \in Seq(Events) /\ Len(Tail(queue)) <= QueueSize
                      /\ Head(queue) \in Events
  <2>1. queue # <<>> => /\ Tail(queue) \in Seq(Events) /\ Len(Tail(queue)) < Len(queue)
                        /\ Len(Tail(queue)) \in Nat /\ Len(queue) \in Nat
                        /\ Head(queue) \in Events
    BY <1>1, TailFacts
  <2>2. QED
    BY <1>1, <2>1, QueueAssumption
<1>3. CASE Deliver
  <2>1. CASE Head(queue).to = "udp_handler" /\ udp_handler(Head(queue).ev, Tail(queue)) /\ UNCHANGED timeVars
    BY <1>2, <1>3, <2>1, UdpHandlerTypes DEF Deliver, TypeOK, heardVars, timeVars
  <2>2. CASE /\ datetime_service
             /\ queue' = Tail(queue)
             /\ UNCHANGED <<linkVars, status, lost>>
    <3>1. owner' \in [Timers -> Processes \cup {"NONE"}]
      BY <2>2, AddTimerType DEF datetime_service, TypeOK, Timers, Processes
    <3>2. time_valid' \in BOOLEAN /\ valid_counter' \in 0 .. VALID_TIME
      <4>1. \/ valid_counter' = valid_counter
            \/ valid_counter' = valid_counter + 1 /\ valid_counter < VALID_TIME
        BY <2>2 DEF datetime_service
      <4>2. valid_counter' \in 0 .. VALID_TIME
        BY <4>1, TimeAssumption DEF TypeOK
      <4>3. time_valid' \in BOOLEAN
        BY <2>2 DEF datetime_service, TypeOK
      <4>4. QED
        BY <4>2, <4>3
    <3>3. QED
      BY <1>2, <1>3, <2>2, <3>1, <3>2 DEF Deliver, TypeOK, linkVars, heardVars
  <2>3. CASE queue' = Tail(queue) /\ UNCHANGED <<linkVars, owner, status, timeVars, lost>>
    BY <1>2, <1>3, <2>3 DEF Deliver, TypeOK, linkVars, heardVars, timeVars
  <2>4. QED
    BY <1>3, <2>1, <2>2, <2>3 DEF Deliver
<1>4. CASE DeliverBroadcast
  <2>1. delivering' \in Broadcasts
    BY <1>2, <1>4, EventKinds DEF DeliverBroadcast, Broadcasts
  <2>2. QED
    BY <1>2, <1>4, <2>1 DEF DeliverBroadcast, TypeOK, linkVars, timeVars
<1>5. CASE BroadcastToSelf
  BY <1>1, <1>5, UdpHandlerTypes DEF BroadcastToSelf, TypeOK, heardVars, timeVars
<1>6. ASSUME NEW t \in Timers, Expire(t)
      PROVE  TypeOK'
  <2>1. owner[t] \in Processes
    BY <1>6 DEF Expire, etimer_expired, TypeOK
  <2>2. queue' \in Seq(Events) /\ Len(queue') <= QueueSize
    <3>1. TIMER(owner[t]) \in Events
      BY <2>1, EventTypes
    <3>2. \A e \in Events : Append(queue, e) \in Seq(Events) /\ Len(Append(queue, e)) = Len(queue) + 1
      BY <1>1
    <3>3. Len(queue) \in Nat /\ Len(queue) < QueueSize /\ queue' = Append(queue, TIMER(owner[t]))
      BY <1>1, <1>6 DEF Expire
    <3>4. queue' \in Seq(Events) /\ Len(queue') = Len(queue) + 1
      BY <3>1, <3>2, <3>3
    <3>5. QED
      BY <3>3, <3>4, QueueAssumption
  <2>3. owner' \in [Timers -> Processes \cup {"NONE"}]
    BY <1>6 DEF Expire, TypeOK
  <2>4. rushed' \in BOOLEAN
    BY <1>6 DEF Expire, OnlyTimers, TypeOK
  <2>5. QED
    BY <1>6, <2>2, <2>3, <2>4 DEF Expire, TypeOK, linkVars, heardVars, timeVars
<1>7. CASE Packet
  <2>1. rushed' \in BOOLEAN
    BY <1>7 DEF Packet, TypeOK
  <2>2. QED
    BY <1>1, <1>7, <2>1, UdpHandlerTypes DEF Packet, TypeOK, heardVars, timeVars
<1>8. CASE updateDatetime
  <2>1. Append(<<>>, CONTINUE) \in Seq(Events)
    BY EventTypes
  <2>2. pt' = "pause" /\ queue' \in Seq(Events) /\ Len(queue') <= QueueSize /\ lost' \in BOOLEAN
    BY <1>1, <1>8, <2>1, PostFacts DEF updateDatetime, Pause, TypeOK
  <2>3. owner' \in [Timers -> Processes \cup {"NONE"}]
    BY <1>8, AddTimerType DEF updateDatetime, TypeOK, Timers, Processes
  <2>4. rushed' \in BOOLEAN /\ valid_counter' \in 0 .. VALID_TIME
    BY <1>8, TimeAssumption DEF updateDatetime, TypeOK
  <2>5. QED
    BY <1>8, <2>2, <2>3, <2>4 DEF updateDatetime, TypeOK, heardVars
<1>9. CASE RouteChange
  BY <1>9 DEF RouteChange, TypeOK, linkVars, heardVars, timeVars
<1>10. ASSUME NEW b \in BOOLEAN, Sensor(b)
       PROVE  TypeOK'
  <2>1. queue' \in Seq(Events) /\ Len(queue') <= QueueSize /\ lost' \in BOOLEAN
    BY <1>1, <1>10, EventTypes, PostFacts DEF Sensor, health_update, TypeOK
  <2>2. status' \subseteq Bits
    BY <1>10, FlipType DEF Sensor, health_update, TypeOK, Bits
  <2>3. rushed' \in BOOLEAN
    BY <1>10 DEF Sensor, TypeOK
  <2>4. QED
    BY <1>10, <2>1, <2>2, <2>3 DEF Sensor, TypeOK, linkVars, heardVars, timeVars
<1>11. CASE Other
  <2>1. queue' \in Seq(Events) /\ Len(queue') <= QueueSize /\ lost' \in BOOLEAN
    BY <1>1, <1>11, EventTypes, PostFacts DEF Other, TypeOK
  <2>2. rushed' \in BOOLEAN
    BY <1>11 DEF Other, TypeOK
  <2>3. QED
    BY <1>11, <2>1, <2>2 DEF Other, TypeOK, linkVars, heardVars, timeVars
<1>12. CASE UNCHANGED vars
  BY <1>12 DEF vars, TypeOK, linkVars, heardVars, timeVars
<1>13. QED
  BY <1>3, <1>4, <1>5, <1>6, <1>7, <1>8, <1>9, <1>10, <1>11, <1>12 DEF Next, DoEvent, Poll

(* The queue stays within PROCESS_CONF_NUMEVENTS, whatever is posted, and    *)
(* timers belong to the processes that set them.                             *)
THEOREM NodeTypes == Spec => []TypeOK
BY TypesInitially, TypesPreserved, PTL DEF Spec

-----------------------------------------------------------------------------
(***************************************************************************)
(* What udp_handler posts.                                                 *)
(***************************************************************************)

(* One event, and none. *)
LEMMA SingleFacts ==
  ASSUME NEW e
  PROVE  /\ \A f : Has(<<e>>, f) <=> f = e
         /\ \A f : Once(<<e>>, f)
         /\ \A f : ~Has(<<>>, f) /\ Once(<<>>, f)
         /\ \A f, g : Before(<<>>, f, g)
         /\ \A f, g : f # g => Before(<<e>>, f, g)
<1>1. \A s : s = <<e>> => Len(s) = 1 /\ s[1] = e
  OBVIOUS
<1>2. \A f : Has(<<e>>, f) <=> f = e
  BY DEF Has
<1>3. \A f : Once(<<e>>, f)
  BY DEF Once
<1>4. \A f : ~Has(<<>>, f) /\ Once(<<>>, f)
  BY DEF Has, Once
<1>5. \A f, g : Before(<<>>, f, g)
  BY DEF Before
<1>6. ASSUME NEW f, NEW g, f # g
      PROVE  Before(<<e>>, f, g)
  BY <1>6 DEF Before
<1>7. QED
  BY <1>2, <1>3, <1>4, <1>5, <1>6

(* What health_update posts: its event if a bit has changed, and no other. *)
LEMMA HealthFacts ==
  ASSUME NEW bit, NEW set
  PROVE  /\ HealthEvents(bit, set) \in Seq(Events)
         /\ Flip(bit, set) # status => Has(HealthEvents(bit, set), HealthEvent)
         /\ \A e : Has(HealthEvents(bit, set), e) => e = HealthEvent
         /\ \A e : Once(HealthEvents(bit, set), e)
         /\ \A e, f : e # f => Before(HealthEvents(bit, set), e, f)
<1>1. CASE Flip(bit, set) # status
  BY <1>1, EventTypes, SingleFacts DEF HealthEvents
<1>2. CASE Flip(bit, set) = status
  BY <1>2, EventTypes, SingleFacts DEF HealthEvents
<1>3. QED
  BY <1>1, <1>2

(* The announcement of a change: its event, then CONTINUE, and no TIMER. *)
Announces(es) ==
  /\ Has(es, LinkEvent) /\ Once(es, LinkEvent)
  /\ Has(es, CONTINUE) /\ Once(es, CONTINUE)
  /\ Before(es, LinkEvent, CONTINUE)
  /\ ~Has(es, TIMER("udp_handler"))

(* That is what udp_handler posts when the route has changed. *)
LEMMA AnnounceFacts ==
  ASSUME NEW set, NEW es, es = Append(<<LinkEvent>> \o HealthEvents("no_connection", set), CONTINUE)
  PROVE  /\ es \in Seq(Events)
         /\ Announces(es)
         /\ Flip("no_connection", set) # status => Has(es, HealthEvent)
<1> DEFINE h == HealthEvents("no_connection", set)
           l == <<LinkEvent>>
           c == <<CONTINUE>>
           m == l \o h
<1>1. /\ l \in Seq(Events) /\ c \in Seq(Events) /\ h \in Seq(Events)
      /\ \A e : Has(l, e) <=> e = LinkEvent
      /\ \A e : Has(c, e) <=> e = CONTINUE
      /\ \A e : Has(h, e) => e = HealthEvent
      /\ \A e : Once(l, e) /\ Once(c, e) /\ Once(h, e)
      /\ Before(l, LinkEvent, CONTINUE) /\ Before(c, LinkEvent, CONTINUE) /\ Before(h, LinkEvent, CONTINUE)
      /\ Flip("no_connection", set) # status => Has(h, HealthEvent)
  <2>1. l \in Seq(Events) /\ c \in Seq(Events) /\ h \in Seq(Events)
    BY EventTypes
  <2>2. /\ \A e : Has(l, e) <=> e = LinkEvent
        /\ \A e : Has(c, e) <=> e = CONTINUE
        /\ \A e : Once(l, e) /\ Once(c, e)
        /\ Before(l, LinkEvent, CONTINUE) /\ Before(c, LinkEvent, CONTINUE)
    BY EventsDiffer, SingleFacts
  <2>3. /\ \A e : Has(h, e) => e = HealthEvent
        /\ \A e : Once(h, e)
        /\ Before(h, LinkEvent, CONTINUE)
        /\ Flip("no_connection", set) # status => Has(h, HealthEvent)
    BY EventsDiffer, HealthFacts
  <2> HIDE DEF l, c, h
  <2>4. QED
    BY <2>1, <2>2, <2>3
<1>2. es = m \o c
  <2>1. m \in Seq(Events)
    BY <1>1
  <2>2. es = Append(m, CONTINUE)
    OBVIOUS
  <2>3. QED
    BY <2>1, <2>2, EventTypes, AppendIsConcat
<1> HIDE DEF h, l, c
<1>3. /\ m \in Seq(Events)
      /\ \A e : Has(m, e) <=> Has(l, e) \/ Has(h, e)
      /\ \A e : ~(Has(l, e) /\ Has(h, e)) => Once(m, e)
      /\ ~(Has(l, CONTINUE) /\ Has(h, LinkEvent)) => Before(m, LinkEvent, CONTINUE)
  BY <1>1, ConcatFacts
<1> HIDE DEF m
<1>4. /\ es \in Seq(Events)
      /\ \A e : Has(es, e) <=> Has(m, e) \/ Has(c, e)
      /\ \A e : Once(m, e) /\ ~(Has(m, e) /\ Has(c, e)) => Once(es, e)
      /\ Before(m, LinkEvent, CONTINUE) /\ ~(Has(m, CONTINUE) /\ Has(c, LinkEvent))
           => Before(es, LinkEvent, CONTINUE)
  <2> DEFINE s == m \o c
  <2>1. /\ s \in Seq(Events)
        /\ \A e : Has(s, e) <=> Has(m, e) \/ Has(c, e)
        /\ \A e : Once(m, e) /\ ~(Has(m, e) /\ Has(c, e)) => Once(s, e)
        /\ Before(m, LinkEvent, CONTINUE) /\ ~(Has(m, CONTINUE) /\ Has(c, LinkEvent))
             => Before(s, LinkEvent, CONTINUE)
    BY <1>1, <1>3, ConcatFacts
  <2>2. es = s
    BY <1>2
  <2> HIDE DEF s
  <2>3. QED
    BY <2>1, <2>2
<1>5. "udp_handler" \in Processes
  BY DEF Processes
<1>6. QED
  BY <1>1, <1>3, <1>4, <1>5, EventsDiffer DEF Announces

(* The ways a call of udp_handler may end, es being what it posts. *)
Starts(ev, es) ==
  /\ pt = "boot" /\ ev = "TIMER" /\ pt' = "wait"
  /\ state' = "UP" /\ es = <<LinkEvent>> /\ UNCHANGED status
Changes(ev, es) ==
  /\ pt = "wait" /\ ev = "TIMER" /\ pt' = "pause"
  /\ state' # state /\ Announces(es) /\ (status' = status \/ Has(es, HealthEvent))
Pauses(es) == pt = "wait" /\ pt' = "pause" /\ es = <<CONTINUE>> /\ UNCHANGED <<state, status>>
Resumes(ev, es) ==
  pt = "pause" /\ ev = "CONTINUE" /\ pt' = "wait" /\ es = <<>> /\ UNCHANGED <<state, status>>
Swallows(ev, es) ==
  /\ (pt = "boot" /\ ev # "TIMER") \/ (pt = "pause" /\ ev # "CONTINUE")
  /\ es = <<>> /\ UNCHANGED <<pt, state, owner, status>>

(* There are no others. *)
LEMMA UdpHandlerEnds ==
  ASSUME TypeOK, NEW q \in Seq(Events), NEW ev, udp_handler(ev, q)
  PROVE  \E es \in Seq(Events) :
           /\ ~lost' => ~lost /\ queue' = q \o es
           /\ Starts(ev, es) \/ Changes(ev, es) \/ Pauses(es) \/ Resumes(ev, es) \/ Swallows(ev, es)
<1> DEFINE Ends == \E es \in Seq(Events) :
             /\ ~lost' => ~lost /\ queue' = q \o es
             /\ Starts(ev, es) \/ Changes(ev, es) \/ Pauses(es) \/ Resumes(ev, es) \/ Swallows(ev, es)
<1> SUFFICES Ends
  OBVIOUS
<1>1. ASSUME NEW es \in Seq(Events), process_post(q, es)
      PROVE  ~lost' => ~lost /\ queue' = q \o es
  BY <1>1, PostFacts DEF TypeOK
<1>2. Append(<<>>, CONTINUE) = <<CONTINUE>> /\ <<CONTINUE>> \in Seq(Events)
  BY EventTypes
<1>3. q \o <<>> = q /\ <<>> \in Seq(Events)
  BY ConcatEmptySeq
<1>4. CASE pt = "boot" /\ ev = "TIMER" /\ Boot(q)
  <2>1. Starts(ev, <<LinkEvent>>) /\ process_post(q, <<LinkEvent>>)
    BY <1>4 DEF Boot, Starts
  <2>2. QED
    BY <1>1, <2>1, EventTypes
<1>5. CASE pt = "wait" /\ ev = "TIMER" /\ CheckLink(q)
  <2>1. CASE route # (state = "UP")
    <3>1. PICK es : es = Append(<<LinkEvent>> \o HealthEvents("no_connection", ~route), CONTINUE)
      OBVIOUS
    <3>2. process_post(q, es) /\ pt' = "pause" /\ status' = Flip("no_connection", ~route)
      BY <1>5, <2>1, <3>1 DEF CheckLink, Pause
    <3>3. state' # state
      BY <1>5, <2>1 DEF CheckLink, TypeOK
    <3>4. es \in Seq(Events) /\ Announces(es) /\ (status' = status \/ Has(es, HealthEvent))
      BY <3>1, <3>2, AnnounceFacts
    <3>5. QED
      BY <1>1, <1>5, <3>2, <3>3, <3>4 DEF Changes
  <2>2. CASE ~(route # (state = "UP"))
    <3>1. Pause(q, <<>>) /\ UNCHANGED <<state, status>>
      BY <1>5, <2>2 DEF CheckLink, TypeOK
    <3>2. Pauses(<<CONTINUE>>) /\ process_post(q, <<CONTINUE>>)
      BY <1>2, <1>5, <3>1 DEF Pause, Pauses
    <3>3. QED
      BY <1>1, <1>2, <3>2
  <2>3. QED
    BY <2>1, <2>2
<1>6. CASE pt = "wait" /\ Ignore(q)
  <2>1. Pauses(<<CONTINUE>>) /\ process_post(q, <<CONTINUE>>)
    BY <1>2, <1>6 DEF Ignore, Pause, Pauses
  <2>2. QED
    BY <1>1, <1>2, <2>1
<1>7. CASE /\ pt = "pause" /\ ev = "CONTINUE" /\ pt' = "wait" /\ queue' = q
           /\ UNCHANGED <<state, owner, status, lost>>
  <2>1. Resumes(ev, <<>>)
    BY <1>7 DEF Resumes
  <2>2. QED
    BY <1>3, <1>7, <2>1
<1>8. CASE ((pt = "boot" /\ ev # "TIMER") \/ (pt = "pause" /\ ev # "CONTINUE")) /\ Swallow(q)
  <2>1. Swallows(ev, <<>>) /\ queue' = q /\ UNCHANGED lost
    BY <1>8 DEF Swallow, Swallows, linkVars
  <2>2. QED
    BY <1>3, <2>1
<1> HIDE DEF Ends
<1>9. QED
  BY <1>4, <1>5, <1>6, <1>7, <1>8 DEF udp_handler

-----------------------------------------------------------------------------
(***************************************************************************)
(* Health, and the end of a pause.                                         *)
(***************************************************************************)

(* What was there, or is posted, is there. *)
LEMMA Stays ==
  ASSUME NEW q \in Seq(Events), NEW es \in Seq(Events), NEW e, Has(q, e) \/ Has(es, e)
  PROVE  Has(q \o es, e)
BY ConcatFacts

(* udp_handler posts an event for every change of its health bit, and        *)
(* CONTINUE before every pause.                                              *)
LEMMA UdpHandlerPosts ==
  ASSUME TypeOK, NEW q \in Seq(Events), NEW ev, udp_handler(ev, q), ~lost'
  PROVE  /\ ~lost
         /\ \A e : Has(q, e) => Has(queue', e)
         /\ status' = status \/ Has(queue', HealthEvent)
         /\ pt' = "pause" => Has(queue', CONTINUE) \/ (pt = "pause" /\ ev # "CONTINUE")
<1>1. PICK es \in Seq(Events) :
        /\ ~lost' => ~lost /\ queue' = q \o es
        /\ Starts(ev, es) \/ Changes(ev, es) \/ Pauses(es) \/ Resumes(ev, es) \/ Swallows(ev, es)
  BY UdpHandlerEnds
<1>2. ~lost /\ \A e : Has(q, e) \/ Has(es, e) => Has(queue', e)
  <2>1. \A e : Has(q, e) \/ Has(es, e) => Has(q \o es, e)
    BY Stays
  <2>2. QED
    BY <1>1, <2>1
<1>3. status' = status \/ Has(es, HealthEvent)
  BY <1>1 DEF Starts, Changes, Pauses, Resumes, Swallows
<1>4. pt' = "pause" => Has(es, CONTINUE) \/ (pt = "pause" /\ ev # "CONTINUE")
  <2>1. Has(<<CONTINUE>>, CONTINUE)
    BY SingleFacts
  <2>2. QED
    BY <1>1, <2>1 DEF Starts, Changes, Announces, Pauses, Resumes, Swallows
<1>5. QED
  BY <1>2, <1>3, <1>4

(* Both, as one invariant over the queue. *)
PostInv == HealthShown /\ PauseHasEnd

(* All actions. *)
LEMMA PostInvPreserved == TypeOK /\ PostInv /\ [Next]_vars => PostInv'
<1> SUFFICES ASSUME TypeOK, PostInv, [Next]_vars, ~lost'
             PROVE  /\ ~Has(queue', HealthEvent) => shown' = status'
                    /\ pt' = "pause" => Has(queue', CONTINUE)
  BY DEF PostInv, HealthShown, PauseHasEnd, Has
<1>1. /\ ~lost /\ ~Has(queue, HealthEvent) => shown = status
      /\ ~lost /\ pt = "pause" => Has(queue, CONTINUE)
      /\ queue \in Seq(Events) /\ lost \in BOOLEAN
  BY DEF PostInv, HealthShown, PauseHasEnd, Has, TypeOK
<1>2. queue # <<>> =>
        /\ Tail(queue) \in Seq(Events) /\ Head(queue) \in Events
        /\ \A e : Has(queue, e) <=> e = Head(queue) \/ Has(Tail(queue), e)
  BY <1>1, TailFacts
<1>3. ASSUME NEW es \in Seq(Events), process_post(queue, es), UNCHANGED shown,
             pt' = pt \/ Has(es, CONTINUE), status' = status \/ Has(es, HealthEvent)
      PROVE  /\ ~Has(queue', HealthEvent) => shown' = status'
             /\ pt' = "pause" => Has(queue', CONTINUE)
  <2>1. ~lost /\ \A e : Has(queue, e) \/ Has(es, e) => Has(queue', e)
    <3>1. \A e : Has(queue, e) \/ Has(es, e) => Has(queue \o es, e)
      BY <1>1, Stays
    <3>2. QED
      BY <1>1, <1>3, <3>1, PostFacts
  <2>2. QED
    BY <1>1, <1>3, <2>1
<1>4. CASE Deliver
  <2>1. CASE Head(queue).to = "udp_handler" /\ udp_handler(Head(queue).ev, Tail(queue))
    <3>1. queue # <<>> /\ UNCHANGED shown
      BY <1>4 DEF Deliver, heardVars
    <3>2. /\ ~lost
          /\ \A e : Has(Tail(queue), e) => Has(queue', e)
          /\ status' = status \/ Has(queue', HealthEvent)
          /\ pt' = "pause" => Has(queue', CONTINUE) \/ (pt = "pause" /\ Head(queue).ev # "CONTINUE")
      BY <1>2, <2>1, <3>1, UdpHandlerPosts
    <3>3. Head(queue) # HealthEvent /\ (Head(queue) = CONTINUE => Head(queue).ev = "CONTINUE")
      BY <2>1 DEF HealthEvent, CONTINUE, Event
    <3>4. QED
      BY <1>1, <1>2, <3>1, <3>2, <3>3
  <2>2. CASE Head(queue).to \in {"datetime", "other"} /\ queue' = Tail(queue) /\ UNCHANGED <<linkVars, status, lost>>
    <3>1. Head(queue) # HealthEvent /\ Head(queue) # CONTINUE
      BY <2>2 DEF HealthEvent, CONTINUE, Event
    <3>2. QED
      BY <1>1, <1>2, <1>4, <2>2, <3>1 DEF Deliver, linkVars, heardVars
  <2>3. QED
    BY <1>4, <2>1, <2>2 DEF Deliver
<1>5. CASE DeliverBroadcast
  <2>1. Head(queue) # CONTINUE
    BY <1>5 DEF DeliverBroadcast, CONTINUE, Event
  <2>2. Head(queue) = HealthEvent => shown' = status'
    BY <1>5 DEF DeliverBroadcast, HealthEvent, Event
  <2>3. Head(queue) # HealthEvent => UNCHANGED shown
    BY <1>2, <1>5, EventKinds DEF DeliverBroadcast
  <2>4. QED
    BY <1>1, <1>2, <1>5, <2>1, <2>2, <2>3 DEF DeliverBroadcast, linkVars
<1>6. ASSUME NEW ev, udp_handler(ev, queue), ev # "CONTINUE", UNCHANGED shown
      PROVE  /\ ~Has(queue', HealthEvent) => shown' = status'
             /\ pt' = "pause" => Has(queue', CONTINUE)
  <2>1. /\ ~lost
        /\ \A e : Has(queue, e) => Has(queue', e)
        /\ status' = status \/ Has(queue', HealthEvent)
        /\ pt' = "pause" => Has(queue', CONTINUE) \/ pt = "pause"
    BY <1>1, <1>6, UdpHandlerPosts
  <2>2. QED
    BY <1>1, <1>6, <2>1
<1>7. CASE BroadcastToSelf
  <2>1. delivering # "CONTINUE"
    BY DEF TypeOK, Broadcasts
  <2>2. QED
    BY <1>6, <1>7, <2>1 DEF BroadcastToSelf, heardVars
<1>8. ASSUME NEW t \in Timers, Expire(t)
      PROVE  /\ ~Has(queue', HealthEvent) => shown' = status'
             /\ pt' = "pause" => Has(queue', CONTINUE)
  <2>1. owner[t] \in Processes
    BY <1>8 DEF Expire, etimer_expired, TypeOK
  <2>2. TIMER(owner[t]) \in Events /\ <<TIMER(owner[t])>> \in Seq(Events)
    BY <2>1, EventTypes
  <2>3. queue' = queue \o <<TIMER(owner[t])>> /\ UNCHANGED <<pt, status, shown, lost>>
    BY <1>1, <1>8, <2>2, AppendIsConcat DEF Expire, linkVars, heardVars
  <2>4. \A e : Has(queue, e) => Has(queue', e)
    BY <1>1, <2>2, <2>3, Stays
  <2>5. QED
    BY <1>1, <2>3, <2>4
<1>9. CASE Packet
  BY <1>6, <1>9 DEF Packet, heardVars
<1>10. CASE updateDatetime
  <2>1. Append(<<>>, CONTINUE) = <<CONTINUE>> /\ <<CONTINUE>> \in Seq(Events)
    BY EventTypes
  <2>2. Has(<<CONTINUE>>, CONTINUE)
    BY SingleFacts
  <2>3. QED
    BY <1>3, <1>10, <2>1, <2>2 DEF updateDatetime, Pause, heardVars
<1>11. ASSUME NEW b \in BOOLEAN, Sensor(b)
       PROVE  /\ ~Has(queue', HealthEvent) => shown' = status'
              /\ pt' = "pause" => Has(queue', CONTINUE)
  <2>1. PICK es \in Seq(Events) : es = HealthEvents("hardware", b)
    BY EventTypes
  <2>2. process_post(queue, es) /\ UNCHANGED <<shown, pt>> /\ (status' = status \/ Has(es, HealthEvent))
    BY <1>11, <2>1, HealthFacts DEF Sensor, health_update, linkVars, heardVars
  <2>3. QED
    BY <1>3, <2>2
<1>12. CASE Other
  BY <1>3, <1>12, EventTypes DEF Other, linkVars, heardVars
<1>13. CASE RouteChange \/ UNCHANGED vars
  BY <1>1, <1>13 DEF RouteChange, vars, linkVars, heardVars
<1>14. QED
  BY <1>4, <1>5, <1>7, <1>8, <1>9, <1>10, <1>11, <1>12, <1>13 DEF Next, DoEvent, Poll

(* When no health event is under way, the display shows the device's health, *)
(* whoever reported and however late the event was delivered, unless a post  *)
(* was refused.                                                              *)
THEOREM HealthIsShown == Spec => []HealthShown
<1>1. Init => PostInv
  BY DEF Init, PostInv, HealthShown, PauseHasEnd
<1>2. PostInv => HealthShown
  BY DEF PostInv
<1>3. QED
  BY <1>1, <1>2, PostInvPreserved, NodeTypes, PTL DEF Spec

(* udp_handler never pauses without the CONTINUE that ends the pause in the  *)
(* queue, unless a post was refused: the queue is the only way to lose it.   *)
THEOREM PausesEnd == Spec => []PauseHasEnd
<1>1. Init => PostInv
  BY DEF Init, PostInv, HealthShown, PauseHasEnd
<1>2. PostInv => PauseHasEnd
  BY DEF PostInv
<1>3. QED
  BY <1>1, <1>2, PostInvPreserved, NodeTypes, PTL DEF Spec

-----------------------------------------------------------------------------
(***************************************************************************)
(* The order of the events.                                                *)
(***************************************************************************)

(* An event that is not there is before every other, and there only once. *)
LEMMA Absent ==
  ASSUME NEW q, NEW e, ~Has(q, e)
  PROVE  Once(q, e) /\ \A f : Before(q, e, f)
BY DEF Has, Once, Before

(* An event other than the announcement is taken out of the queue. *)
LEMMA TailLink ==
  ASSUME NEW q \in Seq(Events), q # <<>>, LinkOn(q), Head(q) # LinkEvent
  PROVE  LinkOn(Tail(q))
<1>1. /\ \A e : Has(q, e) <=> e = Head(q) \/ Has(Tail(q), e)
      /\ \A e : Once(q, e) => Once(Tail(q), e)
      /\ \A e, f : Before(q, e, f) => Before(Tail(q), e, f)
  BY TailFacts
<1>2. QED
  BY <1>1 DEF LinkOn, Booting, Linked

(* Events that udp_handler does not take part in are posted. *)
LEMMA PostLink ==
  ASSUME NEW q \in Seq(Events), NEW es \in Seq(Events), LinkOn(q),
         ~Has(es, LinkEvent), ~Has(es, CONTINUE), pt = "boot" => ~Has(es, TIMER("udp_handler"))
  PROVE  LinkOn(q \o es)
<1> DEFINE s == q \o es
<1>1. /\ \A e : Has(s, e) <=> Has(q, e) \/ Has(es, e)
      /\ \A e : Once(q, e) /\ Once(es, e) /\ ~(Has(q, e) /\ Has(es, e)) => Once(s, e)
      /\ \A e, f : Before(q, e, f) /\ Before(es, e, f) /\ ~(Has(q, f) /\ Has(es, e)) => Before(s, e, f)
  BY ConcatFacts
<1>2. /\ \A e : ~Has(es, e) => Once(es, e)
      /\ \A e, f : ~Has(es, e) => Before(es, e, f)
  BY Absent
<1> HIDE DEF s
<1>3. pt = "boot" => Booting(s)
  BY <1>1, <1>2 DEF LinkOn, Booting
<1>4. pt # "boot" => Linked(s)
  BY <1>1, <1>2 DEF LinkOn, Linked
<1>5. QED
  BY <1>3, <1>4 DEF LinkOn, s

(* udp_handler pauses, and has nothing to announce. *)
LEMMA PausesLink ==
  ASSUME NEW q \in Seq(Events), LinkOn(q), queue' = q \o <<CONTINUE>>,
         pt = "wait", pt' = "pause", UNCHANGED <<state, heard>>
  PROVE  LinkOn(queue)'
<1> DEFINE es == <<CONTINUE>>
<1>1. LinkEvent # CONTINUE /\ es \in Seq(Events)
  BY EventTypes, EventsDiffer
<1>2. /\ \A e : Has(es, e) <=> e = CONTINUE
      /\ \A e : Once(es, e)
      /\ Before(es, LinkEvent, CONTINUE)
  BY <1>1, SingleFacts
<1> HIDE DEF es
<1>3. /\ \A e : Has(q \o es, e) <=> Has(q, e) \/ Has(es, e)
      /\ \A e : Once(q, e) /\ Once(es, e) /\ ~(Has(q, e) /\ Has(es, e)) => Once(q \o es, e)
      /\ Before(q, LinkEvent, CONTINUE) /\ Before(es, LinkEvent, CONTINUE)
           /\ ~(Has(q, CONTINUE) /\ Has(es, LinkEvent)) => Before(q \o es, LinkEvent, CONTINUE)
  BY <1>1, ConcatFacts
<1>4. queue' = q \o es
  BY DEF es
<1>5. ~Has(q, CONTINUE) /\ Once(q, LinkEvent) /\ (Has(q, LinkEvent) <=> state # heard)
  BY DEF LinkOn, Linked
<1>6. Once(q, CONTINUE) /\ Before(q, LinkEvent, CONTINUE)
  BY <1>5 DEF Has, Once, Before
<1>7. /\ Once(queue', LinkEvent) /\ Once(queue', CONTINUE)
      /\ Has(queue', LinkEvent) <=> state # heard
      /\ Before(queue', LinkEvent, CONTINUE)
  BY <1>1, <1>2, <1>3, <1>4, <1>5, <1>6
<1>8. QED
  BY <1>7 DEF LinkOn, Linked

(* udp_handler is called, q being left of the queue: of the events that make *)
(* it act, the one that is delivered was the last that could come before an  *)
(* announcement.                                                             *)
LEMMA UdpHandlerLink ==
  ASSUME TypeOK, NEW q \in Seq(Events), LinkOn(q), NEW ev, udp_handler(ev, q), ~lost', UNCHANGED heard,
         pt = "boot" /\ ev = "TIMER" => ~Has(q, TIMER("udp_handler")),
         pt = "wait" /\ ev = "TIMER" => ~Has(q, LinkEvent),
         pt = "pause" /\ ev = "CONTINUE" => ~Has(q, LinkEvent) /\ ~Has(q, CONTINUE)
  PROVE  LinkOn(queue)'
<1>1. PICK es \in Seq(Events) :
        /\ ~lost' => ~lost /\ queue' = q \o es
        /\ Starts(ev, es) \/ Changes(ev, es) \/ Pauses(es) \/ Resumes(ev, es) \/ Swallows(ev, es)
  BY UdpHandlerEnds
<1>2. /\ \A e : Has(queue', e) <=> Has(q, e) \/ Has(es, e)
      /\ \A e : Once(q, e) /\ Once(es, e) /\ ~(Has(q, e) /\ Has(es, e)) => Once(queue', e)
      /\ \A e, f : Before(q, e, f) /\ Before(es, e, f) /\ ~(Has(q, f) /\ Has(es, e)) => Before(queue', e, f)
  <2> DEFINE s == q \o es
  <2>1. /\ \A e : Has(s, e) <=> Has(q, e) \/ Has(es, e)
        /\ \A e : Once(q, e) /\ Once(es, e) /\ ~(Has(q, e) /\ Has(es, e)) => Once(s, e)
        /\ \A e, f : Before(q, e, f) /\ Before(es, e, f) /\ ~(Has(q, f) /\ Has(es, e)) => Before(s, e, f)
    BY ConcatFacts
  <2>2. queue' = s
    BY <1>1
  <2> HIDE DEF s
  <2>3. QED
    BY <2>1, <2>2
<1>3. /\ \A e : ~Has(es, e) => Once(es, e) /\ \A f : Before(es, e, f)
      /\ \A e : ~Has(q, e) => Once(q, e) /\ \A f : Before(q, e, f)
  BY Absent
<1>4. LinkEvent # CONTINUE /\ TIMER("udp_handler") # LinkEvent /\ TIMER("udp_handler") # CONTINUE
  BY EventsDiffer DEF Processes
<1>5. CASE Starts(ev, es)
  <2>1. /\ \A e : Has(es, e) <=> e = LinkEvent
        /\ \A e : Once(es, e)
        /\ Before(es, LinkEvent, TIMER("udp_handler"))
    BY <1>4, <1>5, SingleFacts DEF Starts
  <2>2. /\ pt = "boot" /\ pt' = "wait" /\ ev = "TIMER" /\ state' # heard'
        /\ ~Has(q, LinkEvent) /\ ~Has(q, CONTINUE)
    BY <1>5 DEF Starts, LinkOn, Booting
  <2>3. QED
    BY <1>2, <1>3, <1>4, <2>1, <2>2 DEF LinkOn, Linked
<1>6. CASE Changes(ev, es)
  <2>1. /\ pt = "wait" /\ pt' = "pause" /\ ev = "TIMER" /\ state' # state
        /\ ~Has(q, LinkEvent) /\ ~Has(q, CONTINUE) /\ state = heard
    BY <1>6 DEF Changes, LinkOn, Linked
  <2>2. QED
    BY <1>2, <1>3, <1>6, <2>1 DEF Changes, Announces, LinkOn, Linked
<1>7. CASE Pauses(es)
  <2>1. queue' = q \o <<CONTINUE>> /\ pt = "wait" /\ pt' = "pause" /\ UNCHANGED state
    BY <1>1, <1>7 DEF Pauses
  <2>2. QED
    BY <2>1, PausesLink
<1>8. CASE Resumes(ev, es)
  <2>1. \A e : ~Has(es, e)
    BY <1>8, SingleFacts DEF Resumes
  <2>2. /\ pt = "pause" /\ pt' = "wait" /\ ev = "CONTINUE" /\ UNCHANGED <<state, heard>>
        /\ Has(q, LinkEvent) <=> state # heard
    BY <1>8 DEF Resumes, LinkOn, Linked
  <2>3. ~Has(queue', LinkEvent) /\ ~Has(queue', CONTINUE)
    BY <1>2, <2>1, <2>2
  <2>4. Once(queue', LinkEvent) /\ \A f : Before(queue', LinkEvent, f)
    BY <2>3, Absent
  <2>5. QED
    BY <2>2, <2>3, <2>4 DEF LinkOn, Linked
<1>9. CASE Swallows(ev, es)
  <2>1. q \o <<>> = q
    BY ConcatEmptySeq
  <2>2. queue' = q /\ UNCHANGED <<pt, state, owner, heard>>
    BY <1>1, <1>9, <2>1 DEF Swallows
  <2>3. QED
    BY <2>2 DEF LinkOn, Booting, Linked
<1>10. QED
  BY <1>1, <1>5, <1>6, <1>7, <1>8, <1>9

(* All actions. *)
LEMMA LinkInvPreserved == TypeOK /\ LinkInv /\ [Next]_vars => LinkInv'
<1> SUFFICES ASSUME TypeOK, LinkInv, [Next]_vars, ~lost'
             PROVE  LinkOn(queue)'
  BY DEF LinkInv
<1>1. queue \in Seq(Events) /\ lost \in BOOLEAN /\ (~lost => LinkOn(queue))
  BY DEF TypeOK, LinkInv
<1>2. queue # <<>> =>
        /\ Tail(queue) \in Seq(Events) /\ Head(queue) \in Events
        /\ \A e : Has(queue, e) <=> e = Head(queue) \/ Has(Tail(queue), e)
        /\ \A e : Once(queue, e) => Once(Tail(queue), e) /\ ~(e = Head(queue) /\ Has(Tail(queue), e))
        /\ \A e, f : Before(queue, e, f) => ~(f = Head(queue) /\ Has(queue, e))
  BY <1>1, TailFacts
<1>3. ASSUME NEW es \in Seq(Events), process_post(queue, es), UNCHANGED <<pt, state, heard, owner>>,
             ~Has(es, LinkEvent), ~Has(es, CONTINUE), ~Has(es, TIMER("udp_handler"))
      PROVE  LinkOn(queue)'
  <2>1. ~lost /\ queue' = queue \o es
    BY <1>1, <1>3, PostFacts
  <2>2. LinkOn(queue \o es)
    BY <1>1, <1>3, <2>1, PostLink
  <2>3. LinkOn(queue')
    BY <2>1, <2>2
  <2>4. QED
    BY <1>3, <2>3 DEF LinkOn, Booting, Linked
<1>4. CASE Deliver
  <2>0. queue # <<>> /\ UNCHANGED heard
    BY <1>4 DEF Deliver, heardVars
  <2>1. CASE Head(queue).to = "udp_handler" /\ udp_handler(Head(queue).ev, Tail(queue))
    <3>1. ~lost
      BY <1>2, <2>0, <2>1, UdpHandlerPosts
    <3>2. Head(queue) # LinkEvent
      BY <2>1 DEF LinkEvent, Event
    <3>3. LinkOn(queue) /\ LinkOn(Tail(queue))
      BY <1>1, <2>0, <3>1, <3>2, TailLink
    <3>4. \/ Head(queue) = TIMER("udp_handler") /\ Head(queue).ev = "TIMER"
          \/ Head(queue) = CONTINUE /\ Head(queue).ev = "CONTINUE"
      BY <1>2, <2>0, <2>1, EventKinds
    <3>5. CASE Head(queue) = TIMER("udp_handler") /\ Head(queue).ev = "TIMER"
      <4>1. /\ pt = "boot" => ~Has(Tail(queue), TIMER("udp_handler"))
            /\ pt = "wait" => ~Has(Tail(queue), LinkEvent)
        BY <1>2, <2>0, <3>3, <3>5 DEF LinkOn, Booting, Linked
      <4>2. QED
        BY <1>2, <2>0, <2>1, <3>3, <3>5, <4>1, UdpHandlerLink
    <3>6. CASE Head(queue) = CONTINUE /\ Head(queue).ev = "CONTINUE"
      <4>1. pt = "pause" => ~Has(Tail(queue), LinkEvent) /\ ~Has(Tail(queue), CONTINUE)
        BY <1>2, <2>0, <3>3, <3>6 DEF LinkOn, Linked
      <4>2. QED
        BY <1>2, <2>0, <2>1, <3>3, <3>6, <4>1, UdpHandlerLink
    <3>7. QED
      BY <3>4, <3>5, <3>6
  <2>2. CASE /\ Head(queue).to \in {"datetime", "other"} /\ queue' = Tail(queue)
             /\ UNCHANGED <<linkVars, lost>>
             /\ owner' = owner \/ owner' = add_timer("update", "datetime")
    <3>1. Head(queue) # LinkEvent
      BY <2>2 DEF LinkEvent, Event
    <3>2. LinkOn(Tail(queue))
      BY <1>1, <2>0, <2>2, <3>1, TailLink
    <3>3. /\ owner'["unreachable"] = owner["unreachable"]
          /\ owner["update"] \in {"datetime", "NONE"} => owner'["update"] \in {"datetime", "NONE"}
      BY <2>2 DEF add_timer, TypeOK, Timers
    <3>4. QED
      BY <2>0, <2>2, <3>2, <3>3 DEF linkVars, LinkOn, Booting, Linked
  <2>3. QED
    BY <1>4, <2>1, <2>2 DEF Deliver, datetime_service
<1>5. CASE DeliverBroadcast
  <2>1. queue # <<>> /\ queue' = Tail(queue) /\ UNCHANGED <<pt, state, owner, lost>> /\ LinkOn(queue)
    BY <1>1, <1>5 DEF DeliverBroadcast, linkVars
  <2>2. CASE Head(queue) = LinkEvent
    <3>1. heard' = state
      BY <1>5, <2>2 DEF DeliverBroadcast, LinkEvent, Event
    <3>2. pt # "boot" /\ ~Has(Tail(queue), LinkEvent)
      BY <1>2, <2>1, <2>2 DEF LinkOn, Booting, Linked
    <3>3. /\ \A e : Has(Tail(queue), e) => Has(queue, e)
          /\ \A e : Once(queue, e) => Once(Tail(queue), e)
          /\ \A f : Before(Tail(queue), LinkEvent, f)
      BY <1>2, <2>1, <3>2, Absent
    <3>4. QED
      BY <2>1, <3>1, <3>2, <3>3 DEF LinkOn, Linked
  <2>3. CASE Head(queue) # LinkEvent
    <3>1. UNCHANGED heard
      BY <1>2, <1>5, <2>1, <2>3, EventKinds DEF DeliverBroadcast
    <3>2. LinkOn(Tail(queue))
      BY <1>1, <2>1, <2>3, TailLink
    <3>3. QED
      BY <2>1, <3>1, <3>2 DEF LinkOn, Booting, Linked
  <2>4. QED
    BY <2>2, <2>3
<1>6. ASSUME NEW ev, udp_handler(ev, queue), ev \notin {"TIMER", "CONTINUE"}, UNCHANGED heard
      PROVE  LinkOn(queue)'
  <2>1. ~lost
    BY <1>1, <1>6, UdpHandlerPosts
  <2>2. QED
    BY <1>1, <1>6, <2>1, UdpHandlerLink
<1>7. CASE BroadcastToSelf
  <2>1. delivering \notin {"TIMER", "CONTINUE"}
    BY DEF TypeOK, Broadcasts
  <2>2. QED
    BY <1>6, <1>7, <2>1 DEF BroadcastToSelf, heardVars
<1>8. CASE Packet
  BY <1>6, <1>8 DEF Packet, heardVars
<1>9. ASSUME NEW t \in Timers, Expire(t)
      PROVE  LinkOn(queue)'
  <2>1. owner[t] \in Processes
    BY <1>9 DEF Expire, etimer_expired, TypeOK
  <2>2. PICK es \in Seq(Events) : es = <<TIMER(owner[t])>>
    <3>1. TIMER(owner[t]) \in Events
      BY <2>1, EventTypes
    <3>2. <<TIMER(owner[t])>> \in Seq(Events)
      BY <3>1
    <3>3. QED
      BY <3>2
  <2>3. queue' = queue \o es /\ UNCHANGED <<pt, state, heard, lost>> /\ LinkOn(queue)
    <3>1. TIMER(owner[t]) \in Events
      BY <2>1, EventTypes
    <3>2. Append(queue, TIMER(owner[t])) = queue \o <<TIMER(owner[t])>>
      BY <1>1, <3>1, AppendIsConcat
    <3>3. QED
      BY <1>1, <1>9, <2>2, <3>2 DEF Expire, linkVars, heardVars
  <2>4. /\ \A e : Has(es, e) <=> e = TIMER(owner[t])
        /\ \A e : Once(es, e)
    BY <2>2, SingleFacts
  <2>5. ~Has(es, LinkEvent) /\ ~Has(es, CONTINUE)
    BY <2>1, <2>4, EventsDiffer
  <2>6. CASE pt # "boot"
    <3>1. LinkOn(queue')
      BY <1>1, <2>3, <2>5, <2>6, PostLink
    <3>2. QED
      BY <2>3, <2>6, <3>1 DEF LinkOn, Linked
  <2>7. CASE pt = "boot"
    <3>1. Booting(queue)
      BY <2>3, <2>7 DEF LinkOn
    <3>2. \/ t = "unreachable" /\ owner[t] = "udp_handler"
          \/ t = "update" /\ owner[t] = "datetime"
      BY <1>9, <3>1 DEF Expire, etimer_expired, Timers, Booting
    <3>3. /\ \A e : Has(queue', e) <=> Has(queue, e) \/ Has(es, e)
          /\ \A e : Once(queue, e) /\ Once(es, e) /\ ~(Has(queue, e) /\ Has(es, e)) => Once(queue', e)
      BY <1>1, <2>3, ConcatFacts
    <3>4. owner' = [owner EXCEPT ![t] = "NONE"]
      BY <1>9 DEF Expire
    <3>5. CASE t = "unreachable" /\ owner[t] = "udp_handler"
      <4>1. ~Has(queue, TIMER("udp_handler"))
        BY <3>1, <3>5 DEF Booting
      <4>2. owner'["unreachable"] = "NONE" /\ owner'["update"] = owner["update"]
        BY <3>4, <3>5 DEF TypeOK, Timers
      <4>3. QED
        BY <2>3, <2>4, <2>5, <2>7, <3>1, <3>3, <4>1, <4>2 DEF LinkOn, Booting
    <3>6. CASE t = "update" /\ owner[t] = "datetime"
      <4>1. ~Has(es, TIMER("udp_handler"))
        BY <2>4, <3>6, EventsDiffer
      <4>2. owner'["update"] = "NONE" /\ owner'["unreachable"] = owner["unreachable"]
        BY <3>4, <3>6 DEF TypeOK, Timers
      <4>3. QED
        BY <2>3, <2>4, <2>5, <2>7, <3>1, <3>3, <4>1, <4>2 DEF LinkOn, Booting
    <3>7. QED
      BY <3>2, <3>5, <3>6
  <2>8. QED
    BY <2>6, <2>7
<1>10. CASE updateDatetime
  <2>1. Append(<<>>, CONTINUE) = <<CONTINUE>> /\ <<CONTINUE>> \in Seq(Events)
    BY EventTypes
  <2>2. process_post(queue, <<CONTINUE>>) /\ pt = "wait" /\ pt' = "pause" /\ UNCHANGED <<state, heard>>
    BY <1>10, <2>1 DEF updateDatetime, Pause, heardVars
  <2>3. ~lost /\ queue' = queue \o <<CONTINUE>>
    BY <1>1, <2>1, <2>2, PostFacts
  <2>4. QED
    BY <1>1, <2>2, <2>3, PausesLink
<1>11. ASSUME NEW b \in BOOLEAN, Sensor(b)
       PROVE  LinkOn(queue)'
  <2>1. PICK es \in Seq(Events) : es = HealthEvents("hardware", b)
    BY EventTypes
  <2>2. process_post(queue, es) /\ UNCHANGED <<pt, state, heard, owner>>
    BY <1>11, <2>1 DEF Sensor, health_update, linkVars, heardVars
  <2>3. \A e : Has(es, e) => e = HealthEvent
    BY <2>1, HealthFacts
  <2>4. QED
    BY <1>3, <2>2, <2>3, EventsDiffer DEF Processes
<1>12. CASE Other
  <2>1. \A e : Has(<<OtherEvent>>, e) => e = OtherEvent
    BY SingleFacts
  <2>2. QED
    BY <1>3, <1>12, <2>1, EventTypes, EventsDiffer DEF Other, linkVars, heardVars, Processes
<1>13. CASE RouteChange \/ UNCHANGED vars
  BY <1>1, <1>13 DEF RouteChange, vars, linkVars, heardVars, LinkOn, Booting, Linked
<1>14. QED
  BY <1>4, <1>5, <1>7, <1>8, <1>9, <1>10, <1>11, <1>12, <1>13 DEF Next, DoEvent, Poll

(* Every change of the link reaches the listeners as it was, whatever else   *)
(* is posted between the post and the call: each call tells them something   *)
(* new, unless a post was refused.                                           *)
THEOREM ChangesAreHeard == Spec => ChangesHeard
<1> DEFINE Heard == delivering = "none" /\ delivering' = "udp_handler_event" => lost \/ state # heard
<1>1. Init => LinkInv
  <2>1. \A e, f : ~Has(<<>>, e) /\ Once(<<>>, e)
    BY SingleFacts
  <2>2. QED
    BY <2>1 DEF Init, LinkInv, LinkOn, Booting
<1>2. Spec => [](TypeOK /\ LinkInv)
  BY <1>1, LinkInvPreserved, NodeTypes, PTL DEF Spec
<1>3. TypeOK /\ LinkInv /\ Next => Heard
  <2> SUFFICES ASSUME TypeOK, LinkInv, Next, delivering = "none", delivering' = "udp_handler_event", ~lost
               PROVE  state # heard
    OBVIOUS
  <2>1. DeliverBroadcast
    BY DEF Next, DoEvent, Poll, Deliver, BroadcastToSelf, Expire, Packet, updateDatetime, RouteChange,
           Sensor, Other
  <2>2. queue \in Seq(Events) /\ queue # <<>> /\ Head(queue).to = "all" /\ Head(queue).ev = "udp_handler_event"
    BY <2>1 DEF DeliverBroadcast, TypeOK
  <2>3. Head(queue) \in Events /\ Has(queue, Head(queue))
    BY <2>2, TailFacts
  <2>4. Head(queue) = LinkEvent
    BY <2>2, <2>3, EventKinds
  <2>5. QED
    BY <2>3, <2>4 DEF LinkInv, LinkOn, Booting, Linked
<1>4. Spec => [][Heard]_vars
  <2>1. TypeOK /\ LinkInv /\ [Next]_vars => [Heard]_vars
    BY <1>3
  <2>2. QED
    BY <1>2, <2>1, PTL DEF Spec
<1>5. QED
  BY <1>4 DEF ChangesHeard
=============================================================================
