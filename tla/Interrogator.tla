---------------------------- MODULE Interrogator ----------------------------
(***************************************************************************)
(* libhexabus' DeviceInterrogator: queries that are sent to devices, sent  *)
(* again every second and given up after a number of tries, with one timer *)
(* for all of them.                                                        *)
(*                                                                         *)
(* The timer is a boost::asio deadline_timer.  Setting it again cancels    *)
(* the wait that is outstanding, but not a handler that has already been   *)
(* queued; and the handler does not look which query it was meant for, or  *)
(* at the time: it takes the query with the earliest deadline.             *)
(*                                                                         *)
(* The operations are given as relations between the queries before and    *)
(* after, for a client module that says who asks and what an answer does.  *)
(* Deadlines are counted from now, so that time has no bound.              *)
(***************************************************************************)
EXTENDS Integers, Functions

CONSTANTS
  Queries,    \* what can be asked; a query is asked again only when it has ended
  device,     \* query -> the device it is for
  Second,     \* one second, in ticks of the clock
  max_tries,  \* 5 in the build
  MaxLate,    \* bound: the event loop is at most this many ticks behind
  MaxReady    \* bound: handlers of the timer that are queued at one time

ASSUME TimesAssumption == Second \in Nat \ {0} /\ max_tries \in Nat \ {0}
ASSUME LoopAssumption  == MaxLate \in Nat \ {0} /\ MaxReady \in Nat \ {0}

VARIABLES
  running_queries,  \* query -> its retries, its deadline and, as a history, its age
  wait,             \* the expiry of the timer's outstanding wait, if there is one
  ready,            \* handlers of expired waits that the loop has yet to call
  overtaken         \* the timer was set again while such a handler was queued

askVars == <<running_queries, wait, ready, overtaken>>

Running  == DOMAIN running_queries
Patience == max_tries * Second
Query    == [retries : 0 .. max_tries - 1, deadline : Int, age : 0 .. Patience]

InterrogatorTypeOK ==
  /\ Running \subseteq Queries
  /\ running_queries \in [Running -> Query]
  /\ wait \subseteq Int /\ \A s, t \in wait : s = t
  /\ ready \in 0 .. MaxReady
  /\ overtaken \in BOOLEAN

InterrogatorInit ==
  /\ running_queries = [q \in {} |-> 0]
  /\ wait = {}
  /\ ready = 0
  /\ overtaken = FALSE

-----------------------------------------------------------------------------
(* The heap's first: a query of which no other has an earlier deadline. *)
First(rq, q) == \A p \in DOMAIN rq : rq[q].deadline <= rq[p].deadline

(* reschedule_timer at the end of a handler that leaves the queries rq;      *)
(* queued is the number of the timer's handlers that wait to be called.      *)
reschedule_timer(rq, queued) ==
  /\ running_queries' = rq
  /\ wait' = IF DOMAIN rq = {} THEN wait
             ELSE {rq[q].deadline : q \in {p \in DOMAIN rq : First(rq, p)}}
  /\ overtaken' = (overtaken \/ (DOMAIN rq # {} /\ queued > 0))

(* Mutant: nobody sets the timer. *)
QueuedWithoutTimer(q) ==
  /\ running_queries' = [p \in Running \cup {q} |->
       IF p = q THEN [retries |-> 0, deadline |-> Second, age |-> 0] ELSE running_queries[p]]
  /\ UNCHANGED <<wait, ready, overtaken>>

(* queue_query when the packet could be sent.  (When it could not, the      *)
(* caller's failure callback is called and nothing else happens.)  The timer *)
(* is only set for the first query.                                          *)
queue_query(q) ==
  LET query == [retries |-> 0, deadline |-> Second, age |-> 0]
      rq    == [p \in Running \cup {q} |-> IF p = q THEN query ELSE running_queries[p]]
  IN  /\ IF Running = {}
           THEN reschedule_timer(rq, ready)
           ELSE running_queries' = rq /\ UNCHANGED <<wait, overtaken>>
      /\ UNCHANGED ready

(* packet_received: the queries that are answered end, and the timer is set again  *)
(* whether or not there were any.                                            *)
Answered(d) == {q \in Running : device[q] = d}

(* Mutant: the timer keeps the deadline of a query that is gone. *)
KeepsTimer(d) ==
  /\ running_queries' = Restrict(running_queries, Running \ Answered(d))
  /\ UNCHANGED <<wait, ready, overtaken>>

packet_received(d) ==
  /\ reschedule_timer(Restrict(running_queries, Running \ Answered(d)), ready)
  /\ UNCHANGED ready

-----------------------------------------------------------------------------
(***************************************************************************)
(* timeout.                                                                *)
(***************************************************************************)

(* A handler is called; the timer is set again at its end. *)
HandlerEnds(rq) ==
  /\ ready > 0
  /\ ready' = ready - 1
  /\ reschedule_timer(rq, ready - 1)

(* There is nothing to do, not even to set the timer. *)
timeout_idle ==
  /\ ready > 0
  /\ Running = {}
  /\ ready' = ready - 1
  /\ UNCHANGED <<running_queries, wait, overtaken>>

(* Mutants: one try less; one more. *)
GivesUpBefore(q) == running_queries[q].retries + 2 >= max_tries
GivesUpAfter(q)  == running_queries[q].retries = max_tries

(* The comparison of timeout: the last try has been made. *)
Exhausted(q) == running_queries[q].retries = max_tries - 1

(* q has been tried often enough. *)
timeout_gives_up(q) ==
  /\ q \in Running /\ First(running_queries, q)
  /\ Exhausted(q)
  /\ HandlerEnds(Restrict(running_queries, Running \ {q}))

(* q cannot be sent again, which ends it too. *)
timeout_unsent(q) ==
  /\ q \in Running /\ First(running_queries, q)
  /\ ~Exhausted(q)
  /\ HandlerEnds(Restrict(running_queries, Running \ {q}))

(* q is sent again, and given another second from its deadline. *)
timeout_resends(q) ==
  /\ q \in Running /\ First(running_queries, q)
  /\ ~Exhausted(q)
  /\ HandlerEnds([running_queries EXCEPT ![q].retries = @ + 1, ![q].deadline = @ + Second])

-----------------------------------------------------------------------------
(***************************************************************************)
(* The loop and the clock.                                                 *)
(***************************************************************************)

(* The wait has expired: its handler is queued. *)
Expire ==
  /\ ready < MaxReady
  /\ \E t \in wait : t <= 0
  /\ wait' = {}
  /\ ready' = ready + 1
  /\ UNCHANGED <<running_queries, overtaken>>

(* Time passes, unless that would put the loop behind by more than MaxLate:  *)
(* a deadline that no wait and no handler is about does not hold it up.      *)
Tick ==
  /\ \A t \in wait : t > -MaxLate
  /\ ready > 0 => \A q \in Running : running_queries[q].deadline > -MaxLate
  /\ running_queries' = [q \in Running |-> 
       [running_queries[q] EXCEPT !.deadline = @ - 1, !.age = IF @ < Patience THEN @ + 1 ELSE @]]
  /\ wait' = {t - 1 : t \in wait}
  /\ UNCHANGED <<ready, overtaken>>
=============================================================================
