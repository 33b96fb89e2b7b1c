------------------------- MODULE InterrogatorProofs -------------------------
(***************************************************************************)
(* Proofs about the DeviceInterrogator's operations, for every number of   *)
(* tries, every second and any number of queries: what each of them does   *)
(* to the timer that all queries share.  LoggerProofs puts them together   *)
(* for the client that calls them.                                         *)
(*                                                                         *)
(* The operations are steps of a client, so their facts are lemmas of the  *)
(* form: the invariant and the operation imply the invariant afterwards.   *)
(***************************************************************************)
EXTENDS Interrogator, TLAPS, FiniteSetTheorems, WellFoundedInduction

(* There are only as many queries as were asked. *)
Types == InterrogatorTypeOK /\ IsFiniteSet(Running)

(* Whatever else happens, somebody will look at a query that runs. *)
Watched == Running # {} => wait # {} \/ ready > 0

(* Until a handler is overtaken, no two things are outstanding: the wait and *)
(* its handler.  A query has at most one second to go, so a new one is never *)
(* the first to expire, and the timer need not be set for it.                *)
Single ==
  ~overtaken =>
    /\ ready <= 1
    /\ ready = 1 => wait = {}
    /\ \A q \in Running : running_queries[q].deadline <= Second

(* The wait is for the first deadline, or its handler is queued. *)
OnTime ==
  ~overtaken /\ Running # {} =>
    \E q \in Running :
      /\ First(running_queries, q)
      /\ \/ wait = {running_queries[q].deadline} /\ ready = 0
         \/ wait = {} /\ ready = 1 /\ running_queries[q].deadline <= 0

(* A query's deadline tells its age, until that is no longer counted. *)
Dated ==
  \A q \in Running :
    running_queries[q].age < Patience =>
      running_queries[q].deadline = (running_queries[q].retries + 1) * Second - running_queries[q].age

TimerInv == Watched /\ Single /\ OnTime /\ Dated

-----------------------------------------------------------------------------
(***************************************************************************)
(* The first query.                                                        *)
(***************************************************************************)

(* A set of natural numbers has a least one. *)
LEMMA LeastNumber ==
  ASSUME NEW T, T \subseteq Nat, T # {}
  PROVE  \E x \in T : \A y \in T : x <= y
<1> DEFINE R == {p \in Nat \X Nat : p[1] < p[2]}
<1>1. OpToRel(<, Nat) = R
  BY SMT DEF OpToRel
<1>2. IsWellFoundedOn(R, Nat)
  BY <1>1, NatLessThanWellFounded
<1> HIDE DEF R
<1>3. \E x \in T : \A y \in T : ~(<<y, x>> \in R)
  BY <1>2, WFMin
<1>4. \A x, y \in Nat : ~(<<y, x>> \in R) => x <= y
  BY DEF R
<1>5. QED
  BY <1>3, <1>4

(* Queries that can be counted have a first one. *)
LEMMA FirstExists ==
  ASSUME NEW rq, IsFiniteSet(DOMAIN rq), DOMAIN rq # {}, \A q \in DOMAIN rq : rq[q].deadline \in Int
  PROVE  \E q \in DOMAIN rq : First(rq, q)
<1> DEFINE Least(q, D) == \A p \in D : rq[q].deadline <= rq[p].deadline
           Bad(D) == D \subseteq DOMAIN rq /\ D # {} /\ ~\E q \in D : Least(q, D)
           Sizes == {Cardinality(D) : D \in {E \in SUBSET DOMAIN rq : Bad(E)}}
<1>1. ASSUME NEW D \in SUBSET DOMAIN rq
      PROVE  /\ IsFiniteSet(D) /\ Cardinality(D) \in Nat
             /\ \A x \in D : Cardinality(D \ {x}) = Cardinality(D) - 1
  BY FS_Subset, FS_CardinalityType, FS_RemoveElement
<1>2. Sizes = {}
  <2> SUFFICES ASSUME Sizes # {} PROVE FALSE
    OBVIOUS
  <2>1. Sizes \subseteq Nat
    BY <1>1
  <2>2. PICK n \in Sizes : \A m \in Sizes : n <= m
    BY <2>1, LeastNumber
  <2>3. PICK D \in SUBSET DOMAIN rq : Bad(D) /\ Cardinality(D) = n
    BY <2>2
  <2>4. PICK x \in D : TRUE
    BY <2>3
  <2>5. ~Bad(D \ {x})
    <3> SUFFICES ASSUME Bad(D \ {x}) PROVE FALSE
      OBVIOUS
    <3>1. Cardinality(D \ {x}) \in Sizes
      <4>1. D \ {x} \in SUBSET DOMAIN rq /\ Bad(D \ {x})
        OBVIOUS
      <4> HIDE DEF Bad
      <4>2. QED
        BY <4>1
    <3>2. n <= n - 1
      BY <1>1, <2>2, <2>3, <3>1
    <3>3. n \in Nat
      BY <2>1
    <3>4. QED
      BY <3>2, <3>3
  <2>6. CASE D \ {x} = {}
    <3>1. Least(x, D)
      BY <2>6
    <3>2. QED
      BY <2>3, <3>1
  <2>7. CASE D \ {x} # {}
    <3>1. PICK y \in D \ {x} : Least(y, D \ {x})
      BY <2>5, <2>7
    <3>2. Least(x, D) \/ Least(y, D)
      <4>1. rq[x].deadline \in Int /\ rq[y].deadline \in Int /\ \A p \in D : rq[p].deadline \in Int
        OBVIOUS
      <4>2. CASE rq[x].deadline <= rq[y].deadline
        BY <3>1, <4>1, <4>2
      <4>3. CASE ~(rq[x].deadline <= rq[y].deadline)
        BY <3>1, <4>1, <4>3
      <4>4. QED
        BY <4>2, <4>3
    <3>3. QED
      BY <2>3, <3>1, <3>2
  <2>8. QED
    BY <2>6, <2>7
<1>3. ~Bad(DOMAIN rq)
  BY <1>2
<1>4. QED
  BY <1>3 DEF First

-----------------------------------------------------------------------------
(***************************************************************************)
(* The timer is set.                                                       *)
(***************************************************************************)

(* Queries rq that could be running. *)
Runnable(rq) ==
  /\ IsFiniteSet(DOMAIN rq) /\ DOMAIN rq \subseteq Queries
  /\ rq \in [DOMAIN rq -> Query]

(* The fields of a query. *)
LEMMA QueryFields ==
  ASSUME NEW rq, Runnable(rq), NEW q \in DOMAIN rq
  PROVE  /\ rq[q].deadline \in Int
         /\ rq[q].retries \in 0 .. max_tries - 1
         /\ rq[q].age \in 0 .. Patience
BY DEF Runnable, Query

(* The queries that run are such. *)
LEMMA RunningRunnable == Types <=> Runnable(running_queries) /\ wait \subseteq Int
                                   /\ (\A s, t \in wait : s = t)
                                   /\ ready \in 0 .. MaxReady /\ overtaken \in BOOLEAN
BY DEF Types, InterrogatorTypeOK, Runnable, Running

(* reschedule_timer waits for the first deadline; there is one. *)
LEMMA RescheduleFacts ==
  ASSUME Types, NEW rq, Runnable(rq), NEW queued \in Nat, reschedule_timer(rq, queued)
  PROVE  /\ running_queries' = rq
         /\ wait' \subseteq Int /\ (\A s, t \in wait' : s = t)
         /\ DOMAIN rq # {} => \E q \in DOMAIN rq : First(rq, q) /\ wait' = {rq[q].deadline}
         /\ DOMAIN rq = {} => wait' = wait
         /\ overtaken' \in BOOLEAN
         /\ ~overtaken' => ~overtaken
         /\ ~overtaken' /\ DOMAIN rq # {} => queued = 0
<1>1. running_queries' = rq /\ (DOMAIN rq = {} => wait' = wait)
  BY DEF reschedule_timer
<1>2. ASSUME DOMAIN rq # {}
      PROVE  \E q \in DOMAIN rq : First(rq, q) /\ wait' = {rq[q].deadline}
  <2>1. wait' = {rq[q].deadline : q \in {p \in DOMAIN rq : First(rq, p)}}
    BY <1>2 DEF reschedule_timer
  <2>2. \A q \in DOMAIN rq : rq[q].deadline \in Int
    BY QueryFields
  <2>3. PICK q \in DOMAIN rq : First(rq, q)
    BY <1>2, <2>2, FirstExists DEF Runnable
  <2>4. ASSUME NEW p \in DOMAIN rq, First(rq, p)
        PROVE  rq[p].deadline = rq[q].deadline
    <3>1. rq[p].deadline <= rq[q].deadline /\ rq[q].deadline <= rq[p].deadline
      BY <2>3, <2>4 DEF First
    <3>2. QED
      BY <2>2, <3>1
  <2>5. wait' = {rq[q].deadline}
    BY <2>1, <2>3, <2>4
  <2>6. QED
    BY <2>3, <2>5
<1>3. wait' \subseteq Int /\ \A s, t \in wait' : s = t
  <2>1. CASE DOMAIN rq = {}
    BY <1>1, <2>1 DEF Types, InterrogatorTypeOK
  <2>2. CASE DOMAIN rq # {}
    BY <1>2, <2>2, QueryFields
  <2>3. QED
    BY <2>1, <2>2
<1>4. /\ overtaken' \in BOOLEAN
      /\ ~overtaken' => ~overtaken
      /\ ~overtaken' /\ DOMAIN rq # {} => ~(queued > 0)
  BY DEF reschedule_timer, Types, InterrogatorTypeOK
<1>5. ~(queued > 0) => queued = 0
  OBVIOUS
<1>6. QED
  BY <1>1, <1>2, <1>3, <1>4, <1>5

(* A handler that leaves the queries rq and sets the timer, with no other of *)
(* the timer's handlers queued unless it overtakes one, keeps the promise.   *)
LEMMA RescheduleKeeps ==
  ASSUME Types, NEW rq, Runnable(rq), NEW queued \in 0 .. MaxReady,
         reschedule_timer(rq, queued), ready' = queued,
         ~overtaken => queued <= 1 /\ (queued = 1 => wait = {}),
         ~overtaken => \A q \in DOMAIN rq : rq[q].deadline <= Second,
         \A q \in DOMAIN rq : rq[q].age < Patience => rq[q].deadline = (rq[q].retries + 1) * Second - rq[q].age
  PROVE  Types' /\ TimerInv'
<1>1. queued \in Nat
  BY LoopAssumption
<1>2. /\ running_queries' = rq
      /\ wait' \subseteq Int /\ (\A s, t \in wait' : s = t)
      /\ DOMAIN rq # {} => \E q \in DOMAIN rq : First(rq, q) /\ wait' = {rq[q].deadline}
      /\ DOMAIN rq = {} => wait' = wait
      /\ overtaken' \in BOOLEAN
      /\ ~overtaken' => ~overtaken
      /\ ~overtaken' /\ DOMAIN rq # {} => queued = 0
  BY <1>1, RescheduleFacts
<1>3. Types'
  BY <1>2 DEF Types, InterrogatorTypeOK, Runnable, Running
<1>4. Watched'
  BY <1>2 DEF Watched, Running
<1>5. Single'
  <2> SUFFICES ASSUME ~overtaken'
               PROVE  /\ ready' <= 1
                      /\ ready' = 1 => wait' = {}
                      /\ \A q \in DOMAIN rq : rq[q].deadline <= Second
    BY <1>2 DEF Single, Running
  <2>1. queued <= 1 /\ (queued = 1 => wait' = {})
    <3>1. CASE DOMAIN rq = {}
      BY <1>2, <3>1
    <3>2. CASE queued = 0
      BY <3>2
    <3>3. QED
      BY <1>2, <3>1, <3>2
  <2>2. QED
    BY <1>2, <2>1
<1>6. OnTime'
  BY <1>2 DEF OnTime, Running, First
<1>7. Dated'
  BY <1>2 DEF Dated, Running
<1>8. QED
  BY <1>3, <1>4, <1>5, <1>6, <1>7 DEF TimerInv

(* The queries that are left when some have ended are runnable. *)
LEMMA RestrictRunnable ==
  ASSUME NEW rq, Runnable(rq), NEW S \in SUBSET DOMAIN rq
  PROVE  /\ Runnable(Restrict(rq, S))
         /\ DOMAIN Restrict(rq, S) = S
         /\ \A q \in S : Restrict(rq, S)[q] = rq[q]
<1>1. DOMAIN Restrict(rq, S) = S /\ \A q \in S : Restrict(rq, S)[q] = rq[q]
  BY DEF Restrict
<1>2. IsFiniteSet(S)
  BY FS_Subset DEF Runnable
<1>3. Restrict(rq, S) \in [S -> Query]
  BY DEF Restrict, Runnable
<1>4. QED
  BY <1>1, <1>2, <1>3 DEF Runnable

-----------------------------------------------------------------------------
(***************************************************************************)
(* The operations.                                                         *)
(***************************************************************************)

(* Nothing is asked at the start, nor when the client starts again. *)
LEMMA NothingAsked ==
  ASSUME InterrogatorInit
  PROVE  Types /\ TimerInv /\ Running = {}
<1>1. Running = {} /\ IsFiniteSet({})
  BY FS_EmptySet DEF InterrogatorInit, Running
<1>2. 0 \in 0 .. MaxReady
  BY LoopAssumption
<1>3. running_queries \in [Running -> Query]
  BY <1>1 DEF InterrogatorInit, Running
<1>4. Types
  BY <1>1, <1>2, <1>3 DEF Types, InterrogatorTypeOK, InterrogatorInit
<1>5. TimerInv
  BY <1>1 DEF TimerInv, Watched, Single, OnTime, Dated, InterrogatorInit
<1>6. QED
  BY <1>1, <1>4, <1>5

(* A query that has just been asked. *)
LEMMA NewQuery ==
  ASSUME NEW query, query = [retries |-> 0, deadline |-> Second, age |-> 0]
  PROVE  /\ query \in Query
         /\ query.deadline = Second /\ query.retries = 0 /\ query.age = 0
         /\ query.deadline = (query.retries + 1) * Second - query.age
<1>1. Second \in Nat \ {0} /\ max_tries \in Nat \ {0}
  BY TimesAssumption
<1>2. 0 \in 0 .. max_tries - 1
  BY <1>1
<1>3. Patience \in Nat
  BY <1>1 DEF Patience
<1>4. query \in Query
  BY <1>1, <1>2, <1>3 DEF Query
<1>5. query.deadline = Second /\ query.retries = 0 /\ query.age = 0
  OBVIOUS
<1>6. Second = (0 + 1) * Second - 0
  BY <1>1
<1>7. QED
  BY <1>4, <1>5, <1>6

(* A query is asked.  It need not set the timer unless it is the first. *)
LEMMA QueueQueryKeeps ==
  ASSUME Types, TimerInv, NEW q \in Queries, q \notin Running, queue_query(q)
  PROVE  Types' /\ TimerInv' /\ Running' = Running \cup {q}
<1>1. PICK query : query = [retries |-> 0, deadline |-> Second, age |-> 0]
  OBVIOUS
<1>2. PICK rq : rq = [p \in Running \cup {q} |-> IF p = q THEN query ELSE running_queries[p]]
  OBVIOUS
<1>3. /\ query \in Query
      /\ query.deadline = Second /\ query.retries = 0 /\ query.age = 0
      /\ query.deadline = (query.retries + 1) * Second - query.age
  BY <1>1, NewQuery
<1>4. /\ DOMAIN rq = Running \cup {q}
      /\ rq[q] = query
      /\ \A p \in Running : rq[p] = running_queries[p]
  BY <1>2
<1>5. Runnable(running_queries) /\ ready \in 0 .. MaxReady
  BY RunningRunnable
<1>6. Runnable(rq)
  <2>1. IsFiniteSet(Running \cup {q})
    BY FS_AddElement DEF Types
  <2>2. rq \in [Running \cup {q} -> Query]
    BY <1>2, <1>3, <1>5 DEF Runnable, Running
  <2>3. QED
    BY <1>4, <1>5, <2>1, <2>2 DEF Runnable, Running
<1>7. /\ ~overtaken => \A p \in DOMAIN rq : rq[p].deadline <= Second
      /\ \A p \in DOMAIN rq : rq[p].age < Patience => rq[p].deadline = (rq[p].retries + 1) * Second - rq[p].age
  <2>1. Second <= Second
    BY TimesAssumption
  <2>2. QED
    BY <1>3, <1>4, <2>1 DEF TimerInv, Single, Dated
<1>8. CASE Running = {}
  <2>1. reschedule_timer(rq, ready) /\ ready' = ready
    BY <1>1, <1>2, <1>8 DEF queue_query
  <2>2. ~overtaken => ready <= 1 /\ (ready = 1 => wait = {})
    BY DEF TimerInv, Single
  <2>3. Types' /\ TimerInv'
    BY <1>5, <1>6, <1>7, <2>1, <2>2, RescheduleKeeps
  <2>4. Running' = DOMAIN rq
    BY <2>1 DEF reschedule_timer, Running
  <2>5. QED
    BY <1>4, <2>3, <2>4
<1>9. CASE Running # {}
  <2>1. running_queries' = rq /\ UNCHANGED <<wait, ready, overtaken>>
    BY <1>1, <1>2, <1>9 DEF queue_query
  <2>2. Running' = Running \cup {q}
    BY <1>4, <2>1 DEF Running
  <2>3. Types'
    BY <1>6, <2>1 DEF Types, InterrogatorTypeOK, Runnable, Running
  <2>4. Watched'
    BY <1>9, <2>1 DEF TimerInv, Watched
  <2>5. Single'
    BY <1>7, <2>1 DEF TimerInv, Single, Running
  <2>6. OnTime'
    <3> SUFFICES ASSUME ~overtaken
                 PROVE  \E p \in DOMAIN rq :
                          /\ First(rq, p)
                          /\ \/ wait = {rq[p].deadline} /\ ready = 0
                             \/ wait = {} /\ ready = 1 /\ rq[p].deadline <= 0
      BY <2>1 DEF OnTime, Running
    <3>1. PICK p \in Running :
            /\ First(running_queries, p)
            /\ \/ wait = {running_queries[p].deadline} /\ ready = 0
               \/ wait = {} /\ ready = 1 /\ running_queries[p].deadline <= 0
      BY <1>9 DEF TimerInv, OnTime
    <3>2. running_queries[p].deadline <= Second
      BY DEF TimerInv, Single
    <3>3. First(rq, p)
      BY <1>3, <1>4, <3>1, <3>2 DEF First, Running
    <3>4. QED
      BY <1>4, <3>1, <3>3
  <2>7. Dated'
    BY <1>7, <2>1 DEF Dated, Running
  <2>8. QED
    BY <2>2, <2>3, <2>4, <2>5, <2>6, <2>7 DEF TimerInv
<1>10. QED
  BY <1>8, <1>9

(* Queries that are left are still dated, and have no more than a second. *)
LEMMA FewerQueries ==
  ASSUME Types, TimerInv, NEW S \in SUBSET Running, NEW rq, rq = Restrict(running_queries, S)
  PROVE  /\ Runnable(rq) /\ DOMAIN rq = S
         /\ ~overtaken => \A q \in DOMAIN rq : rq[q].deadline <= Second
         /\ \A q \in DOMAIN rq : rq[q].age < Patience => rq[q].deadline = (rq[q].retries + 1) * Second - rq[q].age
<1>1. Runnable(running_queries)
  BY RunningRunnable
<1>2. Runnable(rq) /\ DOMAIN rq = S /\ \A q \in S : rq[q] = running_queries[q]
  BY <1>1, RestrictRunnable DEF Running
<1>3. QED
  BY <1>2 DEF TimerInv, Single, Dated

(* A packet ends the queries it answers, and sets the timer. *)
LEMMA PacketReceivedKeeps ==
  ASSUME Types, TimerInv, NEW d, packet_received(d)
  PROVE  Types' /\ TimerInv' /\ Running' = Running \ Answered(d)
<1>1. PICK rq : rq = Restrict(running_queries, Running \ Answered(d))
  OBVIOUS
<1>2. reschedule_timer(rq, ready) /\ ready' = ready
  BY <1>1 DEF packet_received
<1>3. /\ Runnable(rq) /\ DOMAIN rq = Running \ Answered(d)
      /\ ~overtaken => \A q \in DOMAIN rq : rq[q].deadline <= Second
      /\ \A q \in DOMAIN rq : rq[q].age < Patience => rq[q].deadline = (rq[q].retries + 1) * Second - rq[q].age
  BY <1>1, FewerQueries
<1>4. /\ ~overtaken => ready <= 1 /\ (ready = 1 => wait = {})
      /\ ready \in 0 .. MaxReady
  BY RunningRunnable DEF TimerInv, Single
<1>5. Types' /\ TimerInv'
  BY <1>2, <1>3, <1>4, RescheduleKeeps
<1>6. Running' = DOMAIN rq
  BY <1>2 DEF reschedule_timer, Running
<1>7. QED
  BY <1>3, <1>5, <1>6

(* A handler of the timer that leaves the queries rq. *)
LEMMA HandlerKeeps ==
  ASSUME Types, TimerInv, NEW rq, Runnable(rq), HandlerEnds(rq),
         ~overtaken => \A q \in DOMAIN rq : rq[q].deadline <= Second,
         \A q \in DOMAIN rq : rq[q].age < Patience => rq[q].deadline = (rq[q].retries + 1) * Second - rq[q].age
  PROVE  Types' /\ TimerInv' /\ Running' = DOMAIN rq
<1>1. ready \in 0 .. MaxReady /\ ready > 0 /\ ready' = ready - 1 /\ reschedule_timer(rq, ready - 1)
  BY RunningRunnable DEF HandlerEnds
<1>2. ready - 1 \in 0 .. MaxReady
  BY <1>1, LoopAssumption
<1>3. ~overtaken => ready - 1 = 0
  BY <1>1, LoopAssumption DEF TimerInv, Single
<1>4. Types' /\ TimerInv'
  <2>1. PICK queued \in 0 .. MaxReady : queued = ready - 1
    BY <1>2
  <2>2. reschedule_timer(rq, queued) /\ ready' = queued
    BY <1>1, <2>1
  <2>3. ~overtaken => queued <= 1 /\ (queued = 1 => wait = {})
    BY <1>3, <2>1
  <2>4. QED
    BY <2>2, <2>3, RescheduleKeeps
<1>5. Running' = DOMAIN rq
  BY <1>1 DEF reschedule_timer, Running
<1>6. QED
  BY <1>4, <1>5

(* A query is given up, or cannot be sent again. *)
LEMMA TimeoutEndsKeeps ==
  ASSUME Types, TimerInv, NEW q, timeout_gives_up(q) \/ timeout_unsent(q)
  PROVE  Types' /\ TimerInv' /\ Running' = Running \ {q} /\ q \in Running
<1>1. PICK rq : rq = Restrict(running_queries, Running \ {q})
  OBVIOUS
<1>2. HandlerEnds(rq) /\ q \in Running
  BY <1>1 DEF timeout_gives_up, timeout_unsent
<1>3. /\ Runnable(rq) /\ DOMAIN rq = Running \ {q}
      /\ ~overtaken => \A p \in DOMAIN rq : rq[p].deadline <= Second
      /\ \A p \in DOMAIN rq : rq[p].age < Patience => rq[p].deadline = (rq[p].retries + 1) * Second - rq[p].age
  BY <1>1, FewerQueries
<1>4. QED
  BY <1>2, <1>3, HandlerKeeps

(* While nothing was overtaken, a handler finds that the first deadline has  *)
(* passed.                                                                   *)
LEMMA FirstHasPassed ==
  ASSUME Types, TimerInv, NEW q \in Running, First(running_queries, q), ready > 0, ~overtaken
  PROVE  running_queries[q].deadline <= 0
<1>1. PICK p \in Running : ready = 1 /\ running_queries[p].deadline <= 0
  BY DEF TimerInv, OnTime
<1>2. running_queries[q].deadline <= running_queries[p].deadline
  BY DEF First, Running
<1>3. running_queries[q].deadline \in Int /\ running_queries[p].deadline \in Int
  BY RunningRunnable, QueryFields DEF Running
<1>4. QED
  BY <1>1, <1>2, <1>3

(* A query is sent again. *)
LEMMA TimeoutResendsKeeps ==
  ASSUME Types, TimerInv, NEW q, timeout_resends(q)
  PROVE  Types' /\ TimerInv' /\ Running' = Running
<1>1. PICK rq : rq = [running_queries EXCEPT ![q].retries = @ + 1, ![q].deadline = @ + Second]
  OBVIOUS
<1>2. HandlerEnds(rq) /\ q \in Running /\ First(running_queries, q) /\ ~Exhausted(q) /\ ready > 0
  BY <1>1 DEF timeout_resends, HandlerEnds
<1>3. /\ Runnable(running_queries)
      /\ running_queries[q] \in Query
      /\ running_queries[q].deadline \in Int
      /\ running_queries[q].retries \in 0 .. max_tries - 1
      /\ running_queries[q].age \in 0 .. Patience
  BY <1>2, RunningRunnable, QueryFields DEF Running, Runnable
<1>4. Second \in Nat /\ max_tries \in Nat \ {0} /\ Patience \in Nat
  BY TimesAssumption DEF Patience
<1>5. running_queries[q].retries + 1 \in 0 .. max_tries - 1
  BY <1>2, <1>3, <1>4 DEF Exhausted
<1>6. /\ DOMAIN rq = Running
      /\ rq[q].retries = running_queries[q].retries + 1
      /\ rq[q].deadline = running_queries[q].deadline + Second
      /\ rq[q].age = running_queries[q].age
      /\ \A p \in Running \ {q} : rq[p] = running_queries[p]
      /\ rq \in [Running -> Query]
  <2>1. PICK query : query = [running_queries[q] EXCEPT !.retries = @ + 1, !.deadline = @ + Second]
    OBVIOUS
  <2>2. /\ query = [retries  |-> running_queries[q].retries + 1,
                    deadline |-> running_queries[q].deadline + Second,
                    age      |-> running_queries[q].age]
    BY <1>3, <2>1 DEF Query
  <2>3. query \in Query
    BY <1>3, <1>4, <1>5, <2>2 DEF Query
  <2>4. running_queries \in [Running -> Query]
    BY <1>3 DEF Runnable, Running
  <2>5. rq = [running_queries EXCEPT ![q] = query]
    BY <1>1, <1>2, <1>3, <2>1, <2>4 DEF Query
  <2>6. DOMAIN rq = Running /\ rq[q] = query /\ \A p \in Running \ {q} : rq[p] = running_queries[p]
    BY <1>2, <2>4, <2>5
  <2>7. rq \in [Running -> Query]
    BY <2>3, <2>4, <2>5
  <2>8. QED
    BY <2>2, <2>6, <2>7
<1>7. Runnable(rq)
  BY <1>3, <1>6 DEF Runnable, Running
<1>8. ~overtaken => \A p \in DOMAIN rq : rq[p].deadline <= Second
  <2> SUFFICES ASSUME ~overtaken PROVE \A p \in Running : rq[p].deadline <= Second
    BY <1>6
  <2>1. running_queries[q].deadline <= 0
    BY <1>2, FirstHasPassed
  <2>2. rq[q].deadline <= Second
    BY <1>3, <1>4, <1>6, <2>1
  <2>3. QED
    BY <1>6, <2>2 DEF TimerInv, Single
<1>9. \A p \in DOMAIN rq : rq[p].age < Patience => rq[p].deadline = (rq[p].retries + 1) * Second - rq[p].age
  <2>1. rq[q].age < Patience => rq[q].deadline = (rq[q].retries + 1) * Second - rq[q].age
    <3>1. \A r, a \in Int : (r + 1) * Second - a + Second = (r + 1 + 1) * Second - a
      BY <1>4
    <3>2. rq[q].age < Patience =>
            running_queries[q].deadline = (running_queries[q].retries + 1) * Second - running_queries[q].age
      BY <1>2, <1>6 DEF TimerInv, Dated
    <3>3. running_queries[q].retries \in Int /\ running_queries[q].age \in Int
      BY <1>3, <1>4
    <3>4. QED
      BY <1>6, <3>1, <3>2, <3>3
  <2>2. QED
    BY <1>6, <2>1 DEF TimerInv, Dated
<1>10. QED
  BY <1>2, <1>6, <1>7, <1>8, <1>9, HandlerKeeps

(* A device is given max_tries seconds, unless a handler was overtaken. *)
LEMMA GivenUpInTime ==
  ASSUME Types, TimerInv, NEW q, timeout_gives_up(q), ~overtaken
  PROVE  running_queries[q].age = Patience
<1>1. q \in Running /\ First(running_queries, q) /\ ready > 0 /\ running_queries[q].retries = max_tries - 1
  BY DEF timeout_gives_up, HandlerEnds, Exhausted
<1>2. running_queries[q].deadline <= 0
  BY <1>1, FirstHasPassed
<1>3. running_queries[q].deadline \in Int /\ running_queries[q].age \in 0 .. Patience
  BY <1>1, RunningRunnable, QueryFields DEF Running
<1>4. Second \in Nat /\ max_tries \in Nat /\ Patience = (max_tries - 1 + 1) * Second /\ Patience \in Nat
  BY TimesAssumption DEF Patience
<1>5. CASE running_queries[q].age < Patience
  <2>1. running_queries[q].deadline = Patience - running_queries[q].age
    BY <1>1, <1>4, <1>5 DEF TimerInv, Dated
  <2>2. QED
    BY <1>2, <1>3, <1>4, <1>5, <2>1
<1>6. QED
  BY <1>3, <1>4, <1>5

(* A handler that finds nothing to do. *)
LEMMA TimeoutIdleKeeps ==
  ASSUME Types, TimerInv, timeout_idle
  PROVE  Types' /\ TimerInv' /\ Running' = Running
<1>1. /\ ready \in 0 .. MaxReady /\ ready > 0 /\ ready' = ready - 1 /\ Running = {}
      /\ UNCHANGED <<running_queries, wait, overtaken>>
  BY RunningRunnable DEF timeout_idle
<1>2. ready' \in 0 .. MaxReady
  BY <1>1, LoopAssumption
<1>3. ~overtaken => ready' = 0
  BY <1>1, LoopAssumption DEF TimerInv, Single
<1>4. Types'
  BY <1>1, <1>2 DEF Types, InterrogatorTypeOK, Running
<1>5. TimerInv'
  BY <1>1, <1>3 DEF TimerInv, Watched, Single, OnTime, Dated, Running
<1>6. QED
  BY <1>1, <1>4, <1>5 DEF Running

(* The wait has expired. *)
LEMMA ExpireKeeps ==
  ASSUME Types, TimerInv, Expire
  PROVE  Types' /\ TimerInv' /\ Running' = Running
<1>1. /\ ready \in 0 .. MaxReady /\ ready < MaxReady /\ wait' = {} /\ ready' = ready + 1
      /\ UNCHANGED <<running_queries, overtaken>>
  BY RunningRunnable DEF Expire
<1>2. PICK t \in wait : t <= 0
  BY DEF Expire
<1>3. ready' \in 0 .. MaxReady /\ ready' > 0
  BY <1>1, LoopAssumption
<1>4. Types'
  BY <1>1, <1>3 DEF Types, InterrogatorTypeOK, Running
<1>5. ~overtaken => ready = 0
  BY <1>1, <1>2, LoopAssumption DEF TimerInv, Single
<1>6. ~overtaken => ready' = 1
  BY <1>1, <1>5
<1>7. Watched'
  BY <1>3 DEF Watched
<1>8. Single'
  BY <1>1, <1>6 DEF TimerInv, Single, Running
<1>9. OnTime'
  <2> SUFFICES ASSUME ~overtaken, Running # {}
               PROVE  \E q \in Running : First(running_queries, q) /\ running_queries[q].deadline <= 0
    BY <1>1, <1>6 DEF OnTime, Running, First
  <2>1. PICK q \in Running : First(running_queries, q) /\ wait = {running_queries[q].deadline}
    BY <1>2, <1>5 DEF TimerInv, OnTime
  <2>2. QED
    BY <1>2, <2>1
<1>10. Dated'
  BY <1>1 DEF TimerInv, Dated, Running
<1>11. QED
  BY <1>1, <1>4, <1>7, <1>8, <1>9, <1>10 DEF TimerInv, Running

(* Time passes: every deadline comes nearer by the same, and so does the     *)
(* timer's.                                                                  *)
LEMMA TickKeeps ==
  ASSUME Types, TimerInv, Tick
  PROVE  Types' /\ TimerInv' /\ Running' = Running
<1>1. /\ running_queries' = [q \in Running |->
           [running_queries[q] EXCEPT !.deadline = @ - 1, !.age = IF @ < Patience THEN @ + 1 ELSE @]]
      /\ wait' = {t - 1 : t \in wait}
      /\ UNCHANGED <<ready, overtaken>>
  BY DEF Tick
<1>2. Runnable(running_queries) /\ wait \subseteq Int /\ \A s, t \in wait : s = t
  BY RunningRunnable
<1>3. Second \in Nat /\ max_tries \in Nat \ {0} /\ Patience \in Nat
  BY TimesAssumption DEF Patience
<1>4. Running' = Running
  BY <1>1 DEF Running
<1>5. ASSUME NEW q \in Running
      PROVE  /\ running_queries[q].deadline \in Int
             /\ running_queries[q].retries \in 0 .. max_tries - 1
             /\ running_queries[q].age \in 0 .. Patience
             /\ running_queries'[q].deadline = running_queries[q].deadline - 1
             /\ running_queries'[q].retries = running_queries[q].retries
             /\ running_queries'[q].age =
                  IF running_queries[q].age < Patience THEN running_queries[q].age + 1 ELSE running_queries[q].age
             /\ running_queries'[q] \in Query
  <2>1. /\ running_queries[q] \in Query
        /\ running_queries[q].deadline \in Int
        /\ running_queries[q].retries \in 0 .. max_tries - 1
        /\ running_queries[q].age \in 0 .. Patience
    BY <1>2, QueryFields DEF Runnable, Running
  <2>2. PICK older : older = IF running_queries[q].age < Patience
                               THEN running_queries[q].age + 1 ELSE running_queries[q].age
    OBVIOUS
  <2>3. older \in 0 .. Patience
    BY <1>3, <2>1, <2>2
  <2>4. running_queries'[q] = [retries  |-> running_queries[q].retries,
                               deadline |-> running_queries[q].deadline - 1,
                               age      |-> older]
    BY <1>1, <2>1, <2>2 DEF Query
  <2>5. running_queries[q].deadline - 1 \in Int
    BY <2>1
  <2>6. running_queries'[q] \in Query
    BY <2>1, <2>3, <2>4, <2>5 DEF Query
  <2>7. QED
    BY <2>1, <2>2, <2>4, <2>6
<1>6. Types'
  <2>1. running_queries' \in [Running -> Query]
    <3>1. \A q \in Running : running_queries'[q] \in Query
      BY <1>5
    <3>2. running_queries' = [q \in Running |-> running_queries'[q]]
      BY <1>1
    <3>3. QED
      BY <3>1, <3>2
  <2>2. wait' \subseteq Int /\ \A s, t \in wait' : s = t
    <3>1. \A t \in wait : t - 1 \in Int
      BY <1>2
    <3>2. QED
      BY <1>1, <1>2, <3>1
  <2>3. QED
    BY <1>1, <1>4, <2>1, <2>2 DEF Types, InterrogatorTypeOK
<1>7. Watched'
  BY <1>1, <1>4 DEF TimerInv, Watched
<1>8. Single'
  <2>1. ASSUME NEW q \in Running, running_queries[q].deadline <= Second
        PROVE  running_queries'[q].deadline <= Second
    BY <1>3, <1>5, <2>1
  <2>2. wait = {} => wait' = {}
    BY <1>1
  <2>3. QED
    BY <1>1, <1>4, <2>1, <2>2 DEF TimerInv, Single
<1>9. OnTime'
  <2> SUFFICES ASSUME ~overtaken, Running # {}
               PROVE  \E q \in Running :
                        /\ First(running_queries', q)
                        /\ \/ wait' = {running_queries'[q].deadline} /\ ready = 0
                           \/ wait' = {} /\ ready = 1 /\ running_queries'[q].deadline <= 0
    BY <1>1, <1>4 DEF OnTime, First
  <2>1. PICK q \in Running :
          /\ First(running_queries, q)
          /\ \/ wait = {running_queries[q].deadline} /\ ready = 0
             \/ wait = {} /\ ready = 1 /\ running_queries[q].deadline <= 0
    BY DEF TimerInv, OnTime
  <2>2. First(running_queries', q)
    <3> SUFFICES ASSUME NEW p \in Running
                 PROVE  running_queries'[q].deadline <= running_queries'[p].deadline
      BY <1>4 DEF First, Running
    <3>1. running_queries[q].deadline <= running_queries[p].deadline
      BY <2>1 DEF First, Running
    <3>2. QED
      BY <1>5, <3>1
  <2>3. CASE wait = {running_queries[q].deadline} /\ ready = 0
    <3>1. wait' = {running_queries'[q].deadline}
      BY <1>1, <1>5, <2>3
    <3>2. QED
      BY <2>2, <2>3, <3>1
  <2>4. CASE wait = {} /\ ready = 1 /\ running_queries[q].deadline <= 0
    <3>1. wait' = {}
      BY <1>1, <2>4
    <3>2. running_queries'[q].deadline <= 0
      BY <1>5, <2>4
    <3>3. QED
      BY <2>2, <2>4, <3>1, <3>2
  <2>5. QED
    BY <2>1, <2>3, <2>4
<1>10. Dated'
  <2> SUFFICES ASSUME NEW q \in Running, running_queries'[q].age < Patience
               PROVE  running_queries'[q].deadline =
                        (running_queries'[q].retries + 1) * Second - running_queries'[q].age
    BY <1>4 DEF Dated
  <2>1. /\ running_queries[q].age < Patience
        /\ running_queries'[q].age = running_queries[q].age + 1
    BY <1>3, <1>5
  <2>2. running_queries[q].deadline = (running_queries[q].retries + 1) * Second - running_queries[q].age
    BY <2>1 DEF TimerInv, Dated
  <2>3. \A x, a \in Int : x - a - 1 = x - (a + 1)
    OBVIOUS
  <2>4. (running_queries[q].retries + 1) * Second \in Int /\ running_queries[q].age \in Int
    BY <1>3, <1>5
  <2>5. QED
    BY <1>5, <2>1, <2>2, <2>3, <2>4
<1>11. QED
  BY <1>4, <1>6, <1>7, <1>8, <1>9, <1>10 DEF TimerInv
=============================================================================
