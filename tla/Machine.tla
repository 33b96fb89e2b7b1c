------------------------------- MODULE Machine -------------------------------
(***************************************************************************)
(* What a state machine program means to the person who writes it: a state *)
(* and a set of transitions, no events, no stack, no timers.               *)
(***************************************************************************)
EXTENDS Integers

CONSTANT Rules

VARIABLES running, state

vars == <<running, state>>

(* Where a transition leads: without an action to its good state, with one *)
(* to the good or the bad state, as the write to the endpoint turns out.   *)
Target(t) == IF t.act \in {"sm_bad", "reject"} THEN t.bad ELSE t.good

Init == running = TRUE /\ state = 0

Start == running' = TRUE /\ state' = 0

Stop == running' = FALSE /\ state' = 0

Take(t) ==
  /\ running
  /\ state = t.from
  /\ state' = Target(t)
  /\ UNCHANGED running

Next == Start \/ Stop \/ \E t \in Rules : Take(t)

Spec == Init /\ [][Next]_vars
=============================================================================
