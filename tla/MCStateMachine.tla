--------------------------- MODULE MCStateMachine ---------------------------
(* Instances of StateMachine for TLC; the cfg files give the constants.    *)
EXTENDS StateMachine

Env(src, eid, dtype, val) == [src |-> src, eid |-> eid, dtype |-> dtype, val |-> val]
Cond(eid, dtype, op, val) ==
  [src |-> "any", eid |-> eid, dtype |-> dtype, op |-> op, fields |-> {}, val |-> val]
Trans(from, cond, act, good, bad) ==
  [from |-> from, cond |-> cond, act |-> act, good |-> good, bad |-> bad]

Since(n)   == Cond("none", "timestamp", "since", n)
Pressed    == Cond("button", "bool", "eq", 1)
PeerHot    == [src |-> "peer", eid |-> "temp", dtype |-> "float", op |-> "gt", fields |-> {}, val |-> 0]
NoPower    == Cond("power", "u32", "leq", 0)
Evening    == [src |-> "any", eid |-> "none", dtype |-> "datetime", op |-> "geq",
               fields |-> {"hour", "day"}, val |-> 18]

Power      == Env("self", "power", "u32", 0)
Energy     == Env("self", "energy", "float", 1)
Reset      == Env("peer", "reset", "16bytes", 0)
OtherReset == Env("peer", "reset", "16bytes", 1)
Press      == Env("self", "button", "bool", 1)
Hot        == Env("peer", "temp", "float", 1)
HotElse    == Env("other", "temp", "float", 1)

At(h) == [hour |-> h, minute |-> 0, second |-> 0, day |-> 1, month |-> 1, year |-> 2013, weekday |-> 0]
DayAndNight == {At(8), At(20)}

PowerOnly   == <<Power>>
PowerEnergy == <<Power, Energy>>

(* A lamp that goes on at the press of a button and off by itself. *)
LampTable ==
  << Trans(0, TrueCond, "relay_off", 1, 1),
     Trans(1, NoPower, "none", 2, 2),
     Trans(1, Pressed, "relay_on", 2, 0),
     Trans(2, Pressed, "reject", 4, 1),
     Trans(2, PeerHot, "relay_off", 1, 1),
     Trans(2, Since(2), "none", 1, 1) >>
LampDtTable ==
  << Trans(2, Evening, "relay_on", 3, 3), Trans(3, Since(1), "relay_off", 0, 0),
     Trans(1, TrueCond, "none", 2, 2) >>
LampInputs == {Press, Hot, HotElse, OtherReset}

(* A machine that stops, restarts and misuses itself, and that is reset.   *)
ControlTable ==
  << Trans(0, TrueCond, "relay_off", 1, 1),
     Trans(0, NoPower, "sm_start", 2, 2),
     Trans(1, NoPower, "relay_on", 2, 2),
     Trans(1, Pressed, "sm_start", 0, 0),
     Trans(2, Pressed, "sm_stop", 1, 1),
     Trans(2, PeerHot, "sm_bad", 2, 0) >>
ControlDtTable ==
  << Trans(1, Evening, "sm_stop", 2, 2), Trans(2, TrueCond, "sm_start", 1, 1) >>
ControlInputs == {Press, Hot, Reset}
=============================================================================
