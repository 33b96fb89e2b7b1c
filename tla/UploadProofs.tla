---------------------------- MODULE UploadProofs ----------------------------
(***************************************************************************)
(* What hexaupload achieves, for every program size, EEPROM size, retry    *)
(* limit and number of lost packets: type correctness always; a correct    *)
(* installation over a prompt network; a running machine and an unmixed    *)
(* table when packets also stay in order and the device keeps its power.   *)
(***************************************************************************)
EXTENDS Upload, TLAPS

(* The packets are distinct members of Msgs. *)
LEMMA MsgFacts ==
  /\ \A k \in Chunks : ChunkMsg(k) \in Msgs
  /\ \A b \in Bit : CtlMsg(b) \in Msgs /\ AckMsg(b) \in Msgs /\ StateMsg(b) \in Msgs
  /\ QueryMsg \in Msgs
  /\ \A k, l \in Chunks : ChunkMsg(k) = ChunkMsg(l) => k = l
  /\ \A b, c \in Bit : CtlMsg(b) = CtlMsg(c) => b = c
  /\ \A b, c \in Bit : AckMsg(b) = AckMsg(c) => b = c
  /\ \A b, c \in Bit : StateMsg(b) = StateMsg(c) => b = c
  /\ \A k \in Chunks, b \in Bit :
       /\ ChunkMsg(k) # CtlMsg(b) /\ ChunkMsg(k) # AckMsg(b) /\ ChunkMsg(k) # StateMsg(b)
       /\ ChunkMsg(k) # QueryMsg
  /\ \A b, c \in Bit :
       /\ CtlMsg(b) # AckMsg(c) /\ CtlMsg(b) # StateMsg(c) /\ CtlMsg(b) # QueryMsg
       /\ AckMsg(b) # StateMsg(c) /\ AckMsg(b) # QueryMsg /\ StateMsg(b) # QueryMsg
BY DEF Msgs, ChunkMsg, CtlMsg, QueryMsg, AckMsg, StateMsg

(* Putting packets under way adds one copy of each. *)
LEMMA PutFacts ==
  ASSUME NEW STATE n, n \in [Msgs -> Nat], NEW STATE S
  PROVE  /\ Put(n, S) \in [Msgs -> Nat]
         /\ \A m \in Msgs : Put(n, S)[m] = IF m \in S THEN n[m] + 1 ELSE n[m]
BY DEF Put

(* Taking a packet that is under way removes one copy of it. *)
LEMMA TakeFacts ==
  ASSUME NEW STATE n, n \in [Msgs -> Nat], NEW m \in Msgs, n[m] > 0
  PROVE  /\ Take(n, m) \in [Msgs -> Nat]
         /\ Take(n, m)[m] = n[m] - 1
         /\ \A x \in Msgs : x # m => Take(n, m)[x] = n[x]
BY DEF Take

(* The phases main goes through are phases, and its chunk stays in range. *)
LEMMA NextFacts ==
  ASSUME TypeOK, pc \in Phases
  PROVE  /\ NextPhase \in Phases \cup Ended
         /\ NextChunk \in Chunks
         /\ SenderOf(NextPhase) \in Senders
         /\ Active \in Senders
BY ChunksAssumption DEF TypeOK, NextPhase, NextChunk, SenderOf, Active, Senders, Phases, Ended,
     Chunks, LastChunk

(* A send() that throws ends main, and adds control packets at most. *)
LEMMA SendFailsFacts ==
  ASSUME NEW STATE n, n \in [Msgs -> Nat], NEW STATE S, SendFails(S, n)
  PROVE  /\ pc' = "failed" /\ pc' \in Ended
         /\ net' \in [Msgs -> Nat]
         /\ \A m \in Msgs : (\A v \in Bit : m # CtlMsg(v)) \/ m \notin S => net'[m] = n[m]
<1>1. PICK sent \in {{}, S \cap {CtlMsg(v) : v \in Bit}} : net' = Put(n, sent)
  BY DEF SendFails
<1>2. /\ Put(n, sent) \in [Msgs -> Nat]
      /\ \A m \in Msgs : Put(n, sent)[m] = IF m \in sent THEN n[m] + 1 ELSE n[m]
  BY DEF Put
<1>3. QED
  BY <1>1, <1>2 DEF SendFails, Ended

(* Returning from send() keeps the types. *)
LEMMA ReturnType ==
  ASSUME TypeOK, pc \in Phases,
         NEW STATE res, res \in [Senders -> {"uninit", "none", "maxretry", "network"}],
         NEW STATE fails, fails \in [Senders -> Nat], NEW STATE arm, arm \in [Senders -> BOOLEAN],
         NEW STATE n, n \in [Msgs -> Nat],
         Return(res, fails, arm, n)
  PROVE  /\ pc' \in {"main"} \cup Phases \cup Ended
         /\ chunkId' \in Chunks
         /\ result' \in [Senders -> {"uninit", "none", "maxretry", "network"}]
         /\ failCount' \in [Senders -> Nat]
         /\ armed' \in [Senders -> BOOLEAN]
         /\ net' \in [Msgs -> Nat]
<1>1. \A S : Put(n, S) \in [Msgs -> Nat]
  BY PutFacts
<1>2. chunkId \in Chunks /\ "failed" \in Ended
  BY DEF TypeOK, Ended
<1>3. CASE pc' = "failed" /\ net' = n /\ armed' = [arm EXCEPT ![Active] = FALSE]
           /\ failCount' = fails /\ UNCHANGED chunkId /\ result' = res
  BY <1>2, <1>3
<1>4. CASE /\ pc' = NextPhase /\ chunkId' = NextChunk /\ result' = res
           /\ net' = Put(n, Packets(NextPhase, NextChunk))
           /\ \/ armed' = [arm EXCEPT ![Active] = FALSE]
              \/ armed' = [[arm EXCEPT ![Active] = FALSE] EXCEPT ![SenderOf(NextPhase)] = TRUE]
           /\ failCount' = fails \/ failCount' = [fails EXCEPT ![SenderOf(NextPhase)] = 0]
  <2>1. net' \in [Msgs -> Nat]
    BY <1>1, <1>4
  <2>2. armed' \in [Senders -> BOOLEAN]
    BY <1>4
  <2>3. failCount' \in [Senders -> Nat]
    BY <1>4
  <2>4. QED
    BY <1>4, <2>1, <2>2, <2>3, NextFacts
<1>5. CASE /\ SendFails(Packets(NextPhase, NextChunk), n) /\ result' = res
           /\ chunkId' = NextChunk /\ armed' = [arm EXCEPT ![Active] = FALSE]
           /\ failCount' = fails
  BY <1>5, NextFacts, SendFailsFacts
<1>6. QED
  BY <1>3, <1>4, <1>5 DEF Return

(* Counting a failure keeps the types. *)
LEMMA FailOneType ==
  ASSUME TypeOK, pc \in Phases, NEW s \in Senders,
         NEW STATE arm, arm \in [Senders -> BOOLEAN], NEW STATE n, n \in [Msgs -> Nat],
         failOne(s, arm, n)
  PROVE  /\ pc' \in {"main"} \cup Phases \cup Ended
         /\ chunkId' \in Chunks
         /\ result' \in [Senders -> {"uninit", "none", "maxretry", "network"}]
         /\ failCount' \in [Senders -> Nat]
         /\ armed' \in [Senders -> BOOLEAN]
         /\ net' \in [Msgs -> Nat]
<1> DEFINE fails == [failCount EXCEPT ![s] = @ + 1]
           res   == [result EXCEPT ![s] = "maxretry"]
<1>1. /\ fails \in [Senders -> Nat]
      /\ res \in [Senders -> {"uninit", "none", "maxretry", "network"}]
  BY DEF TypeOK
<1>2. CASE Return(res, fails, arm, n)
  BY <1>1, <1>2, ReturnType
<1>3. CASE /\ Resend(s, n)
           /\ failCount' = fails
           /\ armed' = arm
           /\ UNCHANGED <<chunkId, result>>
  <2>1. net' \in [Msgs -> Nat]
    BY <1>3, PutFacts, SendFailsFacts DEF Resend
  <2>2. pc' \in {"main"} \cup Phases \cup Ended
    BY <1>3, SendFailsFacts DEF Resend, TypeOK, Ended
  <2>3. QED
    BY <1>1, <1>3, <2>1, <2>2 DEF TypeOK
<1>4. QED
  BY <1>2, <1>3 DEF failOne

(***************************************************************************)
(* Type correctness of the host, the network and the device, whatever the  *)
(* network does: in particular no packet count goes negative.              *)
(***************************************************************************)
THEOREM TypeCorrect == Spec => []TypeOK
<1>1. Init => TypeOK
  BY ChunksAssumption DEF Init, TypeOK, Chunks
<1>2. TypeOK /\ [Next]_vars => TypeOK'
  <2> SUFFICES ASSUME TypeOK, [Next]_vars PROVE TypeOK'
    OBVIOUS
  <2>0. net \in [Msgs -> Nat] /\ armed \in [Senders -> BOOLEAN] /\ "sm" \in Senders
        /\ "chunk" \in Senders
    BY DEF TypeOK, Senders
  <2>1. CASE Main
    <3>1. net' \in [Msgs -> Nat]
      BY <2>0, <2>1, PutFacts, SendFailsFacts DEF Main
    <3>2. pc' \in Phases \cup Ended
      BY <2>0, <2>1, SendFailsFacts DEF Main, Phases, Ended
    <3>3. armed' = armed \/ armed' = [armed EXCEPT !["sm"] = TRUE]
      BY <2>1 DEF Main
    <3>4. armed' \in [Senders -> BOOLEAN]
      BY <2>0, <3>3
    <3>5. failCount' \in [Senders -> Nat]
      BY <2>0, <2>1 DEF Main, TypeOK
    <3>6. QED
      BY <2>1, <3>1, <3>2, <3>4, <3>5 DEF Main, TypeOK, devVars
  <2>2. ASSUME NEW s \in Senders, Expire(s) PROVE TypeOK'
    BY <2>2 DEF Expire, TypeOK, devVars
  <2>3. ASSUME NEW s \in Senders, onTimeout(s) PROVE TypeOK'
    <3>1. [armed EXCEPT ![s] = TRUE] \in [Senders -> BOOLEAN]
      BY DEF TypeOK
    <3>2. ready' \in [Senders -> Nat]
      BY <2>3 DEF onTimeout, TypeOK
    <3>3. QED
      BY <2>0, <2>3, <3>1, <3>2, FailOneType DEF onTimeout, TypeOK, devVars
  <2>4. ASSUME NEW b \in Bit, onAck(b) PROVE TypeOK'
    <3>1. Take(net, AckMsg(b)) \in [Msgs -> Nat]
      BY <2>0, <2>4, MsgFacts, TakeFacts DEF onAck
    <3>2. [result EXCEPT !["chunk"] = "none"] \in [Senders -> {"uninit", "none", "maxretry", "network"}]
      BY DEF TypeOK
    <3>3. failCount \in [Senders -> Nat]
      BY DEF TypeOK
    <3>4. QED
      BY <2>0, <2>4, <3>1, <3>2, <3>3, FailOneType, ReturnType DEF onAck, TypeOK, devVars
  <2>5. ASSUME NEW v \in Bit, onState(v) PROVE TypeOK'
    <3>1. Take(net, StateMsg(v)) \in [Msgs -> Nat]
      BY <2>0, <2>5, MsgFacts, TakeFacts DEF onState
    <3>2. [result EXCEPT !["sm"] = "none"] \in [Senders -> {"uninit", "none", "maxretry", "network"}]
      BY DEF TypeOK
    <3>3. failCount \in [Senders -> Nat]
      BY DEF TypeOK
    <3>4. QED
      BY <2>0, <2>5, <3>1, <3>2, <3>3, ReturnType DEF onState, TypeOK, devVars
  <2>6. CASE onError
    <3>1. [s \in Senders |-> "network"] \in [Senders -> {"uninit", "none", "maxretry", "network"}]
      OBVIOUS
    <3>2. failCount \in [Senders -> Nat]
      BY DEF TypeOK
    <3>3. QED
      BY <2>0, <2>6, <3>1, <3>2, ReturnType DEF onError, TypeOK, devVars
  <2>7. ASSUME NEW k \in Chunks, WriteChunk(k) PROVE TypeOK'
    <3>1. Take(net, ChunkMsg(k)) \in [Msgs -> Nat]
      BY <2>0, <2>7, MsgFacts, TakeFacts DEF WriteChunk
    <3>2. net' \in [Msgs -> Nat]
      BY <2>7, <3>1, PutFacts DEF WriteChunk
    <3>3. QED
      BY <2>7, <3>2 DEF WriteChunk, TypeOK, hostVars
  <2>8. ASSUME NEW k \in Chunks, RebootInWrite(k) PROVE TypeOK'
    <3>1. net' \in [Msgs -> Nat]
      BY <2>0, <2>8, MsgFacts, TakeFacts DEF RebootInWrite
    <3>2. QED
      BY <2>8, <3>1 DEF RebootInWrite, TypeOK, hostVars
  <2>9. ASSUME NEW v \in Bit, WriteControl(v) PROVE TypeOK'
    <3>1. net' \in [Msgs -> Nat]
      BY <2>0, <2>9, MsgFacts, TakeFacts DEF WriteControl
    <3>2. QED
      BY <2>9, <3>1 DEF WriteControl, TypeOK, hostVars
  <2>10. CASE ReadControl
    <3>1. Take(net, QueryMsg) \in [Msgs -> Nat]
      BY <2>0, <2>10, MsgFacts, TakeFacts DEF ReadControl
    <3>2. net' \in [Msgs -> Nat]
      BY <2>10, <3>1, PutFacts DEF ReadControl
    <3>3. QED
      BY <2>10, <3>2 DEF ReadControl, TypeOK, hostVars, devVars
  <2>11. CASE Reboot
    BY <2>11 DEF Reboot, TypeOK, hostVars
  <2>12. ASSUME NEW m \in Msgs, Lose(m) PROVE TypeOK'
    <3>1. net' \in [Msgs -> Nat]
      BY <2>0, <2>12, TakeFacts DEF Lose
    <3>2. QED
      BY <2>12, <3>1 DEF Lose, TypeOK, hostVars, devVars
  <2>13. ASSUME NEW m \in Msgs, Duplicate(m) PROVE TypeOK'
    <3>1. net' \in [Msgs -> Nat]
      BY <2>0, <2>13, PutFacts DEF Duplicate
    <3>2. faults' \in [{"loss", "dup", "reboot"} -> Nat]
      BY <2>13 DEF Duplicate, TypeOK
    <3>3. QED
      BY <2>13, <3>1, <3>2 DEF Duplicate, TypeOK, hostVars, devVars
  <2>14. CASE UNCHANGED vars
    BY <2>14 DEF TypeOK, vars, hostVars, devVars
  <2>15. QED
    BY <2>1, <2>2, <2>3, <2>4, <2>5, <2>6, <2>7, <2>8, <2>9, <2>10, <2>11, <2>12, <2>13, <2>14
    DEF Next, Host, Device, Network
<1>3. QED
  BY <1>1, <1>2, PTL DEF Spec

-----------------------------------------------------------------------------
(***************************************************************************)
(* A prompt network.                                                       *)
(***************************************************************************)

(* In a state that satisfies the invariant, an ACK or NAK under way belongs *)
(* to the chunk that is being sent, and its timer is running.               *)
LEMMA AckContext ==
  ASSUME TypeOK, PromptInv, NEW b \in Bit, pc \in Phases, net[AckMsg(b)] > 0
  PROVE  /\ pc = "chunk" /\ Active = "chunk"
         /\ armed["chunk"] /\ ready["chunk"] = 0 /\ ~armed["sm"] /\ ready["sm"] = 0
         /\ \A k \in Chunks : net[ChunkMsg(k)] = 0
         /\ \A c \in Bit : c # b => net[AckMsg(c)] = 0
         /\ net[AckMsg(b)] = 1
         /\ ControlReplies = 0
<1>1. net[AckMsg(b)] # 0 /\ net[AckMsg(b)] \in Nat
  BY MsgFacts DEF TypeOK
<1>2. ~Silent
  BY <1>1, MsgFacts DEF Silent
<1>3. pc = "chunk"
  BY <1>1 DEF PromptInv, OneExchange, NoAckUnderWay, Phases
<1>4. /\ net[ChunkMsg(chunkId)] \in Nat /\ net[AckMsg(0)] \in Nat /\ net[AckMsg(1)] \in Nat
      /\ net[ChunkMsg(chunkId)] + net[AckMsg(0)] + net[AckMsg(1)] <= 1
  BY <1>3, MsgFacts DEF TypeOK, PromptInv, OneExchange, Bit
<1>5. net[ChunkMsg(chunkId)] = 0 /\ net[AckMsg(b)] = 1 /\ \A c \in Bit : c # b => net[AckMsg(c)] = 0
  BY <1>1, <1>4 DEF Bit
<1>6. QED
  BY <1>2, <1>3, <1>5 DEF PromptInv, OneExchange, OneTimer, Active, Phases, Senders

(* Likewise, a reply about the machine's state belongs to the running       *)
(* setAndCheckState.                                                        *)
LEMMA StateContext ==
  ASSUME TypeOK, PromptInv, NEW v \in Bit, pc \in Phases, net[StateMsg(v)] > 0
  PROVE  /\ pc \in {"stop", "start"} /\ Active = "sm"
         /\ armed["sm"] /\ ready["sm"] = 0 /\ ~armed["chunk"] /\ ready["chunk"] = 0
         /\ NoAckUnderWay /\ NoChunkUnderWay
         /\ net[QueryMsg] = 0 /\ net[StateMsg(v)] = 1
         /\ \A w \in Bit : w # v => net[StateMsg(w)] = 0
<1>1. net[StateMsg(v)] # 0 /\ net[StateMsg(v)] \in Nat
  BY MsgFacts DEF TypeOK
<1>2. ~Silent
  BY <1>1, MsgFacts DEF Silent
<1>3. net[QueryMsg] \in Nat /\ net[StateMsg(0)] \in Nat /\ net[StateMsg(1)] \in Nat
  BY MsgFacts DEF TypeOK, Bit
<1>4. pc \in {"stop", "start"}
  BY <1>1, <1>3 DEF PromptInv, OneExchange, ControlReplies, Phases, Bit
<1>5. /\ net[QueryMsg] = 0 /\ net[StateMsg(v)] = 1
      /\ \A w \in Bit : w # v => net[StateMsg(w)] = 0
  BY <1>1, <1>3, <1>4 DEF PromptInv, OneExchange, ControlReplies, Bit
<1>6. QED
  BY <1>2, <1>4, <1>5 DEF PromptInv, OneExchange, OneTimer, Active, Phases, Senders

(* A handler that ends the active send() with an error ends hexaupload, and *)
(* the invariant asks nothing of a failed upload.                           *)
LEMMA FailedKeepsInv == pc' \in {"failed", "terminated"} => PromptInv'
BY DEF PromptInv, OneTimer, OneExchange, LeftBehindStored, Installed, Phases

(* What the active sender's packets add to a network that carries nothing of *)
(* its exchange.                                                             *)
LEMMA ChunkPacketFacts ==
  ASSUME NEW STATE n, n \in [Msgs -> Nat], NEW STATE k, k \in Chunks
  PROVE  /\ Put(n, {ChunkMsg(k)})[ChunkMsg(k)] = n[ChunkMsg(k)] + 1
         /\ \A m \in Msgs : m # ChunkMsg(k) => Put(n, {ChunkMsg(k)})[m] = n[m]
BY PutFacts, MsgFacts

LEMMA ControlPacketFacts ==
  ASSUME NEW STATE n, n \in [Msgs -> Nat], NEW STATE v, v \in Bit
  PROVE  /\ Put(n, SmPackets(v))[CtlMsg(v)] = n[CtlMsg(v)] + 1
         /\ Put(n, SmPackets(v))[QueryMsg] = n[QueryMsg] + 1
         /\ \A m \in Msgs : m # CtlMsg(v) /\ m # QueryMsg => Put(n, SmPackets(v))[m] = n[m]
BY PutFacts, MsgFacts DEF SmPackets

(* The invariant only speaks of the packets of the exchanges, of the host's  *)
(* variables and of the EEPROM: a step that leaves all these alone, or only  *)
(* takes packets away, keeps it.                                             *)
LEMMA FewerPackets ==
  ASSUME TypeOK, TypeOK', PromptInv, UNCHANGED hostVars, UNCHANGED stored,
         NEW m \in Msgs, net[m] > 0, net' = Take(net, m)
  PROVE  PromptInv'
<1>1. /\ net' \in [Msgs -> Nat]
      /\ \A x \in Msgs : net'[x] \in Nat /\ net[x] \in Nat /\ net'[x] <= net[x]
  BY TakeFacts DEF TypeOK
<1>2. \A x \in Msgs : net[x] = 0 => net'[x] = 0
  BY <1>1
<1>3. ~Silent
  BY DEF Silent
<1>4. OneTimer'
  BY <1>3 DEF OneTimer, PromptInv, hostVars, Active, Phases
<1>5. OneExchange'
  <2>1. /\ NoAckUnderWay => NoAckUnderWay'
        /\ NoChunkUnderWay => NoChunkUnderWay'
        /\ (\A k \in Chunks : k # chunkId => net[ChunkMsg(k)] = 0)
             => (\A k \in Chunks : k # chunkId => net'[ChunkMsg(k)] = 0)
    BY <1>2, MsgFacts DEF NoAckUnderWay, NoChunkUnderWay
  <2>2. /\ ControlReplies <= 1 => ControlReplies' <= 1
        /\ ControlReplies = 0 => ControlReplies' = 0
    BY <1>1, MsgFacts DEF ControlReplies, Bit
  <2>3. /\ net'[ChunkMsg(chunkId)] <= net[ChunkMsg(chunkId)]
        /\ net'[AckMsg(0)] <= net[AckMsg(0)] /\ net'[AckMsg(1)] <= net[AckMsg(1)]
        /\ net[ChunkMsg(chunkId)] \in Nat /\ net'[ChunkMsg(chunkId)] \in Nat
        /\ net[AckMsg(0)] \in Nat /\ net'[AckMsg(0)] \in Nat
        /\ net[AckMsg(1)] \in Nat /\ net'[AckMsg(1)] \in Nat
    BY <1>1, MsgFacts DEF Bit, TypeOK
  <2>4. InPlace(chunkId)' <=> InPlace(chunkId)
    BY DEF InPlace, hostVars
  <2>5. QED
    BY <2>1, <2>2, <2>3, <2>4 DEF OneExchange, PromptInv, hostVars, LastChunk
<1>6. LeftBehindStored' /\ Installed'
  BY DEF LeftBehindStored, Installed, PromptInv, hostVars, InPlace, LastChunk
<1>7. QED
  BY <1>4, <1>5, <1>6 DEF PromptInv

(* The active sender repeats its packet when nothing of its exchange is     *)
(* under way.                                                               *)
LEMMA ResendKeepsInv ==
  ASSUME TypeOK, TypeOK', PromptInv, pc \in Phases, NEW STATE n, n \in [Msgs -> Nat],
         \A m \in Msgs : n[m] = 0 \/ (pc = "chunk" /\ m \in {CtlMsg(0), CtlMsg(1)}),
         Resend(Active, n), UNCHANGED <<command, chunkId, stored>>,
         armed'[Active], ready'[Active] = 0,
         \A s \in Senders : s # Active => ~armed'[s] /\ ready'[s] = 0
  PROVE  PromptInv'
<1>0. SUFFICES ASSUME pc' # "failed" PROVE PromptInv'
  BY FailedKeepsInv
<1>1. /\ pc' = pc
      /\ net' = Put(n, IF pc = "chunk" THEN {ChunkMsg(chunkId)} ELSE SmPackets(reqState))
  BY <1>0 DEF Resend, Active, SendFails
<1>2. chunkId \in Chunks /\ reqState \in Bit
  BY DEF TypeOK, reqState, Bit, STM_STATE_RUNNING, STM_STATE_STOPPED
<1>3. Active' = Active
  BY <1>1 DEF Active
<1>4. OneTimer'
  BY <1>1, <1>3 DEF OneTimer, Phases
<1>5. LeftBehindStored' /\ Installed'
  BY <1>1 DEF LeftBehindStored, Installed, PromptInv, InPlace, LastChunk, Phases
<1>6. CASE pc = "chunk"
  <2>1. /\ \A k \in Chunks : n[ChunkMsg(k)] = 0
        /\ n[AckMsg(0)] = 0 /\ n[AckMsg(1)] = 0
        /\ n[QueryMsg] = 0 /\ n[StateMsg(0)] = 0 /\ n[StateMsg(1)] = 0
    BY MsgFacts DEF Bit
  <2>2. /\ \A k \in Chunks : k # chunkId => net'[ChunkMsg(k)] = 0
        /\ net'[ChunkMsg(chunkId)] = 1
        /\ net'[AckMsg(0)] = 0 /\ net'[AckMsg(1)] = 0
        /\ net'[QueryMsg] = 0 /\ net'[StateMsg(0)] = 0 /\ net'[StateMsg(1)] = 0
    <3>1. net' = Put(n, {ChunkMsg(chunkId)}) /\ 0 \in Bit
      BY <1>1, <1>6 DEF Bit
    <3>2. /\ net'[ChunkMsg(chunkId)] = n[ChunkMsg(chunkId)] + 1
          /\ \A m \in Msgs : m # ChunkMsg(chunkId) => net'[m] = n[m]
      <4>1. /\ Put(n, {ChunkMsg(chunkId)})[ChunkMsg(chunkId)] = n[ChunkMsg(chunkId)] + 1
            /\ \A m \in Msgs : m # ChunkMsg(chunkId) => Put(n, {ChunkMsg(chunkId)})[m] = n[m]
        BY <1>2, ChunkPacketFacts, Zenon
      <4>2. QED
        BY <3>1, <4>1
    <3>3. QED
      BY <1>2, <2>1, <3>2, MsgFacts DEF Bit
  <2>3. chunkId <= LastChunk /\ LastChunk' = LastChunk /\ chunkId' = chunkId /\ pc' = "chunk"
    BY <1>1, <1>6 DEF OneExchange, PromptInv, LastChunk
  <2>4. OneExchange'
    BY <2>2, <2>3 DEF OneExchange, ControlReplies
  <2>5. QED
    BY <1>4, <1>5, <2>4 DEF PromptInv
<1>7. CASE pc \in {"stop", "start"}
  <2>1. \A m \in Msgs : n[m] = 0
    BY <1>7
  <2>2. /\ \A k \in Chunks : net'[ChunkMsg(k)] = 0
        /\ net'[AckMsg(0)] = 0 /\ net'[AckMsg(1)] = 0
        /\ net'[QueryMsg] = 1 /\ net'[StateMsg(0)] = 0 /\ net'[StateMsg(1)] = 0
    <3>1. net' = Put(n, SmPackets(reqState))
      BY <1>1, <1>7
    <3>2. /\ net'[QueryMsg] = n[QueryMsg] + 1
          /\ \A m \in Msgs : m # CtlMsg(reqState) /\ m # QueryMsg => net'[m] = n[m]
      BY <1>2, <3>1, ControlPacketFacts
    <3>3. QED
      BY <1>2, <2>1, <3>2, MsgFacts DEF Bit
  <2>3. OneExchange'
    BY <1>1, <1>7, <2>2 DEF OneExchange, PromptInv, ControlReplies, NoAckUnderWay,
       NoChunkUnderWay, Bit
  <2>4. QED
    BY <1>4, <1>5, <2>3 DEF PromptInv
<1>8. QED
  BY <1>6, <1>7 DEF Phases

(* An ACK moves main to the next chunk, or to restarting the machine. *)
LEMMA AckKeepsInv ==
  ASSUME TypeOK, TypeOK', PromptInv, NEW b \in Bit, onAck(b)
  PROVE  PromptInv'
<1> DEFINE n == Take(net, AckMsg(b))
<1>0. /\ pc = "chunk" /\ Active = "chunk" /\ pc \in Phases
      /\ armed["chunk"] /\ ready["chunk"] = 0 /\ ~armed["sm"] /\ ready["sm"] = 0
      /\ \A k \in Chunks : net[ChunkMsg(k)] = 0
      /\ \A c \in Bit : c # b => net[AckMsg(c)] = 0
      /\ net[AckMsg(b)] = 1 /\ net[AckMsg(b)] > 0
      /\ ControlReplies = 0
  BY AckContext DEF onAck, Phases
<1>1. n \in [Msgs -> Nat] /\ \A m \in Msgs : n[m] = 0 \/ m \in {CtlMsg(0), CtlMsg(1)}
  <2>1. /\ n \in [Msgs -> Nat] /\ n[AckMsg(b)] = 0
        /\ \A x \in Msgs : x # AckMsg(b) => n[x] = net[x]
    BY <1>0, MsgFacts, TakeFacts DEF TypeOK
  <2>2. net[QueryMsg] = 0 /\ net[StateMsg(0)] = 0 /\ net[StateMsg(1)] = 0
    BY <1>0, MsgFacts DEF ControlReplies, TypeOK, Bit
  <2>3. QED
    BY <1>0, <2>1, <2>2 DEF Msgs, Bit
<1>2. UNCHANGED <<command, ready, stored>>
  BY DEF onAck, devVars
<1>3. CASE b = 0
  <2>1. failOne("chunk", armed, n)
    BY <1>3 DEF onAck
  <2>2. CASE Return([result EXCEPT !["chunk"] = "maxretry"],
                    [failCount EXCEPT !["chunk"] = @ + 1], armed, n)
    <3>1. [result EXCEPT !["chunk"] = "maxretry"][Active] = "maxretry"
      BY <1>0 DEF TypeOK, Senders
    <3>2. pc' = "failed"
      BY <2>2, <3>1 DEF Return
    <3>3. QED
      BY <3>2, FailedKeepsInv
  <2>3. CASE Resend("chunk", n) /\ armed' = armed /\ UNCHANGED chunkId
    <3>1. \A s \in Senders : s # Active => ~armed'[s] /\ ready'[s] = 0
      BY <1>0, <1>2, <2>3 DEF Senders
    <3>2. armed'[Active] /\ ready'[Active] = 0
      BY <1>0, <1>2, <2>3
    <3>3. QED
      BY <1>0, <1>1, <1>2, <2>3, <3>1, <3>2, ResendKeepsInv
  <2>4. QED
    BY <2>1, <2>2, <2>3 DEF failOne
<1>4. CASE b = 1 /\ pc' # "failed"
  <2>1. /\ pc' = NextPhase /\ chunkId' = NextChunk
        /\ net' = Put(n, Packets(NextPhase, NextChunk))
        /\ armed' = [[armed EXCEPT ![Active] = FALSE] EXCEPT ![SenderOf(NextPhase)] = TRUE]
    <3>1. Return([result EXCEPT !["chunk"] = "none"], failCount, armed, n)
      BY <1>4 DEF onAck
    <3>2. [result EXCEPT !["chunk"] = "none"][Active] = "none"
      BY <1>0 DEF TypeOK, Senders
    <3>3. NextPhase # "ok"
      BY <1>0 DEF NextPhase
    <3>4. QED
      BY <1>4, <3>1, <3>2, <3>3 DEF Return, SendFails
  <2>2. /\ Accepted(chunkId) /\ InPlace(chunkId)
        /\ \A k \in 0 .. chunkId - 1 : Accepted(k) /\ InPlace(k)
        /\ chunkId <= LastChunk /\ LastChunk' = LastChunk /\ LastChunk \in Nat
        /\ chunkId \in Nat /\ chunkId \in Chunks
        /\ \A k : InPlace(k)' <=> InPlace(k)
    BY <1>0, <1>2, <1>4, ChunksAssumption
    DEF PromptInv, OneExchange, LeftBehindStored, InPlace, LastChunk, TypeOK, Chunks
  <2>3. \A k \in 0 .. chunkId : Accepted(k) /\ InPlace(k)
    BY <2>2
  <2>4. CASE chunkId < LastChunk
    <3>1. /\ pc' = "chunk" /\ chunkId' = chunkId + 1 /\ chunkId' \in Chunks
          /\ net' = Put(n, {ChunkMsg(chunkId + 1)})
      BY <1>0, <2>1, <2>4 DEF NextPhase, NextChunk, Packets, TypeOK
    <3>2. /\ net'[ChunkMsg(chunkId')] = 1
          /\ \A m \in Msgs : m # ChunkMsg(chunkId') => net'[m] = n[m]
      BY <1>1, <3>1, PutFacts, MsgFacts DEF Bit
    <3>3. /\ \A k \in Chunks : k # chunkId' => net'[ChunkMsg(k)] = 0
          /\ net'[AckMsg(0)] = 0 /\ net'[AckMsg(1)] = 0
          /\ net'[QueryMsg] = 0 /\ net'[StateMsg(0)] = 0 /\ net'[StateMsg(1)] = 0
      BY <1>1, <3>1, <3>2, MsgFacts DEF Bit
    <3>4. OneExchange'
      BY <2>2, <2>4, <3>1, <3>2, <3>3 DEF OneExchange, ControlReplies
    <3>5. OneTimer'
      <4>1. Active' = "chunk"
        BY <3>1 DEF Active
      <4>2. armed'["chunk"] /\ ~armed'["sm"]
        BY <1>0, <2>1, <3>1 DEF SenderOf, TypeOK, Senders
      <4>3. QED
        BY <1>0, <1>2, <3>1, <4>1, <4>2 DEF OneTimer, Senders
    <3>6. LeftBehindStored' /\ Installed'
      <4>1. \A k \in 0 .. chunkId' - 1 : Accepted(k) /\ InPlace(k)'
        BY <2>2, <2>3, <3>1
      <4>2. QED
        BY <3>1, <4>1 DEF LeftBehindStored, Installed, Accepted
    <3>7. QED
      BY <3>4, <3>5, <3>6 DEF PromptInv
  <2>5. CASE ~(chunkId < LastChunk)
    <3>1. /\ pc' = "start" /\ chunkId' = chunkId
          /\ net' = Put(n, SmPackets(1))
      BY <1>0, <2>1, <2>5 DEF NextPhase, NextChunk, Packets, STM_STATE_RUNNING
    <3>2. /\ net'[QueryMsg] = n[QueryMsg] + 1
          /\ \A m \in Msgs : m # CtlMsg(1) /\ m # QueryMsg => net'[m] = n[m]
      <4>1. 1 \in Bit
        BY DEF Bit
      <4>2. QED
        BY <1>1, <2>2, <3>1, <4>1, ControlPacketFacts
    <3>3. /\ \A k \in Chunks : net'[ChunkMsg(k)] = 0
          /\ net'[AckMsg(0)] = 0 /\ net'[AckMsg(1)] = 0
          /\ net'[QueryMsg] = 1 /\ net'[StateMsg(0)] = 0 /\ net'[StateMsg(1)] = 0
      BY <1>1, <3>2, MsgFacts DEF Bit
    <3>4. OneExchange'
      BY <3>1, <3>3 DEF OneExchange, ControlReplies, NoAckUnderWay, NoChunkUnderWay, Bit
    <3>5. OneTimer'
      <4>1. Active' = "sm"
        BY <3>1 DEF Active
      <4>2. armed'["sm"] /\ ~armed'["chunk"]
        BY <1>0, <2>1, <3>1 DEF SenderOf, TypeOK, Senders
      <4>3. QED
        BY <1>0, <1>2, <3>1, <4>1, <4>2 DEF OneTimer, Senders
    <3>6. LeftBehindStored' /\ Installed'
      <4>1. \A k \in 0 .. LastChunk : Accepted(k) /\ InPlace(k)'
        BY <2>2, <2>3, <2>5
      <4>2. QED
        BY <2>2, <3>1, <4>1 DEF LeftBehindStored, Installed, Accepted
    <3>7. QED
      BY <3>4, <3>5, <3>6 DEF PromptInv
  <2>6. QED
    BY <2>4, <2>5
<1>5. QED
  BY <1>3, <1>4, FailedKeepsInv DEF Bit

(* A reply that confirms the requested state starts the chunks or ends the   *)
(* upload; another reply is dropped.                                         *)
LEMMA StateKeepsInv ==
  ASSUME TypeOK, TypeOK', PromptInv, NEW v \in Bit, onState(v)
  PROVE  PromptInv'
<1> DEFINE n == Take(net, StateMsg(v))
<1>0. /\ pc \in {"stop", "start"} /\ Active = "sm" /\ pc \in Phases
      /\ armed["sm"] /\ ready["sm"] = 0 /\ ~armed["chunk"] /\ ready["chunk"] = 0
      /\ NoAckUnderWay /\ NoChunkUnderWay
      /\ net[QueryMsg] = 0 /\ net[StateMsg(v)] = 1 /\ net[StateMsg(v)] > 0
      /\ \A w \in Bit : w # v => net[StateMsg(w)] = 0
  BY StateContext DEF onState, Phases
<1>1. CASE v # reqState
  <2>1. net' = n /\ UNCHANGED hostVars /\ UNCHANGED stored /\ StateMsg(v) \in Msgs
    BY <1>1, MsgFacts DEF onState, hostVars, devVars
  <2>2. QED
    BY <1>0, <2>1, FewerPackets
<1>2. CASE v = reqState /\ pc' # "failed"
  <2>1. /\ n \in [Msgs -> Nat] /\ n[StateMsg(v)] = 0
        /\ \A x \in Msgs : x # StateMsg(v) => n[x] = net[x]
    BY <1>0, MsgFacts, TakeFacts DEF TypeOK
  <2>2. /\ \A k \in Chunks : n[ChunkMsg(k)] = 0
        /\ n[AckMsg(0)] = 0 /\ n[AckMsg(1)] = 0
        /\ n[QueryMsg] = 0 /\ n[StateMsg(0)] = 0 /\ n[StateMsg(1)] = 0
    BY <1>0, <2>1, MsgFacts DEF NoAckUnderWay, NoChunkUnderWay, Bit
  <2>3. /\ pc' = NextPhase /\ chunkId' = NextChunk
        /\ net' = Put(n, Packets(NextPhase, NextChunk))
        /\ armed' = IF NextPhase = "ok" THEN [armed EXCEPT ![Active] = FALSE]
                    ELSE [[armed EXCEPT ![Active] = FALSE] EXCEPT ![SenderOf(NextPhase)] = TRUE]
    <3>1. Return([result EXCEPT !["sm"] = "none"], failCount, armed, n)
      BY <1>2 DEF onState
    <3>2. [result EXCEPT !["sm"] = "none"][Active] = "none"
      BY <1>0 DEF TypeOK, Senders
    <3>3. QED
      BY <1>2, <3>1, <3>2 DEF Return, SendFails
  <2>4. UNCHANGED <<command, ready, stored>> /\ LastChunk' = LastChunk /\ LastChunk \in Nat
    BY ChunksAssumption DEF onState, devVars, LastChunk
  <2>5. CASE pc = "stop"
    <3>1. /\ pc' = "chunk" /\ chunkId' = 0 /\ 0 \in Chunks
          /\ net' = Put(n, {ChunkMsg(0)})
      BY <2>3, <2>5, ChunksAssumption
      DEF NextPhase, NextChunk, Packets, PromptInv, OneExchange, Chunks
    <3>2. /\ net'[ChunkMsg(0)] = 1
          /\ \A m \in Msgs : m # ChunkMsg(0) => net'[m] = n[m]
      BY <2>1, <2>2, <3>1, PutFacts, MsgFacts
    <3>3. /\ \A k \in Chunks : k # 0 => net'[ChunkMsg(k)] = 0
          /\ net'[AckMsg(0)] = 0 /\ net'[AckMsg(1)] = 0
          /\ net'[QueryMsg] = 0 /\ net'[StateMsg(0)] = 0 /\ net'[StateMsg(1)] = 0
      BY <2>2, <3>1, <3>2, MsgFacts DEF Bit
    <3>4. OneExchange'
      BY <2>4, <3>1, <3>2, <3>3 DEF OneExchange, ControlReplies
    <3>5. OneTimer'
      <4>1. Active' = "chunk"
        BY <3>1 DEF Active
      <4>2. armed'["chunk"] /\ ~armed'["sm"]
        BY <1>0, <2>3, <3>1 DEF SenderOf, TypeOK, Senders
      <4>3. QED
        BY <1>0, <2>4, <3>1, <4>1, <4>2 DEF OneTimer, Senders
    <3>6. LeftBehindStored' /\ Installed'
      BY <3>1 DEF LeftBehindStored, Installed
    <3>7. QED
      BY <3>4, <3>5, <3>6 DEF PromptInv
  <2>6. CASE pc = "start"
    <3>1. pc' = "ok" /\ net' = Put(n, {})
      BY <2>3, <2>6 DEF NextPhase, Packets
    <3>2. \A k \in Chunks : net'[ChunkMsg(k)] = 0
      BY <2>1, <2>2, <3>1, PutFacts, MsgFacts
    <3>3. OneTimer' /\ OneExchange'
      BY <3>1, <3>2 DEF OneTimer, OneExchange, NoChunkUnderWay, Phases
    <3>4. LeftBehindStored' /\ Installed'
      BY <2>4, <2>6, <3>1 DEF LeftBehindStored, Installed, PromptInv, InPlace, Accepted, Written
    <3>5. QED
      BY <3>3, <3>4 DEF PromptInv
  <2>7. QED
    BY <1>0, <2>5, <2>6
<1>3. QED
  BY <1>1, <1>2, FailedKeepsInv

(* While a timer's handler is queued, it is the active sender's and nothing *)
(* is under way.                                                            *)
LEMMA TimeoutContext ==
  ASSUME TypeOK, PromptInv, NEW s \in Senders, pc \in Phases, ready[s] > 0
  PROVE  /\ s = Active /\ ready[s] = 1 /\ Silent
         /\ \A t \in Senders : t # Active => ~armed[t] /\ ready[t] = 0
BY DEF PromptInv, OneTimer

(* A timeout repeats the packet or ends the upload. *)
LEMMA TimeoutKeepsInv ==
  ASSUME TypeOK, TypeOK', PromptInv, NEW s \in Senders, onTimeout(s)
  PROVE  PromptInv'
<1>0. /\ s = Active /\ ready[s] = 1 /\ Silent /\ pc \in Phases
      /\ \A t \in Senders : t # Active => ~armed[t] /\ ready[t] = 0
  BY TimeoutContext DEF onTimeout
<1>1. failOne(s, [armed EXCEPT ![s] = TRUE], net)
  BY DEF onTimeout
<1>2. CASE Return([result EXCEPT ![s] = "maxretry"], [failCount EXCEPT ![s] = @ + 1],
                  [armed EXCEPT ![s] = TRUE], net)
  <2>1. [result EXCEPT ![s] = "maxretry"][Active] = "maxretry"
    BY <1>0 DEF TypeOK
  <2>2. pc' = "failed"
    BY <1>2, <2>1 DEF Return
  <2>3. QED
    BY <2>2, FailedKeepsInv
<1>3. CASE /\ Resend(s, net) /\ armed' = [armed EXCEPT ![s] = TRUE]
           /\ UNCHANGED chunkId
  <2>1. armed \in [Senders -> BOOLEAN] /\ ready \in [Senders -> Nat] /\ net \in [Msgs -> Nat]
    BY DEF TypeOK
  <2>2. armed'[Active] /\ \A t \in Senders : t # Active => ~armed'[t]
    BY <1>0, <1>3, <2>1
  <2>3. ready' = [ready EXCEPT ![s] = @ - 1] /\ UNCHANGED <<command, stored>>
    BY DEF onTimeout, devVars
  <2>4. ready'[Active] = 0 /\ \A t \in Senders : t # Active => ready'[t] = 0
    BY <1>0, <2>1, <2>3
  <2>5. \A m \in Msgs : net[m] = 0
    BY <1>0 DEF Silent
  <2>6. QED
    BY <1>0, <1>3, <2>1, <2>2, <2>3, <2>4, <2>5, ResendKeepsInv
<1>4. QED
  BY <1>1, <1>2, <1>3 DEF failOne

(* Over a prompt network the timer expires only when nothing is under way. *)
LEMMA ExpireKeepsInv ==
  ASSUME Prompt, TypeOK, PromptInv, NEW s \in Senders, Expire(s)
  PROVE  PromptInv'
<1>1. /\ pc \in Phases /\ Silent /\ armed[s]
      /\ armed' = [armed EXCEPT ![s] = FALSE]
      /\ ready' = [ready EXCEPT ![s] = @ + 1]
      /\ UNCHANGED <<command, pc, chunkId, net, stored>>
  BY DEF Expire, Prompt, devVars
<1>2. /\ s = Active /\ ready[s] = 0 /\ Active' = Active
      /\ \A t \in Senders : t # Active => ~armed[t] /\ ready[t] = 0
  BY <1>1 DEF PromptInv, OneTimer, Active
<1>3. ~armed'[Active] /\ \A t \in Senders : t # Active => ~armed'[t]
  BY <1>1, <1>2 DEF TypeOK
<1>4. ready'[Active] = 1 /\ \A t \in Senders : t # Active => ready'[t] = 0
  BY <1>1, <1>2 DEF TypeOK
<1>5. OneTimer'
  BY <1>1, <1>2, <1>3, <1>4 DEF OneTimer, Silent, Phases
<1>6. OneExchange' /\ LeftBehindStored' /\ Installed'
  BY <1>1 DEF PromptInv, OneExchange, LeftBehindStored, Installed, NoAckUnderWay, NoChunkUnderWay,
     ControlReplies, InPlace, LastChunk
<1>7. QED
  BY <1>5, <1>6 DEF PromptInv

(* The first send() of main. *)
LEMMA MainKeepsInv ==
  ASSUME TypeOK, PromptInv, Main
  PROVE  PromptInv'
<1>1. pc = "main" /\ Silent /\ chunkId = 0 /\ \A s \in Senders : ~armed[s] /\ ready[s] = 0
  BY DEF Main, PromptInv, OneTimer, OneExchange
<1>2. CASE pc' = "terminated"
  BY <1>2, FailedKeepsInv
<1>3. CASE /\ pc' = "stop" /\ net' = Put(net, Packets("stop", 0))
           /\ armed' = [armed EXCEPT !["sm"] = TRUE]
  <2>1. net' = Put(net, SmPackets(0)) /\ 0 \in Bit /\ 0 \in Chunks /\ net \in [Msgs -> Nat]
    BY <1>3, ChunksAssumption DEF Packets, STM_STATE_STOPPED, Bit, Chunks, TypeOK
  <2>2. /\ net'[QueryMsg] = net[QueryMsg] + 1
        /\ \A m \in Msgs : m # CtlMsg(0) /\ m # QueryMsg => net'[m] = net[m]
    BY <2>1, ControlPacketFacts
  <2>3. /\ \A k \in Chunks : net'[ChunkMsg(k)] = 0
        /\ net'[AckMsg(0)] = 0 /\ net'[AckMsg(1)] = 0
        /\ net'[QueryMsg] = 1 /\ net'[StateMsg(0)] = 0 /\ net'[StateMsg(1)] = 0
    BY <1>1, <2>2, MsgFacts DEF Bit, Silent
  <2>4. UNCHANGED <<chunkId, ready>>
    BY DEF Main
  <2>5. OneExchange'
    BY <1>1, <1>3, <2>3, <2>4 DEF OneExchange, NoAckUnderWay, NoChunkUnderWay, ControlReplies, Bit
  <2>6. armed'["sm"] /\ ~armed'["chunk"] /\ Active' = "sm"
    BY <1>1, <1>3 DEF TypeOK, Senders, Active
  <2>7. OneTimer'
    BY <1>1, <1>3, <2>4, <2>6 DEF OneTimer, Senders
  <2>8. LeftBehindStored' /\ Installed'
    BY <1>3 DEF LeftBehindStored, Installed
  <2>9. QED
    BY <2>5, <2>7, <2>8 DEF PromptInv
<1>4. QED
  BY <1>2, <1>3, FailedKeepsInv DEF Main, SendFails

(* The device stores the chunk that is being sent, and answers. *)
LEMMA WriteKeepsInv ==
  ASSUME TypeOK, TypeOK', PromptInv, NEW k \in Chunks, WriteChunk(k)
  PROVE  PromptInv'
<1> DEFINE a == IF Accepted(k) THEN 1 ELSE 0
           n == Take(net, ChunkMsg(k))
<1>0. /\ UNCHANGED hostVars /\ net[ChunkMsg(k)] > 0 /\ ChunkMsg(k) \in Msgs
      /\ net' = Put(n, {AckMsg(a)}) /\ a \in Bit
      /\ stored' = IF Written(k) THEN [stored EXCEPT ![k] = "new"] ELSE stored
  BY MsgFacts DEF WriteChunk, Bit
<1>1. /\ n \in [Msgs -> Nat] /\ n[ChunkMsg(k)] = net[ChunkMsg(k)] - 1
      /\ \A x \in Msgs : x # ChunkMsg(k) => n[x] = net[x]
  BY <1>0, TakeFacts DEF TypeOK
<1>2. /\ net'[AckMsg(a)] = net[AckMsg(a)] + 1
      /\ net'[ChunkMsg(k)] = net[ChunkMsg(k)] - 1
      /\ \A x \in Msgs : x # ChunkMsg(k) /\ x # AckMsg(a) => net'[x] = net[x]
  <2>1. \A x \in Msgs : net'[x] = IF x \in {AckMsg(a)} THEN n[x] + 1 ELSE n[x]
    BY <1>0, <1>1, PutFacts
  <2>2. AckMsg(a) # ChunkMsg(k) /\ AckMsg(a) \in Msgs
    BY <1>0, MsgFacts
  <2>3. QED
    BY <1>0, <1>1, <2>1, <2>2
<1>3. \A x \in Msgs : net[x] \in Nat
  BY DEF TypeOK
<1>4. ~Silent /\ ~NoChunkUnderWay
  BY <1>0 DEF Silent, NoChunkUnderWay
<1>5. \A j \in Chunks : InPlace(j) => InPlace(j)'
  BY <1>0 DEF InPlace, TypeOK
<1>6. LastChunk' = LastChunk /\ LastChunk < FileChunks /\ LastChunk \in Nat
      /\ chunkId \in Nat /\ chunkId < FileChunks
  BY <1>0, ChunksAssumption DEF hostVars, LastChunk, TypeOK, Chunks
<1>7. LeftBehindStored' /\ Installed'
  BY <1>0, <1>5, <1>6, ChunksAssumption
  DEF LeftBehindStored, Installed, PromptInv, hostVars, Accepted, Chunks
<1>8. OneTimer'
  BY <1>0, <1>4 DEF OneTimer, PromptInv, hostVars, Active, Phases
<1>9. OneExchange'
  <2>1. pc \notin {"stop", "start", "ok"} /\ pc' = pc /\ chunkId' = chunkId
    BY <1>0, <1>4 DEF PromptInv, OneExchange, hostVars
  <2>2. CASE pc = "chunk"
    <3>1. /\ k = chunkId
          /\ net[ChunkMsg(chunkId)] = 1 /\ net[AckMsg(0)] = 0 /\ net[AckMsg(1)] = 0
          /\ net[QueryMsg] = 0 /\ net[StateMsg(0)] = 0 /\ net[StateMsg(1)] = 0
          /\ \A j \in Chunks : j # chunkId => net[ChunkMsg(j)] = 0
          /\ chunkId <= LastChunk
      <4>1. k = chunkId
        BY <1>0, <2>2 DEF PromptInv, OneExchange
      <4>2. /\ net[ChunkMsg(chunkId)] \in Nat /\ net[AckMsg(0)] \in Nat /\ net[AckMsg(1)] \in Nat
            /\ net[QueryMsg] \in Nat /\ net[StateMsg(0)] \in Nat /\ net[StateMsg(1)] \in Nat
        BY <1>3, <4>1, MsgFacts DEF Bit
      <4>3. /\ net[ChunkMsg(chunkId)] + net[AckMsg(0)] + net[AckMsg(1)] <= 1
            /\ \A j \in Chunks : j # chunkId => net[ChunkMsg(j)] = 0
            /\ ControlReplies = 0 /\ chunkId <= LastChunk
        BY <2>2 DEF PromptInv, OneExchange
      <4>4. net[ChunkMsg(chunkId)] = 1 /\ net[AckMsg(0)] = 0 /\ net[AckMsg(1)] = 0
        BY <1>0, <4>1, <4>2, <4>3
      <4>5. net[QueryMsg] = 0 /\ net[StateMsg(0)] = 0 /\ net[StateMsg(1)] = 0
        <5>1. ControlReplies = 0
          BY <4>3
        <5>2. QED
          BY <5>1, MsgFacts DEF ControlReplies, TypeOK, Bit
      <4>6. QED
        BY <4>1, <4>3, <4>4, <4>5
    <3>2. /\ net'[ChunkMsg(chunkId)] = 0 /\ net'[AckMsg(a)] = 1
          /\ net'[QueryMsg] = 0 /\ net'[StateMsg(0)] = 0 /\ net'[StateMsg(1)] = 0
          /\ \A j \in Chunks : j # chunkId => net'[ChunkMsg(j)] = 0
          /\ \A c \in Bit : c # a => net'[AckMsg(c)] = 0
      BY <1>0, <1>2, <3>1, MsgFacts DEF Bit
    <3>3. net'[AckMsg(0)] + net'[AckMsg(1)] = 1 /\ (net'[AckMsg(1)] > 0 => Accepted(k))
      BY <1>0, <3>2 DEF Bit
    <3>4. Accepted(k) => InPlace(k)'
      BY <1>0 DEF InPlace, TypeOK
    <3>5. net'[AckMsg(0)] \in Nat /\ net'[AckMsg(1)] \in Nat
      BY MsgFacts DEF TypeOK, Bit
    <3>6. QED
      BY <2>1, <2>2, <1>6, <3>1, <3>2, <3>3, <3>4, <3>5 DEF OneExchange, ControlReplies, Accepted
  <2>3. CASE pc # "chunk"
    BY <2>1, <2>3 DEF OneExchange, PromptInv
  <2>4. QED
    BY <2>2, <2>3
<1>10. QED
  BY <1>7, <1>8, <1>9 DEF PromptInv

(* The device loses power while it stores the chunk that is being sent. *)
LEMMA TornKeepsInv ==
  ASSUME TypeOK, TypeOK', PromptInv, NEW k \in Chunks, RebootInWrite(k)
  PROVE  PromptInv'
<1>0. /\ UNCHANGED hostVars /\ net[ChunkMsg(k)] > 0 /\ ChunkMsg(k) \in Msgs
      /\ net' = Take(net, ChunkMsg(k))
      /\ stored' = IF Written(k) THEN [stored EXCEPT ![k] = "torn"] ELSE stored
  BY MsgFacts DEF RebootInWrite
<1>1. CASE pc \in {"failed", "terminated"}
  BY <1>0, <1>1, FailedKeepsInv DEF hostVars
<1>2. pc \notin {"stop", "start", "ok", "main"}
  BY <1>0 DEF PromptInv, OneExchange, OneTimer, NoChunkUnderWay, Silent
<1>3. CASE pc = "chunk"
  <2>1. /\ k = chunkId /\ chunkId <= LastChunk
        /\ net[ChunkMsg(k)] \in Nat /\ net[AckMsg(0)] \in Nat /\ net[AckMsg(1)] \in Nat
    BY <1>0, <1>3, MsgFacts DEF PromptInv, OneExchange, TypeOK, Bit
  <2>2. /\ net[ChunkMsg(k)] = 1 /\ net[AckMsg(0)] = 0 /\ net[AckMsg(1)] = 0
    BY <1>0, <1>3, <2>1 DEF PromptInv, OneExchange
  <2>3. /\ \A x \in Msgs : x # ChunkMsg(k) => net'[x] = net[x]
        /\ net'[ChunkMsg(k)] = 0
    BY <1>0, <2>2, TakeFacts DEF TypeOK
  <2>4. /\ \A j \in Chunks : net'[ChunkMsg(j)] = 0
        /\ net'[AckMsg(0)] = 0 /\ net'[AckMsg(1)] = 0
        /\ net'[QueryMsg] = net[QueryMsg]
        /\ net'[StateMsg(0)] = net[StateMsg(0)] /\ net'[StateMsg(1)] = net[StateMsg(1)]
    BY <1>0, <1>3, <2>1, <2>2, <2>3, MsgFacts DEF PromptInv, OneExchange, Bit
  <2>5. pc' = "chunk" /\ chunkId' = chunkId /\ LastChunk' = LastChunk /\ chunkId \in Chunks
    BY <1>0, <1>3 DEF hostVars, LastChunk, TypeOK
  <2>6. OneExchange'
    BY <1>3, <2>1, <2>4, <2>5 DEF PromptInv, OneExchange, ControlReplies
  <2>7. ~Silent
    BY <1>0 DEF Silent
  <2>8. OneTimer'
    BY <1>0, <2>7 DEF OneTimer, PromptInv, hostVars, Active, Phases
  <2>9. \A j \in 0 .. chunkId - 1 : InPlace(j) => InPlace(j)'
    BY <1>0, <2>1 DEF InPlace, TypeOK, Chunks
  <2>10. LeftBehindStored' /\ Installed'
    BY <1>3, <2>5, <2>9 DEF LeftBehindStored, Installed, PromptInv, Accepted
  <2>11. QED
    BY <2>6, <2>8, <2>10 DEF PromptInv
<1>4. QED
  BY <1>1, <1>2, <1>3 DEF TypeOK, Phases, Ended

(* A QUERY becomes a reply. *)
LEMMA ReadKeepsInv ==
  ASSUME TypeOK, TypeOK', PromptInv, ReadControl
  PROVE  PromptInv'
<1> DEFINE v == IF running THEN STM_STATE_RUNNING ELSE STM_STATE_STOPPED
           n == Take(net, QueryMsg)
<1>0. /\ UNCHANGED hostVars /\ UNCHANGED stored /\ net[QueryMsg] > 0 /\ QueryMsg \in Msgs
      /\ net' = Put(n, {StateMsg(v)}) /\ v \in Bit
  BY MsgFacts DEF ReadControl, Bit, devVars, STM_STATE_RUNNING, STM_STATE_STOPPED
<1>1. /\ n \in [Msgs -> Nat] /\ n[QueryMsg] = net[QueryMsg] - 1
      /\ \A x \in Msgs : x # QueryMsg => n[x] = net[x]
  BY <1>0, TakeFacts DEF TypeOK
<1>2. /\ net'[StateMsg(v)] = net[StateMsg(v)] + 1
      /\ net'[QueryMsg] = net[QueryMsg] - 1
      /\ \A x \in Msgs : x # QueryMsg /\ x # StateMsg(v) => net'[x] = net[x]
  <2>1. \A x \in Msgs : net'[x] = IF x \in {StateMsg(v)} THEN n[x] + 1 ELSE n[x]
    BY <1>0, <1>1, PutFacts
  <2>2. StateMsg(v) # QueryMsg /\ StateMsg(v) \in Msgs
    BY <1>0, MsgFacts
  <2>3. QED
    BY <1>0, <1>1, <2>1, <2>2
<1>3. /\ \A k \in Chunks : net'[ChunkMsg(k)] = net[ChunkMsg(k)]
      /\ \A b \in Bit : net'[AckMsg(b)] = net[AckMsg(b)]
      /\ \A b \in Bit : b # v => net'[StateMsg(b)] = net[StateMsg(b)]
  BY <1>0, <1>2, MsgFacts
<1>4. ControlReplies' = ControlReplies
  <2>1. /\ net[QueryMsg] \in Nat /\ net[StateMsg(0)] \in Nat /\ net[StateMsg(1)] \in Nat
    BY MsgFacts DEF TypeOK, Bit
  <2>2. QED
    BY <1>0, <1>2, <1>3, <2>1 DEF ControlReplies, Bit
<1>5. ~Silent
  BY <1>0 DEF Silent
<1>6. OneTimer'
  BY <1>0, <1>5 DEF OneTimer, PromptInv, hostVars, Active, Phases
<1>7. OneExchange'
  <2>1. /\ NoAckUnderWay' <=> NoAckUnderWay
        /\ NoChunkUnderWay' <=> NoChunkUnderWay
    BY <1>3 DEF NoAckUnderWay, NoChunkUnderWay
  <2>2. /\ net'[AckMsg(0)] = net[AckMsg(0)] /\ net'[AckMsg(1)] = net[AckMsg(1)]
        /\ net'[ChunkMsg(chunkId)] = net[ChunkMsg(chunkId)]
    BY <1>3 DEF Bit, TypeOK
  <2>3. QED
    BY <1>0, <1>3, <1>4, <2>1, <2>2 DEF OneExchange, PromptInv, hostVars, LastChunk, InPlace
<1>8. LeftBehindStored' /\ Installed'
  BY <1>0 DEF LeftBehindStored, Installed, PromptInv, hostVars, InPlace, LastChunk
<1>9. QED
  BY <1>6, <1>7, <1>8 DEF PromptInv

(* The steps of the host, the device and the network, one by one. *)
LEMMA PromptStep ==
  ASSUME Prompt, TypeOK, TypeOK', PromptInv, faults["dup"] = 0, [Next]_vars
  PROVE  PromptInv'
<1>1. ASSUME NEW s \in Senders, Expire(s) PROVE PromptInv'
  BY <1>1, ExpireKeepsInv
<1>2. ASSUME NEW s \in Senders, onTimeout(s) PROVE PromptInv'
  BY <1>2, TimeoutKeepsInv
<1>3. ASSUME NEW b \in Bit, onAck(b) PROVE PromptInv'
  BY <1>3, AckKeepsInv
<1>4. ASSUME NEW v \in Bit, onState(v) PROVE PromptInv'
  BY <1>4, StateKeepsInv
<1>5. CASE onError
  <2>1. pc \in Phases /\ Return([s \in Senders |-> "network"], failCount, armed, net)
    BY <1>5 DEF onError
  <2>2. [s \in Senders |-> "network"][Active] = "network"
    BY <2>1, NextFacts
  <2>3. pc' = "failed"
    BY <2>1, <2>2 DEF Return
  <2>4. QED
    BY <2>3, FailedKeepsInv
<1>6. ASSUME NEW k \in Chunks, WriteChunk(k) PROVE PromptInv'
  BY <1>6, WriteKeepsInv
<1>7. ASSUME NEW k \in Chunks, RebootInWrite(k) PROVE PromptInv'
  BY <1>7, TornKeepsInv
<1>8. ASSUME NEW v \in Bit, WriteControl(v) PROVE PromptInv'
  <2>1. /\ CtlMsg(v) \in Msgs /\ net[CtlMsg(v)] > 0 /\ net' = Take(net, CtlMsg(v))
        /\ UNCHANGED hostVars /\ UNCHANGED stored
    BY <1>8, MsgFacts DEF WriteControl
  <2>2. QED
    BY <2>1, FewerPackets
<1>9. CASE Reboot \/ UNCHANGED vars
  <2>1. UNCHANGED <<hostVars, net, stored>>
    BY <1>9 DEF Reboot, vars, devVars
  <2>2. QED
    BY <2>1 DEF PromptInv, OneTimer, OneExchange, LeftBehindStored, Installed, hostVars, Silent,
       Active, NoAckUnderWay, NoChunkUnderWay, ControlReplies, InPlace, LastChunk
<1>10. ASSUME NEW m \in Msgs, Lose(m) PROVE PromptInv'
  <2>1. net[m] > 0 /\ net' = Take(net, m) /\ UNCHANGED hostVars /\ UNCHANGED stored
    BY <1>10 DEF Lose, devVars
  <2>2. QED
    BY <2>1, FewerPackets
<1>11. ASSUME NEW m \in Msgs, Duplicate(m) PROVE FALSE
  BY <1>11 DEF Duplicate, Prompt
<1>12. QED
  BY <1>1, <1>2, <1>3, <1>4, <1>5, <1>6, <1>7, <1>8, <1>9, <1>10, <1>11, MainKeepsInv, ReadKeepsInv
  DEF Next, Host, Device, Network

(* Nothing is duplicated when the bound on duplicates is zero. *)
LEMMA NoDuplicates ==
  ASSUME Prompt, TypeOK, faults["dup"] = 0, [Next]_vars
  PROVE  faults'["dup"] = 0
<1>1. ASSUME NEW m \in Msgs, Duplicate(m) PROVE FALSE
  BY <1>1 DEF Duplicate, Prompt
<1>2. ASSUME NEW m \in Msgs, Lose(m) PROVE faults'["dup"] = 0
  BY <1>2 DEF Lose, TypeOK
<1>3. ASSUME NEW k \in Chunks, RebootInWrite(k) PROVE faults'["dup"] = 0
  BY <1>3 DEF RebootInWrite, TypeOK
<1>4. CASE Reboot
  BY <1>4 DEF Reboot, TypeOK
<1>5. CASE UNCHANGED faults
  BY <1>5
<1>6. QED
  BY <1>1, <1>2, <1>3, <1>4, <1>5
  DEF Next, Host, Device, Network, Main, Expire, onTimeout, onAck, onState, onError, WriteChunk,
      WriteControl, ReadControl, vars

(* The invariant of a prompt network holds throughout. *)
LEMMA PromptHolds ==
  ASSUME Prompt
  PROVE  Spec => [](TypeOK /\ PromptInv)
<1>1. Init => PromptInv /\ faults["dup"] = 0
  <2> SUFFICES ASSUME Init PROVE PromptInv /\ faults["dup"] = 0
    OBVIOUS
  <2>1. pc = "main" /\ chunkId = 0 /\ Silent /\ \A s \in Senders : ~armed[s] /\ ready[s] = 0
    BY DEF Init, Silent
  <2>2. faults["dup"] = 0
    BY DEF Init
  <2>3. QED
    BY <2>1, <2>2 DEF PromptInv, OneTimer, OneExchange, LeftBehindStored, Installed, Phases
<1>2. TypeOK /\ TypeOK' /\ PromptInv /\ faults["dup"] = 0 /\ [Next]_vars
        => (PromptInv /\ faults["dup"] = 0)'
  BY PromptStep, NoDuplicates
<1>3. QED
  BY <1>1, <1>2, TypeCorrect, PTL DEF Spec

(***************************************************************************)
(* "Program uploaded successfully." is true over a prompt network, however *)
(* many packets it loses and however often the device loses power: every   *)
(* chunk main has left behind is stored, and when main says so, the whole  *)
(* program is.  The promptness is what makes the nameless ACK safe: at     *)
(* most one exchange is under way, and it is the active sender's.          *)
(***************************************************************************)
THEOREM PromptInstalled ==
  ASSUME Prompt
  PROVE  Spec => [](LeftBehindStored /\ Installed)
<1>1. PromptInv => LeftBehindStored /\ Installed
  BY DEF PromptInv
<1>2. QED
  BY <1>1, PromptHolds, PTL

(* So the host never goes on to the next chunk before the device has stored  *)
(* this one, although the ACK does not name it.                              *)
THEOREM LeavesNoneBehind ==
  ASSUME Prompt
  PROVE  Spec => []LeftBehindStored
BY PromptInstalled, PTL

(* A failure, or a packet sent again, leaves main at its chunk or ends it. *)
LEMMA FailureStaysPut ==
  ASSUME TypeOK, NEW s \in Senders, s = Active, NEW arm, NEW n, failOne(s, arm, n)
  PROVE  chunkId' = chunkId /\ pc' \in {pc, "failed", "terminated"}
<1>1. CASE Return([result EXCEPT ![s] = "maxretry"], [failCount EXCEPT ![s] = @ + 1], arm, n)
  <2>1. [result EXCEPT ![s] = "maxretry"][Active] = "maxretry"
    BY DEF TypeOK
  <2>2. QED
    BY <1>1, <2>1 DEF Return
<1>2. CASE Resend(s, n) /\ UNCHANGED chunkId
  BY <1>2 DEF Resend, SendFails
<1>3. QED
  BY <1>1, <1>2 DEF failOne

(* An ACK that is taken is one less, whatever main sends next. *)
LEMMA AckIsTaken ==
  ASSUME TypeOK, onAck(1)
  PROVE  net'[AckMsg(1)] < net[AckMsg(1)]
<1> DEFINE n == Take(net, AckMsg(1))
           S == Packets(NextPhase, NextChunk)
<1>1. 1 \in Bit /\ AckMsg(1) \in Msgs /\ net[AckMsg(1)] > 0 /\ pc \in Phases
  BY MsgFacts DEF Bit, onAck
<1>2. n \in [Msgs -> Nat] /\ n[AckMsg(1)] = net[AckMsg(1)] - 1 /\ net[AckMsg(1)] \in Nat
  BY <1>1, TakeFacts DEF TypeOK
<1>3. AckMsg(1) \notin S /\ \A v \in Bit : AckMsg(1) # CtlMsg(v)
  BY <1>1, MsgFacts, NextFacts
  DEF Packets, SmPackets, Bit, STM_STATE_STOPPED, STM_STATE_RUNNING
<1>4. Return([result EXCEPT !["chunk"] = "none"], failCount, armed, n)
  BY DEF onAck
<1> HIDE DEF n, S
<1>5. net'[AckMsg(1)] = n[AckMsg(1)]
  <2>1. CASE net' = Put(n, S)
    BY <1>1, <1>2, <1>3, <2>1, PutFacts
  <2>2. CASE SendFails(S, n)
    BY <1>1, <1>2, <1>3, <2>2, SendFailsFacts
  <2>3. CASE net' = n
    BY <2>3
  <2>4. QED
    BY <1>4, <2>1, <2>2, <2>3 DEF Return, S
<1>6. QED
  BY <1>2, <1>5

(* Over a prompt network nothing but an ACK takes main past a chunk.  (A    *)
(* late reply about the machine's state would: it ends whichever send() is   *)
(* running.)                                                                 *)
THEOREM OnlyAcksAdvance ==
  ASSUME Prompt
  PROVE  Spec => OnlyAckAdvances
<1> DEFINE Taken    == net'[AckMsg(1)] < net[AckMsg(1)]
           Advances == pc = "chunk" /\ (chunkId' # chunkId \/ pc' = "start")
<1>1. ASSUME TypeOK, PromptInv, Next, Advances
      PROVE  Taken
  <2>1. pc = "chunk" /\ Active = "chunk" /\ pc \in Phases
    BY <1>1 DEF Active, Phases
  <2>2. ~(chunkId' = chunkId /\ pc' \in {pc, "failed", "terminated"})
    BY <1>1
  <2>3. ASSUME UNCHANGED hostVars PROVE FALSE
    BY <2>2, <2>3 DEF hostVars
  <2>4. ~Device /\ ~Network
    BY <2>3
    DEF Device, Network, WriteChunk, RebootInWrite, WriteControl, ReadControl, Reboot, Lose, Duplicate
  <2>5. ~Main
    BY <2>1 DEF Main
  <2>6. ASSUME NEW s \in Senders, Expire(s) PROVE FALSE
    BY <2>2, <2>6 DEF Expire
  <2>7. ASSUME NEW s \in Senders, onTimeout(s) PROVE FALSE
    <3>1. s = Active
      BY <1>1, <2>1, <2>7, TimeoutContext DEF onTimeout
    <3>2. failOne(s, [armed EXCEPT ![s] = TRUE], net)
      BY <2>7 DEF onTimeout
    <3>3. QED
      BY <1>1, <2>2, <3>1, <3>2, FailureStaysPut
  <2>8. ASSUME NEW b \in Bit, onAck(b) PROVE Taken
    <3>1. CASE b = 1
      BY <1>1, <2>8, <3>1, AckIsTaken
    <3>2. CASE b = 0
      <4>1. failOne("chunk", armed, Take(net, AckMsg(0))) /\ "chunk" \in Senders
        BY <2>8, <3>2 DEF onAck, Senders
      <4>2. QED
        BY <1>1, <2>1, <2>2, <4>1, FailureStaysPut
    <3>3. QED
      BY <3>1, <3>2 DEF Bit
  <2>9. ASSUME NEW v \in Bit, onState(v) PROVE FALSE
    BY <1>1, <2>1, <2>9, StateContext DEF onState
  <2>10. ~onError
    <3> SUFFICES ASSUME onError PROVE FALSE
      OBVIOUS
    <3>1. Return([s \in Senders |-> "network"], failCount, armed, net) /\ Active \in Senders
      BY <1>1, <2>1, NextFacts DEF onError
    <3>2. [s \in Senders |-> "network"][Active] = "network"
      BY <3>1
    <3>3. QED
      BY <2>2, <3>1, <3>2 DEF Return
  <2>11. QED
    BY <1>1, <2>4, <2>5, <2>6, <2>7, <2>8, <2>9, <2>10 DEF Next, Host
<1>2. TypeOK /\ PromptInv /\ [Next]_vars => [Advances => Taken]_vars
  BY <1>1
<1>3. QED
  BY <1>2, PromptHolds, PTL DEF Spec, OnlyAckAdvances

-----------------------------------------------------------------------------
(***************************************************************************)
(* A network that also keeps packets in order, and a device that keeps its *)
(* power.                                                                  *)
(***************************************************************************)

(* Losing packets, dropping a reply, letting a timer expire and giving up    *)
(* add no packet and leave the device alone.                                 *)
LEMMA NothingNewOrdered ==
  ASSUME TypeOK, TypeOK', OrderedInv, UNCHANGED <<command, stored, running>>,
         pc' = pc \/ pc' \in {"failed", "terminated"},
         \A m \in Msgs : net[m] = 0 => net'[m] = 0
  PROVE  OrderedInv'
<1>1. \A m \in Msgs : net[m] \in Nat /\ net'[m] \in Nat
  BY DEF TypeOK
<1>2. \A b \in Bit : /\ NoControlUnderWay(b) => NoControlUnderWay(b)'
                     /\ net'[StateMsg(b)] > 0 => net[StateMsg(b)] > 0
  BY <1>1, MsgFacts DEF NoControlUnderWay
<1>3. NoChunkUnderWay => NoChunkUnderWay'
  BY MsgFacts DEF NoChunkUnderWay
<1>4. LastChunk' = LastChunk /\ \A k : InPlace(k)' <=> InPlace(k)
  BY DEF LastChunk, InPlace
<1>5. TableSafe'
  BY <1>2, <1>3, <1>4 DEF OrderedInv, TableSafe, Bit
<1>6. pc' \in Phases => TrueReply'
  <2>1. pc' \in Phases => TrueReply
    BY DEF OrderedInv, Phases
  <2>2. QED
    BY <1>2, <2>1 DEF TrueReply
<1>7. QED
  BY <1>2, <1>5, <1>6 DEF OrderedInv, RunsAfterUpload, Phases, Bit

(* What each send() of main needs to begin, or to repeat its packet. *)
LEMMA StopOrdered ==
  ASSUME pc' = "stop", \A k \in Chunks : stored'[k] = "old",
         NoChunkUnderWay', NoControlUnderWay(1)', \A v \in Bit : net'[StateMsg(v)] = 0
  PROVE  OrderedInv'
BY DEF OrderedInv, TableSafe, TrueReply, RunsAfterUpload

LEMMA ChunkOrdered ==
  ASSUME pc' = "chunk", ~running',
         \A v \in Bit : NoControlUnderWay(v)' /\ net'[StateMsg(v)] = 0
  PROVE  OrderedInv'
BY DEF OrderedInv, TableSafe, TrueReply, RunsAfterUpload, Bit

LEMMA StartOrdered ==
  ASSUME pc' = "start", \A k \in 0 .. LastChunk' : InPlace(k)',
         NoControlUnderWay(0)', \A v \in Bit : net'[StateMsg(v)] = 0
  PROVE  OrderedInv'
BY DEF OrderedInv, TableSafe, TrueReply, RunsAfterUpload

(* A send() that throws may leave a command to start the machine behind only  *)
(* when the table is complete.                                               *)
LEMMA SendFailsOrdered ==
  ASSUME TypeOK, TypeOK', OrderedInv, UNCHANGED <<command, stored, running>>,
         NEW STATE n, n \in [Msgs -> Nat], NEW STATE S, SendFails(S, n),
         \A m \in Msgs : net[m] = 0 => n[m] = 0,
         CtlMsg(1) \in S => \A k \in 0 .. LastChunk : InPlace(k)
  PROVE  OrderedInv'
<1>1. /\ pc' = "failed"
      /\ \A m \in Msgs : (\A v \in Bit : m # CtlMsg(v)) \/ m \notin S => net'[m] = n[m]
  BY SendFailsFacts
<1>2. LastChunk' = LastChunk /\ \A k : InPlace(k)' <=> InPlace(k)
  BY DEF LastChunk, InPlace
<1>3. NoChunkUnderWay => NoChunkUnderWay'
  BY <1>1, MsgFacts DEF NoChunkUnderWay
<1>4. CtlMsg(1) \notin S /\ NoControlUnderWay(1) => NoControlUnderWay(1)'
  BY <1>1, MsgFacts DEF NoControlUnderWay, Bit
<1>5. TableSafe'
  BY <1>2, <1>3, <1>4 DEF OrderedInv, TableSafe
<1>6. QED
  BY <1>1, <1>5 DEF OrderedInv, RunsAfterUpload, Phases

LEMMA MainOrdered ==
  ASSUME TypeOK, TypeOK', PromptInv, OrderedInv, Main
  PROVE  OrderedInv'
<1>1. pc = "main" /\ Silent /\ UNCHANGED <<command, stored, running>>
  BY DEF Main, PromptInv, OneTimer, devVars
<1>2. CASE pc' = "terminated" /\ net' = net
  BY <1>1, <1>2, NothingNewOrdered
<1>3. CASE pc' = "stop" /\ net' = Put(net, Packets("stop", 0))
  <2>1. net' = Put(net, SmPackets(0)) /\ 0 \in Bit /\ 0 \in Chunks /\ net \in [Msgs -> Nat]
    BY <1>3, ChunksAssumption DEF Packets, STM_STATE_STOPPED, Bit, Chunks, TypeOK
  <2>2. \A m \in Msgs : m # CtlMsg(0) /\ m # QueryMsg => net'[m] = net[m]
    BY <2>1, ControlPacketFacts
  <2>3. NoChunkUnderWay' /\ NoControlUnderWay(1)' /\ \A v \in Bit : net'[StateMsg(v)] = 0
    BY <1>1, <2>2, MsgFacts DEF NoChunkUnderWay, NoControlUnderWay, Bit, Silent
  <2>4. \A k \in Chunks : stored'[k] = "old"
    BY <1>1 DEF OrderedInv
  <2>5. QED
    BY <1>3, <2>3, <2>4, StopOrdered
<1>4. CASE SendFails(Packets("stop", 0), net)
  <2>1. Packets("stop", 0) = SmPackets(0)
    BY DEF Packets, STM_STATE_STOPPED
  <2>2. CtlMsg(1) \notin SmPackets(0)
    BY MsgFacts DEF SmPackets, Bit
  <2>3. net \in [Msgs -> Nat]
    BY DEF TypeOK
  <2>4. QED
    BY <1>1, <1>4, <2>1, <2>2, <2>3, SendFailsOrdered
<1>5. QED
  BY <1>2, <1>3, <1>4 DEF Main

(* The active sender repeats its packet. *)
LEMMA ResendOrdered ==
  ASSUME TypeOK, TypeOK', PromptInv, OrderedInv, pc \in Phases, NEW STATE n, n \in [Msgs -> Nat],
         \A m \in Msgs : n[m] = 0 \/ (pc = "chunk" /\ m \in {CtlMsg(0), CtlMsg(1)}),
         \A m \in Msgs : net[m] = 0 => n[m] = 0,
         Resend(Active, n), UNCHANGED <<command, chunkId, stored, running>>
  PROVE  OrderedInv'
<1> DEFINE old == IF pc = "chunk" THEN {ChunkMsg(chunkId)} ELSE SmPackets(reqState)
<1>2. chunkId \in Chunks /\ 0 \in Bit /\ 1 \in Bit
  BY DEF TypeOK, Bit
<1>0. CASE SendFails(old, n)
  <2>1. CtlMsg(1) \in old => pc = "start"
    BY <1>2, MsgFacts DEF SmPackets, reqState, Phases, STM_STATE_STOPPED, STM_STATE_RUNNING
  <2>2. CtlMsg(1) \in old => \A k \in 0 .. LastChunk : InPlace(k)
    BY <2>1 DEF PromptInv, LeftBehindStored
  <2>3. QED
    BY <1>0, <2>2, SendFailsOrdered
<1>1. SUFFICES ASSUME pc' = pc, net' = Put(n, old) PROVE OrderedInv'
  BY <1>0 DEF Resend, Active
<1>3. CASE pc = "chunk"
  <2>1. \A m \in Msgs : m # ChunkMsg(chunkId) => net'[m] = n[m]
    BY <1>1, <1>2, <1>3, ChunkPacketFacts
  <2>2. \A v \in Bit : net[CtlMsg(v)] = 0
    BY <1>3 DEF OrderedInv, NoControlUnderWay, Bit
  <2>3. \A v \in Bit : net'[CtlMsg(v)] = 0 /\ net'[StateMsg(v)] = 0
    BY <1>2, <2>1, <2>2, MsgFacts DEF Bit
  <2>4. ~running'
    BY <1>3 DEF OrderedInv
  <2>5. QED
    BY <1>1, <1>3, <2>3, <2>4, ChunkOrdered DEF NoControlUnderWay
<1>4. CASE pc = "stop"
  <2>1. net' = Put(n, SmPackets(0))
    BY <1>1, <1>4 DEF reqState, STM_STATE_STOPPED
  <2>2. \A m \in Msgs : m # CtlMsg(0) /\ m # QueryMsg => net'[m] = n[m]
    BY <1>2, <2>1, ControlPacketFacts
  <2>3. \A m \in Msgs : n[m] = 0
    BY <1>4
  <2>4. NoChunkUnderWay' /\ NoControlUnderWay(1)' /\ \A v \in Bit : net'[StateMsg(v)] = 0
    BY <2>2, <2>3, MsgFacts DEF NoChunkUnderWay, NoControlUnderWay, Bit
  <2>5. \A k \in Chunks : stored'[k] = "old"
    BY <1>4 DEF OrderedInv
  <2>6. QED
    BY <1>1, <1>4, <2>4, <2>5, StopOrdered
<1>5. CASE pc = "start"
  <2>1. net' = Put(n, SmPackets(1))
    BY <1>1, <1>5 DEF reqState, STM_STATE_RUNNING
  <2>2. \A m \in Msgs : m # CtlMsg(1) /\ m # QueryMsg => net'[m] = n[m]
    BY <1>2, <2>1, ControlPacketFacts
  <2>3. \A m \in Msgs : n[m] = 0
    BY <1>5
  <2>4. NoControlUnderWay(0)' /\ \A v \in Bit : net'[StateMsg(v)] = 0
    BY <2>2, <2>3, MsgFacts DEF NoControlUnderWay, Bit
  <2>5. \A k \in 0 .. LastChunk' : InPlace(k)'
    BY <1>5 DEF PromptInv, LeftBehindStored, InPlace, LastChunk
  <2>6. QED
    BY <1>1, <1>5, <2>4, <2>5, StartOrdered
<1>6. QED
  BY <1>3, <1>4, <1>5 DEF Phases

LEMMA TimeoutOrdered ==
  ASSUME TypeOK, TypeOK', PromptInv, OrderedInv, NEW s \in Senders, onTimeout(s)
  PROVE  OrderedInv'
<1>0. /\ s = Active /\ Silent /\ pc \in Phases /\ UNCHANGED <<command, stored, running>>
      /\ failOne(s, [armed EXCEPT ![s] = TRUE], net)
  BY TimeoutContext DEF onTimeout, devVars
<1>1. CASE Return([result EXCEPT ![s] = "maxretry"], [failCount EXCEPT ![s] = @ + 1],
                  [armed EXCEPT ![s] = TRUE], net)
  <2>1. [result EXCEPT ![s] = "maxretry"][Active] = "maxretry"
    BY <1>0 DEF TypeOK
  <2>2. pc' = "failed" /\ net' = net
    BY <1>1, <2>1 DEF Return
  <2>3. QED
    BY <1>0, <2>2, NothingNewOrdered
<1>2. CASE Resend(s, net) /\ UNCHANGED chunkId
  <2>1. net \in [Msgs -> Nat] /\ \A m \in Msgs : net[m] = 0
    BY <1>0 DEF TypeOK, Silent
  <2>2. QED
    BY <1>0, <1>2, <2>1, ResendOrdered
<1>3. QED
  BY <1>0, <1>1, <1>2 DEF failOne

LEMMA AckOrdered ==
  ASSUME TypeOK, TypeOK', PromptInv, PromptInv', OrderedInv, NEW b \in Bit, onAck(b)
  PROVE  OrderedInv'
<1> DEFINE n == Take(net, AckMsg(b))
<1>0. /\ pc = "chunk" /\ Active = "chunk" /\ pc \in Phases
      /\ \A k \in Chunks : net[ChunkMsg(k)] = 0
      /\ \A c \in Bit : c # b => net[AckMsg(c)] = 0
      /\ net[AckMsg(b)] = 1 /\ net[AckMsg(b)] > 0
      /\ ControlReplies = 0
      /\ UNCHANGED <<command, stored, running>>
  BY AckContext DEF onAck, Phases, devVars
<1>1. /\ n \in [Msgs -> Nat] /\ n[AckMsg(b)] = 0
      /\ \A x \in Msgs : x # AckMsg(b) => n[x] = net[x]
  BY <1>0, MsgFacts, TakeFacts DEF TypeOK
<1>2. net[QueryMsg] = 0 /\ net[StateMsg(0)] = 0 /\ net[StateMsg(1)] = 0
  BY <1>0, MsgFacts DEF ControlReplies, TypeOK, Bit
<1>3. \A m \in Msgs : n[m] = 0 \/ m \in {CtlMsg(0), CtlMsg(1)}
  BY <1>0, <1>1, <1>2 DEF Msgs, Bit
<1>4. \A m \in Msgs : net[m] = 0 => n[m] = 0
  BY <1>0, <1>1
<1>5. ~running /\ \A v \in Bit : net[CtlMsg(v)] = 0
  BY <1>0 DEF OrderedInv, NoControlUnderWay, Bit
<1>6. \A v \in Bit : n[CtlMsg(v)] = 0 /\ n[StateMsg(v)] = 0
  BY <1>1, <1>2, <1>5, MsgFacts DEF Bit
<1>7. CASE b = 0
  <2>1. failOne("chunk", armed, n)
    BY <1>7 DEF onAck
  <2>2. CASE Return([result EXCEPT !["chunk"] = "maxretry"],
                    [failCount EXCEPT !["chunk"] = @ + 1], armed, n)
    <3>1. [result EXCEPT !["chunk"] = "maxretry"][Active] = "maxretry"
      BY <1>0 DEF TypeOK, Senders
    <3>2. pc' = "failed" /\ net' = n
      BY <2>2, <3>1 DEF Return
    <3>3. QED
      BY <1>0, <1>4, <3>2, NothingNewOrdered
  <2>3. CASE Resend("chunk", n) /\ UNCHANGED chunkId
    BY <1>0, <1>1, <1>3, <1>4, <2>3, ResendOrdered
  <2>4. QED
    BY <2>1, <2>2, <2>3 DEF failOne
<1>8. CASE b = 1 /\ ~SendFails(Packets(NextPhase, NextChunk), n)
  <2>1. /\ pc' = NextPhase /\ chunkId' = NextChunk
        /\ net' = Put(n, Packets(NextPhase, NextChunk))
    <3>1. Return([result EXCEPT !["chunk"] = "none"], failCount, armed, n)
      BY <1>8 DEF onAck
    <3>2. [result EXCEPT !["chunk"] = "none"][Active] = "none"
      BY <1>0 DEF TypeOK, Senders
    <3>3. QED
      BY <1>8, <3>1, <3>2 DEF Return
  <2>2. CASE chunkId < LastChunk
    <3>1. /\ pc' = "chunk" /\ chunkId' \in Chunks
          /\ net' = Put(n, {ChunkMsg(chunkId')})
      BY <1>0, <2>1, <2>2 DEF NextPhase, NextChunk, Packets, TypeOK
    <3>2. \A m \in Msgs : m # ChunkMsg(chunkId') => net'[m] = n[m]
      BY <1>1, <3>1, PutFacts
    <3>3. \A v \in Bit : NoControlUnderWay(v)' /\ net'[StateMsg(v)] = 0
      BY <1>6, <3>1, <3>2, MsgFacts DEF NoControlUnderWay
    <3>4. QED
      BY <1>0, <1>5, <3>1, <3>3, ChunkOrdered
  <2>3. CASE ~(chunkId < LastChunk)
    <3>1. pc' = "start" /\ net' = Put(n, SmPackets(1)) /\ 1 \in Bit /\ 0 \in Chunks
      BY <1>0, <2>1, <2>3, ChunksAssumption DEF NextPhase, NextChunk, Packets, STM_STATE_RUNNING,
         Bit, Chunks
    <3>2. \A m \in Msgs : m # CtlMsg(1) /\ m # QueryMsg => net'[m] = n[m]
      BY <1>1, <3>1, ControlPacketFacts
    <3>3. NoControlUnderWay(0)' /\ \A v \in Bit : net'[StateMsg(v)] = 0
      BY <1>6, <3>2, MsgFacts DEF NoControlUnderWay, Bit
    <3>4. \A k \in 0 .. LastChunk' : InPlace(k)'
      BY <3>1 DEF PromptInv, LeftBehindStored
    <3>5. QED
      BY <3>1, <3>3, <3>4, StartOrdered
  <2>4. QED
    BY <2>2, <2>3
<1>9. CASE b = 1 /\ SendFails(Packets(NextPhase, NextChunk), n)
  <2>1. /\ Accepted(chunkId) /\ InPlace(chunkId)
        /\ \A k \in 0 .. chunkId - 1 : InPlace(k)
        /\ chunkId <= LastChunk /\ LastChunk \in Nat /\ chunkId \in Nat
    BY <1>0, <1>9, ChunksAssumption
    DEF PromptInv, OneExchange, LeftBehindStored, LastChunk, TypeOK, Chunks
  <2>2. CASE chunkId < LastChunk
    <3>1. Packets(NextPhase, NextChunk) = {ChunkMsg(NextChunk)} /\ NextChunk \in Chunks
      BY <1>0, <2>2, NextFacts DEF NextPhase, Packets
    <3>2. CtlMsg(1) \notin Packets(NextPhase, NextChunk)
      BY <3>1, MsgFacts DEF Bit
    <3>3. QED
      BY <1>0, <1>1, <1>4, <1>9, <3>2, SendFailsOrdered
  <2>3. CASE ~(chunkId < LastChunk)
    <3>1. \A k \in 0 .. LastChunk : InPlace(k)
      BY <2>1, <2>3
    <3>2. QED
      BY <1>0, <1>1, <1>4, <1>9, <3>1, SendFailsOrdered
  <2>4. QED
    BY <2>2, <2>3
<1>10. QED
  BY <1>7, <1>8, <1>9 DEF Bit

LEMMA StateOrdered ==
  ASSUME TypeOK, TypeOK', PromptInv, OrderedInv, NEW v \in Bit, onState(v)
  PROVE  OrderedInv'
<1> DEFINE n == Take(net, StateMsg(v))
<1>0. /\ pc \in {"stop", "start"} /\ Active = "sm" /\ pc \in Phases
      /\ NoChunkUnderWay
      /\ net[StateMsg(v)] = 1 /\ net[StateMsg(v)] > 0
      /\ \A w \in Bit : w # v => net[StateMsg(w)] = 0
      /\ UNCHANGED <<command, stored, running>>
  BY StateContext DEF onState, Phases, devVars
<1>1. /\ n \in [Msgs -> Nat] /\ n[StateMsg(v)] = 0
      /\ \A x \in Msgs : x # StateMsg(v) => n[x] = net[x]
  BY <1>0, MsgFacts, TakeFacts DEF TypeOK
<1>2. CASE v # reqState
  <2>1. net' = n /\ pc' = pc
    BY <1>2 DEF onState
  <2>2. \A m \in Msgs : net[m] = 0 => net'[m] = 0
    BY <1>0, <1>1, <2>1
  <2>3. QED
    BY <1>0, <2>1, <2>2, NothingNewOrdered
<1>3. CASE v = reqState /\ SendFails(Packets(NextPhase, NextChunk), n)
  <2>1. CASE pc = "stop"
    <3>1. Packets(NextPhase, NextChunk) = {ChunkMsg(NextChunk)} /\ NextChunk \in Chunks
      BY <1>0, <2>1, NextFacts DEF NextPhase, Packets
    <3>2. CtlMsg(1) \notin Packets(NextPhase, NextChunk)
      BY <3>1, MsgFacts DEF Bit
    <3>3. \A m \in Msgs : net[m] = 0 => n[m] = 0
      BY <1>0, <1>1
    <3>4. QED
      BY <1>0, <1>1, <1>3, <3>2, <3>3, SendFailsOrdered
  <2>2. CASE pc = "start"
    <3>1. \A k \in 0 .. LastChunk : InPlace(k)
      BY <2>2 DEF PromptInv, LeftBehindStored
    <3>2. \A m \in Msgs : net[m] = 0 => n[m] = 0
      BY <1>0, <1>1
    <3>3. QED
      BY <1>0, <1>1, <1>3, <3>1, <3>2, SendFailsOrdered
  <2>3. QED
    BY <1>0, <2>1, <2>2
<1>4. CASE v = reqState /\ ~SendFails(Packets(NextPhase, NextChunk), n)
  <2>1. /\ pc' = NextPhase /\ chunkId' = NextChunk
        /\ net' = Put(n, Packets(NextPhase, NextChunk))
    <3>1. Return([result EXCEPT !["sm"] = "none"], failCount, armed, n)
      BY <1>4 DEF onState
    <3>2. [result EXCEPT !["sm"] = "none"][Active] = "none"
      BY <1>0 DEF TypeOK, Senders
    <3>3. QED
      BY <1>4, <3>1, <3>2 DEF Return
  <2>2. (\A w \in Bit : net[CtlMsg(w)] = 0) /\ (running <=> v = STM_STATE_RUNNING)
    BY <1>0 DEF OrderedInv, TrueReply, NoControlUnderWay
  <2>3. \A w \in Bit : n[CtlMsg(w)] = 0 /\ n[StateMsg(w)] = 0
    BY <1>0, <1>1, <2>2, MsgFacts
  <2>4. CASE pc = "stop"
    <3>1. pc' = "chunk" /\ chunkId' \in Chunks /\ net' = Put(n, {ChunkMsg(chunkId')})
      BY <2>1, <2>4 DEF NextPhase, NextChunk, Packets, TypeOK
    <3>2. \A m \in Msgs : m # ChunkMsg(chunkId') => net'[m] = n[m]
      BY <1>1, <3>1, PutFacts
    <3>3. \A w \in Bit : NoControlUnderWay(w)' /\ net'[StateMsg(w)] = 0
      BY <2>3, <3>1, <3>2, MsgFacts DEF NoControlUnderWay
    <3>4. ~running'
      BY <1>0, <1>4, <2>2, <2>4 DEF reqState, STM_STATE_RUNNING, STM_STATE_STOPPED
    <3>5. QED
      BY <3>1, <3>3, <3>4, ChunkOrdered
  <2>5. CASE pc = "start"
    <3>1. pc' = "ok" /\ net' = Put(n, {})
      BY <2>1, <2>5 DEF NextPhase, Packets
    <3>2. \A m \in Msgs : net'[m] = n[m]
      BY <1>1, <3>1, PutFacts
    <3>3. running'
      BY <1>0, <1>4, <2>2, <2>5 DEF reqState
    <3>4. NoControlUnderWay(0)'
      BY <2>3, <3>2, MsgFacts DEF NoControlUnderWay, Bit
    <3>5. TableSafe'
      BY <1>0, <2>5 DEF PromptInv, LeftBehindStored, InPlace, LastChunk, TableSafe
    <3>6. QED
      BY <3>1, <3>3, <3>4, <3>5 DEF OrderedInv, RunsAfterUpload, Phases
  <2>6. QED
    BY <1>0, <2>4, <2>5
<1>5. QED
  BY <1>2, <1>3, <1>4

(* A chunk is stored only while the machine is stopped, or when hexaupload   *)
(* has gone and the machine cannot be started.                               *)
LEMMA WriteOrdered ==
  ASSUME TypeOK, TypeOK', PromptInv, OrderedInv, NEW k \in Chunks, WriteChunk(k)
  PROVE  OrderedInv'
<1> DEFINE a == IF Accepted(k) THEN 1 ELSE 0
           n == Take(net, ChunkMsg(k))
<1>0. /\ UNCHANGED hostVars /\ UNCHANGED running /\ net[ChunkMsg(k)] > 0
      /\ ChunkMsg(k) \in Msgs /\ net' = Put(n, {AckMsg(a)}) /\ a \in Bit
      /\ stored' = IF Written(k) THEN [stored EXCEPT ![k] = "new"] ELSE stored
  BY MsgFacts DEF WriteChunk, Bit
<1>1. n \in [Msgs -> Nat] /\ \A x \in Msgs : x # ChunkMsg(k) => n[x] = net[x]
  BY <1>0, TakeFacts DEF TypeOK
<1>2. \A x \in Msgs : net'[x] = IF x \in {AckMsg(a)} THEN n[x] + 1 ELSE n[x]
  BY <1>0, <1>1, PutFacts
<1>3. \A v \in Bit : /\ NoControlUnderWay(v)' <=> NoControlUnderWay(v)
                     /\ net'[StateMsg(v)] = net[StateMsg(v)]
  BY <1>0, <1>1, <1>2, MsgFacts DEF NoControlUnderWay
<1>4. ~Silent /\ ~NoChunkUnderWay
  BY <1>0 DEF Silent, NoChunkUnderWay
<1>5. pc \in {"chunk", "failed", "terminated"}
  BY <1>4 DEF TypeOK, PromptInv, OneExchange, OneTimer, Phases, Ended
<1>6. \A j \in Chunks : InPlace(j) => InPlace(j)'
  BY <1>0 DEF InPlace, TypeOK
<1>7. 0 .. LastChunk \subseteq Chunks /\ LastChunk' = LastChunk
  BY <1>0, ChunksAssumption DEF hostVars, LastChunk, Chunks
<1>8. TableSafe'
  BY <1>0, <1>3, <1>4, <1>6, <1>7 DEF OrderedInv, TableSafe, Bit
<1>9. CASE pc = "chunk"
  <2>1. TrueReply'
    BY <1>0, <1>3, <1>9 DEF OrderedInv, TrueReply, Phases
  <2>2. QED
    BY <1>0, <1>3, <1>8, <1>9, <2>1 DEF OrderedInv, RunsAfterUpload, hostVars, Bit
<1>10. CASE pc \in {"failed", "terminated"}
  BY <1>0, <1>8, <1>10 DEF OrderedInv, RunsAfterUpload, hostVars, Phases
<1>11. QED
  BY <1>5, <1>9, <1>10

(* The machine is started only on a complete table. *)
LEMMA ControlOrdered ==
  ASSUME TypeOK, TypeOK', OrderedInv, NEW v \in Bit, WriteControl(v)
  PROVE  OrderedInv'
<1>0. /\ UNCHANGED hostVars /\ UNCHANGED stored /\ net[CtlMsg(v)] > 0 /\ CtlMsg(v) \in Msgs
      /\ net' = Take(net, CtlMsg(v)) /\ running' = (v = 1)
  BY MsgFacts DEF WriteControl, STM_STATE_RUNNING
<1>1. \A x \in Msgs : x # CtlMsg(v) => net'[x] = net[x]
  BY <1>0, TakeFacts DEF TypeOK
<1>2. /\ ~NoControlUnderWay(v)
      /\ \A w \in Bit : NoControlUnderWay(w) => NoControlUnderWay(w)'
      /\ \A w \in Bit : net'[StateMsg(w)] = net[StateMsg(w)]
      /\ NoChunkUnderWay => NoChunkUnderWay'
  BY <1>0, <1>1, MsgFacts DEF NoControlUnderWay, NoChunkUnderWay
<1>3. LastChunk' = LastChunk /\ \A k : InPlace(k)' <=> InPlace(k)
  BY <1>0 DEF LastChunk, InPlace, hostVars
<1>4. v = 0 \/ v = 1
  BY DEF Bit
<1>5. TableSafe'
  BY <1>0, <1>2, <1>3, <1>4 DEF OrderedInv, TableSafe, Bit
<1>6. pc' \in Phases => TrueReply'
  <2>1. pc \in Phases => \A w \in Bit : ~(net[StateMsg(w)] > 0)
    BY <1>2 DEF OrderedInv, TrueReply
  <2>2. QED
    BY <1>0, <1>2, <2>1 DEF TrueReply, hostVars
<1>7. pc # "chunk" /\ (pc = "ok" => v = 1)
  BY <1>2, <1>4 DEF OrderedInv
<1>8. QED
  BY <1>0, <1>2, <1>5, <1>6, <1>7 DEF OrderedInv, RunsAfterUpload, hostVars, Bit

(* A reply is truthful when it is made: no command is before the QUERY. *)
LEMMA ReadOrdered ==
  ASSUME Ordered, TypeOK, TypeOK', OrderedInv, ReadControl
  PROVE  OrderedInv'
<1> DEFINE v == IF running THEN STM_STATE_RUNNING ELSE STM_STATE_STOPPED
           n == Take(net, QueryMsg)
<1>0. /\ UNCHANGED hostVars /\ UNCHANGED <<stored, running>>
      /\ net[QueryMsg] > 0 /\ QueryMsg \in Msgs
      /\ net' = Put(n, {StateMsg(v)}) /\ v \in Bit
      /\ \A w \in Bit : net[CtlMsg(w)] = 0
  BY MsgFacts DEF ReadControl, Bit, devVars, STM_STATE_RUNNING, STM_STATE_STOPPED, Ordered
<1>1. n \in [Msgs -> Nat] /\ \A x \in Msgs : x # QueryMsg => n[x] = net[x]
  BY <1>0, TakeFacts DEF TypeOK
<1>2. \A x \in Msgs : net'[x] = IF x \in {StateMsg(v)} THEN n[x] + 1 ELSE n[x]
  BY <1>0, <1>1, PutFacts
<1>3. /\ \A w \in Bit : net'[CtlMsg(w)] = 0 /\ (w # v => net'[StateMsg(w)] = net[StateMsg(w)])
      /\ NoChunkUnderWay => NoChunkUnderWay'
  BY <1>0, <1>1, <1>2, MsgFacts DEF NoChunkUnderWay
<1>4. LastChunk' = LastChunk /\ \A k : InPlace(k)' <=> InPlace(k)
  BY <1>0 DEF LastChunk, InPlace, hostVars
<1>5. TableSafe'
  BY <1>0, <1>3, <1>4 DEF OrderedInv, TableSafe, NoControlUnderWay, Bit
<1>6. running <=> v = STM_STATE_RUNNING
  BY DEF STM_STATE_RUNNING, STM_STATE_STOPPED
<1>7. pc' \in Phases => TrueReply'
  BY <1>0, <1>3, <1>6 DEF OrderedInv, TrueReply, NoControlUnderWay, hostVars
<1>8. QED
  BY <1>0, <1>3, <1>5, <1>7 DEF OrderedInv, RunsAfterUpload, hostVars, Bit, NoControlUnderWay

LEMMA OrderedStep ==
  ASSUME Ordered, TypeOK, TypeOK', PromptInv, PromptInv', OrderedInv, faults["dup"] = 0,
         [Next]_vars
  PROVE  OrderedInv'
<1>0. Prompt
  BY DEF Ordered
<1>1. CASE Main
  BY <1>1, MainOrdered
<1>2. ASSUME NEW s \in Senders, Expire(s) PROVE OrderedInv'
  BY <1>2, NothingNewOrdered DEF Expire, devVars
<1>3. ASSUME NEW s \in Senders, onTimeout(s) PROVE OrderedInv'
  BY <1>3, TimeoutOrdered
<1>4. ASSUME NEW b \in Bit, onAck(b) PROVE OrderedInv'
  BY <1>4, AckOrdered
<1>5. ASSUME NEW v \in Bit, onState(v) PROVE OrderedInv'
  BY <1>5, StateOrdered
<1>6. CASE onError
  <2>1. /\ pc \in Phases /\ Return([s \in Senders |-> "network"], failCount, armed, net)
        /\ UNCHANGED <<command, stored, running>>
    BY <1>6 DEF onError, devVars
  <2>2. [s \in Senders |-> "network"][Active] = "network"
    BY <2>1, NextFacts
  <2>3. pc' = "failed" /\ net' = net
    BY <2>1, <2>2 DEF Return
  <2>4. QED
    BY <2>1, <2>3, NothingNewOrdered
<1>7. ASSUME NEW k \in Chunks, WriteChunk(k) PROVE OrderedInv'
  BY <1>7, WriteOrdered
<1>8. ASSUME NEW k \in Chunks, RebootInWrite(k) PROVE FALSE
  BY <1>8 DEF RebootInWrite, Ordered, TypeOK
<1>9. CASE Reboot
  BY <1>9 DEF Reboot, Ordered, TypeOK
<1>10. ASSUME NEW v \in Bit, WriteControl(v) PROVE OrderedInv'
  BY <1>10, ControlOrdered
<1>11. CASE ReadControl
  BY <1>11, ReadOrdered
<1>12. ASSUME NEW m \in Msgs, Lose(m) PROVE OrderedInv'
  <2>1. /\ net[m] > 0 /\ net' = Take(net, m) /\ UNCHANGED hostVars /\ UNCHANGED devVars
        /\ net \in [Msgs -> Nat]
    BY <1>12 DEF Lose, TypeOK
  <2>2. \A x \in Msgs : net[x] = 0 => net'[x] = 0
    BY <2>1, TakeFacts
  <2>3. QED
    BY <2>1, <2>2, NothingNewOrdered DEF hostVars, devVars
<1>13. ASSUME NEW m \in Msgs, Duplicate(m) PROVE FALSE
  BY <1>0, <1>13 DEF Duplicate, Prompt
<1>14. CASE UNCHANGED vars
  BY <1>14, NothingNewOrdered DEF vars, hostVars, devVars
<1>15. QED
  BY <1>1, <1>2, <1>3, <1>4, <1>5, <1>6, <1>7, <1>8, <1>9, <1>10, <1>11, <1>12, <1>13, <1>14
  DEF Next, Host, Device, Network

(***************************************************************************)
(* When packets also stay in order and the device keeps its power, a       *)
(* successful upload leaves the machine running, and no table that is      *)
(* partly old and partly new is ever interpreted, whether the upload ends  *)
(* well or is given up half way: stop, chunks and start each take effect   *)
(* on the device before the host begins the next.                          *)
(***************************************************************************)
THEOREM OrderedUpload ==
  ASSUME Ordered
  PROVE  Spec => [](RunsAfterUpload /\ NoMixedTable)
<1>0. Prompt
  BY DEF Ordered
<1> DEFINE IInv == PromptInv /\ OrderedInv /\ faults["dup"] = 0
<1>1. Init => IInv
  <2> SUFFICES ASSUME Init PROVE IInv
    OBVIOUS
  <2>1. pc = "main" /\ chunkId = 0 /\ Silent /\ \A s \in Senders : ~armed[s] /\ ready[s] = 0
    BY DEF Init, Silent
  <2>2. faults["dup"] = 0 /\ \A k \in Chunks : stored[k] = "old"
    BY DEF Init
  <2>3. PromptInv
    BY <2>1 DEF PromptInv, OneTimer, OneExchange, LeftBehindStored, Installed, Phases
  <2>4. NoChunkUnderWay /\ NoControlUnderWay(1)
    BY <2>1, MsgFacts DEF Silent, NoChunkUnderWay, NoControlUnderWay, Bit
  <2>5. OrderedInv
    BY <2>1, <2>2, <2>4 DEF OrderedInv, TableSafe, RunsAfterUpload, Phases
  <2>6. QED
    BY <2>2, <2>3, <2>5
<1>2. TypeOK /\ TypeOK' /\ IInv /\ [Next]_vars => IInv'
  BY <1>0, PromptStep, NoDuplicates, OrderedStep
<1>3. IInv => RunsAfterUpload /\ NoMixedTable
  <2> SUFFICES ASSUME IInv PROVE NoMixedTable
    BY DEF OrderedInv
  <2>1. 1 .. LastChunk \subseteq Chunks /\ 1 .. LastChunk \subseteq 0 .. LastChunk
    BY ChunksAssumption DEF LastChunk, Chunks
  <2>2. QED
    BY <2>1 DEF OrderedInv, TableSafe, NoMixedTable
<1>4. QED
  BY <1>1, <1>2, <1>3, TypeCorrect, PTL DEF Spec

(* So a success that hexaupload reports means that the new machine runs,     *)
(* whatever start commands and answers were lost.                            *)
THEOREM SuccessRuns ==
  ASSUME Ordered
  PROVE  Spec => []RunsAfterUpload
BY OrderedUpload, PTL

-----------------------------------------------------------------------------
(***************************************************************************)
(* Over any network, however late, duplicated or out of order its packets  *)
(* are: the send() that main is in has its timer running or its timeout in *)
(* the event loop, and has counted no more failures than it may have.  So  *)
(* nothing can leave hexaupload waiting for an answer that never comes.    *)
(***************************************************************************)
TimeoutPending ==
  pc \in Phases =>
    /\ armed[Active] \/ ready[Active] > 0
    /\ failCount[Active] = 0 \/ failCount[Active] <= RetryLimit

(* A send() that returns ends main or is followed by one that has armed its  *)
(* timer and cleared its count, whichever sender's handler ended the loop.   *)
LEMMA ReturnWatched ==
  ASSUME TypeOK, pc \in Phases, NEW STATE res,
         NEW STATE fails, fails \in [Senders -> Nat], NEW STATE arm, arm \in [Senders -> BOOLEAN],
         NEW STATE n, Return(res, fails, arm, n)
  PROVE  TimeoutPending'
<1> SUFFICES ASSUME pc' \in Phases PROVE TimeoutPending'
  BY DEF TimeoutPending
<1>1. pc' # "failed" /\ pc' # "ok"
  BY DEF Phases
<1>2. /\ pc' = NextPhase
      /\ armed' = [[arm EXCEPT ![Active] = FALSE] EXCEPT ![SenderOf(NextPhase)] = TRUE]
      /\ failCount' = [fails EXCEPT ![SenderOf(NextPhase)] = 0]
  BY <1>1 DEF Return, SendFails
<1>3. Active' = SenderOf(NextPhase) /\ Active' \in Senders
  BY <1>2 DEF Active, SenderOf, Senders
<1>4. armed'[Active'] /\ failCount'[Active'] = 0
  BY <1>2, <1>3
<1>5. QED
  BY <1>4 DEF TimeoutPending

(* A failure that is not the last is counted within the limit, and leaves    *)
(* the timers as the handler set them.                                       *)
LEMMA FailureWatched ==
  ASSUME TypeOK, TimeoutPending, pc \in Phases, NEW s \in Senders,
         NEW STATE arm, arm \in [Senders -> BOOLEAN], NEW STATE n, failOne(s, arm, n),
         arm[Active] \/ ready'[Active] > 0
  PROVE  TimeoutPending'
<1> DEFINE fails == [failCount EXCEPT ![s] = @ + 1]
<1>1. fails \in [Senders -> Nat] /\ Active \in Senders
  BY NextFacts DEF TypeOK
<1>2. CASE Return([result EXCEPT ![s] = "maxretry"], fails, arm, n)
  BY <1>1, <1>2, ReturnWatched
<1>3. CASE ~GivesUp(s) /\ Resend(s, n) /\ failCount' = fails /\ armed' = arm
  <2> SUFFICES ASSUME pc' \in Phases PROVE TimeoutPending'
    BY DEF TimeoutPending
  <2>1. pc' = pc
    BY <1>3 DEF Resend, SendFails, Phases
  <2>2. Active' = Active
    BY <2>1 DEF Active
  <2>3. fails[Active] = 0 \/ fails[Active] <= RetryLimit
    <3>1. CASE s = Active
      BY <1>3, <3>1, RetryAssumption DEF GivesUp, TypeOK
    <3>2. CASE s # Active
      BY <1>1, <3>2 DEF TypeOK, TimeoutPending
    <3>3. QED
      BY <3>1, <3>2
  <2>4. QED
    BY <1>3, <2>2, <2>3 DEF TimeoutPending
<1>4. QED
  BY <1>2, <1>3 DEF failOne

(* An upload that is waiting always has a timeout to come, over any network. *)
THEOREM NeverWaitsInVain == Spec => []TimeoutPending
<1>1. Init => TimeoutPending
  BY DEF Init, TimeoutPending, Phases
<1>2. TypeOK /\ TimeoutPending /\ [Next]_vars => TimeoutPending'
  <2> SUFFICES ASSUME TypeOK, TimeoutPending, [Next]_vars PROVE TimeoutPending'
    OBVIOUS
  <2>1. /\ failCount \in [Senders -> Nat] /\ armed \in [Senders -> BOOLEAN]
        /\ ready \in [Senders -> Nat] /\ "chunk" \in Senders /\ "sm" \in Senders
    BY DEF TypeOK, Senders
  <2>2. CASE UNCHANGED hostVars
    BY <2>2 DEF hostVars, TimeoutPending, Active
  <2>3. (Device \/ Network \/ UNCHANGED vars) => UNCHANGED hostVars
    BY DEF Device, Network, WriteChunk, RebootInWrite, WriteControl, ReadControl, Reboot, Lose,
       Duplicate, vars
  <2>4. CASE Main
    <3>1. CASE pc' = "stop" /\ armed' = [armed EXCEPT !["sm"] = TRUE]
               /\ failCount' = [failCount EXCEPT !["sm"] = 0]
      BY <2>1, <3>1 DEF TimeoutPending, Active
    <3>2. CASE pc' \in {"terminated", "failed"}
      BY <3>2 DEF TimeoutPending, Phases
    <3>3. QED
      BY <2>4, <3>1, <3>2 DEF Main, SendFails
  <2>5. ASSUME NEW s \in Senders, Expire(s) PROVE TimeoutPending'
    <3>1. UNCHANGED <<pc, failCount>> /\ Active' = Active /\ Active \in Senders /\ pc \in Phases
      BY <2>5, NextFacts DEF Expire, Active
    <3>2. armed'[Active] \/ ready'[Active] > 0
      BY <2>1, <2>5, <3>1 DEF Expire, TimeoutPending
    <3>3. QED
      BY <3>1, <3>2 DEF TimeoutPending
  <2>6. ASSUME NEW s \in Senders, onTimeout(s) PROVE TimeoutPending'
    <3> DEFINE arm == [armed EXCEPT ![s] = TRUE]
    <3>1. arm \in [Senders -> BOOLEAN] /\ pc \in Phases /\ failOne(s, arm, net) /\ Active \in Senders
      BY <2>1, <2>6, NextFacts DEF onTimeout
    <3>2. arm[Active] \/ ready'[Active] > 0
      <4>1. CASE s = Active
        BY <2>1, <4>1
      <4>2. CASE s # Active
        BY <2>1, <2>6, <3>1, <4>2 DEF onTimeout, TimeoutPending
      <4>3. QED
        BY <4>1, <4>2
    <3>3. QED
      BY <3>1, <3>2, FailureWatched
  <2>7. ASSUME NEW b \in Bit, onAck(b) PROVE TimeoutPending'
    <3>1. pc \in Phases /\ UNCHANGED ready
      BY <2>7 DEF onAck
    <3>2. CASE Return([result EXCEPT !["chunk"] = "none"], failCount, armed, Take(net, AckMsg(b)))
      BY <2>1, <3>1, <3>2, ReturnWatched
    <3>3. CASE failOne("chunk", armed, Take(net, AckMsg(b)))
      <4>1. armed[Active] \/ ready'[Active] > 0
        BY <3>1 DEF TimeoutPending
      <4>2. QED
        BY <2>1, <3>1, <3>3, <4>1, FailureWatched
    <3>4. QED
      BY <2>7, <3>2, <3>3 DEF onAck
  <2>8. ASSUME NEW v \in Bit, onState(v) PROVE TimeoutPending'
    <3>1. CASE UNCHANGED <<pc, failCount, armed>>
      BY <2>8, <3>1 DEF onState, TimeoutPending, Active
    <3>2. CASE Return([result EXCEPT !["sm"] = "none"], failCount, armed, Take(net, StateMsg(v)))
      BY <2>1, <2>8, <3>2, ReturnWatched DEF onState
    <3>3. QED
      BY <2>8, <3>1, <3>2 DEF onState
  <2>9. CASE onError
    BY <2>1, <2>9, ReturnWatched DEF onError
  <2>10. QED
    BY <2>2, <2>3, <2>4, <2>5, <2>6, <2>7, <2>8, <2>9 DEF Next, Host
<1>3. QED
  BY <1>1, <1>2, TypeCorrect, PTL DEF Spec
=============================================================================
