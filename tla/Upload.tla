------------------------------- MODULE Upload -------------------------------
(***************************************************************************)
(* Uploading a state machine program: hexaupload on the host, the          *)
(* sm_upload application on the device, and the UDP network between them.  *)
(*                                                                         *)
(* The host stops the remote machine, sends the program in 64-byte chunks, *)
(* waiting for an ACK after each one, and starts the machine again.  Every *)
(* exchange is one call of RetryingPacketSender::send: send, arm a one     *)
(* second timer, run the event loop until some handler calls finish().     *)
(* The two senders (one for control, one for chunks) share the event loop, *)
(* so a handler of either of them ends the loop for both.                  *)
(***************************************************************************)
EXTENDS Integers

CONSTANTS
  Commands,    \* the actions the command line may ask for
  FileChunks,  \* whole 64-byte chunks in the program file, the name chunk included
  KeepName,    \* the name chunk starts with a zero byte (--keep-name)
  Slots,       \* program chunks that fit the device's EEPROM (24 in the build)
  RetryLimit,  \* --retry, 3 by default; a negative limit forbids retries
  Impatient,   \* phases in which the timer may beat an answer that is under way
  Reorder,     \* a QUERY may overtake the WRITE that was sent just before it
  MaxLoss,     \* packets the network may lose
  MaxDup,      \* packets the network may duplicate
  MaxReboots   \* power failures of the device

Phases == {"stop", "chunk", "start"}

ASSUME CommandAssumption == Commands \subseteq {"program", "rename", "clear"}
ASSUME ChunksAssumption  == FileChunks \in Nat \ {0} /\ Slots \in Nat /\ KeepName \in BOOLEAN
ASSUME RetryAssumption   == RetryLimit \in Int
ASSUME NetworkAssumption ==
  /\ Impatient \subseteq Phases
  /\ Reorder \in BOOLEAN
  /\ Impatient # {} => Reorder
  /\ MaxLoss \in Nat /\ MaxDup \in Nat /\ MaxReboots \in Nat

STM_STATE_STOPPED == 0
STM_STATE_RUNNING == 1

Chunks == 0 .. FileChunks - 1

Senders == {"sm", "chunk"}

(***************************************************************************)
(* Packets.  An ACK or NAK is an INFO on EP_SM_UP_ACKNAK with a Boolean;   *)
(* it does not say which chunk it answers.                                 *)
(***************************************************************************)
ChunkMsg(k) == [kind |-> "chunk", n |-> k]
CtlMsg(v)   == [kind |-> "ctl",   n |-> v]
QueryMsg    == [kind |-> "query", n |-> 0]
AckMsg(b)   == [kind |-> "ack",   n |-> b]
StateMsg(v) == [kind |-> "state", n |-> v]

Bit    == {0, 1}
Msgs   == {ChunkMsg(k) : k \in Chunks} \cup {CtlMsg(v) : v \in Bit} \cup {QueryMsg}
            \cup {AckMsg(b) : b \in Bit} \cup {StateMsg(v) : v \in Bit}

VARIABLES
  command,    \* the action on the command line
  pc,         \* which send() of main is running, or how main ended
  chunkId,    \* the chunk being sent, and the last one sent afterwards
  result,     \* RetryingPacketSender::result of each sender
  failCount,  \* RetryingPacketSender::failCount of each sender
  armed,      \* the sender's deadline_timer has a wait outstanding
  ready,      \* onTimeout handlers that are queued in the event loop
  net,        \* how many copies of each packet are under way
  stored,     \* what each program chunk's place in the EEPROM holds
  running,    \* sm_is_running() on the device
  faults      \* how often the network and the device have failed so far

hostVars == <<command, pc, chunkId, result, failCount, armed, ready>>
devVars  == <<stored, running>>
vars     == <<hostVars, net, devVars, faults>>

Ended == {"ok", "failed", "terminated"}

TypeOK ==
  /\ command \in Commands
  /\ pc \in {"main"} \cup Phases \cup Ended
  /\ chunkId \in Chunks
  /\ result \in [Senders -> {"uninit", "none", "maxretry", "network"}]
  /\ failCount \in [Senders -> Nat]
  /\ armed \in [Senders -> BOOLEAN]
  /\ ready \in [Senders -> Nat]
  /\ net \in [Msgs -> Nat]
  /\ stored \in [Chunks -> {"old", "torn", "new"}]
  /\ running \in BOOLEAN
  /\ faults \in [{"loss", "dup", "reboot"} -> Nat]

Init ==
  /\ command \in Commands
  /\ pc = "main"
  /\ chunkId = 0
  /\ result = [s \in Senders |-> "uninit"]
  /\ failCount = [s \in Senders |-> 0]
  /\ armed = [s \in Senders |-> FALSE]
  /\ ready = [s \in Senders |-> 0]
  /\ net = [m \in Msgs |-> 0]
  /\ stored = [k \in Chunks |-> "old"]
  /\ running \in BOOLEAN
  /\ faults = [f \in {"loss", "dup", "reboot"} |-> 0]

Put(n, S)  == [m \in Msgs |-> IF m \in S THEN n[m] + 1 ELSE n[m]]
Take(n, m) == [n EXCEPT ![m] = @ - 1]
Silent     == \A m \in Msgs : net[m] = 0

-----------------------------------------------------------------------------
(***************************************************************************)
(* The host.                                                               *)
(***************************************************************************)

(* --rename sends one chunk, the device name; --program the whole file. *)
LastChunk == IF command = "program" THEN FileChunks - 1 ELSE 0

(* The sender whose send() main is in. *)
Active == IF pc = "chunk" THEN "chunk" ELSE "sm"

reqState == IF pc = "start" THEN STM_STATE_RUNNING ELSE STM_STATE_STOPPED

(* What sendPacket() of each sender transmits. *)
SmPackets(v)    == {CtlMsg(v), QueryMsg}
Packets(p, k)   == CASE p = "stop"  -> SmPackets(STM_STATE_STOPPED)
                     [] p = "chunk" -> {ChunkMsg(k)}
                     [] p = "start" -> SmPackets(STM_STATE_RUNNING)
                     [] OTHER       -> {}

(* Mutants: the chunk loop ends one chunk early; the chunk number runs on    *)
(* past the last chunk.                                                      *)
LoopEndsEarly == CASE pc = "stop"  -> "chunk"
                   [] pc = "chunk" -> IF chunkId < LastChunk - 1 THEN "chunk" ELSE "start"
                   [] OTHER        -> "ok"
ChunkRunsOn == IF pc = "chunk" THEN chunkId + 1 ELSE chunkId

(* Where main goes after a send() that returned ERR_NONE. *)
NextPhase == CASE pc = "stop"  -> "chunk"
               [] pc = "chunk" -> IF chunkId < LastChunk THEN "chunk" ELSE "start"
               [] OTHER        -> "ok"
NextChunk == IF pc = "chunk" /\ chunkId < LastChunk THEN chunkId + 1 ELSE chunkId

SenderOf(p) == IF p = "chunk" THEN "chunk" ELSE "sm"

(* socket.send() throws: main catches the NetworkException and ends.  Of the *)
(* two packets of the control sender the first may have left.                *)
SendFails(S, n) ==
  /\ pc' = "failed"
  /\ \E sent \in {{}, S \cap {CtlMsg(v) : v \in Bit}} : net' = Put(n, sent)

(***************************************************************************)
(* Some handler called finish(): run() returns, the active send() cancels  *)
(* its timer and returns ITS result.  An uninitialized result is whatever  *)
(* the memory holds.  On ERR_NONE main calls the next send(), which        *)
(* transmits, arms the timer and clears the failure count.                 *)
(***************************************************************************)
Return(res, fails, arm, n) ==
  LET cancelled == [arm EXCEPT ![Active] = FALSE]
      next      == SenderOf(NextPhase)
  IN  /\ result' = res
      /\ \/ /\ res[Active] \in {"none", "uninit"}
            /\ pc' = NextPhase
            /\ chunkId' = NextChunk
            /\ net' = Put(n, Packets(NextPhase, NextChunk))
            /\ armed' = IF NextPhase = "ok" THEN cancelled ELSE [cancelled EXCEPT ![next] = TRUE]
            /\ failCount' = IF NextPhase = "ok" THEN fails ELSE [fails EXCEPT ![next] = 0]
         \/ /\ res[Active] \in {"none", "uninit"}
            /\ SendFails(Packets(NextPhase, NextChunk), n)
            /\ NextPhase # "ok"
            /\ chunkId' = NextChunk
            /\ armed' = cancelled
            /\ failCount' = fails
         \/ /\ res[Active] # "none"
            /\ pc' = "failed"
            /\ net' = n
            /\ armed' = cancelled
            /\ failCount' = fails
            /\ UNCHANGED chunkId

(***************************************************************************)
(* sendPacket() from a handler.  The active sender repeats its packet.     *)
(* The other sender's `packet' points to a temporary that is gone: the old *)
(* bytes may still be there, no packet may come of it, or the host dies.   *)
(***************************************************************************)
Resend(s, n) ==
  LET old == IF s = "chunk" THEN {ChunkMsg(chunkId)} ELSE SmPackets(reqState)
  IN  \/ net' = Put(n, old) /\ UNCHANGED pc
      \/ SendFails(old, n)
      \/ s # Active /\ net' = Put(n, old \cap {QueryMsg}) /\ UNCHANGED pc
      \/ s # Active /\ net' = n /\ pc' = "terminated"

GivesUp(s) == failCount[s] + 1 > RetryLimit \/ RetryLimit < 0

(* Mutants: giving up is reported as success; failures are not counted. *)
GivesUpQuietly(s, arm, n) ==
  LET fails == [failCount EXCEPT ![s] = @ + 1]
  IN  \/ /\ GivesUp(s)
         /\ Return([result EXCEPT ![s] = "none"], fails, arm, n)
      \/ /\ ~GivesUp(s)
         /\ Resend(s, n)
         /\ failCount' = fails
         /\ armed' = arm
         /\ UNCHANGED <<chunkId, result>>
NeverGivesUp(s, arm, n) ==
  /\ Resend(s, n)
  /\ armed' = arm
  /\ UNCHANGED <<chunkId, result, failCount>>

failOne(s, arm, n) ==
  LET fails == [failCount EXCEPT ![s] = @ + 1]
  IN  \/ /\ GivesUp(s)
         /\ Return([result EXCEPT ![s] = "maxretry"], fails, arm, n)
      \/ /\ ~GivesUp(s)
         /\ Resend(s, n)
         /\ failCount' = fails
         /\ armed' = arm
         /\ UNCHANGED <<chunkId, result>>

(* Mutant: the chunks are sent without stopping the machine first. *)
MainSkipsStop ==
  /\ pc = "main"
  /\ command # "clear"
  /\ pc' = "chunk"
  /\ net' = Put(net, Packets("chunk", 0))
  /\ armed' = [armed EXCEPT !["chunk"] = TRUE]
  /\ failCount' = [failCount EXCEPT !["chunk"] = 0]
  /\ UNCHANGED <<command, chunkId, result, ready, devVars, faults>>

(* main() up to the first send().  --clear reads the absent --rename option *)
(* and dies with an uncaught exception before it has opened a socket.       *)
Main ==
  /\ pc = "main"
  /\ \/ /\ command = "clear"
        /\ pc' = "terminated"
        /\ UNCHANGED <<net, armed, failCount>>
     \/ /\ command # "clear"
        /\ pc' = "stop"
        /\ net' = Put(net, Packets("stop", 0))
        /\ armed' = [armed EXCEPT !["sm"] = TRUE]
        /\ failCount' = [failCount EXCEPT !["sm"] = 0]
     \/ /\ command # "clear"
        /\ SendFails(Packets("stop", 0), net)
        /\ UNCHANGED <<armed, failCount>>
  /\ UNCHANGED <<command, chunkId, result, ready, devVars, faults>>

(* A deadline passes: the wait completes and onTimeout is queued; cancel() *)
(* does not recall a queued handler.                                       *)
Expire(s) ==
  /\ pc \in Phases
  /\ armed[s]
  /\ pc \in Impatient \/ Silent
  /\ armed' = [armed EXCEPT ![s] = FALSE]
  /\ ready' = [ready EXCEPT ![s] = @ + 1]
  /\ UNCHANGED <<command, pc, chunkId, result, failCount, net, devVars, faults>>

(* Mutant: the timer is not armed again after a timeout. *)
TimeoutForgetsTimer(s) ==
  /\ pc \in Phases
  /\ ready[s] > 0
  /\ ready' = [ready EXCEPT ![s] = @ - 1]
  /\ failOne(s, armed, net)
  /\ UNCHANGED <<command, devVars, faults>>

(* onTimeout(): failOne('T'), then armTimer(). *)
onTimeout(s) ==
  /\ pc \in Phases
  /\ ready[s] > 0
  /\ ready' = [ready EXCEPT ![s] = @ - 1]
  /\ failOne(s, [armed EXCEPT ![s] = TRUE], net)
  /\ UNCHANGED <<command, devVars, faults>>

(* ChunkSender::onReply, whichever send() is running. *)
onAck(b) ==
  /\ pc \in Phases
  /\ net[AckMsg(b)] > 0
  /\ \/ /\ b = 1
        /\ Return([result EXCEPT !["chunk"] = "none"], failCount, armed, Take(net, AckMsg(b)))
     \/ /\ b = 0
        /\ failOne("chunk", armed, Take(net, AckMsg(b)))
  /\ UNCHANGED <<command, ready, devVars, faults>>

(* Mutant: any reply confirms the requested state. *)
AnyReplyConfirms(v) ==
  /\ pc \in Phases
  /\ net[StateMsg(v)] > 0
  /\ Return([result EXCEPT !["sm"] = "none"], failCount, armed, Take(net, StateMsg(v)))
  /\ UNCHANGED <<command, ready, devVars, faults>>

(* RemoteStateMachine::onReply, whichever send() is running. *)
onState(v) ==
  /\ pc \in Phases
  /\ net[StateMsg(v)] > 0
  /\ \/ /\ v = reqState
        /\ Return([result EXCEPT !["sm"] = "none"], failCount, armed, Take(net, StateMsg(v)))
     \/ /\ v # reqState
        /\ net' = Take(net, StateMsg(v))
        /\ UNCHANGED <<pc, chunkId, result, failCount, armed>>
  /\ UNCHANGED <<command, ready, devVars, faults>>

(* A receive error or a malformed packet: onError of both senders. *)
onError ==
  /\ pc \in Phases
  /\ Return([s \in Senders |-> "network"], failCount, armed, net)
  /\ UNCHANGED <<command, ready, devVars, faults>>

-----------------------------------------------------------------------------
(***************************************************************************)
(* The device.                                                             *)
(***************************************************************************)

(* sm_write_chunk: chunk 0 is the device name and is skipped when it starts *)
(* with a zero byte; the others must lie inside the state machine's area.   *)
Accepted(k) == k <= Slots
Written(k)  == Accepted(k) /\ ~(k = 0 /\ KeepName)

(* Mutant: the last chunk that fits is acknowledged and not written. *)
LastSlotSkipped(k) ==
  /\ net[ChunkMsg(k)] > 0
  /\ stored' = IF Written(k) /\ k < Slots THEN [stored EXCEPT ![k] = "new"] ELSE stored
  /\ net' = Put(Take(net, ChunkMsg(k)), {AckMsg(IF Accepted(k) THEN 1 ELSE 0)})
  /\ UNCHANGED <<hostVars, running, faults>>

(* A WRITE on EP_SM_UP_RECEIVER: write_receiver stores the chunk and answers. *)
WriteChunk(k) ==
  /\ net[ChunkMsg(k)] > 0
  /\ stored' = IF Written(k) THEN [stored EXCEPT ![k] = "new"] ELSE stored
  /\ net' = Put(Take(net, ChunkMsg(k)), {AckMsg(IF Accepted(k) THEN 1 ELSE 0)})
  /\ UNCHANGED <<hostVars, running, faults>>

(* A WRITE on EP_SM_CONTROL: write_control stops, starts or restarts. *)
WriteControl(v) ==
  /\ net[CtlMsg(v)] > 0
  /\ net' = Take(net, CtlMsg(v))
  /\ running' = (v = STM_STATE_RUNNING)
  /\ UNCHANGED <<hostVars, stored, faults>>

(* A QUERY of EP_SM_CONTROL: read_control. *)
ReadControl ==
  /\ net[QueryMsg] > 0
  /\ Reorder \/ \A v \in Bit : net[CtlMsg(v)] = 0
  /\ net' = Put(Take(net, QueryMsg),
                {StateMsg(IF running THEN STM_STATE_RUNNING ELSE STM_STATE_STOPPED)})
  /\ UNCHANGED <<hostVars, devVars, faults>>

(* Power fails and returns.  The EEPROM keeps what was written, and main() *)
(* of the firmware starts the state machine whatever the table holds.      *)
Reboot ==
  /\ faults["reboot"] < MaxReboots
  /\ faults' = [faults EXCEPT !["reboot"] = @ + 1]
  /\ running' = TRUE
  /\ UNCHANGED <<hostVars, net, stored>>

(* Power fails while write_receiver is copying a chunk: no answer. *)
RebootInWrite(k) ==
  /\ faults["reboot"] < MaxReboots
  /\ net[ChunkMsg(k)] > 0
  /\ faults' = [faults EXCEPT !["reboot"] = @ + 1]
  /\ net' = Take(net, ChunkMsg(k))
  /\ stored' = IF Written(k) THEN [stored EXCEPT ![k] = "torn"] ELSE stored
  /\ running' = TRUE
  /\ UNCHANGED hostVars

-----------------------------------------------------------------------------
(***************************************************************************)
(* The network.                                                            *)
(***************************************************************************)
Lose(m) ==
  /\ faults["loss"] < MaxLoss
  /\ net[m] > 0
  /\ net' = Take(net, m)
  /\ faults' = [faults EXCEPT !["loss"] = @ + 1]
  /\ UNCHANGED <<hostVars, devVars>>

Duplicate(m) ==
  /\ faults["dup"] < MaxDup
  /\ net[m] > 0
  /\ net' = Put(net, {m})
  /\ faults' = [faults EXCEPT !["dup"] = @ + 1]
  /\ UNCHANGED <<hostVars, devVars>>

Host    == \/ Main
           \/ \E s \in Senders : Expire(s) \/ onTimeout(s)
           \/ \E b \in Bit : onAck(b) \/ onState(b)
           \/ onError
Device  == \/ \E k \in Chunks : WriteChunk(k) \/ RebootInWrite(k)
           \/ \E v \in Bit : WriteControl(v)
           \/ ReadControl
           \/ Reboot
Network == \E m \in Msgs : Lose(m) \/ Duplicate(m)

Next == Host \/ Device \/ Network

Spec == Init /\ [][Next]_vars

(***************************************************************************)
(* The event loop serves a queued handler, deadlines pass, and the radio   *)
(* neither keeps a packet for ever nor starves the device.                 *)
(***************************************************************************)
Fairness ==
  /\ WF_vars(Main)
  /\ \A s \in Senders : WF_vars(Expire(s)) /\ WF_vars(onTimeout(s))
  /\ \A b \in Bit : WF_vars(onAck(b)) /\ WF_vars(onState(b)) /\ WF_vars(WriteControl(b))
  /\ \A k \in Chunks : WF_vars(WriteChunk(k))
  /\ WF_vars(ReadControl)

FairSpec == Spec /\ Fairness
-----------------------------------------------------------------------------
(***************************************************************************)
(* Properties.                                                             *)
(***************************************************************************)

(* The chunk's place in the EEPROM holds what the host sent. *)
InPlace(k) == Written(k) => stored[k] = "new"

(* "Program uploaded successfully." (hexaupload.cpp:447) is printed only    *)
(* when every chunk is in the EEPROM: the ACKs main has counted stand for   *)
(* chunks that were really stored.                                          *)
Installed == pc = "ok" => \A k \in 0 .. LastChunk : Accepted(k) /\ InPlace(k)

(* Every chunk main has left behind is in its place: main never moves past  *)
(* a chunk the device has not stored.                                       *)
LeftBehindStored ==
  /\ pc = "chunk" => \A k \in 0 .. chunkId - 1 : Accepted(k) /\ InPlace(k)
  /\ pc = "start" => \A k \in 0 .. LastChunk : Accepted(k) /\ InPlace(k)

(* After a successful upload the machine runs (sm.start() was confirmed by  *)
(* a reply that says so).                                                   *)
RunsAfterUpload == pc = "ok" => running

(* The machine never interprets a table that is partly the old program and  *)
(* partly the new one: it is stopped from the first chunk to the last.      *)
NoMixedTable ==
  running => \/ \A k \in 1 .. LastChunk : stored[k] = "old"
             \/ \A k \in 1 .. LastChunk : InPlace(k)

(* "wait for ACK/NAK: if ACK, next chunk" (hexaupload.cpp:409-410): main    *)
(* leaves a chunk behind only in a step that consumes an ACK.               *)
OnlyAckAdvances ==
  [][pc = "chunk" /\ (chunkId' # chunkId \/ pc' = "start")
       => net'[AckMsg(1)] < net[AckMsg(1)]]_vars

(* hexaupload always ends: whatever is lost, late or duplicated, the        *)
(* retries run out or the answers arrive.                                   *)
Terminates == <>(pc \in Ended)

-----------------------------------------------------------------------------
(***************************************************************************)
(* Inductive invariants.                                                   *)
(***************************************************************************)

(* A prompt network: what is not lost arrives within the second, once. *)
Prompt == Impatient = {} /\ MaxDup = 0

NoChunkUnderWay == \A k \in Chunks : net[ChunkMsg(k)] = 0
NoAckUnderWay   == \A b \in Bit : net[AckMsg(b)] = 0
ControlReplies  == net[QueryMsg] + net[StateMsg(0)] + net[StateMsg(1)]

(* Only the active sender has a timer; it is running, or it has expired with *)
(* the network silent.                                                       *)
OneTimer ==
  /\ pc = "main" => Silent /\ \A s \in Senders : ~armed[s] /\ ready[s] = 0
  /\ pc \in Phases =>
       /\ \A s \in Senders : s # Active => ~armed[s] /\ ready[s] = 0
       /\ \/ armed[Active] /\ ready[Active] = 0
          \/ ~armed[Active] /\ ready[Active] = 1 /\ Silent

(* At most one exchange is under way, and it is the active sender's. *)
OneExchange ==
  /\ pc \in {"main", "stop"} => chunkId = 0
  /\ pc \in {"stop", "start"} => NoAckUnderWay /\ ControlReplies <= 1
  /\ pc \in {"stop", "start", "ok"} => NoChunkUnderWay
  /\ pc = "chunk" =>
       /\ chunkId <= LastChunk
       /\ ControlReplies = 0
       /\ \A k \in Chunks : k # chunkId => net[ChunkMsg(k)] = 0
       /\ net[ChunkMsg(chunkId)] + net[AckMsg(0)] + net[AckMsg(1)] <= 1
       /\ net[AckMsg(1)] > 0 => Accepted(chunkId) /\ InPlace(chunkId)

PromptInv == OneTimer /\ OneExchange /\ LeftBehindStored /\ Installed

(* Packets stay in order and the device does not lose power. *)
Ordered == Prompt /\ ~Reorder /\ MaxReboots = 0

NoControlUnderWay(v) == net[CtlMsg(v)] = 0

(* A reply under way tells the truth: no command is left behind it. *)
TrueReply ==
  \A v \in Bit : net[StateMsg(v)] > 0 =>
    /\ \A w \in Bit : NoControlUnderWay(w)
    /\ running <=> v = STM_STATE_RUNNING

(* The machine cannot be started on a table that is being replaced. *)
TableSafe ==
  \/ NoChunkUnderWay /\ NoControlUnderWay(1) /\ \A k \in Chunks : stored[k] = "old"
  \/ ~running /\ NoControlUnderWay(1)
  \/ \A k \in 0 .. LastChunk : InPlace(k)

OrderedInv ==
  /\ TableSafe
  /\ pc \in Phases => TrueReply
  /\ pc \in {"main", "stop"} => \A k \in Chunks : stored[k] = "old"
  /\ pc \in {"main", "stop", "chunk"} => NoControlUnderWay(1)
  /\ pc = "chunk" => ~running
  /\ pc \in {"chunk", "start", "ok"} => NoControlUnderWay(0)
  /\ RunsAfterUpload

=============================================================================
