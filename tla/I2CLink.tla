------------------------------ MODULE I2CLink ------------------------------
(***************************************************************************)
(* The I2C link, version 2 (i2c-link-v2.c): every device hangs on an       *)
(* endpoint, every endpoint keeps its own copy of who owns the bus, and    *)
(* the endpoints talk only through messages that the link delivers after a *)
(* fixed latency.  The devices and the link library are external: a device *)
(* is the protocol-following environment of its endpoint, the library is a *)
(* single queue, because messages with one common latency reach all their  *)
(* receivers in the order in which they were sent.                         *)
(***************************************************************************)
EXTENDS Integers, Sequences, FiniteSets, SequencesExt

CONSTANTS
  Endpoints,     \* endpoint identifiers
  None,          \* the identifier 0, which no endpoint has
  Masters,       \* endpoints whose device implements i2c_master_v2
  Slaves,        \* endpoints whose device implements i2c_slave_v2
  Addresses,     \* bytes the masters put in a start request
  CounterSize,   \* number of values of slave_list_counter, a uint8
  LateSlaves,    \* slaves that may answer a start after the call returned
  Careless,      \* masters that also open a transaction with a 10-bit read
  Aborting,      \* masters that also stop while an answer is outstanding
  Checkpointing, \* TRUE: the simulation may be saved and restored
  MaxInFlight    \* bound: a master makes no call when the queue is this long

ASSUME EndpointsAssumption ==
  /\ IsFiniteSet(Endpoints)
  /\ None \notin Endpoints
  /\ Masters \subseteq Endpoints
  /\ Slaves \subseteq Endpoints
  /\ LateSlaves \subseteq Slaves
  /\ Careless \subseteq Masters
  /\ Aborting \subseteq Masters
  /\ Addresses \subseteq 0..255
  /\ CounterSize \in Nat \ {0}
  /\ Checkpointing \in BOOLEAN
  /\ MaxInFlight \in Nat

VARIABLES
  state,
  current_master,
  current_slave,
  pending_slaves,
  pending_start_responses,
  slave_list,
  slave_list_counter,
  slave_list_ack,
  address_pattern,
  net,           \* messages in flight, the next one to be delivered first
  device         \* what each master device is doing

(* The link's own state of an endpoint, without the variables of a master. *)
addressing == <<slave_list, slave_list_counter, slave_list_ack, address_pattern>>
answers    == <<pending_slaves, pending_start_responses>>
vars == <<state, current_master, current_slave, answers, addressing, net, device>>

States == {"idle", "wait_rsp_start_r", "wait_rsp_start_w", "wait_req_r",
           "wait_req_w", "wait_rsp_r", "wait_rsp_w", "wait_stop",
           "wait_remote_master", "wait_remote_start_rsp",
           "wait_rsp_10bit_addr_w"}

ACK    == 0
NOACK  == 1
NoAddr == -1

MessageTypes == {"start_request", "start_response", "start_response_pending",
                 "read_request", "read_response", "write_request",
                 "write_response", "stop"}

(* The receivers that have not taken the message yet are in "to". *)
Messages == [type : MessageTypes, src : Endpoints,
             to : (SUBSET (Endpoints \cup {None})) \ {{}}, status : 0..255]

(***************************************************************************)
(* What a master device is doing: idle; waiting for the answer to a start  *)
(* in read or write direction; free to go on with a read or a write        *)
(* transaction; refused, so that only a stop or a new start makes sense;   *)
(* waiting for the answer to a read or a write.                            *)
(***************************************************************************)
DeviceStates == {"idle", "startR", "startW", "r", "w", "nack", "read", "write"}
Waiting      == {"startR", "startW", "read", "write"}
InTransfer   == {"r", "w", "nack", "read", "write"}

----------------------------------------------------------------------------
(* Addresses. *)

IsRead(a)   == a % 2 = 1
Is10bit(a)  == a \div 8 = 30
IsHs(a)     == a \div 8 = 1
AsRead(a)   == a + 1 - (a % 2)
Is10bitWrite(a) == a \in {240, 242, 244, 246}
Is10bitRead(a)  == a \in {241, 243, 245, 247}

Broadcasting(e) == address_pattern[e] = 0 \/ Is10bit(address_pattern[e])

(* The read part of a 10-bit transfer: only the slave that answered the    *)
(* second address byte is asked again.                                     *)
Restarts10bitRead(e, a) ==
  /\ Is10bit(address_pattern[e])
  /\ a = AsRead(address_pattern[e])
  /\ state[e] = "wait_req_w"
  /\ slave_list[e] = <<>>

----------------------------------------------------------------------------
(* The queue of the link library. *)

Message(type, src, to, status) ==
  [type |-> type, src |-> src, to |-> to, status |-> status]

(* Broadcast, to the sender too, or unicast.  No endpoint has the          *)
(* identifier 0: a message sent to it reaches nobody.                      *)
Broadcast(queue, type, src, status) ==
  Append(queue, Message(type, src, Endpoints, status))

Unicast(queue, type, src, dst, status) ==
  IF dst = None THEN queue ELSE Append(queue, Message(type, src, {dst}, status))

Receives(e, type) ==
  /\ net # <<>>
  /\ e \in Head(net).to
  /\ Head(net).type = type

(* The queue after endpoint e has taken its copy of the first message. *)
Taken(e) ==
  IF Head(net).to = {e}
  THEN Tail(net)
  ELSE <<[Head(net) EXCEPT !.to = @ \ {e}]>> \o Tail(net)

(* What an acknowledgement makes of a device that was waiting for it. *)
Answered(d, ack) ==
  IF d \notin {"startR", "startW", "write"} THEN d
  ELSE IF ack = NOACK THEN "nack"
  ELSE IF d = "startR" THEN "r" ELSE "w"

Acknowledge(e, ack) == device' = [device EXCEPT ![e] = Answered(@, ack)]

----------------------------------------------------------------------------
Init ==
  /\ state = [e \in Endpoints |-> "idle"]
  /\ current_master = [e \in Endpoints |-> None]
  /\ current_slave = [e \in Endpoints |-> None]
  /\ pending_slaves = [e \in Endpoints |-> 0]
  /\ pending_start_responses = [e \in Endpoints |-> <<>>]
  /\ slave_list = [e \in Endpoints |-> <<>>]
  /\ slave_list_counter = [e \in Endpoints |-> 0]
  /\ slave_list_ack = [e \in Endpoints |-> NOACK]
  /\ address_pattern = [e \in Endpoints |-> NoAddr]
  /\ net = <<>>
  /\ device = [e \in Endpoints |-> "idle"]

----------------------------------------------------------------------------
(* Calls of a master device: il_start, il_read, il_write and il_stop.      *)

(* A device that also is a slave sees every start and stop on the bus and  *)
(* so knows when another master owns it; the others do not look.           *)
MayStart(m, a) ==
  /\ Len(net) < MaxInFlight
  /\ device[m] \in {"idle", "r", "w", "nack"}
  /\ (device[m] = "idle" /\ m \in Slaves) => current_master[m] \in {None, m}
  /\ (device[m] = "idle" /\ Is10bitRead(a)) => m \in Careless

StartIsValid(m) ==
  state[m] \in {"idle", "wait_stop", "wait_req_w", "wait_req_r",
                "wait_remote_master"}

WaitingFor(a) == IF IsRead(a) THEN "startR" ELSE "startW"

(* A start in the middle of a request is only logged and never answered. *)
RejectStart(m, a) ==
  /\ device' = [device EXCEPT ![m] = WaitingFor(a)]
  /\ UNCHANGED <<state, current_slave, pending_slaves, addressing, net>>

(* What every valid start does first: it forgets the last address and the  *)
(* slaves that had answered it.                                            *)
ForgetsAddress(m) ==
  slave_list_counter' = [slave_list_counter EXCEPT ![m] =
                           IF slave_list[m] = <<>> THEN @ ELSE 0]

(* Refused at once, with the given state of the endpoint afterwards. *)
RefuseStart(m, next) ==
  /\ device' = [device EXCEPT ![m] = "nack"]
  /\ state' = [state EXCEPT ![m] = next]
  /\ address_pattern' = [address_pattern EXCEPT ![m] = NoAddr]
  /\ slave_list' = [slave_list EXCEPT ![m] = <<>>]
  /\ UNCHANGED <<current_slave, pending_slaves, slave_list_ack, net>>

(* Another master owns the link. *)
StartWhileBusy(m, a) ==
  /\ current_master[m] \notin {None, m}
  /\ ForgetsAddress(m)
  /\ RefuseStart(m, "idle")

(* A 10-bit transfer may not begin with a read. *)
StartMisplaced(m, a) ==
  /\ current_master[m] \in {None, m}
  /\ Is10bitRead(a) /\ ~Restarts10bitRead(m, a)
  /\ ForgetsAddress(m)
  /\ RefuseStart(m, "wait_stop")

StartUnicast(m, a) ==
  /\ current_master[m] \in {None, m}
  /\ Restarts10bitRead(m, a)
  /\ ForgetsAddress(m)
  /\ device' = [device EXCEPT ![m] = "startR"]
  /\ state' = [state EXCEPT ![m] = "wait_rsp_start_r"]
  /\ slave_list_ack' = [slave_list_ack EXCEPT ![m] = NOACK]
  /\ address_pattern' = [address_pattern EXCEPT ![m] = a]
  /\ pending_slaves' = [pending_slaves EXCEPT ![m] = 1]
  /\ slave_list' = [slave_list EXCEPT ![m] = <<current_slave[m]>>]
  /\ current_slave' = [current_slave EXCEPT ![m] = None]
  /\ net' = Unicast(net, "start_request", m, current_slave[m], a)

(* The addresses that change how the link treats the answers. *)
IsSpecial(a) == a = 0 \/ Is10bitWrite(a) \/ IsHs(a)

(* Mutant: an ordinary address leaves the special one of the last start. *)
PatternKept(m, a) == IF IsSpecial(a) THEN a ELSE address_pattern[m]

Pattern(m, a) == IF IsSpecial(a) THEN a ELSE NoAddr

StartBroadcast(m, a) ==
  /\ current_master[m] \in {None, m}
  /\ ~Is10bitRead(a)
  /\ ForgetsAddress(m)
  /\ device' = [device EXCEPT ![m] = WaitingFor(a)]
  /\ state' = [state EXCEPT ![m] = "wait_remote_start_rsp"]
  /\ slave_list_ack' = [slave_list_ack EXCEPT ![m] = IF IsSpecial(a) THEN NOACK ELSE @]
  /\ address_pattern' = [address_pattern EXCEPT ![m] = Pattern(m, a)]
  /\ slave_list' = [slave_list EXCEPT ![m] = <<>>]
  /\ current_slave' = [current_slave EXCEPT ![m] = None]
  /\ net' = Broadcast(net, "start_request", m, a)
  /\ UNCHANGED pending_slaves

Start(m) ==
  \E a \in Addresses :
    /\ MayStart(m, a)
    /\ IF StartIsValid(m)
       THEN \/ StartWhileBusy(m, a)
            \/ StartMisplaced(m, a)
            \/ StartUnicast(m, a)
            \/ StartBroadcast(m, a)
       ELSE RejectStart(m, a)
    /\ UNCHANGED <<current_master, pending_start_responses>>

(* A read in a wrong state is only logged, one of a stranger is dropped. *)
Read(m) ==
  /\ device[m] = "r"
  /\ Len(net) < MaxInFlight
  /\ device' = [device EXCEPT ![m] = "read"]
  /\ IF current_master[m] = m
     THEN /\ state' = [state EXCEPT ![m] = "wait_rsp_r"]
          /\ net' = Unicast(net, "read_request", m, current_slave[m], 0)
     ELSE UNCHANGED <<state, net>>
  /\ UNCHANGED <<current_master, current_slave, answers, addressing>>

WriteIsValid(m) == current_master[m] = m /\ state[m] = "wait_req_w"

(* Mutant: one response too many is waited for. *)
OneRequestMore(m) == (Len(slave_list[m]) + 1) % CounterSize

Requests(m) == Len(slave_list[m]) % CounterSize

(* To the slaves that acknowledged a broadcast address, or to the one that *)
(* acknowledged an ordinary one.                                           *)
Write(m) ==
  /\ device[m] = "w"
  /\ Len(net) < MaxInFlight
  /\ device' = [device EXCEPT ![m] = "write"]
  /\ IF ~WriteIsValid(m) THEN UNCHANGED <<state, addressing, net>>
     ELSE IF slave_list[m] # <<>>
     THEN /\ state' = [state EXCEPT ![m] = IF Is10bit(address_pattern[m])
                                           THEN "wait_rsp_10bit_addr_w" ELSE "wait_rsp_w"]
          /\ slave_list_ack' = [slave_list_ack EXCEPT ![m] = NOACK]
          /\ slave_list_counter' = [slave_list_counter EXCEPT ![m] = Requests(m)]
          /\ net' = net \o [i \in DOMAIN slave_list[m] |->
                              Message("write_request", m, {slave_list[m][i]}, 0)]
          /\ UNCHANGED <<slave_list, address_pattern>>
     ELSE /\ state' = [state EXCEPT ![m] = "wait_rsp_w"]
          /\ address_pattern' = [address_pattern EXCEPT ![m] = NoAddr]
          /\ net' = Unicast(net, "write_request", m, current_slave[m], 0)
          /\ UNCHANGED <<slave_list, slave_list_counter, slave_list_ack>>
  /\ UNCHANGED <<current_master, current_slave, answers>>

(* Mutant: the endpoint of the caller is free at once. *)
StopAtOnce(m) ==
  /\ device[m] \in {"r", "w", "nack"}
  /\ Len(net) < MaxInFlight
  /\ device' = [device EXCEPT ![m] = "idle"]
  /\ slave_list' = [slave_list EXCEPT ![m] = <<>>]
  /\ net' = Broadcast(net, "stop", m, 0)
  /\ state' = [state EXCEPT ![m] = "idle"]
  /\ current_master' = [current_master EXCEPT ![m] = None]
  /\ UNCHANGED <<current_slave, answers, slave_list_counter, slave_list_ack, address_pattern>>

(* A stop in a wrong state is only logged.  The caller's own endpoint      *)
(* learns of the stop with all the others, through the queue.              *)
Stop(m) ==
  /\ \/ device[m] \in {"r", "w", "nack"}
     \/ m \in Aborting /\ device[m] \in Waiting
  /\ Len(net) < MaxInFlight
  /\ device' = [device EXCEPT ![m] = "idle"]
  /\ IF slave_list[m] = <<>> THEN UNCHANGED addressing
     ELSE /\ slave_list_counter' = [slave_list_counter EXCEPT ![m] = 0]
          /\ slave_list_ack' = [slave_list_ack EXCEPT ![m] = NOACK]
          /\ slave_list' = [slave_list EXCEPT ![m] = <<>>]
          /\ UNCHANGED address_pattern
  /\ net' = Broadcast(net, "stop", m, 0)
  /\ UNCHANGED <<state, current_master, current_slave, answers>>

----------------------------------------------------------------------------
(* Calls of a slave device: il_acknowledge and il_read_response.  A device *)
(* answers what its endpoint has asked it, once, and forgets the question  *)
(* when it is told of a stop.                                              *)

IsAsked(s) == s \in Slaves /\ current_master[s] # s

AnswerStart(s) ==
  /\ IsAsked(s)
  /\ state[s] \in {"wait_rsp_start_r", "wait_rsp_start_w"}
  /\ \E ack \in {ACK, NOACK} :
       /\ current_slave' = [current_slave EXCEPT ![s] = IF ack = ACK THEN s ELSE None]
       /\ net' = Unicast(net, "start_response", s, current_master[s], ack)
  /\ state' = [state EXCEPT ![s] = "wait_remote_master"]
  /\ UNCHANGED <<current_master, answers, addressing, device>>

(* Mutant: the endpoint still waits after the response has been sent. *)
AnswerWriteAgain(s) ==
  /\ IsAsked(s)
  /\ state[s] = "wait_rsp_w" /\ current_slave[s] = s
  /\ \E ack \in {ACK, NOACK} :
       net' = Unicast(net, "write_response", s, current_master[s], ack)
  /\ UNCHANGED <<state, current_master, current_slave, answers, addressing, device>>

AnswerWrite(s) ==
  /\ IsAsked(s)
  /\ state[s] = "wait_rsp_w"
  /\ IF current_slave[s] # s THEN UNCHANGED <<state, net>>
     ELSE /\ state' = [state EXCEPT ![s] = "wait_req_w"]
          /\ \E ack \in {ACK, NOACK} :
               net' = Unicast(net, "write_response", s, current_master[s], ack)
  /\ UNCHANGED <<current_master, current_slave, answers, addressing, device>>

AnswerRead(s) ==
  /\ IsAsked(s)
  /\ state[s] = "wait_rsp_r"
  /\ IF current_slave[s] # s THEN UNCHANGED <<state, net>>
     ELSE /\ state' = [state EXCEPT ![s] = "wait_req_r"]
          /\ net' = Unicast(net, "read_response", s, current_master[s], 0)
  /\ UNCHANGED <<current_master, current_slave, answers, addressing, device>>

----------------------------------------------------------------------------
(* deliver: endpoint e takes its copy of the first message.                *)

(* A start is accepted from the owner of the bus or on a free bus.         *)
Accepts(e, m) == current_master[e] \in {None, m}

StartWait(a) == IF IsRead(a) THEN "wait_rsp_start_r" ELSE "wait_rsp_start_w"

(* Mutant: the endpoint's own device is counted. *)
AskedSlaves(e) == Cardinality(Slaves)

AskedOthers(e) == Cardinality(Slaves \ {e})

(* The start of this endpoint's own device won: it owns the bus and waits  *)
(* for the answer of every other slave.                                    *)
DeliverOwnStart(e) ==
  /\ Receives(e, "start_request")
  /\ Head(net).src = e /\ Accepts(e, e)
  /\ current_master' = [current_master EXCEPT ![e] = e]
  /\ pending_slaves' = [pending_slaves EXCEPT ![e] = AskedOthers(e)]
  /\ IF AskedOthers(e) = 0
     THEN /\ state' = [state EXCEPT ![e] = "wait_stop"]
          /\ Acknowledge(e, NOACK)
     ELSE /\ state' = [state EXCEPT ![e] = StartWait(Head(net).status)]
          /\ UNCHANGED device
  /\ net' = Taken(e)
  /\ UNCHANGED <<current_slave, pending_start_responses, addressing>>

(* What seeing the start of another master makes of a device. *)
Lost(d) == IF d \in {"startR", "startW"} THEN "idle" ELSE d

(* Mutant: a device that was waiting for its own start is refused, as the  *)
(* devices are that cannot be told.                                        *)
DeliverForeignStartRefuses(e) ==
  LET m == Head(net).src
  IN /\ Receives(e, "start_request")
     /\ m # e /\ Accepts(e, m) /\ e \in Slaves
     /\ current_master' = [current_master EXCEPT ![e] = m]
     /\ state' = [state EXCEPT ![e] = "wait_remote_master"]
     /\ Acknowledge(e, NOACK)
     /\ current_slave' = [current_slave EXCEPT ![e] = None]
     /\ net' = Unicast(Taken(e), "start_response", e, m, NOACK)
     /\ UNCHANGED <<answers, addressing>>

(* The device is a slave and is told of the start; it answers during the   *)
(* call or later.  If it was waiting for a start of its own, it has lost.  *)
DeliverForeignStart(e) ==
  LET m == Head(net).src
  IN /\ Receives(e, "start_request")
     /\ m # e /\ Accepts(e, m) /\ e \in Slaves
     /\ current_master' = [current_master EXCEPT ![e] = m]
     /\ device' = [device EXCEPT ![e] = Lost(@)]
     /\ \/ \E ack \in {ACK, NOACK} :
             /\ state' = [state EXCEPT ![e] = "wait_remote_master"]
             /\ current_slave' = [current_slave EXCEPT ![e] = IF ack = ACK THEN e ELSE None]
             /\ net' = Unicast(Taken(e), "start_response", e, m, ack)
        \/ /\ e \in LateSlaves
           /\ state' = [state EXCEPT ![e] = StartWait(Head(net).status)]
           /\ current_slave' = [current_slave EXCEPT ![e] = None]
           /\ net' = Unicast(Taken(e), "start_response_pending", e, m, 0)
     /\ UNCHANGED <<answers, addressing>>

(* The device cannot be told: if its own start just lost, it is refused.   *)
DeliverStartUnseen(e) ==
  LET m == Head(net).src
  IN /\ Receives(e, "start_request")
     /\ m # e /\ Accepts(e, m) /\ e \notin Slaves
     /\ current_master' = [current_master EXCEPT ![e] = m]
     /\ IF state[e] = "wait_remote_start_rsp"
        THEN /\ Acknowledge(e, NOACK)
             /\ state' = [state EXCEPT ![e] = "idle"]
        ELSE UNCHANGED <<device, state>>
     /\ net' = Taken(e)
     /\ UNCHANGED <<current_slave, answers, addressing>>

(* The start lost against the present owner of the bus.                    *)
DeliverLostStart(e) ==
  /\ Receives(e, "start_request")
  /\ ~Accepts(e, Head(net).src)
  /\ net' = Taken(e)
  /\ UNCHANGED <<state, current_master, current_slave, answers, addressing, device>>

DeliverPending(e) ==
  /\ Receives(e, "start_response_pending")
  /\ pending_start_responses' =
       [pending_start_responses EXCEPT ![e] = Append(@, Head(net).src)]
  /\ net' = Taken(e)
  /\ UNCHANGED <<state, current_master, current_slave, pending_slaves, addressing, device>>

AnswersRestart(e) == Broadcasting(e) /\ state[e] = "wait_rsp_start_r"

ForgetPending(e) ==
  pending_start_responses' =
    [pending_start_responses EXCEPT ![e] = RemoveFirst(@, Head(net).src)]

(* Mutants: the last answer is awaited in vain; the first acknowledge ends *)
(* the wait for the others.                                                *)
NoneLeft(e) == pending_slaves[e] = 0
FirstAckEnds(e) == pending_slaves[e] = 1 \/ Head(net).status = ACK

(* This is the last answer to the start. *)
LastAnswer(e) == pending_slaves[e] = 1

(* The one answer to the unicast start of a 10-bit read. *)
DeliverRestartResponse(e) ==
  LET ack == Head(net).status
  IN /\ Receives(e, "start_response")
     /\ AnswersRestart(e)
     /\ current_slave' = [current_slave EXCEPT ![e] =
                            IF ack = ACK /\ @ = None THEN Head(net).src ELSE @]
     /\ pending_slaves' = [pending_slaves EXCEPT ![e] = 0]
     /\ state' = [state EXCEPT ![e] = IF ack = NOACK THEN "wait_stop" ELSE "wait_req_r"]
     /\ Acknowledge(e, ack)
     /\ ForgetPending(e)
     /\ net' = Taken(e)
     /\ UNCHANGED <<current_master, addressing>>

(* Mutant: every slave that answers is taken for a receiver. *)
AllReceivers(e) == Append(slave_list[e], Head(net).src)

Verdict(e)   == IF Head(net).status = ACK THEN ACK ELSE slave_list_ack[e]
Receivers(e) == IF Head(net).status = ACK THEN Append(slave_list[e], Head(net).src)
                ELSE slave_list[e]

(* One of the answers to a general call or to the first byte of a 10-bit   *)
(* address: the slaves that acknowledge it are the receivers of the writes.*)
DeliverBroadcastResponse(e) ==
  /\ Receives(e, "start_response")
  /\ Broadcasting(e) /\ ~AnswersRestart(e)
  /\ slave_list' = [slave_list EXCEPT ![e] = Receivers(e)]
  /\ slave_list_ack' = [slave_list_ack EXCEPT ![e] = Verdict(e)]
  /\ pending_slaves' = [pending_slaves EXCEPT ![e] = @ - 1]
  /\ IF LastAnswer(e)
     THEN /\ state' = [state EXCEPT ![e] =
                         IF Verdict(e) = ACK THEN "wait_req_w" ELSE "wait_stop"]
          /\ Acknowledge(e, Verdict(e))
     ELSE UNCHANGED <<state, device>>
  /\ ForgetPending(e)
  /\ net' = Taken(e)
  /\ UNCHANGED <<current_master, current_slave, slave_list_counter, address_pattern>>

(* No slave took the start, or it was a high-speed code. *)
RefusedByAll(e, partner) == partner = None \/ IsHs(address_pattern[e])

(* One of the answers to an ordinary start: the first slave to acknowledge *)
(* is the partner, and the master is answered when the last one has spoken.*)
DeliverPlainResponse(e) ==
  LET chosen  == Head(net).status = ACK /\ current_slave[e] = None
      partner == IF chosen THEN Head(net).src ELSE current_slave[e]
      moved   == IF ~chosen THEN state[e]
                 ELSE IF state[e] = "wait_rsp_start_r" THEN "wait_req_r"
                 ELSE IF state[e] = "wait_rsp_start_w" THEN "wait_req_w"
                 ELSE state[e]
      refused == RefusedByAll(e, partner)
  IN /\ Receives(e, "start_response")
     /\ ~Broadcasting(e)
     /\ current_slave' = [current_slave EXCEPT ![e] = partner]
     /\ pending_slaves' = [pending_slaves EXCEPT ![e] = @ - 1]
     /\ IF LastAnswer(e)
        THEN /\ state' = [state EXCEPT ![e] = IF refused THEN "wait_stop" ELSE moved]
             /\ Acknowledge(e, IF refused THEN NOACK ELSE ACK)
             /\ address_pattern' = [address_pattern EXCEPT ![e] =
                                      IF partner # None /\ refused THEN NoAddr ELSE @]
        ELSE /\ state' = [state EXCEPT ![e] = moved]
             /\ UNCHANGED <<device, address_pattern>>
     /\ ForgetPending(e)
     /\ net' = Taken(e)
     /\ UNCHANGED <<current_master, slave_list, slave_list_counter, slave_list_ack>>

DeliverRequest(e) ==
  /\ \/ /\ Receives(e, "read_request")
        /\ state' = [state EXCEPT ![e] = "wait_rsp_r"]
     \/ /\ Receives(e, "write_request")
        /\ state' = [state EXCEPT ![e] = "wait_rsp_w"]
  /\ net' = Taken(e)
  /\ UNCHANGED <<current_master, current_slave, answers, addressing, device>>

DeliverReadResponse(e) ==
  /\ Receives(e, "read_response")
  /\ state' = [state EXCEPT ![e] = "wait_req_r"]
  /\ device' = [device EXCEPT ![e] = IF @ = "read" THEN "r" ELSE @]
  /\ net' = Taken(e)
  /\ UNCHANGED <<current_master, current_slave, answers, addressing>>

(* Mutant: no answer is taken for a late one. *)
IsStrayNever(e) == FALSE

(* Late answers to a stopped write are dropped if the bus is idle. *)
IsStray(e) == state[e] = "idle" /\ current_master[e] = None

DeliverStrayWriteResponse(e) ==
  /\ Receives(e, "write_response")
  /\ IsStray(e)
  /\ net' = Taken(e)
  /\ UNCHANGED <<state, current_master, current_slave, answers, addressing, device>>

DeliverWriteResponse(e) ==
  /\ Receives(e, "write_response")
  /\ ~IsStray(e) /\ ~Broadcasting(e)
  /\ IF slave_list_counter[e] = 0
     THEN /\ state' = [state EXCEPT ![e] = IF @ = "wait_stop" THEN @ ELSE "wait_req_w"]
          /\ Acknowledge(e, Head(net).status)
     ELSE UNCHANGED <<state, device>>
  /\ net' = Taken(e)
  /\ UNCHANGED <<current_master, current_slave, answers, addressing>>

(* One of the answers to a broadcast write.  After the second byte of a    *)
(* 10-bit address exactly one slave may be left, the partner from then on. *)
DeliverBroadcastWriteResponse(e) ==
  LET ack     == Head(net).status
      verdict == IF slave_list_ack[e] = ACK \/ ack = ACK THEN ACK ELSE NOACK
      second  == state[e] = "wait_rsp_10bit_addr_w"
      left    == IF second /\ ack = NOACK THEN RemoveFirst(slave_list[e], Head(net).src)
                 ELSE slave_list[e]
      last    == slave_list_counter[e] = 1
      found   == last /\ second /\ Len(left) = 1
      clash   == last /\ second /\ Len(left) > 1
      final   == IF clash THEN NOACK ELSE verdict
  IN /\ Receives(e, "write_response")
     /\ ~IsStray(e) /\ Broadcasting(e)
     /\ slave_list_counter' = [slave_list_counter EXCEPT ![e] = (@ - 1) % CounterSize]
     /\ slave_list_ack' = [slave_list_ack EXCEPT ![e] = final]
     /\ slave_list' = [slave_list EXCEPT ![e] = IF found THEN <<>> ELSE left]
     /\ current_slave' = [current_slave EXCEPT ![e] = IF found THEN left[1] ELSE @]
     /\ state' = [state EXCEPT ![e] =
                    IF ~last THEN @
                    ELSE IF second THEN (IF found THEN "wait_req_w" ELSE "wait_stop")
                    ELSE IF @ = "wait_stop" THEN @ ELSE "wait_req_w"]
     /\ IF last THEN Acknowledge(e, final) ELSE UNCHANGED device
     /\ net' = Taken(e)
     /\ UNCHANGED <<current_master, answers, address_pattern>>

(* Mutant: the endpoint stays in the state it was stopped in. *)
DeliverStopKeepsState(e) ==
  /\ Receives(e, "stop")
  /\ current_master' = [current_master EXCEPT ![e] = None]
  /\ current_slave' = [current_slave EXCEPT ![e] = None]
  /\ net' = Taken(e)
  /\ UNCHANGED <<state, answers, addressing, device>>

DeliverStop(e) ==
  /\ Receives(e, "stop")
  /\ current_master' = [current_master EXCEPT ![e] = None]
  /\ current_slave' = [current_slave EXCEPT ![e] = None]
  /\ state' = [state EXCEPT ![e] = "idle"]
  /\ net' = Taken(e)
  /\ UNCHANGED <<answers, addressing, device>>

Deliver(e) ==
  \/ DeliverOwnStart(e)
  \/ DeliverForeignStart(e)
  \/ DeliverStartUnseen(e)
  \/ DeliverLostStart(e)
  \/ DeliverPending(e)
  \/ DeliverRestartResponse(e)
  \/ DeliverBroadcastResponse(e)
  \/ DeliverPlainResponse(e)
  \/ DeliverRequest(e)
  \/ DeliverReadResponse(e)
  \/ DeliverStrayWriteResponse(e)
  \/ DeliverWriteResponse(e)
  \/ DeliverBroadcastWriteResponse(e)
  \/ DeliverStop(e)

----------------------------------------------------------------------------
(* Saving and restoring a checkpoint keeps every attribute that init_local *)
(* registers, and the messages in flight; slave_list_ack is not registered *)
(* and starts again with the value ep_init_object gives it.                *)
Restore ==
  /\ Checkpointing
  /\ slave_list_ack' = [e \in Endpoints |-> NOACK]
  /\ UNCHANGED <<state, current_master, current_slave, answers, slave_list,
                 slave_list_counter, address_pattern, net, device>>

MasterCalls == \E m \in Masters : Start(m) \/ Read(m) \/ Write(m) \/ Stop(m)
SlaveAnswers(s) == AnswerStart(s) \/ AnswerWrite(s) \/ AnswerRead(s)

Next ==
  \/ MasterCalls
  \/ \E s \in Slaves : SlaveAnswers(s)
  \/ \E e \in Endpoints : Deliver(e)
  \/ Restore

Spec == Init /\ [][Next]_vars

(* The link delivers every message, and a slave answers what it is asked.  *)
(* Nothing makes a master call: fairness promises no start, write or stop. *)
Fairness ==
  /\ \A e \in Endpoints : WF_vars(Deliver(e))
  /\ \A s \in Slaves : WF_vars(SlaveAnswers(s))

FairSpec == Spec /\ Fairness

----------------------------------------------------------------------------
(* Properties. *)

TypeOK ==
  /\ state \in [Endpoints -> States]
  /\ current_master \in [Endpoints -> Endpoints \cup {None}]
  /\ current_slave \in [Endpoints -> Endpoints \cup {None}]
  /\ pending_slaves \in [Endpoints -> Int]
  /\ pending_start_responses \in [Endpoints -> Seq(Endpoints)]
  /\ slave_list \in [Endpoints -> Seq(Endpoints \cup {None})]
  /\ slave_list_counter \in [Endpoints -> 0..(CounterSize - 1)]
  /\ slave_list_ack \in [Endpoints -> {ACK, NOACK}]
  /\ address_pattern \in [Endpoints -> -1..255]
  /\ net \in Seq(Messages)
  /\ device \in [Endpoints -> DeviceStates]

(***************************************************************************)
(* Every ASSERT of deliver holds when a message reaches it (i2c-link-v2.c  *)
(* lines 305, 428, 461-467, 498-503, 545-546, 554-555, 563-564, 574-601):  *)
(* requests come from the owner to the selected slave, responses from the  *)
(* selected slave to the owner, and no answer is counted twice.            *)
(***************************************************************************)
RequestAsserts(e) ==
  Receives(e, "read_request") \/ Receives(e, "write_request") =>
    current_master[e] = Head(net).src /\ current_slave[e] = e

ReadResponseAsserts(e) ==
  Receives(e, "read_response") =>
    current_master[e] = e /\ current_slave[e] = Head(net).src

WriteResponseAsserts(e) ==
  Receives(e, "write_response") /\ ~IsStray(e) =>
    /\ current_master[e] = e
    /\ IF Broadcasting(e)
       THEN /\ slave_list_counter[e] > 0
            /\ state[e] = "wait_rsp_10bit_addr_w" /\ slave_list_counter[e] = 1
               /\ Head(net).status = NOACK /\ Len(slave_list[e]) = 1
               => slave_list_ack[e] = NOACK
       ELSE current_slave[e] = Head(net).src /\ slave_list_counter[e] = 0

StartResponseAsserts(e) ==
  Receives(e, "start_response") =>
    /\ AnswersRestart(e) =>
         /\ pending_slaves[e] = 1
         /\ Head(net).status = NOACK => current_slave[e] = None
    /\ Broadcasting(e) /\ ~AnswersRestart(e) /\ Head(net).status = ACK =>
         current_slave[e] = None
    /\ /\ ~Broadcasting(e) /\ pending_slaves[e] = 1
       /\ current_slave[e] = None /\ Head(net).status = NOACK
       => RemoveFirst(pending_start_responses[e], Head(net).src) = <<>>

AssertsHold ==
  \A e \in Endpoints :
    /\ RequestAsserts(e)
    /\ ReadResponseAsserts(e)
    /\ WriteResponseAsserts(e)
    /\ StartResponseAsserts(e)

(***************************************************************************)
(* The asserts of the read response (lines 554-555) on their own: a master *)
(* that stops too early breaks them.                                       *)
(***************************************************************************)
ReadResponseExpected == \A e \in Endpoints : ReadResponseAsserts(e)

(***************************************************************************)
(* All endpoints have the same conception of who owns the bus (comment at  *)
(* lines 1181-1185): two endpoints that have seen the same starts and      *)
(* stops name the same owner.                                              *)
(***************************************************************************)
OwnerPending(e) == Receives(e, "start_request") \/ Receives(e, "stop")

SameOwner ==
  \A e, f \in Endpoints :
    (OwnerPending(e) <=> OwnerPending(f)) => current_master[e] = current_master[f]

(***************************************************************************)
(* Why the endpoints agree: starts and stops go to all of them, and the    *)
(* queue gives all of them the same ones in the same order.  Only the      *)
(* first message may have been taken by some and not by the others; they   *)
(* differ by the effect of exactly this message.  (Without the read of a   *)
(* 10-bit transfer, whose start request goes to one slave only.)           *)
(***************************************************************************)
OwnerMessage(msg) == msg.type \in {"start_request", "stop"}

OwnerAfter(owner, msg) ==
  IF msg.type = "stop" THEN None
  ELSE IF owner \in {None, msg.src} THEN msg.src ELSE owner

InStep(queue, owner) ==
  /\ \A i \in DOMAIN queue :
       i # 1 /\ OwnerMessage(queue[i]) => queue[i].to = Endpoints
  /\ \A e, f \in Endpoints :
       IF queue = <<>> \/ ~OwnerMessage(queue[1]) THEN owner[e] = owner[f]
       ELSE /\ (e \in queue[1].to <=> f \in queue[1].to) => owner[e] = owner[f]
            /\ e \in queue[1].to /\ f \notin queue[1].to =>
                 owner[f] = OwnerAfter(owner[e], queue[1])

OwnersInStep == InStep(net, current_master)

(***************************************************************************)
(* Arbitration: no two master devices are in a transaction at once, and    *)
(* the one that is owns the bus at its own endpoint.                       *)
(***************************************************************************)
OneMasterAtATime ==
  /\ \A m, n \in Masters :
       device[m] \in InTransfer /\ device[n] \in InTransfer => m = n
  /\ \A m \in Masters : device[m] \in InTransfer => current_master[m] = m

(***************************************************************************)
(* A protocol-following device is never turned down: whatever its own      *)
(* progress lets it call next, its endpoint is in a state that accepts it. *)
(* (The guards of il_start, il_read, il_write and il_stop.)                *)
(***************************************************************************)
CallsAccepted ==
  \A m \in Masters :
    /\ device[m] = "w" => /\ WriteIsValid(m)
                          /\ slave_list[m] = <<>> => current_slave[m] # None
    /\ device[m] = "r" => /\ current_master[m] = m /\ state[m] = "wait_req_r"
                          /\ current_slave[m] # None
    /\ device[m] = "nack" => state[m] \in {"wait_stop", "wait_req_w"}
    /\ \A a \in Addresses : MayStart(m, a) => StartIsValid(m)

(***************************************************************************)
(* The answers a master waits for after a start are exactly those still to *)
(* come: pending_slaves counts the slaves that have not seen the start,    *)
(* that are thinking, or whose response is in flight (comment at 154-161). *)
(***************************************************************************)
InFlight(type, src, dst) ==
  \E i \in DOMAIN net : net[i].type = type /\ net[i].src = src /\ dst \in net[i].to

OwesStart(s, m) ==
  \/ InFlight("start_request", m, s)
  \/ /\ current_master[s] = m
     /\ state[s] \in {"wait_rsp_start_r", "wait_rsp_start_w"}
  \/ InFlight("start_response", s, m)

Selecting(m) ==
  device[m] \in {"startR", "startW"} /\ current_master[m] = m /\ state[m] # "wait_remote_start_rsp"
    /\ ~InFlight("start_request", m, m)

PendingExact ==
  \A m \in Masters :
    Selecting(m) =>
      pending_slaves[m] = Cardinality({s \in Slaves \ {m} : OwesStart(s, m)})


(***************************************************************************)
(* A transfer is in exactly one place: the request is on its way to the    *)
(* slave, or the slave is working on it, or the response is on its way     *)
(* back; and master and slave name each other as partners.  (il_read,      *)
(* il_write, il_acknowledge, il_read_response and the cases of deliver.)   *)
(***************************************************************************)
Partners(m, s) ==
  /\ s # None
  /\ current_slave[m] = s /\ current_slave[s] = s
  /\ current_master[m] = m /\ current_master[s] = m

ExactlyOne(a, b, c) == (a \/ b \/ c) /\ ~(a /\ b) /\ ~(a /\ c) /\ ~(b /\ c)

InOnePlace(m, request, working, response) ==
  LET s == current_slave[m]
  IN /\ Partners(m, s)
     /\ ExactlyOne(InFlight(request, m, s), state[s] = working, InFlight(response, s, m))

OwesWrite(s, m) ==
  \/ InFlight("write_request", m, s)
  \/ current_master[s] = m /\ state[s] = "wait_rsp_w"
  \/ InFlight("write_response", s, m)

TransferInOnePlace ==
  \A m \in Masters :
    /\ device[m] = "read" => InOnePlace(m, "read_request", "wait_rsp_r", "read_response")
    /\ device[m] = "write" /\ slave_list[m] = <<>> =>
         InOnePlace(m, "write_request", "wait_rsp_w", "write_response")
    /\ device[m] = "write" /\ slave_list[m] # <<>> =>
         slave_list_counter[m] = Cardinality({s \in Slaves \ {m} : OwesWrite(s, m)})

(***************************************************************************)
(* A broadcast address (general call, first byte of a 10-bit address) that *)
(* was acknowledged is written to exactly the slaves that acknowledged it, *)
(* each of them once, and the master was told so.  (slave_list, comments   *)
(* at lines 86-95 and 116-121.)                                            *)
(***************************************************************************)
Addressed(s, m) == current_slave[s] = s /\ current_master[s] = m

ReceiversExact ==
  \A m \in Masters :
    device[m] = "w" /\ slave_list[m] # <<>> =>
      /\ ToSet(slave_list[m]) = {s \in Slaves \ {m} : Addressed(s, m)}
      /\ IsInjective(slave_list[m])

(***************************************************************************)
(* If any slave acknowledged a broadcast, the acknowledge that is being    *)
(* collected for the master is an ACK (comment at lines 116-121).          *)
(***************************************************************************)
AckRemembered ==
  \A m \in Masters :
    Selecting(m) /\ device[m] = "startW" /\ slave_list[m] # <<>> => slave_list_ack[m] = ACK

(***************************************************************************)
(* Every start is answered: the master is told ACK or NOACK, or it loses   *)
(* the bus; every read and every write is answered.                        *)
(***************************************************************************)
StartAnswered ==
  \A m \in Masters : device[m] \in {"startR", "startW"}
                       ~> device[m] \notin {"startR", "startW"}

TransferAnswered ==
  \A m \in Masters : device[m] \in {"read", "write"}
                       ~> device[m] \notin {"read", "write"}

=============================================================================
