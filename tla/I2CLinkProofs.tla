--------------------------- MODULE I2CLinkProofs ---------------------------
(***************************************************************************)
(* Proofs about the link for any number of endpoints, masters, slaves and  *)
(* addresses.                                                              *)
(***************************************************************************)
EXTENDS I2CLink, FiniteSetTheorems, SequenceTheorems, WellFoundedInduction, TLAPS

----------------------------------------------------------------------------
(* The queue. *)

(* Every nonempty set of natural numbers has a least element. *)
LEMMA LeastNatural ==
  ASSUME NEW I, I \subseteq Nat, I # {}
  PROVE  \E i \in I : \A j \in I : i <= j
<1>1. PICK i \in I : \A j \in I : ~(<<j, i>> \in OpToRel(<, Nat))
  BY NatLessThanWellFounded, WFMin
<1>2. \A j \in I : ~(j < i)
  BY <1>1 DEF OpToRel
<1>3. QED
  BY <1>2

(* RemoveFirst of the community modules takes an element out of a sequence *)
(* and leaves a sequence of the same kind.                                 *)
LEMMA RemoveFirstType ==
  ASSUME NEW S, NEW s \in Seq(S), NEW x
  PROVE  RemoveFirst(s, x) \in Seq(S)
<1> DEFINE I == {i \in 1..Len(s) : s[i] = x}
<1>1. CASE I = {}
  BY <1>1 DEF RemoveFirst
<1>2. CASE I # {}
  <2>1. I \subseteq Nat
    BY LenProperties
  <2>2. PICK i \in I : \A j \in I : i <= j
    <3> HIDE DEF I
    <3> QED
      BY <1>2, <2>1, LeastNatural
  <2>3. Min(I) \in I
    BY <2>2 DEF Min
  <2> DEFINE k == Min(I)
  <2>4. k \in 1..Len(s)
    BY <2>3
  <2>5. SelectInSeq(s, LAMBDA v : v = x) = k
    BY <1>2 DEF SelectInSeq
  <2> HIDE DEF k
  <2>6. SubSeq(s, 1, k - 1) \in Seq(S) /\ SubSeq(s, k + 1, Len(s)) \in Seq(S)
    BY <2>4, SubSeqProperties, ElementOfSeq
  <2>7. RemoveAt(s, k) \in Seq(S)
    BY <2>6, ConcatProperties DEF RemoveAt
  <2>8. QED
    BY <2>5, <2>7 DEF RemoveFirst
<1>3. QED
  BY <1>1, <1>2

(* A message built from typed parts is a message.                          *)
LEMMA MessageType ==
  ASSUME NEW type \in MessageTypes, NEW src \in Endpoints, NEW status \in 0..255,
         NEW to, to \subseteq Endpoints \cup {None}, to # {}
  PROVE  Message(type, src, to, status) \in Messages
BY DEF Message, Messages

(* A broadcast leaves a queue of messages.                                 *)
LEMMA BroadcastType ==
  ASSUME NEW q \in Seq(Messages), NEW type \in MessageTypes,
         NEW src \in Endpoints, NEW status \in 0..255
  PROVE  Broadcast(q, type, src, status) \in Seq(Messages)
<1>1. Message(type, src, Endpoints, status) \in Messages
  BY MessageType
<1>2. QED
  BY <1>1, AppendProperties DEF Broadcast

(* A unicast leaves a queue of messages, also if nobody is addressed.      *)
LEMMA UnicastType ==
  ASSUME NEW q \in Seq(Messages), NEW type \in MessageTypes,
         NEW src \in Endpoints, NEW dst \in Endpoints \cup {None},
         NEW status \in 0..255
  PROVE  Unicast(q, type, src, dst, status) \in Seq(Messages)
<1>1. Message(type, src, {dst}, status) \in Messages
  BY MessageType
<1>2. QED
  BY <1>1, AppendProperties DEF Unicast

(* What an endpoint that receives a message may rely on. *)
LEMMA ReceivedType ==
  ASSUME TypeOK, NEW e \in Endpoints, NEW type, Receives(e, type)
  PROVE  /\ Head(net).src \in Endpoints
         /\ Head(net).status \in 0..255
         /\ Taken(e) \in Seq(Messages)
<1>1. net \in Seq(Messages) /\ net # <<>> /\ e \in Head(net).to
  BY DEF TypeOK, Receives
<1>2. Head(net) \in Messages /\ Tail(net) \in Seq(Messages)
  BY <1>1, HeadTailProperties
<1>3. CASE Head(net).to # {e}
  <2>1. [Head(net) EXCEPT !.to = @ \ {e}] \in Messages
    BY ZenonT(60), <1>1, <1>2, <1>3 DEF Messages
  <2> DEFINE h == [Head(net) EXCEPT !.to = @ \ {e}]
  <2> HIDE DEF h
  <2>2. <<h>> \in Seq(Messages)
    BY <2>1 DEF h
  <2>3. <<h>> \o Tail(net) \in Seq(Messages)
    BY <1>2, <2>2, ConcatProperties
  <2>4. QED
    BY <1>2, <1>3, <2>3 DEF Taken, h, Messages
<1>4. CASE Head(net).to = {e}
  BY <1>2, <1>4 DEF Taken, Messages
<1>5. QED
  BY <1>3, <1>4

(* An acknowledgement takes a device to one of its states.                 *)
LEMMA AnsweredType ==
  ASSUME NEW d \in DeviceStates, NEW ack
  PROVE  Answered(d, ack) \in DeviceStates
BY DEF Answered, DeviceStates

(* Telling a device the answer keeps the devices typed.                    *)
LEMMA AcknowledgeType ==
  ASSUME TypeOK, NEW e \in Endpoints, NEW ack, Acknowledge(e, ack)
  PROVE  device' \in [Endpoints -> DeviceStates]
BY AnsweredType DEF Acknowledge, TypeOK

----------------------------------------------------------------------------
(* Type correctness. *)

(* The state the endpoints are created in is typed (ep_init_object).       *)
LEMMA InitType == Init => TypeOK
<1> SUFFICES ASSUME Init PROVE TypeOK
  OBVIOUS
<1>1. 0 \in 0..(CounterSize - 1)
  BY EndpointsAssumption
<1>2. \A S : <<>> \in Seq(S)
  BY EmptySeq
<1>3. QED
  BY <1>1, <1>2 DEF Init, TypeOK, States, DeviceStates, ACK, NOACK, NoAddr

(* il_start keeps the endpoints typed, whichever branch it takes.          *)
LEMMA StartType ==
  ASSUME TypeOK, NEW m \in Masters, Start(m)
  PROVE  TypeOK'
<1>1. PICK a \in Addresses :
        /\ MayStart(m, a)
        /\ IF StartIsValid(m)
           THEN \/ StartWhileBusy(m, a)
                \/ StartMisplaced(m, a)
                \/ StartUnicast(m, a)
                \/ StartBroadcast(m, a)
           ELSE RejectStart(m, a)
        /\ UNCHANGED <<current_master, pending_start_responses>>
  BY DEF Start
<1>2. m \in Endpoints /\ a \in 0..255 /\ 0 \in 0..(CounterSize - 1)
  BY EndpointsAssumption
<1>3. WaitingFor(a) \in DeviceStates
  BY DEF WaitingFor, DeviceStates
<1>4. ForgetsAddress(m) => slave_list_counter' \in [Endpoints -> 0..(CounterSize - 1)]
  BY <1>2 DEF ForgetsAddress, TypeOK
<1>5. <<>> \in Seq(Endpoints \cup {None})
  BY EmptySeq
<1>6. ASSUME NEW next \in States, RefuseStart(m, next), ForgetsAddress(m)
      PROVE  TypeOK'
  <2>1. device' \in [Endpoints -> DeviceStates] /\ state' \in [Endpoints -> States]
    BY <1>6 DEF RefuseStart, TypeOK, DeviceStates
  <2>2. QED
    BY SMTT(40), <1>1, <1>2, <1>4, <1>5, <1>6, <2>1 DEF RefuseStart, TypeOK, NoAddr
<1>7. CASE StartWhileBusy(m, a)
  BY <1>6, <1>7 DEF StartWhileBusy, States
<1>8. CASE StartMisplaced(m, a)
  BY <1>6, <1>8 DEF StartMisplaced, States
<1>9. CASE StartUnicast(m, a)
  <2>1. current_slave[m] \in Endpoints \cup {None}
    BY <1>2 DEF TypeOK
  <2>2. net' \in Seq(Messages)
    BY ZenonT(60), <1>2, <1>9, <2>1, UnicastType DEF StartUnicast, TypeOK, MessageTypes
  <2>3. <<current_slave[m]>> \in Seq(Endpoints \cup {None})
    BY <2>1
  <2>4. slave_list' \in [Endpoints -> Seq(Endpoints \cup {None})]
    BY <1>9, <2>3 DEF StartUnicast, TypeOK
  <2>5. QED
    BY SMTT(40), <1>1, <1>2, <1>4, <1>9, <2>2, <2>4
    DEF StartUnicast, TypeOK, States, DeviceStates, ACK, NOACK
<1>10. CASE StartBroadcast(m, a)
  <2>1. net' \in Seq(Messages)
    BY <1>2, <1>10, BroadcastType DEF StartBroadcast, TypeOK, MessageTypes
  <2>2. address_pattern' \in [Endpoints -> -1..255]
    BY <1>2, <1>10 DEF StartBroadcast, TypeOK, Pattern, NoAddr
  <2>3. slave_list_ack' \in [Endpoints -> {ACK, NOACK}]
    BY <1>10 DEF StartBroadcast, TypeOK
  <2>4. QED
    BY <1>1, <1>2, <1>3, <1>4, <1>5, <1>10, <2>1, <2>2, <2>3
    DEF StartBroadcast, TypeOK, States
<1>11. CASE RejectStart(m, a)
  BY <1>1, <1>3, <1>11 DEF RejectStart, TypeOK, addressing
<1>12. QED
  BY <1>1, <1>7, <1>8, <1>9, <1>10, <1>11

(* The requests of a write to every slave of the list. *)
LEMMA RequestsType ==
  ASSUME TypeOK, NEW m \in Endpoints
  PROVE  [i \in DOMAIN slave_list[m] |->
            Message("write_request", m, {slave_list[m][i]}, 0)] \in Seq(Messages)
<1>1. slave_list[m] \in Seq(Endpoints \cup {None})
  BY DEF TypeOK
<1>2. /\ DOMAIN slave_list[m] = 1..Len(slave_list[m])
      /\ Len(slave_list[m]) \in Nat
  BY <1>1, LenProperties
<1>3. ASSUME NEW i \in DOMAIN slave_list[m]
      PROVE  Message("write_request", m, {slave_list[m][i]}, 0) \in Messages
  <2>1. slave_list[m][i] \in Endpoints \cup {None}
    BY <1>1, <1>2, ElementOfSeq
  <2>2. {slave_list[m][i]} \subseteq Endpoints \cup {None} /\ {slave_list[m][i]} # {}
    BY <2>1
  <2>3. "write_request" \in MessageTypes /\ 0 \in 0..255
    BY DEF MessageTypes
  <2>4. QED
    BY <2>2, <2>3, MessageType
<1>4. QED
  BY <1>2, <1>3

(* il_write keeps the endpoints typed; the counter stays in its width.     *)
LEMMA WriteType ==
  ASSUME TypeOK, NEW m \in Masters, Write(m)
  PROVE  TypeOK'
<1>1. m \in Endpoints
  BY EndpointsAssumption
<1>2. device' \in [Endpoints -> DeviceStates]
  BY DEF Write, TypeOK, DeviceStates
<1>3. CASE ~WriteIsValid(m)
  <2>1. UNCHANGED <<state, current_master, current_slave, pending_slaves,
                    pending_start_responses, slave_list, slave_list_counter,
                    slave_list_ack, address_pattern, net>>
    BY <1>3 DEF Write, addressing, answers
  <2>2. QED
    BY <1>2, <2>1 DEF TypeOK
<1>4. CASE WriteIsValid(m) /\ slave_list[m] # <<>>
  <2> DEFINE requests == [i \in DOMAIN slave_list[m] |->
                            Message("write_request", m, {slave_list[m][i]}, 0)]
  <2>1. slave_list[m] \in Seq(Endpoints \cup {None})
    BY <1>1 DEF TypeOK
  <2>2. /\ DOMAIN slave_list[m] = 1..Len(slave_list[m])
        /\ Len(slave_list[m]) \in Nat
    BY <2>1, LenProperties
  <2>4. requests \in Seq(Messages)
    BY <1>1, RequestsType
  <2> HIDE DEF requests
  <2>5. net \o requests \in Seq(Messages)
    BY <2>4, ConcatProperties DEF TypeOK
  <2>6. Requests(m) \in 0..(CounterSize - 1)
    <3>1. \A n \in Nat : n % CounterSize \in 0..(CounterSize - 1)
      BY EndpointsAssumption
    <3>2. QED
      BY <2>2, <3>1 DEF Requests
  <2>7. net' \in Seq(Messages)
    BY <1>4, <2>5 DEF Write, requests
  <2>8. state' \in [Endpoints -> States]
    BY <1>4 DEF Write, TypeOK, States
  <2>9. /\ slave_list_ack' \in [Endpoints -> {ACK, NOACK}]
        /\ slave_list_counter' \in [Endpoints -> 0..(CounterSize - 1)]
    <3>1. slave_list_ack' = [slave_list_ack EXCEPT ![m] = NOACK]
      BY <1>4 DEF Write
    <3>2. slave_list_counter' = [slave_list_counter EXCEPT ![m] = Requests(m)]
      BY <1>4 DEF Write
    <3>3. QED
      BY <2>6, <3>1, <3>2 DEF TypeOK
  <2>10. UNCHANGED <<current_master, current_slave, pending_slaves,
                     pending_start_responses, slave_list, address_pattern>>
    BY <1>4 DEF Write, answers
  <2>11. QED
    BY <1>2, <2>7, <2>8, <2>9, <2>10 DEF TypeOK
<1>5. CASE WriteIsValid(m) /\ slave_list[m] = <<>>
  <2>1. current_slave[m] \in Endpoints \cup {None}
    BY <1>1 DEF TypeOK
  <2>2. net' \in Seq(Messages)
    <3>1. "write_request" \in MessageTypes /\ net \in Seq(Messages) /\ 0 \in 0..255
      BY DEF MessageTypes, TypeOK
    <3>2. Unicast(net, "write_request", m, current_slave[m], 0) \in Seq(Messages)
      BY ZenonT(60), <1>1, <2>1, <3>1, UnicastType
    <3>3. QED
      BY <1>5, <3>2 DEF Write
  <2>3. state' \in [Endpoints -> States] /\ address_pattern' \in [Endpoints -> -1..255]
    <3>1. /\ state' = [state EXCEPT ![m] = "wait_rsp_w"]
          /\ address_pattern' = [address_pattern EXCEPT ![m] = NoAddr]
      BY <1>5 DEF Write
    <3>2. NoAddr \in -1..255
      BY DEF NoAddr
    <3>3. address_pattern' \in [Endpoints -> -1..255]
      BY <3>1, <3>2 DEF TypeOK
    <3>4. QED
      BY <3>1, <3>3 DEF TypeOK, States
  <2>4. UNCHANGED <<current_master, current_slave, pending_slaves, pending_start_responses,
                    slave_list, slave_list_counter, slave_list_ack>>
    BY <1>5 DEF Write, answers
  <2>5. QED
    BY <1>2, <2>2, <2>3, <2>4 DEF TypeOK
<1>6. QED
  BY <1>3, <1>4, <1>5

(* il_read and il_stop keep the endpoints typed.                           *)
LEMMA ReadStopType ==
  ASSUME TypeOK, NEW m \in Masters, Read(m) \/ Stop(m)
  PROVE  TypeOK'
<1>1. m \in Endpoints /\ 0 \in 0..(CounterSize - 1)
  BY EndpointsAssumption
<1>2. CASE Read(m)
  <2>1. current_slave[m] \in Endpoints \cup {None}
    BY <1>1 DEF TypeOK
  <2>2. net' \in Seq(Messages)
    <3>1. Unicast(net, "read_request", m, current_slave[m], 0) \in Seq(Messages)
      BY <1>1, <2>1, UnicastType DEF TypeOK, MessageTypes
    <3>2. QED
      BY <1>2, <3>1 DEF Read, TypeOK
  <2>3. state' \in [Endpoints -> States] /\ device' \in [Endpoints -> DeviceStates]
    BY <1>2 DEF Read, TypeOK, States, DeviceStates
  <2>4. QED
    BY <1>2, <2>2, <2>3 DEF Read, TypeOK, answers, addressing
<1>3. CASE Stop(m)
  <2>1. net' \in Seq(Messages)
    BY <1>1, <1>3, BroadcastType DEF Stop, TypeOK, MessageTypes
  <2>2. <<>> \in Seq(Endpoints \cup {None})
    BY EmptySeq
  <2>3. /\ slave_list' \in [Endpoints -> Seq(Endpoints \cup {None})]
        /\ slave_list_counter' \in [Endpoints -> 0..(CounterSize - 1)]
        /\ slave_list_ack' \in [Endpoints -> {ACK, NOACK}]
        /\ address_pattern' \in [Endpoints -> -1..255]
    <3>1. CASE slave_list[m] = <<>>
      BY <1>3, <3>1 DEF Stop, TypeOK, addressing
    <3>2. CASE slave_list[m] # <<>>
      <4>1. /\ slave_list_counter' = [slave_list_counter EXCEPT ![m] = 0]
            /\ slave_list_ack' = [slave_list_ack EXCEPT ![m] = NOACK]
            /\ slave_list' = [slave_list EXCEPT ![m] = <<>>]
            /\ address_pattern' = address_pattern
        BY <1>3, <3>2 DEF Stop
      <4>2. QED
        BY <1>1, <2>2, <4>1 DEF TypeOK
    <3>3. QED
      BY <3>1, <3>2
  <2>4. QED
    BY <1>3, <2>1, <2>3 DEF Stop, TypeOK, answers, DeviceStates
<1>4. QED
  BY <1>2, <1>3

(* The calls of a slave (il_acknowledge, il_read_response) keep the types. *)
LEMMA SlaveAnswersType ==
  ASSUME TypeOK, NEW s \in Slaves, SlaveAnswers(s)
  PROVE  TypeOK'
<1>1. s \in Endpoints /\ current_master[s] \in Endpoints \cup {None}
  BY EndpointsAssumption DEF TypeOK
<1>2. CASE AnswerStart(s)
  <2>1. net' \in Seq(Messages)
    <3>1. \A ack \in {ACK, NOACK} :
            Unicast(net, "start_response", s, current_master[s], ack) \in Seq(Messages)
      <4>1. {ACK, NOACK} \subseteq 0..255
        BY DEF ACK, NOACK
      <4>2. net \in Seq(Messages) /\ "start_response" \in MessageTypes
        BY DEF TypeOK, MessageTypes
      <4>3. QED
        BY ZenonT(60), <1>1, <4>1, <4>2, UnicastType
    <3>2. QED
      BY <1>2, <3>1 DEF AnswerStart, TypeOK
  <2>2. QED
    BY SMTT(40), <1>1, <1>2, <2>1 DEF AnswerStart, TypeOK, States, answers, addressing
<1>3. CASE AnswerWrite(s)
  <2>1. net' \in Seq(Messages)
    <3>1. \A ack \in {ACK, NOACK} :
            Unicast(net, "write_response", s, current_master[s], ack) \in Seq(Messages)
      <4>1. {ACK, NOACK} \subseteq 0..255
        BY DEF ACK, NOACK
      <4>2. net \in Seq(Messages) /\ "write_response" \in MessageTypes
        BY DEF TypeOK, MessageTypes
      <4>3. QED
        BY ZenonT(60), <1>1, <4>1, <4>2, UnicastType
    <3>2. QED
      BY <1>3, <3>1 DEF AnswerWrite, TypeOK
  <2>2. QED
    BY <1>3, <2>1 DEF AnswerWrite, TypeOK, States, answers, addressing
<1>4. CASE AnswerRead(s)
  <2>1. net' \in Seq(Messages)
    <3>1. Unicast(net, "read_response", s, current_master[s], 0) \in Seq(Messages)
      BY <1>1, UnicastType DEF TypeOK, MessageTypes
    <3>2. QED
      BY <1>4, <3>1 DEF AnswerRead, TypeOK
  <2>2. QED
    BY <1>4, <2>1 DEF AnswerRead, TypeOK, States, answers, addressing
<1>5. QED
  BY <1>2, <1>3, <1>4 DEF SlaveAnswers

(* The start request of handle_remote_start_request keeps the types.       *)
LEMMA DeliverStartType ==
  ASSUME TypeOK, NEW e \in Endpoints,
         \/ DeliverOwnStart(e) \/ DeliverForeignStart(e)
         \/ DeliverStartUnseen(e) \/ DeliverLostStart(e)
  PROVE  TypeOK'
<1>1. Receives(e, "start_request")
  BY DEF DeliverOwnStart, DeliverForeignStart, DeliverStartUnseen, DeliverLostStart
<1>2. Head(net).src \in Endpoints /\ Taken(e) \in Seq(Messages)
  BY <1>1, ReceivedType
<1>3. StartWait(Head(net).status) \in States
  BY DEF StartWait, States
<1>4. CASE DeliverOwnStart(e)
  <2>1. AskedOthers(e) \in Int
    <3>1. IsFiniteSet(Slaves \ {e})
      BY EndpointsAssumption, FS_Subset
    <3>2. QED
      BY <3>1, FS_CardinalityType DEF AskedOthers
  <2>2. device' \in [Endpoints -> DeviceStates]
    BY <1>4, AcknowledgeType DEF DeliverOwnStart, TypeOK
  <2>3. state' \in [Endpoints -> States]
    BY <1>3, <1>4 DEF DeliverOwnStart, TypeOK, States
  <2>4. QED
    BY <1>2, <1>4, <2>1, <2>2, <2>3 DEF DeliverOwnStart, TypeOK, addressing
<1>5. CASE DeliverForeignStart(e)
  <2>1. device' \in [Endpoints -> DeviceStates]
    BY <1>5 DEF DeliverForeignStart, TypeOK, Lost, DeviceStates
  <2>2. \A ack \in {ACK, NOACK} :
          Unicast(Taken(e), "start_response", e, Head(net).src, ack) \in Seq(Messages)
    <3>1. {ACK, NOACK} \subseteq 0..255
      BY DEF ACK, NOACK
    <3>2. QED
      BY ZenonT(60), <1>2, <3>1, UnicastType DEF MessageTypes
  <2>3. Unicast(Taken(e), "start_response_pending", e, Head(net).src, 0) \in Seq(Messages)
    <3>1. "start_response_pending" \in MessageTypes /\ 0 \in 0..255
      BY DEF MessageTypes
    <3>2. QED
      BY <1>2, <3>1, UnicastType
  <2>4. net' \in Seq(Messages)
    BY <1>5, <2>2, <2>3 DEF DeliverForeignStart
  <2>5. state' \in [Endpoints -> States]
    BY <1>3, <1>5 DEF DeliverForeignStart, TypeOK, States
  <2>6. current_slave' \in [Endpoints -> Endpoints \cup {None}]
    BY ZenonT(60), <1>5 DEF DeliverForeignStart, TypeOK
  <2>7. QED
    BY <1>2, <1>5, <2>1, <2>4, <2>5, <2>6
    DEF DeliverForeignStart, TypeOK, addressing, answers
<1>6. CASE DeliverStartUnseen(e)
  <2>1. device' \in [Endpoints -> DeviceStates]
    BY <1>6, AcknowledgeType DEF DeliverStartUnseen, TypeOK
  <2>2. state' \in [Endpoints -> States]
    BY ZenonT(60), <1>6 DEF DeliverStartUnseen, TypeOK, States
  <2>3. QED
    BY <1>2, <1>6, <2>1, <2>2 DEF DeliverStartUnseen, TypeOK, addressing, answers
<1>7. CASE DeliverLostStart(e)
  BY <1>2, <1>7 DEF DeliverLostStart, TypeOK, addressing, answers
<1>8. QED
  BY <1>4, <1>5, <1>6, <1>7

(* Counting off a start response keeps counts and lists typed.             *)
LEMMA ForgetPendingType ==
  ASSUME TypeOK, NEW e \in Endpoints, ForgetPending(e)
  PROVE  pending_start_responses' \in [Endpoints -> Seq(Endpoints)]
<1>1. RemoveFirst(pending_start_responses[e], Head(net).src) \in Seq(Endpoints)
  BY RemoveFirstType DEF TypeOK
<1>2. QED
  BY <1>1 DEF ForgetPending, TypeOK

(* The three kinds of start response in deliver keep the types.            *)
LEMMA DeliverStartResponseType ==
  ASSUME TypeOK, NEW e \in Endpoints,
         \/ DeliverPending(e) \/ DeliverRestartResponse(e)
         \/ DeliverBroadcastResponse(e) \/ DeliverPlainResponse(e)
  PROVE  TypeOK'
<1>1. Receives(e, "start_response") \/ Receives(e, "start_response_pending")
  BY DEF DeliverPending, DeliverRestartResponse, DeliverBroadcastResponse,
         DeliverPlainResponse
<1>2. Head(net).src \in Endpoints /\ Taken(e) \in Seq(Messages)
  BY <1>1, ReceivedType
<1>3. CASE DeliverPending(e)
  <2>1. pending_start_responses[e] \in Seq(Endpoints)
    BY DEF TypeOK
  <2>2. Append(pending_start_responses[e], Head(net).src) \in Seq(Endpoints)
    BY <1>2, <2>1, AppendProperties
  <2>3. pending_start_responses' \in [Endpoints -> Seq(Endpoints)]
    BY <1>3, <2>2 DEF DeliverPending, TypeOK
  <2>4. QED
    BY <1>2, <1>3, <2>3 DEF DeliverPending, TypeOK, addressing
<1>4. CASE DeliverRestartResponse(e)
  <2>1. /\ device' \in [Endpoints -> DeviceStates]
        /\ pending_start_responses' \in [Endpoints -> Seq(Endpoints)]
    BY <1>4, AcknowledgeType, ForgetPendingType DEF DeliverRestartResponse
  <2>2. state' \in [Endpoints -> States]
    BY <1>4 DEF DeliverRestartResponse, TypeOK, States
  <2>3. current_slave' \in [Endpoints -> Endpoints \cup {None}]
    BY <1>2, <1>4 DEF DeliverRestartResponse, TypeOK
  <2>4. pending_slaves' \in [Endpoints -> Int]
    BY <1>4 DEF DeliverRestartResponse, TypeOK
  <2>5. QED
    BY <1>2, <1>4, <2>1, <2>2, <2>3, <2>4
    DEF DeliverRestartResponse, TypeOK, addressing
<1>5. CASE DeliverBroadcastResponse(e)
  <2>1. /\ device' \in [Endpoints -> DeviceStates]
        /\ pending_start_responses' \in [Endpoints -> Seq(Endpoints)]
    BY <1>5, AcknowledgeType, ForgetPendingType DEF DeliverBroadcastResponse, TypeOK
  <2>2. state' \in [Endpoints -> States]
    BY <1>5 DEF DeliverBroadcastResponse, TypeOK, States
  <2>3. slave_list' \in [Endpoints -> Seq(Endpoints \cup {None})]
    <3>1. slave_list[e] \in Seq(Endpoints \cup {None})
      BY DEF TypeOK
    <3>2. Receivers(e) \in Seq(Endpoints \cup {None})
      BY <1>2, <3>1, AppendProperties DEF Receivers
    <3>3. QED
      BY <1>5, <3>2 DEF DeliverBroadcastResponse, TypeOK
  <2>4. slave_list_ack' \in [Endpoints -> {ACK, NOACK}]
    BY <1>5 DEF DeliverBroadcastResponse, TypeOK, Verdict
  <2>5. pending_slaves' \in [Endpoints -> Int]
    BY <1>5 DEF DeliverBroadcastResponse, TypeOK
  <2>6. QED
    BY <1>2, <1>5, <2>1, <2>2, <2>3, <2>4, <2>5 DEF DeliverBroadcastResponse, TypeOK
<1>6. CASE DeliverPlainResponse(e)
  <2>1. /\ device' \in [Endpoints -> DeviceStates]
        /\ pending_start_responses' \in [Endpoints -> Seq(Endpoints)]
    BY <1>6, AcknowledgeType, ForgetPendingType DEF DeliverPlainResponse, TypeOK
  <2>2. state' \in [Endpoints -> States]
    BY ZenonT(60), <1>6 DEF DeliverPlainResponse, TypeOK, States
  <2>3. current_slave' \in [Endpoints -> Endpoints \cup {None}]
    BY <1>2, <1>6 DEF DeliverPlainResponse, TypeOK
  <2>4. address_pattern' \in [Endpoints -> -1..255]
    <3>1. NoAddr \in -1..255
      BY DEF NoAddr
    <3>2. QED
      <4>1. \/ address_pattern' = address_pattern
            \/ \E x \in {NoAddr, address_pattern[e]} :
                 address_pattern' = [address_pattern EXCEPT ![e] = x]
        BY <1>6 DEF DeliverPlainResponse
      <4>2. address_pattern \in [Endpoints -> -1..255]
        BY DEF TypeOK
      <4>3. QED
        BY <3>1, <4>1, <4>2
  <2>5. pending_slaves' \in [Endpoints -> Int]
    BY <1>6 DEF DeliverPlainResponse, TypeOK
  <2>6. QED
    BY <1>2, <1>6, <2>1, <2>2, <2>3, <2>4, <2>5 DEF DeliverPlainResponse, TypeOK
<1>7. QED
  BY <1>3, <1>4, <1>5, <1>6

(* The requests and responses of reads and plain writes keep the types.    *)
LEMMA DeliverTransferType ==
  ASSUME TypeOK, NEW e \in Endpoints,
         \/ DeliverRequest(e) \/ DeliverReadResponse(e)
         \/ DeliverStrayWriteResponse(e) \/ DeliverWriteResponse(e)
  PROVE  TypeOK'
<1>1. Taken(e) \in Seq(Messages)
  BY ReceivedType DEF DeliverRequest, DeliverReadResponse,
                      DeliverStrayWriteResponse, DeliverWriteResponse
<1>2. CASE DeliverRequest(e)
  <2>1. state' \in [Endpoints -> States]
    BY <1>2 DEF DeliverRequest, TypeOK, States
  <2>2. QED
    BY <1>1, <1>2, <2>1 DEF DeliverRequest, TypeOK, addressing, answers
<1>3. CASE DeliverReadResponse(e)
  <2>1. state' \in [Endpoints -> States]
    BY <1>3 DEF DeliverReadResponse, TypeOK, States
  <2>2. device' \in [Endpoints -> DeviceStates]
    BY <1>3 DEF DeliverReadResponse, TypeOK, DeviceStates
  <2>3. QED
    BY <1>1, <1>3, <2>1, <2>2 DEF DeliverReadResponse, TypeOK, addressing, answers
<1>4. CASE DeliverStrayWriteResponse(e)
  BY <1>1, <1>4 DEF DeliverStrayWriteResponse, TypeOK, addressing, answers
<1>5. CASE DeliverWriteResponse(e)
  <2>1. state' \in [Endpoints -> States]
    BY <1>5 DEF DeliverWriteResponse, TypeOK, States
  <2>2. device' \in [Endpoints -> DeviceStates]
    BY <1>5, AcknowledgeType DEF DeliverWriteResponse, TypeOK
  <2>3. QED
    BY <1>1, <1>5, <2>1, <2>2 DEF DeliverWriteResponse, TypeOK, addressing, answers
<1>6. QED
  BY <1>2, <1>3, <1>4, <1>5

(* A response to a broadcast write keeps the types, counting down mod 2^8. *)
LEMMA DeliverBroadcastWriteType ==
  ASSUME TypeOK, NEW e \in Endpoints, DeliverBroadcastWriteResponse(e)
  PROVE  TypeOK'
<1> DEFINE ack     == Head(net).status
           verdict == IF slave_list_ack[e] = ACK \/ ack = ACK THEN ACK ELSE NOACK
           second  == state[e] = "wait_rsp_10bit_addr_w"
           left    == IF second /\ ack = NOACK THEN RemoveFirst(slave_list[e], Head(net).src)
                      ELSE slave_list[e]
           last    == slave_list_counter[e] = 1
           found   == last /\ second /\ Len(left) = 1
           clash   == last /\ second /\ Len(left) > 1
           final   == IF clash THEN NOACK ELSE verdict
<1>1. Taken(e) \in Seq(Messages)
  BY ReceivedType DEF DeliverBroadcastWriteResponse
<1>2. left \in Seq(Endpoints \cup {None})
  <2>1. slave_list[e] \in Seq(Endpoints \cup {None})
    BY DEF TypeOK
  <2>2. RemoveFirst(slave_list[e], Head(net).src) \in Seq(Endpoints \cup {None})
    BY <2>1, RemoveFirstType
  <2>3. QED
    BY <2>1, <2>2
<1>3. found => left[1] \in Endpoints \cup {None}
  <2> HIDE DEF left
  <2>1. QED
    BY <1>2, ElementOfSeq
<1>4. /\ slave_list_counter' = [slave_list_counter EXCEPT ![e] = (@ - 1) % CounterSize]
      /\ slave_list_ack' = [slave_list_ack EXCEPT ![e] = final]
      /\ slave_list' = [slave_list EXCEPT ![e] = IF found THEN <<>> ELSE left]
      /\ current_slave' = [current_slave EXCEPT ![e] = IF found THEN left[1] ELSE @]
      /\ state' = [state EXCEPT ![e] =
                     IF ~last THEN @
                     ELSE IF second THEN (IF found THEN "wait_req_w" ELSE "wait_stop")
                     ELSE IF @ = "wait_stop" THEN @ ELSE "wait_req_w"]
      /\ IF last THEN Acknowledge(e, final) ELSE UNCHANGED device
      /\ net' = Taken(e)
      /\ UNCHANGED <<current_master, answers, address_pattern>>
  BY DEF DeliverBroadcastWriteResponse
<1> HIDE DEF left
<1>5. slave_list_counter' \in [Endpoints -> 0..(CounterSize - 1)]
  <2>1. \A n \in 0..(CounterSize - 1) : (n - 1) % CounterSize \in 0..(CounterSize - 1)
    BY EndpointsAssumption
  <2>2. slave_list_counter[e] \in 0..(CounterSize - 1)
    BY DEF TypeOK
  <2>3. QED
    BY <1>4, <2>1, <2>2 DEF TypeOK
<1>6. slave_list_ack' \in [Endpoints -> {ACK, NOACK}]
  BY <1>4 DEF TypeOK
<1>7. slave_list' \in [Endpoints -> Seq(Endpoints \cup {None})]
  <2>1. <<>> \in Seq(Endpoints \cup {None})
    BY EmptySeq
  <2>2. QED
    BY <1>2, <1>4, <2>1 DEF TypeOK
<1>8. current_slave' \in [Endpoints -> Endpoints \cup {None}]
  BY <1>3, <1>4 DEF TypeOK
<1>9. state' \in [Endpoints -> States]
  BY <1>4 DEF TypeOK, States
<1>10. device' \in [Endpoints -> DeviceStates]
  BY <1>4, AcknowledgeType DEF TypeOK
<1>11. QED
  BY <1>1, <1>4, <1>5, <1>6, <1>7, <1>8, <1>9, <1>10 DEF TypeOK, answers

(* The stop case of deliver keeps the types.                               *)
LEMMA DeliverStopType ==
  ASSUME TypeOK, NEW e \in Endpoints, DeliverStop(e)
  PROVE  TypeOK'
<1>1. Taken(e) \in Seq(Messages)
  BY ReceivedType DEF DeliverStop
<1>2. state' \in [Endpoints -> States]
  BY DEF DeliverStop, TypeOK, States
<1>3. QED
  BY <1>1, <1>2 DEF DeliverStop, TypeOK, addressing, answers

(* Every step of the link keeps the types.                                 *)
LEMMA NextType == TypeOK /\ [Next]_vars => TypeOK'
<1> SUFFICES ASSUME TypeOK, [Next]_vars PROVE TypeOK'
  OBVIOUS
<1>1. ASSUME NEW m \in Masters, Start(m) \/ Read(m) \/ Write(m) \/ Stop(m)
      PROVE  TypeOK'
  BY <1>1, StartType, WriteType, ReadStopType
<1>2. ASSUME NEW s \in Slaves, SlaveAnswers(s)
      PROVE  TypeOK'
  BY <1>2, SlaveAnswersType
<1>3. ASSUME NEW e \in Endpoints, Deliver(e)
      PROVE  TypeOK'
  BY <1>3, DeliverStartType, DeliverStartResponseType, DeliverTransferType,
     DeliverBroadcastWriteType, DeliverStopType DEF Deliver
<1>4. CASE Restore
  BY <1>4 DEF Restore, TypeOK, answers
<1>5. CASE UNCHANGED vars
  BY <1>5 DEF vars, answers, addressing, TypeOK
<1>6. QED
  BY <1>1, <1>2, <1>3, <1>4, <1>5 DEF Next, MasterCalls

(***************************************************************************)
(* Every variable of every endpoint keeps its type, the counter of         *)
(* outstanding write responses its width, and every message in flight is   *)
(* one the endpoints know (deliver, line 387).                             *)
(***************************************************************************)
THEOREM TypeCorrect == Spec => []TypeOK
<1>1. QED
  BY InitType, NextType, PTL DEF Spec

----------------------------------------------------------------------------
(* Agreement on the owner of the bus. *)

(* Endpoints in step stay so when a message is sent: to all, if it is about *)
(* the owner.                                                              *)
LEMMA InStepAppend ==
  ASSUME NEW q \in Seq(Messages), NEW o, NEW x \in Messages,
         InStep(q, o), OwnerMessage(x) => x.to = Endpoints
  PROVE  InStep(Append(q, x), o)
<1> DEFINE r == Append(q, x)
<1>1. /\ r \in Seq(Messages)
      /\ Len(r) = Len(q) + 1
      /\ \A i \in 1..Len(q) : r[i] = q[i]
      /\ r[Len(q) + 1] = x
  BY AppendProperties
<1>2. /\ DOMAIN q = 1..Len(q) /\ DOMAIN r = 1..(Len(q) + 1)
      /\ Len(q) \in Nat /\ r # <<>>
      /\ q # <<>> => 1 \in 1..Len(q)
  BY <1>1, LenProperties, EmptySeq
<1> HIDE DEF r
<1>3. ASSUME NEW i \in DOMAIN r, i # 1, OwnerMessage(r[i])
      PROVE  r[i].to = Endpoints
  <2>1. CASE i \in DOMAIN q
    BY <1>1, <1>2, <1>3, <2>1 DEF InStep
  <2>2. CASE i = Len(q) + 1
    BY <1>1, <1>3, <2>2
  <2>3. QED
    BY <1>2, <2>1, <2>2
<1>4. ASSUME NEW e \in Endpoints, NEW f \in Endpoints
      PROVE  IF r = <<>> \/ ~OwnerMessage(r[1]) THEN o[e] = o[f]
             ELSE /\ (e \in r[1].to <=> f \in r[1].to) => o[e] = o[f]
                  /\ e \in r[1].to /\ f \notin r[1].to => o[f] = OwnerAfter(o[e], r[1])
  <2>1. CASE q = <<>>
    <3>1. r[1] = x
      BY <1>1, <2>1, EmptySeq
    <3>2. o[e] = o[f]
      BY <2>1 DEF InStep
    <3>3. QED
      BY <1>2, <3>1, <3>2
  <2>2. CASE q # <<>>
    <3>1. r[1] = q[1]
      BY <1>1, <1>2, <2>2
    <3>2. QED
      BY <1>2, <2>2, <3>1 DEF InStep
  <2>3. QED
    BY <2>1, <2>2
<1>5. InStep(r, o)
  BY <1>3, <1>4 DEF InStep
<1>6. QED
  BY <1>5 DEF r

(* The requests of a write, which are not about the owner. *)
LEMMA InStepConcat ==
  ASSUME NEW q \in Seq(Messages), NEW o, NEW s \in Seq(Messages),
         InStep(q, o), \A i \in DOMAIN s : ~OwnerMessage(s[i])
  PROVE  InStep(q \o s, o)
<1> DEFINE r == q \o s
<1>1. /\ r \in Seq(Messages)
      /\ Len(r) = Len(q) + Len(s)
      /\ \A i \in 1..(Len(q) + Len(s)) : r[i] = IF i <= Len(q) THEN q[i] ELSE s[i - Len(q)]
  BY ConcatProperties
<1>2. /\ DOMAIN q = 1..Len(q) /\ DOMAIN s = 1..Len(s)
      /\ DOMAIN r = 1..(Len(q) + Len(s))
      /\ Len(q) \in Nat /\ Len(s) \in Nat
      /\ q # <<>> => Len(q) > 0
      /\ r # <<>> => Len(r) > 0
      /\ q = <<>> => Len(q) = 0
  BY <1>1, LenProperties, EmptySeq
<1> HIDE DEF r
<1>3. ASSUME NEW i \in DOMAIN r, i # 1, OwnerMessage(r[i])
      PROVE  r[i].to = Endpoints
  <2>1. CASE i <= Len(q)
    BY <1>1, <1>2, <1>3, <2>1 DEF InStep
  <2>2. CASE i > Len(q)
    BY SMTT(40), <1>1, <1>2, <1>3, <2>2
  <2>3. QED
    BY <1>2, <2>1, <2>2
<1>4. ASSUME NEW e \in Endpoints, NEW f \in Endpoints
      PROVE  IF r = <<>> \/ ~OwnerMessage(r[1]) THEN o[e] = o[f]
             ELSE /\ (e \in r[1].to <=> f \in r[1].to) => o[e] = o[f]
                  /\ e \in r[1].to /\ f \notin r[1].to => o[f] = OwnerAfter(o[e], r[1])
  <2>1. CASE q = <<>>
    <3>1. o[e] = o[f]
      BY <2>1 DEF InStep
    <3>2. r = <<>> \/ ~OwnerMessage(r[1])
      BY <1>1, <1>2, <2>1
    <3>3. QED
      BY <3>1, <3>2
  <2>2. CASE q # <<>>
    <3>1. r[1] = q[1] /\ r # <<>>
      BY <1>1, <1>2, <2>2, EmptySeq
    <3>2. QED
      BY <2>2, <3>1 DEF InStep
  <2>3. QED
    BY <2>1, <2>2
<1>5. InStep(r, o)
  BY <1>3, <1>4 DEF InStep
<1>6. QED
  BY <1>5 DEF r

(* Taking the copy of a message brings an endpoint level with those that   *)
(* had already taken it.                                                   *)
OwnerTaken(e) ==
  IF OwnerMessage(Head(net))
  THEN [current_master EXCEPT ![e] = OwnerAfter(@, Head(net))]
  ELSE current_master

(* Endpoints in step stay so when one of them takes the first message and  *)
(* updates its owner as the message says.                                  *)
LEMMA InStepTaken ==
  ASSUME TypeOK, OwnersInStep, NEW e \in Endpoints, NEW type, Receives(e, type)
  PROVE  InStep(Taken(e), OwnerTaken(e))
<1>1. /\ net \in Seq(Messages) /\ net # <<>> /\ e \in Head(net).to
      /\ Taken(e) \in Seq(Messages)
  BY ReceivedType DEF TypeOK, Receives
<1>2. /\ Head(net) \in Messages /\ Tail(net) \in Seq(Messages)
      /\ Head(net) = net[1] /\ Len(net) \in Nat /\ Len(net) > 0
      /\ Len(Tail(net)) = Len(net) - 1
      /\ \A i \in 1..(Len(net) - 1) : Tail(net)[i] = net[i + 1]
  BY <1>1, HeadTailProperties, LenProperties, EmptySeq
<1>3. \A i \in 2..Len(net) : OwnerMessage(net[i]) => net[i].to = Endpoints
  BY <1>1, <1>2, LenProperties DEF OwnersInStep, InStep
<1>4. \A f, g \in Endpoints :
        IF ~OwnerMessage(net[1]) THEN current_master[f] = current_master[g]
        ELSE /\ (f \in net[1].to <=> g \in net[1].to) => current_master[f] = current_master[g]
             /\ f \in net[1].to /\ g \notin net[1].to =>
                  current_master[g] = OwnerAfter(current_master[f], net[1])
  BY <1>1 DEF OwnersInStep, InStep
<1>5. current_master \in [Endpoints -> Endpoints \cup {None}]
  BY DEF TypeOK
<1>6. CASE Head(net).to = {e}
  <2>1. Taken(e) = Tail(net)
    BY <1>6 DEF Taken
  <2>2. \A f, g \in Endpoints : OwnerTaken(e)[f] = OwnerTaken(e)[g]
    BY <1>2, <1>4, <1>5, <1>6 DEF OwnerTaken
  <2>3. \A i \in DOMAIN Tail(net) : OwnerMessage(Tail(net)[i]) => Tail(net)[i].to = Endpoints
    <3>1. DOMAIN Tail(net) = 1..(Len(net) - 1)
      BY <1>2, LenProperties
    <3>2. QED
      BY <1>2, <1>3, <3>1
  <2>4. Tail(net) # <<>> => 1 \in DOMAIN Tail(net)
    BY <1>2, LenProperties, EmptySeq
  <2>5. QED
    BY <2>1, <2>2, <2>3, <2>4 DEF InStep
<1>7. CASE Head(net).to # {e}
  <2> DEFINE h == [Head(net) EXCEPT !.to = @ \ {e}]
             r == <<h>> \o Tail(net)
  <2>1. h \in Messages /\ h.to = Head(net).to \ {e}
        /\ h.type = Head(net).type /\ h.src = Head(net).src
    BY ZenonT(60), <1>1, <1>2, <1>7 DEF Messages
  <2>2. Taken(e) = r
    BY <1>7 DEF Taken
  <2> HIDE DEF h
  <2>3. <<h>> \in Seq(Messages) /\ Len(<<h>>) = 1 /\ <<h>>[1] = h
    BY <2>1
  <2>4. /\ Len(r) = Len(net)
        /\ r[1] = h
        /\ \A i \in 2..Len(net) : r[i] = net[i]
        /\ r \in Seq(Messages)
    BY <1>2, <2>3, ConcatProperties
  <2> HIDE DEF r
  <2>5. DOMAIN r = 1..Len(net) /\ r # <<>>
    BY <1>2, <2>4, LenProperties, EmptySeq
  <2>6. \A i \in DOMAIN r : i # 1 /\ OwnerMessage(r[i]) => r[i].to = Endpoints
    BY <1>2, <1>3, <2>4, <2>5
  <2>7. /\ OwnerMessage(h) <=> OwnerMessage(Head(net))
        /\ \A x : OwnerAfter(x, h) = OwnerAfter(x, Head(net))
    BY <2>1 DEF OwnerMessage, OwnerAfter
  <2>8. ASSUME NEW f \in Endpoints, NEW g \in Endpoints
        PROVE  IF ~OwnerMessage(h) THEN OwnerTaken(e)[f] = OwnerTaken(e)[g]
               ELSE /\ (f \in h.to <=> g \in h.to) => OwnerTaken(e)[f] = OwnerTaken(e)[g]
                    /\ f \in h.to /\ g \notin h.to =>
                         OwnerTaken(e)[g] = OwnerAfter(OwnerTaken(e)[f], h)
    BY <1>1, <1>2, <1>4, <1>5, <2>1, <2>7 DEF OwnerTaken
  <2>9. QED
    BY <2>2, <2>4, <2>5, <2>6, <2>8 DEF InStep
<1>8. QED
  BY <1>6, <1>7

(* A unicast that is not about the owner keeps the endpoints in step.      *)
LEMMA InStepUnicast ==
  ASSUME NEW q \in Seq(Messages), NEW o, InStep(q, o),
         NEW type \in MessageTypes, type \notin {"start_request", "stop"},
         NEW src \in Endpoints, NEW dst \in Endpoints \cup {None},
         NEW status \in 0..255
  PROVE  InStep(Unicast(q, type, src, dst, status), o)
<1>1. Message(type, src, {dst}, status) \in Messages
  BY MessageType
<1>2. ~OwnerMessage(Message(type, src, {dst}, status))
  BY DEF OwnerMessage, Message
<1>3. QED
  BY <1>1, <1>2, InStepAppend DEF Unicast

(* A broadcast keeps the endpoints in step.                                *)
LEMMA InStepBroadcast ==
  ASSUME NEW q \in Seq(Messages), NEW o, InStep(q, o),
         NEW type \in MessageTypes, NEW src \in Endpoints, NEW status \in 0..255
  PROVE  InStep(Broadcast(q, type, src, status), o)
<1>1. Message(type, src, Endpoints, status) \in Messages
  BY MessageType
<1>2. Message(type, src, Endpoints, status).to = Endpoints
  BY DEF Message
<1>3. QED
  BY <1>1, <1>2, InStepAppend DEF Broadcast

(* A queue that is not touched, with owners that are not touched. *)
LEMMA InStepUnchanged ==
  ASSUME OwnersInStep, UNCHANGED <<net, current_master>>
  PROVE  OwnersInStep'
BY DEF OwnersInStep, InStep, OwnerMessage, OwnerAfter

(* The calls of a master keep the endpoints in step.                       *)
LEMMA CallsInStep ==
  ASSUME TypeOK, OwnersInStep, \A a \in Addresses : ~Is10bitRead(a),
         NEW m \in Masters, Start(m) \/ Read(m) \/ Write(m) \/ Stop(m)
  PROVE  OwnersInStep'
<1>1. /\ m \in Endpoints /\ net \in Seq(Messages)
      /\ current_slave[m] \in Endpoints \cup {None}
      /\ InStep(net, current_master)
  BY EndpointsAssumption DEF TypeOK, OwnersInStep
<1>2. current_master' = current_master
  BY DEF Start, Read, Write, Stop
<1>3. SUFFICES InStep(net', current_master)
  BY <1>2 DEF OwnersInStep, InStep
<1>4. CASE Start(m)
  <2>1. PICK a \in Addresses :
          IF StartIsValid(m)
          THEN \/ StartWhileBusy(m, a)
               \/ StartMisplaced(m, a)
               \/ StartUnicast(m, a)
               \/ StartBroadcast(m, a)
          ELSE RejectStart(m, a)
    BY <1>4 DEF Start
  <2>2. a \in 0..255 /\ ~Is10bitRead(a)
    BY EndpointsAssumption
  <2>3. ~StartUnicast(m, a)
    <3>1. address_pattern[m] \in -1..255
      BY <1>1 DEF TypeOK
    <3>2. \A p \in -1..255 : Is10bit(p) => Is10bitRead(AsRead(p))
      BY DEF Is10bit, Is10bitRead, AsRead
    <3>3. QED
      BY <2>2, <3>1, <3>2 DEF StartUnicast, Restarts10bitRead
  <2>4. CASE StartBroadcast(m, a)
    <3>1. net' = Broadcast(net, "start_request", m, a)
      BY <2>4 DEF StartBroadcast
    <3>2. "start_request" \in MessageTypes
      BY DEF MessageTypes
    <3>3. QED
      BY <1>1, <2>2, <3>1, <3>2, InStepBroadcast
  <2>5. CASE net' = net
    BY <1>1, <2>5
  <2>6. QED
    BY <2>1, <2>3, <2>4, <2>5
    DEF StartWhileBusy, StartMisplaced, RefuseStart, RejectStart
<1>5. CASE Read(m)
  <2>1. InStep(Unicast(net, "read_request", m, current_slave[m], 0), current_master)
    <3>1. "read_request" \in MessageTypes /\ 0 \in 0..255
      BY DEF MessageTypes
    <3>2. QED
      BY <1>1, <3>1, InStepUnicast
  <2>2. QED
    BY <1>1, <1>5, <2>1 DEF Read
<1>6. CASE Write(m)
  <2>1. InStep(Unicast(net, "write_request", m, current_slave[m], 0), current_master)
    <3>1. "write_request" \in MessageTypes /\ 0 \in 0..255
      BY DEF MessageTypes
    <3>2. QED
      BY <1>1, <3>1, InStepUnicast
  <2> DEFINE requests == [i \in DOMAIN slave_list[m] |->
                            Message("write_request", m, {slave_list[m][i]}, 0)]
  <2>2. requests \in Seq(Messages)
    BY <1>1, RequestsType
  <2>3. \A i \in DOMAIN requests : ~OwnerMessage(requests[i])
    BY DEF OwnerMessage, Message
  <2> HIDE DEF requests
  <2>4. InStep(net \o requests, current_master)
    BY <1>1, <2>2, <2>3, InStepConcat
  <2>5. \/ net' = net
        \/ net' = net \o requests
        \/ net' = Unicast(net, "write_request", m, current_slave[m], 0)
    BY <1>6 DEF Write, requests
  <2>6. QED
    BY <1>1, <2>1, <2>4, <2>5
<1>7. CASE Stop(m)
  <2>1. net' = Broadcast(net, "stop", m, 0)
    BY <1>7 DEF Stop
  <2>2. "stop" \in MessageTypes /\ 0 \in 0..255
    BY DEF MessageTypes
  <2>3. QED
    BY <1>1, <2>1, <2>2, InStepBroadcast
<1>8. QED
  BY <1>4, <1>5, <1>6, <1>7

(* The calls of a slave keep the endpoints in step.                        *)
LEMMA SlaveAnswersInStep ==
  ASSUME TypeOK, OwnersInStep, NEW s \in Slaves, SlaveAnswers(s)
  PROVE  OwnersInStep'
<1>1. /\ s \in Endpoints /\ net \in Seq(Messages)
      /\ current_master[s] \in Endpoints \cup {None}
      /\ InStep(net, current_master)
      /\ {ACK, NOACK} \subseteq 0..255 /\ 0 \in 0..255
  BY EndpointsAssumption DEF TypeOK, OwnersInStep, ACK, NOACK
<1>2. current_master' = current_master
  BY DEF SlaveAnswers, AnswerStart, AnswerWrite, AnswerRead
<1>3. \A type \in {"start_response", "read_response", "write_response"} :
        \A status \in 0..255 :
          InStep(Unicast(net, type, s, current_master[s], status), current_master)
  <2>1. {"start_response", "read_response", "write_response"} \subseteq
          MessageTypes \ {"start_request", "stop"}
    BY DEF MessageTypes
  <2>2. QED
    BY ZenonT(60), <1>1, <2>1, InStepUnicast
<1>4. \/ net' = net
      \/ \E type \in {"start_response", "read_response", "write_response"} :
           \E status \in 0..255 : net' = Unicast(net, type, s, current_master[s], status)
  BY ZenonT(60), <1>1 DEF SlaveAnswers, AnswerStart, AnswerWrite, AnswerRead
<1>5. InStep(net', current_master)
  BY ZenonT(60), <1>1, <1>3, <1>4
<1>6. QED
  BY <1>2, <1>5 DEF OwnersInStep, InStep

(* The delivery of a message keeps the endpoints in step.                  *)
LEMMA DeliverInStep ==
  ASSUME TypeOK, OwnersInStep, NEW e \in Endpoints, Deliver(e)
  PROVE  OwnersInStep'
<1>1. PICK type \in MessageTypes : Receives(e, type)
  BY DEF Deliver, DeliverOwnStart, DeliverForeignStart, DeliverStartUnseen,
         DeliverLostStart, DeliverPending, DeliverRestartResponse,
         DeliverBroadcastResponse, DeliverPlainResponse, DeliverRequest,
         DeliverReadResponse, DeliverStrayWriteResponse, DeliverWriteResponse,
         DeliverBroadcastWriteResponse, DeliverStop, MessageTypes
<1>2. /\ Head(net).src \in Endpoints /\ Taken(e) \in Seq(Messages)
      /\ InStep(Taken(e), OwnerTaken(e))
  BY <1>1, ReceivedType, InStepTaken
<1>3. current_master \in [Endpoints -> Endpoints \cup {None}]
  BY DEF TypeOK
<1>4. current_master' = OwnerTaken(e)
  <2>1. CASE type = "start_request"
    <3>1. /\ Head(net).type = "start_request" /\ OwnerMessage(Head(net))
          /\ OwnerAfter(current_master[e], Head(net)) =
               IF Accepts(e, Head(net).src) THEN Head(net).src ELSE current_master[e]
      BY <1>1, <2>1 DEF Receives, OwnerMessage, OwnerAfter, Accepts
    <3>2. CASE DeliverLostStart(e)
      BY <1>3, <3>1, <3>2 DEF DeliverLostStart, OwnerTaken
    <3>3. CASE DeliverOwnStart(e)
      BY <3>1, <3>3 DEF DeliverOwnStart, OwnerTaken
    <3>4. CASE DeliverForeignStart(e)
      BY <3>1, <3>4 DEF DeliverForeignStart, OwnerTaken
    <3>5. CASE DeliverStartUnseen(e)
      BY <3>1, <3>5 DEF DeliverStartUnseen, OwnerTaken
    <3>6. QED
      BY <3>1, <3>2, <3>3, <3>4, <3>5
      DEF Deliver, DeliverPending, DeliverRestartResponse, Receives,
          DeliverBroadcastResponse, DeliverPlainResponse, DeliverRequest,
          DeliverReadResponse, DeliverStrayWriteResponse, DeliverWriteResponse,
          DeliverBroadcastWriteResponse, DeliverStop
  <2>2. CASE type = "stop"
    <3>1. Head(net).type = "stop"
      BY <1>1, <2>2 DEF Receives
    <3>2. DeliverStop(e)
      BY <3>1
      DEF Deliver, DeliverOwnStart, DeliverForeignStart, DeliverStartUnseen,
          DeliverLostStart, DeliverPending, DeliverRestartResponse, Receives,
          DeliverBroadcastResponse, DeliverPlainResponse, DeliverRequest,
          DeliverReadResponse, DeliverStrayWriteResponse, DeliverWriteResponse,
          DeliverBroadcastWriteResponse
    <3>3. QED
      BY <3>1, <3>2 DEF DeliverStop, OwnerTaken, OwnerMessage, OwnerAfter
  <2>3. CASE type \notin {"start_request", "stop"}
    <3>1. Head(net).type \notin {"start_request", "stop"}
      BY <1>1, <2>3 DEF Receives
    <3>2. current_master' = current_master
      BY <3>1
      DEF Deliver, DeliverOwnStart, DeliverForeignStart, DeliverStartUnseen,
          DeliverLostStart, DeliverPending, DeliverRestartResponse, Receives,
          DeliverBroadcastResponse, DeliverPlainResponse, DeliverRequest,
          DeliverReadResponse, DeliverStrayWriteResponse, DeliverWriteResponse,
          DeliverBroadcastWriteResponse, DeliverStop
    <3>3. QED
      BY <3>1, <3>2 DEF OwnerTaken, OwnerMessage
  <2>4. QED
    BY <2>1, <2>2, <2>3
<1>5. InStep(net', OwnerTaken(e))
  <2>1. \A t \in {"start_response", "start_response_pending"} : \A status \in {0, ACK, NOACK} :
          InStep(Unicast(Taken(e), t, e, Head(net).src, status), OwnerTaken(e))
    <3>1. {"start_response", "start_response_pending"} \subseteq
            MessageTypes \ {"start_request", "stop"}
      BY DEF MessageTypes
    <3>2. {0, ACK, NOACK} \subseteq 0..255
      BY DEF ACK, NOACK
    <3>3. QED
      BY ZenonT(60), <1>2, <3>1, <3>2, InStepUnicast
  <2>2. \/ net' = Taken(e)
        \/ \E t \in {"start_response", "start_response_pending"} : \E status \in {0, ACK, NOACK} :
             net' = Unicast(Taken(e), t, e, Head(net).src, status)
    BY DEF Deliver, DeliverOwnStart, DeliverForeignStart, DeliverStartUnseen,
           DeliverLostStart, DeliverPending, DeliverRestartResponse,
           DeliverBroadcastResponse, DeliverPlainResponse, DeliverRequest,
           DeliverReadResponse, DeliverStrayWriteResponse, DeliverWriteResponse,
           DeliverBroadcastWriteResponse, DeliverStop
  <2>3. QED
    BY <1>2, <2>1, <2>2
<1>6. QED
  BY <1>4, <1>5 DEF OwnersInStep, InStep

(* The least that the endpoints' agreement needs to say. *)
LEMMA InStepSameOwner ==
  ASSUME TypeOK, OwnersInStep
  PROVE  SameOwner
<1>1. net # <<>> => Head(net) = net[1]
  BY HeadTailProperties DEF TypeOK
<1>2. QED
  BY <1>1 DEF OwnersInStep, InStep, SameOwner, OwnerPending, Receives, OwnerMessage

(***************************************************************************)
(* Agreement, for any number of endpoints and any behaviour of the master  *)
(* devices, those that start or stop out of turn included: as long as no   *)
(* 10-bit read is started, endpoints that have seen the same starts and    *)
(* stops name the same owner (il_stop, comment at lines 1181-1185).        *)
(***************************************************************************)
THEOREM InStepAlways ==
  ASSUME \A a \in Addresses : ~Is10bitRead(a)
  PROVE  Spec => []OwnersInStep
<1>1. Init => OwnersInStep
  BY DEF Init, OwnersInStep, InStep
<1>2. TypeOK /\ OwnersInStep /\ [Next]_vars => OwnersInStep'
  <2> SUFFICES ASSUME TypeOK, OwnersInStep, [Next]_vars PROVE OwnersInStep'
    OBVIOUS
  <2>1. ASSUME NEW m \in Masters, Start(m) \/ Read(m) \/ Write(m) \/ Stop(m)
        PROVE  OwnersInStep'
    BY <2>1, CallsInStep
  <2>2. ASSUME NEW s \in Slaves, SlaveAnswers(s)
        PROVE  OwnersInStep'
    BY <2>2, SlaveAnswersInStep
  <2>3. ASSUME NEW e \in Endpoints, Deliver(e)
        PROVE  OwnersInStep'
    BY <2>3, DeliverInStep
  <2>4. CASE Restore \/ UNCHANGED vars
    BY <2>4, InStepUnchanged DEF Restore, vars
  <2>5. QED
    BY <2>1, <2>2, <2>3, <2>4 DEF Next, MasterCalls
<1>3. QED
  BY <1>1, <1>2, TypeCorrect, PTL DEF Spec

(***************************************************************************)
(* In particular two endpoints that have both taken, or both not taken,    *)
(* the first start or stop in flight name the same owner (comment of       *)
(* il_stop at lines 1181-1185): the property that i2c_two_masters checks.  *)
(***************************************************************************)
THEOREM SameOwnerAlways ==
  ASSUME \A a \in Addresses : ~Is10bitRead(a)
  PROVE  Spec => []SameOwner
<1>1. QED
  BY TypeCorrect, InStepAlways, InStepSameOwner, PTL
=============================================================================
