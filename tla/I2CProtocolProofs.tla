-------------------------- MODULE I2CProtocolProofs --------------------------
(***************************************************************************)
(* The protocol of the I2C link, for any number of endpoints, masters and  *)
(* slaves: what masters and slaves send each other, what each of them owes *)
(* and what the masters count of it, from the first start to the last stop.*)
(* All of it is one inductive invariant, because each part relies on the   *)
(* others: a master that was answered too early could stop while answers   *)
(* are on their way, and the next answer would give it a bus that another  *)
(* one has.  From it follow the invariants that the runs check, and that   *)
(* the link implements the single arbiter of I2CBus.                       *)
(***************************************************************************)
EXTENDS I2CLinkProofs, I2CLinkBus

(* What the masters are assumed to do: they see each other's starts, or    *)
(* there is only one of them; they do not open a transaction with a 10-bit *)
(* read; they do not stop while an answer is outstanding; and a uint8      *)
(* counts the slaves.                                                      *)
MastersBehave ==
  /\ \A m \in Masters : m \in Slaves \/ Masters = {m}
  /\ Careless = {} /\ Aborting = {}
  /\ \A m \in Masters : Cardinality(Slaves \ {m}) < CounterSize

Devices == Masters \cup Slaves
Asking  == {"startR", "startW"}

----------------------------------------------------------------------------
(* The queue: which messages it holds, and in which order. *)

(* Starts and stops are shared by all endpoints, except for the start of a *)
(* 10-bit read, which is private like all requests and answers.            *)
SharedStart(msg) == msg.type = "start_request" /\ ~Is10bitRead(msg.status)
Restarts(msg)    == msg.type = "start_request" /\ Is10bitRead(msg.status)
Shared(msg)      == msg.type = "stop" \/ SharedStart(msg)

FromMaster(msg) == Restarts(msg) \/ msg.type \in {"read_request", "write_request"}
FromSlave(msg)  == msg.type \in {"start_response", "start_response_pending",
                                 "read_response", "write_response"}

Between(msg, m, s) ==
  \/ FromMaster(msg) /\ msg.src = m /\ msg.to = {s}
  \/ FromSlave(msg) /\ msg.src = s /\ msg.to = {m}

Shaped(msg) ==
  /\ Shared(msg) => msg.src \in Masters
  /\ ~Shared(msg) => \E m \in Masters : \E s \in Slaves \ {m} : Between(msg, m, s)
  /\ msg.type \in {"start_response", "write_response"} => msg.status \in {ACK, NOACK}

Concerns(msg) == \E d \in Devices : d \in msg.to

(* What message a may have behind it.  There is at most one stop, one      *)
(* start of a master, and one message between a master and a slave, but a  *)
(* late slave announces its answer; a master stops after its start, and    *)
(* what it has to say to a slave follows its start.                        *)
Ordered(a, b) ==
  /\ a.type = "stop" /\ Concerns(a) => b.type # "stop"
  /\ SharedStart(a) /\ Concerns(a) => ~(Shared(b) /\ b.src = a.src)
  /\ SharedStart(a) => \A s \in Slaves : Between(b, a.src, s) => s \notin a.to
  /\ \A m \in Masters, s \in Slaves : Between(a, m, s) =>
       /\ ~(SharedStart(b) /\ b.src = m)
       /\ \A n \in Masters : Between(b, n, s) =>
            a.type = "start_response_pending" /\ b.type = "start_response"

QueueOK(q) ==
  /\ \A i \in 1..Len(q) : Shaped(q[i]) /\ (i > 1 /\ Shared(q[i]) => q[i].to = Endpoints)
  /\ \A i, j \in 1..Len(q) : i < j => Ordered(q[i], q[j])

(* The copies of messages that a queue holds. *)
Carries(q, type, src, status, dst) ==
  \E i \in 1..Len(q) :
    q[i].type = type /\ q[i].src = src /\ q[i].status = status /\ dst \in q[i].to

OnWay(type, src, status, dst) == Carries(net, type, src, status, dst)

LEMMA InFlightOnWay ==
  ASSUME TypeOK
  PROVE  \A type, src, dst : InFlight(type, src, dst) <=> \E status : OnWay(type, src, status, dst)
BY LenProperties DEF TypeOK, InFlight, OnWay, Carries

LEMMA DevicesAreEndpoints == Masters \subseteq Endpoints /\ Slaves \subseteq Endpoints /\ Devices \subseteq Endpoints
BY EndpointsAssumption DEF Devices

(* Sending a message. *)
LEMMA Sent ==
  ASSUME NEW q \in Seq(Messages), NEW msg \in Messages, NEW r, r = Append(q, msg)
  PROVE  /\ r \in Seq(Messages) /\ Len(r) = Len(q) + 1 /\ r[Len(r)] = msg
         /\ Len(q) \in Nat /\ \A i \in 1..Len(q) : r[i] = q[i]
         /\ \A type, src, status, dst : Carries(r, type, src, status, dst) <=>
              \/ Carries(q, type, src, status, dst)
              \/ type = msg.type /\ src = msg.src /\ status = msg.status /\ dst \in msg.to
<1>1. /\ r \in Seq(Messages) /\ Len(r) = Len(q) + 1 /\ r[Len(q) + 1] = msg
      /\ Len(q) \in Nat /\ \A i \in 1..Len(q) : r[i] = q[i]
  BY AppendProperties, LenProperties
<1>2. ASSUME NEW type, NEW src, NEW status, NEW dst
      PROVE  Carries(r, type, src, status, dst) <=>
              \/ Carries(q, type, src, status, dst)
              \/ type = msg.type /\ src = msg.src /\ status = msg.status /\ dst \in msg.to
  <2>1. \A i : i \in 1..Len(r) <=> (i \in 1..Len(q) \/ i = Len(r))
    BY <1>1
  <2> QED BY <1>1, <2>1 DEF Carries
<1> QED BY <1>1, <1>2

LEMMA SentInOrder ==
  ASSUME NEW q \in Seq(Messages), NEW msg \in Messages, NEW r, r = Append(q, msg),
         QueueOK(q), Shaped(msg), Shared(msg) => msg.to = Endpoints,
         \A i \in 1..Len(q) : Ordered(q[i], msg)
  PROVE  QueueOK(r)
<1>1. /\ Len(r) = Len(q) + 1 /\ r[Len(r)] = msg /\ Len(q) \in Nat
      /\ \A i \in 1..Len(q) : r[i] = q[i]
  BY Sent
<1>2. ASSUME NEW i \in 1..Len(r)
      PROVE  Shaped(r[i]) /\ (i > 1 /\ Shared(r[i]) => r[i].to = Endpoints)
  <2>1. CASE i = Len(r)
    BY <1>1, <2>1
  <2>2. CASE i # Len(r)
    <3>1. i \in 1..Len(q) /\ r[i] = q[i]
      BY <1>1, <2>2
    <3> QED BY <3>1 DEF QueueOK
  <2> QED BY <2>1, <2>2
<1>3. ASSUME NEW i \in 1..Len(r), NEW j \in 1..Len(r), i < j
      PROVE  Ordered(r[i], r[j])
  <2>1. i \in 1..Len(q) /\ r[i] = q[i]
    BY <1>1, <1>3
  <2>2. CASE j = Len(r)
    BY <1>1, <2>1, <2>2
  <2>3. CASE j # Len(r)
    <3>1. j \in 1..Len(q) /\ r[j] = q[j]
      BY <1>1, <2>3
    <3> QED BY <1>3, <2>1, <3>1 DEF QueueOK
  <2> QED BY <2>2, <2>3
<1> QED BY <1>2, <1>3 DEF QueueOK

(* There is only one copy of a message for each device. *)
LEMMA OnlyOnce ==
  ASSUME NEW q, QueueOK(q), NEW i \in 1..Len(q), NEW j \in 1..Len(q), i < j,
         NEW d \in Devices, q[i].type = q[j].type, q[i].src = q[j].src, d \in q[i].to, d \in q[j].to
  PROVE  FALSE
<1>1. Shaped(q[i]) /\ Shaped(q[j]) /\ Ordered(q[i], q[j])
  BY DEF QueueOK
<1>2. Concerns(q[i])
  BY DEF Concerns
<1>3. CASE q[i].type = "stop"
  BY <1>1, <1>2, <1>3 DEF Ordered
<1>4. CASE SharedStart(q[i]) /\ SharedStart(q[j])
  BY <1>1, <1>2, <1>4 DEF Ordered, Shared
<1>5. CASE SharedStart(q[i]) /\ ~SharedStart(q[j])
  <2>1. ~Shared(q[j])
    BY <1>5 DEF Shared, SharedStart
  <2>2. PICK m \in Masters, s \in Slaves : Between(q[j], m, s)
    BY <1>1, <2>1 DEF Shaped
  <2>3. q[j].src = m /\ d = s
    BY <1>5, <2>2 DEF Between, FromSlave, SharedStart
  <2> QED BY <1>1, <1>5, <2>2, <2>3 DEF Ordered
<1>6. CASE ~Shared(q[i])
  <2>1. PICK m \in Masters, s \in Slaves : Between(q[i], m, s)
    BY <1>1, <1>6 DEF Shaped
  <2>2. CASE SharedStart(q[j])
    <3>1. q[i].src = m
      BY <1>6, <2>1, <2>2 DEF Between, FromSlave, SharedStart
    <3> QED BY <1>1, <2>1, <2>2, <3>1 DEF Ordered
  <2>3. CASE ~SharedStart(q[j])
    <3>1. ~Shared(q[j])
      BY <1>6, <2>3 DEF Shared
    <3>2. PICK n \in Masters, t \in Slaves : Between(q[j], n, t)
      BY <1>1, <3>1 DEF Shaped
    <3>3. s = t
      BY <2>1, <3>2 DEF Between, FromSlave, FromMaster, Restarts
    <3> QED BY <1>1, <2>1, <3>2, <3>3 DEF Ordered
  <2> QED BY <2>2, <2>3
<1> QED BY <1>3, <1>4, <1>5, <1>6 DEF Shared

LEMMA Joined ==
  ASSUME NEW f \in Seq(Messages), NEW t \in Seq(Messages), NEW q, q = f \o t
  PROVE  /\ Len(q) = Len(f) + Len(t) /\ q \in Seq(Messages)
         /\ \A i \in 1..(Len(f) + Len(t)) : q[i] = IF i <= Len(f) THEN f[i] ELSE t[i - Len(f)]
BY ConcatProperties

(* Delivering the first message to one of its receivers. *)
LEMMA Heads ==
  ASSUME TypeOK, net # <<>>
  PROVE  /\ net \in Seq(Messages) /\ Len(net) \in Nat /\ Len(net) >= 1
         /\ Head(net) = net[1] /\ Head(net) \in Messages /\ net[1] \in Messages
BY HeadTailProperties, LenProperties, EmptySeq DEF TypeOK

LEMMA TakenIs ==
  ASSUME TypeOK, NEW e \in Endpoints, net # <<>>, e \in Head(net).to, NEW q, q = Taken(e)
  PROVE  /\ q \in Seq(Messages) /\ Len(q) \in Nat
         /\ \/ /\ Head(net).to = {e} /\ Len(q) = Len(net) - 1
               /\ \A i \in 1..Len(q) : q[i] = net[i + 1]
            \/ /\ Head(net).to # {e} /\ Len(q) = Len(net)
               /\ q[1].type = net[1].type /\ q[1].src = net[1].src
               /\ q[1].status = net[1].status /\ q[1].to = net[1].to \ {e}
               /\ \A i \in 2..Len(q) : q[i] = net[i]
<1>1. /\ net \in Seq(Messages) /\ Len(net) \in Nat /\ Len(net) >= 1
      /\ Head(net) = net[1] /\ Head(net) \in Messages /\ net[1] \in Messages
  BY Heads
<1>2. q \in Seq(Messages)
  BY ReceivedType DEF Receives
<1>3. /\ Tail(net) \in Seq(Messages) /\ Len(Tail(net)) = Len(net) - 1
      /\ \A i \in 1..Len(Tail(net)) : Tail(net)[i] = net[i + 1]
  BY <1>1, HeadTailProperties
<1>4. CASE Head(net).to = {e}
  <2>1. q = Tail(net)
    BY <1>4 DEF Taken
  <2>2. Len(q) = Len(net) - 1 /\ Len(q) \in Nat
    BY <1>1, <1>3, <2>1
  <2>3. \A i \in 1..Len(q) : q[i] = net[i + 1]
    BY <1>3, <2>1
  <2> QED BY <1>2, <1>4, <2>2, <2>3
<1>5. CASE Head(net).to # {e}
  <2> DEFINE h == [Head(net) EXCEPT !.to = @ \ {e}]
  <2>1. h \in Messages
    BY ZenonT(60), <1>1, <1>5 DEF Messages
  <2>2. /\ h.type = net[1].type /\ h.src = net[1].src
        /\ h.status = net[1].status /\ h.to = net[1].to \ {e}
    BY <1>1 DEF Messages
  <2>3. q = <<h>> \o Tail(net)
    BY <1>5 DEF Taken
  <2> HIDE DEF h
  <2>4. /\ <<h>> \in Seq(Messages) /\ Len(<<h>>) = 1 /\ <<h>>[1] = h
    BY <2>1
  <2> DEFINE f == <<h>>
             t == Tail(net)
  <2>5. /\ f \in Seq(Messages) /\ Len(f) = 1 /\ f[1] = h /\ q = f \o t
        /\ t \in Seq(Messages) /\ Len(t) = Len(net) - 1
        /\ \A i \in 1..Len(t) : t[i] = net[i + 1]
    BY <1>3, <2>3, <2>4
  <2> HIDE DEF f, t
  <2>6. /\ Len(q) = Len(f) + Len(t)
        /\ \A i \in 1..(Len(f) + Len(t)) : q[i] = IF i <= Len(f) THEN f[i] ELSE t[i - Len(f)]
    BY <2>5, Joined
  <2>7. Len(q) = Len(net) /\ q[1] = h
    BY <1>1, <2>5, <2>6
  <2>8. \A i \in 2..Len(q) : q[i] = net[i]
    <3> SUFFICES ASSUME NEW i \in 2..Len(q)
                 PROVE  q[i] = net[i]
      OBVIOUS
    <3>1. i - 1 \in 1..Len(t) /\ q[i] = t[i - 1]
      BY <1>1, <2>5, <2>6, <2>7
    <3>2. t[i - 1] = net[(i - 1) + 1]
      BY <2>5, <3>1
    <3> QED BY <3>1, <3>2
  <2> QED BY <1>1, <1>2, <1>5, <2>2, <2>7, <2>8
<1> QED BY <1>4, <1>5

(* Where the messages of the rest of the queue have been before. *)
ShiftedBy(q, e, k) ==
  /\ Len(q) = Len(net) - k
  /\ \A i \in 1..Len(q) :
       /\ i + k \in 1..Len(net)
       /\ q[i].type = net[i + k].type /\ q[i].src = net[i + k].src
       /\ q[i].status = net[i + k].status
       /\ q[i].to = IF i + k = 1 THEN net[1].to \ {e} ELSE net[i + k].to
  /\ k = 1 <=> Head(net).to = {e}

LEMMA TakenFrom ==
  ASSUME TypeOK, NEW e \in Endpoints, net # <<>>, e \in Head(net).to, NEW q, q = Taken(e)
  PROVE  \E k \in {0, 1} : ShiftedBy(q, e, k)
<1>1. /\ net \in Seq(Messages) /\ Len(net) \in Nat /\ Len(net) >= 1 /\ Head(net) = net[1]
  BY Heads
<1>2. q \in Seq(Messages) /\ Len(q) \in Nat
  BY TakenIs
<1>3. CASE Head(net).to = {e}
  <2>1. Len(q) = Len(net) - 1 /\ \A i \in 1..Len(q) : q[i] = net[i + 1]
    BY <1>3, TakenIs
  <2>2. \A i \in 1..Len(q) : i + 1 \in 1..Len(net) /\ i + 1 # 1
    BY <1>1, <1>2, <2>1
  <2>3. ShiftedBy(q, e, 1)
    BY <1>3, <2>1, <2>2 DEF ShiftedBy
  <2> QED BY <2>3
<1>4. CASE Head(net).to # {e}
  <2>1. /\ Len(q) = Len(net)
        /\ q[1].type = net[1].type /\ q[1].src = net[1].src
        /\ q[1].status = net[1].status /\ q[1].to = net[1].to \ {e}
        /\ \A i \in 2..Len(q) : q[i] = net[i]
    BY <1>4, TakenIs
  <2>2. ASSUME NEW i \in 1..Len(q)
        PROVE  /\ i + 0 \in 1..Len(net)
               /\ q[i].type = net[i + 0].type /\ q[i].src = net[i + 0].src
               /\ q[i].status = net[i + 0].status
               /\ q[i].to = IF i + 0 = 1 THEN net[1].to \ {e} ELSE net[i + 0].to
    <3>1. i = 1 \/ i \in 2..Len(q)
      BY <1>2
    <3>2. i + 0 = i /\ i \in 1..Len(net)
      BY <2>1
    <3> QED BY <2>1, <3>1, <3>2
  <2>3. Len(q) = Len(net) - 0 /\ ~(0 = 1)
    BY <1>1, <2>1
  <2>4. ShiftedBy(q, e, 0)
    BY Zenon, <1>4, <2>2, <2>3 DEF ShiftedBy
  <2> QED BY <2>4
<1> QED BY <1>3, <1>4

LEMMA TakenInOrder ==
  ASSUME TypeOK, QueueOK(net), NEW e \in Endpoints, net # <<>>, e \in Head(net).to, NEW q, q = Taken(e)
  PROVE  QueueOK(q)
<1>1. /\ net \in Seq(Messages) /\ Len(net) \in Nat /\ Len(net) >= 1 /\ Head(net) = net[1]
  BY Heads
<1>2. q \in Seq(Messages) /\ Len(q) \in Nat
  BY TakenIs
<1>3. CASE Head(net).to = {e}
  <2>1. Len(q) = Len(net) - 1 /\ \A i \in 1..Len(q) : q[i] = net[i + 1]
    BY <1>3, TakenIs
  <2>2. \A i \in 1..Len(q) : i + 1 \in 1..Len(net) /\ i + 1 > 1
    BY <1>1, <1>2, <2>1
  <2>3. \A i, j \in 1..Len(q) : i < j => i + 1 < j + 1
    BY <1>2
  <2> QED BY <2>1, <2>2, <2>3 DEF QueueOK
<1>4. CASE Head(net).to # {e}
  <2>1. /\ Len(q) = Len(net)
        /\ q[1].type = net[1].type /\ q[1].src = net[1].src
        /\ q[1].status = net[1].status /\ q[1].to = net[1].to \ {e}
        /\ \A i \in 2..Len(q) : q[i] = net[i]
    BY <1>4, TakenIs
  <2>2. Shaped(net[1])
    BY <1>1 DEF QueueOK
  <2>3. Shared(net[1])
    <3> SUFFICES ASSUME ~Shared(net[1]) PROVE FALSE
      OBVIOUS
    <3>1. \E m \in Masters : \E s \in Slaves \ {m} : Between(net[1], m, s)
      BY <2>2 DEF Shaped
    <3> QED BY <1>1, <1>4, <3>1 DEF Between
  <2>4. Shaped(q[1]) /\ Shared(q[1])
    BY <2>1, <2>2, <2>3 DEF Shaped, Shared, SharedStart
  <2>5. ASSUME NEW j \in 2..Len(q)
        PROVE  Ordered(q[1], q[j])
    <3>1. Ordered(net[1], net[j]) /\ q[j] = net[j]
      BY <1>1, <2>1 DEF QueueOK
    <3>2. \A m, s : ~Between(q[1], m, s)
      BY <2>4 DEF Between, Shared, SharedStart, FromMaster, FromSlave, Restarts
    <3>3. Concerns(q[1]) => Concerns(net[1])
      BY <2>1 DEF Concerns
    <3>4. SharedStart(q[1]) <=> SharedStart(net[1])
      BY <2>1 DEF SharedStart
    <3> QED BY <2>1, <3>1, <3>2, <3>3, <3>4 DEF Ordered
  <2>6. ASSUME NEW i \in 1..Len(q)
        PROVE  Shaped(q[i]) /\ (i > 1 /\ Shared(q[i]) => q[i].to = Endpoints)
    <3>1. CASE i = 1
      BY <2>4, <3>1
    <3>2. CASE i # 1
      <4>1. i \in 2..Len(q) /\ i \in 1..Len(net)
        BY <2>1, <3>2
      <4> QED BY <2>1, <4>1 DEF QueueOK
    <3> QED BY <3>1, <3>2
  <2>7. ASSUME NEW i \in 1..Len(q), NEW j \in 1..Len(q), i < j
        PROVE  Ordered(q[i], q[j])
    <3>1. j \in 2..Len(q)
      BY <2>7
    <3>2. CASE i = 1
      BY <2>5, <3>1, <3>2
    <3>3. CASE i # 1
      <4>1. i \in 2..Len(q) /\ i \in 1..Len(net) /\ j \in 1..Len(net)
        BY <2>1, <3>3
      <4> QED BY <2>1, <2>7, <3>1, <4>1 DEF QueueOK
    <3> QED BY <3>2, <3>3
  <2> QED BY <2>6, <2>7 DEF QueueOK
<1> QED BY <1>3, <1>4

(* A copy that is taken is gone, and no other one. *)
LEMMA TakenCarries ==
  ASSUME TypeOK, QueueOK(net), NEW e \in Endpoints, net # <<>>, e \in Head(net).to, NEW q, q = Taken(e),
         NEW type, NEW src, NEW status, NEW d \in Devices
  PROVE  Carries(q, type, src, status, d) <=>
           OnWay(type, src, status, d) /\ ~(type = Head(net).type /\ src = Head(net).src /\ d = e)
<1>1. /\ net \in Seq(Messages) /\ Len(net) \in Nat /\ Len(net) >= 1 /\ Head(net) = net[1]
  BY Heads
<1>2. PICK k \in {0, 1} : ShiftedBy(q, e, k)
  BY <1>1, TakenFrom
<1> USE DEF ShiftedBy
<1>4. ASSUME Carries(q, type, src, status, d)
      PROVE  OnWay(type, src, status, d) /\ ~(type = Head(net).type /\ src = Head(net).src /\ d = e)
  <2>1. PICK i \in 1..Len(q) : q[i].type = type /\ q[i].src = src /\ q[i].status = status /\ d \in q[i].to
    BY <1>4 DEF Carries
  <2>2. /\ i + k \in 1..Len(net) /\ net[i + k].type = type /\ net[i + k].src = src
        /\ net[i + k].status = status /\ d \in net[i + k].to /\ (i + k = 1 => d # e)
    BY <1>2, <2>1
  <2>3. OnWay(type, src, status, d)
    BY <2>2 DEF OnWay, Carries
  <2>4. ASSUME type = net[1].type, src = net[1].src, d = e
        PROVE  FALSE
    <3>1. i + k # 1 /\ 1 < i + k /\ 1 \in 1..Len(net) /\ e \in net[1].to
      BY <1>1, <1>2, <2>2, <2>4
    <3> QED BY <2>2, <2>4, <3>1, OnlyOnce
  <2> QED BY <1>1, <2>3, <2>4
<1>5. ASSUME OnWay(type, src, status, d), ~(type = Head(net).type /\ src = Head(net).src /\ d = e)
      PROVE  Carries(q, type, src, status, d)
  <2>1. PICK j \in 1..Len(net) :
           net[j].type = type /\ net[j].src = src /\ net[j].status = status /\ d \in net[j].to
    BY <1>5 DEF OnWay, Carries
  <2>2. j - k \in 1..Len(q)
    <3>1. CASE k = 0
      BY <1>1, <1>2, <3>1
    <3>2. CASE k = 1
      <4>1. j # 1
        BY <1>1, <1>2, <1>5, <2>1, <3>2
      <4> QED BY <1>1, <1>2, <3>2, <4>1
    <3> QED BY <3>1, <3>2
  <2>3. (j - k) + k = j
    BY <1>2
  <2>4. /\ q[j - k].type = net[j].type /\ q[j - k].src = net[j].src /\ q[j - k].status = net[j].status
        /\ q[j - k].to = IF j = 1 THEN net[1].to \ {e} ELSE net[j].to
    BY <1>2, <2>2, <2>3
  <2>5. d \in q[j - k].to
    BY <1>1, <1>5, <2>1, <2>4
  <2> QED BY <2>1, <2>2, <2>4, <2>5 DEF Carries
<1> QED BY <1>4, <1>5

----------------------------------------------------------------------------
(* The inductive invariant: the bus. *)

(* A device that has not taken yet a start or stop that others may have    *)
(* taken.                                                                  *)
Behind(q, d) == q # <<>> /\ Shared(Head(q)) /\ d \in Head(q).to

(* Endpoints differ in the owner they name by the first message at most. *)
AgreeAmong(S, q, owner) ==
  /\ \A d \in S : owner[d] \in Masters \cup {None}
  /\ \A d, f \in S :
       /\ (Behind(q, d) <=> Behind(q, f)) => owner[d] = owner[f]
       /\ Behind(q, d) /\ ~Behind(q, f) => owner[f] = OwnerAfter(owner[d], Head(q))

Agree(q, owner) == AgreeAmong(Devices, q, owner)

NoStop == \A k \in Masters, d \in Devices : ~InFlight("stop", k, d)

(* Only the owner stops. *)
StopsOK == \A k \in Masters, d \in Devices : InFlight("stop", k, d) => current_master[d] = k

(* A start that will find the bus free again has not lost. *)
AfterStop(q, n) ==
  \E i, j \in 1..Len(q) :
    /\ i < j /\ q[i].type = "stop" /\ Concerns(q[i])
    /\ q[j].type = "start_request" /\ q[j].src = n

StopFirst == \A n \in Masters : AfterStop(net, n) => device[n] # "idle"

RestOK ==
  /\ \A m \in Masters : device[m] = "idle" /\ current_master[m] = m =>
       InFlight("stop", m, m) /\ state[m] \in {"wait_req_r", "wait_req_w", "wait_stop"}
  /\ \A d \in Devices : current_master[d] = None =>
       \/ state[d] = "idle"
       \/ d \in Masters /\ device[d] \in Asking /\ state[d] = "wait_remote_start_rsp"

----------------------------------------------------------------------------
(* The inductive invariant: a master. *)

(* Its start has not come back to its own endpoint. *)
Asks(m)    == InFlight("start_request", m, m)
Selects(m) == device[m] \in Asking /\ ~Asks(m)

Restarting(m, s) == \E a \in 0..255 : OnWay("start_request", m, a, s) /\ Is10bitRead(a)

Thinks(s) == state[s] \in {"wait_rsp_start_r", "wait_rsp_start_w"}
Works(s)  == Thinks(s) \/ state[s] \in {"wait_rsp_r", "wait_rsp_w"}

Serves(s, m) == s \in Slaves /\ s # m /\ current_master[s] = m
Chosen(s, m) == Serves(s, m) /\ current_slave[s] = s
Partner(m)   == Chosen(current_slave[m], m)

InList(s, m) == \E i \in 1..Len(slave_list[m]) : slave_list[m][i] = s

Receiving(m) ==
  \A i \in 1..Len(slave_list[m]) :
    /\ Chosen(slave_list[m][i], m)
    /\ \A j \in 1..Len(slave_list[m]) : slave_list[m][i] = slave_list[m][j] => i = j

AllReceive(m) == \A s \in Slaves : Chosen(s, m) => InList(s, m)

Distinct(q) == \A i, j \in 1..Len(q) : q[i] = q[j] => i = j
Has(q, x)   == \E i \in 1..Len(q) : q[i] = x

Owing(m)   == {s \in Slaves \ {m} : OwesStart(s, m)}
Writing(m) == {s \in Slaves \ {m} : OwesWrite(s, m)}

(* Where the start of a master may be, and what the master is then doing. *)
StartsOf(m) ==
  \A d \in Devices : InFlight("start_request", m, d) =>
    /\ device[m] \in Asking \cup {"idle"}
    /\ device[m] = "idle" => current_master[m] \notin {None, m}

AskedOf(m) ==
  \A d \in Devices, a \in 0..255 : OnWay("start_request", m, a, d) =>
    /\ ~Is10bitRead(a) /\ device[m] \in Asking =>
         device[m] = WaitingFor(a) /\ address_pattern[m] = Pattern(m, a)
    /\ Is10bitRead(a) =>
         device[m] = "startR" /\ Is10bitRead(address_pattern[m]) /\ ~Asks(m)

AskingOf(m) ==
  device[m] \in Asking =>
    /\ current_master[m] \in {None, m}
    /\ slave_list_counter[m] = 0
    /\ Asks(m) =>
         /\ \/ state[m] = "wait_remote_start_rsp"
            \/ state[m] = "idle" /\ current_master[m] = None
         /\ slave_list[m] = <<>> /\ current_slave[m] = None
         /\ ~Is10bitRead(address_pattern[m])
         /\ Broadcasting(m) => slave_list_ack[m] = NOACK
         /\ \A s \in Slaves \ {m} : ~InFlight("start_request", m, s) =>
              current_master[s] = m /\ (Thinks(s) \/ InFlight("start_response", s, m))
    /\ ~Asks(m) => current_master[m] = m /\ NoStop

(* The answers that are collected after a start. *)
SelectsOf(m) ==
  Selects(m) =>
    /\ pending_slaves[m] = Cardinality(Owing(m)) /\ Owing(m) # {}
    /\ Broadcasting(m) =>
         /\ current_slave[m] = None
         /\ device[m] = "startR" => Is10bitRead(address_pattern[m])
    /\ current_slave[m] = None =>
         state[m] = IF device[m] = "startR" THEN "wait_rsp_start_r" ELSE "wait_rsp_start_w"
    /\ current_slave[m] # None =>
         /\ Partner(m) /\ current_slave[m] \notin Owing(m)
         /\ state[m] = IF device[m] = "startR" THEN "wait_req_r" ELSE "wait_req_w"
    /\ Is10bitRead(address_pattern[m]) => device[m] = "startR" /\ pending_slaves[m] = 1
    /\ ~Is10bitRead(address_pattern[m]) =>
         /\ Receiving(m)
         /\ \A s \in Slaves : InList(s, m) => s \notin Owing(m)
         /\ Broadcasting(m) =>
              /\ slave_list_ack[m] = ACK => slave_list[m] # <<>>
              /\ \A s \in Slaves : Chosen(s, m) /\ s \notin Owing(m) => InList(s, m)

ListsOf(m) ==
  /\ slave_list[m] # <<>> => Broadcasting(m)
  /\ device[m] # "write" => slave_list_counter[m] = 0

(* The endpoint of a master whose next write will be accepted. *)
Accepting(m) ==
  /\ state[m] = "wait_req_w"
  /\ slave_list[m] = <<>> => Partner(m)
  /\ slave_list[m] # <<>> => Receiving(m) /\ AllReceive(m)

(* A transfer is going on. *)
Reads(m) ==
  /\ Partner(m) /\ state[m] = "wait_rsp_r"
  /\ LET s == current_slave[m]
     IN InFlight("read_request", m, s) \/ state[s] = "wait_rsp_r" \/ InFlight("read_response", s, m)

Writes(m) ==
  /\ Partner(m) /\ state[m] = "wait_rsp_w"
  /\ ~Broadcasting(m) /\ slave_list_counter[m] = 0
  /\ OwesWrite(current_slave[m], m)

WritesToAll(m) ==
  /\ Receiving(m)
  /\ state[m] = IF Is10bit(address_pattern[m]) THEN "wait_rsp_10bit_addr_w" ELSE "wait_rsp_w"
  /\ slave_list_counter[m] = Cardinality(Writing(m)) /\ Writing(m) # {}
  /\ ~Is10bit(address_pattern[m]) => AllReceive(m)
  /\ slave_list_ack[m] = ACK /\ Is10bit(address_pattern[m]) =>
       \E s \in Slaves : InList(s, m) /\ s \notin Writing(m)

TransferOf(m) ==
  device[m] \in InTransfer =>
    /\ NoStop
    /\ \A d \in Devices : current_master[d] = m
    /\ device[m] = "r" => state[m] = "wait_req_r" /\ Partner(m)
    /\ device[m] = "w" => Accepting(m)
    /\ device[m] = "nack" => state[m] = "wait_stop" \/ Accepting(m)
    /\ device[m] = "read" => Reads(m)
    /\ device[m] = "write" => IF slave_list[m] = <<>> THEN Writes(m) ELSE WritesToAll(m)

(* Late slaves that have announced an answer still owe it. *)
LateAnswer(s, m) ==
  /\ device[m] \in Asking /\ current_master[s] = m
  /\ Thinks(s) \/ InFlight("start_response", s, m)
  /\ ~InFlight("start_response_pending", s, m)

LateOf(m) ==
  /\ Distinct(pending_start_responses[m])
  /\ \A i \in 1..Len(pending_start_responses[m]) : pending_start_responses[m][i] \in Slaves \ {m}
  /\ \A s \in Slaves \ {m} : Has(pending_start_responses[m], s) => LateAnswer(s, m)

MasterOK(m) ==
  /\ StartsOf(m) /\ AskedOf(m) /\ AskingOf(m) /\ SelectsOf(m)
  /\ ListsOf(m) /\ TransferOf(m) /\ LateOf(m)

----------------------------------------------------------------------------
(* The inductive invariant: a slave, and a master and a slave. *)

Written(m, s) == IF slave_list[m] = <<>> THEN s = current_slave[m] ELSE InList(s, m)

PrivateOf(m, s) ==
  /\ InFlight("start_response", s, m) \/ InFlight("start_response_pending", s, m) =>
       current_master[s] = m /\ NoStop /\ device[m] \in Asking
  /\ InFlight("start_response_pending", s, m) => Thinks(s) \/ InFlight("start_response", s, m)
  /\ InFlight("read_request", m, s) \/ InFlight("read_response", s, m) =>
       device[m] = "read" /\ s = current_slave[m]
  /\ InFlight("write_request", m, s) \/ InFlight("write_response", s, m) =>
       device[m] = "write" /\ Written(m, s)
  /\ \A ack \in 0..255 : OnWay("start_response", s, ack, m) =>
       ack \in {ACK, NOACK} /\ current_slave[s] = (IF ack = ACK THEN s ELSE None)

WorkOf(s) ==
  current_master[s] # s /\ Works(s) =>
    LET m == current_master[s]
    IN /\ m \in Masters /\ NoStop
       /\ ~InFlight("start_request", m, s) /\ ~InFlight("start_response", s, m)
       /\ ~InFlight("read_request", m, s) /\ ~InFlight("read_response", s, m)
       /\ ~InFlight("write_request", m, s) /\ ~InFlight("write_response", s, m)
       /\ Thinks(s) => device[m] \in Asking /\ current_slave[s] = None
       /\ state[s] = "wait_rsp_r" => device[m] = "read" /\ s = current_slave[m]
       /\ state[s] = "wait_rsp_w" => device[m] = "write" /\ Written(m, s)

ProtocolInv ==
  /\ TypeOK /\ QueueOK(net) /\ Agree(net, current_master)
  /\ StopsOK /\ StopFirst /\ RestOK
  /\ \A m \in Masters : MasterOK(m)
  /\ \A m \in Masters : \A s \in Slaves \ {m} : PrivateOf(m, s)
  /\ \A s \in Slaves : WorkOf(s)
----------------------------------------------------------------------------
(* What happens to the queue in a step. *)

(* Nothing is on its way between s and the masters, except for an          *)
(* announcement, and no start of m to s.                                   *)
Clear(q, m, s) ==
  /\ \A a : ~Carries(q, "start_request", m, a, s)
  /\ \A n \in Masters \ {s} : \A a :
       /\ Is10bitRead(a) => ~Carries(q, "start_request", n, a, s)
       /\ ~Carries(q, "read_request", n, a, s) /\ ~Carries(q, "write_request", n, a, s)
       /\ ~Carries(q, "start_response", s, a, n)
       /\ ~Carries(q, "read_response", s, a, n) /\ ~Carries(q, "write_response", s, a, n)

Unannounced(q, s) == \A n \in Masters \ {s} : \A a : ~Carries(q, "start_response_pending", s, a, n)

LEMMA ClearBetween ==
  ASSUME NEW q, QueueOK(q), NEW m \in Masters, NEW s \in Slaves, Clear(q, m, s),
         NEW i \in 1..Len(q), NEW n \in Masters, Between(q[i], n, s)
  PROVE  q[i].type = "start_response_pending" /\ ~Unannounced(q, s)
<1>1. Shaped(q[i]) /\ ~Shared(q[i])
  BY DEF QueueOK, Between, FromMaster, FromSlave, Restarts, Shared, SharedStart
<1>2. PICK k \in Masters, t \in Slaves : k # t /\ Between(q[i], k, t)
  BY <1>1 DEF Shaped
<1>3. n # s
  BY <1>2 DEF Between, FromMaster, FromSlave, Restarts
<1>4. CASE FromMaster(q[i])
  <2>1. Carries(q, q[i].type, n, q[i].status, s)
    BY <1>4 DEF Between, Carries, FromMaster, FromSlave, Restarts
  <2> QED BY <1>3, <1>4, <2>1 DEF Clear, FromMaster, Restarts
<1>5. CASE FromSlave(q[i])
  <2>1. Carries(q, q[i].type, s, q[i].status, n)
    BY <1>5 DEF Between, Carries, FromMaster, FromSlave, Restarts
  <2> QED BY <1>3, <1>5, <2>1 DEF Clear, Unannounced, FromSlave
<1> QED BY <1>4, <1>5 DEF Between

(* A request or an answer on a clear way. *)
LEMMA PrivateSent ==
  ASSUME NEW q \in Seq(Messages), QueueOK(q), NEW msg \in Messages,
         NEW m \in Masters, NEW s \in Slaves \ {m}, Between(msg, m, s),
         msg.type \in {"start_response", "write_response"} => msg.status \in {ACK, NOACK},
         Clear(q, m, s), msg.type = "start_response" \/ Unannounced(q, s)
  PROVE  QueueOK(Append(q, msg))
<1>1. ~Shared(msg) /\ Shaped(msg)
  BY DEF Between, FromMaster, FromSlave, Restarts, Shared, SharedStart, Shaped
<1>2. ASSUME NEW i \in 1..Len(q)
      PROVE  Ordered(q[i], msg)
  <2>1. msg.type # "stop" /\ ~SharedStart(msg)
    BY <1>1 DEF Shared
  <2>2. ASSUME SharedStart(q[i]), NEW t \in Slaves, Between(msg, q[i].src, t)
        PROVE  t \notin q[i].to
    <3>1. t = s /\ q[i].src = m
      BY <2>2 DEF Between, FromMaster, FromSlave, Restarts
    <3>2. t \in q[i].to => Carries(q, "start_request", m, q[i].status, s)
      BY <2>2, <3>1 DEF Carries, SharedStart
    <3> QED BY <3>2 DEF Clear
  <2>3. ASSUME NEW k \in Masters, NEW t \in Slaves, Between(q[i], k, t), NEW n \in Masters, Between(msg, n, t)
        PROVE  q[i].type = "start_response_pending" /\ msg.type = "start_response"
    <3>1. t = s
      BY <2>3 DEF Between, FromMaster, FromSlave, Restarts
    <3> QED BY <2>3, <3>1, ClearBetween
  <2> QED BY <1>1, <2>1, <2>2, <2>3 DEF Ordered, Shared
<1> QED BY <1>1, <1>2, SentInOrder

(* A start of a master of which there is nothing on its way. *)
LEMMA StartSent ==
  ASSUME NEW q \in Seq(Messages), QueueOK(q), NEW msg \in Messages, SharedStart(msg),
         NEW m \in Masters, msg.src = m, msg.to = Endpoints,
         \A d \in Devices : \A a : ~Carries(q, "start_request", m, a, d),
         \A s \in Slaves \ {m}, i \in 1..Len(q) : ~Between(q[i], m, s)
  PROVE  QueueOK(Append(q, msg))
<1>1. Shared(msg) /\ Shaped(msg)
  BY DEF SharedStart, Shared, Shaped
<1>2. ASSUME NEW i \in 1..Len(q)
      PROVE  Ordered(q[i], msg)
  <2>1. SharedStart(q[i]) /\ Concerns(q[i]) => q[i].src # m
    BY DEF SharedStart, Concerns, Carries
  <2>2. \A k, t : ~Between(msg, k, t)
    BY DEF SharedStart, Between, FromMaster, FromSlave, Restarts
  <2>3. ASSUME NEW t \in Slaves, Between(q[i], m, t)
        PROVE  FALSE
    <3>1. PICK k \in Masters, u \in Slaves : k # u /\ Between(q[i], k, u)
      BY <2>3 DEF QueueOK, Shaped, Between, FromMaster, FromSlave, Restarts, Shared, SharedStart
    <3>2. t # m
      BY <2>3, <3>1 DEF Between, FromMaster, FromSlave, Restarts
    <3> QED BY <2>3, <3>2
  <2>4. msg.type # "stop"
    BY DEF SharedStart
  <2> QED BY <2>1, <2>2, <2>3, <2>4 DEF Ordered
<1> QED BY <1>1, <1>2, SentInOrder

LEMMA StopSent ==
  ASSUME NEW q \in Seq(Messages), QueueOK(q), NEW msg \in Messages, msg.type = "stop",
         NEW m \in Masters, msg.src = m, msg.to = Endpoints,
         \A k \in Masters, d \in Devices : \A a : ~Carries(q, "stop", k, a, d),
         \A d \in Devices : \A a : ~Carries(q, "start_request", m, a, d)
  PROVE  QueueOK(Append(q, msg))
<1>1. Shared(msg) /\ Shaped(msg)
  BY DEF Shared, Shaped
<1>2. ASSUME NEW i \in 1..Len(q)
      PROVE  Ordered(q[i], msg)
  <2>1. SharedStart(q[i]) /\ Concerns(q[i]) => q[i].src # m
    BY DEF SharedStart, Concerns, Carries
  <2>2. (\A k, t : ~Between(msg, k, t)) /\ ~SharedStart(msg)
    BY DEF SharedStart, Between, FromMaster, FromSlave, Restarts
  <2>3. q[i].type = "stop" => q[i].src \in Masters
    BY DEF QueueOK, Shaped, Shared
  <2>4. ~(q[i].type = "stop" /\ Concerns(q[i]))
    BY <2>3 DEF Concerns, Carries
  <2> QED BY <2>1, <2>2, <2>4 DEF Ordered
<1> QED BY <1>1, <1>2, SentInOrder

(* The order of stops and starts. *)
LEMMA AfterStopSent ==
  ASSUME NEW q \in Seq(Messages), NEW msg \in Messages, NEW n, AfterStop(Append(q, msg), n)
  PROVE  AfterStop(q, n) \/ (msg.type = "start_request" /\ msg.src = n)
<1> DEFINE r == Append(q, msg)
<1>1. /\ Len(r) = Len(q) + 1 /\ r[Len(r)] = msg /\ Len(q) \in Nat
      /\ \A i \in 1..Len(q) : r[i] = q[i]
  BY Sent
<1> HIDE DEF r
<1>2. PICK i \in 1..Len(r), j \in 1..Len(r) :
        /\ i < j /\ r[i].type = "stop" /\ Concerns(r[i])
        /\ r[j].type = "start_request" /\ r[j].src = n
  BY DEF AfterStop, r
<1>3. i \in 1..Len(q) /\ r[i] = q[i]
  BY <1>1, <1>2
<1>4. CASE j = Len(r)
  BY <1>1, <1>2, <1>4
<1>5. CASE j # Len(r)
  <2>1. j \in 1..Len(q) /\ r[j] = q[j]
    BY <1>1, <1>5
  <2> QED BY <1>2, <1>3, <2>1 DEF AfterStop
<1> QED BY <1>4, <1>5

LEMMA AfterStopTaken ==
  ASSUME TypeOK, NEW e \in Endpoints, net # <<>>, e \in Head(net).to, NEW q, q = Taken(e),
         NEW n, AfterStop(q, n)
  PROVE  AfterStop(net, n)
<1>1. PICK k \in {0, 1} : ShiftedBy(q, e, k)
  BY TakenFrom
<1>2. PICK i \in 1..Len(q), j \in 1..Len(q) :
        /\ i < j /\ q[i].type = "stop" /\ Concerns(q[i])
        /\ q[j].type = "start_request" /\ q[j].src = n
  BY DEF AfterStop
<1>3. /\ i + k \in 1..Len(net) /\ j + k \in 1..Len(net) /\ i + k < j + k
      /\ net[i + k].type = "stop" /\ net[j + k].type = "start_request" /\ net[j + k].src = n
  BY <1>1, <1>2 DEF ShiftedBy
<1>4. Concerns(net[i + k])
  <2>1. q[i].to \subseteq net[i + k].to
    BY <1>1, <1>2 DEF ShiftedBy
  <2> QED BY <1>2, <2>1 DEF Concerns
<1> QED BY <1>3, <1>4 DEF AfterStop

----------------------------------------------------------------------------
(* What happens to the agreement of the devices in a step. *)

LEMMA AgreeAmongSent ==
  ASSUME NEW S \in SUBSET Endpoints, NEW q \in Seq(Messages), NEW msg \in Messages, Shared(msg) => msg.to = Endpoints,
         NEW owner, AgreeAmong(S, q, owner)
  PROVE  AgreeAmong(S, Append(q, msg), owner)
<1> DEFINE r == Append(q, msg)
<1>1. r # <<>> /\ Head(r) = IF q = <<>> THEN msg ELSE Head(q)
  <2>1. /\ r \in Seq(Messages) /\ Len(r) = Len(q) + 1 /\ r[Len(r)] = msg /\ Len(q) \in Nat
        /\ \A i \in 1..Len(q) : r[i] = q[i]
    BY Sent
  <2> HIDE DEF r
  <2>2. r # <<>> /\ Head(r) = r[1]
    BY <2>1, HeadTailProperties, EmptySeq
  <2>3. CASE q = <<>>
    BY <2>1, <2>2, <2>3
  <2>4. CASE q # <<>>
    BY <2>1, <2>2, <2>4, HeadTailProperties, EmptySeq
  <2> QED BY <2>3, <2>4
<1> HIDE DEF r
<1>2. CASE q = <<>>
  <2>1. \A d, f \in S : Behind(r, d) <=> Behind(r, f)
    BY <1>1, <1>2 DEF Behind
  <2>2. \A d, f \in S : owner[d] = owner[f]
    BY <1>2 DEF AgreeAmong, Behind
  <2>3. AgreeAmong(S, r, owner)
    BY <2>1, <2>2 DEF AgreeAmong
  <2> QED BY <2>3 DEF r
<1>3. CASE q # <<>>
  <2>1. \A d : Behind(r, d) <=> Behind(q, d)
    BY <1>1, <1>3 DEF Behind
  <2>2. AgreeAmong(S, r, owner)
    BY <1>1, <1>3, <2>1 DEF AgreeAmong
  <2> QED BY <2>2 DEF r
<1> QED BY <1>2, <1>3

LEMMA AgreeAmongTaken ==
  ASSUME NEW S \in SUBSET Endpoints, TypeOK, QueueOK(net), AgreeAmong(S, net, current_master), NEW e \in Endpoints,
         net # <<>>, e \in Head(net).to, NEW q, q = Taken(e),
         NEW owner, \A d \in S \ {e} : owner[d] = current_master[d],
         e \in S => owner[e] = IF Shared(Head(net)) THEN OwnerAfter(current_master[e], Head(net))
                                     ELSE current_master[e]
  PROVE  AgreeAmong(S, q, owner)
<1>1. /\ net \in Seq(Messages) /\ Len(net) \in Nat /\ Len(net) >= 1 /\ Head(net) = net[1]
      /\ Shaped(net[1])
  BY Heads DEF QueueOK
<1>2. q \in Seq(Messages) /\ Len(q) \in Nat
  BY TakenIs
<1>3. \A d \in S : owner[d] \in Masters \cup {None}
  <2>1. Shared(Head(net)) => Head(net).src \in Masters
    BY <1>1 DEF Shaped
  <2> QED BY <2>1 DEF AgreeAmong, OwnerAfter
<1>4. CASE Head(net).to = {e}
  <2>1. Len(q) = Len(net) - 1 /\ \A i \in 1..Len(q) : q[i] = net[i + 1]
    BY <1>4, TakenIs
  <2>2. \A d, f \in S : owner[d] = owner[f]
    <3>1. \A d \in S : Behind(net, d) => d = e
      BY <1>4 DEF Behind
    <3>2. \A d, f \in S \ {e} : owner[d] = owner[f]
      BY <3>1 DEF AgreeAmong
    <3>3. \A d \in S \ {e} : e \in S => owner[d] = owner[e]
      <4>1. CASE Shared(Head(net))
        BY <3>1, <4>1 DEF AgreeAmong, Behind
      <4>2. CASE ~Shared(Head(net))
        BY <3>1, <4>2 DEF AgreeAmong, Behind
      <4> QED BY <4>1, <4>2
    <3> QED BY <3>2, <3>3
  <2>3. \A d, f \in S : Behind(q, d) <=> Behind(q, f)
    <3>1. CASE q = <<>>
      BY <3>1 DEF Behind
    <3>2. CASE q # <<>>
      <4>1. Head(q) = q[1] /\ Len(q) >= 1
        BY <1>2, <3>2, HeadTailProperties, EmptySeq
      <4>2. Head(q) = net[2] /\ 2 \in 1..Len(net) /\ 2 > 1
        BY <1>1, <2>1, <4>1
      <4>3. Shared(Head(q)) => Head(q).to = Endpoints
        BY <4>2 DEF QueueOK
      <4> QED BY <4>3 DEF Behind
    <3> QED BY <3>1, <3>2
  <2> QED BY <1>3, <2>2, <2>3 DEF AgreeAmong
<1>5. CASE Head(net).to # {e}
  <2>1. /\ Len(q) = Len(net)
        /\ q[1].type = net[1].type /\ q[1].src = net[1].src
        /\ q[1].status = net[1].status /\ q[1].to = net[1].to \ {e}
    BY <1>5, TakenIs
  <2>2. q # <<>> /\ Head(q) = q[1]
    BY <1>1, <1>2, <2>1, HeadTailProperties, EmptySeq
  <2>3. Shared(net[1])
    BY <1>1, <1>5 DEF Shaped, Between
  <2>4. Shared(Head(q)) /\ \A o : OwnerAfter(o, Head(q)) = OwnerAfter(o, Head(net))
    BY <1>1, <2>1, <2>2, <2>3 DEF Shared, SharedStart, OwnerAfter
  <2>5. \A d \in S : Behind(q, d) <=> Behind(net, d) /\ d # e
    BY <1>1, <2>1, <2>2, <2>3, <2>4 DEF Behind
  <2>6. e \in S => Behind(net, e) /\ owner[e] = OwnerAfter(current_master[e], Head(net))
    BY <1>1, <2>3 DEF Behind
  <2>7. ASSUME NEW d \in S, NEW f \in S
        PROVE  /\ (Behind(q, d) <=> Behind(q, f)) => owner[d] = owner[f]
               /\ Behind(q, d) /\ ~Behind(q, f) => owner[f] = OwnerAfter(owner[d], Head(q))
    <3>1. CASE d # e /\ f # e
      BY <2>4, <2>5, <3>1 DEF AgreeAmong
    <3>2. CASE d = e /\ f = e
      BY <3>2
    <3>3. CASE d = e /\ f # e
      BY <2>4, <2>5, <2>6, <3>3 DEF AgreeAmong
    <3>4. CASE d # e /\ f = e
      BY <2>4, <2>5, <2>6, <3>4 DEF AgreeAmong
    <3> QED BY <3>1, <3>2, <3>3, <3>4
  <2> QED BY <1>3, <2>7 DEF AgreeAmong
<1> QED BY <1>4, <1>5

LEMMA AgreeSent ==
  ASSUME NEW q \in Seq(Messages), NEW msg \in Messages, Shared(msg) => msg.to = Endpoints,
         NEW owner, Agree(q, owner)
  PROVE  Agree(Append(q, msg), owner)
BY AgreeAmongSent, DevicesAreEndpoints DEF Agree

LEMMA AgreeTaken ==
  ASSUME TypeOK, QueueOK(net), Agree(net, current_master), NEW e \in Endpoints,
         net # <<>>, e \in Head(net).to, NEW q, q = Taken(e),
         NEW owner, \A d \in Devices \ {e} : owner[d] = current_master[d],
         e \in Devices => owner[e] = IF Shared(Head(net)) THEN OwnerAfter(current_master[e], Head(net))
                                     ELSE current_master[e]
  PROVE  Agree(q, owner)
BY AgreeAmongTaken, DevicesAreEndpoints DEF Agree
----------------------------------------------------------------------------
(* The same for the messages in flight, by their type and ends. *)

LEMMA InFlightOnWayNext ==
  ASSUME TypeOK'
  PROVE  \A type, src, dst : InFlight(type, src, dst)' <=> \E status : OnWay(type, src, status, dst)'
BY LenProperties DEF TypeOK, InFlight, OnWay, Carries

LEMMA OnWayIsTyped ==
  ASSUME TypeOK, NEW type, NEW src, NEW status, NEW dst, OnWay(type, src, status, dst)
  PROVE  type \in MessageTypes /\ src \in Endpoints /\ status \in 0..255
<1>1. PICK i \in 1..Len(net) : net[i].type = type /\ net[i].src = src /\ net[i].status = status
  BY DEF OnWay, Carries
<1>2. net[i] \in Messages
  BY ElementOfSeq DEF TypeOK
<1> QED BY <1>1, <1>2 DEF Messages

(* Endpoint e takes its copy of a message of type T from X. *)
LEMMA Delivered ==
  ASSUME TypeOK, TypeOK', QueueOK(net), NEW e \in Endpoints, NEW T, NEW X, Receives(e, T),
         X = Head(net).src, net' = Taken(e)
  PROVE  /\ QueueOK(net)'
         /\ \A d \in Devices : \A type, src, status :
              OnWay(type, src, status, d)' <=>
                OnWay(type, src, status, d) /\ ~(type = T /\ src = X /\ d = e)
         /\ \A d \in Devices : \A type, src :
              InFlight(type, src, d)' <=> InFlight(type, src, d) /\ ~(type = T /\ src = X /\ d = e)
         /\ \A d \in Devices : \A m :
              Restarting(m, d)' <=> Restarting(m, d) /\ ~("start_request" = T /\ m = X /\ d = e)
         /\ \A n : AfterStop(net, n)' => AfterStop(net, n)
<1>1. net # <<>> /\ e \in Head(net).to /\ T = Head(net).type
  BY DEF Receives
<1>2. QueueOK(net)'
  <2>1. QueueOK(net')
    BY <1>1, TakenInOrder
  <2> QED BY <2>1 DEF QueueOK, Shaped, Shared, SharedStart, Ordered, Between, FromMaster, FromSlave,
                      Restarts, Concerns, Is10bitRead, Devices
<1>3. ASSUME NEW d \in Devices, NEW type, NEW src, NEW status
      PROVE  OnWay(type, src, status, d)' <=>
               OnWay(type, src, status, d) /\ ~(type = T /\ src = X /\ d = e)
  <2>1. Carries(net', type, src, status, d) <=>
          OnWay(type, src, status, d) /\ ~(type = T /\ src = X /\ d = e)
    BY <1>1, TakenCarries
  <2> QED BY <2>1 DEF OnWay, Carries
<1>4. ASSUME NEW d \in Devices, NEW type, NEW src
      PROVE  InFlight(type, src, d)' <=> InFlight(type, src, d) /\ ~(type = T /\ src = X /\ d = e)
  BY <1>3, InFlightOnWay, InFlightOnWayNext
<1>5. ASSUME NEW d \in Devices, NEW m
      PROVE  Restarting(m, d)' <=> Restarting(m, d) /\ ~("start_request" = T /\ m = X /\ d = e)
  BY <1>3 DEF Restarting, Is10bitRead
<1>6. ASSUME NEW n, AfterStop(net, n)'
      PROVE  AfterStop(net, n)
  <2>1. AfterStop(net', n)
    BY <1>6 DEF AfterStop, Concerns, Devices
  <2> QED BY <1>1, <2>1, AfterStopTaken
<1> QED BY <1>2, <1>3, <1>4, <1>5, <1>6

(* A message is sent. *)
LEMMA Appended ==
  ASSUME TypeOK, TypeOK', NEW q \in Seq(Messages), NEW msg \in Messages, net' = Append(q, msg)
  PROVE  /\ \A type, src, status, d : OnWay(type, src, status, d)' <=>
              \/ Carries(q, type, src, status, d)
              \/ type = msg.type /\ src = msg.src /\ status = msg.status /\ d \in msg.to
         /\ \A n : AfterStop(net, n)' => AfterStop(q, n) \/ (msg.type = "start_request" /\ msg.src = n)
         /\ QueueOK(Append(q, msg)) => QueueOK(net)'
<1>1. QueueOK(Append(q, msg)) => QueueOK(net)'
  <2>1. QueueOK(Append(q, msg)) => QueueOK(net')
    OBVIOUS
  <2> QED BY <2>1 DEF QueueOK, Shaped, Shared, SharedStart, Ordered, Between, FromMaster, FromSlave,
                      Restarts, Concerns, Is10bitRead, Devices
<1>4. PICK r : r = Append(q, msg)
  OBVIOUS
<1>5. \A type, src, status, d : Carries(r, type, src, status, d) <=>
              \/ Carries(q, type, src, status, d)
              \/ type = msg.type /\ src = msg.src /\ status = msg.status /\ d \in msg.to
  BY <1>4, Sent
<1>2. ASSUME NEW type, NEW src, NEW status, NEW d
      PROVE  OnWay(type, src, status, d)' <=>
              \/ Carries(q, type, src, status, d)
              \/ type = msg.type /\ src = msg.src /\ status = msg.status /\ d \in msg.to
  <2>1. OnWay(type, src, status, d)' <=> Carries(r, type, src, status, d)
    BY <1>4 DEF OnWay, Carries
  <2> QED BY <1>5, <2>1
<1>3. ASSUME NEW n, AfterStop(net, n)'
      PROVE  AfterStop(q, n) \/ (msg.type = "start_request" /\ msg.src = n)
  <2>1. AfterStop(Append(q, msg), n)
    BY <1>3 DEF AfterStop, Concerns, Devices
  <2> QED BY <2>1, AfterStopSent
<1> QED BY <1>1, <1>2, <1>3

LEMMA SentFacts ==
  ASSUME TypeOK, TypeOK', NEW msg \in Messages, net' = Append(net, msg)
  PROVE  /\ \A d : \A type, src, status : OnWay(type, src, status, d)' <=>
              \/ OnWay(type, src, status, d)
              \/ type = msg.type /\ src = msg.src /\ status = msg.status /\ d \in msg.to
         /\ \A d : \A type, src : InFlight(type, src, d)' <=>
              InFlight(type, src, d) \/ (type = msg.type /\ src = msg.src /\ d \in msg.to)
         /\ \A d : \A m : Restarting(m, d)' <=>
              Restarting(m, d) \/ (Restarts(msg) /\ m = msg.src /\ d \in msg.to)
         /\ \A n : AfterStop(net, n)' => AfterStop(net, n) \/ (msg.type = "start_request" /\ msg.src = n)
         /\ QueueOK(Append(net, msg)) => QueueOK(net)'
<1>1. net \in Seq(Messages) /\ msg.status \in 0..255
  BY DEF TypeOK, Messages
<1>2. \A type, src, status, d : OnWay(type, src, status, d)' <=>
              \/ OnWay(type, src, status, d)
              \/ type = msg.type /\ src = msg.src /\ status = msg.status /\ d \in msg.to
  BY <1>1, Appended DEF OnWay
<1>3. \A type, src, d : InFlight(type, src, d)' <=>
              InFlight(type, src, d) \/ (type = msg.type /\ src = msg.src /\ d \in msg.to)
  BY <1>2, InFlightOnWay, InFlightOnWayNext
<1>4. \A m, d : Restarting(m, d)' <=>
              Restarting(m, d) \/ (Restarts(msg) /\ m = msg.src /\ d \in msg.to)
  BY <1>1, <1>2 DEF Restarting, Restarts, Is10bitRead
<1> QED BY <1>1, <1>2, <1>3, <1>4, Appended

(* Endpoint e takes its copy of a message and answers. *)
LEMMA RepliedFacts ==
  ASSUME TypeOK, TypeOK', QueueOK(net), NEW e \in Endpoints, NEW T, NEW X, Receives(e, T),
         X = Head(net).src, NEW msg \in Messages, ~Restarts(msg), net' = Append(Taken(e), msg)
  PROVE  /\ \A d \in Devices : \A type, src, status : OnWay(type, src, status, d)' <=>
              \/ OnWay(type, src, status, d) /\ ~(type = T /\ src = X /\ d = e)
              \/ type = msg.type /\ src = msg.src /\ status = msg.status /\ d \in msg.to
         /\ \A d \in Devices : \A type, src : InFlight(type, src, d)' <=>
              \/ InFlight(type, src, d) /\ ~(type = T /\ src = X /\ d = e)
              \/ type = msg.type /\ src = msg.src /\ d \in msg.to
         /\ \A d \in Devices : \A m :
              Restarting(m, d)' <=> Restarting(m, d) /\ ~("start_request" = T /\ m = X /\ d = e)
         /\ \A n : AfterStop(net, n)' => AfterStop(net, n) \/ (msg.type = "start_request" /\ msg.src = n)
         /\ QueueOK(Append(Taken(e), msg)) => QueueOK(net)'
<1>1. PICK q : q = Taken(e)
  OBVIOUS
<1>2. net # <<>> /\ e \in Head(net).to /\ T = Head(net).type
  BY DEF Receives
<1>3. q \in Seq(Messages) /\ net' = Append(q, msg) /\ msg.status \in 0..255
  BY <1>1, ReceivedType DEF Messages
<1>4. \A d \in Devices : \A type, src, status : Carries(q, type, src, status, d) <=>
         OnWay(type, src, status, d) /\ ~(type = T /\ src = X /\ d = e)
  BY <1>1, <1>2, TakenCarries
<1>5. \A n : AfterStop(q, n) => AfterStop(net, n)
  BY <1>1, <1>2, AfterStopTaken
<1>6. \A d \in Devices : \A type, src, status : OnWay(type, src, status, d)' <=>
              \/ OnWay(type, src, status, d) /\ ~(type = T /\ src = X /\ d = e)
              \/ type = msg.type /\ src = msg.src /\ status = msg.status /\ d \in msg.to
  BY <1>3, <1>4, Appended
<1>7. \A d \in Devices : \A type, src : InFlight(type, src, d)' <=>
              \/ InFlight(type, src, d) /\ ~(type = T /\ src = X /\ d = e)
              \/ type = msg.type /\ src = msg.src /\ d \in msg.to
  BY <1>6, InFlightOnWay, InFlightOnWayNext
<1>8. \A d \in Devices : \A m :
              Restarting(m, d)' <=> Restarting(m, d) /\ ~("start_request" = T /\ m = X /\ d = e)
  BY <1>3, <1>6 DEF Restarting, Restarts, Is10bitRead
<1> QED BY <1>1, <1>3, <1>5, <1>6, <1>7, <1>8, Appended
----------------------------------------------------------------------------
(* One master leads: the others are at rest or ask for the bus and lose.   *)

Lead(m) == NoStop /\ \A d \in Devices : current_master[d] \in {None, m}

(* No request and no answer is on its way between n and s. *)
Quiet(n, s) ==
  /\ ~Restarting(n, s) /\ ~InFlight("read_request", n, s) /\ ~InFlight("write_request", n, s)
  /\ ~InFlight("start_response", s, n) /\ ~InFlight("start_response_pending", s, n)
  /\ ~InFlight("read_response", s, n) /\ ~InFlight("write_response", s, n)

Idle(n) ==
  /\ device[n] \notin InTransfer /\ ~Selects(n)
  /\ Len(pending_start_responses[n]) = 0
  /\ \A s \in Slaves \ {n} : Quiet(n, s)
  /\ device[n] \in Asking => \A s \in Slaves \ {n} : InFlight("start_request", n, s)

LEMMA NoneIsNoMaster == None \notin Masters /\ None \notin Slaves /\ None \notin Devices
BY EndpointsAssumption DEF Devices

LEMMA DeviceCases ==
  ASSUME TypeOK, NEW m \in Masters
  PROVE  device[m] = "idle" \/ device[m] \in Asking \/ device[m] \in InTransfer
BY DevicesAreEndpoints DEF TypeOK, DeviceStates, Asking, InTransfer

LEMMA OthersIdle ==
  ASSUME ProtocolInv, NEW m \in Masters, Lead(m), NEW n \in Masters \ {m}
  PROVE  Idle(n)
<1>1. n \in Devices /\ current_master[n] # n /\ MasterOK(n)
  BY NoneIsNoMaster DEF Devices, Lead, ProtocolInv
<1>2. device[n] \notin InTransfer /\ ~Selects(n)
  BY <1>1 DEF MasterOK, TransferOf, AskingOf, Selects
<1>3. ASSUME NEW s \in Slaves \ {n}
      PROVE  /\ current_master[s] # n /\ PrivateOf(n, s)
             /\ ~InFlight("start_response", s, n) /\ Quiet(n, s)
  <2>1. current_master[s] # n /\ PrivateOf(n, s)
    BY NoneIsNoMaster DEF Devices, Lead, ProtocolInv
  <2>2. ~Restarting(n, s)
    BY <1>1, <1>2 DEF MasterOK, AskedOf, Restarting, Selects, Asking, Devices
  <2> QED BY <1>2, <2>1, <2>2 DEF PrivateOf, Quiet, InTransfer
<1>4. \A i \in 1..Len(pending_start_responses[n]) : FALSE
  BY <1>1, <1>3 DEF MasterOK, LateOf, LateAnswer, Distinct, Has
<1>5. Len(pending_start_responses[n]) = 0
  <2>1. Len(pending_start_responses[n]) \in Nat
    BY DevicesAreEndpoints, LenProperties DEF ProtocolInv, TypeOK
  <2> QED BY <1>4, <2>1
<1>6. device[n] \in Asking => \A s \in Slaves \ {n} : InFlight("start_request", n, s)
  BY <1>1, <1>2, <1>3 DEF MasterOK, AskingOf, Selects
<1> QED BY <1>2, <1>3, <1>5, <1>6 DEF Idle

(* A step of the leader, of a slave that it asked, or of an endpoint that  *)
(* takes its messages leaves the other masters alone, except that the last *)
(* one may make them lose.                                                 *)
OthersFly(m) ==
  \A n \in Masters \ {m} :
    /\ \A d \in Devices : InFlight("start_request", n, d)' <=> InFlight("start_request", n, d)
    /\ \A d \in Devices, a \in 0..255 :
         OnWay("start_request", n, a, d)' => OnWay("start_request", n, a, d)
    /\ \A s \in Slaves \ {n} : Quiet(n, s)'

OthersKept(m) ==
  /\ \A n \in Masters \ {m} :
       /\ slave_list'[n] = slave_list[n] /\ slave_list_counter'[n] = slave_list_counter[n]
       /\ slave_list_ack'[n] = slave_list_ack[n] /\ address_pattern'[n] = address_pattern[n]
       /\ pending_start_responses'[n] = pending_start_responses[n]
       /\ \/ current_master'[n] = m /\ device'[n] = "idle"
          \/ /\ device'[n] = device[n] /\ state'[n] = state[n]
             /\ current_master'[n] = current_master[n] /\ current_slave'[n] = current_slave[n]
  /\ \A d \in Devices : current_master'[d] = None =>
       /\ current_master[d] = None /\ state'[d] = state[d]
       /\ d \in Masters => device'[d] = device[d]

OthersAsBefore(m) == OthersFly(m) /\ OthersKept(m)

LEMMA OtherMasters ==
  ASSUME ProtocolInv, TypeOK', NEW m \in Masters, Lead(m), Lead(m)', OthersAsBefore(m),
         NEW n \in Masters \ {m}
  PROVE  /\ StartsOf(n)' /\ AskedOf(n)' /\ AskingOf(n)' /\ SelectsOf(n)'
         /\ ListsOf(n)' /\ TransferOf(n)' /\ LateOf(n)'
         /\ \A s \in Slaves \ {n} : PrivateOf(n, s)'
<1>1. /\ Idle(n) /\ n \in Devices /\ current_master[n] # n /\ MasterOK(n) /\ m # None /\ m # n
      /\ None \notin Masters
  BY OthersIdle, NoneIsNoMaster DEF Devices, Lead, ProtocolInv
<1>2. /\ slave_list'[n] = slave_list[n] /\ slave_list_counter'[n] = slave_list_counter[n]
      /\ slave_list_ack'[n] = slave_list_ack[n] /\ address_pattern'[n] = address_pattern[n]
      /\ pending_start_responses'[n] = pending_start_responses[n]
  BY DEF OthersAsBefore, OthersFly, OthersKept
<1>3. \/ current_master'[n] = m /\ device'[n] = "idle"
      \/ /\ device'[n] = device[n] /\ state'[n] = state[n]
         /\ current_master'[n] = current_master[n] /\ current_slave'[n] = current_slave[n]
  BY DEF OthersAsBefore, OthersFly, OthersKept
<1>4. /\ \A d \in Devices : InFlight("start_request", n, d)' <=> InFlight("start_request", n, d)
      /\ Asks(n)' <=> Asks(n)
  BY <1>1 DEF OthersAsBefore, OthersFly, Asks
<1>5. \A d \in Devices, a \in 0..255 :
            OnWay("start_request", n, a, d)' => OnWay("start_request", n, a, d)
  BY DEF OthersAsBefore, OthersFly, OthersKept
<1>6. device'[n] \notin InTransfer /\ ~Selects(n)'
  BY <1>1, <1>3, <1>4 DEF Idle, Selects, InTransfer, Asking
<1>7. StartsOf(n)'
  BY <1>1, <1>3, <1>4 DEF MasterOK, StartsOf
<1>8. AskedOf(n)'
  <2> SUFFICES ASSUME NEW d \in Devices, NEW a \in 0..255, OnWay("start_request", n, a, d)'
               PROVE  /\ ~Is10bitRead(a) /\ device'[n] \in Asking =>
                           device'[n] = WaitingFor(a) /\ address_pattern'[n] = Pattern(n, a)
                      /\ Is10bitRead(a) =>
                           device'[n] = "startR" /\ Is10bitRead(address_pattern'[n]) /\ ~Asks(n)'
    BY DEF AskedOf, Is10bitRead, WaitingFor, Pattern
  <2>1. OnWay("start_request", n, a, d)
    BY <1>5
  <2>2. CASE Is10bitRead(a)
    BY <1>1, <2>1, <2>2 DEF MasterOK, AskedOf, Idle, Selects, Asking
  <2>3. CASE ~Is10bitRead(a)
    BY <1>1, <1>2, <1>3, <2>1, <2>3 DEF MasterOK, AskedOf, Asking
  <2> QED BY <2>2, <2>3
<1>9. AskingOf(n)'
  <2> SUFFICES ASSUME device'[n] \in Asking PROVE AskingOf(n)'
    BY DEF AskingOf
  <2>1. /\ device'[n] = device[n] /\ state'[n] = state[n] /\ Asks(n) /\ Asks(n)' /\ device[n] \in Asking
        /\ current_master'[n] = current_master[n] /\ current_slave'[n] = current_slave[n]
    BY <1>1, <1>3, <1>4 DEF Idle, Selects, Asking
  <2>2. \A s \in Slaves \ {n} : InFlight("start_request", n, s)'
    BY <1>1, <1>4, <2>1 DEF Idle, Devices
  <2> QED BY <1>1, <1>2, <2>1, <2>2 DEF MasterOK, AskingOf, Broadcasting, Is10bit, Is10bitRead
<1>10. SelectsOf(n)' /\ TransferOf(n)'
  BY <1>6 DEF SelectsOf, TransferOf
<1>11. ListsOf(n)'
  BY <1>1, <1>2 DEF MasterOK, ListsOf, Idle, InTransfer, Broadcasting, Is10bit
<1>12. LateOf(n)'
  BY <1>1, <1>2 DEF Idle, LateOf, LateAnswer, Distinct, Has
<1>13. \A s \in Slaves \ {n} : PrivateOf(n, s)'
  <2> SUFFICES ASSUME NEW s \in Slaves \ {n} PROVE PrivateOf(n, s)'
    OBVIOUS
  <2>1. Quiet(n, s)'
    BY DEF OthersAsBefore, OthersFly, OthersKept
  <2>2. \A a \in 0..255 : ~OnWay("start_response", s, a, n)'
    BY <2>1, InFlightOnWayNext DEF Quiet
  <2> QED BY <2>1, <2>2 DEF PrivateOf, Quiet
<1> QED BY <1>7, <1>8, <1>9, <1>10, <1>11, <1>12, <1>13

LEMMA LeadKeeps ==
  ASSUME ProtocolInv, TypeOK', QueueOK(net)', Agree(net, current_master)',
         NEW m \in Masters, Lead(m), Lead(m)', device'[m] # "idle", OthersAsBefore(m),
         MasterOK(m)', \A s \in Slaves \ {m} : PrivateOf(m, s)',
         \A s \in Slaves \ {m} : current_master'[s] = m => WorkOf(s)'
  PROVE  ProtocolInv'
<1>1. \A n \in Masters : MasterOK(n)' /\ \A s \in Slaves \ {n} : PrivateOf(n, s)'
  BY OtherMasters DEF MasterOK
<1>2. StopsOK' /\ NoStop'
  BY DEF Lead, NoStop, StopsOK
<1>3. StopFirst'
  <2> SUFFICES ASSUME NEW n \in Masters, AfterStop(net, n)' PROVE FALSE
    BY DEF StopFirst
  <2>1. PICK i \in 1..Len(net') : net'[i].type = "stop" /\ Concerns(net'[i])
    BY DEF AfterStop, Concerns, Devices
  <2>2. net'[i].src \in Masters
    BY <2>1 DEF QueueOK, Shaped, Shared
  <2>3. PICK d \in Devices : d \in net'[i].to
    BY <2>1 DEF Concerns
  <2>4. PICK k : k = net'[i].src
    OBVIOUS
  <2>5. PICK a : a = net'[i].status
    OBVIOUS
  <2>6. OnWay("stop", k, a, d)'
    BY <2>1, <2>3, <2>4, <2>5 DEF OnWay, Carries
  <2>7. InFlight("stop", k, d)'
    BY <2>6, InFlightOnWayNext
  <2> QED BY <1>2, <2>2, <2>4, <2>7 DEF NoStop
<1>4. \A d \in Devices : current_master'[d] = None =>
         \/ state'[d] = "idle"
         \/ d \in Masters /\ device'[d] \in Asking /\ state'[d] = "wait_remote_start_rsp"
  BY DEF OthersAsBefore, OthersKept, ProtocolInv, RestOK
<1>5. RestOK'
  <2>1. ASSUME NEW n \in Masters, device'[n] = "idle", current_master'[n] = n
        PROVE  FALSE
    BY <2>1, NoneIsNoMaster DEF Lead, Devices
  <2> QED BY <1>4, <2>1 DEF RestOK
<1>6. ASSUME NEW s \in Slaves PROVE WorkOf(s)'
  <2>1. CASE current_master'[s] = None
    BY <1>4, <2>1 DEF WorkOf, Works, Thinks, Devices
  <2>2. CASE s = m
    BY <2>1, <2>2 DEF Lead, WorkOf, Devices
  <2> QED BY <2>1, <2>2 DEF Lead, Devices
<1> QED BY <1>1, <1>2, <1>3, <1>5, <1>6 DEF ProtocolInv

(* A device that has seen the leader win is at rest. *)
LEMMA LedIsIdle ==
  ASSUME ProtocolInv, NEW m \in Masters, Lead(m), NEW n \in Masters \ {m}, current_master[n] = m
  PROVE  device[n] = "idle"
<1>1. Idle(n) /\ MasterOK(n) /\ m # None /\ TypeOK
  BY OthersIdle, NoneIsNoMaster DEF ProtocolInv
<1> QED BY <1>1, DeviceCases DEF Idle, MasterOK, AskingOf

LEMMA ClearWhenQuiet ==
  ASSUME TypeOK, NEW m \in Masters, NEW s \in Slaves \ {m},
         \A n \in Masters \ {s} : Quiet(n, s), ~InFlight("start_request", m, s)
  PROVE  Clear(net, m, s) /\ Unannounced(net, s)
<1>1. \A a : ~Carries(net, "start_request", m, a, s)
  BY InFlightOnWay DEF OnWay
<1>2. ASSUME NEW n \in Masters \ {s}, NEW a
      PROVE  /\ Is10bitRead(a) => ~Carries(net, "start_request", n, a, s)
             /\ ~Carries(net, "read_request", n, a, s) /\ ~Carries(net, "write_request", n, a, s)
             /\ ~Carries(net, "start_response", s, a, n)
             /\ ~Carries(net, "read_response", s, a, n) /\ ~Carries(net, "write_response", s, a, n)
             /\ ~Carries(net, "start_response_pending", s, a, n)
  BY InFlightOnWay, OnWayIsTyped DEF OnWay, Quiet, Restarting
<1> QED BY <1>1, <1>2 DEF Clear, Unannounced

(* A master that may make the next call has nothing on its way. *)
LEMMA Settled ==
  ASSUME ProtocolInv, NEW m \in Masters, device[m] \in {"r", "w", "nack"}
  PROVE  /\ Lead(m) /\ NoStop /\ \A d \in Devices : current_master[d] = m
         /\ \A d \in Devices : ~InFlight("start_request", m, d)
         /\ \A s \in Slaves \ {m} : Quiet(m, s) /\ ~Works(s)
         /\ Len(pending_start_responses[m]) = 0 /\ slave_list_counter[m] = 0
<1>1. MasterOK(m) /\ m \in Devices
  BY DEF ProtocolInv, Devices
<1>2. Lead(m) /\ NoStop /\ \A d \in Devices : current_master[d] = m
  BY <1>1 DEF MasterOK, TransferOf, InTransfer, Lead
<1>3. \A d \in Devices : ~InFlight("start_request", m, d)
  BY <1>1 DEF MasterOK, StartsOf, Asking
<1>4. ASSUME NEW s \in Slaves \ {m}
      PROVE  Quiet(m, s) /\ ~Works(s)
  <2>1. PrivateOf(m, s) /\ WorkOf(s) /\ current_master[s] = m
    BY <1>2 DEF ProtocolInv, Devices
  <2>2. ~Restarting(m, s)
    BY <1>1 DEF MasterOK, AskedOf, Restarting, Devices
  <2>3. Quiet(m, s)
    BY <2>1, <2>2 DEF Quiet, PrivateOf, Asking
  <2> QED BY <2>1, <2>3 DEF WorkOf, Works, Asking
<1>5. Len(pending_start_responses[m]) = 0
  <2>1. \A i \in 1..Len(pending_start_responses[m]) : FALSE
    BY <1>1 DEF MasterOK, LateOf, LateAnswer, Distinct, Has, Asking
  <2>2. Len(pending_start_responses[m]) \in Nat
    BY DevicesAreEndpoints, LenProperties DEF ProtocolInv, TypeOK
  <2> QED BY <2>1, <2>2
<1>6. slave_list_counter[m] = 0
  BY <1>1 DEF MasterOK, ListsOf
<1> QED BY <1>2, <1>3, <1>4, <1>5, <1>6

Appends(q, type, src, status, dst) ==
  \E msg \in Messages :
    /\ msg.type = type /\ msg.src = src /\ msg.to = {dst} /\ msg.status = status
    /\ Unicast(q, type, src, dst, status) = Append(q, msg)

LEMMA UnicastAppends ==
  ASSUME NEW type \in MessageTypes, NEW src \in Endpoints, NEW dst \in Endpoints,
         NEW status \in 0..255, NEW q
  PROVE  Appends(q, type, src, status, dst)
<1> DEFINE msg == Message(type, src, {dst}, status)
<1>1. msg \in Messages
  BY MessageType
<1>2. msg.type = type /\ msg.src = src /\ msg.to = {dst} /\ msg.status = status
  BY DEF Message
<1>3. dst # None
  BY EndpointsAssumption
<1>4. Unicast(q, type, src, dst, status) = Append(q, msg)
  BY <1>3 DEF Unicast
<1> QED BY <1>1, <1>2, <1>4 DEF Appends

LEMMA AgreeKept ==
  ASSUME NEW q, net' = q, Agree(q, current_master')
  PROVE  Agree(net, current_master)'
BY DEF Agree, AgreeAmong, Behind, Shared, SharedStart, OwnerAfter, Is10bitRead, Devices

(* What a request or an answer on a clear way does. *)
RequestOrAnswer(type, status, m, s, src, dst) ==
  \/ /\ src = m /\ dst = s
     /\ \/ type \in {"read_request", "write_request"}
        \/ type = "start_request" /\ Is10bitRead(status)
  \/ /\ src = s /\ dst = m
     /\ type \in {"start_response", "start_response_pending", "read_response", "write_response"}
     /\ type \in {"start_response", "write_response"} => status \in {ACK, NOACK}

Sends(type, src, status, dst) ==
  /\ \A d : \A t, x, a : OnWay(t, x, a, d)' <=>
       OnWay(t, x, a, d) \/ (t = type /\ x = src /\ a = status /\ d = dst)
  /\ \A d : \A t, x : InFlight(t, x, d)' <=>
       InFlight(t, x, d) \/ (t = type /\ x = src /\ d = dst)
  /\ \A d : \A n : Restarting(n, d)' <=>
       Restarting(n, d) \/ (type = "start_request" /\ n = src /\ d = dst)

LEMMA Exchanged ==
  ASSUME ProtocolInv, TypeOK', current_master' = current_master, NEW m \in Masters, NEW s \in Slaves \ {m},
         Lead(m), NEW type, NEW status \in 0..255, NEW src, NEW dst,
         RequestOrAnswer(type, status, m, s, src, dst), net' = Unicast(net, type, src, dst, status),
         Clear(net, m, s), type = "start_response" \/ Unannounced(net, s)
  PROVE  /\ Sends(type, src, status, dst)
         /\ QueueOK(net)' /\ Agree(net, current_master)' /\ Lead(m)' /\ NoStop' /\ OthersFly(m)
<1>1. /\ type \in MessageTypes /\ type # "stop" /\ src \in Endpoints /\ dst \in Endpoints
      /\ m # s /\ net \in Seq(Messages) /\ TypeOK /\ QueueOK(net) /\ Agree(net, current_master)
  <2>1. type \in MessageTypes /\ type # "stop" /\ src \in {m, s} /\ dst \in {m, s}
    BY DEF RequestOrAnswer, MessageTypes
  <2>2. net \in Seq(Messages) /\ TypeOK /\ QueueOK(net) /\ Agree(net, current_master)
    BY DEF ProtocolInv, TypeOK
  <2> QED BY <2>1, <2>2, DevicesAreEndpoints
<1>2. PICK msg \in Messages :
           /\ msg.type = type /\ msg.src = src /\ msg.to = {dst} /\ msg.status = status
           /\ Unicast(net, type, src, dst, status) = Append(net, msg)
  <2>1. Appends(net, type, src, status, dst)
    BY <1>1, UnicastAppends
  <2> QED BY <2>1 DEF Appends
<1>3. /\ Between(msg, m, s) /\ ~Shared(msg) /\ (Restarts(msg) <=> type = "start_request")
      /\ net' = Append(net, msg)
  BY <1>2 DEF RequestOrAnswer, Between, FromMaster, FromSlave, Restarts, Shared, SharedStart
<1>4. msg.type \in {"start_response", "write_response"} => msg.status \in {ACK, NOACK}
  BY <1>1, <1>2 DEF RequestOrAnswer
<1>5. QueueOK(Append(net, msg))
  BY <1>1, <1>2, <1>3, <1>4, PrivateSent
<1>6. /\ \A d : \A t, x, a : OnWay(t, x, a, d)' <=>
              OnWay(t, x, a, d) \/ (t = type /\ x = src /\ a = status /\ d = dst)
      /\ \A d : \A t, x : InFlight(t, x, d)' <=>
              InFlight(t, x, d) \/ (t = type /\ x = src /\ d = dst)
      /\ \A d : \A n : Restarting(n, d)' <=>
              Restarting(n, d) \/ (type = "start_request" /\ n = src /\ d = dst)
      /\ QueueOK(net)'
  BY <1>1, <1>2, <1>3, <1>5, SentFacts
<1>7. Agree(net, current_master)'
  <2>1. Agree(Append(net, msg), current_master)
    BY <1>1, <1>2, <1>3, AgreeSent
  <2> QED BY <1>3, <2>1, AgreeKept
<1>8. Lead(m)' /\ NoStop'
  BY <1>1, <1>6 DEF Lead, NoStop, Devices
<1>9. OthersFly(m)
  <2> SUFFICES ASSUME NEW n \in Masters \ {m}
               PROVE  /\ \A d \in Devices : InFlight("start_request", n, d)' <=> InFlight("start_request", n, d)
                      /\ \A d \in Devices, a \in 0..255 :
                           OnWay("start_request", n, a, d)' => OnWay("start_request", n, a, d)
                      /\ \A t \in Slaves \ {n} : Quiet(n, t)'
    BY DEF OthersFly
  <2>1. type = "start_request" => src # n
    BY DEF RequestOrAnswer
  <2>2. ASSUME NEW t \in Slaves \ {n} PROVE Quiet(n, t)'
    <3>1. Quiet(n, t)
      BY OthersIdle DEF Idle
    <3>2. ~(src = n /\ dst = t /\ type \in {"start_request", "read_request", "write_request"})
      BY DEF RequestOrAnswer
    <3>3. ~(src = t /\ dst = n /\ type \in {"start_response", "start_response_pending",
                                          "read_response", "write_response"})
      BY DEF RequestOrAnswer
    <3> QED BY <1>6, <3>1, <3>2, <3>3 DEF Quiet
  <2> QED BY <1>6, <2>1, <2>2
<1> QED BY <1>6, <1>7, <1>8, <1>9 DEF Sends

(* A master reads. *)
LEMMA ReadKeeps ==
  ASSUME ProtocolInv, TypeOK', NEW m \in Masters, Read(m)
  PROVE  ProtocolInv'
<1>1. /\ m \in Devices /\ m \in Endpoints /\ TypeOK /\ MasterOK(m) /\ device[m] = "r"
      /\ device[m] \in InTransfer /\ QueueOK(net)
  BY DevicesAreEndpoints DEF ProtocolInv, Devices, Read, InTransfer
<1>2. /\ Lead(m) /\ NoStop /\ \A d \in Devices : current_master[d] = m
      /\ \A d \in Devices : ~InFlight("start_request", m, d)
      /\ \A s \in Slaves \ {m} : Quiet(m, s) /\ ~Works(s)
      /\ Len(pending_start_responses[m]) = 0 /\ slave_list_counter[m] = 0
  BY <1>1, Settled
<1>3. state[m] = "wait_req_r" /\ Partner(m)
  BY <1>1 DEF MasterOK, TransferOf
<1>4. PICK p : p = current_slave[m]
  OBVIOUS
<1>5. /\ p \in Slaves \ {m} /\ p \in Devices /\ p # None /\ p \in Endpoints
      /\ current_master[p] = m /\ current_slave[p] = p
  BY <1>3, <1>4, NoneIsNoMaster, DevicesAreEndpoints DEF Partner, Chosen, Serves, Devices
<1>6. /\ device' = [device EXCEPT ![m] = "read"]
      /\ state' = [state EXCEPT ![m] = "wait_rsp_r"]
      /\ net' = Unicast(net, "read_request", m, p, 0)
      /\ UNCHANGED <<current_master, current_slave, pending_slaves, pending_start_responses,
                     slave_list, slave_list_counter, slave_list_ack, address_pattern>>
  BY <1>1, <1>2, <1>4 DEF Read, answers, addressing
<1>14. current_master' = current_master
  BY <1>6
<1>7. /\ device'[m] = "read" /\ state'[m] = "wait_rsp_r"
      /\ \A d \in Endpoints : d # m => device'[d] = device[d] /\ state'[d] = state[d]
  BY <1>1, <1>6 DEF TypeOK
<1>8. RequestOrAnswer("read_request", 0, m, p, m, p) /\ 0 \in 0..255
  BY DEF RequestOrAnswer
<1>9. Clear(net, m, p) /\ Unannounced(net, p)
  BY <1>1, <1>2, <1>5, OthersIdle, ClearWhenQuiet DEF Idle
<1>10. Sends("read_request", m, 0, p)
  BY <1>2, <1>5, <1>6, <1>8, <1>9, <1>14, Exchanged
<1>11. QueueOK(net)' /\ Agree(net, current_master)' /\ Lead(m)' /\ NoStop' /\ OthersFly(m)
  BY <1>2, <1>5, <1>6, <1>8, <1>9, <1>14, Exchanged
<1>12. /\ \A d : \A type, src, status : OnWay(type, src, status, d)' <=>
              OnWay(type, src, status, d) \/ (type = "read_request" /\ src = m /\ status = 0 /\ d = p)
       /\ \A d : \A type, src : InFlight(type, src, d)' <=>
              InFlight(type, src, d) \/ (type = "read_request" /\ src = m /\ d = p)
       /\ \A d : \A n : Restarting(n, d)' <=> Restarting(n, d)
  BY <1>10 DEF Sends
<1>15. OthersAsBefore(m)
  BY <1>1, <1>2, <1>6, <1>7, <1>12, <1>11, DevicesAreEndpoints, NoneIsNoMaster DEF OthersAsBefore, OthersKept
<1>16. MasterOK(m)'
  <2>1. StartsOf(m)' /\ AskedOf(m)'
    BY <1>1, <1>2, <1>12, InFlightOnWayNext DEF StartsOf, AskedOf
  <2>2. AskingOf(m)' /\ SelectsOf(m)'
    BY <1>7 DEF AskingOf, SelectsOf, Selects, Asking
  <2>3. ListsOf(m)' /\ LateOf(m)'
    BY <1>1, <1>2, <1>6, <1>7 DEF MasterOK, ListsOf, LateOf, LateAnswer, Distinct, Has, Broadcasting, Is10bit
  <2>4. TransferOf(m)'
    <3>1. Reads(m)'
      BY <1>4, <1>5, <1>6, <1>7, <1>12 DEF Reads, Partner, Chosen, Serves
    <3> QED BY <1>2, <1>6, <1>7, <1>11, <3>1 DEF TransferOf, Devices
  <2> QED BY <2>1, <2>2, <2>3, <2>4 DEF MasterOK
<1>17. ASSUME NEW s \in Slaves \ {m} PROVE PrivateOf(m, s)'
  <2>1. Quiet(m, s) /\ \A a : ~OnWay("start_response", s, a, m)
    BY <1>1, <1>2, InFlightOnWay DEF Quiet
  <2> QED BY <1>4, <1>6, <1>7, <1>12, <2>1 DEF PrivateOf, Quiet
<1>18. ASSUME NEW s \in Slaves \ {m} PROVE WorkOf(s)'
  <2>1. ~Works(s)' 
    BY <1>2, <1>7, DevicesAreEndpoints DEF Works, Thinks
  <2> QED BY <2>1 DEF WorkOf
<1> QED BY <1>2, <1>7, <1>11, <1>15, <1>16, <1>17, <1>18, LeadKeeps
----------------------------------------------------------------------------
(* The first message is private. *)

(* Where there is no stop on its way, a master that one device takes for   *)
(* the owner is one that all of them will.                                 *)
LEMMA OwnerLeads ==
  ASSUME ProtocolInv, NoStop, NEW m \in Masters, NEW d \in Devices, current_master[d] = m
  PROVE  Lead(m)
<1>1. Agree(net, current_master) /\ QueueOK(net) /\ TypeOK
  BY DEF ProtocolInv
<1> SUFFICES ASSUME NEW f \in Devices PROVE current_master[f] \in {None, m}
  BY DEF Lead
<1>2. CASE Behind(net, d) <=> Behind(net, f)
  BY <1>1, <1>2 DEF Agree, AgreeAmong
<1>3. CASE ~(Behind(net, d) <=> Behind(net, f))
  <2>1. net # <<>> /\ Shared(Head(net)) /\ \E g \in Devices : g \in Head(net).to
    BY <1>3 DEF Behind
  <2>2. /\ Len(net) \in Nat /\ Len(net) >= 1 /\ Head(net) = net[1] /\ Shaped(net[1])
    BY <1>1, <2>1, Heads DEF QueueOK
  <2>3. Head(net).type # "stop"
    <3> SUFFICES ASSUME Head(net).type = "stop" PROVE FALSE
      OBVIOUS
    <3>1. PICK g \in Devices : g \in Head(net).to
      BY <2>1
    <3>2. PICK k \in Masters : k = net[1].src
      BY <2>1, <2>2 DEF Shaped
    <3>3. PICK a : a = net[1].status
      OBVIOUS
    <3>4. OnWay("stop", k, a, g)
      BY <2>2, <3>1, <3>2, <3>3 DEF OnWay, Carries
    <3> QED BY <1>1, <3>4, InFlightOnWay DEF NoStop
  <2>4. CASE Behind(net, d)
    <3>1. current_master[f] = OwnerAfter(current_master[d], Head(net))
      BY <1>1, <1>3, <2>4 DEF Agree, AgreeAmong
    <3> QED BY <2>3, <3>1, NoneIsNoMaster DEF OwnerAfter
  <2>5. CASE Behind(net, f)
    <3>1. m = OwnerAfter(current_master[f], Head(net))
      BY <1>1, <1>3, <2>5 DEF Agree, AgreeAmong
    <3> QED BY <2>3, <3>1, NoneIsNoMaster DEF OwnerAfter
  <2> QED BY <1>3, <2>4, <2>5
<1> QED BY <1>2, <1>3

(* A message of type t from x to d is a request or an answer between m     *)
(* and s.                                                                  *)
Private(t, a, x, d, m, s) ==
  \/ /\ x = m /\ d = s
     /\ \/ t \in {"read_request", "write_request"}
        \/ t = "start_request" /\ Is10bitRead(a)
  \/ /\ x = s /\ d = m
     /\ t \in {"start_response", "start_response_pending", "read_response", "write_response"}

LEMMA PrivateIsBetween ==
  ASSUME QueueOK(net), NEW i \in 1..Len(net), NEW d \in net[i].to, ~Shared(net[i])
  PROVE  \E m \in Masters : \E s \in Slaves \ {m} :
           Between(net[i], m, s) /\ Private(net[i].type, net[i].status, net[i].src, d, m, s)
<1>1. PICK m \in Masters : \E s \in Slaves \ {m} : Between(net[i], m, s)
  BY DEF QueueOK, Shaped
<1>2. PICK s \in Slaves \ {m} : Between(net[i], m, s)
  BY <1>1
<1>3. Private(net[i].type, net[i].status, net[i].src, d, m, s)
  BY <1>2 DEF Between, Private, FromMaster, FromSlave, Restarts
<1> QED BY <1>2, <1>3

LEMMA BetweenThem ==
  ASSUME QueueOK(net), NEW m \in Masters, NEW s \in Slaves \ {m}, NEW t, NEW a, NEW x, NEW d,
         Private(t, a, x, d, m, s), NEW i \in 1..Len(net),
         net[i].type = t, net[i].src = x, net[i].status = a, d \in net[i].to
  PROVE  Between(net[i], m, s)
<1>1. ~Shared(net[i])
  BY DEF Private, Shared, SharedStart
<1>2. PICK n \in Masters, u \in Slaves : n # u /\ Between(net[i], n, u)
  BY <1>1 DEF QueueOK, Shaped
<1>3. n = m /\ u = s
  BY <1>2 DEF Private, Between, FromMaster, FromSlave, Restarts
<1> QED BY <1>2, <1>3

(* Nothing else is between a master and a slave. *)
LEMMA FirstBetween ==
  ASSUME TypeOK, QueueOK(net), net # <<>>, NEW m \in Masters, NEW s \in Slaves \ {m},
         Between(net[1], m, s)
  PROVE  /\ \A t, a, x, d : OnWay(t, x, a, d) /\ Private(t, a, x, d, m, s) =>
              t = net[1].type \/ (net[1].type = "start_response_pending" /\ t = "start_response")
         /\ \A a, d : OnWay("start_request", m, a, d) => Is10bitRead(a)
<1>1. Len(net) \in Nat /\ Len(net) >= 1
  BY Heads
<1>2. ASSUME NEW t, NEW a, NEW x, NEW d, OnWay(t, x, a, d), Private(t, a, x, d, m, s)
      PROVE  t = net[1].type \/ (net[1].type = "start_response_pending" /\ t = "start_response")
  <2>1. PICK i \in 1..Len(net) : net[i].type = t /\ net[i].src = x /\ net[i].status = a /\ d \in net[i].to
    BY <1>2 DEF OnWay, Carries
  <2>2. CASE i = 1
    BY <2>1, <2>2
  <2>3. CASE i # 1
    <3>1. Ordered(net[1], net[i])
      BY <1>1, <2>3 DEF QueueOK
    <3>2. Between(net[i], m, s)
      BY <1>2, <2>1, BetweenThem
    <3> QED BY <2>1, <3>1, <3>2 DEF Ordered
  <2> QED BY <2>2, <2>3
<1>3. ASSUME NEW a, NEW d, OnWay("start_request", m, a, d)
      PROVE  Is10bitRead(a)
  <2>1. PICK i \in 1..Len(net) : net[i].type = "start_request" /\ net[i].src = m /\ net[i].status = a /\ d \in net[i].to
    BY <1>3 DEF OnWay, Carries
  <2>2. CASE i = 1
    BY <2>1, <2>2 DEF Between, FromMaster, FromSlave, Restarts
  <2>3. CASE i # 1
    <3>1. Ordered(net[1], net[i])
      BY <1>1, <2>3 DEF QueueOK
    <3> QED BY <2>1, <3>1 DEF Ordered, SharedStart
  <2> QED BY <2>2, <2>3
<1> QED BY <1>2, <1>3

Alone(T, m, s) ==
  /\ \A a, d : OnWay("start_request", m, a, d) => Is10bitRead(a)
  /\ Restarting(m, s) => T = "start_request"
  /\ InFlight("read_request", m, s) => T = "read_request"
  /\ InFlight("write_request", m, s) => T = "write_request"
  /\ InFlight("start_response", s, m) => T \in {"start_response", "start_response_pending"}
  /\ InFlight("start_response_pending", s, m) => T = "start_response_pending"
  /\ InFlight("read_response", s, m) => T = "read_response"
  /\ InFlight("write_response", s, m) => T = "write_response"

Visits(T, X, e, m, s) ==
  \/ X = m /\ e = s /\ T \in {"start_request", "read_request", "write_request"}
  \/ X = s /\ e = m /\ T \in {"start_response", "start_response_pending",
                              "read_response", "write_response"}

LEMMA HeadPrivate ==
  ASSUME ProtocolInv, NEW e, NEW T, NEW X, Receives(e, T), X = Head(net).src, T # "stop",
         T = "start_request" => Is10bitRead(Head(net).status)
  PROVE  \E m \in Masters : \E s \in Slaves \ {m} :
           /\ Visits(T, X, e, m, s) /\ Alone(T, m, s)
           /\ Lead(m) /\ \A d \in Devices : current_master[d] = m
           /\ \E a : OnWay(T, X, a, e) /\ a = Head(net).status
<1>1. /\ TypeOK /\ QueueOK(net) /\ net # <<>> /\ Agree(net, current_master)
      /\ e \in Head(net).to /\ Head(net).type = T
  BY DEF ProtocolInv, Receives
<1>2. Len(net) \in Nat /\ Len(net) >= 1 /\ 1 \in 1..Len(net) /\ Head(net) = net[1]
  BY <1>1, Heads
<1>3. ~Shared(net[1])
  BY <1>1, <1>2 DEF Shared, SharedStart
<1>4. PICK m \in Masters : \E s \in Slaves \ {m} :
           Between(net[1], m, s) /\ Private(net[1].type, net[1].status, net[1].src, e, m, s)
  BY <1>1, <1>2, <1>3, PrivateIsBetween
<1>5. PICK s \in Slaves \ {m} :
           Between(net[1], m, s) /\ Private(net[1].type, net[1].status, net[1].src, e, m, s)
  BY <1>4
<1>6. Visits(T, X, e, m, s)
  BY <1>1, <1>2, <1>5 DEF Private, Visits
<1>7. PICK a : a = Head(net).status
  OBVIOUS
<1>8. OnWay(T, X, a, e) /\ InFlight(T, X, e)
  <2>1. OnWay(T, X, a, e)
    BY <1>1, <1>2, <1>7 DEF OnWay, Carries
  <2> QED BY <1>1, <2>1, InFlightOnWay
<1>9. /\ \A t, b, x, d : OnWay(t, x, b, d) /\ Private(t, b, x, d, m, s) =>
              t = T \/ (T = "start_response_pending" /\ t = "start_response")
      /\ \A b, d : OnWay("start_request", m, b, d) => Is10bitRead(b)
  BY <1>1, <1>2, <1>5, FirstBetween
<1>10. Alone(T, m, s)
  <2>1. Restarting(m, s) => T = "start_request"
    BY <1>9 DEF Restarting, Private
  <2>2. \A t : t \in {"read_request", "write_request"} /\ InFlight(t, m, s) => t = T
    BY <1>1, <1>9, InFlightOnWay DEF Private
  <2>3. \A t : /\ t \in {"start_response", "start_response_pending", "read_response", "write_response"}
               /\ InFlight(t, s, m)
               => t = T \/ (T = "start_response_pending" /\ t = "start_response")
    BY <1>1, <1>9, InFlightOnWay DEF Private
  <2> QED BY <1>9, <2>1, <2>2, <2>3 DEF Alone
<1>11. NoStop /\ \E d \in Devices : current_master[d] = m
  <2>1. MasterOK(m) /\ PrivateOf(m, s) /\ m \in Devices /\ s \in Devices
    BY DEF ProtocolInv, Devices
  <2>2. CASE T = "start_request"
    <3>1. X = m /\ e \in Devices
      BY <1>6, <2>1, <2>2 DEF Visits
    <3>2. a \in 0..255
      BY <1>1, <1>8, OnWayIsTyped
    <3>3. device[m] = "startR" /\ ~Asks(m)
      BY <1>7, <1>8, <2>1, <2>2, <3>1, <3>2 DEF MasterOK, AskedOf
    <3> QED BY <2>1, <3>3 DEF MasterOK, AskingOf, Asking
  <2>3. CASE T \in {"start_response", "start_response_pending"}
    BY <1>6, <1>8, <2>1, <2>3 DEF Visits, PrivateOf
  <2>4. CASE T \in {"read_request", "read_response", "write_request", "write_response"}
    <3>1. device[m] \in InTransfer
      BY <1>6, <1>8, <2>1, <2>4 DEF Visits, PrivateOf, InTransfer
    <3> QED BY <2>1, <3>1 DEF MasterOK, TransferOf
  <2> QED BY <1>6, <2>2, <2>3, <2>4 DEF Visits
<1>12. Lead(m)
  BY <1>11, OwnerLeads
<1>13. \A d \in Devices : current_master[d] = m
  <2>1. \A d \in Devices : ~Behind(net, d)
    BY <1>2, <1>3 DEF Behind
  <2> QED BY <1>1, <1>11, <2>1 DEF Agree, AgreeAmong
<1> QED BY <1>6, <1>7, <1>8, <1>10, <1>12, <1>13
----------------------------------------------------------------------------
(* The first message is private and is taken. *)

Takes(T, X, e) ==
  /\ \A d \in Devices : \A t, x, a : OnWay(t, x, a, d)' <=>
       OnWay(t, x, a, d) /\ ~(t = T /\ x = X /\ d = e)
  /\ \A d \in Devices : \A t, x : InFlight(t, x, d)' <=>
       InFlight(t, x, d) /\ ~(t = T /\ x = X /\ d = e)
  /\ \A d \in Devices : \A n : Restarting(n, d)' <=>
       Restarting(n, d) /\ ~("start_request" = T /\ n = X /\ d = e)

LEMMA FlyOn ==
  ASSUME ProtocolInv, TypeOK', NEW m \in Masters, NEW s \in Slaves \ {m}, Lead(m),
         NEW T, NEW X, NEW e, Visits(T, X, e, m, s), Takes(T, X, e)
  PROVE  NoStop' /\ OthersFly(m)
<1>1. T # "stop" /\ m \in Devices /\ s \in Devices
  BY DEF Visits, Devices
<1>2. NoStop'
  BY <1>1 DEF Lead, NoStop, Takes, Devices
<1>3. OthersFly(m)
  <2> SUFFICES ASSUME NEW n \in Masters \ {m}
               PROVE  /\ \A d \in Devices : InFlight("start_request", n, d)' <=> InFlight("start_request", n, d)
                      /\ \A d \in Devices, a \in 0..255 :
                           OnWay("start_request", n, a, d)' => OnWay("start_request", n, a, d)
                      /\ \A t \in Slaves \ {n} : Quiet(n, t)'
    BY DEF OthersFly
  <2>1. T = "start_request" => X # n
    BY DEF Visits
  <2>2. ASSUME NEW t \in Slaves \ {n} PROVE Quiet(n, t)'
    <3>1. Quiet(n, t) /\ t \in Devices /\ n \in Devices
      BY OthersIdle DEF Idle, Devices
    <3> QED BY <3>1 DEF Quiet, Takes
  <2> QED BY <2>1, <2>2 DEF Takes
<1> QED BY <1>2, <1>3

LEMMA Received ==
  ASSUME ProtocolInv, TypeOK', current_master' = current_master,
         NEW m \in Masters, NEW s \in Slaves \ {m}, Lead(m),
         NEW T, NEW X, NEW e, Visits(T, X, e, m, s), T # "start_request",
         Receives(e, T), X = Head(net).src, net' = Taken(e)
  PROVE  Takes(T, X, e) /\ QueueOK(net)' /\ Agree(net, current_master)' /\ Lead(m)' /\ OthersFly(m)
<1>1. /\ e \in Endpoints /\ T # "stop" /\ TypeOK /\ QueueOK(net) /\ Agree(net, current_master)
      /\ net # <<>> /\ e \in Head(net).to /\ Head(net).type = T
  BY DevicesAreEndpoints DEF ProtocolInv, Visits, Receives
<1>2. Takes(T, X, e) /\ QueueOK(net)'
  BY <1>1, Delivered DEF Takes
<1>3. Agree(net, current_master)'
  <2>1. ~Shared(Head(net))
    BY <1>1 DEF Shared, SharedStart
  <2>2. \A q : q = Taken(e) => Agree(q, current_master)
    BY <1>1, <2>1, AgreeTaken
  <2>3. Agree(net', current_master)
    BY <2>2
  <2>4. Agree(net', current_master')
    BY <2>3
  <2> QED BY <2>4, AgreeKept
<1>4. NoStop' /\ OthersFly(m)
  BY <1>2, FlyOn
<1>5. Lead(m)'
  BY <1>4 DEF Lead, Devices
<1> QED BY <1>2, <1>3, <1>4, <1>5

(* The link's own state of another master, and its device. *)
Untouched(n) ==
  /\ device'[n] = device[n] /\ pending_start_responses'[n] = pending_start_responses[n]
  /\ slave_list'[n] = slave_list[n] /\ slave_list_counter'[n] = slave_list_counter[n]
  /\ slave_list_ack'[n] = slave_list_ack[n] /\ address_pattern'[n] = address_pattern[n]

LEMMA KeptByLeader ==
  ASSUME ProtocolInv, NEW m \in Masters, Lead(m), \A d \in Devices : current_master[d] = m,
         current_master' = current_master, \A n \in Masters \ {m} : Untouched(n)
  PROVE  OthersKept(m)
<1>1. ASSUME NEW n \in Masters \ {m}
      PROVE  current_master'[n] = m /\ device'[n] = "idle"
  <2>1. current_master[n] = m
    BY DEF Devices
  <2> QED BY <2>1, LedIsIdle DEF Untouched
<1>2. \A d \in Devices : current_master'[d] # None
  BY NoneIsNoMaster
<1> QED BY <1>1, <1>2 DEF OthersKept, Untouched

(* The answer that a master waited for has come. *)
Ready(m) ==
  /\ device[m] \in {"r", "w", "nack"}
  /\ device[m] = "r" => state[m] = "wait_req_r" /\ Partner(m)
  /\ device[m] = "w" => Accepting(m)
  /\ device[m] = "nack" => state[m] = "wait_stop" \/ Accepting(m)
  /\ slave_list[m] # <<>> => Broadcasting(m)
  /\ slave_list_counter[m] = 0 /\ Len(pending_start_responses[m]) = 0

LEMMA SettlesDown ==
  ASSUME ProtocolInv, TypeOK', QueueOK(net)', Agree(net, current_master)',
         NEW m \in Masters, Lead(m), Lead(m)', OthersAsBefore(m), Ready(m)',
         \A d \in Devices : current_master'[d] = m,
         \A d \in Devices : ~InFlight("start_request", m, d)',
         \A s \in Slaves \ {m} : Quiet(m, s)' /\ ~Works(s)'
  PROVE  ProtocolInv'
<1>1. device'[m] \in {"r", "w", "nack"} /\ NoStop' /\ m \in Devices
  BY DEF Ready, Lead, Devices
<1>2. MasterOK(m)'
  <2>1. StartsOf(m)' /\ AskedOf(m)'
    BY InFlightOnWayNext DEF StartsOf, AskedOf
  <2>2. AskingOf(m)' /\ SelectsOf(m)'
    BY <1>1 DEF AskingOf, SelectsOf, Selects, Asking
  <2>3. ListsOf(m)' /\ LateOf(m)'
    BY <1>1 DEF Ready, ListsOf, LateOf, LateAnswer, Distinct, Has
  <2>4. TransferOf(m)'
    BY <1>1 DEF Ready, TransferOf
  <2> QED BY <2>1, <2>2, <2>3, <2>4 DEF MasterOK
<1>3. ASSUME NEW s \in Slaves \ {m} PROVE PrivateOf(m, s)'
  <2>1. \A a : ~OnWay("start_response", s, a, m)'
    BY InFlightOnWayNext DEF Quiet
  <2> QED BY <2>1 DEF PrivateOf, Quiet
<1>4. ASSUME NEW s \in Slaves \ {m} PROVE WorkOf(s)'
  BY DEF WorkOf
<1> QED BY <1>1, <1>2, <1>3, <1>4, LeadKeeps

(* A master is in a transfer and no longer asks. *)
LEMMA InTransferOnly ==
  ASSUME ProtocolInv, NEW m \in Masters, device[m] \in InTransfer
  PROVE  /\ MasterOK(m) /\ NoStop /\ Lead(m) /\ \A d \in Devices : current_master[d] = m
         /\ \A d \in Devices : ~InFlight("start_request", m, d)
         /\ \A s \in Slaves \ {m} :
              /\ ~Restarting(m, s) /\ ~InFlight("start_response", s, m)
              /\ ~InFlight("start_response_pending", s, m) /\ ~Thinks(s)
              /\ PrivateOf(m, s) /\ WorkOf(s) /\ current_master[s] = m
         /\ Len(pending_start_responses[m]) = 0
<1>1. MasterOK(m) /\ m \in Devices /\ device[m] \notin Asking /\ device[m] # "idle"
  BY DEF ProtocolInv, Devices, InTransfer, Asking
<1>2. NoStop /\ Lead(m) /\ \A d \in Devices : current_master[d] = m
  BY <1>1 DEF MasterOK, TransferOf, Lead
<1>3. \A d \in Devices : ~InFlight("start_request", m, d)
  BY <1>1 DEF MasterOK, StartsOf
<1>4. ASSUME NEW s \in Slaves \ {m}
      PROVE  /\ ~Restarting(m, s) /\ ~InFlight("start_response", s, m)
             /\ ~InFlight("start_response_pending", s, m) /\ ~Thinks(s)
             /\ PrivateOf(m, s) /\ WorkOf(s) /\ current_master[s] = m
  <2>1. PrivateOf(m, s) /\ WorkOf(s) /\ current_master[s] = m /\ s \in Devices
    BY <1>2 DEF ProtocolInv, Devices
  <2>2. ~Restarting(m, s)
    BY <1>1, <2>1 DEF MasterOK, AskedOf, Restarting, Asking
  <2> QED BY <1>1, <2>1, <2>2 DEF PrivateOf, WorkOf, Works
<1>5. Len(pending_start_responses[m]) = 0
  <2>1. \A i \in 1..Len(pending_start_responses[m]) : FALSE
    BY <1>1 DEF MasterOK, LateOf, LateAnswer, Distinct, Has
  <2>2. Len(pending_start_responses[m]) \in Nat
    BY DevicesAreEndpoints, LenProperties DEF ProtocolInv, TypeOK
  <2> QED BY <2>1, <2>2
<1> QED BY <1>1, <1>2, <1>3, <1>4, <1>5

(* The answer to a read. *)
LEMMA ReadResponseKeeps ==
  ASSUME ProtocolInv, TypeOK', NEW e \in Endpoints, DeliverReadResponse(e)
  PROVE  ProtocolInv'
<1>1. PICK X : X = Head(net).src
  OBVIOUS
<1>2. Receives(e, "read_response") /\ net' = Taken(e) /\ TypeOK /\ current_master' = current_master
  BY DEF DeliverReadResponse, ProtocolInv
<1>3. PICK m \in Masters : \E s \in Slaves \ {m} :
           /\ Visits("read_response", X, e, m, s) /\ Alone("read_response", m, s)
           /\ Lead(m) /\ \A d \in Devices : current_master[d] = m
           /\ \E a : OnWay("read_response", X, a, e) /\ a = Head(net).status
  BY <1>1, <1>2, HeadPrivate
<1>4. PICK s \in Slaves \ {m} :
           /\ Visits("read_response", X, e, m, s) /\ Alone("read_response", m, s)
           /\ Lead(m) /\ \A d \in Devices : current_master[d] = m
           /\ \E a : OnWay("read_response", X, a, e) /\ a = Head(net).status
  BY <1>3
<1>5. X = s /\ e = m /\ InFlight("read_response", s, m) /\ m \in Devices
  BY <1>2, <1>4, InFlightOnWay DEF Visits, Devices
<1>6. device[m] = "read" /\ s = current_slave[m] /\ device[m] \in InTransfer
  BY <1>5 DEF ProtocolInv, PrivateOf, InTransfer
<1>7. MasterOK(m) /\ Partner(m) /\ slave_list_counter[m] = 0
  BY <1>6, InTransferOnly DEF MasterOK, TransferOf, Reads, ListsOf
<1>8. /\ device'[m] = "r" /\ state'[m] = "wait_req_r"
      /\ \A d \in Endpoints : d # m => device'[d] = device[d] /\ state'[d] = state[d]
      /\ UNCHANGED <<current_slave, pending_slaves, pending_start_responses, slave_list,
                     slave_list_counter, slave_list_ack, address_pattern>>
  BY <1>2, <1>5, <1>6 DEF DeliverReadResponse, TypeOK, answers, addressing
<1>9. /\ Takes("read_response", s, m) /\ QueueOK(net)' /\ Agree(net, current_master)'
      /\ Lead(m)' /\ OthersFly(m)
  BY <1>1, <1>2, <1>4, <1>5, Received
<1>10. OthersKept(m)
  BY <1>2, <1>4, <1>8, DevicesAreEndpoints, KeptByLeader DEF Untouched
<1>11. ASSUME NEW t \in Slaves \ {m} PROVE Quiet(m, t)' /\ ~Works(t)'
  <2>1. /\ ~Restarting(m, t) /\ ~InFlight("start_response", t, m)
        /\ ~InFlight("start_response_pending", t, m) /\ ~Thinks(t)
        /\ PrivateOf(m, t) /\ WorkOf(t) /\ current_master[t] = m /\ t \in Devices
    BY <1>6, InTransferOnly DEF Devices
  <2>2. ~InFlight("write_request", m, t) /\ ~InFlight("write_response", t, m)
    BY <1>6, <2>1 DEF PrivateOf
  <2>3. ~InFlight("read_request", m, t)
    BY <1>4, <1>6, <2>1 DEF PrivateOf, Alone
  <2>4. t # s => ~InFlight("read_response", t, m)
    BY <1>6, <2>1 DEF PrivateOf
  <2>5. ~Works(t)
    BY <1>5, <1>6, <2>1 DEF WorkOf, Works
  <2>6. state'[t] = state[t]
    BY <1>8, DevicesAreEndpoints
  <2>7. ~Works(t)'
    BY <2>5, <2>6 DEF Works, Thinks
  <2> QED BY <1>5, <1>9, <2>1, <2>2, <2>3, <2>4, <2>7 DEF Quiet, Takes
<1>12. Ready(m)'
  <2>1. Len(pending_start_responses[m]) = 0 /\ (slave_list[m] # <<>> => Broadcasting(m))
    BY <1>6, <1>7, InTransferOnly DEF MasterOK, ListsOf
  <2>2. Partner(m)'
    BY <1>2, <1>7, <1>8 DEF Partner, Chosen, Serves
  <2> QED BY <1>7, <1>8, <2>1, <2>2 DEF Ready, Broadcasting, Is10bit
<1>13. \A d \in Devices : current_master'[d] = m /\ ~InFlight("start_request", m, d)'
  BY <1>2, <1>4, <1>6, <1>9, InTransferOnly DEF Takes
<1> QED BY <1>4, <1>9, <1>10, <1>11, <1>12, <1>13, SettlesDown DEF OthersAsBefore

(* A slave is asked to read or write. *)
LEMMA RequestKeeps ==
  ASSUME ProtocolInv, TypeOK', NEW e \in Endpoints, DeliverRequest(e)
  PROVE  ProtocolInv'
<1>1. PICK X : X = Head(net).src
  OBVIOUS
<1>2. PICK T \in {"read_request", "write_request"} :
        /\ Receives(e, T)
        /\ state' = [state EXCEPT ![e] = IF T = "read_request" THEN "wait_rsp_r" ELSE "wait_rsp_w"]
  BY DEF DeliverRequest
<1>3. /\ net' = Taken(e) /\ TypeOK /\ current_master' = current_master
      /\ UNCHANGED <<current_slave, pending_slaves, pending_start_responses, slave_list,
                     slave_list_counter, slave_list_ack, address_pattern, device>>
  BY DEF DeliverRequest, ProtocolInv, answers, addressing
<1>4. PICK m \in Masters : \E s \in Slaves \ {m} :
           /\ Visits(T, X, e, m, s) /\ Alone(T, m, s)
           /\ Lead(m) /\ \A d \in Devices : current_master[d] = m
           /\ \E a : OnWay(T, X, a, e) /\ a = Head(net).status
  BY <1>1, <1>2, HeadPrivate
<1>5. PICK s \in Slaves \ {m} :
           /\ Visits(T, X, e, m, s) /\ Alone(T, m, s)
           /\ Lead(m) /\ \A d \in Devices : current_master[d] = m
           /\ \E a : OnWay(T, X, a, e) /\ a = Head(net).status
  BY <1>4
<1>6. X = m /\ e = s /\ InFlight(T, m, s) /\ m \in Devices /\ s \in Devices /\ s # m
  BY <1>2, <1>3, <1>5, InFlightOnWay DEF Visits, Devices
<1>7. /\ T = "read_request" => device[m] = "read" /\ s = current_slave[m]
      /\ T = "write_request" => device[m] = "write" /\ Written(m, s)
      /\ device[m] \in InTransfer /\ device[m] # "idle"
  BY <1>2, <1>6 DEF ProtocolInv, PrivateOf, InTransfer
<1>8. /\ MasterOK(m)
      /\ \A d \in Devices : ~InFlight("start_request", m, d)
      /\ \A t \in Slaves \ {m} :
              /\ ~Restarting(m, t) /\ ~InFlight("start_response", t, m)
              /\ ~InFlight("start_response_pending", t, m) /\ ~Thinks(t)
              /\ PrivateOf(m, t) /\ WorkOf(t) /\ current_master[t] = m
      /\ Len(pending_start_responses[m]) = 0
  BY <1>7, InTransferOnly
<1>9. /\ state'[s] = (IF T = "read_request" THEN "wait_rsp_r" ELSE "wait_rsp_w")
      /\ \A d \in Endpoints : d # s => state'[d] = state[d]
  BY <1>2, <1>6, DevicesAreEndpoints DEF TypeOK, ProtocolInv
<1>10. /\ Takes(T, m, s) /\ QueueOK(net)' /\ Agree(net, current_master)'
       /\ Lead(m)' /\ OthersFly(m)
  BY <1>1, <1>2, <1>3, <1>5, <1>6, Received
<1>11. OthersKept(m)
  BY <1>3, <1>5, KeptByLeader DEF Untouched
<1>12. \A t \in Slaves \ {m} : t # s => state'[t] = state[t]
  BY <1>9, DevicesAreEndpoints
<1>13. MasterOK(m)'
  <2>1. StartsOf(m)' /\ AskedOf(m)'
    BY <1>8, <1>10, InFlightOnWayNext DEF StartsOf, AskedOf, Takes
  <2>2. AskingOf(m)' /\ SelectsOf(m)'
    BY <1>3, <1>7 DEF AskingOf, SelectsOf, Selects, Asking, InTransfer
  <2>3. ListsOf(m)' /\ LateOf(m)'
    BY <1>3, <1>8 DEF MasterOK, ListsOf, LateOf, LateAnswer, Distinct, Has, Broadcasting, Is10bit
  <2>4. TransferOf(m)'
    <3>1. state'[m] = state[m]
      BY <1>6, <1>9, DevicesAreEndpoints
    <3>2. CASE T = "read_request"
      <4>1. Reads(m)'
        BY <1>3, <1>7, <1>8, <1>9, <3>1, <3>2 DEF MasterOK, TransferOf, Reads, Partner, Chosen, Serves
      <4> QED BY <1>3, <1>5, <1>7, <1>10, <3>2, <4>1 DEF TransferOf, Lead
    <3>3. CASE T = "write_request"
      <4>1. ASSUME NEW t \in Slaves \ {m}
            PROVE  OwesWrite(t, m)' <=> OwesWrite(t, m)
        <5>1. CASE t = s
          BY <1>3, <1>6, <1>8, <1>9, <3>3, <5>1 DEF OwesWrite
        <5>2. CASE t # s
          <6>1. InFlight("write_request", m, t)' <=> InFlight("write_request", m, t)
            BY <1>6, <1>10, <5>2 DEF Takes, Devices
          <6>2. InFlight("write_response", t, m)' <=> InFlight("write_response", t, m)
            BY <1>6, <1>10, <3>3 DEF Takes
          <6> QED BY <1>3, <1>12, <5>2, <6>1, <6>2 DEF OwesWrite
        <5> QED BY <5>1, <5>2
      <4>2. CASE slave_list[m] = <<>>
        <5>1. Writes(m)
          BY <1>7, <1>8, <3>3, <4>2 DEF MasterOK, TransferOf
        <5>2. current_slave[m] \in Slaves \ {m}
          BY <5>1 DEF Writes, Partner, Chosen, Serves
        <5>3. Writes(m)'
          BY <1>3, <3>1, <4>1, <5>1, <5>2 DEF Writes, Partner, Chosen, Serves, Broadcasting, Is10bit
        <5> QED BY <1>3, <1>5, <1>7, <1>10, <3>3, <4>2, <5>3 DEF TransferOf, Lead
      <4>3. CASE slave_list[m] # <<>>
        <5>1. WritesToAll(m)
          BY <1>7, <1>8, <3>3, <4>3 DEF MasterOK, TransferOf
        <5>2. Writing(m)' = Writing(m)
          BY <4>1 DEF Writing
        <5>3. WritesToAll(m)'
          BY <1>3, <3>1, <5>1, <5>2 DEF WritesToAll, Receiving, AllReceive, InList, Chosen, Serves, Is10bit
        <5> QED BY <1>3, <1>5, <1>7, <1>10, <3>3, <4>3, <5>3 DEF TransferOf, Lead
      <4> QED BY <4>2, <4>3
    <3> QED BY <1>2, <3>2, <3>3
  <2> QED BY <2>1, <2>2, <2>3, <2>4 DEF MasterOK
<1>14. ASSUME NEW t \in Slaves \ {m}
       PROVE  /\ Restarting(m, t)' => Restarting(m, t)
              /\ \A x \in MessageTypes :
                   /\ InFlight(x, m, t)' => InFlight(x, m, t)
                   /\ InFlight(x, t, m)' => InFlight(x, t, m)
              /\ \A a : OnWay("start_response", t, a, m)' => OnWay("start_response", t, a, m)
  BY <1>6, <1>10 DEF Takes, Devices
<1>15. ASSUME NEW t \in Slaves \ {m} PROVE PrivateOf(m, t)'
  <2>1. \A a : ~OnWay("start_response", t, a, m)
    BY <1>3, <1>8, InFlightOnWay
  <2>2. /\ ~InFlight("start_response", t, m)' /\ ~InFlight("start_response_pending", t, m)'
        /\ \A a : ~OnWay("start_response", t, a, m)'
    BY <1>8, <1>14, <2>1 DEF MessageTypes
  <2>3. /\ InFlight("read_request", m, t)' \/ InFlight("read_response", t, m)' =>
             device'[m] = "read" /\ t = current_slave'[m]
        /\ InFlight("write_request", m, t)' \/ InFlight("write_response", t, m)' =>
             device'[m] = "write" /\ Written(m, t)'
    BY <1>3, <1>8, <1>14 DEF PrivateOf, Written, InList, MessageTypes
  <2> QED BY <2>2, <2>3 DEF PrivateOf
<1>16. ASSUME NEW t \in Slaves \ {m} PROVE WorkOf(t)'
  <2>1. CASE t # s
    BY <1>3, <1>8, <1>10, <1>12, <1>14, <2>1 DEF WorkOf, Works, Thinks, Written, InList, MessageTypes, Lead
  <2>2. CASE t = s
    <3>1. /\ ~InFlight("read_request", m, s)' /\ ~InFlight("write_request", m, s)'
          /\ ~InFlight("read_response", s, m)' /\ ~InFlight("write_response", s, m)'
          /\ ~InFlight("start_request", m, s)' /\ ~InFlight("start_response", s, m)'
      BY <1>2, <1>5, <1>6, <1>8, <1>10 DEF Alone, Takes
    <3> QED BY <1>2, <1>3, <1>7, <1>8, <1>9, <1>10, <2>2, <3>1 DEF WorkOf, Works, Thinks, Written, InList, Lead
  <2> QED BY <2>1, <2>2
<1> QED BY <1>3, <1>5, <1>7, <1>10, <1>11, <1>13, <1>15, <1>16, LeadKeeps DEF OthersAsBefore
----------------------------------------------------------------------------
(* Lists of slaves and their number. *)

LEMMA RemoveFirstKeeps ==
  ASSUME NEW S, NEW q \in Seq(S), NEW x, Distinct(q), NEW r, r = RemoveFirst(q, x)
  PROVE  /\ r \in Seq(S) /\ Len(r) \in Nat /\ Distinct(r)
         /\ \A y : Has(r, y) <=> Has(q, y) /\ y # x
<1>1. r \in Seq(S) /\ Len(r) \in Nat /\ Len(q) \in Nat
  BY RemoveFirstType, LenProperties
<1> DEFINE I == {i \in 1..Len(q) : q[i] = x}
<1>2. CASE I = {}
  <2>1. r = q /\ ~Has(q, x)
    BY <1>2 DEF RemoveFirst, Has
  <2> QED BY <1>1, <2>1 DEF Has
<1>3. CASE I # {}
  <2>1. I \subseteq Nat
    BY LenProperties
  <2>2. PICK i \in I : \A j \in I : i <= j
    <3> HIDE DEF I
    <3> QED BY <1>3, <2>1, LeastNatural
  <2>3. Min(I) \in I
    BY <2>2 DEF Min
  <2>4. PICK k : k = Min(I)
    OBVIOUS
  <2>5. k \in 1..Len(q) /\ q[k] = x
    BY <2>3, <2>4
  <2>6. SelectInSeq(q, LAMBDA v : v = x) = k
    BY <1>3, <2>4 DEF SelectInSeq
  <2>7. r = SubSeq(q, 1, k - 1) \o SubSeq(q, k + 1, Len(q))
    BY <2>5, <2>6 DEF RemoveFirst, RemoveAt
  <2>8. PICK f : f = SubSeq(q, 1, k - 1)
    OBVIOUS
  <2>9. PICK t : t = SubSeq(q, k + 1, Len(q))
    OBVIOUS
  <2>10. /\ f \in Seq(S) /\ Len(f) = k - 1 /\ \A j \in 1..(k - 1) : f[j] = q[j]
    BY <1>1, <2>5, <2>8, SubSeqProperties, ElementOfSeq
  <2>11. /\ t \in Seq(S) /\ Len(t) = Len(q) - k /\ \A j \in 1..(Len(q) - k) : t[j] = q[j + k]
    BY <1>1, <2>5, <2>9, SubSeqProperties, ElementOfSeq
  <2>12. /\ Len(r) = Len(q) - 1
         /\ \A j \in 1..Len(r) : r[j] = IF j < k THEN q[j] ELSE q[j + 1]
    <3>1. /\ Len(r) = Len(f) + Len(t)
          /\ \A j \in 1..(Len(f) + Len(t)) : r[j] = IF j <= Len(f) THEN f[j] ELSE t[j - Len(f)]
      BY <2>7, <2>8, <2>9, <2>10, <2>11, ConcatProperties
    <3>2. Len(r) = Len(q) - 1
      BY <1>1, <2>5, <2>10, <2>11, <3>1
    <3>3. ASSUME NEW j \in 1..Len(r) PROVE r[j] = IF j < k THEN q[j] ELSE q[j + 1]
      <4>1. CASE j < k
        BY <2>5, <2>10, <3>1, <4>1
      <4>2. CASE ~(j < k)
        <5>1. /\ r[j] = t[j - Len(f)] /\ j - Len(f) \in 1..(Len(q) - k)
              /\ (j - Len(f)) + k = j + 1
          BY <1>1, <2>5, <2>10, <2>11, <3>1, <3>2, <4>2
        <5>2. t[j - Len(f)] = q[(j - Len(f)) + k]
          BY <2>11, <5>1
        <5> QED BY <4>2, <5>1, <5>2
      <4> QED BY <4>1, <4>2
    <3> QED BY <3>2, <3>3
  <2>13. Distinct(r)
    <3> SUFFICES ASSUME NEW i1 \in 1..Len(r), NEW j1 \in 1..Len(r), r[i1] = r[j1] PROVE i1 = j1
      BY DEF Distinct
    <3>1. \A n \in 1..Len(r) : n \in 1..Len(q) /\ n + 1 \in 1..Len(q)
      BY <1>1, <2>12
    <3>2. \A n, l \in 1..Len(q) : q[n] = q[l] => n = l
      BY DEF Distinct
    <3>3. CASE i1 < k /\ j1 < k
      BY <2>12, <3>1, <3>2, <3>3
    <3>4. CASE i1 < k /\ ~(j1 < k)
      BY <2>5, <2>12, <3>1, <3>2, <3>4
    <3>5. CASE ~(i1 < k) /\ j1 < k
      BY <2>5, <2>12, <3>1, <3>2, <3>5
    <3>6. CASE ~(i1 < k) /\ ~(j1 < k)
      <4>1. i1 + 1 = j1 + 1
        BY <2>12, <3>1, <3>2, <3>6
      <4> QED BY <4>1
    <3> QED BY <3>3, <3>4, <3>5, <3>6
  <2>14. ASSUME NEW y PROVE Has(r, y) <=> Has(q, y) /\ y # x
    <3>1. ASSUME Has(r, y) PROVE Has(q, y) /\ y # x
      <4>1. PICK j \in 1..Len(r) : r[j] = y
        BY <3>1 DEF Has
      <4>2. PICK n \in 1..Len(q) : n # k /\ q[n] = y
        <5>1. CASE j < k
          BY <1>1, <2>12, <4>1, <5>1
        <5>2. CASE ~(j < k)
          BY <1>1, <2>5, <2>12, <4>1, <5>2
        <5> QED BY <5>1, <5>2
      <4>3. y # x
        BY <2>5, <4>2 DEF Distinct
      <4> QED BY <4>2, <4>3 DEF Has
    <3>2. ASSUME Has(q, y), y # x PROVE Has(r, y)
      <4>1. PICK n \in 1..Len(q) : q[n] = y
        BY <3>2 DEF Has
      <4>2. n # k
        BY <2>5, <3>2, <4>1
      <4>3. CASE n < k
        <5>1. n \in 1..Len(r) /\ r[n] = y
          BY <1>1, <2>5, <2>12, <4>1, <4>3
        <5> QED BY <5>1 DEF Has
      <4>4. CASE n > k
        <5>1. n - 1 \in 1..Len(r) /\ ~(n - 1 < k) /\ (n - 1) + 1 = n
          BY <1>1, <2>5, <2>12, <4>4
        <5>2. r[n - 1] = y
          BY <2>12, <4>1, <5>1
        <5> QED BY <5>1, <5>2 DEF Has
      <4> QED BY <2>5, <4>2, <4>3, <4>4
    <3> QED BY <3>1, <3>2
  <2> QED BY <1>1, <2>13, <2>14
<1> QED BY <1>2, <1>3

LEMMA OneFewer ==
  ASSUME NEW S \in SUBSET Slaves, NEW x \in S, NEW T, T = S \ {x}
  PROVE  /\ Cardinality(S) \in Nat /\ Cardinality(S) >= 1 /\ Cardinality(T) = Cardinality(S) - 1
         /\ Cardinality(S) = 1 <=> T = {}
<1>1. IsFiniteSet(Slaves)
  BY EndpointsAssumption, FS_Subset
<1>2. IsFiniteSet(S)
  BY <1>1, FS_Subset
<1>3. IsFiniteSet(T) /\ Cardinality(T) = Cardinality(S) - 1
  BY <1>2, FS_RemoveElement
<1>4. Cardinality(S) \in Nat /\ Cardinality(T) \in Nat
  BY <1>2, <1>3, FS_CardinalityType
<1>5. Cardinality(T) = 0 <=> T = {}
  BY <1>3, FS_EmptySet
<1> QED BY <1>3, <1>4, <1>5

LEMMA ListOf ==
  ASSUME NEW m
  PROVE  /\ \A s : InList(s, m) <=> Has(slave_list[m], s)
         /\ Receiving(m) <=> Distinct(slave_list[m]) /\ \A s : Has(slave_list[m], s) => Chosen(s, m)
<1>1. \A s : InList(s, m) <=> Has(slave_list[m], s)
  BY DEF InList, Has
<1>2. Receiving(m) <=> Distinct(slave_list[m]) /\ \A s : Has(slave_list[m], s) => Chosen(s, m)
  <2>1. ASSUME Receiving(m) PROVE Distinct(slave_list[m]) /\ \A s : Has(slave_list[m], s) => Chosen(s, m)
    BY <2>1 DEF Receiving, Distinct, Has
  <2>2. ASSUME Distinct(slave_list[m]), \A s : Has(slave_list[m], s) => Chosen(s, m) PROVE Receiving(m)
    <3> SUFFICES ASSUME NEW i \in 1..Len(slave_list[m])
                 PROVE  /\ Chosen(slave_list[m][i], m)
                        /\ \A j \in 1..Len(slave_list[m]) : slave_list[m][i] = slave_list[m][j] => i = j
      BY DEF Receiving
    <3>1. Has(slave_list[m], slave_list[m][i])
      BY DEF Has
    <3> QED BY <2>2, <3>1 DEF Distinct
  <2> QED BY <2>1, <2>2
<1> QED BY <1>1, <1>2

LEMMA ListNotEmpty ==
  ASSUME NEW S, NEW q \in Seq(S)
  PROVE  q # <<>> <=> \E x : Has(q, x)
<1>1. Len(q) \in Nat /\ (q = <<>> <=> Len(q) = 0)
  BY LenProperties, EmptySeq
<1>2. q # <<>> => Has(q, q[1])
  BY <1>1 DEF Has
<1> QED BY <1>1, <1>2 DEF Has

----------------------------------------------------------------------------
(* The answers to a write. *)

LEMMA StillWriting ==
  ASSUME ProtocolInv, TypeOK', NEW m \in Masters, NEW s \in Slaves \ {m}, device[m] = "write",
         Alone("write_response", m, s), InFlight("write_response", s, m),
         Takes("write_response", s, m), current_master' = current_master,
         \A d \in Devices : d # m => state'[d] = state[d]
  PROVE  /\ \A d \in Devices : ~InFlight("start_request", m, d)'
         /\ s \in Writing(m) /\ Writing(m)' = Writing(m) \ {s}
         /\ \A t \in Slaves \ {m} :
              /\ ~Restarting(m, t)' /\ ~InFlight("start_response", t, m)'
              /\ ~InFlight("start_response_pending", t, m)' /\ ~InFlight("read_request", m, t)'
              /\ ~InFlight("read_response", t, m)'
              /\ InFlight("write_request", m, t)' => InFlight("write_request", m, t)
              /\ InFlight("write_response", t, m)' => InFlight("write_response", t, m)
              /\ t \notin Writing(m)' => ~Works(t)' /\ Quiet(m, t)'
              /\ Works(t)' => state'[t] = "wait_rsp_w" /\ Works(t)
         /\ \A t \in Writing(m) : Written(m, t)
<1>1. device[m] \in InTransfer /\ m \in Devices /\ s \in Devices
  BY DEF InTransfer, Devices
<1>2. ASSUME NEW t \in Slaves \ {m}
      PROVE  /\ ~Restarting(m, t) /\ ~InFlight("start_response", t, m)
             /\ ~InFlight("start_response_pending", t, m) /\ ~Thinks(t)
             /\ PrivateOf(m, t) /\ WorkOf(t) /\ current_master[t] = m /\ t \in Devices
             /\ state'[t] = state[t]
  BY <1>1, InTransferOnly DEF Devices
<1>3. ASSUME NEW t \in Slaves \ {m}
      PROVE  /\ ~InFlight("read_request", m, t) /\ ~InFlight("read_response", t, m)
             /\ Works(t) => state[t] = "wait_rsp_w"
  BY <1>2 DEF PrivateOf, WorkOf, Works
<1>4. \A d \in Devices : ~InFlight("start_request", m, d)'
  BY <1>1, InTransferOnly DEF Takes
<1>5. s \in Writing(m)
  BY DEF Writing, OwesWrite
<1>6. ASSUME NEW t \in Slaves \ {m}
      PROVE  /\ InFlight("write_request", m, t)' <=> InFlight("write_request", m, t)
             /\ InFlight("write_response", t, m)' <=> InFlight("write_response", t, m) /\ t # s
             /\ ~Restarting(m, t)' /\ ~InFlight("start_response", t, m)'
             /\ ~InFlight("start_response_pending", t, m)' /\ ~InFlight("read_request", m, t)'
             /\ ~InFlight("read_response", t, m)'
             /\ Works(t)' <=> Works(t)
  <2>1. Works(t)' <=> Works(t)
    BY <1>2 DEF Works, Thinks
  <2> QED BY <1>1, <1>2, <1>3, <2>1 DEF Takes
<1>7. ~InFlight("write_request", m, s) /\ ~Works(s)
  BY <1>2 DEF Alone, WorkOf
<1>8. ASSUME NEW t \in Slaves \ {m} PROVE OwesWrite(t, m)' <=> OwesWrite(t, m) /\ t # s
  BY <1>2, <1>6, <1>7 DEF OwesWrite, Works
<1>9. Writing(m)' = Writing(m) \ {s}
  BY <1>8 DEF Writing
<1>10. ASSUME NEW t \in Writing(m) PROVE Written(m, t)
  BY <1>2 DEF Writing, OwesWrite, WorkOf, Works, PrivateOf
<1>11. ASSUME NEW t \in Slaves \ {m}, t \notin Writing(m)' PROVE ~Works(t)' /\ Quiet(m, t)'
  <2>1. ~OwesWrite(t, m)'
    BY <1>11 DEF Writing
  <2> QED BY <1>2, <1>3, <1>6, <2>1 DEF OwesWrite, Quiet
<1>12. ASSUME NEW t \in Slaves \ {m}, Works(t)' PROVE state'[t] = "wait_rsp_w" /\ Works(t)
  BY <1>2, <1>3, <1>6, <1>12
<1> QED BY <1>4, <1>5, <1>6, <1>9, <1>10, <1>11, <1>12

LEMMA WriteResponseKeeps ==
  ASSUME ProtocolInv, TypeOK', NEW e \in Endpoints, DeliverWriteResponse(e)
  PROVE  ProtocolInv'
<1>1. PICK X : X = Head(net).src
  OBVIOUS
<1>2. Receives(e, "write_response") /\ net' = Taken(e) /\ TypeOK /\ current_master' = current_master
  BY DEF DeliverWriteResponse, ProtocolInv
<1>3. PICK m \in Masters : \E s \in Slaves \ {m} :
           /\ Visits("write_response", X, e, m, s) /\ Alone("write_response", m, s)
           /\ Lead(m) /\ \A d \in Devices : current_master[d] = m
           /\ \E a : OnWay("write_response", X, a, e) /\ a = Head(net).status
  BY <1>1, <1>2, HeadPrivate
<1>4. PICK s \in Slaves \ {m} :
           /\ Visits("write_response", X, e, m, s) /\ Alone("write_response", m, s)
           /\ Lead(m) /\ \A d \in Devices : current_master[d] = m
           /\ \E a : OnWay("write_response", X, a, e) /\ a = Head(net).status
  BY <1>3
<1>5. X = s /\ e = m /\ InFlight("write_response", s, m) /\ m \in Devices
  BY <1>2, <1>4, InFlightOnWay DEF Visits, Devices
<1>6. device[m] = "write" /\ Written(m, s) /\ device[m] \in InTransfer
  BY <1>5 DEF ProtocolInv, PrivateOf, InTransfer
<1>7. MasterOK(m)
  BY <1>6, InTransferOnly
<1>8. slave_list[m] = <<>> /\ Writes(m) /\ slave_list_counter[m] = 0 /\ state[m] = "wait_rsp_w"
      /\ s = current_slave[m]
  BY <1>5, <1>6, <1>7 DEF MasterOK, ListsOf, TransferOf, DeliverWriteResponse, Writes, Written
<1>9. PICK ack : ack = Head(net).status
  OBVIOUS
<1>10. /\ device'[m] = (IF ack = NOACK THEN "nack" ELSE "w") /\ state'[m] = "wait_req_w"
       /\ \A d \in Endpoints : d # m => device'[d] = device[d] /\ state'[d] = state[d]
       /\ UNCHANGED <<current_slave, pending_slaves, pending_start_responses, slave_list,
                      slave_list_counter, slave_list_ack, address_pattern>>
  BY <1>2, <1>5, <1>6, <1>8, <1>9
     DEF DeliverWriteResponse, Acknowledge, Answered, TypeOK, answers, addressing
<1>11. /\ Takes("write_response", s, m) /\ QueueOK(net)' /\ Agree(net, current_master)'
       /\ Lead(m)' /\ OthersFly(m)
  BY <1>1, <1>2, <1>4, <1>5, Received
<1>12. OthersKept(m)
  BY <1>2, <1>4, <1>10, DevicesAreEndpoints, KeptByLeader DEF Untouched
<1>13. \A d \in Devices : d # m => state'[d] = state[d]
  BY <1>10, DevicesAreEndpoints
<1>14. ASSUME NEW t \in Slaves \ {m} PROVE Quiet(m, t)' /\ ~Works(t)'
  <2>1. Writing(m) \subseteq {s}
    BY <1>2, <1>4, <1>5, <1>6, <1>8, <1>11, <1>13, StillWriting DEF Written
  <2>2. Writing(m)' = {}
    BY <1>2, <1>4, <1>5, <1>6, <1>11, <1>13, <2>1, StillWriting
  <2> QED BY <1>2, <1>4, <1>5, <1>6, <1>11, <1>13, <2>2, StillWriting
<1>15. Ready(m)'
  <2>1. Len(pending_start_responses[m]) = 0
    BY <1>6, InTransferOnly
  <2>2. Partner(m)'
    BY <1>2, <1>8, <1>10 DEF Writes, Partner, Chosen, Serves
  <2> QED BY <1>8, <1>10, <2>1, <2>2 DEF Ready, Accepting
<1>16. \A d \in Devices : current_master'[d] = m /\ ~InFlight("start_request", m, d)'
  BY <1>2, <1>4, <1>6, <1>11, InTransferOnly DEF Takes
<1> QED BY <1>4, <1>11, <1>12, <1>14, <1>15, <1>16, SettlesDown DEF OthersAsBefore

(* A stopped write is answered before its stop. *)
LEMMA NotStray ==
  ASSUME ProtocolInv, NEW e \in Endpoints
  PROVE  ~DeliverStrayWriteResponse(e)
<1> SUFFICES ASSUME DeliverStrayWriteResponse(e) PROVE FALSE
  OBVIOUS
<1>1. PICK X : X = Head(net).src
  OBVIOUS
<1>2. Receives(e, "write_response")
  BY DEF DeliverStrayWriteResponse
<1>3. PICK m \in Masters : \E s \in Slaves \ {m} :
           /\ Visits("write_response", X, e, m, s) /\ Alone("write_response", m, s)
           /\ Lead(m) /\ \A d \in Devices : current_master[d] = m
           /\ \E a : OnWay("write_response", X, a, e) /\ a = Head(net).status
  BY <1>1, <1>2, HeadPrivate
<1>4. current_master[e] = m
  BY <1>3 DEF Visits, Devices
<1> QED BY <1>4, NoneIsNoMaster DEF DeliverStrayWriteResponse, IsStray

LEMMA BroadcastWriteResponseKeeps ==
  ASSUME ProtocolInv, TypeOK', NEW e \in Endpoints, DeliverBroadcastWriteResponse(e)
  PROVE  ProtocolInv'
<1>1. PICK X : X = Head(net).src
  OBVIOUS
<1>2. /\ Receives(e, "write_response") /\ net' = Taken(e) /\ TypeOK
      /\ current_master' = current_master /\ Broadcasting(e)
  BY DEF DeliverBroadcastWriteResponse, ProtocolInv
<1>3. PICK m \in Masters : \E s \in Slaves \ {m} :
           /\ Visits("write_response", X, e, m, s) /\ Alone("write_response", m, s)
           /\ Lead(m) /\ \A d \in Devices : current_master[d] = m
           /\ \E a : OnWay("write_response", X, a, e) /\ a = Head(net).status
  BY <1>1, <1>2, HeadPrivate
<1>4. PICK s \in Slaves \ {m} :
           /\ Visits("write_response", X, e, m, s) /\ Alone("write_response", m, s)
           /\ Lead(m) /\ \A d \in Devices : current_master[d] = m
           /\ \E a : OnWay("write_response", X, a, e) /\ a = Head(net).status
  BY <1>3
<1>5. X = s /\ e = m /\ InFlight("write_response", s, m) /\ m \in Devices /\ m \in Endpoints
  BY <1>2, <1>4, InFlightOnWay, DevicesAreEndpoints DEF Visits, Devices
<1>6. device[m] = "write" /\ Written(m, s) /\ device[m] \in InTransfer
  BY <1>5 DEF ProtocolInv, PrivateOf, InTransfer
<1>7. /\ MasterOK(m) /\ Len(pending_start_responses[m]) = 0
      /\ \A d \in Devices : ~InFlight("start_request", m, d)
  BY <1>6, InTransferOnly
<1>8. /\ slave_list[m] # <<>> /\ WritesToAll(m) /\ Has(slave_list[m], s)
      /\ Distinct(slave_list[m]) /\ \A t : Has(slave_list[m], t) => Chosen(t, m)
  <2>1. slave_list[m] # <<>> /\ WritesToAll(m)
    BY <1>2, <1>5, <1>6, <1>7 DEF MasterOK, TransferOf, Writes
  <2> QED BY <1>6, <2>1, ListOf DEF Written, WritesToAll
<1>9. PICK ack : ack = Head(net).status
  OBVIOUS
<1>10. PICK second : second = Is10bit(address_pattern[m])
  OBVIOUS
<1>11. (state[m] = "wait_rsp_10bit_addr_w") <=> Is10bit(address_pattern[m])
  BY <1>8 DEF WritesToAll
<1>12. PICK left : left = IF state[m] = "wait_rsp_10bit_addr_w" /\ ack = NOACK
                          THEN RemoveFirst(slave_list[m], s) ELSE slave_list[m]
  OBVIOUS
<1>13. PICK final : final = IF slave_list_counter[m] = 1 /\ state[m] = "wait_rsp_10bit_addr_w" /\ Len(left) > 1
                            THEN NOACK
                            ELSE IF slave_list_ack[m] = ACK \/ ack = ACK THEN ACK ELSE NOACK
  OBVIOUS
<1>14. PICK found \in BOOLEAN : found <=>
         slave_list_counter[m] = 1 /\ state[m] = "wait_rsp_10bit_addr_w" /\ Len(left) = 1
  OBVIOUS
<1>15. /\ slave_list_counter' = [slave_list_counter EXCEPT ![m] = (@ - 1) % CounterSize]
       /\ slave_list_ack' = [slave_list_ack EXCEPT ![m] = final]
       /\ slave_list' = [slave_list EXCEPT ![m] = IF found THEN <<>> ELSE left]
       /\ current_slave' = [current_slave EXCEPT ![m] = IF found THEN left[1] ELSE @]
       /\ state' = [state EXCEPT ![m] =
                    IF slave_list_counter[m] # 1 THEN @
                    ELSE IF state[m] = "wait_rsp_10bit_addr_w" THEN (IF found THEN "wait_req_w" ELSE "wait_stop")
                    ELSE IF @ = "wait_stop" THEN @ ELSE "wait_req_w"]
       /\ IF slave_list_counter[m] = 1 THEN device' = [device EXCEPT ![m] = Answered(@, final)]
          ELSE device' = device
       /\ UNCHANGED <<pending_slaves, pending_start_responses, address_pattern>>
  <2>1. left = IF state[e] = "wait_rsp_10bit_addr_w" /\ Head(net).status = NOACK
               THEN RemoveFirst(slave_list[e], Head(net).src) ELSE slave_list[e]
    BY <1>1, <1>5, <1>9, <1>12
  <2>2. final = IF slave_list_counter[e] = 1 /\ state[e] = "wait_rsp_10bit_addr_w" /\ Len(left) > 1
                THEN NOACK
                ELSE IF slave_list_ack[e] = ACK \/ Head(net).status = ACK THEN ACK ELSE NOACK
    BY <1>5, <1>9, <1>13
  <2>3. found <=> slave_list_counter[e] = 1 /\ state[e] = "wait_rsp_10bit_addr_w" /\ Len(left) = 1
    BY <1>5, <1>14
  <2>4. slave_list_counter' = [slave_list_counter EXCEPT ![e] = (@ - 1) % CounterSize]
    BY DEF DeliverBroadcastWriteResponse
  <2>5. slave_list_ack' = [slave_list_ack EXCEPT ![e] = final]
    BY <2>1, <2>2 DEF DeliverBroadcastWriteResponse
  <2>6. slave_list' = [slave_list EXCEPT ![e] = IF found THEN <<>> ELSE left]
    BY <2>1, <2>3 DEF DeliverBroadcastWriteResponse
  <2>7. current_slave' = [current_slave EXCEPT ![e] = IF found THEN left[1] ELSE @]
    BY <2>1, <2>3 DEF DeliverBroadcastWriteResponse
  <2>8. state' = [state EXCEPT ![e] =
                    IF slave_list_counter[e] # 1 THEN @
                    ELSE IF state[e] = "wait_rsp_10bit_addr_w" THEN (IF found THEN "wait_req_w" ELSE "wait_stop")
                    ELSE IF @ = "wait_stop" THEN @ ELSE "wait_req_w"]
    BY <2>1, <2>3 DEF DeliverBroadcastWriteResponse
  <2>9. IF slave_list_counter[e] = 1 THEN device' = [device EXCEPT ![e] = Answered(@, final)]
        ELSE device' = device
    BY <2>1, <2>2 DEF DeliverBroadcastWriteResponse, Acknowledge
  <2>10. UNCHANGED <<pending_slaves, pending_start_responses, address_pattern>>
    BY DEF DeliverBroadcastWriteResponse, answers
  <2> QED BY <1>5, <2>4, <2>5, <2>6, <2>7, <2>8, <2>9, <2>10
<1>16. /\ slave_list_counter'[m] = (slave_list_counter[m] - 1) % CounterSize
       /\ slave_list_ack'[m] = final
       /\ slave_list'[m] = (IF found THEN <<>> ELSE left)
       /\ current_slave'[m] = (IF found THEN left[1] ELSE current_slave[m])
       /\ state'[m] = (IF slave_list_counter[m] # 1 THEN state[m]
                       ELSE IF state[m] = "wait_rsp_10bit_addr_w" THEN (IF found THEN "wait_req_w" ELSE "wait_stop")
                       ELSE "wait_req_w")
       /\ device'[m] = (IF slave_list_counter[m] # 1 THEN "write"
                        ELSE IF final = NOACK THEN "nack" ELSE "w")
  BY <1>2, <1>5, <1>6, <1>8, <1>15 DEF TypeOK, WritesToAll, Answered
<1>17. \A d \in Endpoints : d # m =>
         /\ device'[d] = device[d] /\ state'[d] = state[d] /\ current_slave'[d] = current_slave[d]
         /\ slave_list'[d] = slave_list[d] /\ slave_list_ack'[d] = slave_list_ack[d]
         /\ slave_list_counter'[d] = slave_list_counter[d]
         /\ address_pattern'[d] = address_pattern[d]
         /\ pending_start_responses'[d] = pending_start_responses[d]
  BY <1>2, <1>5, <1>15 DEF TypeOK
<1>18. /\ left \in Seq(Endpoints \cup {None}) /\ Len(left) \in Nat /\ Distinct(left)
       /\ \A t : Has(left, t) => Has(slave_list[m], t)
       /\ \A t : Has(slave_list[m], t) /\ t # s => Has(left, t)
       /\ ack = ACK \/ ~Is10bit(address_pattern[m]) => left = slave_list[m]
  <2>1. slave_list[m] \in Seq(Endpoints \cup {None})
    BY <1>2, <1>5 DEF TypeOK
  <2>2. CASE left = slave_list[m]
    BY <1>8, <2>1, <2>2, LenProperties
  <2>3. CASE left = RemoveFirst(slave_list[m], s) /\ ack = NOACK /\ Is10bit(address_pattern[m])
    BY <1>8, <2>1, <2>3, RemoveFirstKeeps DEF ACK, NOACK
  <2> QED BY <1>11, <1>12, <2>2, <2>3
<1>19. /\ Takes("write_response", s, m) /\ QueueOK(net)' /\ Agree(net, current_master)'
       /\ Lead(m)' /\ OthersFly(m)
  BY <1>1, <1>2, <1>4, <1>5, Received
<1>20. OthersKept(m)
  BY <1>2, <1>4, <1>17, DevicesAreEndpoints, KeptByLeader DEF Untouched
<1>21. \A d \in Devices : d # m => state'[d] = state[d]
  BY <1>17, DevicesAreEndpoints
<1>22. /\ \A d \in Devices : ~InFlight("start_request", m, d)'
       /\ s \in Writing(m) /\ Writing(m)' = Writing(m) \ {s}
       /\ \A t \in Slaves \ {m} :
              /\ ~Restarting(m, t)' /\ ~InFlight("start_response", t, m)'
              /\ ~InFlight("start_response_pending", t, m)' /\ ~InFlight("read_request", m, t)'
              /\ ~InFlight("read_response", t, m)'
              /\ InFlight("write_request", m, t)' => InFlight("write_request", m, t)
              /\ InFlight("write_response", t, m)' => InFlight("write_response", t, m)
              /\ t \notin Writing(m)' => ~Works(t)' /\ Quiet(m, t)'
              /\ Works(t)' => state'[t] = "wait_rsp_w" /\ Works(t)
       /\ \A t \in Writing(m) : Written(m, t)
  BY <1>2, <1>4, <1>5, <1>6, <1>19, <1>21, StillWriting
<1>23. \A t \in Writing(m) : Has(slave_list[m], t) /\ t \in Slaves \ {m}
  BY <1>8, <1>22, ListOf DEF Written, Writing
<1>24. /\ slave_list_counter[m] = Cardinality(Writing(m)) /\ Cardinality(Writing(m)) \in Nat
       /\ Cardinality(Writing(m)) >= 1 /\ Cardinality(Writing(m)') = Cardinality(Writing(m)) - 1
       /\ slave_list_counter[m] = 1 <=> Writing(m)' = {}
  <2>1. Writing(m) \in SUBSET Slaves
    BY DEF Writing
  <2>2. PICK W : W = Writing(m)'
    OBVIOUS
  <2> QED BY <1>8, <1>22, <2>1, <2>2, OneFewer DEF WritesToAll
<1>25. slave_list_counter'[m] = slave_list_counter[m] - 1
  <2>1. slave_list_counter[m] \in 0..(CounterSize - 1) /\ CounterSize \in Nat \ {0}
    BY <1>2, <1>5, EndpointsAssumption DEF TypeOK
  <2>2. PICK c \in 0..(CounterSize - 1) : c = slave_list_counter[m] /\ c >= 1
    BY <1>24, <2>1
  <2>3. (c - 1) % CounterSize = c - 1
    BY <2>1, <2>2
  <2> QED BY <1>16, <2>2, <2>3
<1>26. \A t : t # m => (Chosen(t, m)' <=> Chosen(t, m))
  BY <1>2, <1>17, DevicesAreEndpoints DEF Chosen, Serves, Devices
<1>27. \A t : Has(slave_list[m], t) => Chosen(t, m)' /\ Chosen(t, m) /\ t \in Slaves \ {m}
  BY <1>8, <1>26 DEF Chosen, Serves
<1>28. slave_list'[m] = left => Receiving(m)'
  <2> SUFFICES ASSUME slave_list'[m] = left PROVE Receiving(m)'
    OBVIOUS
  <2>1. \A i \in 1..Len(left) : Chosen(left[i], m)'
    <3> SUFFICES ASSUME NEW i \in 1..Len(left) PROVE Chosen(left[i], m)'
      OBVIOUS
    <3>1. PICK t : t = left[i]
      OBVIOUS
    <3>2. Has(slave_list[m], t)
      BY <1>18, <3>1 DEF Has
    <3>3. Chosen(t, m)'
      BY <1>27, <3>2
    <3> QED BY <3>1, <3>3 DEF Chosen, Serves
  <2> QED BY <1>18, <2>1 DEF Receiving, Distinct, Chosen, Serves
<1>29. slave_list'[m] = slave_list[m] /\ ~Is10bit(address_pattern[m]) => AllReceive(m)'
  <2> SUFFICES ASSUME slave_list'[m] = slave_list[m], ~Is10bit(address_pattern[m]),
                      NEW t \in Slaves, Chosen(t, m)'
               PROVE  InList(t, m)'
    BY DEF AllReceive
  <2>1. t # m
    BY DEF Chosen, Serves
  <2>2. InList(t, m)
    BY <1>8, <1>26, <2>1 DEF WritesToAll, AllReceive
  <2> QED BY <2>2 DEF InList
<1>30. CASE slave_list_counter[m] # 1
  <2>1. ~found /\ slave_list'[m] = left /\ Writing(m)' # {} /\ device'[m] = "write" /\ state'[m] = state[m]
        /\ current_slave'[m] = current_slave[m]
    BY <1>14, <1>16, <1>24, <1>30
  <2>2. \A t \in Writing(m)' : Has(left, t)
    BY <1>18, <1>22, <1>23
  <2>3. left # <<>>
    <3>1. PICK t : t \in Writing(m)'
      BY <2>1
    <3> QED BY <1>18, <2>2, <3>1, ListNotEmpty
  <2>4. MasterOK(m)'
    <3>1. StartsOf(m)' /\ AskedOf(m)'
      BY <1>22, InFlightOnWayNext DEF StartsOf, AskedOf
    <3>2. AskingOf(m)' /\ SelectsOf(m)'
      BY <2>1 DEF AskingOf, SelectsOf, Selects, Asking
    <3>3. ListsOf(m)' /\ LateOf(m)'
      BY <1>2, <1>5, <1>7, <1>15, <2>1 DEF ListsOf, LateOf, LateAnswer, Distinct, Has, Broadcasting, Is10bit
    <3>4. slave_list_ack'[m] = ACK /\ Is10bit(address_pattern[m]) =>
              \E t \in Slaves : Has(left, t) /\ t \notin Writing(m)'
      <4> SUFFICES ASSUME slave_list_ack'[m] = ACK, Is10bit(address_pattern[m])
                   PROVE  \E t \in Slaves : Has(left, t) /\ t \notin Writing(m)'
        OBVIOUS
      <4>1. slave_list_ack[m] = ACK \/ ack = ACK
        BY <1>13, <1>16, <1>30 DEF ACK, NOACK
      <4>2. CASE slave_list_ack[m] = ACK
        <5>1. PICK t \in Slaves : InList(t, m) /\ t \notin Writing(m)
          BY <1>8, <4>2 DEF WritesToAll
        <5>2. Has(slave_list[m], t) /\ t # s
          BY <1>22, <5>1, ListOf
        <5> QED BY <1>18, <1>22, <5>1, <5>2
      <4>3. CASE ack = ACK
        BY <1>8, <1>18, <1>22, <4>3
      <4> QED BY <4>1, <4>2, <4>3
    <3>5. WritesToAll(m)'
      <4>1. \A t : InList(t, m)' <=> Has(left, t)
        BY <2>1 DEF InList, Has
      <4>2. state'[m] = IF Is10bit(address_pattern[m]) THEN "wait_rsp_10bit_addr_w" ELSE "wait_rsp_w"
        BY <1>8, <2>1 DEF WritesToAll
      <4>3. slave_list_counter'[m] = Cardinality(Writing(m)')
        BY <1>24, <1>25
      <4>4. ~Is10bit(address_pattern[m]) => AllReceive(m)'
        BY <1>18, <1>29, <2>1
      <4>5. address_pattern'[m] = address_pattern[m]
        BY <1>15
      <4> QED BY <1>28, <2>1, <3>4, <4>1, <4>2, <4>3, <4>4, <4>5 DEF WritesToAll, Is10bit
    <3>6. TransferOf(m)'
      BY <1>2, <1>4, <1>19, <2>1, <2>3, <3>5 DEF TransferOf, Lead
    <3> QED BY <3>1, <3>2, <3>3, <3>6 DEF MasterOK
  <2>5. ASSUME NEW t \in Slaves \ {m} PROVE PrivateOf(m, t)'
    <3>1. \A a : ~OnWay("start_response", t, a, m)'
      BY <1>22, InFlightOnWayNext
    <3>2. InFlight("write_request", m, t)' \/ InFlight("write_response", t, m)' => Written(m, t)'
      <4> SUFFICES ASSUME InFlight("write_request", m, t)' \/ InFlight("write_response", t, m)'
                   PROVE  Written(m, t)'
        OBVIOUS
      <4>1. t \in Writing(m)'
        BY DEF Writing, OwesWrite
      <4>2. Has(left, t)
        BY <2>2, <4>1
      <4> QED BY <2>1, <2>3, <4>2 DEF Written, InList, Has
    <3> QED BY <1>22, <2>1, <3>1, <3>2 DEF PrivateOf
  <2>6. ASSUME NEW t \in Slaves \ {m} PROVE WorkOf(t)'
    <3> SUFFICES ASSUME Works(t)' PROVE WorkOf(t)'
      BY DEF WorkOf
    <3>1. state'[t] = "wait_rsp_w" /\ Works(t)
      BY <1>22
    <3>2. current_master[t] = m /\ current_master'[t] = m /\ WorkOf(t) /\ t # m
      BY <1>2, <1>4 DEF ProtocolInv, Devices
    <3>3. t \in Writing(m)'
      BY <3>1, <3>2 DEF Writing, OwesWrite
    <3>4. Written(m, t)'
      BY <2>1, <2>2, <2>3, <3>3 DEF Written, InList, Has
    <3>5. /\ ~InFlight("write_request", m, t)' /\ ~InFlight("write_response", t, m)'
          /\ ~InFlight("read_request", m, t)' /\ ~InFlight("read_response", t, m)'
          /\ ~InFlight("start_request", m, t)' /\ ~InFlight("start_response", t, m)'
      BY <1>22, <3>1, <3>2 DEF WorkOf, Devices
    <3> QED BY <1>19, <2>1, <3>1, <3>2, <3>4, <3>5 DEF WorkOf, Thinks, Lead
  <2> QED BY <1>4, <1>19, <1>20, <2>1, <2>4, <2>5, <2>6, LeadKeeps DEF OthersAsBefore
<1>31. CASE slave_list_counter[m] = 1
  <2>1. Writing(m)' = {} /\ slave_list_counter'[m] = 0
    BY <1>24, <1>25, <1>31
  <2>2. Ready(m)'
    <3>1. /\ device'[m] = (IF final = NOACK THEN "nack" ELSE "w")
          /\ state'[m] = IF Is10bit(address_pattern[m]) THEN (IF found THEN "wait_req_w" ELSE "wait_stop")
                         ELSE "wait_req_w"
          /\ address_pattern'[m] = address_pattern[m] /\ Len(pending_start_responses'[m]) = 0
      BY <1>7, <1>11, <1>15, <1>16, <1>31
    <3>2. slave_list'[m] # <<>> => Broadcasting(m)'
      BY <1>2, <1>5, <3>1 DEF Broadcasting, Is10bit
    <3>3. CASE ~Is10bit(address_pattern[m])
      <4>1. ~found /\ slave_list'[m] = slave_list[m] /\ slave_list'[m] = left
        BY <1>11, <1>14, <1>16, <1>18, <3>3
      <4>2. Accepting(m)'
        BY <1>8, <1>28, <1>29, <3>1, <3>3, <4>1 DEF Accepting
      <4> QED BY <2>1, <3>1, <3>2, <4>2 DEF Ready
    <3>4. CASE found /\ Is10bit(address_pattern[m])
      <4>1. PICK p : p = left[1]
        OBVIOUS
      <4>2. slave_list'[m] = <<>> /\ current_slave'[m] = p /\ Len(left) = 1
        BY <1>14, <1>16, <3>4, <4>1
      <4>3. Has(slave_list[m], p)
        BY <1>18, <4>1, <4>2 DEF Has
      <4>4. Chosen(p, m)'
        BY <1>27, <4>3
      <4>5. Accepting(m)'
        BY <3>1, <3>4, <4>2, <4>4 DEF Accepting, Partner, Chosen, Serves
      <4> QED BY <2>1, <3>1, <3>2, <4>5 DEF Ready
    <3>5. CASE ~found /\ Is10bit(address_pattern[m])
      <4>1. Len(left) # 1
        BY <1>11, <1>14, <1>31, <3>5
      <4>2. final = NOACK
        <5> SUFFICES ASSUME final # NOACK PROVE FALSE
          OBVIOUS
        <5>1. ~(Len(left) > 1) /\ (slave_list_ack[m] = ACK \/ ack = ACK)
          BY <1>11, <1>13, <1>31, <3>5
        <5>2. left = <<>>
          <6>1. Len(left) = 0
            <7>1. Len(left) \in Nat
              BY <1>18
            <7>2. \A n \in Nat : n # 1 /\ ~(n > 1) => n = 0
              OBVIOUS
            <7> QED BY <4>1, <5>1, <7>1, <7>2
          <6> QED BY <1>18, <6>1, EmptySeq
        <5>3. \A t : ~Has(left, t)
          BY <1>18, <5>2, ListNotEmpty
        <5>4. CASE slave_list_ack[m] = ACK
          <6>1. PICK t \in Slaves : InList(t, m) /\ t \notin Writing(m)
            BY <1>8, <3>5, <5>4 DEF WritesToAll
          <6>2. Has(slave_list[m], t) /\ t # s
            BY <1>22, <6>1, ListOf
          <6> QED BY <1>18, <5>3, <6>2
        <5>5. CASE ack = ACK
          BY <1>8, <1>18, <5>3, <5>5
        <5> QED BY <5>1, <5>4, <5>5
      <4> QED BY <2>1, <3>1, <3>2, <3>5, <4>2 DEF Ready
    <3> QED BY <3>3, <3>4, <3>5
  <2> QED BY <1>2, <1>4, <1>19, <1>20, <1>22, <2>1, <2>2, SettlesDown DEF OthersAsBefore
<1> QED BY <1>30, <1>31

----------------------------------------------------------------------------
(* The answers to a start. *)

Answering(T, m, s) ==
  /\ T \in {"start_response", "start_response_pending"}
  /\ Visits(T, s, m, m, s) /\ Alone(T, m, s) /\ InFlight(T, s, m)
  /\ Lead(m) /\ \A d \in Devices : current_master[d] = m

LEMMA AnswersSelect ==
  ASSUME ProtocolInv, NEW m \in Masters, NEW s \in Slaves \ {m}, NEW T, Answering(T, m, s)
  PROVE  /\ device[m] \in Asking /\ ~Asks(m) /\ Selects(m) /\ NoStop /\ MasterOK(m)
         /\ ~InFlight("start_request", m, s)
         /\ \A d \in Devices : InFlight("start_request", m, d) => d \in Slaves \ {m}
         /\ \A t \in Slaves \ {m} :
              /\ PrivateOf(m, t) /\ WorkOf(t) /\ current_master[t] = m /\ t \in Devices
              /\ ~InFlight("read_request", m, t) /\ ~InFlight("read_response", t, m)
              /\ ~InFlight("write_request", m, t) /\ ~InFlight("write_response", t, m)
              /\ Works(t) => Thinks(t)
<1>1. TypeOK /\ QueueOK(net) /\ MasterOK(m) /\ PrivateOf(m, s) /\ m \in Devices
  BY DEF ProtocolInv, Devices
<1>2. device[m] \in Asking /\ NoStop
  BY <1>1 DEF Answering, PrivateOf
<1>3. \A a, d : OnWay("start_request", m, a, d) => Is10bitRead(a) /\ a \in 0..255
  BY <1>1, OnWayIsTyped DEF Answering, Alone
<1>4. ~Asks(m)
  <2> SUFFICES ASSUME Asks(m) PROVE FALSE
    OBVIOUS
  <2>1. PICK a : OnWay("start_request", m, a, m)
    BY <1>1, InFlightOnWay DEF Asks
  <2> QED BY <1>1, <1>3, <2>1 DEF MasterOK, AskedOf
<1>5. ~InFlight("start_request", m, s)
  <2>1. ~Restarting(m, s)
    BY DEF Answering, Alone
  <2> QED BY <1>1, <1>3, <2>1, InFlightOnWay DEF Restarting
<1>6. ASSUME NEW d \in Devices, InFlight("start_request", m, d) PROVE d \in Slaves \ {m}
  <2>1. PICK a : OnWay("start_request", m, a, d)
    BY <1>1, <1>6, InFlightOnWay
  <2>2. PICK i \in 1..Len(net) :
          net[i].type = "start_request" /\ net[i].src = m /\ net[i].status = a /\ d \in net[i].to
    BY <2>1 DEF OnWay, Carries
  <2>3. ~Shared(net[i])
    BY <1>3, <2>1, <2>2 DEF Shared, SharedStart
  <2> QED BY <1>1, <2>2, <2>3, PrivateIsBetween DEF Private
<1>7. ASSUME NEW t \in Slaves \ {m}
      PROVE  /\ PrivateOf(m, t) /\ WorkOf(t) /\ current_master[t] = m /\ t \in Devices
             /\ ~InFlight("read_request", m, t) /\ ~InFlight("read_response", t, m)
             /\ ~InFlight("write_request", m, t) /\ ~InFlight("write_response", t, m)
             /\ Works(t) => Thinks(t)
  <2>1. PrivateOf(m, t) /\ WorkOf(t) /\ current_master[t] = m /\ t \in Devices
    BY DEF ProtocolInv, Devices, Answering
  <2> QED BY <1>2, <2>1 DEF PrivateOf, WorkOf, Works, Asking
<1> QED BY <1>1, <1>2, <1>4, <1>5, <1>6, <1>7 DEF Selects

(* Nothing changes at the slaves; the master goes on to wait, or has all   *)
(* the answers.                                                            *)
LEMMA AskingStays ==
  ASSUME ProtocolInv, TypeOK', NEW m \in Masters, NEW s \in Slaves \ {m}, NEW T, Answering(T, m, s),
         Takes(T, s, m), Lead(m)', current_master' = current_master, device'[m] = device[m],
         address_pattern'[m] = address_pattern[m], slave_list_counter'[m] = slave_list_counter[m],
         \A d \in Devices : d # m => state'[d] = state[d] /\ current_slave'[d] = current_slave[d]
  PROVE  /\ StartsOf(m)' /\ AskedOf(m)' /\ AskingOf(m)'
         /\ \A t \in Slaves \ {m} : PrivateOf(m, t)' /\ WorkOf(t)'
<1>1. /\ device[m] \in Asking /\ ~Asks(m) /\ Selects(m) /\ NoStop /\ MasterOK(m)
      /\ m \in Devices /\ \A d \in Devices : current_master[d] = m
      /\ T \in {"start_response", "start_response_pending"} /\ NoStop'
  BY AnswersSelect DEF Devices, Answering, Lead
<1>2. ASSUME NEW t \in Slaves \ {m}
      PROVE  /\ PrivateOf(m, t) /\ WorkOf(t) /\ current_master[t] = m /\ t \in Devices
             /\ ~InFlight("read_request", m, t) /\ ~InFlight("read_response", t, m)
             /\ ~InFlight("write_request", m, t) /\ ~InFlight("write_response", t, m)
             /\ Works(t) => Thinks(t)
             /\ state'[t] = state[t] /\ current_slave'[t] = current_slave[t]
             /\ current_master'[t] = m
  BY <1>1, AnswersSelect
<1>3. ~Asks(m)'
  BY <1>1 DEF Takes, Asks
<1>4. StartsOf(m)'
  BY <1>1 DEF MasterOK, StartsOf, Takes, Asking
<1>5. AskedOf(m)'
  <2> SUFFICES ASSUME NEW d \in Devices, NEW a \in 0..255, OnWay("start_request", m, a, d)'
               PROVE  /\ ~Is10bitRead(a) /\ device'[m] \in Asking =>
                           device'[m] = WaitingFor(a) /\ address_pattern'[m] = Pattern(m, a)
                      /\ Is10bitRead(a) =>
                           device'[m] = "startR" /\ Is10bitRead(address_pattern'[m]) /\ ~Asks(m)'
    BY DEF AskedOf, Is10bitRead, WaitingFor, Pattern
  <2>1. OnWay("start_request", m, a, d)
    BY DEF Takes
  <2> QED BY <1>1, <1>3, <2>1 DEF MasterOK, AskedOf
<1>6. AskingOf(m)'
  BY <1>1, <1>3 DEF MasterOK, AskingOf
<1>7. ASSUME NEW t \in Slaves \ {m} PROVE PrivateOf(m, t)'
  <2>1. /\ ~InFlight("read_request", m, t)' /\ ~InFlight("read_response", t, m)'
        /\ ~InFlight("write_request", m, t)' /\ ~InFlight("write_response", t, m)'
    BY <1>1, <1>2 DEF Takes
  <2>2. InFlight("start_response", t, m)' => InFlight("start_response", t, m)
    BY <1>1 DEF Takes
  <2>3. InFlight("start_response_pending", t, m)' =>
          /\ InFlight("start_response_pending", t, m)
          /\ Thinks(t)' \/ InFlight("start_response", t, m)'
    <3> SUFFICES ASSUME InFlight("start_response_pending", t, m)'
                 PROVE  /\ InFlight("start_response_pending", t, m)
                        /\ Thinks(t)' \/ InFlight("start_response", t, m)'
      OBVIOUS
    <3>1. InFlight("start_response_pending", t, m) /\ ~(T = "start_response_pending" /\ t = s)
      BY <1>1 DEF Takes
    <3>2. ~(T = "start_response" /\ t = s)
      BY <3>1 DEF Answering, Alone
    <3>3. Thinks(t) \/ InFlight("start_response", t, m)
      BY <1>2, <3>1 DEF PrivateOf
    <3> QED BY <1>1, <1>2, <3>1, <3>2, <3>3 DEF Takes, Thinks
  <2>4. \A a \in 0..255 : OnWay("start_response", t, a, m)' =>
          a \in {ACK, NOACK} /\ current_slave'[t] = (IF a = ACK THEN t ELSE None)
    <3> SUFFICES ASSUME NEW a \in 0..255, OnWay("start_response", t, a, m)'
                 PROVE  a \in {ACK, NOACK} /\ current_slave'[t] = (IF a = ACK THEN t ELSE None)
      OBVIOUS
    <3>1. OnWay("start_response", t, a, m)
      BY <1>1 DEF Takes
    <3> QED BY <1>2, <3>1 DEF PrivateOf
  <2> QED BY <1>1, <1>2, <2>1, <2>2, <2>3, <2>4 DEF PrivateOf
<1>8. ASSUME NEW t \in Slaves \ {m} PROVE WorkOf(t)'
  <2> SUFFICES ASSUME Works(t)' PROVE WorkOf(t)'
    BY DEF WorkOf
  <2>1. Thinks(t) /\ Works(t) /\ Thinks(t)'
    BY <1>2 DEF Works, Thinks
  <2>2. /\ ~InFlight("start_request", m, t)' /\ ~InFlight("start_response", t, m)'
        /\ ~InFlight("read_request", m, t)' /\ ~InFlight("read_response", t, m)'
        /\ ~InFlight("write_request", m, t)' /\ ~InFlight("write_response", t, m)'
    BY <1>1, <1>2, <2>1 DEF WorkOf, Takes
  <2>3. current_slave[t] = None
    BY <1>2, <2>1 DEF WorkOf
  <2> QED BY <1>1, <1>2, <2>1, <2>2, <2>3 DEF WorkOf, Thinks
<1> QED BY <1>4, <1>5, <1>6, <1>7, <1>8

(* A late slave announces its answer. *)
LEMMA PendingKeeps ==
  ASSUME ProtocolInv, TypeOK', NEW e \in Endpoints, DeliverPending(e)
  PROVE  ProtocolInv'
<1>1. PICK X : X = Head(net).src
  OBVIOUS
<1>2. /\ Receives(e, "start_response_pending") /\ net' = Taken(e) /\ TypeOK
      /\ current_master' = current_master
      /\ UNCHANGED <<state, current_slave, pending_slaves, slave_list, slave_list_counter,
                     slave_list_ack, address_pattern, device>>
  BY DEF DeliverPending, ProtocolInv, addressing
<1>3. PICK m \in Masters : \E s \in Slaves \ {m} :
           /\ Visits("start_response_pending", X, e, m, s) /\ Alone("start_response_pending", m, s)
           /\ Lead(m) /\ \A d \in Devices : current_master[d] = m
           /\ \E a : OnWay("start_response_pending", X, a, e) /\ a = Head(net).status
  BY <1>1, <1>2, HeadPrivate
<1>4. PICK s \in Slaves \ {m} :
           /\ Visits("start_response_pending", X, e, m, s) /\ Alone("start_response_pending", m, s)
           /\ Lead(m) /\ \A d \in Devices : current_master[d] = m
           /\ \E a : OnWay("start_response_pending", X, a, e) /\ a = Head(net).status
  BY <1>3
<1>5. X = s /\ e = m /\ Answering("start_response_pending", m, s) /\ m \in Devices /\ m \in Endpoints
  BY <1>2, <1>4, InFlightOnWay, DevicesAreEndpoints DEF Visits, Devices, Answering
<1>6. /\ device[m] \in Asking /\ ~Asks(m) /\ NoStop /\ MasterOK(m) /\ Selects(m)
      /\ PrivateOf(m, s) /\ s \in Devices /\ InFlight("start_response_pending", s, m)
  BY <1>5, AnswersSelect DEF Answering
<1>7. /\ Takes("start_response_pending", s, m) /\ QueueOK(net)' /\ Agree(net, current_master)'
      /\ Lead(m)' /\ OthersFly(m)
  BY <1>1, <1>2, <1>4, <1>5, Received
<1>8. PICK q : q = pending_start_responses[m]
  OBVIOUS
<1>9. PICK r : r = Append(q, s)
  OBVIOUS
<1>10. /\ pending_start_responses'[m] = r
       /\ \A d \in Endpoints : d # m => pending_start_responses'[d] = pending_start_responses[d]
       /\ q \in Seq(Endpoints)
  BY <1>1, <1>2, <1>5, <1>8, <1>9 DEF DeliverPending, TypeOK
<1>11. Len(q) \in Nat /\ Len(r) = Len(q) + 1 /\ r[Len(r)] = s /\ \A i \in 1..Len(q) : r[i] = q[i]
  BY <1>9, <1>10, DevicesAreEndpoints, AppendProperties, LenProperties
<1>12. OthersKept(m)
  BY <1>2, <1>4, <1>10, DevicesAreEndpoints, KeptByLeader DEF Untouched
<1>13. /\ StartsOf(m)' /\ AskedOf(m)' /\ AskingOf(m)'
       /\ \A t \in Slaves \ {m} : PrivateOf(m, t)' /\ WorkOf(t)'
  BY <1>2, <1>5, <1>7, AskingStays
<1>14. SelectsOf(m)'
  <2>1. ASSUME NEW t \in Slaves \ {m} PROVE OwesStart(t, m)' <=> OwesStart(t, m)
    BY <1>2, <1>7 DEF OwesStart, Takes, Devices
  <2>2. Owing(m)' = Owing(m)
    BY <2>1 DEF Owing
  <2>3. SelectsOf(m)
    BY <1>6 DEF MasterOK
  <2>4. InFlight("start_request", m, m)' <=> InFlight("start_request", m, m)
    BY <1>5, <1>7 DEF Takes
  <2> QED BY <1>2, <2>2, <2>3, <2>4 DEF SelectsOf, Selects, Asks, Broadcasting, Is10bit, Is10bitRead,
                       Partner, Chosen, Serves, Receiving, InList
<1>15. ListsOf(m)' /\ TransferOf(m)'
  BY <1>2, <1>6 DEF MasterOK, ListsOf, TransferOf, Broadcasting, Is10bit, Asking, InTransfer
<1>16. LateOf(m)'
  <2>1. ASSUME NEW t, t \in Slaves \ {m}, Thinks(t) \/ InFlight("start_response", t, m)
        PROVE  Thinks(t)' \/ InFlight("start_response", t, m)'
    BY <1>2, <1>5, <1>7, <2>1 DEF Takes, Thinks
  <2>2. /\ Distinct(q) /\ \A i \in 1..Len(q) : q[i] \in Slaves \ {m}
        /\ \A t \in Slaves \ {m} : Has(q, t) => LateAnswer(t, m)
    BY <1>6, <1>8 DEF MasterOK, LateOf
  <2>3. ~Has(q, s)
    BY <1>6, <2>2 DEF LateAnswer
  <2>4. ASSUME NEW t \in Slaves \ {m}, Has(r, t) PROVE LateAnswer(t, m)'
    <3>1. t = s \/ (Has(q, t) /\ t # s)
      BY <1>11, <2>3, <2>4 DEF Has
    <3>2. Thinks(t) \/ InFlight("start_response", t, m)
      BY <1>6, <2>2, <3>1 DEF PrivateOf, LateAnswer
    <3>3. ~InFlight("start_response_pending", t, m)'
      BY <1>5, <1>7, <2>2, <3>1 DEF Takes, LateAnswer
    <3>4. current_master'[t] = m
      BY <1>2, <1>4 DEF Devices
    <3> QED BY <1>2, <1>6, <2>1, <3>2, <3>3, <3>4 DEF LateAnswer
  <2>5. Distinct(r)
    <3>1. \A i \in 1..Len(r) : i # Len(r) => i \in 1..Len(q) /\ r[i] = q[i] /\ q[i] # s
      BY <1>11, <2>3 DEF Has
    <3> QED BY <1>11, <2>2, <3>1 DEF Distinct
  <2>6. \A i \in 1..Len(r) : r[i] \in Slaves \ {m}
    <3>1. \A i \in 1..Len(r) : i # Len(r) => i \in 1..Len(q) /\ r[i] = q[i]
      BY <1>11
    <3> QED BY <1>11, <2>2, <3>1
  <2> QED BY <1>10, <2>4, <2>5, <2>6 DEF LateOf, Distinct, Has
<1>17. MasterOK(m)'
  BY <1>13, <1>14, <1>15, <1>16 DEF MasterOK
<1>18. device'[m] # "idle"
  BY <1>2, <1>6 DEF Asking
<1> QED BY <1>4, <1>7, <1>12, <1>13, <1>17, <1>18, LeadKeeps DEF OthersAsBefore

(* What an answer leaves to wait for. *)
LEMMA AnswerCounted ==
  ASSUME ProtocolInv, TypeOK', NEW m \in Masters, NEW s \in Slaves \ {m},
         Answering("start_response", m, s), Takes("start_response", s, m),
         current_master' = current_master, \A d \in Devices : d # m => state'[d] = state[d],
         pending_start_responses'[m] = RemoveFirst(pending_start_responses[m], s)
  PROVE  /\ s \in Owing(m) /\ Owing(m)' = Owing(m) \ {s} /\ ~Asks(m)'
         /\ pending_slaves[m] = Cardinality(Owing(m)) /\ pending_slaves[m] \in Nat
         /\ Cardinality(Owing(m)') = pending_slaves[m] - 1
         /\ pending_slaves[m] = 1 <=> Owing(m)' = {}
         /\ Distinct(pending_start_responses'[m])
         /\ \A i \in 1..Len(pending_start_responses'[m]) :
              pending_start_responses'[m][i] \in Slaves \ {m}
         /\ \A t \in Slaves \ {m} : Has(pending_start_responses'[m], t) =>
              /\ t # s /\ device[m] \in Asking /\ current_master[t] = m
              /\ Thinks(t)' \/ InFlight("start_response", t, m)'
              /\ ~InFlight("start_response_pending", t, m)'
<1>1. /\ device[m] \in Asking /\ ~Asks(m) /\ Selects(m) /\ NoStop /\ MasterOK(m)
      /\ ~InFlight("start_request", m, s) /\ m \in Devices /\ s \in Devices
  BY AnswersSelect DEF Devices
<1>2. ASSUME NEW t \in Slaves \ {m}
      PROVE  /\ WorkOf(t) /\ current_master[t] = m /\ t \in Devices /\ state'[t] = state[t]
  BY AnswersSelect
<1>3. s \in Owing(m)
  BY DEF Owing, OwesStart, Answering
<1>4. ASSUME NEW t \in Slaves \ {m} PROVE OwesStart(t, m)' <=> OwesStart(t, m) /\ t # s
  <2>1. ~Thinks(s)
    BY <1>2 DEF WorkOf, Works, Answering
  <2>2. ~Thinks(s) <=> state[s] \notin {"wait_rsp_start_r", "wait_rsp_start_w"}
    BY DEF Thinks
  <2>3. /\ InFlight("start_request", m, t)' <=> InFlight("start_request", m, t)
        /\ InFlight("start_response", t, m)' <=> InFlight("start_response", t, m) /\ t # s
    BY <1>1, <1>2 DEF Takes
  <2> QED BY <1>1, <1>2, <2>1, <2>2, <2>3 DEF OwesStart
<1>5. Owing(m)' = Owing(m) \ {s}
  BY <1>3, <1>4 DEF Owing
<1>6. ~Asks(m)'
  BY <1>1 DEF Asks, Takes
<1>7. pending_slaves[m] = Cardinality(Owing(m))
  BY <1>1 DEF MasterOK, SelectsOf
<1>8. /\ Cardinality(Owing(m)) \in Nat /\ Cardinality(Owing(m)') = Cardinality(Owing(m)) - 1
      /\ Cardinality(Owing(m)) = 1 <=> Owing(m)' = {}
  <2>1. Owing(m) \in SUBSET Slaves
    BY DEF Owing
  <2>2. PICK W : W = Owing(m)'
    OBVIOUS
  <2> QED BY <1>3, <1>5, <2>1, <2>2, OneFewer
<1>9. PICK q : q = pending_start_responses[m]
  OBVIOUS
<1>10. PICK r : r = pending_start_responses'[m]
  OBVIOUS
<1>11. q \in Seq(Endpoints)
  BY <1>9, DevicesAreEndpoints DEF ProtocolInv, TypeOK
<1>12. /\ Distinct(q) /\ \A i \in 1..Len(q) : q[i] \in Slaves \ {m}
       /\ \A t \in Slaves \ {m} : Has(q, t) => LateAnswer(t, m)
  BY <1>1, <1>9 DEF MasterOK, LateOf
<1>13. Distinct(r) /\ \A y : Has(r, y) <=> Has(q, y) /\ y # s
  BY <1>9, <1>10, <1>11, <1>12, RemoveFirstKeeps
<1>14. ASSUME NEW i \in 1..Len(r) PROVE r[i] \in Slaves \ {m}
  <2>1. Has(q, r[i])
    BY <1>13 DEF Has
  <2> QED BY <1>12, <2>1 DEF Has
<1>15. ASSUME NEW t \in Slaves \ {m}, Has(r, t)
       PROVE  /\ t # s /\ device[m] \in Asking /\ current_master[t] = m
              /\ Thinks(t)' \/ InFlight("start_response", t, m)'
              /\ ~InFlight("start_response_pending", t, m)'
  <2>1. LateAnswer(t, m) /\ t # s
    BY <1>12, <1>13, <1>15
  <2> QED BY <1>1, <1>2, <2>1 DEF LateAnswer, Takes, Thinks
<1> QED BY <1>3, <1>5, <1>6, <1>7, <1>8, <1>10, <1>13, <1>14, <1>15

(* The last answer leaves nothing on the way. *)
LEMMA LastAnswerCounted ==
  ASSUME ProtocolInv, TypeOK', NEW m \in Masters, NEW s \in Slaves \ {m},
         Answering("start_response", m, s), Takes("start_response", s, m),
         current_master' = current_master, \A d \in Devices : d # m => state'[d] = state[d],
         pending_start_responses'[m] = RemoveFirst(pending_start_responses[m], s),
         pending_slaves[m] = 1
  PROVE  /\ \A d \in Devices : ~InFlight("start_request", m, d)'
         /\ \A t \in Slaves \ {m} : Quiet(m, t)' /\ ~Works(t)'
         /\ Len(pending_start_responses'[m]) = 0
         /\ slave_list_counter[m] = 0
<1>1. /\ device[m] \in Asking /\ ~Asks(m) /\ NoStop /\ MasterOK(m) /\ m \in Devices
      /\ \A d \in Devices : InFlight("start_request", m, d) => d \in Slaves \ {m}
  BY AnswersSelect DEF Devices
<1>2. ASSUME NEW t \in Slaves \ {m}
      PROVE  /\ PrivateOf(m, t) /\ WorkOf(t) /\ current_master[t] = m /\ t \in Devices
             /\ ~InFlight("read_request", m, t) /\ ~InFlight("read_response", t, m)
             /\ ~InFlight("write_request", m, t) /\ ~InFlight("write_response", t, m)
             /\ Works(t) => Thinks(t)
             /\ state'[t] = state[t] /\ current_master'[t] = m
  BY AnswersSelect
<1>3. Owing(m)' = {}
  BY AnswerCounted
<1>4. ASSUME NEW t \in Slaves \ {m}
      PROVE  ~InFlight("start_request", m, t)' /\ ~InFlight("start_response", t, m)' /\ ~Thinks(t)'
  <2>1. ~OwesStart(t, m)'
    BY <1>3 DEF Owing
  <2> QED BY <1>2, <2>1 DEF OwesStart, Thinks
<1>5. \A d \in Devices : ~InFlight("start_request", m, d)'
  BY <1>1, <1>4 DEF Takes
<1>6. ASSUME NEW t \in Slaves \ {m} PROVE Quiet(m, t)' /\ ~Works(t)'
  <2>1. ~InFlight("start_response_pending", t, m)'
    <3> SUFFICES ASSUME InFlight("start_response_pending", t, m)' PROVE FALSE
      OBVIOUS
    <3>1. InFlight("start_response_pending", t, m)
      BY <1>1 DEF Takes
    <3>2. t # s
      BY <3>1 DEF Answering, Alone
    <3>3. Thinks(t) \/ InFlight("start_response", t, m)
      BY <1>2, <3>1 DEF PrivateOf
    <3> QED BY <1>1, <1>2, <1>4, <3>2, <3>3 DEF Takes, Thinks
  <2>2. ~Restarting(m, t)'
    <3>1. \A a : ~OnWay("start_request", m, a, t)'
      BY <1>2, <1>5, InFlightOnWayNext
    <3> QED BY <3>1 DEF Restarting
  <2>3. ~Works(t)'
    BY <1>2, <1>4 DEF Works, Thinks
  <2> QED BY <1>1, <1>2, <1>4, <2>1, <2>2, <2>3 DEF Quiet, Takes
<1>7. Len(pending_start_responses'[m]) = 0
  <2>1. PICK r : r = pending_start_responses'[m]
    OBVIOUS
  <2>2. /\ \A i \in 1..Len(r) : r[i] \in Slaves \ {m}
        /\ \A t \in Slaves \ {m} : Has(r, t) => Thinks(t)' \/ InFlight("start_response", t, m)'
    BY <2>1, AnswerCounted
  <2>3. \A i \in 1..Len(r) : FALSE
    BY <1>4, <2>2 DEF Has
  <2>4. Len(r) \in Nat
    BY <2>1, DevicesAreEndpoints, LenProperties DEF TypeOK
  <2> QED BY <2>1, <2>3, <2>4
<1>8. slave_list_counter[m] = 0
  BY <1>1 DEF MasterOK, AskingOf
<1> QED BY <1>5, <1>6, <1>7, <1>8

(* What the three kinds of answers have in common. *)
LEMMA StartResponseHead ==
  ASSUME ProtocolInv, TypeOK', NEW e \in Endpoints, Receives(e, "start_response"), net' = Taken(e),
         ForgetPending(e), current_master' = current_master,
         \A n \in Endpoints \ {e} :
           /\ state'[n] = state[n] /\ device'[n] = device[n] /\ current_slave'[n] = current_slave[n]
           /\ slave_list'[n] = slave_list[n] /\ slave_list_counter'[n] = slave_list_counter[n]
           /\ slave_list_ack'[n] = slave_list_ack[n] /\ address_pattern'[n] = address_pattern[n]
  PROVE  /\ e \in Masters
         /\ \E s \in Slaves \ {e} :
              /\ Head(net).src = s
              /\ Answering("start_response", e, s) /\ Takes("start_response", s, e)
              /\ QueueOK(net)' /\ Agree(net, current_master)' /\ Lead(e)' /\ OthersAsBefore(e)
              /\ \A d \in Devices : d # e => state'[d] = state[d] /\ current_slave'[d] = current_slave[d]
              /\ pending_start_responses'[e] = RemoveFirst(pending_start_responses[e], s)
              /\ Head(net).status \in {ACK, NOACK}
              /\ Head(net).status = ACK => Chosen(s, e)
              /\ Head(net).status = NOACK => current_slave[s] = None
<1>1. PICK X : X = Head(net).src
  OBVIOUS
<1>2. TypeOK
  BY DEF ProtocolInv
<1>3. PICK m \in Masters : \E s \in Slaves \ {m} :
           /\ Visits("start_response", X, e, m, s) /\ Alone("start_response", m, s)
           /\ Lead(m) /\ \A d \in Devices : current_master[d] = m
           /\ \E a : OnWay("start_response", X, a, e) /\ a = Head(net).status
  BY <1>1, HeadPrivate
<1>4. PICK s \in Slaves \ {m} :
           /\ Visits("start_response", X, e, m, s) /\ Alone("start_response", m, s)
           /\ Lead(m) /\ \A d \in Devices : current_master[d] = m
           /\ \E a : OnWay("start_response", X, a, e) /\ a = Head(net).status
  BY <1>3
<1>5. /\ X = s /\ e = m /\ Answering("start_response", e, s) /\ e \in Devices /\ e \in Masters
      /\ s \in Devices /\ s # e
  BY <1>2, <1>4, InFlightOnWay, DevicesAreEndpoints DEF Visits, Devices, Answering
<1>6. /\ Takes("start_response", s, e) /\ QueueOK(net)' /\ Agree(net, current_master)'
      /\ Lead(e)' /\ OthersFly(e)
  BY <1>1, <1>4, <1>5, Received
<1>7. /\ pending_start_responses'[e] = RemoveFirst(pending_start_responses[e], s)
      /\ \A n \in Endpoints \ {e} : pending_start_responses'[n] = pending_start_responses[n]
  BY <1>1, <1>2, <1>5 DEF ForgetPending, TypeOK
<1>8. OthersKept(e)
  <2>1. \A n \in Masters \ {e} : Untouched(n)
    BY <1>7, DevicesAreEndpoints DEF Untouched
  <2> QED BY <1>4, <1>5, <2>1, KeptByLeader
<1>9. /\ Head(net).status \in {ACK, NOACK}
      /\ Head(net).status = ACK => Chosen(s, e)
      /\ Head(net).status = NOACK => current_slave[s] = None
  <2>1. PICK a : OnWay("start_response", s, a, e) /\ a = Head(net).status
    BY <1>4, <1>5
  <2>2. a \in 0..255
    BY <1>2, <2>1, OnWayIsTyped
  <2>3. PrivateOf(e, s) /\ current_master[s] = e
    BY <1>4, <1>5 DEF ProtocolInv
  <2>4. a \in {ACK, NOACK} /\ current_slave[s] = (IF a = ACK THEN s ELSE None)
    BY <2>1, <2>2, <2>3 DEF PrivateOf
  <2> QED BY <1>5, <2>1, <2>3, <2>4 DEF Chosen, Serves, ACK, NOACK
<1>10. \A d \in Devices : d # e => state'[d] = state[d] /\ current_slave'[d] = current_slave[d]
  BY DevicesAreEndpoints
<1> QED BY <1>1, <1>5, <1>6, <1>7, <1>8, <1>9, <1>10 DEF OthersAsBefore

LEMMA AnswerWaits ==
  ASSUME ProtocolInv, TypeOK', NEW m \in Masters, NEW s \in Slaves \ {m},
         Answering("start_response", m, s), Takes("start_response", s, m),
         QueueOK(net)', Agree(net, current_master)', Lead(m)', OthersAsBefore(m),
         current_master' = current_master, device'[m] = device[m],
         address_pattern'[m] = address_pattern[m], slave_list_counter'[m] = slave_list_counter[m],
         \A d \in Devices : d # m => state'[d] = state[d] /\ current_slave'[d] = current_slave[d],
         pending_start_responses'[m] = RemoveFirst(pending_start_responses[m], s),
         slave_list'[m] # <<>> => Broadcasting(m), SelectsOf(m)'
  PROVE  ProtocolInv'
<1>1. device[m] \in Asking /\ Lead(m) /\ MasterOK(m) /\ m \in Devices /\ \A d \in Devices : current_master[d] = m
  BY AnswersSelect DEF Devices, Answering
<1>2. /\ StartsOf(m)' /\ AskedOf(m)' /\ AskingOf(m)'
      /\ \A t \in Slaves \ {m} : PrivateOf(m, t)' /\ WorkOf(t)'
  BY AskingStays
<1>3. /\ Distinct(pending_start_responses'[m])
      /\ \A i \in 1..Len(pending_start_responses'[m]) :
           pending_start_responses'[m][i] \in Slaves \ {m}
      /\ \A t \in Slaves \ {m} : Has(pending_start_responses'[m], t) =>
           /\ t # s /\ device[m] \in Asking /\ current_master[t] = m
           /\ Thinks(t)' \/ InFlight("start_response", t, m)'
           /\ ~InFlight("start_response_pending", t, m)'
  BY AnswerCounted
<1>4. LateOf(m)'
  BY <1>3 DEF LateOf, LateAnswer, Distinct, Has
<1>5. ListsOf(m)'
  BY <1>1 DEF MasterOK, AskingOf, ListsOf, Broadcasting, Is10bit
<1>6. TransferOf(m)'
  BY <1>1 DEF TransferOf, Asking, InTransfer
<1>7. MasterOK(m)' /\ device'[m] # "idle"
  BY <1>1, <1>2, <1>4, <1>5, <1>6 DEF MasterOK, Asking
<1> QED BY <1>1, <1>2, <1>7, LeadKeeps

LEMMA AnswersSettle ==
  ASSUME ProtocolInv, TypeOK', NEW m \in Masters, NEW s \in Slaves \ {m},
         Answering("start_response", m, s), Takes("start_response", s, m),
         QueueOK(net)', Agree(net, current_master)', Lead(m)', OthersAsBefore(m),
         current_master' = current_master, slave_list_counter'[m] = slave_list_counter[m],
         \A d \in Devices : d # m => state'[d] = state[d] /\ current_slave'[d] = current_slave[d],
         pending_start_responses'[m] = RemoveFirst(pending_start_responses[m], s),
         pending_slaves[m] = 1,
         device'[m] \in {"r", "w", "nack"}, device'[m] = "r" => state'[m] = "wait_req_r" /\ Partner(m)',
         device'[m] = "w" => Accepting(m)', device'[m] = "nack" => state'[m] = "wait_stop",
         slave_list'[m] # <<>> => Broadcasting(m)'
  PROVE  ProtocolInv'
<1>1. Lead(m) /\ \A d \in Devices : current_master'[d] = m
  BY DEF Answering
<1>2. /\ \A d \in Devices : ~InFlight("start_request", m, d)'
      /\ \A t \in Slaves \ {m} : Quiet(m, t)' /\ ~Works(t)'
      /\ Len(pending_start_responses'[m]) = 0
      /\ slave_list_counter[m] = 0
  BY LastAnswerCounted
<1>3. Ready(m)'
  BY <1>2 DEF Ready
<1> QED BY <1>1, <1>2, <1>3, SettlesDown

LEMMA RestartResponseKeeps ==
  ASSUME ProtocolInv, TypeOK', NEW e \in Endpoints, DeliverRestartResponse(e)
  PROVE  ProtocolInv'
<1>1. /\ Receives(e, "start_response") /\ net' = Taken(e) /\ ForgetPending(e) /\ TypeOK
      /\ current_master' = current_master /\ AnswersRestart(e)
      /\ UNCHANGED <<slave_list, slave_list_counter, slave_list_ack, address_pattern>>
  BY DEF DeliverRestartResponse, ProtocolInv, addressing
<1>2. \A n \in Endpoints \ {e} :
           state'[n] = state[n] /\ device'[n] = device[n] /\ current_slave'[n] = current_slave[n]
  BY <1>1 DEF DeliverRestartResponse, Acknowledge, TypeOK
<1>3. /\ e \in Masters
      /\ \E s \in Slaves \ {e} :
              /\ Head(net).src = s
              /\ Answering("start_response", e, s) /\ Takes("start_response", s, e)
              /\ QueueOK(net)' /\ Agree(net, current_master)' /\ Lead(e)' /\ OthersAsBefore(e)
              /\ \A d \in Devices : d # e => state'[d] = state[d] /\ current_slave'[d] = current_slave[d]
              /\ pending_start_responses'[e] = RemoveFirst(pending_start_responses[e], s)
              /\ Head(net).status \in {ACK, NOACK}
              /\ Head(net).status = ACK => Chosen(s, e)
              /\ Head(net).status = NOACK => current_slave[s] = None
  BY <1>1, <1>2, StartResponseHead
<1>4. PICK s \in Slaves \ {e} :
              /\ Head(net).src = s
              /\ Answering("start_response", e, s) /\ Takes("start_response", s, e)
              /\ QueueOK(net)' /\ Agree(net, current_master)' /\ Lead(e)' /\ OthersAsBefore(e)
              /\ \A d \in Devices : d # e => state'[d] = state[d] /\ current_slave'[d] = current_slave[d]
              /\ pending_start_responses'[e] = RemoveFirst(pending_start_responses[e], s)
              /\ Head(net).status \in {ACK, NOACK}
              /\ Head(net).status = ACK => Chosen(s, e)
              /\ Head(net).status = NOACK => current_slave[s] = None
  BY <1>3
<1>5. device[e] \in Asking /\ Selects(e) /\ MasterOK(e) /\ SelectsOf(e)
  BY <1>3, <1>4, AnswersSelect DEF MasterOK
<1>6. /\ Broadcasting(e) /\ current_slave[e] = None /\ device[e] = "startR"
      /\ pending_slaves[e] = 1
  BY <1>1, <1>5 DEF SelectsOf, AnswersRestart, Asking
<1>7. PICK ack : ack = Head(net).status
  OBVIOUS
<1>8. /\ current_slave'[e] = (IF ack = ACK THEN s ELSE None)
      /\ state'[e] = (IF ack = NOACK THEN "wait_stop" ELSE "wait_req_r")
      /\ device'[e] = (IF ack = NOACK THEN "nack" ELSE "r")
  BY <1>1, <1>4, <1>6, <1>7 DEF DeliverRestartResponse, Acknowledge, Answered, TypeOK
<1>9. device'[e] = "r" => Partner(e)'
  <2> SUFFICES ASSUME device'[e] = "r" PROVE Partner(e)'
    OBVIOUS
  <2>1. ack = ACK /\ Chosen(s, e) /\ s # e
    BY <1>4, <1>7, <1>8
  <2>2. current_slave'[e] = s /\ current_slave'[s] = s /\ current_master'[s] = e /\ s \in Slaves
    BY <1>1, <1>4, <1>8, <2>1 DEF Chosen, Serves, Devices
  <2> QED BY <2>1, <2>2 DEF Partner, Chosen, Serves
<1>10. Broadcasting(e)'
  BY <1>1, <1>6 DEF Broadcasting, Is10bit
<1>11. /\ device'[e] \in {"r", "w", "nack"} /\ device'[e] # "w"
       /\ device'[e] = "r" => state'[e] = "wait_req_r"
       /\ device'[e] = "nack" => state'[e] = "wait_stop"
       /\ slave_list_counter'[e] = slave_list_counter[e]
  BY <1>1, <1>8
<1> QED BY <1>1, <1>3, <1>4, <1>6, <1>9, <1>10, <1>11, AnswersSettle

LEMMA PlainResponseKeeps ==
  ASSUME ProtocolInv, TypeOK', NEW e \in Endpoints, DeliverPlainResponse(e)
  PROVE  ProtocolInv'
<1>1. /\ Receives(e, "start_response") /\ net' = Taken(e) /\ ForgetPending(e) /\ TypeOK
      /\ current_master' = current_master /\ ~Broadcasting(e)
      /\ UNCHANGED <<slave_list, slave_list_counter, slave_list_ack>>
  BY DEF DeliverPlainResponse, ProtocolInv
<1>2. \A n \in Endpoints \ {e} :
           /\ state'[n] = state[n] /\ device'[n] = device[n] /\ current_slave'[n] = current_slave[n]
           /\ address_pattern'[n] = address_pattern[n]
  BY <1>1 DEF DeliverPlainResponse, Acknowledge, TypeOK
<1>3. /\ e \in Masters
      /\ \E s \in Slaves \ {e} :
              /\ Head(net).src = s
              /\ Answering("start_response", e, s) /\ Takes("start_response", s, e)
              /\ QueueOK(net)' /\ Agree(net, current_master)' /\ Lead(e)' /\ OthersAsBefore(e)
              /\ \A d \in Devices : d # e => state'[d] = state[d] /\ current_slave'[d] = current_slave[d]
              /\ pending_start_responses'[e] = RemoveFirst(pending_start_responses[e], s)
              /\ Head(net).status \in {ACK, NOACK}
              /\ Head(net).status = ACK => Chosen(s, e)
              /\ Head(net).status = NOACK => current_slave[s] = None
  BY <1>1, <1>2, StartResponseHead
<1>4. PICK s \in Slaves \ {e} :
              /\ Head(net).src = s
              /\ Answering("start_response", e, s) /\ Takes("start_response", s, e)
              /\ QueueOK(net)' /\ Agree(net, current_master)' /\ Lead(e)' /\ OthersAsBefore(e)
              /\ \A d \in Devices : d # e => state'[d] = state[d] /\ current_slave'[d] = current_slave[d]
              /\ pending_start_responses'[e] = RemoveFirst(pending_start_responses[e], s)
              /\ Head(net).status \in {ACK, NOACK}
              /\ Head(net).status = ACK => Chosen(s, e)
              /\ Head(net).status = NOACK => current_slave[s] = None
  BY <1>3
<1>5. device[e] \in Asking /\ Selects(e) /\ MasterOK(e) /\ SelectsOf(e) /\ slave_list[e] = <<>>
      /\ ~Asks(e) /\ s # None
  BY <1>1, <1>3, <1>4, AnswersSelect, NoneIsNoMaster DEF MasterOK, ListsOf
<1>6. PICK chosen \in BOOLEAN : chosen <=> Head(net).status = ACK /\ current_slave[e] = None
  OBVIOUS
<1>7. PICK partner : partner = IF chosen THEN s ELSE current_slave[e]
  OBVIOUS
<1>8. PICK moved : moved = IF ~chosen THEN state[e]
                 ELSE IF state[e] = "wait_rsp_start_r" THEN "wait_req_r"
                 ELSE IF state[e] = "wait_rsp_start_w" THEN "wait_req_w"
                 ELSE state[e]
  OBVIOUS
<1>9. PICK refused \in BOOLEAN : refused <=> RefusedByAll(e, partner)
  OBVIOUS
<1>10. /\ current_slave' = [current_slave EXCEPT ![e] = partner]
       /\ pending_slaves' = [pending_slaves EXCEPT ![e] = @ - 1]
       /\ pending_slaves[e] = 1 =>
            /\ state' = [state EXCEPT ![e] = IF refused THEN "wait_stop" ELSE moved]
            /\ Acknowledge(e, IF refused THEN NOACK ELSE ACK)
       /\ pending_slaves[e] # 1 =>
            state' = [state EXCEPT ![e] = moved] /\ UNCHANGED <<device, address_pattern>>
  BY <1>4, <1>6, <1>7, <1>8, <1>9 DEF DeliverPlainResponse, LastAnswer
<1>11. /\ current_slave'[e] = partner /\ pending_slaves'[e] = pending_slaves[e] - 1
       /\ pending_slaves[e] = 1 =>
            /\ state'[e] = (IF refused THEN "wait_stop" ELSE moved)
            /\ device'[e] = (IF refused THEN "nack" ELSE IF device[e] = "startR" THEN "r" ELSE "w")
       /\ pending_slaves[e] # 1 =>
            /\ state'[e] = moved /\ device'[e] = device[e] /\ address_pattern'[e] = address_pattern[e]
  BY <1>1, <1>5, <1>10 DEF Acknowledge, Answered, TypeOK, Asking, ACK, NOACK
<1>12. /\ partner # None => Chosen(partner, e) /\ partner # e /\ partner \in Slaves /\ (partner = s \/ partner \notin Owing(e))
       /\ partner = None => moved = IF device[e] = "startR" THEN "wait_rsp_start_r" ELSE "wait_rsp_start_w"
       /\ partner # None => moved = IF device[e] = "startR" THEN "wait_req_r" ELSE "wait_req_w"
  <2>1. CASE chosen
    BY <1>4, <1>5, <1>6, <1>7, <1>8, <2>1 DEF SelectsOf
  <2>2. CASE ~chosen
    BY <1>5, <1>7, <1>8, <2>2 DEF SelectsOf, Partner, Chosen, Serves
  <2> QED BY <2>1, <2>2
<1>13. partner # None => Partner(e)'
  <2> SUFFICES ASSUME partner # None PROVE Partner(e)'
    OBVIOUS
  <2>1. current_slave'[partner] = partner /\ current_master'[partner] = e
    BY <1>1, <1>4, <1>12 DEF Chosen, Serves, Devices
  <2> QED BY <1>11, <1>12, <2>1 DEF Partner, Chosen, Serves
<1>14. CASE pending_slaves[e] = 1
  <2>1. ~refused => partner # None
    BY <1>9 DEF RefusedByAll
  <2>2. /\ device'[e] \in {"r", "w", "nack"}
        /\ device'[e] = "nack" => state'[e] = "wait_stop"
        /\ device'[e] # "nack" =>
             /\ partner # None
             /\ device'[e] = (IF device[e] = "startR" THEN "r" ELSE "w")
             /\ state'[e] = (IF device[e] = "startR" THEN "wait_req_r" ELSE "wait_req_w")
    BY <1>11, <1>12, <1>14, <2>1
  <2>3. slave_list'[e] = <<>> /\ slave_list_counter'[e] = slave_list_counter[e]
    BY <1>1, <1>5
  <2>4. device'[e] = "r" => state'[e] = "wait_req_r" /\ Partner(e)'
    BY <1>13, <2>2
  <2>5. device'[e] = "w" => Accepting(e)'
    BY <1>13, <2>2, <2>3 DEF Accepting
  <2> QED BY <1>1, <1>3, <1>4, <1>14, <2>2, <2>3, <2>4, <2>5, AnswersSettle
<1>15. CASE pending_slaves[e] # 1
  <2>1. /\ s \in Owing(e) /\ Owing(e)' = Owing(e) \ {s} /\ ~Asks(e)'
        /\ pending_slaves[e] = Cardinality(Owing(e)) /\ pending_slaves[e] \in Nat
        /\ Cardinality(Owing(e)') = pending_slaves[e] - 1
        /\ pending_slaves[e] = 1 <=> Owing(e)' = {}
    BY <1>1, <1>3, <1>4, AnswerCounted
  <2>2. ~Broadcasting(e)' /\ ~Is10bitRead(address_pattern'[e])
    BY <1>1, <1>11, <1>15 DEF Broadcasting, Is10bit, Is10bitRead
  <2>3. SelectsOf(e)'
    <3>1. pending_slaves'[e] = Cardinality(Owing(e)') /\ Owing(e)' # {}
      BY <1>11, <1>15, <2>1
    <3>2. current_slave'[e] = None =>
         state'[e] = IF device'[e] = "startR" THEN "wait_rsp_start_r" ELSE "wait_rsp_start_w"
      BY <1>11, <1>12, <1>15
    <3>3. current_slave'[e] # None =>
         /\ Partner(e)' /\ current_slave'[e] \notin Owing(e)'
         /\ state'[e] = IF device'[e] = "startR" THEN "wait_req_r" ELSE "wait_req_w"
      BY <1>11, <1>12, <1>13, <1>15, <2>1
    <3>4. slave_list'[e] = <<>>
      BY <1>1, <1>5
    <3>5. Receiving(e)' /\ \A t \in Slaves : ~InList(t, e)'
      BY <3>4 DEF Receiving, InList
    <3> QED BY <2>2, <3>1, <3>2, <3>3, <3>5 DEF SelectsOf, Is10bitRead
  <2>4. /\ device'[e] = device[e] /\ address_pattern'[e] = address_pattern[e]
        /\ slave_list_counter'[e] = slave_list_counter[e] /\ slave_list'[e] = <<>>
    BY <1>1, <1>5, <1>11, <1>15
  <2> QED BY <1>1, <1>3, <1>4, <2>3, <2>4, AnswerWaits
<1> QED BY <1>14, <1>15

LEMMA ListAppended ==
  ASSUME NEW q \in Seq(Endpoints \cup {None}), NEW x \in Endpoints \cup {None},
         Distinct(q), ~Has(q, x), NEW r, r = Append(q, x)
  PROVE  r # <<>> /\ Distinct(r) /\ \A y : Has(r, y) <=> Has(q, y) \/ y = x
<1>1. /\ r \in Seq(Endpoints \cup {None}) /\ Len(q) \in Nat /\ Len(r) = Len(q) + 1 /\ r[Len(r)] = x
      /\ \A i \in 1..Len(q) : r[i] = q[i]
  BY AppendProperties, LenProperties
<1>2. \A i \in 1..Len(r) : i # Len(r) => i \in 1..Len(q) /\ r[i] = q[i] /\ q[i] # x
  BY <1>1 DEF Has
<1>3. Distinct(r)
  BY <1>1, <1>2 DEF Distinct
<1>4. ASSUME NEW y PROVE Has(r, y) <=> Has(q, y) \/ y = x
  <2>1. Has(q, y) => Has(r, y)
    BY <1>1 DEF Has
  <2>2. Has(r, x)
    BY <1>1 DEF Has
  <2>3. Has(r, y) => Has(q, y) \/ y = x
    BY <1>1, <1>2 DEF Has
  <2> QED BY <2>1, <2>2, <2>3
<1>5. r # <<>>
  BY <1>1, EmptySeq
<1> QED BY <1>3, <1>4, <1>5

LEMMA BroadcastResponseKeeps ==
  ASSUME ProtocolInv, TypeOK', NEW e \in Endpoints, DeliverBroadcastResponse(e)
  PROVE  ProtocolInv'
<1>1. /\ Receives(e, "start_response") /\ net' = Taken(e) /\ ForgetPending(e) /\ TypeOK
      /\ current_master' = current_master /\ Broadcasting(e) /\ ~AnswersRestart(e)
      /\ UNCHANGED <<current_slave, slave_list_counter, address_pattern>>
  BY DEF DeliverBroadcastResponse, ProtocolInv
<1>2. \A n \in Endpoints \ {e} :
           /\ state'[n] = state[n] /\ device'[n] = device[n]
           /\ slave_list'[n] = slave_list[n] /\ slave_list_ack'[n] = slave_list_ack[n]
  BY <1>1 DEF DeliverBroadcastResponse, Acknowledge, TypeOK
<1>3. /\ e \in Masters
      /\ \E s \in Slaves \ {e} :
              /\ Head(net).src = s
              /\ Answering("start_response", e, s) /\ Takes("start_response", s, e)
              /\ QueueOK(net)' /\ Agree(net, current_master)' /\ Lead(e)' /\ OthersAsBefore(e)
              /\ \A d \in Devices : d # e => state'[d] = state[d] /\ current_slave'[d] = current_slave[d]
              /\ pending_start_responses'[e] = RemoveFirst(pending_start_responses[e], s)
              /\ Head(net).status \in {ACK, NOACK}
              /\ Head(net).status = ACK => Chosen(s, e)
              /\ Head(net).status = NOACK => current_slave[s] = None
  BY <1>1, <1>2, StartResponseHead
<1>4. PICK s \in Slaves \ {e} :
              /\ Head(net).src = s
              /\ Answering("start_response", e, s) /\ Takes("start_response", s, e)
              /\ QueueOK(net)' /\ Agree(net, current_master)' /\ Lead(e)' /\ OthersAsBefore(e)
              /\ \A d \in Devices : d # e => state'[d] = state[d] /\ current_slave'[d] = current_slave[d]
              /\ pending_start_responses'[e] = RemoveFirst(pending_start_responses[e], s)
              /\ Head(net).status \in {ACK, NOACK}
              /\ Head(net).status = ACK => Chosen(s, e)
              /\ Head(net).status = NOACK => current_slave[s] = None
  BY <1>3
<1>5. device[e] \in Asking /\ Selects(e) /\ MasterOK(e) /\ SelectsOf(e) /\ s # None /\ ~Asks(e)
  BY <1>3, <1>4, AnswersSelect, NoneIsNoMaster DEF MasterOK
<1>6. /\ current_slave[e] = None /\ device[e] = "startW" /\ state[e] = "wait_rsp_start_w"
      /\ ~Is10bitRead(address_pattern[e])
  BY <1>1, <1>5 DEF SelectsOf, AnswersRestart, Asking
<1>7. PICK q : q = slave_list[e]
  OBVIOUS
<1>8. PICK r : r = IF Head(net).status = ACK THEN Append(q, s) ELSE q
  OBVIOUS
<1>9. PICK verdict : verdict = IF Head(net).status = ACK THEN ACK ELSE slave_list_ack[e]
  OBVIOUS
<1>10. /\ slave_list' = [slave_list EXCEPT ![e] = r]
       /\ slave_list_ack' = [slave_list_ack EXCEPT ![e] = verdict]
       /\ pending_slaves' = [pending_slaves EXCEPT ![e] = @ - 1]
       /\ pending_slaves[e] = 1 =>
            /\ state' = [state EXCEPT ![e] = IF verdict = ACK THEN "wait_req_w" ELSE "wait_stop"]
            /\ Acknowledge(e, verdict)
       /\ pending_slaves[e] # 1 => UNCHANGED <<state, device>>
  BY <1>4, <1>7, <1>8, <1>9 DEF DeliverBroadcastResponse, Receivers, Verdict, LastAnswer
<1>11. /\ slave_list'[e] = r /\ slave_list_ack'[e] = verdict /\ pending_slaves'[e] = pending_slaves[e] - 1
       /\ verdict \in {ACK, NOACK}
       /\ pending_slaves[e] = 1 =>
            /\ state'[e] = (IF verdict = ACK THEN "wait_req_w" ELSE "wait_stop")
            /\ device'[e] = (IF verdict = ACK THEN "w" ELSE "nack")
       /\ pending_slaves[e] # 1 => state'[e] = state[e] /\ device'[e] = device[e]
  BY <1>1, <1>6, <1>9, <1>10 DEF Acknowledge, Answered, TypeOK, ACK, NOACK
<1>12. /\ s \in Owing(e) /\ Owing(e)' = Owing(e) \ {s} /\ ~Asks(e)'
       /\ pending_slaves[e] = Cardinality(Owing(e)) /\ pending_slaves[e] \in Nat
       /\ Cardinality(Owing(e)') = pending_slaves[e] - 1
       /\ pending_slaves[e] = 1 <=> Owing(e)' = {}
  BY <1>1, <1>3, <1>4, AnswerCounted
<1>13. /\ Distinct(q) /\ (\A t : Has(q, t) => Chosen(t, e) /\ t \notin Owing(e))
       /\ slave_list_ack[e] = ACK => q # <<>>
       /\ \A t \in Slaves : Chosen(t, e) /\ t \notin Owing(e) => Has(q, t)
  <2>1. /\ Receiving(e) /\ (\A t \in Slaves : InList(t, e) => t \notin Owing(e))
        /\ slave_list_ack[e] = ACK => slave_list[e] # <<>>
        /\ \A t \in Slaves : Chosen(t, e) /\ t \notin Owing(e) => InList(t, e)
    BY <1>1, <1>5, <1>6 DEF SelectsOf
  <2> QED BY <1>7, <2>1, ListOf DEF Chosen, Serves
<1>14. q \in Seq(Endpoints \cup {None}) /\ s \in Endpoints \cup {None}
  BY <1>1, <1>3, <1>7, DevicesAreEndpoints DEF TypeOK
<1>15. /\ Distinct(r) /\ (\A t : Has(r, t) => Chosen(t, e) /\ t \notin Owing(e)')
       /\ verdict = ACK => r # <<>>
       /\ \A t \in Slaves : Chosen(t, e) /\ t \notin Owing(e)' => Has(r, t)
  <2>1. ~Has(q, s)
    BY <1>12, <1>13
  <2>2. CASE Head(net).status = ACK
    <3>0. r = Append(q, s) /\ Distinct(q)
      BY <1>8, <1>13, <2>2
    <3>1. r # <<>> /\ Distinct(r) /\ \A y : Has(r, y) <=> Has(q, y) \/ y = s
      BY <1>14, <2>1, <3>0, ListAppended
    <3> QED BY <1>4, <1>12, <1>13, <2>2, <3>1
  <2>3. CASE Head(net).status = NOACK
    <3>1. r = q /\ verdict = slave_list_ack[e] /\ ~Chosen(s, e)
      BY <1>4, <1>5, <1>8, <1>9, <2>3 DEF Chosen, ACK, NOACK
    <3> QED BY <1>12, <1>13, <3>1
  <2> QED BY <1>4, <2>2, <2>3
<1>16. ASSUME NEW t PROVE Chosen(t, e)' <=> Chosen(t, e)
  BY <1>1 DEF Chosen, Serves
<1>17. /\ Receiving(e)'
       /\ \A t : InList(t, e)' <=> Has(r, t)
  <2>1. \A t : InList(t, e)' <=> Has(r, t)
    BY <1>11 DEF InList, Has
  <2>2. \A i \in 1..Len(r) : Chosen(r[i], e)'
    <3> SUFFICES ASSUME NEW i \in 1..Len(r) PROVE Chosen(r[i], e)'
      OBVIOUS
    <3>1. PICK t : t = r[i]
      OBVIOUS
    <3>2. Has(r, t)
      BY <3>1 DEF Has
    <3>3. Chosen(t, e)'
      BY <1>15, <1>16, <3>2
    <3> QED BY <3>1, <3>3 DEF Chosen, Serves
  <2> QED BY <1>11, <1>15, <2>1, <2>2 DEF Receiving, Distinct, Chosen, Serves
<1>18. Broadcasting(e)'
  BY <1>1 DEF Broadcasting, Is10bit
<1>19. CASE pending_slaves[e] = 1
  <2>1. AllReceive(e)'
    <3> SUFFICES ASSUME NEW t \in Slaves, Chosen(t, e)' PROVE InList(t, e)'
      BY DEF AllReceive
    <3>1. t \notin Owing(e)'
      BY <1>12, <1>19
    <3> QED BY <1>15, <1>16, <1>17, <3>1
  <2>2. /\ device'[e] \in {"r", "w", "nack"} /\ device'[e] # "r"
        /\ device'[e] = "nack" => state'[e] = "wait_stop"
        /\ slave_list_counter'[e] = slave_list_counter[e]
    BY <1>1, <1>11, <1>19
  <2>3. device'[e] = "w" => Accepting(e)'
    BY <1>11, <1>15, <1>17, <1>19, <2>1 DEF Accepting
  <2> QED BY <1>1, <1>3, <1>4, <1>18, <1>19, <2>2, <2>3, AnswersSettle
<1>20. CASE pending_slaves[e] # 1
  <2>1. SelectsOf(e)'
    <3>1. pending_slaves'[e] = Cardinality(Owing(e)') /\ Owing(e)' # {}
      BY <1>11, <1>12, <1>20
    <3>2. /\ current_slave'[e] = None /\ device'[e] = "startW" /\ state'[e] = "wait_rsp_start_w"
          /\ ~Is10bitRead(address_pattern'[e])
      BY <1>1, <1>6, <1>11, <1>20
    <3>3. \A t \in Slaves : InList(t, e)' => t \notin Owing(e)'
      BY <1>15, <1>17
    <3>4. slave_list_ack'[e] = ACK => slave_list'[e] # <<>>
      BY <1>11, <1>15
    <3>5. \A t \in Slaves : Chosen(t, e)' /\ t \notin Owing(e)' => InList(t, e)'
      BY <1>15, <1>16, <1>17
    <3> QED BY <1>17, <3>1, <3>2, <3>3, <3>4, <3>5 DEF SelectsOf, Is10bitRead
  <2>2. /\ device'[e] = device[e] /\ address_pattern'[e] = address_pattern[e]
        /\ slave_list_counter'[e] = slave_list_counter[e]
    BY <1>1, <1>11, <1>20
  <2> QED BY <1>1, <1>3, <1>4, <2>1, <2>2, AnswerWaits
<1> QED BY <1>19, <1>20

----------------------------------------------------------------------------
(* No master leads: a step of one endpoint does not disturb the others.    *)

LeftAlone(n) ==
  /\ Untouched(n) /\ pending_slaves'[n] = pending_slaves[n]
  /\ state'[n] = state[n] /\ current_master'[n] = current_master[n] /\ current_slave'[n] = current_slave[n]
  /\ \A s \in Slaves \ {n} :
       /\ current_master'[s] = n <=> current_master[s] = n
       /\ current_master[s] = n => state'[s] = state[s] /\ current_slave'[s] = current_slave[s]
  /\ \A a : \A d \in Devices : OnWay("start_request", n, a, d)' <=> OnWay("start_request", n, a, d)
  /\ \A s \in Slaves \ {n} : \A t \in MessageTypes \ {"start_request", "stop"} : \A a :
       /\ OnWay(t, n, a, s)' <=> OnWay(t, n, a, s)
       /\ OnWay(t, s, a, n)' <=> OnWay(t, s, a, n)
  /\ NoStop => NoStop' \/ Idle(n)
  /\ device[n] \in InTransfer => \A d \in Devices : current_master'[d] = n

LEMMA LeftAloneFlies ==
  ASSUME TypeOK, TypeOK', NEW n \in Masters, LeftAlone(n)
  PROVE  /\ \A d \in Devices : InFlight("start_request", n, d)' <=> InFlight("start_request", n, d)
         /\ \A s \in Slaves \ {n} : Restarting(n, s)' <=> Restarting(n, s)
         /\ \A s \in Slaves \ {n} : \A t \in MessageTypes \ {"start_request", "stop"} :
              /\ InFlight(t, n, s)' <=> InFlight(t, n, s)
              /\ InFlight(t, s, n)' <=> InFlight(t, s, n)
<1>1. ASSUME NEW d \in Devices
      PROVE  InFlight("start_request", n, d)' <=> InFlight("start_request", n, d)
  BY InFlightOnWay, InFlightOnWayNext DEF LeftAlone
<1>2. ASSUME NEW s \in Slaves \ {n}
      PROVE  Restarting(n, s)' <=> Restarting(n, s)
  BY DEF LeftAlone, Restarting, Devices, Is10bitRead
<1>3. ASSUME NEW s \in Slaves \ {n}, NEW t \in MessageTypes \ {"start_request", "stop"}
      PROVE  /\ InFlight(t, n, s)' <=> InFlight(t, n, s)
             /\ InFlight(t, s, n)' <=> InFlight(t, s, n)
  BY InFlightOnWay, InFlightOnWayNext DEF LeftAlone
<1> QED BY <1>1, <1>2, <1>3

LEMMA LeftAloneKeeps ==
  ASSUME ProtocolInv, TypeOK', NEW n \in Masters, LeftAlone(n)
  PROVE  MasterOK(n)' /\ \A s \in Slaves \ {n} : PrivateOf(n, s)'
<1>1. /\ \A d \in Devices : InFlight("start_request", n, d)' <=> InFlight("start_request", n, d)
      /\ \A s \in Slaves \ {n} :
           /\ InFlight("start_response", s, n)' <=> InFlight("start_response", s, n)
           /\ InFlight("start_response_pending", s, n)' <=> InFlight("start_response_pending", s, n)
           /\ InFlight("read_request", n, s)' <=> InFlight("read_request", n, s)
           /\ InFlight("read_response", s, n)' <=> InFlight("read_response", s, n)
           /\ InFlight("write_request", n, s)' <=> InFlight("write_request", n, s)
           /\ InFlight("write_response", s, n)' <=> InFlight("write_response", s, n)
  BY LeftAloneFlies DEF MessageTypes, ProtocolInv
<1>2. /\ device'[n] = device[n] /\ pending_start_responses'[n] = pending_start_responses[n]
      /\ slave_list'[n] = slave_list[n] /\ slave_list_counter'[n] = slave_list_counter[n]
      /\ slave_list_ack'[n] = slave_list_ack[n] /\ address_pattern'[n] = address_pattern[n]
      /\ pending_slaves'[n] = pending_slaves[n] /\ state'[n] = state[n]
      /\ current_master'[n] = current_master[n] /\ current_slave'[n] = current_slave[n]
  BY DEF LeftAlone, Untouched
<1>3. ASSUME NEW s \in Slaves \ {n}
      PROVE  /\ current_master'[s] = n <=> current_master[s] = n
             /\ current_master[s] = n => state'[s] = state[s] /\ current_slave'[s] = current_slave[s]
             /\ OwesStart(s, n)' <=> OwesStart(s, n)
             /\ OwesWrite(s, n)' <=> OwesWrite(s, n)
             /\ LateAnswer(s, n)' <=> LateAnswer(s, n)
  <2>1. /\ current_master'[s] = n <=> current_master[s] = n
        /\ current_master[s] = n => state'[s] = state[s] /\ current_slave'[s] = current_slave[s]
    BY DEF LeftAlone
  <2>2. s \in Devices
    BY DEF Devices
  <2> QED BY <1>1, <1>2, <2>1, <2>2 DEF OwesStart, OwesWrite, LateAnswer, Thinks
<1>4. ASSUME NEW s PROVE Chosen(s, n)' <=> Chosen(s, n)
  BY <1>3 DEF Chosen, Serves
<1>5. n \in Devices /\ MasterOK(n) /\ \A s \in Slaves : s \in Devices
  BY DEF Devices, ProtocolInv
<1>6. Owing(n)' = Owing(n) /\ Writing(n)' = Writing(n)
  BY <1>3 DEF Owing, Writing
<1>7. ASSUME NEW s PROVE InList(s, n)' <=> InList(s, n)
  BY <1>2 DEF InList
<1>8. /\ Receiving(n)' <=> Receiving(n)
      /\ AllReceive(n)' <=> AllReceive(n)
      /\ Broadcasting(n)' <=> Broadcasting(n)
      /\ Partner(n)' <=> Partner(n)
      /\ Asks(n)' <=> Asks(n)
      /\ Selects(n)' <=> Selects(n)
  <2>1. Receiving(n)' <=> Receiving(n)
    <3>1. PICK l : l = slave_list[n]
      OBVIOUS
    <3>2. Receiving(n) <=> \A i \in 1..Len(l) : Chosen(l[i], n) /\ \A j \in 1..Len(l) : l[i] = l[j] => i = j
      BY <3>1 DEF Receiving
    <3>3. Receiving(n)' <=> \A i \in 1..Len(l) : Chosen(l[i], n)' /\ \A j \in 1..Len(l) : l[i] = l[j] => i = j
      BY <1>2, <3>1 DEF Receiving, Chosen, Serves
    <3>4. \A i \in 1..Len(l) : Chosen(l[i], n)' <=> Chosen(l[i], n)
      <4> SUFFICES ASSUME NEW i \in 1..Len(l) PROVE Chosen(l[i], n)' <=> Chosen(l[i], n)
        OBVIOUS
      <4>1. PICK s : s = l[i]
        OBVIOUS
      <4> QED BY <1>4, <4>1 DEF Chosen, Serves
    <3> QED BY <3>2, <3>3, <3>4
  <2>2. AllReceive(n)' <=> AllReceive(n)
    BY <1>4, <1>7 DEF AllReceive
  <2>3. Partner(n)' <=> Partner(n)
    <3>1. PICK s : s = current_slave[n]
      OBVIOUS
    <3> QED BY <1>2, <1>4, <3>1 DEF Partner, Chosen, Serves
  <2>4. Asks(n)' <=> Asks(n)
    BY <1>1, <1>5 DEF Asks
  <2> QED BY <1>2, <2>1, <2>2, <2>3, <2>4 DEF Broadcasting, Is10bit, Selects
<1>9. StartsOf(n)' /\ AskedOf(n)'
  <2>1. StartsOf(n)'
    BY <1>1, <1>2, <1>5 DEF MasterOK, StartsOf
  <2>2. AskedOf(n)'
    <3>1. \A a : \A d \in Devices : OnWay("start_request", n, a, d)' <=> OnWay("start_request", n, a, d)
      BY DEF LeftAlone
    <3> QED BY <1>2, <1>5, <1>8, <3>1 DEF MasterOK, AskedOf, Is10bitRead, WaitingFor, IsRead, Pattern, IsSpecial, Is10bitWrite, IsHs
  <2> QED BY <2>1, <2>2
<1>10. NoStop => NoStop' \/ (device[n] \notin InTransfer /\ ~Selects(n) /\ \A s \in Slaves \ {n} : Quiet(n, s))
  BY DEF LeftAlone, Idle
<1>11. AskingOf(n)'
  <2>1. AskingOf(n)
    BY <1>5 DEF MasterOK
  <2>2. CASE Asks(n)
    <3>1. ASSUME device[n] \in Asking, NEW s \in Slaves \ {n}, ~InFlight("start_request", n, s)'
          PROVE  current_master'[s] = n /\ (Thinks(s)' \/ InFlight("start_response", s, n)')
      <4>1. ~InFlight("start_request", n, s)
        BY <1>1, <1>5, <3>1
      <4>2. current_master[s] = n /\ (Thinks(s) \/ InFlight("start_response", s, n))
        BY <2>1, <2>2, <3>1, <4>1 DEF AskingOf
      <4> QED BY <1>1, <1>3, <4>2 DEF Thinks
    <3> QED BY <1>2, <1>8, <2>1, <2>2, <3>1 DEF AskingOf, Is10bitRead
  <2>3. CASE ~Asks(n)
    BY <1>2, <1>8, <1>10, <2>1, <2>3 DEF AskingOf, Selects
  <2> QED BY <2>2, <2>3
<1>12. SelectsOf(n)'
  <2>1. SelectsOf(n)
    BY <1>5 DEF MasterOK
  <2>2. ASSUME Selects(n)
        PROVE  /\ pending_slaves'[n] = Cardinality(Owing(n)') /\ Owing(n)' # {}
               /\ \A s \in Slaves : InList(s, n)' => s \notin Owing(n)' \/ Is10bitRead(address_pattern[n])
               /\ \A s \in Slaves : Chosen(s, n)' /\ s \notin Owing(n)' =>
                    InList(s, n)' \/ Is10bitRead(address_pattern[n]) \/ ~Broadcasting(n)
    BY <1>2, <1>4, <1>6, <1>7, <2>1, <2>2 DEF SelectsOf
  <2>3. Is10bitRead(address_pattern[n])' <=> Is10bitRead(address_pattern[n])
    BY <1>2 DEF Is10bitRead
  <2> QED BY <1>2, <1>6, <1>8, <2>1, <2>2, <2>3 DEF SelectsOf
<1>13. ListsOf(n)' /\ LateOf(n)'
  <2>1. ListsOf(n)'
    BY <1>2, <1>5, <1>8 DEF MasterOK, ListsOf
  <2>2. LateOf(n)'
    BY <1>2, <1>3, <1>5 DEF MasterOK, LateOf, Has, Distinct
  <2> QED BY <2>1, <2>2
<1>14. TransferOf(n)'
  <2>1. CASE device[n] \in InTransfer
    <3>1. TransferOf(n) /\ NoStop' /\ \A d \in Devices : current_master'[d] = n
      BY <1>5, <1>10, <2>1 DEF MasterOK, TransferOf, LeftAlone
    <3>2. Accepting(n)' <=> Accepting(n)
      BY <1>2, <1>8 DEF Accepting
    <3>3. Reads(n) => Reads(n)'
      <4>1. PICK s : s = current_slave[n]
        OBVIOUS
      <4> QED BY <1>1, <1>2, <1>3, <1>8, <4>1 DEF Reads, Partner, Chosen, Serves
    <3>4. Writes(n) => Writes(n)'
      <4>1. PICK s : s = current_slave[n]
        OBVIOUS
      <4>2. Writes(n) => s \in Slaves \ {n} /\ OwesWrite(s, n)
        BY <4>1 DEF Writes, Partner, Chosen, Serves
      <4>3. Writes(n) => OwesWrite(s, n)'
        BY <1>3, <4>2
      <4>4. Writes(n) => OwesWrite(current_slave[n], n)'
        BY <1>2, <4>1, <4>3 DEF OwesWrite
      <4> QED BY <1>2, <1>8, <4>4 DEF Writes
    <3>5. WritesToAll(n) => WritesToAll(n)'
      BY <1>2, <1>6, <1>7, <1>8 DEF WritesToAll, Is10bit
    <3> QED BY <1>2, <1>8, <3>1, <3>2, <3>3, <3>4, <3>5 DEF TransferOf
  <2>2. CASE device[n] \notin InTransfer
    BY <1>2, <2>2 DEF TransferOf
  <2> QED BY <2>1, <2>2
<1>15. ASSUME NEW s \in Slaves \ {n} PROVE PrivateOf(n, s)'
  <2>1. PrivateOf(n, s)
    BY DEF ProtocolInv
  <2>2. Written(n, s)' <=> Written(n, s)
    BY <1>2, <1>7 DEF Written
  <2>3. \A a : OnWay("start_response", s, a, n)' <=> OnWay("start_response", s, a, n)
    BY DEF LeftAlone, MessageTypes
  <2>4. \A a : OnWay("start_response", s, a, n) => InFlight("start_response", s, n)
    BY InFlightOnWay DEF ProtocolInv
  <2>5. /\ InFlight("start_response", s, n)' \/ InFlight("start_response_pending", s, n)' =>
             current_master'[s] = n /\ NoStop' /\ device'[n] \in Asking
        /\ InFlight("start_response_pending", s, n)' => Thinks(s)' \/ InFlight("start_response", s, n)'
    BY <1>1, <1>2, <1>3, <1>10, <2>1 DEF PrivateOf, Quiet, Thinks
  <2>6. \A a \in 0..255 : OnWay("start_response", s, a, n)' =>
             a \in {ACK, NOACK} /\ current_slave'[s] = (IF a = ACK THEN s ELSE None)
    BY <1>3, <2>1, <2>3, <2>4 DEF PrivateOf
  <2>7. /\ InFlight("read_request", n, s)' \/ InFlight("read_response", s, n)' =>
             device'[n] = "read" /\ s = current_slave'[n]
        /\ InFlight("write_request", n, s)' \/ InFlight("write_response", s, n)' =>
             device'[n] = "write" /\ Written(n, s)'
    BY <1>1, <1>2, <2>1, <2>2 DEF PrivateOf
  <2> QED BY <2>5, <2>6, <2>7 DEF PrivateOf
<1> QED BY <1>9, <1>11, <1>12, <1>13, <1>14, <1>15 DEF MasterOK

(* Sending a message to all endpoints. *)
SendsToAll(type, src, status) ==
  /\ \A d \in Devices : \A t, x, a : OnWay(t, x, a, d)' <=>
       OnWay(t, x, a, d) \/ (t = type /\ x = src /\ a = status)
  /\ \A d \in Devices : \A t, x : InFlight(t, x, d)' <=>
       InFlight(t, x, d) \/ (t = type /\ x = src)
  /\ \A d \in Devices : \A n : Restarting(n, d)' <=> Restarting(n, d)
  /\ \A n : AfterStop(net, n)' => AfterStop(net, n) \/ (type = "start_request" /\ src = n)

InOrderIfSent(type, src, status) ==
  \E msg \in Messages :
    /\ msg.type = type /\ msg.src = src /\ msg.to = Endpoints /\ msg.status = status
    /\ QueueOK(Append(net, msg)) => QueueOK(net)'

LEMMA SentToAll ==
  ASSUME TypeOK, TypeOK', Agree(net, current_master), current_master' = current_master,
         NEW m \in Masters, NEW type, NEW status \in 0..255,
         type = "stop" \/ (type = "start_request" /\ ~Is10bitRead(status)),
         net' = Broadcast(net, type, m, status)
  PROVE  /\ SendsToAll(type, m, status)
         /\ Agree(net, current_master)'
         /\ InOrderIfSent(type, m, status)
<1>1. PICK msg : msg = Message(type, m, Endpoints, status)
  OBVIOUS
<1>2. /\ m \in Endpoints /\ type \in MessageTypes /\ Endpoints # {} /\ Endpoints \subseteq Endpoints \cup {None}
      /\ net \in Seq(Messages)
  BY DevicesAreEndpoints DEF MessageTypes, TypeOK
<1>3. msg \in Messages
  BY <1>1, <1>2, MessageType
<1>4. msg.type = type /\ msg.src = m /\ msg.to = Endpoints /\ msg.status = status
  BY <1>1 DEF Message
<1>5. net' = Append(net, msg)
  BY <1>1 DEF Broadcast
<1>6. Shared(msg) /\ ~Restarts(msg)
  BY <1>4 DEF Shared, SharedStart, Restarts
<1>7. /\ \A d : \A t, x, a : OnWay(t, x, a, d)' <=>
           \/ OnWay(t, x, a, d)
           \/ t = msg.type /\ x = msg.src /\ a = msg.status /\ d \in msg.to
      /\ \A d : \A t, x : InFlight(t, x, d)' <=>
           InFlight(t, x, d) \/ (t = msg.type /\ x = msg.src /\ d \in msg.to)
      /\ \A d : \A n : Restarting(n, d)' <=> Restarting(n, d) \/ (Restarts(msg) /\ n = msg.src /\ d \in msg.to)
      /\ \A n : AfterStop(net, n)' => AfterStop(net, n) \/ (msg.type = "start_request" /\ msg.src = n)
      /\ QueueOK(Append(net, msg)) => QueueOK(net)'
  BY <1>3, <1>5, SentFacts
<1>8. SendsToAll(type, m, status)
  BY <1>4, <1>6, <1>7, DevicesAreEndpoints DEF SendsToAll
<1>9. Agree(net, current_master)'
  <2>1. Agree(Append(net, msg), current_master)
    BY <1>2, <1>3, <1>4, AgreeSent
  <2> QED BY <1>5, <2>1, AgreeKept
<1> QED BY <1>3, <1>4, <1>7, <1>8, <1>9 DEF InOrderIfSent

LEMMA QuietIsNotBetween ==
  ASSUME TypeOK, NEW m \in Masters, NEW s \in Slaves \ {m}, Quiet(m, s), NEW i \in 1..Len(net)
  PROVE  ~Between(net[i], m, s)
<1>1. net[i].status \in 0..255 /\ net \in Seq(Messages)
  <2>1. net \in Seq(Messages) /\ net[i] \in Messages
    BY ElementOfSeq DEF TypeOK
  <2> QED BY <2>1 DEF Messages
<1> SUFFICES ASSUME Between(net[i], m, s) PROVE FALSE
  OBVIOUS
<1>2. \/ net[i].src = m /\ s \in net[i].to /\ FromMaster(net[i])
      \/ net[i].src = s /\ m \in net[i].to /\ FromSlave(net[i])
  BY DEF Between
<1>3. \A t, x, d : net[i].type = t /\ net[i].src = x /\ d \in net[i].to => OnWay(t, x, net[i].status, d)
  BY DEF OnWay, Carries
<1>4. \A t, x, d : net[i].type = t /\ net[i].src = x /\ d \in net[i].to => InFlight(t, x, d)
  BY <1>3, InFlightOnWay
<1>5. CASE Restarts(net[i]) /\ net[i].src = m /\ s \in net[i].to
  BY <1>1, <1>3, <1>5 DEF Restarts, Restarting, Quiet
<1>6. CASE ~(Restarts(net[i]) /\ net[i].src = m /\ s \in net[i].to)
  BY <1>2, <1>4, <1>6 DEF FromMaster, FromSlave, Quiet
<1> QED BY <1>5, <1>6

(* A master that may start has nothing on its way. *)
LEMMA FreeToStart ==
  ASSUME ProtocolInv, NEW m \in Masters, device[m] \in {"idle", "r", "w", "nack"},
         current_master[m] \in {None, m}
  PROVE  /\ \A d \in Devices : ~InFlight("start_request", m, d)
         /\ \A s \in Slaves \ {m} : Quiet(m, s) /\ ~(Works(s) /\ current_master[s] = m)
         /\ Len(pending_start_responses[m]) = 0 /\ slave_list_counter[m] = 0
         /\ \A n \in Masters \ {m} : device[n] \notin InTransfer
<1>1. MasterOK(m) /\ m \in Devices /\ device[m] \notin Asking /\ device[m] \notin {"read", "write"} /\ TypeOK
  BY DEF ProtocolInv, Asking, Devices
<1>2. \A d \in Devices : ~InFlight("start_request", m, d)
  BY <1>1, NoneIsNoMaster DEF MasterOK, StartsOf, Asking
<1>3. ASSUME NEW s \in Slaves \ {m}
      PROVE  Quiet(m, s) /\ ~(Works(s) /\ current_master[s] = m)
  <2>1. PrivateOf(m, s) /\ WorkOf(s) /\ s \in Devices
    BY DEF ProtocolInv, Devices
  <2>2. ~Restarting(m, s)
    BY <1>1, <2>1 DEF MasterOK, AskedOf, Restarting, Asking
  <2>3. Quiet(m, s)
    BY <1>1, <2>1, <2>2 DEF PrivateOf, Quiet
  <2>4. ~(Works(s) /\ current_master[s] = m)
    BY <1>1, <2>1 DEF WorkOf, Works
  <2> QED BY <2>3, <2>4
<1>4. Len(pending_start_responses[m]) = 0
  <2>1. \A i \in 1..Len(pending_start_responses[m]) : FALSE
    BY <1>1 DEF MasterOK, LateOf, LateAnswer, Has
  <2>2. Len(pending_start_responses[m]) \in Nat
    BY DevicesAreEndpoints, LenProperties DEF ProtocolInv, TypeOK
  <2> QED BY <2>1, <2>2
<1>5. slave_list_counter[m] = 0
  BY <1>1 DEF MasterOK, ListsOf
<1>6. ASSUME NEW n \in Masters \ {m} PROVE device[n] \notin InTransfer
  <2>1. TransferOf(n)
    BY DEF ProtocolInv, MasterOK
  <2> QED BY <1>1, <2>1, NoneIsNoMaster DEF TransferOf
<1> QED BY <1>2, <1>3, <1>4, <1>5, <1>6

(* A master asks all endpoints for the bus. *)
LEMMA StartBroadcastKeeps ==
  ASSUME ProtocolInv, TypeOK', NEW m \in Masters, NEW a \in Addresses, MayStart(m, a), StartBroadcast(m, a),
         UNCHANGED <<current_master, pending_start_responses>>
  PROVE  ProtocolInv'
<1>1. /\ m \in Devices /\ m \in Endpoints /\ TypeOK /\ QueueOK(net) /\ Agree(net, current_master)
      /\ device[m] \in {"idle", "r", "w", "nack"} /\ current_master[m] \in {None, m}
      /\ a \in 0..255 /\ ~Is10bitRead(a) /\ net \in Seq(Messages)
  BY DevicesAreEndpoints, EndpointsAssumption DEF ProtocolInv, Devices, MayStart, StartBroadcast, TypeOK
<1>2. /\ \A d \in Devices : ~InFlight("start_request", m, d)
      /\ \A s \in Slaves \ {m} : Quiet(m, s) /\ ~(Works(s) /\ current_master[s] = m)
      /\ Len(pending_start_responses[m]) = 0 /\ slave_list_counter[m] = 0
      /\ \A n \in Masters \ {m} : device[n] \notin InTransfer
  BY <1>1, FreeToStart
<1>3. /\ net' = Broadcast(net, "start_request", m, a) /\ current_master' = current_master
      /\ pending_slaves' = pending_slaves /\ pending_start_responses' = pending_start_responses
  BY DEF StartBroadcast
<1>4. SendsToAll("start_request", m, a) /\ Agree(net, current_master)' /\ InOrderIfSent("start_request", m, a)
  BY <1>1, <1>3, SentToAll
<1>5. QueueOK(net)'
  <2>1. PICK msg \in Messages :
              /\ msg.type = "start_request" /\ msg.src = m /\ msg.to = Endpoints /\ msg.status = a
              /\ QueueOK(Append(net, msg)) => QueueOK(net)'
    BY <1>4 DEF InOrderIfSent
  <2>2. \A d \in Devices : \A b : ~Carries(net, "start_request", m, b, d)
    BY <1>1, <1>2, InFlightOnWay DEF OnWay
  <2>3. \A s \in Slaves \ {m}, i \in 1..Len(net) : ~Between(net[i], m, s)
    BY <1>1, <1>2, QuietIsNotBetween
  <2>4. SharedStart(msg)
    BY <1>1, <2>1 DEF SharedStart
  <2> QED BY <1>1, <2>1, <2>2, <2>3, <2>4, StartSent
<1>6. /\ device'[m] = WaitingFor(a) /\ state'[m] = "wait_remote_start_rsp"
      /\ slave_list_ack'[m] = (IF IsSpecial(a) THEN NOACK ELSE slave_list_ack[m])
      /\ address_pattern'[m] = Pattern(m, a) /\ slave_list'[m] = <<>> /\ current_slave'[m] = None
      /\ slave_list_counter'[m] = 0
      /\ \A d \in Endpoints \ {m} :
           /\ device'[d] = device[d] /\ state'[d] = state[d] /\ slave_list_ack'[d] = slave_list_ack[d]
           /\ address_pattern'[d] = address_pattern[d] /\ slave_list'[d] = slave_list[d]
           /\ current_slave'[d] = current_slave[d] /\ slave_list_counter'[d] = slave_list_counter[d]
  BY <1>1, <1>2 DEF StartBroadcast, ForgetsAddress, TypeOK
<1>7. device'[m] \in Asking /\ device'[m] # "idle" /\ device'[m] \notin InTransfer
  BY <1>6 DEF WaitingFor, Asking, InTransfer
<1>8. NoStop' <=> NoStop
  BY <1>4 DEF NoStop, SendsToAll, Devices
<1>9. ASSUME NEW n \in Masters \ {m}
      PROVE  LeftAlone(n)
  <2>1. n \in Endpoints /\ n \in Devices /\ n # None
    BY DevicesAreEndpoints, NoneIsNoMaster DEF Devices
  <2>2. Untouched(n) /\ pending_slaves'[n] = pending_slaves[n]
        /\ state'[n] = state[n] /\ current_master'[n] = current_master[n] /\ current_slave'[n] = current_slave[n]
    BY <1>3, <1>6, <2>1 DEF Untouched
  <2>3. ASSUME NEW s \in Slaves \ {n}
        PROVE  /\ current_master'[s] = n <=> current_master[s] = n
               /\ current_master[s] = n => state'[s] = state[s] /\ current_slave'[s] = current_slave[s]
    BY <1>1, <1>3, <1>6, <2>1, DevicesAreEndpoints
  <2>4. \A b : \A d \in Devices : OnWay("start_request", n, b, d)' <=> OnWay("start_request", n, b, d)
    BY <1>4 DEF SendsToAll
  <2>5. \A s \in Slaves \ {n} : \A t \in MessageTypes \ {"start_request", "stop"} : \A b :
       /\ OnWay(t, n, b, s)' <=> OnWay(t, n, b, s)
       /\ OnWay(t, s, b, n)' <=> OnWay(t, s, b, n)
    BY <1>4, <2>1 DEF SendsToAll, Devices
  <2> QED BY <1>2, <1>8, <2>2, <2>3, <2>4, <2>5 DEF LeftAlone
<1>10. \A n \in Masters \ {m} : MasterOK(n)' /\ \A s \in Slaves \ {n} : PrivateOf(n, s)'
  BY <1>9, LeftAloneKeeps
<1>11. \A d \in Devices : InFlight("start_request", m, d)' /\ \A b : OnWay("start_request", m, b, d)' <=> b = a
  BY <1>1, <1>2, <1>4, InFlightOnWay DEF SendsToAll
<1>12. MasterOK(m)'
  <2>1. StartsOf(m)'
    BY <1>7 DEF StartsOf
  <2>2. AskedOf(m)'
    BY <1>1, <1>6, <1>11 DEF AskedOf, Pattern, WaitingFor, IsRead, IsSpecial, Is10bitWrite, IsHs, Is10bitRead
  <2>3. Asks(m)'
    BY <1>1, <1>11 DEF Asks
  <2>4. ~Is10bitRead(address_pattern[m])' /\ (Broadcasting(m)' => slave_list_ack'[m] = NOACK)
    <3>1. CASE IsSpecial(a)
      BY <1>1, <1>6, <3>1 DEF Pattern, Is10bitRead
    <3>2. CASE ~IsSpecial(a)
      <4>1. address_pattern'[m] = -1
        BY <1>6, <3>2 DEF Pattern, NoAddr
      <4> QED BY <4>1 DEF Is10bitRead, Broadcasting, Is10bit
    <3> QED BY <3>1, <3>2
  <2>5. AskingOf(m)'
    <3>1. \A s \in Slaves \ {m} : InFlight("start_request", m, s)'
      BY <1>11 DEF Devices
    <3> QED BY <1>1, <1>3, <1>6, <2>3, <2>4, <3>1 DEF AskingOf, Is10bitRead
  <2>6. SelectsOf(m)' /\ ListsOf(m)' /\ LateOf(m)' /\ TransferOf(m)'
    BY <1>2, <1>3, <1>6, <1>7, <2>3 DEF SelectsOf, Selects, ListsOf, LateOf, Distinct, Has, TransferOf
  <2> QED BY <2>1, <2>2, <2>5, <2>6 DEF MasterOK
<1>13. ASSUME NEW s \in Slaves \ {m} PROVE PrivateOf(m, s)'
  <2>1. Quiet(m, s)' /\ \A b : ~OnWay("start_response", s, b, m)'
    BY <1>1, <1>2, <1>4, InFlightOnWay DEF Quiet, SendsToAll, Devices
  <2> QED BY <2>1 DEF PrivateOf, Quiet
<1>14. ASSUME NEW s \in Slaves PROVE WorkOf(s)'
  <2> SUFFICES ASSUME current_master[s] # s, Works(s)' PROVE WorkOf(s)'
    BY <1>3 DEF WorkOf
  <2>1. s # m /\ s \in Endpoints /\ s \in Devices
    BY <1>6, DevicesAreEndpoints DEF Works, Thinks, Devices
  <2>2. Works(s)
    BY <1>6, <2>1 DEF Works, Thinks
  <2>3. PICK k : k = current_master[s]
    OBVIOUS
  <2>4. /\ k \in Masters /\ NoStop
        /\ ~InFlight("start_request", k, s) /\ ~InFlight("start_response", s, k)
        /\ ~InFlight("read_request", k, s) /\ ~InFlight("read_response", s, k)
        /\ ~InFlight("write_request", k, s) /\ ~InFlight("write_response", s, k)
        /\ Thinks(s) => device[k] \in Asking /\ current_slave[s] = None
        /\ state[s] = "wait_rsp_r" => device[k] = "read" /\ s = current_slave[k]
        /\ state[s] = "wait_rsp_w" => device[k] = "write" /\ Written(k, s)
    BY <2>2, <2>3 DEF WorkOf, ProtocolInv
  <2>5. k # m /\ k \in Endpoints
    BY <1>2, <2>1, <2>2, <2>3, <2>4, DevicesAreEndpoints
  <2>6. Written(k, s)' <=> Written(k, s)
    BY <1>6, <2>5 DEF Written, InList
  <2>7. /\ ~InFlight("start_request", k, s)' /\ ~InFlight("start_response", s, k)'
        /\ ~InFlight("read_request", k, s)' /\ ~InFlight("read_response", s, k)'
        /\ ~InFlight("write_request", k, s)' /\ ~InFlight("write_response", s, k)'
    BY <1>4, <2>1, <2>4, <2>5 DEF SendsToAll, Devices
  <2> QED BY <1>3, <1>6, <1>8, <2>1, <2>3, <2>4, <2>5, <2>6, <2>7 DEF WorkOf, Thinks
<1>15. StopsOK' /\ StopFirst' /\ RestOK'
  <2>1. StopsOK'
    BY <1>3, <1>4 DEF ProtocolInv, StopsOK, SendsToAll
  <2>2. StopFirst'
    BY <1>4, <1>6, <1>7, DevicesAreEndpoints DEF ProtocolInv, StopFirst, SendsToAll
  <2>3. \A n \in Masters : device'[n] = "idle" /\ current_master'[n] = n =>
       InFlight("stop", n, n)' /\ state'[n] \in {"wait_req_r", "wait_req_w", "wait_stop"}
    BY <1>3, <1>4, <1>6, <1>7, DevicesAreEndpoints DEF ProtocolInv, RestOK, SendsToAll, Devices
  <2>4. \A d \in Devices : current_master'[d] = None =>
       \/ state'[d] = "idle"
       \/ d \in Masters /\ device'[d] \in Asking /\ state'[d] = "wait_remote_start_rsp"
    BY <1>3, <1>6, <1>7, DevicesAreEndpoints DEF ProtocolInv, RestOK
  <2> QED BY <2>1, <2>2, <2>3, <2>4 DEF RestOK
<1> QED BY <1>4, <1>5, <1>10, <1>12, <1>13, <1>14, <1>15 DEF ProtocolInv

LEMMA QueueKept ==
  ASSUME QueueOK(net), net' = net
  PROVE  QueueOK(net)'
<1>1. QueueOK(net')
  OBVIOUS
<1> QED BY <1>1 DEF QueueOK, Shaped, Shared, SharedStart, Ordered, Between, FromMaster, FromSlave,
                    Restarts, Concerns, Is10bitRead, Devices

LEMMA ReadPart ==
  ASSUME NEW x \in -1..255, Is10bit(x)
  PROVE  Is10bit(AsRead(x)) /\ Is10bitRead(AsRead(x))
<1>1. x \in {240, 241, 242, 243, 244, 245, 246, 247}
  BY DEF Is10bit
<1>2. AsRead(x) \in {241, 243, 245, 247}
  BY <1>1 DEF AsRead
<1>3. PICK y \in {241, 243, 245, 247} : y = AsRead(x)
  BY <1>2
<1>4. y \div 8 = 30
  BY <1>3
<1> QED BY <1>3, <1>4 DEF Is10bit, Is10bitRead

(* A master asks the one slave that it has found for the second part of a  *)
(* 10-bit transfer.                                                        *)
LEMMA StartUnicastKeeps ==
  ASSUME ProtocolInv, TypeOK', NEW m \in Masters, NEW a \in Addresses, device[m] \in {"r", "w", "nack"},
         StartUnicast(m, a), UNCHANGED <<current_master, pending_start_responses>>
  PROVE  ProtocolInv'
<1>1. /\ m \in Devices /\ m \in Endpoints /\ TypeOK /\ MasterOK(m) /\ QueueOK(net)
      /\ device[m] \in InTransfer /\ a \in 0..255
  BY DevicesAreEndpoints, EndpointsAssumption DEF ProtocolInv, Devices, InTransfer
<1>2. /\ Lead(m) /\ NoStop /\ \A d \in Devices : current_master[d] = m
      /\ \A d \in Devices : ~InFlight("start_request", m, d)
      /\ \A s \in Slaves \ {m} : Quiet(m, s) /\ ~Works(s)
      /\ Len(pending_start_responses[m]) = 0 /\ slave_list_counter[m] = 0
  BY Settled
<1>3. state[m] = "wait_req_w" /\ slave_list[m] = <<>> /\ Is10bit(address_pattern[m]) /\ a = AsRead(address_pattern[m])
  BY DEF StartUnicast, Restarts10bitRead
<1>4. Partner(m)
  BY <1>1, <1>3 DEF MasterOK, TransferOf, Accepting
<1>5. Is10bit(a) /\ Is10bitRead(a)
  <2>1. address_pattern[m] \in -1..255
    BY <1>1 DEF TypeOK
  <2> QED BY <1>3, <2>1, ReadPart
<1>6. PICK p : p = current_slave[m]
  OBVIOUS
<1>7. /\ p \in Slaves \ {m} /\ p \in Devices /\ p # None /\ p \in Endpoints /\ p # m
      /\ current_master[p] = m /\ current_slave[p] = p
  BY <1>4, <1>6, NoneIsNoMaster, DevicesAreEndpoints DEF Partner, Chosen, Serves, Devices
<1>8. /\ net' = Unicast(net, "start_request", m, p, a) /\ current_master' = current_master
      /\ pending_start_responses' = pending_start_responses
  BY <1>6 DEF StartUnicast
<1>9. current_master' = current_master
  BY <1>8
<1>10. /\ device'[m] = "startR" /\ state'[m] = "wait_rsp_start_r" /\ slave_list_ack'[m] = NOACK
       /\ address_pattern'[m] = a /\ pending_slaves'[m] = 1 /\ slave_list'[m] = <<p>>
       /\ current_slave'[m] = None /\ slave_list_counter'[m] = 0
       /\ \A d \in Endpoints \ {m} :
            /\ device'[d] = device[d] /\ state'[d] = state[d] /\ slave_list_ack'[d] = slave_list_ack[d]
            /\ address_pattern'[d] = address_pattern[d] /\ slave_list'[d] = slave_list[d]
            /\ current_slave'[d] = current_slave[d] /\ slave_list_counter'[d] = slave_list_counter[d]
  BY <1>1, <1>2, <1>6 DEF StartUnicast, ForgetsAddress, TypeOK
<1>11. RequestOrAnswer("start_request", a, m, p, m, p)
  BY <1>5 DEF RequestOrAnswer
<1>12. Clear(net, m, p) /\ Unannounced(net, p)
  BY <1>1, <1>2, <1>7, OthersIdle, ClearWhenQuiet DEF Idle
<1>13. Sends("start_request", m, a, p)
  BY <1>1, <1>2, <1>7, <1>8, <1>9, <1>11, <1>12, Exchanged
<1>14. QueueOK(net)' /\ Agree(net, current_master)' /\ Lead(m)' /\ NoStop' /\ OthersFly(m)
  BY <1>1, <1>2, <1>7, <1>8, <1>9, <1>11, <1>12, Exchanged
<1>15. /\ \A d : \A t, x, b : OnWay(t, x, b, d)' <=>
              OnWay(t, x, b, d) \/ (t = "start_request" /\ x = m /\ b = a /\ d = p)
       /\ \A d : \A t, x : InFlight(t, x, d)' <=>
              InFlight(t, x, d) \/ (t = "start_request" /\ x = m /\ d = p)
  BY <1>13 DEF Sends
<1>16. OthersKept(m)
  BY <1>2, <1>8, <1>9, <1>10, DevicesAreEndpoints, KeptByLeader DEF Untouched
<1>17. MasterOK(m)'
  <2>1. StartsOf(m)'
    BY <1>10 DEF StartsOf, Asking
  <2>2. ~Asks(m)'
    BY <1>1, <1>2, <1>7, <1>15 DEF Asks
  <2>3. AskedOf(m)'
    <3>1. ASSUME NEW d \in Devices, NEW b \in 0..255, OnWay("start_request", m, b, d)'
          PROVE  b = a
      BY <1>1, <1>2, <1>15, <3>1, InFlightOnWay
    <3> QED BY <1>5, <1>10, <2>2, <3>1 DEF AskedOf, Is10bitRead
  <2>4. AskingOf(m)'
    BY <1>2, <1>9, <1>10, <1>14, <2>2, <1>1 DEF AskingOf
  <2>5. Owing(m)' = {p}
    <3>1. ASSUME NEW s \in Slaves \ {m} PROVE OwesStart(s, m)' <=> s = p
      <4>1. s \in Endpoints \ {m} /\ s \in Devices /\ ~InFlight("start_response", s, m) /\ ~Thinks(s)
        BY <1>2, DevicesAreEndpoints DEF Quiet, Works, Devices
      <4> QED BY <1>2, <1>10, <1>15, <4>1 DEF OwesStart, Thinks
    <3> QED BY <1>7, <3>1 DEF Owing
  <2>6. SelectsOf(m)'
    <3>1. pending_slaves'[m] = Cardinality(Owing(m)') /\ Owing(m)' # {}
      <4>1. Cardinality({p}) = 1
        BY FS_Singleton
      <4> QED BY <1>10, <2>5, <4>1
    <3> QED BY <1>5, <1>10, <3>1 DEF SelectsOf, Is10bitRead
  <2>7. ListsOf(m)' /\ LateOf(m)' /\ TransferOf(m)'
    BY <1>2, <1>5, <1>8, <1>10 DEF ListsOf, Broadcasting, Is10bit, LateOf, Distinct, Has, TransferOf, InTransfer
  <2> QED BY <2>1, <2>3, <2>4, <2>6, <2>7 DEF MasterOK
<1>18. ASSUME NEW s \in Slaves \ {m} PROVE PrivateOf(m, s)'
  <2>1. Quiet(m, s) /\ \A b : ~OnWay("start_response", s, b, m)
    BY <1>1, <1>2, InFlightOnWay DEF Quiet
  <2> QED BY <1>15, <2>1 DEF PrivateOf, Quiet
<1>19. ASSUME NEW s \in Slaves \ {m} PROVE WorkOf(s)'
  <2>1. ~Works(s)'
    BY <1>2, <1>10, DevicesAreEndpoints DEF Works, Thinks
  <2> QED BY <2>1 DEF WorkOf
<1> QED BY <1>2, <1>10, <1>14, <1>16, <1>17, <1>18, <1>19, LeadKeeps DEF OthersAsBefore

(* A master asks for the second part of a transfer that has no first one.  *)
LEMMA StartMisplacedKeeps ==
  ASSUME ProtocolInv, TypeOK', NEW m \in Masters, NEW a, device[m] \in {"r", "w", "nack"},
         StartMisplaced(m, a), UNCHANGED <<current_master, pending_start_responses>>
  PROVE  ProtocolInv'
<1>1. m \in Devices /\ m \in Endpoints /\ TypeOK /\ QueueOK(net) /\ Agree(net, current_master)
  BY DevicesAreEndpoints DEF ProtocolInv, Devices
<1>2. /\ Lead(m) /\ NoStop /\ \A d \in Devices : current_master[d] = m
      /\ \A d \in Devices : ~InFlight("start_request", m, d)
      /\ \A s \in Slaves \ {m} : Quiet(m, s) /\ ~Works(s)
      /\ Len(pending_start_responses[m]) = 0 /\ slave_list_counter[m] = 0
  BY Settled
<1>3. net' = net /\ current_master' = current_master /\ pending_start_responses' = pending_start_responses
  BY DEF StartMisplaced, RefuseStart
<1>4. /\ device'[m] = "nack" /\ state'[m] = "wait_stop" /\ slave_list'[m] = <<>> /\ slave_list_counter'[m] = 0
      /\ \A d \in Endpoints \ {m} :
            /\ device'[d] = device[d] /\ state'[d] = state[d] /\ slave_list_ack'[d] = slave_list_ack[d]
            /\ address_pattern'[d] = address_pattern[d] /\ slave_list'[d] = slave_list[d]
            /\ slave_list_counter'[d] = slave_list_counter[d]
  BY <1>1, <1>2 DEF StartMisplaced, RefuseStart, ForgetsAddress, TypeOK
<1>5. \A t, x, d : InFlight(t, x, d)' <=> InFlight(t, x, d)
  BY <1>3 DEF InFlight
<1>6. \A t, x, b, d : OnWay(t, x, b, d)' <=> OnWay(t, x, b, d)
  BY <1>3 DEF OnWay, Carries
<1>7. QueueOK(net)' /\ Agree(net, current_master)'
  BY <1>1, <1>3, QueueKept, AgreeKept
<1>8. Lead(m)' /\ \A d \in Devices : current_master'[d] = m
  BY <1>2, <1>3, <1>5 DEF Lead, NoStop, Devices
<1>9. ASSUME NEW n \in Masters, NEW s \in Slaves \ {n}, Quiet(n, s)
      PROVE  Quiet(n, s)'
  BY <1>5, <1>6, <1>9 DEF Quiet, Restarting, Is10bitRead
<1>10. OthersFly(m)
  BY <1>2, <1>5, <1>6, <1>9, OthersIdle DEF OthersFly, Idle
<1>11. OthersKept(m)
  BY <1>2, <1>3, <1>4, DevicesAreEndpoints, KeptByLeader DEF Untouched
<1>12. Ready(m)'
  BY <1>2, <1>3, <1>4 DEF Ready
<1>13. \A s \in Slaves \ {m} : Quiet(m, s)' /\ ~Works(s)'
  BY <1>2, <1>4, <1>9, DevicesAreEndpoints DEF Works, Thinks
<1>14. \A d \in Devices : ~InFlight("start_request", m, d)'
  BY <1>2, <1>5
<1> QED BY <1>2, <1>7, <1>8, <1>10, <1>11, <1>12, <1>13, <1>14, SettlesDown DEF OthersAsBefore

(* A start of a master that sees the bus is never turned down at once.     *)
(* A start of a master that behaves is neither rejected nor refused because *)
(* another one has the bus.                                                 *)
LEMMA StartCases ==
  ASSUME ProtocolInv, MastersBehave, NEW m \in Masters, Start(m)
  PROVE  \E a \in Addresses :
           /\ MayStart(m, a) /\ UNCHANGED <<current_master, pending_start_responses>>
           /\ Is10bitRead(a) => device[m] # "idle"
           /\ \/ StartMisplaced(m, a) /\ Is10bitRead(a)
              \/ StartUnicast(m, a) /\ Is10bitRead(a)
              \/ StartBroadcast(m, a)
<1>1. PICK a \in Addresses :
        /\ MayStart(m, a)
        /\ IF StartIsValid(m)
           THEN \/ StartWhileBusy(m, a)
                \/ StartMisplaced(m, a)
                \/ StartUnicast(m, a)
                \/ StartBroadcast(m, a)
           ELSE RejectStart(m, a)
        /\ UNCHANGED <<current_master, pending_start_responses>>
  BY DEF Start
<1>2. /\ m \in Devices /\ MasterOK(m) /\ RestOK /\ TypeOK /\ m \in Endpoints
      /\ device[m] \in {"idle", "r", "w", "nack"} /\ current_master[m] \in Masters \cup {None}
  BY <1>1, DevicesAreEndpoints DEF ProtocolInv, Devices, MayStart, Agree, AgreeAmong
<1>3. current_master[m] \in {None, m}
  <2>1. CASE device[m] = "idle"
    BY <1>1, <1>2, <2>1 DEF MayStart, MastersBehave
  <2>2. CASE device[m] # "idle"
    BY <1>2, <2>2 DEF MasterOK, TransferOf, InTransfer
  <2> QED BY <2>1, <2>2
<1>4. StartIsValid(m)
  <2>1. CASE device[m] = "idle"
    BY <1>2, <1>3, <2>1 DEF RestOK, StartIsValid, Asking
  <2>2. CASE device[m] # "idle"
    BY <1>2, <2>2 DEF MasterOK, TransferOf, InTransfer, Accepting, StartIsValid
  <2> QED BY <2>1, <2>2
<1>5. Is10bitRead(a) => device[m] # "idle"
  BY <1>1 DEF MayStart, MastersBehave
<1>6. ~StartWhileBusy(m, a)
  BY <1>3 DEF StartWhileBusy
<1>7. StartMisplaced(m, a) => Is10bitRead(a)
  BY DEF StartMisplaced
<1>8. ASSUME StartUnicast(m, a) PROVE Is10bitRead(a)
  <2>1. address_pattern[m] \in -1..255
    BY <1>2 DEF TypeOK
  <2>2. Is10bit(address_pattern[m]) /\ a = AsRead(address_pattern[m])
    BY <1>8 DEF StartUnicast, Restarts10bitRead
  <2> QED BY <2>1, <2>2, ReadPart
<1> QED BY <1>1, <1>4, <1>5, <1>6, <1>7, <1>8

LEMMA StartKeeps ==
  ASSUME ProtocolInv, TypeOK', MastersBehave, NEW m \in Masters, Start(m)
  PROVE  ProtocolInv'
<1>1. PICK a \in Addresses :
           /\ MayStart(m, a) /\ UNCHANGED <<current_master, pending_start_responses>>
           /\ Is10bitRead(a) => device[m] # "idle"
           /\ \/ StartMisplaced(m, a) /\ Is10bitRead(a)
              \/ StartUnicast(m, a) /\ Is10bitRead(a)
              \/ StartBroadcast(m, a)
  BY StartCases
<1>2. device[m] \in {"idle", "r", "w", "nack"}
  BY <1>1 DEF MayStart
<1>3. CASE StartMisplaced(m, a) /\ Is10bitRead(a)
  BY <1>1, <1>2, <1>3, StartMisplacedKeeps
<1>4. CASE StartUnicast(m, a) /\ Is10bitRead(a)
  BY <1>1, <1>2, <1>4, StartUnicastKeeps
<1>5. CASE StartBroadcast(m, a)
  BY <1>1, <1>5, StartBroadcastKeeps
<1> QED BY <1>1, <1>3, <1>4, <1>5

----------------------------------------------------------------------------
(* A master writes. *)

LEMMA ListCounted ==
  ASSUME NEW l \in Seq(Endpoints \cup {None}), Distinct(l), NEW X, \A y : y \in X <=> Has(l, y)
  PROVE  IsFiniteSet(X) /\ Cardinality(X) = Len(l)
<1>1. Len(l) \in Nat /\ DOMAIN l = 1..Len(l) /\ l \in [1..Len(l) -> Endpoints \cup {None}]
  BY LenProperties
<1>2. \A i \in 1..Len(l) : l[i] \in X
  BY DEF Has
<1>3. l \in [1..Len(l) -> X]
  BY <1>1, <1>2
<1>4. \A i, j \in 1..Len(l) : l[i] = l[j] => i = j
  BY DEF Distinct
<1>5. \A y \in X : \E i \in 1..Len(l) : l[i] = y
  BY DEF Has
<1>6. l \in Bijection(1..Len(l), X)
  BY <1>3, <1>4, <1>5 DEF Bijection, Injection, Surjection, IsInjective
<1>7. IsFiniteSet(1..Len(l)) /\ Cardinality(1..Len(l)) = Len(l)
  BY <1>1, FS_Interval
<1>8. ExistsBijection(1..Len(l), X)
  BY <1>6 DEF ExistsBijection
<1> QED BY <1>7, <1>8, FS_Bijection

(* The requests to all receivers follow what is on its way already. *)
LEMMA AllAsked ==
  ASSUME TypeOK, QueueOK(net), NEW m \in Masters, NEW l \in Seq(Endpoints \cup {None}), Distinct(l),
         \A i \in 1..Len(l) : l[i] \in Slaves \ {m} /\ Clear(net, m, l[i]) /\ Unannounced(net, l[i]),
         NEW f, f = [i \in DOMAIN l |-> Message("write_request", m, {l[i]}, 0)],
         NEW q, q = net \o f
  PROVE  /\ QueueOK(q)
         /\ \A owner : Agree(net, owner) => Agree(q, owner)
         /\ \A t, x, a, d : Carries(q, t, x, a, d) <=>
              OnWay(t, x, a, d) \/ (t = "write_request" /\ x = m /\ a = 0 /\ Has(l, d))
<1>1. net \in Seq(Messages) /\ Len(net) \in Nat /\ Len(l) \in Nat /\ DOMAIN l = 1..Len(l) /\ m \in Endpoints
  BY LenProperties, DevicesAreEndpoints DEF TypeOK
<1>2. ASSUME NEW i \in 1..Len(l)
      PROVE  /\ f[i] \in Messages /\ f[i].type = "write_request" /\ f[i].src = m
             /\ f[i].to = {l[i]} /\ f[i].status = 0
  <2>1. f[i] = Message("write_request", m, {l[i]}, 0)
    BY <1>1
  <2>2. l[i] \in Endpoints \cup {None}
    BY DevicesAreEndpoints
  <2>3. {l[i]} \subseteq Endpoints \cup {None} /\ {l[i]} # {} /\ "write_request" \in MessageTypes /\ 0 \in 0..255
    BY <2>2 DEF MessageTypes
  <2>4. Message("write_request", m, {l[i]}, 0) \in Messages
    BY <1>1, <2>3, MessageType
  <2> QED BY <2>1, <2>4 DEF Message
<1>3. f \in Seq(Messages) /\ Len(f) = Len(l)
  <2>1. f \in [1..Len(l) -> Messages]
    <3>1. f = [i \in 1..Len(l) |-> f[i]]
      BY <1>1
    <3> QED BY <1>2, <3>1
  <2> QED BY <1>1, <2>1, LenProperties
<1>4. q \in Seq(Messages) /\ Len(q) = Len(net) + Len(l)
      /\ \A j \in 1..(Len(net) + Len(l)) : q[j] = IF j <= Len(net) THEN net[j] ELSE f[j - Len(net)]
  BY <1>1, <1>3, Joined
<1>5. ASSUME NEW j \in 1..Len(q)
      PROVE  \/ j \in 1..Len(net) /\ q[j] = net[j]
             \/ \E i \in 1..Len(l) : i = j - Len(net) /\ q[j] = f[i]
  <2>1. CASE j <= Len(net)
    BY <1>1, <1>4, <2>1
  <2>2. CASE ~(j <= Len(net))
    <3>1. j - Len(net) \in 1..Len(l) /\ q[j] = f[j - Len(net)]
      BY <1>1, <1>4, <2>2
    <3> QED BY <3>1
  <2> QED BY <2>1, <2>2
<1>6. ASSUME NEW i \in 1..Len(l)
      PROVE  Len(net) + i \in 1..Len(q) /\ q[Len(net) + i] = f[i]
  <2>1. Len(net) + i \in 1..(Len(net) + Len(l)) /\ ~(Len(net) + i <= Len(net)) /\ (Len(net) + i) - Len(net) = i
    BY <1>1
  <2> QED BY <1>4, <2>1
<1>7. \A i \in 1..Len(net) : i \in 1..Len(q) /\ q[i] = net[i]
  BY <1>1, <1>4
<1>8. ASSUME NEW i \in 1..Len(l)
      PROVE  Shaped(f[i]) /\ ~Shared(f[i]) /\ \A j \in 1..Len(net) : Ordered(net[j], f[i])
  <2>1. PICK msg \in Messages : msg = f[i]
    BY <1>2
  <2>2. PICK s \in Slaves \ {m} : s = l[i]
    OBVIOUS
  <2>3. Between(msg, m, s) /\ msg.type = "write_request"
    BY <1>2, <2>1, <2>2 DEF Between, FromMaster
  <2>4. Clear(net, m, s) /\ Unannounced(net, s)
    BY <2>2
  <2>5. QueueOK(Append(net, msg))
    BY <1>1, <2>3, <2>4, PrivateSent
  <2>6. PICK r : r = Append(net, msg)
    OBVIOUS
  <2>7. QueueOK(r) /\ Len(r) = Len(net) + 1 /\ r[Len(r)] = msg /\ \A j \in 1..Len(net) : r[j] = net[j]
    BY <1>1, <2>5, <2>6, Sent
  <2>8. ASSUME NEW j \in 1..Len(net) PROVE Ordered(net[j], msg)
    <3>1. j \in 1..Len(r) /\ Len(r) \in 1..Len(r) /\ j < Len(r) /\ r[j] = net[j]
      BY <1>1, <2>7
    <3>2. Ordered(r[j], r[Len(r)])
      BY <2>7, <3>1 DEF QueueOK
    <3> QED BY <2>7, <3>1, <3>2
  <2>9. Shaped(msg) /\ ~Shared(msg)
    BY <2>3 DEF Shaped, Shared, SharedStart
  <2> QED BY <2>1, <2>8, <2>9
<1>9. ASSUME NEW i \in 1..Len(l), NEW j \in 1..Len(l), i # j
      PROVE  Ordered(f[i], f[j])
  <2>1. l[i] # l[j]
    BY <1>9 DEF Distinct
  <2>2. \A k, s : Between(f[i], k, s) => s = l[i]
    BY <1>2 DEF Between, FromSlave
  <2>3. \A k, s : Between(f[j], k, s) => s = l[j]
    BY <1>2 DEF Between, FromSlave
  <2>4. f[i].type = "write_request" /\ f[j].type = "write_request"
    BY <1>2
  <2> QED BY <2>1, <2>2, <2>3, <2>4 DEF Ordered, SharedStart
<1>10. QueueOK(q)
  <2>1. ASSUME NEW j \in 1..Len(q)
        PROVE  Shaped(q[j]) /\ (j > 1 /\ Shared(q[j]) => q[j].to = Endpoints)
    BY <1>5, <1>8 DEF QueueOK
  <2>2. ASSUME NEW i \in 1..Len(q), NEW j \in 1..Len(q), i < j
        PROVE  Ordered(q[i], q[j])
    <3>1. CASE j \in 1..Len(net)
      <4>1. i \in 1..Len(net)
        BY <2>2, <3>1
      <4>2. Ordered(net[i], net[j])
        BY <2>2, <3>1, <4>1 DEF QueueOK
      <4> QED BY <1>7, <3>1, <4>1, <4>2
    <3>2. CASE j \notin 1..Len(net)
      <4>1. PICK k \in 1..Len(l) : k = j - Len(net) /\ q[j] = f[k]
        BY <1>5, <3>2
      <4>2. CASE i \in 1..Len(net)
        <5>1. Ordered(net[i], f[k])
          BY <1>8, <4>2
        <5> QED BY <1>7, <4>1, <4>2, <5>1
      <4>3. CASE i \notin 1..Len(net)
        <5>1. PICK h \in 1..Len(l) : h = i - Len(net) /\ q[i] = f[h]
          BY <1>5, <4>3
        <5>2. h # k
          BY <1>1, <2>2, <4>1, <5>1
        <5>3. Ordered(f[h], f[k])
          BY <1>9, <5>2
        <5> QED BY <4>1, <5>1, <5>3
      <4> QED BY <4>2, <4>3
    <3> QED BY <3>1, <3>2
  <2> QED BY <2>1, <2>2 DEF QueueOK
<1>11. ASSUME NEW owner, Agree(net, owner)
       PROVE  Agree(q, owner)
  <2>1. CASE net = <<>>
    <3>1. \A d : ~Behind(net, d)
      BY <2>1 DEF Behind
    <3>2. ASSUME q # <<>> PROVE ~Shared(Head(q))
      <4>1. Len(net) = 0
        BY <2>1
      <4>2. Len(q) >= 1 /\ Head(q) = q[1] /\ 1 \in 1..Len(q)
        BY <1>4, <3>2, HeadTailProperties, LenProperties, EmptySeq
      <4>3. PICK i \in 1..Len(l) : q[1] = f[i]
        <5>1. 1 \notin 1..Len(net)
          BY <4>1
        <5> QED BY <1>5, <4>2, <5>1
      <4> QED BY <1>8, <4>2, <4>3
    <3>3. \A d : ~Behind(q, d)
      BY <3>2 DEF Behind
    <3> QED BY <1>11, <3>1, <3>3 DEF Agree, AgreeAmong
  <2>2. CASE net # <<>>
    <3>1. Len(net) >= 1 /\ Head(net) = net[1] /\ 1 \in 1..Len(net)
      BY <1>1, <2>2, HeadTailProperties, EmptySeq
    <3>2. Len(q) >= 1
      BY <1>1, <1>4, <3>1
    <3>3. q # <<>> /\ Head(q) = q[1]
      BY <1>4, <3>2, HeadTailProperties, EmptySeq
    <3>4. Head(q) = Head(net)
      BY <1>7, <3>1, <3>3
    <3>5. \A d : Behind(q, d) <=> Behind(net, d)
      BY <2>2, <3>3, <3>4 DEF Behind
    <3> QED BY <1>11, <3>4, <3>5 DEF Agree, AgreeAmong
  <2> QED BY <2>1, <2>2
<1>12. ASSUME NEW t, NEW x, NEW a, NEW d
       PROVE  Carries(q, t, x, a, d) <=>
                OnWay(t, x, a, d) \/ (t = "write_request" /\ x = m /\ a = 0 /\ Has(l, d))
  <2>1. ASSUME Carries(q, t, x, a, d)
        PROVE  OnWay(t, x, a, d) \/ (t = "write_request" /\ x = m /\ a = 0 /\ Has(l, d))
    <3>1. PICK j \in 1..Len(q) : q[j].type = t /\ q[j].src = x /\ q[j].status = a /\ d \in q[j].to
      BY <2>1 DEF Carries
    <3>2. CASE j \in 1..Len(net) /\ q[j] = net[j]
      BY <3>1, <3>2 DEF OnWay, Carries
    <3>3. CASE \E i \in 1..Len(l) : i = j - Len(net) /\ q[j] = f[i]
      BY <1>2, <3>1, <3>3 DEF Has
    <3> QED BY <1>5, <3>2, <3>3
  <2>2. ASSUME OnWay(t, x, a, d) PROVE Carries(q, t, x, a, d)
    BY <1>7, <2>2 DEF OnWay, Carries
  <2>3. ASSUME t = "write_request", x = m, a = 0, Has(l, d) PROVE Carries(q, t, x, a, d)
    <3>1. PICK i \in 1..Len(l) : l[i] = d
      BY <2>3 DEF Has
    <3>2. PICK j \in 1..Len(q) : q[j] = f[i]
      BY <1>6
    <3> QED BY <1>2, <2>3, <3>1, <3>2 DEF Carries
  <2> QED BY <2>1, <2>2, <2>3
<1> QED BY <1>10, <1>11, <1>12

LEMMA WriteToPartnerKeeps ==
  ASSUME ProtocolInv, TypeOK', NEW m \in Masters, Write(m), slave_list[m] = <<>>
  PROVE  ProtocolInv'
<1>1. /\ m \in Devices /\ m \in Endpoints /\ TypeOK /\ MasterOK(m) /\ device[m] = "w"
      /\ device[m] \in InTransfer /\ QueueOK(net)
  BY DevicesAreEndpoints DEF ProtocolInv, Devices, Write, InTransfer
<1>2. /\ Lead(m) /\ NoStop /\ \A d \in Devices : current_master[d] = m
      /\ \A d \in Devices : ~InFlight("start_request", m, d)
      /\ \A s \in Slaves \ {m} : Quiet(m, s) /\ ~Works(s)
      /\ Len(pending_start_responses[m]) = 0 /\ slave_list_counter[m] = 0
  BY <1>1, Settled
<1>3. state[m] = "wait_req_w" /\ Partner(m)
  BY <1>1 DEF MasterOK, TransferOf, Accepting
<1>4. PICK p : p = current_slave[m]
  OBVIOUS
<1>5. /\ p \in Slaves \ {m} /\ p \in Devices /\ p # None /\ p \in Endpoints
      /\ current_master[p] = m /\ current_slave[p] = p
  BY <1>3, <1>4, NoneIsNoMaster, DevicesAreEndpoints DEF Partner, Chosen, Serves, Devices
<1>6. /\ device' = [device EXCEPT ![m] = "write"]
      /\ state' = [state EXCEPT ![m] = "wait_rsp_w"]
      /\ address_pattern' = [address_pattern EXCEPT ![m] = NoAddr]
      /\ net' = Unicast(net, "write_request", m, p, 0)
      /\ UNCHANGED <<current_master, current_slave, pending_slaves, pending_start_responses,
                     slave_list, slave_list_counter, slave_list_ack>>
  BY <1>1, <1>2, <1>3, <1>4 DEF Write, WriteIsValid, answers, addressing
<1>14. current_master' = current_master
  BY <1>6
<1>7. /\ device'[m] = "write" /\ state'[m] = "wait_rsp_w" /\ address_pattern'[m] = -1
      /\ \A d \in Endpoints : d # m =>
           device'[d] = device[d] /\ state'[d] = state[d] /\ address_pattern'[d] = address_pattern[d]
  BY <1>1, <1>6 DEF TypeOK, NoAddr
<1>8. RequestOrAnswer("write_request", 0, m, p, m, p) /\ 0 \in 0..255
  BY DEF RequestOrAnswer
<1>9. Clear(net, m, p) /\ Unannounced(net, p)
  BY <1>1, <1>2, <1>5, OthersIdle, ClearWhenQuiet DEF Idle
<1>10. Sends("write_request", m, 0, p)
  BY <1>2, <1>5, <1>6, <1>8, <1>9, <1>14, Exchanged
<1>11. QueueOK(net)' /\ Agree(net, current_master)' /\ Lead(m)' /\ NoStop' /\ OthersFly(m)
  BY <1>2, <1>5, <1>6, <1>8, <1>9, <1>14, Exchanged
<1>12. /\ \A d : \A type, src, status : OnWay(type, src, status, d)' <=>
              OnWay(type, src, status, d) \/ (type = "write_request" /\ src = m /\ status = 0 /\ d = p)
       /\ \A d : \A type, src : InFlight(type, src, d)' <=>
              InFlight(type, src, d) \/ (type = "write_request" /\ src = m /\ d = p)
       /\ \A d : \A n : Restarting(n, d)' <=> Restarting(n, d)
  BY <1>10 DEF Sends
<1>15. OthersKept(m)
  BY <1>2, <1>6, <1>7, <1>14, DevicesAreEndpoints, KeptByLeader DEF Untouched
<1>16. MasterOK(m)'
  <2>1. StartsOf(m)' /\ AskedOf(m)'
    BY <1>1, <1>2, <1>12, InFlightOnWayNext DEF StartsOf, AskedOf
  <2>2. AskingOf(m)' /\ SelectsOf(m)'
    BY <1>7 DEF AskingOf, SelectsOf, Selects, Asking
  <2>3. ListsOf(m)' /\ LateOf(m)'
    BY <1>1, <1>2, <1>6, <1>7 DEF ListsOf, LateOf, LateAnswer, Distinct, Has
  <2>4. TransferOf(m)'
    <3>1. ~Broadcasting(m)'
      BY <1>7 DEF Broadcasting, Is10bit
    <3>2. OwesWrite(current_slave[m], m)'
      BY <1>4, <1>6, <1>12 DEF OwesWrite
    <3>3. Writes(m)'
      BY <1>2, <1>4, <1>5, <1>6, <1>7, <3>1, <3>2 DEF Writes, Partner, Chosen, Serves
    <3> QED BY <1>2, <1>6, <1>7, <1>11, <3>3 DEF TransferOf, Devices
  <2> QED BY <2>1, <2>2, <2>3, <2>4 DEF MasterOK
<1>17. ASSUME NEW s \in Slaves \ {m} PROVE PrivateOf(m, s)'
  <2>1. Quiet(m, s) /\ \A a : ~OnWay("start_response", s, a, m)
    BY <1>1, <1>2, InFlightOnWay DEF Quiet
  <2>2. s = p => Written(m, s)'
    BY <1>4, <1>6 DEF Written
  <2>3. InFlight("write_request", m, s)' => s = p
    BY <1>12, <2>1 DEF Quiet
  <2>4. /\ ~InFlight("start_response", s, m)' /\ ~InFlight("start_response_pending", s, m)'
        /\ ~InFlight("read_request", m, s)' /\ ~InFlight("read_response", s, m)'
        /\ ~InFlight("write_response", s, m)' /\ \A a : ~OnWay("start_response", s, a, m)'
    BY <1>12, <2>1 DEF Quiet
  <2> QED BY <1>7, <2>2, <2>3, <2>4 DEF PrivateOf
<1>18. ASSUME NEW s \in Slaves \ {m} PROVE WorkOf(s)'
  <2>1. ~Works(s)'
    BY <1>2, <1>7, DevicesAreEndpoints DEF Works, Thinks
  <2> QED BY <2>1 DEF WorkOf
<1> QED BY <1>2, <1>7, <1>11, <1>15, <1>16, <1>17, <1>18, LeadKeeps DEF OthersAsBefore

LEMMA WriteToAllKeeps ==
  ASSUME ProtocolInv, TypeOK', MastersBehave, NEW m \in Masters, Write(m), slave_list[m] # <<>>
  PROVE  ProtocolInv'
<1>1. /\ m \in Devices /\ m \in Endpoints /\ TypeOK /\ MasterOK(m) /\ device[m] = "w"
      /\ device[m] \in InTransfer /\ QueueOK(net) /\ Agree(net, current_master)
  BY DevicesAreEndpoints DEF ProtocolInv, Devices, Write, InTransfer
<1>2. /\ Lead(m) /\ NoStop /\ \A d \in Devices : current_master[d] = m
      /\ \A d \in Devices : ~InFlight("start_request", m, d)
      /\ \A s \in Slaves \ {m} : Quiet(m, s) /\ ~Works(s)
      /\ Len(pending_start_responses[m]) = 0 /\ slave_list_counter[m] = 0
  BY <1>1, Settled
<1>3. state[m] = "wait_req_w" /\ Receiving(m) /\ AllReceive(m) /\ Broadcasting(m)
  BY <1>1 DEF MasterOK, TransferOf, Accepting, ListsOf
<1>4. PICK l : l = slave_list[m]
  OBVIOUS
<1>5. l \in Seq(Endpoints \cup {None}) /\ Len(l) \in Nat /\ Len(l) # 0
  BY <1>1, <1>4, LenProperties, EmptySeq DEF TypeOK
<1>6. /\ Distinct(l) /\ \A i \in 1..Len(l) : l[i] \in Slaves \ {m}
      /\ \A s : InList(s, m) <=> Has(l, s)
  BY <1>3, <1>4 DEF Receiving, Distinct, Chosen, Serves, InList, Has
<1>7. PICK f : f = [i \in DOMAIN l |-> Message("write_request", m, {l[i]}, 0)]
  OBVIOUS
<1>8. /\ device' = [device EXCEPT ![m] = "write"]
      /\ state' = [state EXCEPT ![m] = IF Is10bit(address_pattern[m])
                                       THEN "wait_rsp_10bit_addr_w" ELSE "wait_rsp_w"]
      /\ slave_list_ack' = [slave_list_ack EXCEPT ![m] = NOACK]
      /\ slave_list_counter' = [slave_list_counter EXCEPT ![m] = Len(l) % CounterSize]
      /\ net' = net \o f
      /\ UNCHANGED <<current_master, current_slave, pending_slaves, pending_start_responses,
                     slave_list, address_pattern>>
  BY <1>1, <1>2, <1>3, <1>4, <1>7 DEF Write, WriteIsValid, Requests, answers
<1>9. PICK X : X = {s \in Slaves \ {m} : Has(l, s)}
  OBVIOUS
<1>10. IsFiniteSet(X) /\ Cardinality(X) = Len(l)
  <2>1. \A y : y \in X <=> Has(l, y)
    BY <1>6, <1>9 DEF Has
  <2> QED BY <1>5, <1>6, <2>1, ListCounted
<1>11. Len(l) % CounterSize = Len(l)
  <2>1. IsFiniteSet(Slaves \ {m})
    <3>1. Slaves \ {m} \in SUBSET Endpoints /\ IsFiniteSet(Endpoints)
      BY EndpointsAssumption
    <3> QED BY <3>1, FS_Subset
  <2>2. X \in SUBSET (Slaves \ {m})
    BY <1>9
  <2>3. /\ Cardinality(X) <= Cardinality(Slaves \ {m}) /\ Cardinality(Slaves \ {m}) < CounterSize
        /\ Cardinality(Slaves \ {m}) \in Nat /\ CounterSize \in Nat
    BY <2>1, <2>2, FS_Subset, FS_CardinalityType, EndpointsAssumption DEF MastersBehave
  <2>4. \A n, k \in Nat : n < k => n % k = n
    OBVIOUS
  <2>5. Len(l) < CounterSize
    BY <1>5, <1>10, <2>3
  <2> QED BY <1>5, <2>3, <2>4, <2>5
<1>12. /\ device'[m] = "write" /\ slave_list_ack'[m] = NOACK /\ slave_list_counter'[m] = Len(l)
       /\ state'[m] = IF Is10bit(address_pattern[m]) THEN "wait_rsp_10bit_addr_w" ELSE "wait_rsp_w"
       /\ \A d \in Endpoints \ {m} :
            /\ device'[d] = device[d] /\ state'[d] = state[d] /\ slave_list_ack'[d] = slave_list_ack[d]
            /\ slave_list_counter'[d] = slave_list_counter[d]
  BY <1>1, <1>8, <1>11 DEF TypeOK
<1>13. current_master' = current_master
  BY <1>8
<1>14. \A i \in 1..Len(l) : l[i] \in Slaves \ {m} /\ Clear(net, m, l[i]) /\ Unannounced(net, l[i])
  <2> SUFFICES ASSUME NEW i \in 1..Len(l) PROVE Clear(net, m, l[i]) /\ Unannounced(net, l[i])
    BY <1>6
  <2>1. PICK s \in Slaves \ {m} : s = l[i]
    BY <1>6
  <2>2. Clear(net, m, s) /\ Unannounced(net, s)
    BY <1>1, <1>2, OthersIdle, ClearWhenQuiet DEF Idle, Devices
  <2> QED BY <2>1, <2>2
<1>15. PICK q : q = net \o f
  OBVIOUS
<1>16. /\ QueueOK(q) /\ Agree(q, current_master)
       /\ \A t, x, a, d : Carries(q, t, x, a, d) <=>
            OnWay(t, x, a, d) \/ (t = "write_request" /\ x = m /\ a = 0 /\ Has(l, d))
  BY <1>1, <1>5, <1>6, <1>7, <1>14, <1>15, AllAsked
<1>17. net' = q /\ Agree(q, current_master')
  BY <1>8, <1>15, <1>16
<1>18. QueueOK(net)' /\ Agree(net, current_master)'
  <2>1. QueueOK(net')
    BY <1>16, <1>17
  <2>2. QueueOK(net)'
    BY <2>1 DEF QueueOK, Shaped, Shared, SharedStart, Ordered, Between, FromMaster, FromSlave,
                    Restarts, Concerns, Is10bitRead, Devices
  <2> QED BY <1>17, <2>2, AgreeKept
<1>19. \A d : \A t, x, a : OnWay(t, x, a, d)' <=>
              OnWay(t, x, a, d) \/ (t = "write_request" /\ x = m /\ a = 0 /\ Has(l, d))
  <2>1. \A d, t, x, a : OnWay(t, x, a, d)' <=> Carries(q, t, x, a, d)
    BY <1>17 DEF OnWay, Carries
  <2> QED BY <1>16, <2>1
<1>20. \A d : \A t, x : InFlight(t, x, d)' <=>
              InFlight(t, x, d) \/ (t = "write_request" /\ x = m /\ Has(l, d))
  BY <1>1, <1>19, InFlightOnWay, InFlightOnWayNext
<1>21. \A d : \A n : Restarting(n, d)' <=> Restarting(n, d)
  BY <1>19 DEF Restarting, Is10bitRead
<1>22. NoStop' /\ Lead(m)'
  BY <1>2, <1>13, <1>20 DEF NoStop, Lead, Devices
<1>23. OthersFly(m)
  BY <1>2, <1>19, <1>20, <1>21, OthersIdle DEF OthersFly, Idle, Quiet
<1>24. OthersKept(m)
  BY <1>2, <1>8, <1>12, <1>13, DevicesAreEndpoints, KeptByLeader DEF Untouched
<1>25. ASSUME NEW s \in Slaves \ {m}
       PROVE  /\ s \in Endpoints \ {m} /\ s \in Devices
              /\ OwesWrite(s, m)' <=> Has(l, s)
              /\ ~Works(s)'
  <2>1. s \in Endpoints \ {m} /\ s \in Devices
    BY DevicesAreEndpoints DEF Devices
  <2>2. state'[s] = state[s] /\ ~Works(s) /\ Quiet(m, s)
    BY <1>2, <1>12, <2>1
  <2> QED BY <1>20, <2>1, <2>2 DEF OwesWrite, Works, Thinks, Quiet
<1>26. Writing(m)' = X
  BY <1>9, <1>25 DEF Writing
<1>27. \A s : InList(s, m)' <=> InList(s, m)
  BY <1>8 DEF InList
<1>28. WritesToAll(m)'
  <2>1. Receiving(m)' /\ AllReceive(m)'
    BY <1>3, <1>8, <1>27 DEF Receiving, AllReceive, Chosen, Serves
  <2>2. X # {}
    <3>1. l[1] \in X
      BY <1>5, <1>6, <1>9 DEF Has
    <3> QED BY <3>1
  <2> QED BY <1>8, <1>10, <1>12, <1>26, <2>1, <2>2 DEF WritesToAll, Is10bit, ACK, NOACK
<1>29. MasterOK(m)'
  <2>1. StartsOf(m)' /\ AskedOf(m)'
    BY <1>1, <1>2, <1>19, <1>20, InFlightOnWay DEF StartsOf, AskedOf
  <2>2. AskingOf(m)' /\ SelectsOf(m)'
    BY <1>12 DEF AskingOf, SelectsOf, Selects, Asking
  <2>3. ListsOf(m)' /\ LateOf(m)'
    BY <1>2, <1>3, <1>8, <1>12 DEF ListsOf, LateOf, LateAnswer, Distinct, Has, Broadcasting, Is10bit
  <2>4. TransferOf(m)'
    BY <1>2, <1>8, <1>12, <1>22, <1>28 DEF TransferOf, Devices
  <2> QED BY <2>1, <2>2, <2>3, <2>4 DEF MasterOK
<1>30. ASSUME NEW s \in Slaves \ {m} PROVE PrivateOf(m, s)'
  <2>1. Quiet(m, s) /\ \A a : ~OnWay("start_response", s, a, m)
    BY <1>1, <1>2, InFlightOnWay DEF Quiet
  <2>2. Has(l, s) => Written(m, s)'
    BY <1>6, <1>8, <1>27 DEF Written
  <2> QED BY <1>12, <1>19, <1>20, <2>1, <2>2 DEF PrivateOf, Quiet
<1>31. ASSUME NEW s \in Slaves \ {m} PROVE WorkOf(s)'
  BY <1>25 DEF WorkOf
<1> QED BY <1>2, <1>12, <1>18, <1>22, <1>23, <1>24, <1>29, <1>30, <1>31, LeadKeeps DEF OthersAsBefore

LEMMA WriteKeeps ==
  ASSUME ProtocolInv, TypeOK', MastersBehave, NEW m \in Masters, Write(m)
  PROVE  ProtocolInv'
BY WriteToPartnerKeeps, WriteToAllKeeps

----------------------------------------------------------------------------
(* A slave answers what it was asked. *)

LEMMA AskedByLeader ==
  ASSUME ProtocolInv, NEW s \in Slaves, IsAsked(s), Works(s), NEW m, m = current_master[s]
  PROVE  /\ m \in Masters /\ s \in Slaves \ {m} /\ Lead(m) /\ NoStop /\ MasterOK(m)
         /\ Clear(net, m, s) /\ (Thinks(s) \/ Unannounced(net, s))
         /\ ~InFlight("start_request", m, s) /\ ~InFlight("start_response", s, m)
         /\ ~InFlight("read_request", m, s) /\ ~InFlight("read_response", s, m)
         /\ ~InFlight("write_request", m, s) /\ ~InFlight("write_response", s, m)
         /\ Thinks(s) => device[m] \in Asking /\ current_slave[s] = None
         /\ state[s] = "wait_rsp_r" => device[m] = "read" /\ s = current_slave[m]
         /\ state[s] = "wait_rsp_w" => device[m] = "write" /\ Written(m, s)
         /\ \A n \in Masters \ {m} : n = s => device[n] = "idle"
<1>1. WorkOf(s) /\ current_master[s] # s /\ TypeOK
  BY DEF ProtocolInv, IsAsked
<1>2. /\ m \in Masters /\ s \in Slaves \ {m} /\ NoStop
      /\ ~InFlight("start_request", m, s) /\ ~InFlight("start_response", s, m)
      /\ ~InFlight("read_request", m, s) /\ ~InFlight("read_response", s, m)
      /\ ~InFlight("write_request", m, s) /\ ~InFlight("write_response", s, m)
      /\ Thinks(s) => device[m] \in Asking /\ current_slave[s] = None
      /\ state[s] = "wait_rsp_r" => device[m] = "read" /\ s = current_slave[m]
      /\ state[s] = "wait_rsp_w" => device[m] = "write" /\ Written(m, s)
  BY <1>1 DEF WorkOf
<1>3. Lead(m) /\ MasterOK(m) /\ PrivateOf(m, s)
  BY <1>2, OwnerLeads DEF ProtocolInv, Devices
<1>4. \A n \in Masters \ {m} : n = s => device[n] = "idle"
  BY <1>2, <1>3, LedIsIdle
<1>5. \A n \in Masters \ {m, s} : Quiet(n, s)
  BY <1>2, <1>3, OthersIdle DEF Idle
<1>6. \A n \in Masters \ {s} :
           /\ ~Restarting(n, s) /\ ~InFlight("read_request", n, s) /\ ~InFlight("write_request", n, s)
           /\ ~InFlight("start_response", s, n)
           /\ ~InFlight("read_response", s, n) /\ ~InFlight("write_response", s, n)
  <2>1. ~Restarting(m, s)
    BY <1>1, <1>2, InFlightOnWay DEF Restarting
  <2> QED BY <1>2, <1>5, <2>1 DEF Quiet
<1>7. Clear(net, m, s)
  <2>1. \A a : ~Carries(net, "start_request", m, a, s)
    BY <1>1, <1>2, InFlightOnWay DEF OnWay
  <2>2. ASSUME NEW n \in Masters \ {s}, NEW a
        PROVE  /\ Is10bitRead(a) => ~Carries(net, "start_request", n, a, s)
               /\ ~Carries(net, "read_request", n, a, s) /\ ~Carries(net, "write_request", n, a, s)
               /\ ~Carries(net, "start_response", s, a, n)
               /\ ~Carries(net, "read_response", s, a, n) /\ ~Carries(net, "write_response", s, a, n)
    BY <1>1, <1>6, InFlightOnWay, OnWayIsTyped DEF OnWay, Restarting
  <2> QED BY <2>1, <2>2 DEF Clear
<1>8. Thinks(s) \/ Unannounced(net, s)
  <2> SUFFICES ASSUME ~Thinks(s) PROVE Unannounced(net, s)
    OBVIOUS
  <2>1. ~InFlight("start_response_pending", s, m)
    BY <1>2, <1>3 DEF PrivateOf
  <2>2. \A n \in Masters \ {s} : ~InFlight("start_response_pending", s, n)
    BY <1>5, <2>1 DEF Quiet
  <2> QED BY <1>1, <2>2, InFlightOnWay DEF Unannounced, OnWay
<1> QED BY <1>2, <1>3, <1>4, <1>7, <1>8

(* What the others see of the answer of a slave. *)
LEMMA AnswersOthers ==
  ASSUME ProtocolInv, NEW m \in Masters, NEW s \in Slaves \ {m}, Lead(m), current_master[s] = m,
         current_master' = current_master, device' = device,
         \A n \in Masters \ {m} : Untouched(n) /\ (n = s => device[n] = "idle"),
         \A n \in Endpoints \ {s} : state'[n] = state[n] /\ current_slave'[n] = current_slave[n]
  PROVE  OthersKept(m)
<1>1. ASSUME NEW n \in Masters \ {m}
      PROVE  \/ current_master'[n] = m /\ device'[n] = "idle"
             \/ /\ device'[n] = device[n] /\ state'[n] = state[n]
                /\ current_master'[n] = current_master[n] /\ current_slave'[n] = current_slave[n]
  BY DevicesAreEndpoints DEF Untouched
<1>2. ASSUME NEW d \in Devices, current_master'[d] = None
      PROVE  /\ current_master[d] = None /\ state'[d] = state[d]
             /\ d \in Masters => device'[d] = device[d]
  <2>1. current_master[d] = None /\ d # s
    BY <1>2, NoneIsNoMaster
  <2> QED BY <2>1, DevicesAreEndpoints
<1> QED BY <1>1, <1>2 DEF OthersKept, Untouched

LEMMA AnswerStartKeeps ==
  ASSUME ProtocolInv, TypeOK', NEW s \in Slaves, AnswerStart(s)
  PROVE  ProtocolInv'
<1>1. PICK m : m = current_master[s]
  OBVIOUS
<1>2. /\ IsAsked(s) /\ Thinks(s) /\ Works(s) /\ TypeOK
      /\ state' = [state EXCEPT ![s] = "wait_remote_master"]
      /\ UNCHANGED <<current_master, pending_slaves, pending_start_responses, slave_list,
                     slave_list_counter, slave_list_ack, address_pattern, device>>
  BY DEF AnswerStart, Thinks, Works, answers, addressing, ProtocolInv
<1>3. PICK ack \in {ACK, NOACK} :
        /\ current_slave' = [current_slave EXCEPT ![s] = IF ack = ACK THEN s ELSE None]
        /\ net' = Unicast(net, "start_response", s, m, ack)
  BY <1>1 DEF AnswerStart
<1>4. /\ m \in Masters /\ s \in Slaves \ {m} /\ Lead(m) /\ NoStop /\ MasterOK(m)
      /\ Clear(net, m, s)
      /\ ~InFlight("start_request", m, s) /\ ~InFlight("start_response", s, m)
      /\ ~InFlight("read_request", m, s) /\ ~InFlight("read_response", s, m)
      /\ ~InFlight("write_request", m, s) /\ ~InFlight("write_response", s, m)
      /\ device[m] \in Asking /\ current_slave[s] = None
      /\ \A n \in Masters \ {m} : n = s => device[n] = "idle"
  BY <1>1, <1>2, AskedByLeader
<1>5. /\ s \in Endpoints /\ s \in Devices /\ m \in Endpoints /\ m \in Devices /\ m # s
      /\ current_master' = current_master /\ current_master[s] = m /\ device' = device
  BY <1>1, <1>2, <1>4, DevicesAreEndpoints DEF Devices
<1>6. /\ state'[s] = "wait_remote_master" /\ current_slave'[s] = (IF ack = ACK THEN s ELSE None)
      /\ \A d \in Endpoints \ {s} : state'[d] = state[d] /\ current_slave'[d] = current_slave[d]
  BY <1>2, <1>3, <1>5 DEF TypeOK
<1>7. RequestOrAnswer("start_response", ack, m, s, s, m) /\ ack \in 0..255
  BY DEF RequestOrAnswer, ACK, NOACK
<1>8. Sends("start_response", s, ack, m)
  BY <1>3, <1>4, <1>5, <1>7, Exchanged
<1>9. QueueOK(net)' /\ Agree(net, current_master)' /\ Lead(m)' /\ NoStop' /\ OthersFly(m)
  BY <1>3, <1>4, <1>5, <1>7, Exchanged
<1>10. /\ \A d : \A t, x, a : OnWay(t, x, a, d)' <=>
              OnWay(t, x, a, d) \/ (t = "start_response" /\ x = s /\ a = ack /\ d = m)
       /\ \A d : \A t, x : InFlight(t, x, d)' <=>
              InFlight(t, x, d) \/ (t = "start_response" /\ x = s /\ d = m)
       /\ \A d : \A n : Restarting(n, d)' <=> Restarting(n, d)
  BY <1>8 DEF Sends
<1>11. OthersKept(m)
  BY <1>2, <1>4, <1>5, <1>6, AnswersOthers DEF Untouched
<1>12. \A t \in Slaves \ {m} : t # s =>
         /\ state'[t] = state[t] /\ current_slave'[t] = current_slave[t]
         /\ (Thinks(t)' <=> Thinks(t)) /\ (Chosen(t, m)' <=> Chosen(t, m))
  BY <1>2, <1>6, DevicesAreEndpoints DEF Thinks, Chosen, Serves
<1>13. ASSUME NEW t \in Slaves \ {m}
       PROVE  /\ OwesStart(t, m)' <=> OwesStart(t, m)
              /\ LateAnswer(t, m) => LateAnswer(t, m)'
  <2>1. CASE t = s
    BY <1>2, <1>5, <1>10, <2>1 DEF OwesStart, LateAnswer, Thinks
  <2>2. CASE t # s
    BY <1>5, <1>10, <1>12, <2>2 DEF OwesStart, LateAnswer, Thinks
  <2> QED BY <2>1, <2>2
<1>14. Owing(m)' = Owing(m) /\ s \in Owing(m)
  BY <1>2, <1>4, <1>5, <1>13 DEF Owing, OwesStart, Thinks
<1>15. MasterOK(m)'
  <2>1. StartsOf(m)' /\ AskedOf(m)'
    BY <1>2, <1>4, <1>10 DEF MasterOK, StartsOf, AskedOf, Asks
  <2>2. Asks(m)' <=> Asks(m)
    BY <1>10 DEF Asks
  <2>3. AskingOf(m)'
    <3>1. AskingOf(m)
      BY <1>4 DEF MasterOK
    <3>2. ASSUME Asks(m), NEW t \in Slaves \ {m}, ~InFlight("start_request", m, t)'
          PROVE  current_master'[t] = m /\ (Thinks(t)' \/ InFlight("start_response", t, m)')
      <4>1. CASE t = s
        BY <1>5, <1>10, <4>1
      <4>2. CASE t # s
        BY <1>4, <1>5, <1>10, <1>12, <3>1, <3>2, <4>2 DEF AskingOf
      <4> QED BY <4>1, <4>2
    <3>3. Broadcasting(m)' <=> Broadcasting(m)
      BY <1>2 DEF Broadcasting, Is10bit
    <3> QED BY <1>2, <1>5, <1>6, <1>9, <2>2, <3>1, <3>2, <3>3 DEF AskingOf, Is10bitRead
  <2>4. SelectsOf(m)'
    <3> SUFFICES ASSUME Selects(m)' PROVE SelectsOf(m)'
      BY DEF SelectsOf
    <3>1. Selects(m) /\ SelectsOf(m)
      BY <1>2, <1>4, <2>2 DEF Selects, MasterOK
    <3>2. /\ current_slave'[m] = current_slave[m] /\ state'[m] = state[m]
          /\ (Broadcasting(m)' <=> Broadcasting(m)) /\ (Is10bitRead(address_pattern[m])' <=> Is10bitRead(address_pattern[m]))
      BY <1>2, <1>5, <1>6 DEF Broadcasting, Is10bit, Is10bitRead
    <3>3. current_slave[m] # None => Partner(m)'
      <4> SUFFICES ASSUME current_slave[m] # None PROVE Partner(m)'
        OBVIOUS
      <4>1. PICK p : p = current_slave[m]
        OBVIOUS
      <4>2. Chosen(p, m) /\ p \notin Owing(m)
        BY <3>1, <4>1 DEF SelectsOf, Partner, Chosen, Serves
      <4>3. p # s /\ p \in Slaves \ {m}
        BY <1>14, <4>2 DEF Chosen, Serves
      <4>4. Chosen(p, m)'
        BY <1>12, <4>2, <4>3
      <4> QED BY <3>2, <4>1, <4>4 DEF Partner, Chosen, Serves
    <3>4. \A t : InList(t, m)' <=> InList(t, m)
      BY <1>2 DEF InList
    <3>5. ASSUME ~Is10bitRead(address_pattern[m])
          PROVE  /\ Receiving(m)'
                 /\ \A t \in Slaves : InList(t, m) => t \notin Owing(m)
                 /\ Broadcasting(m) => \A t \in Slaves : Chosen(t, m)' /\ t \notin Owing(m) => InList(t, m)
      <4>1. /\ Receiving(m)
            /\ \A t \in Slaves : InList(t, m) => t \notin Owing(m)
            /\ Broadcasting(m) => \A t \in Slaves : Chosen(t, m) /\ t \notin Owing(m) => InList(t, m)
        BY <3>1, <3>5 DEF SelectsOf
      <4>2. \A t \in Slaves : t \notin Owing(m) => (Chosen(t, m)' <=> Chosen(t, m))
        BY <1>12, <1>14 DEF Chosen, Serves
      <4>3. PICK l : l = slave_list[m]
        OBVIOUS
      <4>4. ASSUME NEW i \in 1..Len(l) PROVE Chosen(l[i], m)'
        <5>1. PICK t : t = l[i]
          OBVIOUS
        <5>2. Chosen(t, m) /\ t \in Slaves /\ InList(t, m)
          BY <4>1, <4>3, <4>4, <5>1 DEF Receiving, Chosen, Serves, InList
        <5>3. Chosen(t, m)'
          BY <4>1, <4>2, <5>2
        <5> QED BY <5>1, <5>3 DEF Chosen, Serves
      <4>5. slave_list'[m] = l
        BY <1>2, <4>3
      <4>6. Receiving(m)'
        BY <4>1, <4>3, <4>4, <4>5 DEF Receiving, Chosen, Serves
      <4> QED BY <4>1, <4>2, <4>6
    <3>6. pending_slaves'[m] = Cardinality(Owing(m)') /\ Owing(m)' # {}
      BY <1>2, <1>14, <3>1 DEF SelectsOf
    <3> QED BY <1>2, <1>14, <3>1, <3>2, <3>3, <3>4, <3>5, <3>6 DEF SelectsOf
  <2>5. ListsOf(m)' /\ TransferOf(m)'
    BY <1>2, <1>4 DEF MasterOK, ListsOf, Broadcasting, Is10bit, TransferOf, Asking, InTransfer
  <2>6. LateOf(m)'
    BY <1>2, <1>4, <1>13 DEF MasterOK, LateOf, Has, Distinct
  <2> QED BY <2>1, <2>3, <2>4, <2>5, <2>6 DEF MasterOK
<1>16. ASSUME NEW t \in Slaves \ {m} PROVE PrivateOf(m, t)'
  <2>1. PrivateOf(m, t)
    BY <1>4 DEF ProtocolInv
  <2>2. device[m] \notin InTransfer
    BY <1>4 DEF Asking, InTransfer
  <2>3. \A a : ~OnWay("start_response", s, a, m)
    BY <1>2, <1>4, InFlightOnWay
  <2>4. CASE t = s
    BY <1>2, <1>5, <1>4, <1>6, <1>9, <1>10, <2>1, <2>3, <2>4 DEF PrivateOf
  <2>5. CASE t # s
    <3>1. Written(m, t)' <=> Written(m, t)
      BY <1>2, <1>5, <1>6 DEF Written, InList
    <3> QED BY <1>2, <1>5, <1>6, <1>9, <1>10, <1>12, <2>1, <2>5, <3>1 DEF PrivateOf
  <2> QED BY <2>4, <2>5
<1>17. ASSUME NEW t \in Slaves \ {m}, current_master'[t] = m PROVE WorkOf(t)'
  <2>1. CASE t = s
    BY <1>6, <2>1 DEF WorkOf, Works, Thinks
  <2>2. CASE t # s
    <3>1. WorkOf(t) /\ current_master[t] = m
      BY <1>5, <1>17 DEF ProtocolInv
    <3>2. Written(m, t)' <=> Written(m, t)
      BY <1>2, <1>5, <1>6 DEF Written, InList
    <3> QED BY <1>4, <1>5, <1>6, <1>9, <1>10, <1>12, <2>2, <3>1, <3>2 DEF WorkOf, Works, Thinks
  <2> QED BY <2>1, <2>2
<1>18. device'[m] # "idle"
  BY <1>4, <1>5 DEF Asking
<1> QED BY <1>4, <1>9, <1>11, <1>15, <1>16, <1>17, <1>18, LeadKeeps DEF OthersAsBefore

(* The answer to a read or a write is on its way. *)
LEMMA AnswerTransferKeeps ==
  ASSUME ProtocolInv, TypeOK', NEW m \in Masters, NEW s \in Slaves \ {m}, current_master[s] = m,
         NEW type, NEW ack \in 0..255, type = "write_response" => ack \in {ACK, NOACK},
         \/ type = "read_response" /\ device[m] = "read" /\ s = current_slave[m] /\ state[s] = "wait_rsp_r"
         \/ type = "write_response" /\ device[m] = "write" /\ Written(m, s) /\ state[s] = "wait_rsp_w",
         Clear(net, m, s), Unannounced(net, s),
         \A n \in Masters \ {m} : n = s => device[n] = "idle",
         NEW next \in {"wait_req_r", "wait_req_w"}, state' = [state EXCEPT ![s] = next],
         net' = Unicast(net, type, s, m, ack),
         UNCHANGED <<current_master, current_slave, pending_slaves, pending_start_responses, slave_list,
                     slave_list_counter, slave_list_ack, address_pattern, device>>
  PROVE  ProtocolInv'
<1>1. /\ s \in Endpoints /\ s \in Devices /\ m \in Endpoints /\ m \in Devices /\ m # s
      /\ current_master' = current_master /\ device' = device /\ current_slave' = current_slave
      /\ device[m] \in InTransfer /\ TypeOK
  BY DevicesAreEndpoints DEF Devices, InTransfer, ProtocolInv
<1>2. /\ MasterOK(m) /\ NoStop /\ Lead(m) /\ \A d \in Devices : current_master[d] = m
      /\ \A d \in Devices : ~InFlight("start_request", m, d)
      /\ \A t \in Slaves \ {m} :
           /\ ~Restarting(m, t) /\ ~InFlight("start_response", t, m)
           /\ ~InFlight("start_response_pending", t, m) /\ ~Thinks(t)
           /\ PrivateOf(m, t) /\ WorkOf(t) /\ current_master[t] = m
      /\ Len(pending_start_responses[m]) = 0
  BY <1>1, InTransferOnly
<1>3. state'[s] = next /\ \A d \in Endpoints \ {s} : state'[d] = state[d]
  BY <1>1 DEF TypeOK
<1>4. RequestOrAnswer(type, ack, m, s, s, m)
  BY DEF RequestOrAnswer
<1>5. Lead(m) /\ current_master' = current_master
  BY <1>1, <1>2
<1>6. /\ Sends(type, s, ack, m)
      /\ QueueOK(net)' /\ Agree(net, current_master)' /\ Lead(m)' /\ NoStop' /\ OthersFly(m)
  BY <1>4, <1>5, Exchanged
<1>7. /\ \A d : \A t, x, a : OnWay(t, x, a, d)' <=>
              OnWay(t, x, a, d) \/ (t = type /\ x = s /\ a = ack /\ d = m)
      /\ \A d : \A t, x : InFlight(t, x, d)' <=> InFlight(t, x, d) \/ (t = type /\ x = s /\ d = m)
  BY <1>6 DEF Sends
<1>8. OthersKept(m)
  BY <1>1, <1>2, <1>3, AnswersOthers DEF Untouched
<1>9. /\ \A d \in Devices : ~InFlight("start_request", m, d)'
      /\ \A t \in Slaves \ {m} : /\ ~InFlight("start_response", t, m)' /\ ~InFlight("start_response_pending", t, m)'
                                 /\ \A a : ~OnWay("start_response", t, a, m)'
  <2>1. \A t \in Slaves \ {m} : \A a : ~OnWay("start_response", t, a, m)
    BY <1>1, <1>2, InFlightOnWay
  <2> QED BY <1>2, <1>7, <2>1
<1>10. ASSUME NEW t \in Slaves \ {m}
       PROVE  /\ OwesWrite(t, m)' <=> (OwesWrite(t, m) /\ (t = s => type = "write_response"))
                                       \/ (t = s /\ OwesWrite(t, m)')
              /\ type = "write_response" => (OwesWrite(t, m)' <=> OwesWrite(t, m))
              /\ Chosen(t, m)' <=> Chosen(t, m)
  <2>1. CASE t = s
    BY <1>1, <1>7, <2>1 DEF OwesWrite, Chosen, Serves
  <2>2. CASE t # s
    BY <1>1, <1>3, <1>7, <2>2, DevicesAreEndpoints DEF OwesWrite, Chosen, Serves
  <2> QED BY <2>1, <2>2
<1>11. \A t : (InList(t, m)' <=> InList(t, m)) /\ (Written(m, t)' <=> Written(m, t))
  BY <1>1 DEF InList, Written
<1>12. /\ state'[m] = state[m] /\ slave_list' = slave_list /\ slave_list_counter' = slave_list_counter
       /\ slave_list_ack' = slave_list_ack /\ address_pattern' = address_pattern
       /\ Broadcasting(m)' <=> Broadcasting(m)
       /\ Partner(m)' <=> Partner(m)
       /\ Receiving(m)' <=> Receiving(m)
       /\ AllReceive(m)' <=> AllReceive(m)
  BY <1>1, <1>3, <1>11 DEF Broadcasting, Is10bit, Partner, Receiving, AllReceive, Chosen, Serves
<1>13. TransferOf(m)'
  <2>1. CASE device[m] = "read"
    <3>1. Reads(m)
      BY <1>1, <1>2, <2>1 DEF MasterOK, TransferOf
    <3>2. type = "read_response" /\ s = current_slave[m]
      BY <2>1
    <3>3. InFlight("read_response", current_slave[m], m)'
      BY <1>1, <1>7, <3>2
    <3>4. Reads(m)'
      BY <1>1, <1>12, <3>1, <3>3 DEF Reads
    <3> QED BY <1>1, <1>2, <1>6, <2>1, <3>4 DEF TransferOf
  <2>2. CASE device[m] = "write" /\ slave_list[m] = <<>>
    <3>1. Writes(m)
      BY <1>1, <1>2, <2>2 DEF MasterOK, TransferOf
    <3>2. PICK p : p = current_slave[m]
      OBVIOUS
    <3>3. p \in Slaves \ {m} /\ OwesWrite(p, m) /\ type = "write_response"
      BY <2>2, <3>1, <3>2 DEF Writes, Partner, Chosen, Serves
    <3>4. OwesWrite(p, m)'
      BY <1>10, <3>3
    <3>5. OwesWrite(current_slave[m], m)'
      BY <1>1, <3>2, <3>4 DEF OwesWrite
    <3>6. Writes(m)'
      BY <1>1, <1>12, <3>1, <3>5 DEF Writes
    <3> QED BY <1>1, <1>2, <1>6, <1>12, <2>2, <3>6 DEF TransferOf
  <2>3. CASE device[m] = "write" /\ slave_list[m] # <<>>
    <3>1. WritesToAll(m) /\ type = "write_response"
      BY <1>1, <1>2, <2>3 DEF MasterOK, TransferOf
    <3>2. Writing(m)' = Writing(m)
      BY <1>1, <1>10, <3>1 DEF Writing, OwesWrite
    <3>3. WritesToAll(m)'
      BY <1>1, <1>11, <1>12, <3>1, <3>2 DEF WritesToAll
    <3> QED BY <1>1, <1>2, <1>6, <1>12, <2>3, <3>3 DEF TransferOf
  <2> QED BY <2>1, <2>2, <2>3
<1>14. MasterOK(m)'
  <2>1. StartsOf(m)' /\ AskedOf(m)'
    BY <1>9, InFlightOnWayNext DEF StartsOf, AskedOf
  <2>2. AskingOf(m)' /\ SelectsOf(m)'
    BY <1>1 DEF AskingOf, SelectsOf, Selects, Asking, InTransfer
  <2>3. ListsOf(m)' /\ LateOf(m)'
    BY <1>1, <1>2, <1>12 DEF MasterOK, ListsOf, LateOf, LateAnswer, Distinct, Has
  <2> QED BY <1>13, <2>1, <2>2, <2>3 DEF MasterOK
<1>15. ASSUME NEW t \in Slaves \ {m} PROVE PrivateOf(m, t)'
  <2>1. PrivateOf(m, t)
    BY <1>2
  <2>2. InFlight("read_request", m, t)' \/ InFlight("read_response", t, m)' => device[m] = "read" /\ t = current_slave[m]
    BY <1>1, <1>7, <2>1 DEF PrivateOf
  <2>3. InFlight("write_request", m, t)' \/ InFlight("write_response", t, m)' => device[m] = "write" /\ Written(m, t)
    BY <1>1, <1>7, <2>1 DEF PrivateOf
  <2> QED BY <1>1, <1>9, <1>11, <2>2, <2>3 DEF PrivateOf
<1>16. ASSUME NEW t \in Slaves \ {m} PROVE WorkOf(t)'
  <2>1. CASE t = s
    BY <1>3, <2>1 DEF WorkOf, Works, Thinks
  <2>2. CASE t # s
    <3>1. WorkOf(t) /\ state'[t] = state[t] /\ current_master'[t] = m /\ current_master[t] = m
      BY <1>1, <1>2, <1>3, <2>2, DevicesAreEndpoints
    <3> QED BY <1>1, <1>6, <1>7, <1>9, <1>11, <2>2, <3>1 DEF WorkOf, Works, Thinks
  <2> QED BY <2>1, <2>2
<1>17. device'[m] # "idle"
  BY <1>1 DEF InTransfer
<1> QED BY <1>2, <1>6, <1>8, <1>14, <1>15, <1>16, <1>17, LeadKeeps DEF OthersAsBefore

LEMMA AnswerWriteKeeps ==
  ASSUME ProtocolInv, TypeOK', NEW s \in Slaves, AnswerWrite(s)
  PROVE  ProtocolInv'
<1>1. PICK m : m = current_master[s]
  OBVIOUS
<1>2. IsAsked(s) /\ Works(s) /\ ~Thinks(s) /\ state[s] = "wait_rsp_w"
  BY DEF AnswerWrite, Works, Thinks
<1>3. /\ m \in Masters /\ s \in Slaves \ {m} /\ Clear(net, m, s) /\ Unannounced(net, s)
      /\ device[m] = "write" /\ Written(m, s) /\ MasterOK(m)
      /\ \A n \in Masters \ {m} : n = s => device[n] = "idle"
  BY <1>1, <1>2, AskedByLeader
<1>4. current_slave[s] = s
  <2>1. CASE slave_list[m] = <<>>
    BY <1>3, <2>1 DEF MasterOK, TransferOf, InTransfer, Writes, Partner, Chosen, Written
  <2>2. CASE slave_list[m] # <<>>
    <3>1. InList(s, m) /\ Receiving(m)
      BY <1>3, <2>2 DEF MasterOK, TransferOf, InTransfer, WritesToAll, Written
    <3> QED BY <3>1 DEF InList, Receiving, Chosen
  <2> QED BY <2>1, <2>2
<1>5. /\ state' = [state EXCEPT ![s] = "wait_req_w"]
      /\ UNCHANGED <<current_master, current_slave, pending_slaves, pending_start_responses, slave_list,
                     slave_list_counter, slave_list_ack, address_pattern, device>>
  BY <1>4 DEF AnswerWrite, answers, addressing
<1>6. PICK ack \in {ACK, NOACK} : net' = Unicast(net, "write_response", s, m, ack)
  BY <1>1, <1>4 DEF AnswerWrite
<1>7. ack \in 0..255
  BY DEF ACK, NOACK
<1> QED BY <1>1, <1>2, <1>3, <1>5, <1>6, <1>7, AnswerTransferKeeps

LEMMA AnswerReadKeeps ==
  ASSUME ProtocolInv, TypeOK', NEW s \in Slaves, AnswerRead(s)
  PROVE  ProtocolInv'
<1>1. PICK m : m = current_master[s]
  OBVIOUS
<1>2. IsAsked(s) /\ Works(s) /\ ~Thinks(s) /\ state[s] = "wait_rsp_r"
  BY DEF AnswerRead, Works, Thinks
<1>3. /\ m \in Masters /\ s \in Slaves \ {m} /\ Clear(net, m, s) /\ Unannounced(net, s)
      /\ device[m] = "read" /\ s = current_slave[m] /\ MasterOK(m)
      /\ \A n \in Masters \ {m} : n = s => device[n] = "idle"
  BY <1>1, <1>2, AskedByLeader
<1>4. current_slave[s] = s
  BY <1>3 DEF MasterOK, TransferOf, InTransfer, Reads, Partner, Chosen
<1>5. /\ state' = [state EXCEPT ![s] = "wait_req_r"]
      /\ net' = Unicast(net, "read_response", s, m, 0)
      /\ UNCHANGED <<current_master, current_slave, pending_slaves, pending_start_responses, slave_list,
                     slave_list_counter, slave_list_ack, address_pattern, device>>
  BY <1>1, <1>4 DEF AnswerRead, answers, addressing
<1>6. 0 \in 0..255
  OBVIOUS
<1> QED BY <1>1, <1>2, <1>3, <1>5, <1>6, AnswerTransferKeeps

----------------------------------------------------------------------------
(* A start is accepted. *)

(* The first message is the shared start of a master: it finds the bus     *)
(* free, or its own.                                                       *)
LEMMA SharedStartWins ==
  ASSUME ProtocolInv, NEW e \in Devices, NEW m, Receives(e, "start_request"), m = Head(net).src,
         NEW a, a = Head(net).status, ~Is10bitRead(a), Accepts(e, m)
  PROVE  /\ m \in Masters /\ Lead(m) /\ device[m] \in Asking
         /\ \A s \in Slaves \ {m} : s \in Head(net).to => Quiet(m, s)
<1>1. /\ TypeOK /\ QueueOK(net) /\ net # <<>> /\ Agree(net, current_master)
      /\ e \in Head(net).to /\ Head(net).type = "start_request"
  BY DEF ProtocolInv, Receives
<1>2. Len(net) \in Nat /\ Len(net) >= 1 /\ 1 \in 1..Len(net) /\ Head(net) = net[1]
  BY <1>1, Heads
<1>3. SharedStart(net[1]) /\ Shared(net[1]) /\ Concerns(net[1])
  BY <1>1, <1>2 DEF SharedStart, Shared, Concerns
<1>4. m \in Masters /\ m \in Devices /\ m # None
  BY <1>1, <1>2, <1>3, NoneIsNoMaster DEF QueueOK, Shaped, Devices
<1>5. \A d \in Devices : current_master[d] \in {None, m}
  <2> SUFFICES ASSUME NEW d \in Devices PROVE current_master[d] \in {None, m}
    OBVIOUS
  <2>1. Behind(net, e) /\ current_master[e] \in {None, m}
    BY <1>1, <1>2, <1>3 DEF Behind, Accepts
  <2>2. CASE Behind(net, d)
    BY <1>1, <2>1, <2>2 DEF Agree, AgreeAmong
  <2>3. CASE ~Behind(net, d)
    <3>1. current_master[d] = OwnerAfter(current_master[e], Head(net))
      BY <1>1, <2>1, <2>3 DEF Agree, AgreeAmong
    <3> QED BY <1>1, <2>1, <3>1 DEF OwnerAfter
  <2> QED BY <2>2, <2>3
<1>6. NoStop
  <2> SUFFICES ASSUME NEW k \in Masters, NEW d \in Devices, InFlight("stop", k, d) PROVE FALSE
    BY DEF NoStop
  <2>1. k = m
    BY <1>5, NoneIsNoMaster DEF ProtocolInv, StopsOK
  <2>2. PICK b : OnWay("stop", k, b, d)
    BY <1>1, InFlightOnWay
  <2>3. PICK i \in 1..Len(net) : net[i].type = "stop" /\ net[i].src = m
    BY <2>1, <2>2 DEF OnWay, Carries
  <2>4. 1 < i
    BY <1>1, <1>2, <2>3
  <2>5. Ordered(net[1], net[i])
    BY <1>1, <1>2, <2>4 DEF QueueOK
  <2> QED BY <1>2, <1>3, <2>3, <2>5 DEF Ordered, Shared
<1>7. Lead(m)
  BY <1>5, <1>6 DEF Lead
<1>8. OnWay("start_request", m, a, e) /\ InFlight("start_request", m, e)
  <2>1. OnWay("start_request", m, a, e)
    BY <1>1, <1>2 DEF OnWay, Carries
  <2> QED BY <1>1, <2>1, InFlightOnWay
<1>9. device[m] \in Asking
  <2>1. device[m] \in Asking \cup {"idle"} /\ (device[m] = "idle" => current_master[m] \notin {None, m})
    BY <1>4, <1>8 DEF ProtocolInv, MasterOK, StartsOf
  <2> QED BY <1>4, <1>5, <2>1
<1>10. ASSUME NEW s \in Slaves \ {m}, s \in Head(net).to PROVE Quiet(m, s)
  <2>1. \A i \in 1..Len(net) : ~Between(net[i], m, s)
    <3> SUFFICES ASSUME NEW i \in 1..Len(net), Between(net[i], m, s) PROVE FALSE
      OBVIOUS
    <3>1. i # 1
      BY <1>3 DEF Between, FromMaster, FromSlave, Restarts, SharedStart
    <3>2. Ordered(net[1], net[i])
      BY <1>1, <1>2, <3>1 DEF QueueOK
    <3> QED BY <1>2, <1>3, <1>10, <3>2 DEF Ordered
  <2>2. ASSUME NEW t, NEW b, NEW x, NEW d, OnWay(t, x, b, d), Private(t, b, x, d, m, s) PROVE FALSE
    <3>1. PICK i \in 1..Len(net) :
             net[i].type = t /\ net[i].src = x /\ net[i].status = b /\ d \in net[i].to
      BY <2>2 DEF OnWay, Carries
    <3>2. Between(net[i], m, s)
      BY <1>1, <1>4, <2>2, <3>1, BetweenThem
    <3> QED BY <2>1, <3>2
  <2>3. ~Restarting(m, s)
    BY <2>2 DEF Restarting, Private
  <2>4. \A t \in {"read_request", "write_request"} : ~InFlight(t, m, s)
    BY <1>1, <2>2, InFlightOnWay DEF Private
  <2>5. \A t \in {"start_response", "start_response_pending", "read_response", "write_response"} :
           ~InFlight(t, s, m)
    BY <1>1, <2>2, InFlightOnWay DEF Private
  <2> QED BY <2>3, <2>4, <2>5 DEF Quiet
<1> QED BY <1>4, <1>7, <1>9, <1>10

(* The start of another master reaches a slave. *)
LEMMA ForeignStartWins ==
  ASSUME ProtocolInv, NEW e \in Slaves, NEW m, Receives(e, "start_request"), m = Head(net).src,
         NEW a, a = Head(net).status, m # e, Accepts(e, m)
  PROVE  /\ m \in Masters /\ Lead(m) /\ device[m] \in Asking /\ InFlight("start_request", m, e)
         /\ \A d \in Devices : current_master[d] = m \/ SharedStart(Head(net))
         /\ \A n \in Masters \ {m, e} : Quiet(n, e)
         /\ ~InFlight("read_request", m, e) /\ ~InFlight("write_request", m, e)
         /\ ~InFlight("start_response", e, m) /\ ~InFlight("start_response_pending", e, m)
         /\ ~InFlight("read_response", e, m) /\ ~InFlight("write_response", e, m)
         /\ ~Works(e)
<1>1. /\ TypeOK /\ QueueOK(net) /\ net # <<>> /\ e \in Head(net).to /\ Head(net).type = "start_request"
      /\ WorkOf(e) /\ e \in Devices
  BY DEF ProtocolInv, Receives, Devices
<1>2. Len(net) \in Nat /\ Len(net) >= 1 /\ 1 \in 1..Len(net) /\ Head(net) = net[1]
  BY <1>1, Heads
<1>3. OnWay("start_request", m, a, e) /\ InFlight("start_request", m, e)
  <2>1. OnWay("start_request", m, a, e)
    BY <1>1, <1>2 DEF OnWay, Carries
  <2> QED BY <1>1, <2>1, InFlightOnWay
<1>4. a \in 0..255
  BY <1>1, <1>3, OnWayIsTyped
<1>5. /\ m \in Masters /\ Lead(m) /\ device[m] \in Asking
      /\ \A d \in Devices : current_master[d] = m \/ SharedStart(Head(net))
      /\ ~InFlight("read_request", m, e) /\ ~InFlight("write_request", m, e)
      /\ ~InFlight("start_response", e, m) /\ ~InFlight("start_response_pending", e, m)
      /\ ~InFlight("read_response", e, m) /\ ~InFlight("write_response", e, m)
  <2>1. CASE ~Is10bitRead(a)
    <3>1. /\ m \in Masters /\ Lead(m) /\ device[m] \in Asking
          /\ \A s \in Slaves \ {m} : s \in Head(net).to => Quiet(m, s)
      BY <1>1, <2>1, SharedStartWins
    <3>2. Quiet(m, e)
      BY <1>1, <3>1
    <3>3. SharedStart(Head(net))
      BY <1>1, <2>1 DEF SharedStart
    <3> QED BY <3>1, <3>2, <3>3 DEF Quiet
  <2>2. CASE Is10bitRead(a)
    <3>1. PICK n \in Masters : \E s \in Slaves \ {n} :
              /\ Visits("start_request", m, e, n, s) /\ Alone("start_request", n, s)
              /\ Lead(n) /\ \A d \in Devices : current_master[d] = n
      BY <2>2, HeadPrivate
    <3>2. /\ n = m /\ Alone("start_request", m, e) /\ Lead(m) /\ m \in Masters /\ m \in Devices
          /\ \A d \in Devices : current_master[d] = m
      BY <3>1 DEF Visits, Devices
    <3>3. device[m] = "startR"
      BY <1>1, <1>3, <1>4, <2>2, <3>2 DEF ProtocolInv, MasterOK, AskedOf
    <3> QED BY <3>2, <3>3 DEF Alone, Asking
  <2> QED BY <2>1, <2>2
<1>6. \A n \in Masters \ {m, e} : Quiet(n, e)
  BY <1>5, OthersIdle DEF Idle
<1>7. ~Works(e)
  <2>1. CASE current_master[e] = m
    BY <1>1, <1>3, <2>1 DEF WorkOf
  <2>2. CASE current_master[e] = None
    BY <1>1, <2>2 DEF ProtocolInv, RestOK, Works, Thinks
  <2> QED BY <1>1, <1>5, <2>1, <2>2 DEF Lead
<1> QED BY <1>3, <1>5, <1>6, <1>7

(* Endpoint e takes the first message, a start of m, and replies. *)
Replies(type, m, e, ack) ==
  /\ \A d \in Devices : \A t, x, a : OnWay(t, x, a, d)' <=>
       \/ OnWay(t, x, a, d) /\ ~(t = "start_request" /\ x = m /\ d = e)
       \/ t = type /\ x = e /\ a = ack /\ d = m
  /\ \A d \in Devices : \A t, x : InFlight(t, x, d)' <=>
       \/ InFlight(t, x, d) /\ ~(t = "start_request" /\ x = m /\ d = e)
       \/ t = type /\ x = e /\ d = m
  /\ \A d \in Devices : \A n : Restarting(n, d)' <=> Restarting(n, d) /\ ~(n = m /\ d = e)

LEMMA StartReplied ==
  ASSUME ProtocolInv, TypeOK', NEW e \in Slaves, NEW m, Receives(e, "start_request"), m = Head(net).src,
         m # e, Accepts(e, m),
         NEW type \in {"start_response", "start_response_pending"}, NEW ack \in {ACK, NOACK},
         net' = Unicast(Taken(e), type, e, m, ack),
         current_master' = [current_master EXCEPT ![e] = m]
  PROVE  /\ Replies(type, m, e, ack)
         /\ QueueOK(net)' /\ Agree(net, current_master)' /\ Lead(m)' /\ NoStop' /\ OthersFly(m)
<1>1. /\ TypeOK /\ QueueOK(net) /\ net # <<>> /\ e \in Head(net).to /\ Head(net).type = "start_request"
      /\ e \in Devices /\ e \in Endpoints /\ Agree(net, current_master)
  BY DevicesAreEndpoints DEF ProtocolInv, Receives, Devices
<1>2. PICK a : a = Head(net).status
  OBVIOUS
<1>3. /\ m \in Masters /\ Lead(m) /\ device[m] \in Asking /\ InFlight("start_request", m, e)
      /\ \A d \in Devices : current_master[d] = m \/ SharedStart(Head(net))
      /\ \A n \in Masters \ {m, e} : Quiet(n, e)
      /\ ~InFlight("read_request", m, e) /\ ~InFlight("write_request", m, e)
      /\ ~InFlight("start_response", e, m) /\ ~InFlight("start_response_pending", e, m)
      /\ ~InFlight("read_response", e, m) /\ ~InFlight("write_response", e, m)
  BY <1>2, ForeignStartWins
<1>4. m \in Endpoints /\ m \in Devices /\ e \in Slaves \ {m}
  BY <1>1, <1>3, DevicesAreEndpoints DEF Devices
<1>5. PICK q : q = Taken(e)
  OBVIOUS
<1>6. type \in MessageTypes /\ ack \in 0..255
  BY DEF MessageTypes, ACK, NOACK
<1>7. PICK msg \in Messages :
        /\ msg.type = type /\ msg.src = e /\ msg.to = {m} /\ msg.status = ack
        /\ Unicast(q, type, e, m, ack) = Append(q, msg)
  <2>1. Appends(q, type, e, ack, m)
    BY <1>1, <1>4, <1>6, UnicastAppends
  <2> QED BY <2>1 DEF Appends
<1>8. net' = Append(q, msg) /\ net' = Append(Taken(e), msg) /\ ~Restarts(msg) /\ ~Shared(msg)
  BY <1>5, <1>7 DEF Restarts, Shared, SharedStart
<1>9. /\ \A d \in Devices : \A t, x, b : OnWay(t, x, b, d)' <=>
              \/ OnWay(t, x, b, d) /\ ~(t = "start_request" /\ x = m /\ d = e)
              \/ t = msg.type /\ x = msg.src /\ b = msg.status /\ d \in msg.to
      /\ \A d \in Devices : \A t, x : InFlight(t, x, d)' <=>
              \/ InFlight(t, x, d) /\ ~(t = "start_request" /\ x = m /\ d = e)
              \/ t = msg.type /\ x = msg.src /\ d \in msg.to
      /\ \A d \in Devices : \A n : Restarting(n, d)' <=> Restarting(n, d) /\ ~(n = m /\ d = e)
      /\ QueueOK(Append(Taken(e), msg)) => QueueOK(net)'
  BY <1>1, <1>8, RepliedFacts
<1>10. Replies(type, m, e, ack)
  BY <1>7, <1>9 DEF Replies
<1>11. q \in Seq(Messages)
  BY <1>1, <1>5, ReceivedType DEF Receives
<1>12. QueueOK(q)
  BY <1>1, <1>5, TakenInOrder
<1>13. \A t, x, b : \A d \in Devices : Carries(q, t, x, b, d) <=>
           OnWay(t, x, b, d) /\ ~(t = "start_request" /\ x = m /\ d = e)
  BY <1>1, <1>5, TakenCarries
<1>14. /\ \A t, x, b, d : OnWay(t, x, b, d) => InFlight(t, x, d) /\ b \in 0..255
  BY <1>1, InFlightOnWay, OnWayIsTyped
<1>15. Clear(q, m, e) /\ Unannounced(q, e)
  <2>1. \A b : ~Carries(q, "start_request", m, b, e)
    BY <1>1, <1>13
  <2>2. ASSUME NEW n \in Masters \ {e}, NEW b
        PROVE  /\ Is10bitRead(b) => ~Carries(q, "start_request", n, b, e)
               /\ ~Carries(q, "read_request", n, b, e) /\ ~Carries(q, "write_request", n, b, e)
               /\ ~Carries(q, "start_response", e, b, n) /\ ~Carries(q, "start_response_pending", e, b, n)
               /\ ~Carries(q, "read_response", e, b, n) /\ ~Carries(q, "write_response", e, b, n)
    <3>1. n \in Devices
      BY DEF Devices
    <3>2. CASE n = m
      BY <1>1, <1>3, <1>13, <1>14, <3>1, <3>2
    <3>3. CASE n # m
      <4>1. Quiet(n, e)
        BY <1>3, <3>3
      <4>2. Is10bitRead(b) => ~OnWay("start_request", n, b, e)
        BY <1>14, <4>1 DEF Quiet, Restarting
      <4>3. Is10bitRead(b) => ~Carries(q, "start_request", n, b, e)
        BY <1>1, <1>13, <4>2
      <4> QED BY <1>1, <1>13, <1>14, <3>1, <4>1, <4>3 DEF Quiet
    <3> QED BY <3>2, <3>3
  <2> QED BY <2>1, <2>2 DEF Clear, Unannounced
<1>16. QueueOK(net)'
  <2>1. Between(msg, m, e)
    BY <1>7 DEF Between, FromSlave
  <2>2. QueueOK(Append(q, msg))
    BY <1>4, <1>7, <1>3, <1>11, <1>12, <1>15, <2>1, PrivateSent
  <2> QED BY <1>5, <1>9, <2>2
<1>17. \A d \in Devices : current_master'[d] = IF d = e THEN m ELSE current_master[d]
  BY <1>1, DevicesAreEndpoints DEF TypeOK
<1>18. Agree(net, current_master)'
  <2>1. ASSUME NEW owner, owner = current_master' PROVE Agree(q, owner)
    <3>1. \A d \in Devices \ {e} : owner[d] = current_master[d]
      BY <1>17, <2>1
    <3>2. owner[e] = IF Shared(Head(net)) THEN OwnerAfter(current_master[e], Head(net)) ELSE current_master[e]
      <4>1. owner[e] = m
        BY <1>1, <1>17, <2>1
      <4>2. CASE Shared(Head(net))
        BY <1>1, <4>1, <4>2 DEF OwnerAfter, Accepts
      <4>3. CASE ~Shared(Head(net))
        BY <1>1, <1>3, <4>1, <4>3 DEF Shared
      <4> QED BY <4>2, <4>3
    <3> QED BY <1>1, <1>5, <3>1, <3>2, AgreeTaken
  <2>2. ASSUME NEW owner, owner = current_master' PROVE Agree(Append(q, msg), owner)
    BY <1>8, <1>11, <2>1, <2>2, AgreeSent
  <2>3. Agree(Append(q, msg), current_master')
    BY <2>2
  <2> QED BY <1>8, <2>3, AgreeKept
<1>19. NoStop'
  BY <1>3, <1>9, <1>7 DEF Lead, NoStop
<1>20. Lead(m)'
  BY <1>3, <1>17, <1>19 DEF Lead, Devices
<1>21. OthersFly(m)
  <2> SUFFICES ASSUME NEW n \in Masters \ {m}
               PROVE  /\ \A d \in Devices : InFlight("start_request", n, d)' <=> InFlight("start_request", n, d)
                      /\ \A d \in Devices, b \in 0..255 :
                           OnWay("start_request", n, b, d)' => OnWay("start_request", n, b, d)
                      /\ \A t \in Slaves \ {n} : Quiet(n, t)'
    BY DEF OthersFly
  <2>1. ASSUME NEW t \in Slaves \ {n} PROVE Quiet(n, t)'
    <3>1. Quiet(n, t) /\ t \in Devices /\ n \in Devices
      BY <1>3, OthersIdle DEF Idle, Devices
    <3> QED BY <1>10, <3>1 DEF Quiet, Replies
  <2> QED BY <1>10, <2>1 DEF Replies
<1> QED BY <1>10, <1>16, <1>18, <1>19, <1>20, <1>21

LEMMA ForeignStartKeeps ==
  ASSUME ProtocolInv, TypeOK', NEW e \in Endpoints, DeliverForeignStart(e)
  PROVE  ProtocolInv'
<1>1. PICK m : m = Head(net).src
  OBVIOUS
<1>2. /\ Receives(e, "start_request") /\ m # e /\ Accepts(e, m) /\ e \in Slaves /\ TypeOK
      /\ current_master' = [current_master EXCEPT ![e] = m]
      /\ device' = [device EXCEPT ![e] = Lost(@)]
      /\ UNCHANGED <<pending_slaves, pending_start_responses, slave_list,
                     slave_list_counter, slave_list_ack, address_pattern>>
  BY <1>1 DEF DeliverForeignStart, answers, addressing, ProtocolInv
<1>3. PICK a : a = Head(net).status
  OBVIOUS
<1>4. /\ m \in Masters /\ Lead(m) /\ device[m] \in Asking /\ InFlight("start_request", m, e)
      /\ ~InFlight("read_request", m, e) /\ ~InFlight("write_request", m, e)
      /\ ~InFlight("start_response", e, m) /\ ~InFlight("start_response_pending", e, m)
      /\ ~InFlight("read_response", e, m) /\ ~InFlight("write_response", e, m)
      /\ ~Works(e)
  BY <1>1, <1>2, <1>3, ForeignStartWins
<1>5. /\ e \in Devices /\ m \in Endpoints /\ m \in Devices /\ e \in Slaves \ {m}
      /\ MasterOK(m) /\ NoStop
  BY <1>2, <1>4, DevicesAreEndpoints DEF Devices, Lead, ProtocolInv
<1>6. PICK type \in {"start_response", "start_response_pending"}, ack \in {ACK, NOACK} :
        /\ net' = Unicast(Taken(e), type, e, m, ack)
        /\ \/ /\ type = "start_response"
              /\ state' = [state EXCEPT ![e] = "wait_remote_master"]
              /\ current_slave' = [current_slave EXCEPT ![e] = IF ack = ACK THEN e ELSE None]
           \/ /\ type = "start_response_pending"
              /\ state' = [state EXCEPT ![e] = StartWait(Head(net).status)]
              /\ current_slave' = [current_slave EXCEPT ![e] = None]
  <2>1. CASE \E ack \in {ACK, NOACK} :
             /\ state' = [state EXCEPT ![e] = "wait_remote_master"]
             /\ current_slave' = [current_slave EXCEPT ![e] = IF ack = ACK THEN e ELSE None]
             /\ net' = Unicast(Taken(e), "start_response", e, m, ack)
    BY <2>1
  <2>2. CASE /\ state' = [state EXCEPT ![e] = StartWait(Head(net).status)]
             /\ current_slave' = [current_slave EXCEPT ![e] = None]
             /\ net' = Unicast(Taken(e), "start_response_pending", e, m, 0)
    BY <2>2 DEF ACK
  <2> QED BY <1>1, <2>1, <2>2 DEF DeliverForeignStart
<1>7. /\ \A d \in Endpoints \ {e} : /\ state'[d] = state[d] /\ current_slave'[d] = current_slave[d]
                                    /\ current_master'[d] = current_master[d] /\ device'[d] = device[d]
      /\ current_master'[e] = m /\ device'[e] = Lost(device[e])
  BY <1>2, <1>6 DEF TypeOK
<1>8. /\ type = "start_response" =>
           /\ state'[e] = "wait_remote_master" /\ ~Works(e)' /\ ~Thinks(e)'
           /\ current_slave'[e] = IF ack = ACK THEN e ELSE None
      /\ type = "start_response_pending" => Thinks(e)' /\ current_slave'[e] = None
      /\ state'[e] \notin {"wait_rsp_r", "wait_rsp_w"}
  <2>1. CASE type = "start_response"
    BY <1>2, <1>6, <2>1 DEF TypeOK, Works, Thinks
  <2>2. CASE type = "start_response_pending"
    BY <1>2, <1>6, <2>2 DEF TypeOK, Works, Thinks, StartWait
  <2> QED BY <2>1, <2>2
<1>9. Replies(type, m, e, ack)
  BY <1>1, <1>2, <1>6, StartReplied
<1>10. QueueOK(net)' /\ Agree(net, current_master)' /\ Lead(m)' /\ NoStop' /\ OthersFly(m)
  BY <1>1, <1>2, <1>6, StartReplied
<1>11. /\ \A d \in Devices : \A t, x, b : OnWay(t, x, b, d)' <=>
              \/ OnWay(t, x, b, d) /\ ~(t = "start_request" /\ x = m /\ d = e)
              \/ t = type /\ x = e /\ b = ack /\ d = m
       /\ \A d \in Devices : \A t, x : InFlight(t, x, d)' <=>
              \/ InFlight(t, x, d) /\ ~(t = "start_request" /\ x = m /\ d = e)
              \/ t = type /\ x = e /\ d = m
  BY <1>9 DEF Replies
<1>12. OthersKept(m)
  <2>1. ASSUME NEW n \in Masters \ {m}
        PROVE  \/ current_master'[n] = m /\ device'[n] = "idle"
               \/ /\ device'[n] = device[n] /\ state'[n] = state[n]
                  /\ current_master'[n] = current_master[n] /\ current_slave'[n] = current_slave[n]
    <3>1. CASE n = e
      <4>1. device[n] = "idle" \/ device[n] \in Asking
        BY <1>2, <1>4, OthersIdle, DeviceCases DEF Idle
      <4> QED BY <1>7, <3>1, <4>1 DEF Lost, Asking
    <3>2. CASE n # e
      BY <1>7, <3>2, DevicesAreEndpoints
    <3> QED BY <3>1, <3>2
  <2>2. ASSUME NEW d \in Devices, current_master'[d] = None
        PROVE  /\ current_master[d] = None /\ state'[d] = state[d]
               /\ d \in Masters => device'[d] = device[d]
    <3>1. d # e
      BY <1>4, <1>7, <2>2, NoneIsNoMaster
    <3> QED BY <1>7, <2>2, <3>1, DevicesAreEndpoints
  <2> QED BY <1>2, <2>1, <2>2 DEF OthersKept
<1>13. ASSUME NEW t \in Slaves \ {m}, t # e
       PROVE  /\ state'[t] = state[t] /\ current_slave'[t] = current_slave[t]
              /\ current_master'[t] = current_master[t] /\ t \in Devices /\ t \in Endpoints
              /\ (Thinks(t)' <=> Thinks(t)) /\ (Works(t)' <=> Works(t)) /\ (Chosen(t, m)' <=> Chosen(t, m))
  <2>1. /\ state'[t] = state[t] /\ current_slave'[t] = current_slave[t]
        /\ current_master'[t] = current_master[t] /\ t \in Devices /\ t \in Endpoints
    BY <1>7, <1>13, DevicesAreEndpoints DEF Devices
  <2> QED BY <2>1 DEF Thinks, Works, Chosen, Serves
<1>14. ASSUME NEW t \in Slaves \ {m}
       PROVE  OwesStart(t, m)' <=> OwesStart(t, m)
  <2>1. CASE t = e
    BY <1>4, <1>5, <1>7, <1>8, <1>11, <2>1 DEF OwesStart, Thinks
  <2>2. CASE t # e
    BY <1>5, <1>11, <1>13, <2>2 DEF OwesStart, Thinks
  <2> QED BY <2>1, <2>2
<1>15. Owing(m)' = Owing(m) /\ e \in Owing(m)
  BY <1>4, <1>5, <1>14 DEF Owing, OwesStart
<1>16. /\ device'[m] = device[m] /\ state'[m] = state[m] /\ current_master'[m] = current_master[m]
       /\ current_slave'[m] = current_slave[m] /\ device'[m] \notin InTransfer /\ device'[m] # "idle"
       /\ Asks(m)' <=> Asks(m)
       /\ Broadcasting(m)' <=> Broadcasting(m)
  BY <1>2, <1>4, <1>5, <1>7, <1>11 DEF Asks, Broadcasting, Is10bit, Asking, InTransfer
<1>17. MasterOK(m)'
  <2>1. StartsOf(m)'
    BY <1>4, <1>16 DEF StartsOf, Asking
  <2>2. AskedOf(m)'
    <3>1. AskedOf(m) /\ address_pattern' = address_pattern
      BY <1>2, <1>5 DEF MasterOK
    <3>2. ASSUME NEW d \in Devices, NEW b \in 0..255, OnWay("start_request", m, b, d)'
          PROVE  OnWay("start_request", m, b, d)
      BY <1>11, <3>2
    <3>3. /\ device'[m] = device[m] /\ address_pattern'[m] = address_pattern[m]
          /\ Asks(m)' => Asks(m)
      BY <1>16, <3>1
    <3> QED BY <3>1, <3>2, <3>3 DEF AskedOf, Is10bitRead, WaitingFor, Pattern
  <2>3. AskingOf(m)'
    <3>1. AskingOf(m)
      BY <1>5 DEF MasterOK
    <3>2. ASSUME Asks(m), NEW t \in Slaves \ {m}, ~InFlight("start_request", m, t)'
          PROVE  current_master'[t] = m /\ (Thinks(t)' \/ InFlight("start_response", t, m)')
      <4>1. CASE t = e
        BY <1>5, <1>7, <1>8, <1>11, <4>1
      <4>2. CASE t # e
        BY <1>4, <1>5, <1>11, <1>13, <3>1, <3>2, <4>2 DEF AskingOf
      <4> QED BY <4>1, <4>2
    <3> QED BY <1>2, <1>4, <1>10, <1>16, <3>1, <3>2 DEF AskingOf, Is10bitRead
  <2>4. SelectsOf(m)'
    <3> SUFFICES ASSUME Selects(m)' PROVE SelectsOf(m)'
      BY DEF SelectsOf
    <3>1. Selects(m) /\ SelectsOf(m)
      BY <1>5, <1>16 DEF Selects, MasterOK
    <3>2. Is10bitRead(address_pattern[m])' <=> Is10bitRead(address_pattern[m])
      BY <1>2 DEF Is10bitRead
    <3>3. current_slave[m] # None => Partner(m)'
      <4> SUFFICES ASSUME current_slave[m] # None PROVE Partner(m)'
        OBVIOUS
      <4>1. PICK p : p = current_slave[m]
        OBVIOUS
      <4>2. Chosen(p, m) /\ p \notin Owing(m)
        BY <3>1, <4>1 DEF SelectsOf, Partner, Chosen, Serves
      <4>3. p # e /\ p \in Slaves \ {m}
        BY <1>15, <4>2 DEF Chosen, Serves
      <4>4. Chosen(p, m)'
        BY <1>13, <4>2, <4>3
      <4> QED BY <1>16, <4>1, <4>4 DEF Partner, Chosen, Serves
    <3>4. \A t : InList(t, m)' <=> InList(t, m)
      BY <1>2 DEF InList
    <3>5. ASSUME ~Is10bitRead(address_pattern[m])
          PROVE  /\ Receiving(m)'
                 /\ \A t \in Slaves : InList(t, m) => t \notin Owing(m)
                 /\ Broadcasting(m) => \A t \in Slaves : Chosen(t, m)' /\ t \notin Owing(m) => InList(t, m)
      <4>1. /\ Receiving(m)
            /\ \A t \in Slaves : InList(t, m) => t \notin Owing(m)
            /\ Broadcasting(m) => \A t \in Slaves : Chosen(t, m) /\ t \notin Owing(m) => InList(t, m)
        BY <3>1, <3>5 DEF SelectsOf
      <4>2. ASSUME NEW t \in Slaves, t \notin Owing(m) PROVE Chosen(t, m)' <=> Chosen(t, m)
        <5>1. CASE t = m
          BY <5>1 DEF Chosen, Serves
        <5>2. CASE t # m
          BY <1>13, <1>15, <4>2, <5>2
        <5> QED BY <5>1, <5>2
      <4>3. PICK l : l = slave_list[m]
        OBVIOUS
      <4>4. ASSUME NEW i \in 1..Len(l) PROVE Chosen(l[i], m)'
        <5>1. PICK t : t = l[i]
          OBVIOUS
        <5>2. Chosen(t, m) /\ t \in Slaves /\ InList(t, m)
          BY <4>1, <4>3, <4>4, <5>1 DEF Receiving, Chosen, Serves, InList
        <5>3. Chosen(t, m)'
          BY <4>1, <4>2, <5>2
        <5> QED BY <5>1, <5>3 DEF Chosen, Serves
      <4>5. slave_list'[m] = l
        BY <1>2, <4>3
      <4>6. Receiving(m)'
        BY <4>1, <4>3, <4>4, <4>5 DEF Receiving, Chosen, Serves
      <4> QED BY <4>1, <4>2, <4>6
    <3>6. pending_slaves'[m] = Cardinality(Owing(m)') /\ Owing(m)' # {}
      BY <1>2, <1>15, <3>1 DEF SelectsOf
    <3> QED BY <1>2, <1>15, <1>16, <3>1, <3>2, <3>3, <3>4, <3>5, <3>6 DEF SelectsOf
  <2>5. ListsOf(m)' /\ TransferOf(m)'
    BY <1>2, <1>5, <1>16 DEF MasterOK, ListsOf, TransferOf
  <2>6. LateOf(m)'
    <3>1. LateOf(m) /\ pending_start_responses' = pending_start_responses
      BY <1>2, <1>5 DEF MasterOK
    <3>2. ASSUME NEW t \in Slaves \ {m}, LateAnswer(t, m) PROVE LateAnswer(t, m)'
      <4>1. t # e
        BY <1>4, <3>2 DEF LateAnswer, Works
      <4> QED BY <1>5, <1>11, <1>13, <1>16, <3>2, <4>1 DEF LateAnswer
    <3> QED BY <3>1, <3>2 DEF LateOf, Has, Distinct
  <2> QED BY <2>1, <2>2, <2>3, <2>4, <2>5, <2>6 DEF MasterOK
<1>18. ASSUME NEW t \in Slaves \ {m}
       PROVE  PrivateOf(m, t)'
  <2>1. PrivateOf(m, t) /\ t \in Devices
    BY <1>4 DEF ProtocolInv, Devices
  <2>2. CASE t = e
    <3>1. \A b : ~OnWay("start_response", e, b, m)
      BY <1>2, <1>4, InFlightOnWay
    <3>2. /\ ~InFlight("read_request", m, t)' /\ ~InFlight("write_request", m, t)'
          /\ ~InFlight("read_response", t, m)' /\ ~InFlight("write_response", t, m)'
      BY <1>4, <1>5, <1>11, <2>2
    <3>3. /\ InFlight("start_response_pending", t, m)' => type = "start_response_pending"
          /\ \A b : OnWay("start_response", t, b, m)' => type = "start_response" /\ b = ack
      BY <1>4, <1>5, <1>11, <2>2, <3>1
    <3> QED BY <1>4, <1>7, <1>8, <1>10, <1>16, <2>2, <3>2, <3>3 DEF PrivateOf
  <2>3. CASE t # e
    <3>1. Written(m, t)' <=> Written(m, t)
      BY <1>2, <1>16 DEF Written, InList
    <3>2. /\ \A x : x \notin {"start_request"} =>
                (InFlight(x, m, t)' <=> InFlight(x, m, t)) /\ (InFlight(x, t, m)' <=> InFlight(x, t, m))
          /\ \A b : OnWay("start_response", t, b, m)' <=> OnWay("start_response", t, b, m)
      BY <1>5, <1>11, <2>1, <2>3
    <3>3. /\ InFlight("start_response", t, m)' <=> InFlight("start_response", t, m)
          /\ InFlight("start_response_pending", t, m)' <=> InFlight("start_response_pending", t, m)
          /\ InFlight("read_request", m, t)' <=> InFlight("read_request", m, t)
          /\ InFlight("read_response", t, m)' <=> InFlight("read_response", t, m)
          /\ InFlight("write_request", m, t)' <=> InFlight("write_request", m, t)
          /\ InFlight("write_response", t, m)' <=> InFlight("write_response", t, m)
      BY <3>2
    <3>4. \A b \in 0..255 : OnWay("start_response", t, b, m)' =>
             b \in {ACK, NOACK} /\ current_slave'[t] = (IF b = ACK THEN t ELSE None)
      BY <1>13, <2>1, <2>3, <3>2 DEF PrivateOf
    <3> QED BY <1>10, <1>13, <1>16, <2>1, <2>3, <3>1, <3>3, <3>4 DEF PrivateOf
  <2> QED BY <2>2, <2>3
<1>19. ASSUME NEW t \in Slaves \ {m}, current_master'[t] = m PROVE WorkOf(t)'
  <2>1. CASE t = e
    BY <1>4, <1>5, <1>7, <1>8, <1>10, <1>11, <1>16, <2>1 DEF WorkOf, Works
  <2>2. CASE t # e
    <3>1. WorkOf(t) /\ current_master[t] = m
      BY <1>13, <1>19, <2>2 DEF ProtocolInv
    <3>2. Written(m, t)' <=> Written(m, t)
      BY <1>2, <1>16 DEF Written, InList
    <3>3. /\ InFlight("start_request", m, t)' <=> InFlight("start_request", m, t)
          /\ InFlight("start_response", t, m)' <=> InFlight("start_response", t, m)
          /\ InFlight("read_request", m, t)' <=> InFlight("read_request", m, t)
          /\ InFlight("read_response", t, m)' <=> InFlight("read_response", t, m)
          /\ InFlight("write_request", m, t)' <=> InFlight("write_request", m, t)
          /\ InFlight("write_response", t, m)' <=> InFlight("write_response", t, m)
      BY <1>5, <1>11, <1>13, <2>2
    <3>4. Works(t)' => Works(t)
      BY <1>13, <2>2
    <3> QED BY <1>10, <1>13, <1>16, <2>2, <3>1, <3>2, <3>3, <3>4 DEF WorkOf
  <2> QED BY <2>1, <2>2
<1> QED BY <1>4, <1>10, <1>12, <1>16, <1>17, <1>18, <1>19, LeadKeeps DEF OthersAsBefore

(* The start of a master comes back to its own endpoint. *)
LEMMA OwnStartTaken ==
  ASSUME ProtocolInv, TypeOK', NEW m \in Endpoints, DeliverOwnStart(m)
  PROVE  /\ m \in Masters /\ Lead(m) /\ device[m] \in Asking /\ Asks(m)
         /\ OnWay("start_request", m, Head(net).status, m) /\ Head(net).status \in 0..255
         /\ Takes("start_request", m, m)
         /\ QueueOK(net)' /\ Agree(net, current_master)' /\ Lead(m)' /\ OthersFly(m)
         /\ \A d \in Endpoints \ {m} : current_master'[d] = current_master[d]
         /\ current_master'[m] = m
<1>1. /\ TypeOK /\ QueueOK(net) /\ net # <<>> /\ m \in Head(net).to /\ Head(net).type = "start_request"
      /\ Head(net).src = m /\ Receives(m, "start_request") /\ Accepts(m, m) /\ Agree(net, current_master)
      /\ current_master' = [current_master EXCEPT ![m] = m] /\ net' = Taken(m)
  BY DEF ProtocolInv, DeliverOwnStart, Receives
<1>2. Len(net) \in Nat /\ Len(net) >= 1 /\ 1 \in 1..Len(net) /\ Head(net) = net[1]
  BY <1>1, Heads
<1>3. PICK a : a = Head(net).status
  OBVIOUS
<1>4. OnWay("start_request", m, a, m) /\ InFlight("start_request", m, m) /\ a \in 0..255
  <2>1. OnWay("start_request", m, a, m)
    BY <1>1, <1>2, <1>3 DEF OnWay, Carries
  <2> QED BY <1>1, <2>1, InFlightOnWay, OnWayIsTyped
<1>5. ~Is10bitRead(a)
  <2> SUFFICES ASSUME Is10bitRead(a) PROVE FALSE
    OBVIOUS
  <2>1. PICK n \in Masters : \E s \in Slaves \ {n} : Visits("start_request", m, m, n, s)
    BY <1>1, <1>3, HeadPrivate
  <2> QED BY <2>1 DEF Visits
<1>6. SharedStart(net[1]) /\ Shared(net[1])
  BY <1>1, <1>2, <1>3, <1>5 DEF SharedStart, Shared
<1>7. m \in Masters /\ m \in Devices
  BY <1>1, <1>2, <1>6 DEF QueueOK, Shaped, Devices
<1>8. Lead(m) /\ device[m] \in Asking
  BY <1>1, <1>3, <1>5, <1>7, SharedStartWins
<1>9. Takes("start_request", m, m) /\ QueueOK(net)'
  BY <1>1, Delivered DEF Takes
<1>10. /\ \A d \in Endpoints \ {m} : current_master'[d] = current_master[d]
       /\ current_master'[m] = m
  BY <1>1 DEF TypeOK
<1>11. Agree(net, current_master)'
  <2> PICK q : q = Taken(m)
    OBVIOUS
  <2>1. ASSUME NEW owner, owner = current_master' PROVE Agree(q, owner)
    <3>1. \A d \in Devices \ {m} : owner[d] = current_master[d]
      BY <1>10, <2>1, DevicesAreEndpoints
    <3>2. owner[m] = OwnerAfter(current_master[m], Head(net)) /\ Shared(Head(net))
      BY <1>1, <1>2, <1>6, <1>10, <2>1 DEF OwnerAfter, Accepts
    <3>3. owner[m] = IF Shared(Head(net)) THEN OwnerAfter(current_master[m], Head(net)) ELSE current_master[m]
      BY <3>2
    <3> QED BY <1>1, <3>1, <3>3, AgreeTaken
  <2>2. Agree(q, current_master')
    BY <2>1
  <2> QED BY <1>1, <2>2, AgreeKept
<1>12. NoStop'
  BY <1>8, <1>9 DEF Lead, NoStop, Takes
<1>13. Lead(m)'
  BY <1>8, <1>10, <1>12, DevicesAreEndpoints DEF Lead, Devices
<1>14. OthersFly(m)
  <2> SUFFICES ASSUME NEW n \in Masters \ {m}
               PROVE  /\ \A d \in Devices : InFlight("start_request", n, d)' <=> InFlight("start_request", n, d)
                      /\ \A d \in Devices, b \in 0..255 :
                           OnWay("start_request", n, b, d)' => OnWay("start_request", n, b, d)
                      /\ \A t \in Slaves \ {n} : Quiet(n, t)'
    BY DEF OthersFly
  <2>1. ASSUME NEW t \in Slaves \ {n} PROVE Quiet(n, t)'
    <3>1. Quiet(n, t) /\ t \in Devices /\ n \in Devices
      BY <1>7, <1>8, OthersIdle DEF Idle, Devices
    <3> QED BY <1>9, <3>1 DEF Quiet, Takes
  <2> QED BY <1>9, <2>1 DEF Takes
<1>15. Asks(m)
  BY <1>4 DEF Asks
<1> QED BY <1>3, <1>4, <1>7, <1>8, <1>9, <1>10, <1>11, <1>13, <1>14, <1>15

LEMMA NobodyElse ==
  ASSUME MastersBehave, NEW m \in Masters, Cardinality(Slaves \ {m}) = 0
  PROVE  Slaves \ {m} = {} /\ Devices = {m}
<1>1. IsFiniteSet(Slaves \ {m})
  <2>1. Slaves \ {m} \subseteq Endpoints /\ IsFiniteSet(Endpoints)
    BY EndpointsAssumption
  <2> QED BY <2>1, FS_Subset
<1>2. PICK S : S = Slaves \ {m}
  OBVIOUS
<1>3. S = {}
  BY <1>1, <1>2, FS_EmptySet
<1>4. Slaves \ {m} = {}
  BY <1>2, <1>3
<1>5. \A n \in Masters : n = m
  BY <1>4 DEF MastersBehave
<1> QED BY <1>4, <1>5 DEF Devices

LEMMA OwnStartKeeps ==
  ASSUME ProtocolInv, TypeOK', MastersBehave, NEW m \in Endpoints, DeliverOwnStart(m)
  PROVE  ProtocolInv'
<1>1. PICK a : a = Head(net).status
  OBVIOUS
<1>2. /\ m \in Masters /\ Lead(m) /\ device[m] \in Asking /\ Asks(m)
      /\ OnWay("start_request", m, a, m) /\ a \in 0..255
      /\ Takes("start_request", m, m)
      /\ QueueOK(net)' /\ Agree(net, current_master)' /\ Lead(m)' /\ OthersFly(m)
      /\ \A d \in Endpoints \ {m} : current_master'[d] = current_master[d]
      /\ current_master'[m] = m
  BY <1>1, OwnStartTaken
<1>3. /\ m \in Devices /\ MasterOK(m) /\ TypeOK /\ NoStop' /\ AskedOf(m) /\ AskingOf(m)
  BY <1>2 DEF Devices, Lead, ProtocolInv, MasterOK
<1>4. /\ pending_slaves' = [pending_slaves EXCEPT ![m] = AskedOthers(m)]
      /\ UNCHANGED <<current_slave, pending_start_responses, slave_list,
                     slave_list_counter, slave_list_ack, address_pattern>>
  BY DEF DeliverOwnStart, addressing
<1>5. \A d \in Endpoints \ {m} : state'[d] = state[d] /\ device'[d] = device[d]
  <2>1. CASE AskedOthers(m) = 0
    BY <1>3, <2>1 DEF DeliverOwnStart, Acknowledge, TypeOK
  <2>2. CASE AskedOthers(m) # 0
    BY <1>3, <2>2 DEF DeliverOwnStart, TypeOK
  <2> QED BY <2>1, <2>2
<1>6. ~Is10bitRead(a) /\ device[m] = WaitingFor(a) /\ address_pattern[m] = Pattern(m, a)
  BY <1>2, <1>3 DEF AskedOf
<1>7. /\ slave_list[m] = <<>> /\ current_slave[m] = None /\ ~Is10bitRead(address_pattern[m])
      /\ Broadcasting(m) => slave_list_ack[m] = NOACK
      /\ slave_list_counter[m] = 0
      /\ \A s \in Slaves \ {m} : ~InFlight("start_request", m, s) =>
              current_master[s] = m /\ (Thinks(s) \/ InFlight("start_response", s, m))
  BY <1>2, <1>3 DEF AskingOf
<1>8. /\ \A d \in Devices : \A t, x, b : OnWay(t, x, b, d)' <=>
            OnWay(t, x, b, d) /\ ~(t = "start_request" /\ x = m /\ d = m)
      /\ \A d \in Devices : \A t, x : InFlight(t, x, d)' <=>
            InFlight(t, x, d) /\ ~(t = "start_request" /\ x = m /\ d = m)
  BY <1>2 DEF Takes
<1>9. OthersKept(m)
  <2>1. \A n \in Masters \ {m} :
         /\ slave_list'[n] = slave_list[n] /\ slave_list_counter'[n] = slave_list_counter[n]
         /\ slave_list_ack'[n] = slave_list_ack[n] /\ address_pattern'[n] = address_pattern[n]
         /\ pending_start_responses'[n] = pending_start_responses[n]
         /\ device'[n] = device[n] /\ state'[n] = state[n]
         /\ current_master'[n] = current_master[n] /\ current_slave'[n] = current_slave[n]
    BY <1>2, <1>4, <1>5, DevicesAreEndpoints
  <2>2. ASSUME NEW d \in Devices, current_master'[d] = None
        PROVE  /\ current_master[d] = None /\ state'[d] = state[d]
               /\ d \in Masters => device'[d] = device[d]
    <3>1. d # m
      BY <1>2, <2>2, NoneIsNoMaster
    <3> QED BY <1>2, <1>5, <2>2, <3>1, DevicesAreEndpoints
  <2> QED BY <2>1, <2>2 DEF OthersKept
<1>10. OthersAsBefore(m)
  BY <1>2, <1>9 DEF OthersAsBefore
<1>11. CASE AskedOthers(m) = 0
  <2>1. Slaves \ {m} = {} /\ Devices = {m}
    BY <1>2, <1>11, NobodyElse DEF AskedOthers
  <2>2. /\ state' = [state EXCEPT ![m] = "wait_stop"]
        /\ device' = [device EXCEPT ![m] = Answered(device[m], NOACK)]
    BY <1>11 DEF DeliverOwnStart, Acknowledge
  <2>3. state'[m] = "wait_stop" /\ device'[m] = "nack"
    BY <1>2, <1>3, <2>2 DEF TypeOK, Asking, Answered
  <2>4. Len(pending_start_responses[m]) = 0
    <3>1. Len(pending_start_responses[m]) \in Nat
      BY <1>3, LenProperties DEF TypeOK
    <3>2. \A i \in 1..Len(pending_start_responses[m]) : FALSE
      BY <1>3, <2>1 DEF MasterOK, LateOf
    <3> QED BY <3>1, <3>2
  <2>5. Ready(m)'
    BY <1>4, <1>7, <2>3, <2>4 DEF Ready
  <2>6. \A d \in Devices : current_master'[d] = m /\ ~InFlight("start_request", m, d)'
    BY <1>2, <1>8, <2>1
  <2> QED BY <1>2, <1>10, <2>1, <2>5, <2>6, SettlesDown
<1>12. CASE AskedOthers(m) # 0
  <2>1. /\ state' = [state EXCEPT ![m] = StartWait(a)]
        /\ device' = device
    BY <1>1, <1>12 DEF DeliverOwnStart
  <2>2. state'[m] = StartWait(a) /\ pending_slaves'[m] = AskedOthers(m)
    BY <1>3, <1>4, <2>1 DEF TypeOK
  <2>3. ASSUME NEW t \in Slaves \ {m}
        PROVE  /\ t \in Devices /\ current_master'[t] = current_master[t] /\ current_slave'[t] = current_slave[t]
               /\ state'[t] = state[t]
               /\ (Thinks(t)' <=> Thinks(t)) /\ (Works(t)' <=> Works(t))
    <3>1. t \in Devices /\ current_master'[t] = current_master[t] /\ state'[t] = state[t]
      BY <1>2, <1>5, DevicesAreEndpoints DEF Devices
    <3> QED BY <1>4, <3>1 DEF Thinks, Works
  <2>4. Owing(m)' = Slaves \ {m}
    <3>1. \A t \in Slaves \ {m} : OwesStart(t, m)'
      BY <1>3, <1>7, <1>8, <2>3 DEF OwesStart, Thinks
    <3> QED BY <3>1 DEF Owing
  <2>5. Slaves \ {m} # {}
    BY <1>12, FS_EmptySet DEF AskedOthers
  <2>6. ~Asks(m)' /\ ~(Broadcasting(m)' /\ device[m] = "startR")
    <3>1. ~Asks(m)'
      BY <1>3, <1>8 DEF Asks
    <3>2. ~(Broadcasting(m) /\ device[m] = "startR")
      BY <1>2, <1>6 DEF Broadcasting, Is10bit, WaitingFor, IsRead, Pattern, IsSpecial, Is10bitWrite, IsHs, NoAddr
    <3> QED BY <1>4, <2>1, <3>1, <3>2 DEF Broadcasting, Is10bit
  <2>7. SelectsOf(m)'
    <3>1. state'[m] = IF device'[m] = "startR" THEN "wait_rsp_start_r" ELSE "wait_rsp_start_w"
      BY <1>6, <2>1, <2>2 DEF StartWait, WaitingFor
    <3>2. /\ pending_slaves'[m] = Cardinality(Owing(m)') /\ Owing(m)' # {}
      BY <2>2, <2>4, <2>5 DEF AskedOthers
    <3>3. slave_list'[m] = <<>> /\ current_slave'[m] = None /\ device'[m] = device[m]
          /\ slave_list_ack'[m] = slave_list_ack[m] /\ address_pattern'[m] = address_pattern[m]
      BY <1>4, <1>7, <2>1
    <3>4. Receiving(m)' /\ \A t : ~InList(t, m)'
      BY <3>3 DEF Receiving, InList
    <3>5. \A t \in Slaves : Chosen(t, m)' => t \in Owing(m)'
      BY <2>4 DEF Chosen, Serves
    <3>6. Broadcasting(m)' => slave_list_ack'[m] # ACK
      BY <1>7, <3>3 DEF Broadcasting, Is10bit, ACK, NOACK
    <3>7. ~Is10bitRead(address_pattern'[m])
      BY <1>7, <3>3
    <3> QED BY <2>6, <3>1, <3>2, <3>3, <3>4, <3>5, <3>6, <3>7 DEF SelectsOf
  <2>8. MasterOK(m)'
    <3>1. StartsOf(m)'
      BY <1>2, <2>1 DEF StartsOf, Asking
    <3>2. AskedOf(m)'
      <4>1. ASSUME NEW d \in Devices, NEW b \in 0..255, OnWay("start_request", m, b, d)'
            PROVE  OnWay("start_request", m, b, d)
        BY <1>8, <4>1
      <4>2. address_pattern' = address_pattern
        BY <1>4
      <4>3. ASSUME NEW d \in Devices, NEW b \in 0..255, OnWay("start_request", m, b, d)'
            PROVE  /\ ~Is10bitRead(b) /\ device[m] \in Asking =>
                         device[m] = WaitingFor(b) /\ address_pattern[m] = Pattern(m, b)
                   /\ Is10bitRead(b) => device[m] = "startR" /\ Is10bitRead(address_pattern[m])
        <5>1. OnWay("start_request", m, b, d)
          BY <4>1, <4>3
        <5>2. AskedOf(m)
          BY <1>3
        <5> QED BY <5>1, <5>2 DEF AskedOf
      <4>4. device'[m] = device[m] /\ address_pattern'[m] = address_pattern[m]
        BY <2>1, <4>2
      <4>5. ASSUME NEW b PROVE Pattern(m, b)' = Pattern(m, b)
        BY DEF Pattern
      <4> QED BY <2>6, <4>3, <4>4, <4>5 DEF AskedOf
    <3>3. AskingOf(m)'
      BY <1>2, <1>3, <1>4, <1>7, <2>1, <2>6 DEF AskingOf
    <3>4. ListsOf(m)' /\ TransferOf(m)'
      BY <1>2, <1>4, <1>7, <2>1 DEF ListsOf, TransferOf, Asking, InTransfer
    <3>5. LateOf(m)'
      <4>1. LateOf(m) /\ pending_start_responses' = pending_start_responses
        BY <1>3, <1>4 DEF MasterOK
      <4>2. ASSUME NEW t \in Slaves \ {m}, LateAnswer(t, m) PROVE LateAnswer(t, m)'
        BY <1>3, <1>8, <2>1, <2>3, <4>2 DEF LateAnswer
      <4> QED BY <4>1, <4>2 DEF LateOf, Has, Distinct
    <3> QED BY <2>7, <3>1, <3>2, <3>3, <3>4, <3>5 DEF MasterOK
  <2>9. ASSUME NEW t \in Slaves \ {m}
        PROVE  /\ InFlight("start_response", t, m)' <=> InFlight("start_response", t, m)
               /\ InFlight("start_response_pending", t, m)' <=> InFlight("start_response_pending", t, m)
               /\ InFlight("read_request", m, t)' <=> InFlight("read_request", m, t)
               /\ InFlight("read_response", t, m)' <=> InFlight("read_response", t, m)
               /\ InFlight("write_request", m, t)' <=> InFlight("write_request", m, t)
               /\ InFlight("write_response", t, m)' <=> InFlight("write_response", t, m)
               /\ InFlight("start_request", m, t)' <=> InFlight("start_request", m, t)
               /\ \A b : OnWay("start_response", t, b, m)' <=> OnWay("start_response", t, b, m)
               /\ Written(m, t)' <=> Written(m, t)
    <3>1. Written(m, t)' <=> Written(m, t)
      BY <1>4 DEF Written, InList
    <3> QED BY <1>3, <1>8, <2>3, <3>1
  <2>10. ASSUME NEW t \in Slaves \ {m} PROVE PrivateOf(m, t)'
    <3>1. PrivateOf(m, t)
      BY <1>2 DEF ProtocolInv
    <3> QED BY <1>3, <1>4, <2>1, <2>3, <2>9, <3>1 DEF PrivateOf
  <2>11. ASSUME NEW t \in Slaves \ {m}, current_master'[t] = m PROVE WorkOf(t)'
    <3>1. WorkOf(t) /\ current_master[t] = m
      BY <2>3, <2>11 DEF ProtocolInv
    <3> QED BY <1>3, <1>4, <2>1, <2>3, <2>9, <3>1 DEF WorkOf
  <2>12. device'[m] # "idle"
    BY <1>2, <2>1 DEF Asking
  <2> QED BY <1>2, <1>10, <2>8, <2>10, <2>11, <2>12, LeadKeeps
<1> QED BY <1>11, <1>12

----------------------------------------------------------------------------
(* Steps that change nothing that a device sees, but the copies of a start *)
(* or what the masters have collected.                                     *)

LEMMA StandStill ==
  ASSUME ProtocolInv, TypeOK', QueueOK(net)', Agree(net, current_master)',
         \A d \in Devices : /\ state'[d] = state[d] /\ device'[d] = device[d]
                            /\ current_master'[d] = current_master[d] /\ current_slave'[d] = current_slave[d]
                            /\ slave_list'[d] = slave_list[d],
         \A d \in Devices : \A t, x : InFlight(t, x, d)' => InFlight(t, x, d),
         \A d \in Devices : \A x : InFlight("stop", x, d)' <=> InFlight("stop", x, d),
         \A n : AfterStop(net, n)' => AfterStop(net, n),
         \A n \in Masters : MasterOK(n)',
         \A n \in Masters : \A s \in Slaves \ {n} : PrivateOf(n, s)'
  PROVE  ProtocolInv'
<1>1. StopsOK' /\ (NoStop => NoStop')
  BY DEF ProtocolInv, StopsOK, NoStop
<1>2. StopFirst'
  BY DEF ProtocolInv, StopFirst, Devices
<1>3. RestOK'
  BY DEF ProtocolInv, RestOK, Devices
<1>4. ASSUME NEW s \in Slaves PROVE WorkOf(s)'
  <2>1. WorkOf(s) /\ s \in Devices
    BY DEF ProtocolInv, Devices
  <2>2. /\ state'[s] = state[s] /\ current_master'[s] = current_master[s] /\ current_slave'[s] = current_slave[s]
    BY <2>1
  <2>3. PICK m : m = current_master[s]
    OBVIOUS
  <2> SUFFICES ASSUME current_master'[s] # s, Works(s)' PROVE WorkOf(s)'
    BY DEF WorkOf
  <2>4. current_master[s] # s /\ Works(s) /\ (Thinks(s)' <=> Thinks(s))
    BY <2>2 DEF Works, Thinks
  <2>5. m \in Masters /\ m \in Devices
    BY <2>1, <2>3, <2>4 DEF WorkOf, Devices
  <2>6. device'[m] = device[m] /\ current_slave'[m] = current_slave[m] /\ (Written(m, s)' <=> Written(m, s))
    BY <2>5 DEF Written, InList
  <2> QED BY <1>1, <2>1, <2>2, <2>3, <2>4, <2>5, <2>6 DEF WorkOf
<1> QED BY <1>1, <1>2, <1>3, <1>4 DEF ProtocolInv

(* An endpoint without a master and without a slave takes its copy. *)
LEMMA BystanderKeeps ==
  ASSUME ProtocolInv, TypeOK', NEW e \in Endpoints, e \notin Devices, NEW T, Receives(e, T), net' = Taken(e),
         UNCHANGED <<pending_slaves, pending_start_responses, slave_list, slave_list_counter,
                     slave_list_ack, address_pattern>>,
         \A d \in Endpoints \ {e} : /\ state'[d] = state[d] /\ device'[d] = device[d]
                                    /\ current_master'[d] = current_master[d] /\ current_slave'[d] = current_slave[d]
  PROVE  ProtocolInv'
<1>1. /\ TypeOK /\ QueueOK(net) /\ net # <<>> /\ e \in Head(net).to /\ Agree(net, current_master)
  BY DEF ProtocolInv, Receives
<1>2. PICK X : X = Head(net).src
  OBVIOUS
<1>3. \A d \in Devices : /\ state'[d] = state[d] /\ device'[d] = device[d] /\ d # e
                         /\ current_master'[d] = current_master[d] /\ current_slave'[d] = current_slave[d]
                         /\ slave_list'[d] = slave_list[d]
  BY DevicesAreEndpoints
<1>4. /\ QueueOK(net)'
      /\ \A d \in Devices : \A t, x, a : OnWay(t, x, a, d)' <=> OnWay(t, x, a, d)
      /\ \A d \in Devices : \A t, x : InFlight(t, x, d)' <=> InFlight(t, x, d)
      /\ \A n : AfterStop(net, n)' => AfterStop(net, n)
  BY <1>1, <1>2, <1>3, Delivered
<1>5. Agree(net, current_master)'
  <2> PICK q : q = Taken(e)
    OBVIOUS
  <2>1. ASSUME NEW owner, owner = current_master' PROVE Agree(q, owner)
    <3>1. \A d \in Devices \ {e} : owner[d] = current_master[d]
      BY <1>3, <2>1
    <3> QED BY <1>1, <3>1, AgreeTaken
  <2>2. Agree(q, current_master')
    BY <2>1
  <2> QED BY <2>2, AgreeKept
<1>6. NoStop => NoStop'
  BY <1>4 DEF NoStop
<1>7. ASSUME NEW n \in Masters PROVE MasterOK(n)' /\ \A s \in Slaves \ {n} : PrivateOf(n, s)'
  <2>1. n \in Devices /\ Slaves \subseteq Devices
    BY DEF Devices
  <2>2. device[n] \in InTransfer => \A d \in Devices : current_master'[d] = n
    BY <1>3, InTransferOnly
  <2>3. LeftAlone(n)
    BY <1>3, <1>4, <1>6, <2>1, <2>2 DEF LeftAlone, Untouched
  <2> QED BY <2>3, LeftAloneKeeps
<1> QED BY <1>3, <1>4, <1>5, <1>7, StandStill

LEMMA StartUnseenKeeps ==
  ASSUME ProtocolInv, TypeOK', MastersBehave, NEW e \in Endpoints, DeliverStartUnseen(e)
  PROVE  ProtocolInv'
<1>1. PICK m : m = Head(net).src
  OBVIOUS
<1>2. /\ Receives(e, "start_request") /\ m # e /\ Accepts(e, m) /\ e \notin Slaves /\ TypeOK
      /\ net' = Taken(e) /\ current_master' = [current_master EXCEPT ![e] = m]
      /\ UNCHANGED <<current_slave, pending_slaves, pending_start_responses, slave_list,
                     slave_list_counter, slave_list_ack, address_pattern>>
  BY <1>1 DEF DeliverStartUnseen, answers, addressing, ProtocolInv
<1>3. PICK a : a = Head(net).status
  OBVIOUS
<1>4. ~Is10bitRead(a)
  <2> SUFFICES ASSUME Is10bitRead(a) PROVE FALSE
    OBVIOUS
  <2>1. PICK n \in Masters : \E s \in Slaves \ {n} : Visits("start_request", m, e, n, s)
    BY <1>1, <1>2, <1>3, HeadPrivate
  <2> QED BY <1>2, <2>1 DEF Visits
<1>5. m \in Masters
  <2>1. Head(net) = net[1] /\ 1 \in 1..Len(net)
    BY <1>2, Heads DEF Receives
  <2>2. Shared(net[1]) /\ Shaped(net[1])
    BY <1>2, <1>3, <1>4, <2>1 DEF Receives, Shared, SharedStart, ProtocolInv, QueueOK
  <2> QED BY <1>1, <2>1, <2>2 DEF Shaped
<1>6. e \notin Devices
  BY <1>2, <1>5 DEF MastersBehave, Devices
<1>7. \A d \in Endpoints \ {e} : state'[d] = state[d] /\ device'[d] = device[d]
  <2>1. CASE state[e] = "wait_remote_start_rsp"
    BY <1>2, <2>1 DEF DeliverStartUnseen, Acknowledge, TypeOK
  <2>2. CASE state[e] # "wait_remote_start_rsp"
    BY <1>2, <2>2 DEF DeliverStartUnseen, TypeOK
  <2> QED BY <2>1, <2>2
<1>8. \A d \in Endpoints \ {e} : current_master'[d] = current_master[d] /\ current_slave'[d] = current_slave[d]
  BY <1>2 DEF TypeOK
<1> QED BY <1>2, <1>6, <1>7, <1>8, BystanderKeeps

(* Nothing happens, or a checkpoint is restored. *)
LEMMA StayKeeps ==
  ASSUME ProtocolInv, TypeOK', net' = net, slave_list_ack' = slave_list_ack,
         UNCHANGED <<state, current_master, current_slave, pending_slaves, pending_start_responses, slave_list,
                     slave_list_counter, address_pattern, device>>
  PROVE  ProtocolInv'
<1>1. /\ \A d \in Devices : \A t, x, a : OnWay(t, x, a, d)' <=> OnWay(t, x, a, d)
      /\ \A d \in Devices : \A t, x : InFlight(t, x, d)' <=> InFlight(t, x, d)
      /\ \A n : AfterStop(net, n)' => AfterStop(net, n)
  BY DEF OnWay, Carries, InFlight, AfterStop, Concerns
<1>2. QueueOK(net)' /\ Agree(net, current_master)'
  BY QueueKept, AgreeKept DEF ProtocolInv
<1>3. ASSUME NEW n \in Masters PROVE MasterOK(n)' /\ \A s \in Slaves \ {n} : PrivateOf(n, s)'
  <2>1. n \in Devices /\ Slaves \subseteq Devices
    BY DEF Devices
  <2>2. device[n] \in InTransfer => \A d \in Devices : current_master'[d] = n
    BY InTransferOnly
  <2>3. NoStop => NoStop'
    BY <1>1 DEF NoStop
  <2>4. LeftAlone(n)
    BY <1>1, <2>1, <2>2, <2>3 DEF LeftAlone, Untouched
  <2> QED BY <2>4, LeftAloneKeeps
<1> QED BY <1>1, <1>2, <1>3, StandStill

LEMMA RestoreKeeps ==
  ASSUME ProtocolInv, TypeOK', Restore
  PROVE  ProtocolInv'
<1>1. /\ slave_list_ack' = [e \in Endpoints |-> NOACK] /\ net' = net
      /\ UNCHANGED <<state, current_master, current_slave, pending_slaves, pending_start_responses, slave_list,
                     slave_list_counter, address_pattern, device>>
  BY DEF Restore, answers
<1>2. /\ \A d \in Devices : \A t, x, a : OnWay(t, x, a, d)' <=> OnWay(t, x, a, d)
      /\ \A d \in Devices : \A t, x : InFlight(t, x, d)' <=> InFlight(t, x, d)
      /\ \A n : AfterStop(net, n)' => AfterStop(net, n)
  BY <1>1 DEF OnWay, Carries, InFlight, AfterStop, Concerns
<1>3. QueueOK(net)' /\ Agree(net, current_master)' /\ (NoStop' <=> NoStop)
  BY <1>1, <1>2, QueueKept, AgreeKept DEF ProtocolInv, NoStop
<1>4. ASSUME NEW n \in Masters PROVE MasterOK(n)'
  <2>1. MasterOK(n) /\ n \in Endpoints /\ n \in Devices /\ slave_list_ack'[n] = NOACK
    BY <1>1, DevicesAreEndpoints DEF ProtocolInv, Devices
  <2>2. /\ Asks(n)' <=> Asks(n)
        /\ Selects(n)' <=> Selects(n)
        /\ Broadcasting(n)' <=> Broadcasting(n)
        /\ Receiving(n)' <=> Receiving(n)
        /\ AllReceive(n)' <=> AllReceive(n)
        /\ Partner(n)' <=> Partner(n)
        /\ \A s : Chosen(s, n)' <=> Chosen(s, n)
        /\ \A s : InList(s, n)' <=> InList(s, n)
    <3>1. Asks(n)' <=> Asks(n)
      BY <1>2, <2>1 DEF Asks
    <3> QED BY <1>1, <3>1 DEF Selects, Broadcasting, Is10bit, Receiving, AllReceive, Partner, Chosen, Serves, InList
  <2>3. Owing(n)' = Owing(n) /\ Writing(n)' = Writing(n)
    <3>1. ASSUME NEW s \in Slaves \ {n}
          PROVE  (OwesStart(s, n)' <=> OwesStart(s, n)) /\ (OwesWrite(s, n)' <=> OwesWrite(s, n))
      BY <1>1, <1>2, <2>1 DEF OwesStart, OwesWrite, Devices
    <3> QED BY <3>1 DEF Owing, Writing
  <2>4. StartsOf(n)' /\ AskedOf(n)'
    BY <1>1, <1>2, <2>1, <2>2 DEF MasterOK, StartsOf, AskedOf, Is10bitRead, WaitingFor, Pattern
  <2>5. AskingOf(n)'
    <3>1. \A s \in Slaves : Thinks(s)' <=> Thinks(s)
      BY <1>1 DEF Thinks
    <3> QED BY <1>1, <1>2, <1>3, <2>1, <2>2, <3>1 DEF MasterOK, AskingOf, Is10bitRead, Devices
  <2>6. SelectsOf(n)'
    BY <1>1, <2>1, <2>2, <2>3 DEF MasterOK, SelectsOf, Is10bitRead, ACK, NOACK
  <2>7. ListsOf(n)'
    BY <1>1, <2>1, <2>2 DEF MasterOK, ListsOf
  <2>8. TransferOf(n)'
    <3>1. Accepting(n) => Accepting(n)'
      BY <1>1, <2>2 DEF Accepting
    <3>2. Reads(n) => Reads(n)'
      <4>2. PICK p : p = current_slave[n]
        OBVIOUS
      <4>3. Partner(n) => p \in Slaves
        BY <4>2 DEF Partner, Chosen, Serves
      <4>4. ASSUME Reads(n)
            PROVE  InFlight("read_request", n, p)' \/ state'[p] = "wait_rsp_r" \/ InFlight("read_response", p, n)'
        <5>1. InFlight("read_request", n, p) \/ state[p] = "wait_rsp_r" \/ InFlight("read_response", p, n)
          BY <4>2, <4>4 DEF Reads
        <5>2. p \in Slaves
          BY <4>3, <4>4 DEF Reads
        <5>3. /\ InFlight("read_request", n, p)' <=> InFlight("read_request", n, p)
              /\ InFlight("read_response", p, n)' <=> InFlight("read_response", p, n)
          BY <1>2, <2>1, <5>2 DEF Devices
        <5> QED BY <1>1, <5>1, <5>3
      <4>5. ASSUME Reads(n)
            PROVE  \/ InFlight("read_request", n, current_slave[n])' \/ state'[p] = "wait_rsp_r"
                   \/ InFlight("read_response", current_slave[n], n)'
        BY <1>1, <4>2, <4>4, <4>5 DEF InFlight
      <4> QED BY <1>1, <2>2, <4>2, <4>5 DEF Reads
    <3>3. Writes(n) => Writes(n)'
      <4>1. ASSUME NEW s \in Slaves PROVE OwesWrite(s, n)' <=> OwesWrite(s, n)
        BY <1>1, <1>2, <2>1 DEF OwesWrite, Devices
      <4>2. PICK p : p = current_slave[n]
        OBVIOUS
      <4>3. Writes(n) => p \in Slaves /\ OwesWrite(p, n)'
        BY <4>1, <4>2 DEF Writes, Partner, Chosen, Serves
      <4>4. Writes(n) => OwesWrite(current_slave[n], n)'
        BY <1>1, <4>2, <4>3 DEF OwesWrite
      <4> QED BY <1>1, <2>2, <4>4 DEF Writes
    <3>4. WritesToAll(n) => WritesToAll(n)'
      BY <1>1, <2>1, <2>2, <2>3 DEF WritesToAll, ACK, NOACK
    <3>5. TransferOf(n)
      BY <2>1 DEF MasterOK
    <3>6. /\ state' = state /\ current_master' = current_master /\ slave_list' = slave_list /\ device' = device
      BY <1>1
    <3> QED BY <1>3, <2>2, <3>1, <3>2, <3>3, <3>4, <3>5, <3>6 DEF TransferOf
  <2>9. LateOf(n)'
    <3>1. \A s \in Slaves : LateAnswer(s, n)' <=> LateAnswer(s, n)
      BY <1>1, <1>2, <2>1 DEF LateAnswer, Thinks
    <3> QED BY <1>1, <2>1, <3>1 DEF MasterOK, LateOf, Has, Distinct
  <2> QED BY <2>4, <2>5, <2>6, <2>7, <2>8, <2>9 DEF MasterOK
<1>5. ASSUME NEW n \in Masters, NEW s \in Slaves \ {n} PROVE PrivateOf(n, s)'
  <2>1. PrivateOf(n, s) /\ n \in Devices /\ s \in Devices
    BY DEF ProtocolInv, Devices
  <2>2. (Thinks(s)' <=> Thinks(s)) /\ (Written(n, s)' <=> Written(n, s))
    BY <1>1 DEF Thinks, Written, InList
  <2> QED BY <1>1, <1>2, <1>3, <2>1, <2>2 DEF PrivateOf
<1> QED BY <1>1, <1>2, <1>3, <1>4, <1>5, StandStill

(* The start of a master that lost is only taken from the queue. *)
LEMMA LostStartKeeps ==
  ASSUME ProtocolInv, TypeOK', NEW e \in Endpoints, DeliverLostStart(e)
  PROVE  ProtocolInv'
<1>1. PICK m : m = Head(net).src
  OBVIOUS
<1>2. /\ Receives(e, "start_request") /\ ~Accepts(e, m) /\ TypeOK /\ net' = Taken(e)
      /\ QueueOK(net) /\ net # <<>> /\ e \in Head(net).to /\ Agree(net, current_master)
      /\ Head(net).type = "start_request"
      /\ UNCHANGED <<state, current_master, current_slave, pending_slaves, pending_start_responses, slave_list,
                     slave_list_counter, slave_list_ack, address_pattern, device>>
  BY <1>1 DEF DeliverLostStart, answers, addressing, ProtocolInv, Receives
<1>3. CASE e \notin Devices
  BY <1>2, <1>3, BystanderKeeps
<1>4. CASE e \in Devices
  <2>1. PICK a : a = Head(net).status
    OBVIOUS
  <2>2. ~Is10bitRead(a)
    <3> SUFFICES ASSUME Is10bitRead(a) PROVE FALSE
      OBVIOUS
    <3>1. PICK n \in Masters : \E s \in Slaves \ {n} :
              Visits("start_request", m, e, n, s) /\ \A d \in Devices : current_master[d] = n
      BY <1>1, <1>2, <2>1, HeadPrivate
    <3> QED BY <1>2, <1>4, <3>1 DEF Visits, Accepts
  <2>3. Head(net) = net[1] /\ 1 \in 1..Len(net)
    BY <1>2, Heads
  <2>4. Shared(Head(net)) /\ m \in Masters /\ m \in Devices
    <3>1. Shared(net[1]) /\ Shaped(net[1])
      BY <1>2, <2>1, <2>2, <2>3 DEF Shared, SharedStart, QueueOK
    <3> QED BY <1>1, <2>3, <3>1 DEF Shaped, Devices
  <2>5. PICK k : k = current_master[e]
    OBVIOUS
  <2>6. k \in Masters /\ k # m
    BY <1>2, <1>4, <2>5 DEF Accepts, Agree, AgreeAmong
  <2>7. \A d \in Devices : current_master[d] = k
    <3> SUFFICES ASSUME NEW d \in Devices PROVE current_master[d] = k
      OBVIOUS
    <3>1. Behind(net, e)
      BY <1>2, <2>4 DEF Behind
    <3>2. CASE Behind(net, d)
      BY <1>2, <1>4, <2>5, <3>1, <3>2 DEF Agree, AgreeAmong
    <3>3. CASE ~Behind(net, d)
      <4>1. current_master[d] = OwnerAfter(current_master[e], Head(net))
        BY <1>2, <1>4, <3>1, <3>3 DEF Agree, AgreeAmong
      <4> QED BY <1>1, <1>2, <2>5, <4>1 DEF OwnerAfter, Accepts
    <3> QED BY <3>2, <3>3
  <2>8. MasterOK(m) /\ device[m] = "idle" /\ current_master[m] = k
    <3>1. MasterOK(m) /\ current_master[m] = k
      BY <2>4, <2>7 DEF ProtocolInv
    <3>2. device[m] \notin InTransfer
      BY <2>4, <2>6, <3>1 DEF MasterOK, TransferOf
    <3>3. device[m] \notin Asking
      BY <2>6, <3>1, NoneIsNoMaster DEF MasterOK, AskingOf
    <3> QED BY <1>2, <2>4, <3>1, <3>2, <3>3, DeviceCases
  <2>9. /\ QueueOK(net)'
        /\ \A d \in Devices : \A t, x, b : OnWay(t, x, b, d)' <=>
             OnWay(t, x, b, d) /\ ~(t = "start_request" /\ x = m /\ d = e)
        /\ \A d \in Devices : \A t, x : InFlight(t, x, d)' <=>
             InFlight(t, x, d) /\ ~(t = "start_request" /\ x = m /\ d = e)
        /\ \A n : AfterStop(net, n)' => AfterStop(net, n)
    BY <1>1, <1>2, Delivered
  <2>10. Agree(net, current_master)'
    <3> PICK q : q = Taken(e)
      OBVIOUS
    <3>1. current_master[e] = IF Shared(Head(net)) THEN OwnerAfter(current_master[e], Head(net)) ELSE current_master[e]
      BY <1>1, <1>2 DEF OwnerAfter, Accepts
    <3>2. Agree(q, current_master)
      BY <1>2, <3>1, AgreeTaken
    <3>3. Agree(q, current_master')
      BY <1>2, <3>2
    <3> QED BY <1>2, <3>3, AgreeKept
  <2>11. NoStop => NoStop'
    BY <2>9 DEF NoStop
  <2>12. ASSUME NEW n \in Masters \ {m} PROVE MasterOK(n)' /\ \A s \in Slaves \ {n} : PrivateOf(n, s)'
    <3>1. n \in Devices /\ Slaves \subseteq Devices
      BY DEF Devices
    <3>2. device[n] \in InTransfer => \A d \in Devices : current_master'[d] = n
      BY <1>2, InTransferOnly
    <3>3. /\ \A a1 : \A d \in Devices : OnWay("start_request", n, a1, d)' <=> OnWay("start_request", n, a1, d)
          /\ \A s \in Slaves \ {n} : \A t \in MessageTypes \ {"start_request", "stop"} : \A a1 :
               /\ OnWay(t, n, a1, s)' <=> OnWay(t, n, a1, s)
               /\ OnWay(t, s, a1, n)' <=> OnWay(t, s, a1, n)
      BY <2>9, <3>1
    <3>4. LeftAlone(n)
      BY <1>2, <2>11, <3>1, <3>2, <3>3 DEF LeftAlone, Untouched
    <3> QED BY <3>4, LeftAloneKeeps
  <2>13. MasterOK(m)'
    <3>1. StartsOf(m)'
      BY <1>2, <2>8, <2>9 DEF MasterOK, StartsOf
    <3>2. AskedOf(m)'
      <4>1. ASSUME NEW d \in Devices, NEW b \in 0..255, OnWay("start_request", m, b, d)' PROVE ~Is10bitRead(b)
        <5>1. OnWay("start_request", m, b, d)
          BY <2>9, <4>1
        <5> QED BY <2>8, <5>1 DEF MasterOK, AskedOf
      <4> QED BY <1>2, <2>8, <4>1 DEF AskedOf, Asking, Is10bitRead
    <3>3. AskingOf(m)' /\ SelectsOf(m)' /\ TransferOf(m)'
      BY <1>2, <2>8 DEF AskingOf, SelectsOf, Selects, TransferOf, Asking, InTransfer
    <3>4. ListsOf(m)'
      BY <1>2, <2>8 DEF MasterOK, ListsOf, Broadcasting, Is10bit
    <3>5. LateOf(m)'
      BY <1>2, <2>8 DEF MasterOK, LateOf, LateAnswer, Has, Distinct, Asking
    <3> QED BY <3>1, <3>2, <3>3, <3>4, <3>5 DEF MasterOK
  <2>14. ASSUME NEW s \in Slaves \ {m} PROVE PrivateOf(m, s)'
    <3>1. PrivateOf(m, s) /\ s \in Devices
      BY <2>4 DEF ProtocolInv, Devices
    <3>2. /\ ~InFlight("start_response", s, m) /\ ~InFlight("start_response_pending", s, m)
          /\ ~InFlight("read_request", m, s) /\ ~InFlight("read_response", s, m)
          /\ ~InFlight("write_request", m, s) /\ ~InFlight("write_response", s, m)
      BY <2>8, <3>1 DEF PrivateOf, Asking
    <3>3. /\ ~InFlight("start_response", s, m)' /\ ~InFlight("start_response_pending", s, m)'
          /\ ~InFlight("read_request", m, s)' /\ ~InFlight("read_response", s, m)'
          /\ ~InFlight("write_request", m, s)' /\ ~InFlight("write_response", s, m)'
      BY <2>4, <2>9, <3>1, <3>2
    <3>4. \A b : ~OnWay("start_response", s, b, m)'
      BY <3>3, InFlightOnWayNext
    <3> QED BY <3>3, <3>4 DEF PrivateOf
  <2>15. /\ \A n \in Masters : MasterOK(n)'
         /\ \A n \in Masters : \A s \in Slaves \ {n} : PrivateOf(n, s)'
    BY <2>12, <2>13, <2>14
  <2> QED BY <1>2, <2>9, <2>10, <2>15, StandStill
<1> QED BY <1>3, <1>4

----------------------------------------------------------------------------
(* A stop. *)

LEMMA NothingAfterStop ==
  ASSUME TypeOK, QueueOK(net), NoStop, NEW n
  PROVE  ~AfterStop(net, n)
<1> SUFFICES ASSUME AfterStop(net, n) PROVE FALSE
  OBVIOUS
<1>1. PICK i \in 1..Len(net) : net[i].type = "stop" /\ Concerns(net[i])
  BY DEF AfterStop
<1>2. net[i].src \in Masters
  BY <1>1 DEF QueueOK, Shaped, Shared
<1>3. PICK d \in Devices : d \in net[i].to
  BY <1>1 DEF Concerns
<1>4. OnWay("stop", net[i].src, net[i].status, d)
  BY <1>1, <1>3 DEF OnWay, Carries
<1>5. InFlight("stop", net[i].src, d)
  BY <1>4, InFlightOnWay
<1> QED BY <1>2, <1>5 DEF NoStop

LEMMA StopKeeps ==
  ASSUME ProtocolInv, TypeOK', MastersBehave, NEW m \in Masters, Stop(m)
  PROVE  ProtocolInv'
<1>1. /\ device[m] \in {"r", "w", "nack"} /\ device' = [device EXCEPT ![m] = "idle"] /\ TypeOK
      /\ net' = Broadcast(net, "stop", m, 0) /\ QueueOK(net) /\ Agree(net, current_master)
      /\ UNCHANGED <<state, current_master, current_slave, pending_slaves, pending_start_responses, address_pattern>>
  BY DEF Stop, MastersBehave, answers, addressing, ProtocolInv
<1>2. /\ Lead(m) /\ NoStop /\ \A d \in Devices : current_master[d] = m
      /\ \A d \in Devices : ~InFlight("start_request", m, d)
      /\ \A s \in Slaves \ {m} : Quiet(m, s) /\ ~Works(s)
      /\ Len(pending_start_responses[m]) = 0 /\ slave_list_counter[m] = 0
  BY <1>1, Settled
<1>3. m \in Endpoints /\ m \in Devices /\ MasterOK(m) /\ m # None
  BY DevicesAreEndpoints, NoneIsNoMaster DEF Devices, ProtocolInv
<1>4. /\ slave_list'[m] = <<>> /\ slave_list_counter'[m] = 0
      /\ \A n \in Endpoints \ {m} : /\ slave_list'[n] = slave_list[n]
                                    /\ slave_list_counter'[n] = slave_list_counter[n]
                                    /\ slave_list_ack'[n] = slave_list_ack[n]
  <2>1. CASE slave_list[m] = <<>>
    BY <1>2, <2>1 DEF Stop, addressing
  <2>2. CASE slave_list[m] # <<>>
    BY <1>1, <1>3, <2>2 DEF Stop, TypeOK
  <2> QED BY <2>1, <2>2
<1>5. device'[m] = "idle" /\ \A n \in Endpoints \ {m} : device'[n] = device[n]
  BY <1>1, <1>3 DEF TypeOK
<1>6. 0 \in 0..255
  OBVIOUS
<1>7. /\ SendsToAll("stop", m, 0) /\ Agree(net, current_master)' /\ InOrderIfSent("stop", m, 0)
  BY <1>1, <1>6, SentToAll
<1>8. /\ \A d \in Devices : \A t, x, a : OnWay(t, x, a, d)' <=>
           OnWay(t, x, a, d) \/ (t = "stop" /\ x = m /\ a = 0)
      /\ \A d \in Devices : \A t, x : InFlight(t, x, d)' <=>
           InFlight(t, x, d) \/ (t = "stop" /\ x = m)
      /\ \A d \in Devices : \A n : Restarting(n, d)' <=> Restarting(n, d)
      /\ \A n : AfterStop(net, n)' => AfterStop(net, n)
  BY <1>7 DEF SendsToAll
<1>9. QueueOK(net)'
  <2>1. PICK msg \in Messages :
          /\ msg.type = "stop" /\ msg.src = m /\ msg.to = Endpoints /\ msg.status = 0
          /\ QueueOK(Append(net, msg)) => QueueOK(net)'
    BY <1>7 DEF InOrderIfSent
  <2>2. \A k \in Masters, d \in Devices : \A a : ~Carries(net, "stop", k, a, d)
    BY <1>1, <1>2, InFlightOnWay DEF NoStop, OnWay
  <2>3. \A d \in Devices : \A a : ~Carries(net, "start_request", m, a, d)
    BY <1>1, <1>2, InFlightOnWay DEF OnWay
  <2>4. net \in Seq(Messages)
    BY <1>1 DEF TypeOK
  <2> QED BY <1>1, <2>1, <2>2, <2>3, <2>4, StopSent
<1>10. StopsOK'
  BY <1>1, <1>2, <1>8 DEF StopsOK, NoStop
<1>11. StopFirst'
  BY <1>1, <1>2, <1>8, NothingAfterStop DEF StopFirst
<1>12. RestOK'
  <2>1. state[m] \in {"wait_req_r", "wait_req_w", "wait_stop"}
    BY <1>1, <1>3 DEF MasterOK, TransferOf, InTransfer, Accepting
  <2> QED BY <1>1, <1>2, <1>3, <1>8, <2>1 DEF RestOK, Devices
<1>13. MasterOK(m)'
  <2>1. \A d \in Devices : ~InFlight("start_request", m, d)'
    BY <1>2, <1>8
  <2>2. StartsOf(m)' /\ AskedOf(m)'
    BY <2>1, InFlightOnWayNext DEF StartsOf, AskedOf
  <2>3. AskingOf(m)' /\ SelectsOf(m)' /\ TransferOf(m)'
    BY <1>5 DEF AskingOf, SelectsOf, Selects, TransferOf, Asking, InTransfer
  <2>4. ListsOf(m)' /\ LateOf(m)'
    BY <1>1, <1>2, <1>4 DEF ListsOf, LateOf, Distinct, Has
  <2> QED BY <2>2, <2>3, <2>4 DEF MasterOK
<1>14. ASSUME NEW s \in Slaves \ {m} PROVE PrivateOf(m, s)'
  <2>1. Quiet(m, s) /\ s \in Devices
    BY <1>2 DEF Devices
  <2>2. Quiet(m, s)'
    BY <1>3, <1>8, <2>1 DEF Quiet
  <2>3. \A b : ~OnWay("start_response", s, b, m)'
    BY <2>2, InFlightOnWayNext DEF Quiet
  <2> QED BY <2>2, <2>3 DEF PrivateOf, Quiet
<1>15. ASSUME NEW n \in Masters \ {m} PROVE MasterOK(n)' /\ \A s \in Slaves \ {n} : PrivateOf(n, s)'
  <2>1. n \in Devices /\ Slaves \subseteq Devices /\ n \in Endpoints /\ Idle(n)
    BY <1>2, OthersIdle, DevicesAreEndpoints DEF Devices
  <2>2. device[n] \notin InTransfer
    BY <2>1 DEF Idle
  <2>3. /\ \A a1 : \A d \in Devices : OnWay("start_request", n, a1, d)' <=> OnWay("start_request", n, a1, d)
        /\ \A s \in Slaves \ {n} : \A t \in MessageTypes \ {"start_request", "stop"} : \A a1 :
             /\ OnWay(t, n, a1, s)' <=> OnWay(t, n, a1, s)
             /\ OnWay(t, s, a1, n)' <=> OnWay(t, s, a1, n)
    BY <1>8, <2>1
  <2>4. LeftAlone(n)
    BY <1>1, <1>4, <1>5, <2>1, <2>2, <2>3 DEF LeftAlone, Untouched
  <2> QED BY <2>4, LeftAloneKeeps
<1>16. ASSUME NEW s \in Slaves PROVE WorkOf(s)'
  <2>1. s = m \/ ~Works(s)'
    BY <1>1, <1>2 DEF Works, Thinks
  <2>2. s = m => current_master'[s] = s
    BY <1>1, <1>2, <1>3
  <2> QED BY <2>1, <2>2 DEF WorkOf
<1>17. /\ \A n \in Masters : MasterOK(n)'
       /\ \A n \in Masters : \A s \in Slaves \ {n} : PrivateOf(n, s)'
  BY <1>13, <1>14, <1>15
<1> QED BY <1>7, <1>9, <1>10, <1>11, <1>12, <1>16, <1>17 DEF ProtocolInv

(* While a stop is on its way, the masters are at rest or ask for the bus. *)
LEMMA StoppedIdle ==
  ASSUME ProtocolInv, ~NoStop
  PROVE  /\ \A n \in Masters : Idle(n) /\ slave_list_counter[n] = 0
         /\ \A s \in Slaves : Works(s) => current_master[s] = s
<1>1. \A s \in Slaves : Works(s) => current_master[s] = s
  BY DEF ProtocolInv, WorkOf
<1>2. ASSUME NEW n \in Masters PROVE Idle(n) /\ slave_list_counter[n] = 0
  <2>1. n \in Devices /\ MasterOK(n) /\ TypeOK
    BY DEF Devices, ProtocolInv
  <2>2. device[n] \notin InTransfer /\ ~Selects(n)
    BY <2>1 DEF MasterOK, TransferOf, AskingOf, Selects
  <2>3. ASSUME NEW s \in Slaves \ {n}
        PROVE  /\ ~InFlight("start_response", s, n) /\ Quiet(n, s)
               /\ ~(Thinks(s) /\ current_master[s] = n)
    <3>1. PrivateOf(n, s)
      BY DEF ProtocolInv
    <3>2. ~Restarting(n, s)
      BY <2>1, <2>2 DEF MasterOK, AskedOf, Restarting, Selects, Asking, Devices
    <3>3. ~(Thinks(s) /\ current_master[s] = n)
      BY <1>1 DEF Works
    <3> QED BY <2>2, <3>1, <3>2, <3>3 DEF PrivateOf, Quiet, InTransfer
  <2>4. \A i \in 1..Len(pending_start_responses[n]) : FALSE
    <3> SUFFICES ASSUME NEW i \in 1..Len(pending_start_responses[n]) PROVE FALSE
      OBVIOUS
    <3>1. PICK s : s = pending_start_responses[n][i]
      OBVIOUS
    <3>2. s \in Slaves \ {n} /\ Has(pending_start_responses[n], s)
      BY <2>1, <3>1 DEF MasterOK, LateOf, Has
    <3>3. LateAnswer(s, n)
      BY <2>1, <3>2 DEF MasterOK, LateOf
    <3> QED BY <2>3, <3>2, <3>3 DEF LateAnswer
  <2>5. Len(pending_start_responses[n]) = 0
    <3>1. Len(pending_start_responses[n]) \in Nat
      BY <2>1, DevicesAreEndpoints, LenProperties DEF TypeOK
    <3> QED BY <2>4, <3>1
  <2>6. device[n] \in Asking => \A s \in Slaves \ {n} : InFlight("start_request", n, s)
    BY <2>1, <2>2, <2>3 DEF MasterOK, AskingOf, Selects
  <2>7. slave_list_counter[n] = 0
    BY <2>1, <2>2 DEF MasterOK, ListsOf, InTransfer
  <2> QED BY <2>2, <2>3, <2>5, <2>6, <2>7 DEF Idle
<1> QED BY <1>1, <1>2

LEMMA StopTakenKeeps ==
  ASSUME ProtocolInv, TypeOK', NEW e \in Endpoints, DeliverStop(e)
  PROVE  ProtocolInv'
<1>1. PICK k : k = Head(net).src
  OBVIOUS
<1>2. /\ Receives(e, "stop") /\ TypeOK /\ net' = Taken(e)
      /\ QueueOK(net) /\ net # <<>> /\ e \in Head(net).to /\ Agree(net, current_master)
      /\ Head(net).type = "stop"
      /\ current_master' = [current_master EXCEPT ![e] = None]
      /\ current_slave' = [current_slave EXCEPT ![e] = None]
      /\ state' = [state EXCEPT ![e] = "idle"]
      /\ UNCHANGED <<pending_slaves, pending_start_responses, slave_list,
                     slave_list_counter, slave_list_ack, address_pattern, device>>
  BY DEF DeliverStop, answers, addressing, ProtocolInv, Receives
<1>3. /\ current_master'[e] = None /\ current_slave'[e] = None /\ state'[e] = "idle"
      /\ \A d \in Endpoints \ {e} : /\ state'[d] = state[d] /\ current_slave'[d] = current_slave[d]
                                    /\ current_master'[d] = current_master[d]
  BY <1>2 DEF TypeOK
<1>4. CASE e \notin Devices
  BY <1>2, <1>3, <1>4, BystanderKeeps
<1>5. CASE e \in Devices
  <2>1. Head(net) = net[1] /\ 1 \in 1..Len(net) /\ Len(net) \in Nat
    BY <1>2, Heads
  <2>2. k \in Masters /\ k \in Devices /\ Shared(Head(net)) /\ Concerns(net[1])
    <3>1. Shared(net[1]) /\ Shaped(net[1])
      BY <1>2, <2>1 DEF Shared, QueueOK
    <3> QED BY <1>1, <1>2, <1>5, <2>1, <3>1 DEF Shaped, Devices, Concerns
  <2>3. InFlight("stop", k, e)
    <3>1. PICK a : a = net[1].status
      OBVIOUS
    <3>2. OnWay("stop", k, a, e)
      BY <1>1, <1>2, <2>1, <3>1 DEF OnWay, Carries
    <3> QED BY <1>2, <3>2, InFlightOnWay
  <2>4. current_master[e] = k /\ ~NoStop
    BY <1>5, <2>2, <2>3 DEF ProtocolInv, StopsOK, NoStop
  <2>5. /\ \A n \in Masters : Idle(n) /\ slave_list_counter[n] = 0
        /\ \A s \in Slaves : Works(s) => current_master[s] = s
    BY <2>4, StoppedIdle
  <2>6. /\ QueueOK(net)'
        /\ \A d \in Devices : \A t, x, b : OnWay(t, x, b, d)' <=>
             OnWay(t, x, b, d) /\ ~(t = "stop" /\ x = k /\ d = e)
        /\ \A d \in Devices : \A t, x : InFlight(t, x, d)' <=>
             InFlight(t, x, d) /\ ~(t = "stop" /\ x = k /\ d = e)
        /\ \A d \in Devices : \A m :
              Restarting(m, d)' <=> Restarting(m, d) /\ ~("start_request" = "stop" /\ m = k /\ d = e)
        /\ \A n : AfterStop(net, n)' => AfterStop(net, n)
    BY <1>1, <1>2, Delivered
  <2>7. Agree(net, current_master)'
    <3> PICK q : q = Taken(e)
      OBVIOUS
    <3>1. ASSUME NEW owner, owner = current_master' PROVE Agree(q, owner)
      <4>1. \A d \in Devices \ {e} : owner[d] = current_master[d]
        BY <1>3, <3>1, DevicesAreEndpoints
      <4>2. owner[e] = IF Shared(Head(net)) THEN OwnerAfter(current_master[e], Head(net)) ELSE current_master[e]
        BY <1>2, <1>3, <2>2, <3>1 DEF OwnerAfter
      <4> QED BY <1>2, <4>1, <4>2, AgreeTaken
    <3>2. Agree(q, current_master')
      BY <3>1
    <3> QED BY <1>2, <3>2, AgreeKept
  <2>8. StopsOK'
    <3> SUFFICES ASSUME NEW j \in Masters, NEW d \in Devices, InFlight("stop", j, d)'
                 PROVE  current_master'[d] = j
      BY DEF StopsOK
    <3>1. InFlight("stop", j, d) /\ ~(j = k /\ d = e)
      BY <2>6
    <3>2. current_master[d] = j
      BY <3>1 DEF ProtocolInv, StopsOK
    <3> QED BY <1>3, <2>4, <3>1, <3>2, DevicesAreEndpoints
  <2>9. StopFirst'
    BY <1>2, <2>6 DEF ProtocolInv, StopFirst
  <2>10. RestOK'
    <3>1. ASSUME NEW n \in Masters, device'[n] = "idle", current_master'[n] = n
          PROVE  InFlight("stop", n, n)' /\ state'[n] \in {"wait_req_r", "wait_req_w", "wait_stop"}
      <4>1. n # e /\ n \in Devices /\ n \in Endpoints
        BY <1>3, <3>1, NoneIsNoMaster, DevicesAreEndpoints DEF Devices
      <4>2. device[n] = "idle" /\ current_master[n] = n /\ state'[n] = state[n]
        BY <1>2, <1>3, <3>1, <4>1
      <4>3. InFlight("stop", n, n) /\ state[n] \in {"wait_req_r", "wait_req_w", "wait_stop"}
        BY <4>2 DEF ProtocolInv, RestOK
      <4> QED BY <2>6, <4>1, <4>2, <4>3
    <3>2. ASSUME NEW d \in Devices, current_master'[d] = None
          PROVE  \/ state'[d] = "idle"
                 \/ d \in Masters /\ device'[d] \in Asking /\ state'[d] = "wait_remote_start_rsp"
      <4>1. CASE d = e
        BY <1>3, <4>1
      <4>2. CASE d # e
        BY <1>2, <1>3, <3>2, <4>2, DevicesAreEndpoints DEF ProtocolInv, RestOK
      <4> QED BY <4>1, <4>2
    <3> QED BY <3>1, <3>2 DEF RestOK
  <2>11. ASSUME NEW n \in Masters PROVE MasterOK(n)'
    <3>1. n \in Devices /\ n \in Endpoints /\ MasterOK(n) /\ Idle(n) /\ slave_list_counter[n] = 0
      BY <2>5, DevicesAreEndpoints DEF Devices, ProtocolInv
    <3>2. /\ \A d \in Devices : InFlight("start_request", n, d)' <=> InFlight("start_request", n, d)
          /\ \A d \in Devices : \A b : OnWay("start_request", n, b, d)' <=> OnWay("start_request", n, b, d)
          /\ Asks(n)' <=> Asks(n)
      BY <2>6, <3>1 DEF Asks
    <3>3. device'[n] \notin InTransfer /\ ~Selects(n)'
      BY <1>2, <3>1, <3>2 DEF Idle, Selects
    <3>4. StartsOf(n)'
      <4> SUFFICES ASSUME NEW d \in Devices, InFlight("start_request", n, d)'
                   PROVE  /\ device'[n] \in Asking \cup {"idle"}
                          /\ device'[n] = "idle" => current_master'[n] \notin {None, n}
        BY DEF StartsOf
      <4>1. /\ InFlight("start_request", n, d) /\ device[n] \in Asking \cup {"idle"}
            /\ device[n] = "idle" => current_master[n] \notin {None, n}
        BY <3>1, <3>2 DEF MasterOK, StartsOf
      <4>2. CASE n # e
        BY <1>2, <1>3, <3>1, <4>1, <4>2
      <4>3. CASE n = e
        <5>1. PICK b : OnWay("start_request", n, b, d)
          BY <1>2, <4>1, InFlightOnWay
        <5>2. PICK j \in 1..Len(net) : net[j].type = "start_request" /\ net[j].src = n
          BY <5>1 DEF OnWay, Carries
        <5>3. 1 < j
          BY <1>2, <2>1, <5>2
        <5>4. AfterStop(net, n)
          BY <1>2, <2>1, <2>2, <5>2, <5>3 DEF AfterStop
        <5>5. device[n] # "idle"
          BY <5>4 DEF ProtocolInv, StopFirst
        <5> QED BY <1>2, <4>1, <5>5
      <4> QED BY <4>2, <4>3
    <3>5. AskedOf(n)'
      <4>1. AskedOf(n) /\ address_pattern' = address_pattern
        BY <1>2, <3>1 DEF MasterOK
      <4>2. ASSUME NEW d \in Devices, NEW b \in 0..255, OnWay("start_request", n, b, d)'
            PROVE  OnWay("start_request", n, b, d)
        BY <3>2, <4>2
      <4>3. device'[n] = device[n] /\ address_pattern'[n] = address_pattern[n]
        BY <1>2
      <4>4. Asks(n)' => Asks(n)
        BY <3>2
      <4> QED BY <4>1, <4>2, <4>3, <4>4 DEF AskedOf, Is10bitRead, WaitingFor, Pattern
    <3>6. AskingOf(n)'
      <4> SUFFICES ASSUME device'[n] \in Asking PROVE AskingOf(n)'
        BY DEF AskingOf
      <4>1. AskingOf(n) /\ device[n] \in Asking /\ Asks(n) /\ Asks(n)'
        BY <1>2, <3>1, <3>2 DEF MasterOK, Idle, Selects
      <4>2. \A s \in Slaves \ {n} : InFlight("start_request", n, s)'
        BY <3>1, <3>2, <4>1 DEF Idle, Devices
      <4>3. current_master'[n] \in {None, n} /\ current_slave'[n] = None
        BY <1>3, <3>1, <4>1 DEF AskingOf
      <4>4. \/ state'[n] = "wait_remote_start_rsp"
            \/ state'[n] = "idle" /\ current_master'[n] = None
        BY <1>3, <3>1, <4>1 DEF AskingOf
      <4> QED BY <1>2, <4>1, <4>2, <4>3, <4>4 DEF AskingOf, Broadcasting, Is10bit, Is10bitRead
    <3>7. SelectsOf(n)' /\ TransferOf(n)'
      BY <3>3 DEF SelectsOf, TransferOf
    <3>8. ListsOf(n)'
      BY <1>2, <3>1 DEF MasterOK, ListsOf, Broadcasting, Is10bit
    <3>9. LateOf(n)'
      BY <1>2, <3>1 DEF Idle, LateOf, Has, Distinct
    <3> QED BY <3>4, <3>5, <3>6, <3>7, <3>8, <3>9 DEF MasterOK
  <2>12. ASSUME NEW n \in Masters, NEW s \in Slaves \ {n} PROVE PrivateOf(n, s)'
    <3>1. Quiet(n, s) /\ s \in Devices /\ n \in Devices
      BY <2>5 DEF Devices, Idle
    <3>2. Quiet(n, s)'
      BY <2>6, <3>1 DEF Quiet
    <3>3. \A b : ~OnWay("start_response", s, b, n)'
      BY <3>2, InFlightOnWayNext DEF Quiet
    <3> QED BY <3>2, <3>3 DEF PrivateOf, Quiet
  <2>13. ASSUME NEW s \in Slaves PROVE WorkOf(s)'
    <3>1. CASE s = e
      BY <1>3, <3>1 DEF WorkOf, Works, Thinks
    <3>2. CASE s # e
      <4>1. state'[s] = state[s] /\ current_master'[s] = current_master[s]
        BY <1>3, <3>2, DevicesAreEndpoints
      <4> QED BY <2>5, <4>1 DEF WorkOf, Works, Thinks
    <3> QED BY <3>1, <3>2
  <2> QED BY <2>6, <2>7, <2>8, <2>9, <2>10, <2>11, <2>12, <2>13 DEF ProtocolInv
<1> QED BY <1>4, <1>5

----------------------------------------------------------------------------
(* The protocol is kept from the initial state on. *)

LEMMA InitKeeps == Init => ProtocolInv
<1> SUFFICES ASSUME Init PROVE ProtocolInv
  OBVIOUS
<1>1. TypeOK
  BY InitType
<1>2. /\ net = <<>> /\ Len(net) = 0
      /\ \A e \in Endpoints : /\ state[e] = "idle" /\ current_master[e] = None /\ device[e] = "idle"
                              /\ slave_list[e] = <<>> /\ slave_list_counter[e] = 0
                              /\ pending_start_responses[e] = <<>> /\ current_slave[e] = None
  BY DEF Init
<1>3. /\ \A t, x, a, d : ~OnWay(t, x, a, d)
      /\ \A t, x, d : ~InFlight(t, x, d)
  BY <1>1, <1>2, InFlightOnWay DEF OnWay, Carries
<1>4. QueueOK(net) /\ Agree(net, current_master)
  BY <1>2, DevicesAreEndpoints DEF QueueOK, Agree, AgreeAmong, Behind
<1>5. StopsOK /\ StopFirst /\ RestOK
  <2>1. StopFirst
    BY <1>2 DEF StopFirst, AfterStop
  <2>2. StopsOK /\ RestOK
    BY <1>2, <1>3, DevicesAreEndpoints, NoneIsNoMaster DEF StopsOK, RestOK, Devices
  <2> QED BY <2>1, <2>2
<1>6. ASSUME NEW m \in Masters PROVE MasterOK(m)
  <2>1. m \in Endpoints /\ device[m] = "idle" /\ slave_list[m] = <<>> /\ slave_list_counter[m] = 0
        /\ pending_start_responses[m] = <<>>
    BY <1>2, DevicesAreEndpoints
  <2>2. StartsOf(m) /\ AskedOf(m) /\ AskingOf(m) /\ SelectsOf(m) /\ ListsOf(m) /\ TransferOf(m)
    BY <1>3, <2>1 DEF StartsOf, AskedOf, AskingOf, SelectsOf, Selects, ListsOf, TransferOf, Asking, InTransfer
  <2>3. Len(pending_start_responses[m]) = 0
    BY <2>1
  <2>4. LateOf(m)
    BY <2>3 DEF LateOf, Distinct, Has
  <2> QED BY <2>2, <2>4 DEF MasterOK
<1>7. ASSUME NEW m \in Masters, NEW s \in Slaves \ {m} PROVE PrivateOf(m, s)
  BY <1>3 DEF PrivateOf
<1>8. ASSUME NEW s \in Slaves PROVE WorkOf(s)
  BY <1>2, DevicesAreEndpoints DEF WorkOf, Works, Thinks
<1> QED BY <1>1, <1>4, <1>5, <1>6, <1>7, <1>8 DEF ProtocolInv

LEMMA StutterKeeps ==
  ASSUME ProtocolInv, TypeOK', UNCHANGED vars
  PROVE  ProtocolInv'
BY StayKeeps DEF vars, answers, addressing

(* A message that is delivered is taken for what its type says. *)
LEMMA DeliverKeeps ==
  ASSUME ProtocolInv, TypeOK', MastersBehave, NEW e \in Endpoints, Deliver(e)
  PROVE  ProtocolInv'
<1>1. ~DeliverStrayWriteResponse(e)
  BY NotStray
<1>2. CASE DeliverOwnStart(e) \/ DeliverForeignStart(e) \/ DeliverStartUnseen(e) \/ DeliverLostStart(e)
  BY <1>2, OwnStartKeeps, ForeignStartKeeps, StartUnseenKeeps, LostStartKeeps
<1>3. CASE DeliverPending(e) \/ DeliverRestartResponse(e) \/ DeliverBroadcastResponse(e) \/ DeliverPlainResponse(e)
  BY <1>3, PendingKeeps, RestartResponseKeeps, BroadcastResponseKeeps, PlainResponseKeeps
<1>4. CASE DeliverRequest(e) \/ DeliverReadResponse(e)
  BY <1>4, RequestKeeps, ReadResponseKeeps
<1>5. CASE DeliverWriteResponse(e) \/ DeliverBroadcastWriteResponse(e)
  BY <1>5, WriteResponseKeeps, BroadcastWriteResponseKeeps
<1>6. CASE DeliverStop(e)
  BY <1>6, StopTakenKeeps
<1> QED BY <1>1, <1>2, <1>3, <1>4, <1>5, <1>6 DEF Deliver

LEMMA NextKeeps ==
  ASSUME MastersBehave, ProtocolInv, [Next]_vars
  PROVE  ProtocolInv'
<1>1. TypeOK'
  BY NextType DEF ProtocolInv
<1>2. ASSUME NEW m \in Masters, Start(m) \/ Read(m) \/ Write(m) \/ Stop(m)
      PROVE  ProtocolInv'
  BY <1>1, <1>2, StartKeeps, ReadKeeps, WriteKeeps, StopKeeps
<1>3. ASSUME NEW s \in Slaves, SlaveAnswers(s)
      PROVE  ProtocolInv'
  BY <1>1, <1>3, AnswerStartKeeps, AnswerWriteKeeps, AnswerReadKeeps DEF SlaveAnswers
<1>4. ASSUME NEW e \in Endpoints, Deliver(e)
      PROVE  ProtocolInv'
  BY <1>1, <1>4, DeliverKeeps
<1>5. CASE Restore
  BY <1>1, <1>5, RestoreKeeps
<1>6. CASE UNCHANGED vars
  BY <1>1, <1>6, StutterKeeps
<1> QED BY <1>2, <1>3, <1>4, <1>5, <1>6 DEF Next, MasterCalls

(***************************************************************************)
(* The protocol is kept in every state, by all of the handlers and calls   *)
(* together.                                                               *)
(***************************************************************************)
THEOREM ProtocolKept ==
  ASSUME MastersBehave
  PROVE  Spec => []ProtocolInv
<1>1. Init => ProtocolInv
  BY InitKeeps
<1>2. ProtocolInv /\ [Next]_vars => ProtocolInv'
  BY NextKeeps
<1> QED BY <1>1, <1>2, PTL DEF Spec

----------------------------------------------------------------------------
(* What the protocol means for the masters and the slaves. *)

LEMMA ArbitrationHolds == ProtocolInv => OneMasterAtATime
<1> SUFFICES ASSUME ProtocolInv PROVE OneMasterAtATime
  OBVIOUS
<1>1. ASSUME NEW m \in Masters, device[m] \in InTransfer
      PROVE  \A d \in Devices : current_master[d] = m
  BY <1>1 DEF ProtocolInv, MasterOK, TransferOf
<1> QED BY <1>1 DEF OneMasterAtATime, Devices

LEMMA CountHolds == ProtocolInv => PendingExact
<1> SUFFICES ASSUME ProtocolInv, NEW m \in Masters, Selecting(m)
             PROVE  pending_slaves[m] = Cardinality({s \in Slaves \ {m} : OwesStart(s, m)})
  BY DEF PendingExact
<1>1. Selects(m)
  BY DEF Selecting, Selects, Asks, Asking
<1> QED BY <1>1 DEF ProtocolInv, MasterOK, SelectsOf, Owing

LEMMA PartnerExists ==
  ASSUME NEW m \in Masters, Partner(m)
  PROVE  /\ current_slave[m] \in Slaves \ {m} /\ current_slave[m] # None
         /\ current_master[current_slave[m]] = m
         /\ current_slave[current_slave[m]] = current_slave[m]
BY NoneIsNoMaster DEF Partner, Chosen, Serves

LEMMA CallsHold == MastersBehave /\ ProtocolInv => CallsAccepted
<1> SUFFICES ASSUME MastersBehave, ProtocolInv, NEW m \in Masters
             PROVE  /\ device[m] = "w" => /\ WriteIsValid(m)
                                          /\ slave_list[m] = <<>> => current_slave[m] # None
                    /\ device[m] = "r" => /\ current_master[m] = m /\ state[m] = "wait_req_r"
                                          /\ current_slave[m] # None
                    /\ device[m] = "nack" => state[m] \in {"wait_stop", "wait_req_w"}
                    /\ \A a \in Addresses : MayStart(m, a) => StartIsValid(m)
  BY DEF CallsAccepted
<1>1. MasterOK(m) /\ TransferOf(m) /\ RestOK /\ TypeOK /\ m \in Devices
  BY DEF ProtocolInv, MasterOK, Devices
<1>2. device[m] \in InTransfer => current_master[m] = m
  BY <1>1 DEF TransferOf
<1>3. ASSUME device[m] = "w"
      PROVE  WriteIsValid(m) /\ (slave_list[m] = <<>> => current_slave[m] # None)
  BY <1>1, <1>2, <1>3, PartnerExists DEF TransferOf, InTransfer, Accepting, WriteIsValid
<1>4. ASSUME device[m] = "r"
      PROVE  current_master[m] = m /\ state[m] = "wait_req_r" /\ current_slave[m] # None
  BY <1>1, <1>2, <1>4, PartnerExists DEF TransferOf, InTransfer
<1>5. ASSUME device[m] = "nack" PROVE state[m] \in {"wait_stop", "wait_req_w"}
  BY <1>1, <1>5 DEF TransferOf, InTransfer, Accepting
<1>6. ASSUME NEW a \in Addresses, MayStart(m, a) PROVE StartIsValid(m)
  <2>1. CASE device[m] \in {"r", "w", "nack"}
    BY <1>3, <1>4, <1>5, <2>1 DEF StartIsValid, WriteIsValid
  <2>2. CASE device[m] = "idle"
    <3>1. current_master[m] \in Masters \cup {None}
      BY <1>1 DEF ProtocolInv, Agree, AgreeAmong
    <3>2. current_master[m] \in {None, m}
      BY <1>6, <2>2, <3>1 DEF MayStart, MastersBehave
    <3>3. current_master[m] = None => state[m] = "idle"
      BY <1>1, <2>2 DEF RestOK, Asking
    <3>4. current_master[m] = m => state[m] \in {"wait_req_r", "wait_req_w", "wait_stop"}
      BY <1>1, <2>2 DEF RestOK
    <3> QED BY <3>2, <3>3, <3>4 DEF StartIsValid
  <2> QED BY <1>6, <2>1, <2>2 DEF MayStart
<1> QED BY <1>3, <1>4, <1>5, <1>6

(* Two messages between a master and a slave are the announcement of an    *)
(* answer and the answer.                                                  *)
LEMMA OneMessageBetween ==
  ASSUME QueueOK(net), NEW m \in Masters, NEW s \in Slaves \ {m},
         NEW i \in 1..Len(net), NEW j \in 1..Len(net), i # j,
         Between(net[i], m, s), Between(net[j], m, s)
  PROVE  "start_response_pending" \in {net[i].type, net[j].type}
<1>1. CASE i < j
  BY <1>1 DEF QueueOK, Ordered
<1>2. CASE j < i
  BY <1>2 DEF QueueOK, Ordered
<1> QED BY <1>1, <1>2

(* A transfer is asked or answered by one message at a time. *)
LEMMA NotBoth ==
  ASSUME ProtocolInv, NEW m \in Masters, NEW s \in Slaves \ {m},
         NEW t \in {"read_request", "write_request"}, NEW u \in {"read_response", "write_response"}
  PROVE  ~(InFlight(t, m, s) /\ InFlight(u, s, m))
<1> SUFFICES ASSUME InFlight(t, m, s), InFlight(u, s, m) PROVE FALSE
  OBVIOUS
<1>1. QueueOK(net) /\ TypeOK /\ Len(net) \in Nat
  BY LenProperties DEF ProtocolInv, TypeOK
<1>2. PICK i \in DOMAIN net : net[i].type = t /\ net[i].src = m /\ s \in net[i].to
  BY DEF InFlight
<1>3. PICK j \in DOMAIN net : net[j].type = u /\ net[j].src = s /\ m \in net[j].to
  BY DEF InFlight
<1>4. i \in 1..Len(net) /\ j \in 1..Len(net) /\ i # j
  BY <1>1, <1>2, <1>3, LenProperties DEF TypeOK
<1>5. ASSUME NEW k \in 1..Len(net), ~Shared(net[k])
      PROVE  \E n \in Masters : \E r \in Slaves \ {n} : Between(net[k], n, r)
  BY <1>1, <1>5 DEF QueueOK, Shaped
<1>6. Between(net[i], m, s)
  <2>1. ~Shared(net[i]) /\ FromMaster(net[i]) /\ ~FromSlave(net[i])
    BY <1>2 DEF Shared, SharedStart, FromMaster, FromSlave, Restarts
  <2> QED BY <1>2, <1>4, <1>5, <2>1 DEF Between
<1>7. Between(net[j], m, s)
  <2>1. ~Shared(net[j]) /\ ~FromMaster(net[j]) /\ FromSlave(net[j])
    BY <1>3 DEF Shared, SharedStart, FromMaster, FromSlave, Restarts
  <2> QED BY <1>3, <1>4, <1>5, <2>1 DEF Between
<1>8. "start_response_pending" \in {net[i].type, net[j].type}
  BY <1>1, <1>4, <1>6, <1>7, OneMessageBetween
<1> QED BY <1>2, <1>3, <1>8

LEMMA PlacesHold == ProtocolInv => TransferInOnePlace
<1> SUFFICES ASSUME ProtocolInv, NEW m \in Masters
             PROVE  /\ device[m] = "read" => InOnePlace(m, "read_request", "wait_rsp_r", "read_response")
                    /\ device[m] = "write" /\ slave_list[m] = <<>> =>
                         InOnePlace(m, "write_request", "wait_rsp_w", "write_response")
                    /\ device[m] = "write" /\ slave_list[m] # <<>> =>
                         slave_list_counter[m] = Cardinality({s \in Slaves \ {m} : OwesWrite(s, m)})
  BY DEF TransferInOnePlace
<1>1. TransferOf(m) /\ m \in Devices
  BY DEF ProtocolInv, MasterOK, Devices
<1>2. device[m] \in InTransfer => current_master[m] = m
  BY <1>1 DEF TransferOf
<1>3. ASSUME device[m] = "read"
      PROVE  InOnePlace(m, "read_request", "wait_rsp_r", "read_response")
  <2>1. PICK s : s = current_slave[m]
    OBVIOUS
  <2>2. Reads(m) /\ Partner(m) /\ current_master[m] = m
    BY <1>1, <1>2, <1>3 DEF TransferOf, InTransfer, Reads
  <2>3. s \in Slaves \ {m} /\ s # None /\ current_master[s] = m /\ current_slave[s] = s
    BY <2>1, <2>2, PartnerExists
  <2>4. InFlight("read_request", m, s) \/ state[s] = "wait_rsp_r" \/ InFlight("read_response", s, m)
    BY <2>1, <2>2 DEF Reads
  <2>5. ~(InFlight("read_request", m, s) /\ InFlight("read_response", s, m))
    BY <2>3, NotBoth
  <2>6. state[s] = "wait_rsp_r" => ~InFlight("read_request", m, s) /\ ~InFlight("read_response", s, m)
    BY <2>3 DEF ProtocolInv, WorkOf, Works
  <2>7. Partners(m, s)
    BY <2>1, <2>2, <2>3 DEF Partners
  <2> QED BY <2>1, <2>4, <2>5, <2>6, <2>7 DEF InOnePlace, ExactlyOne
<1>4. ASSUME device[m] = "write", slave_list[m] = <<>>
      PROVE  InOnePlace(m, "write_request", "wait_rsp_w", "write_response")
  <2>1. PICK s : s = current_slave[m]
    OBVIOUS
  <2>2. Writes(m) /\ Partner(m) /\ current_master[m] = m
    BY <1>1, <1>2, <1>4 DEF TransferOf, InTransfer, Writes
  <2>3. s \in Slaves \ {m} /\ s # None /\ current_master[s] = m /\ current_slave[s] = s
    BY <2>1, <2>2, PartnerExists
  <2>4. InFlight("write_request", m, s) \/ state[s] = "wait_rsp_w" \/ InFlight("write_response", s, m)
    BY <2>1, <2>2 DEF Writes, OwesWrite
  <2>5. ~(InFlight("write_request", m, s) /\ InFlight("write_response", s, m))
    BY <2>3, NotBoth
  <2>6. state[s] = "wait_rsp_w" => ~InFlight("write_request", m, s) /\ ~InFlight("write_response", s, m)
    BY <2>3 DEF ProtocolInv, WorkOf, Works
  <2>7. Partners(m, s)
    BY <2>1, <2>2, <2>3 DEF Partners
  <2> QED BY <2>1, <2>4, <2>5, <2>6, <2>7 DEF InOnePlace, ExactlyOne
<1>5. ASSUME device[m] = "write", slave_list[m] # <<>>
      PROVE  slave_list_counter[m] = Cardinality({s \in Slaves \ {m} : OwesWrite(s, m)})
  <2>1. WritesToAll(m)
    BY <1>1, <1>5 DEF TransferOf, InTransfer
  <2> QED BY <2>1 DEF WritesToAll, Writing
<1> QED BY <1>3, <1>4, <1>5

(* The list of the receivers holds them all, and each of them once. *)
LEMMA ReceiversHold == ProtocolInv => ReceiversExact
<1> SUFFICES ASSUME ProtocolInv, NEW m \in Masters, device[m] = "w", slave_list[m] # <<>>
             PROVE  /\ ToSet(slave_list[m]) = {s \in Slaves \ {m} : Addressed(s, m)}
                    /\ IsInjective(slave_list[m])
  BY DEF ReceiversExact
<1>1. PICK l : l = slave_list[m]
  OBVIOUS
<1>2. TypeOK /\ m \in Endpoints /\ TransferOf(m) /\ m \in Devices
  BY DevicesAreEndpoints DEF ProtocolInv, MasterOK, Devices
<1>3. l \in Seq(Endpoints \cup {None}) /\ DOMAIN l = 1..Len(l)
  BY <1>1, <1>2, LenProperties DEF TypeOK
<1>4. Receiving(m) /\ AllReceive(m)
  BY <1>2 DEF TransferOf, InTransfer, Accepting
<1>5. /\ \A i \in 1..Len(l) : l[i] \in Slaves \ {m} /\ Addressed(l[i], m)
      /\ \A i, j \in 1..Len(l) : l[i] = l[j] => i = j
  BY <1>1, <1>4 DEF Receiving, Chosen, Serves, Addressed
<1>6. \A s \in Slaves \ {m} : Addressed(s, m) => \E i \in 1..Len(l) : l[i] = s
  BY <1>1, <1>4 DEF AllReceive, InList, Chosen, Serves, Addressed
<1>7. ToSet(l) = {s \in Slaves \ {m} : Addressed(s, m)}
  BY <1>3, <1>5, <1>6 DEF ToSet
<1>8. IsInjective(l)
  BY <1>3, <1>5 DEF IsInjective
<1> QED BY <1>1, <1>7, <1>8

(* Where the first message comes from when it is private, and what its     *)
(* master and its slave are doing.                                         *)
LEMMA HeadOf ==
  ASSUME ProtocolInv, NEW e \in Endpoints, NEW T, Receives(e, T),
         T \in {"read_request", "write_request", "start_response", "read_response", "write_response"}
  PROVE  \E m \in Masters : \E s \in Slaves \ {m} :
           /\ current_master[m] = m /\ current_master[s] = m /\ MasterOK(m) /\ PrivateOf(m, s)
           /\ IF T \in {"read_request", "write_request"}
              THEN Head(net).src = m /\ e = s /\ InFlight(T, m, s)
              ELSE Head(net).src = s /\ e = m /\ InFlight(T, s, m)
           /\ T = "start_response" => Answering(T, m, s)
<1>1. PICK X : X = Head(net).src
  OBVIOUS
<1>2. PICK m \in Masters : \E s \in Slaves \ {m} :
           /\ Visits(T, X, e, m, s) /\ Alone(T, m, s)
           /\ Lead(m) /\ \A d \in Devices : current_master[d] = m
           /\ \E a : OnWay(T, X, a, e) /\ a = Head(net).status
  BY <1>1, HeadPrivate
<1>3. PICK s \in Slaves \ {m} :
           /\ Visits(T, X, e, m, s) /\ Alone(T, m, s)
           /\ Lead(m) /\ \A d \in Devices : current_master[d] = m
           /\ \E a : OnWay(T, X, a, e) /\ a = Head(net).status
  BY <1>2
<1>4. TypeOK /\ MasterOK(m) /\ PrivateOf(m, s) /\ m \in Devices /\ s \in Devices
  BY DEF ProtocolInv, Devices
<1>5. current_master[m] = m /\ current_master[s] = m /\ InFlight(T, X, e)
  BY <1>3, <1>4, InFlightOnWay
<1>6. IF T \in {"read_request", "write_request"}
      THEN Head(net).src = m /\ e = s /\ InFlight(T, m, s)
      ELSE Head(net).src = s /\ e = m /\ InFlight(T, s, m)
  BY <1>1, <1>3, <1>5 DEF Visits
<1>7. T = "start_response" => Answering(T, m, s)
  BY <1>3, <1>6 DEF Answering, Visits
<1> QED BY <1>4, <1>5, <1>6, <1>7

LEMMA RequestHolds ==
  ASSUME ProtocolInv, NEW e \in Endpoints
  PROVE  RequestAsserts(e) /\ ReadResponseAsserts(e)
<1>1. ASSUME NEW T \in {"read_request", "write_request"}, Receives(e, T)
      PROVE  current_master[e] = Head(net).src /\ current_slave[e] = e
  <2>1. PICK m \in Masters : \E s \in Slaves \ {m} :
           /\ current_master[m] = m /\ current_master[s] = m /\ MasterOK(m) /\ PrivateOf(m, s)
           /\ Head(net).src = m /\ e = s /\ InFlight(T, m, s)
    BY <1>1, HeadOf
  <2>2. PICK s \in Slaves \ {m} :
           /\ current_master[m] = m /\ current_master[s] = m /\ MasterOK(m) /\ PrivateOf(m, s)
           /\ Head(net).src = m /\ e = s /\ InFlight(T, m, s)
    BY <2>1
  <2>3. CASE T = "read_request"
    <3>1. device[m] = "read" /\ s = current_slave[m]
      BY <2>2, <2>3 DEF PrivateOf
    <3>2. Partner(m)
      BY <2>2, <3>1 DEF MasterOK, TransferOf, InTransfer, Reads
    <3> QED BY <2>2, <3>1, <3>2, PartnerExists
  <2>4. CASE T = "write_request"
    <3>1. device[m] = "write" /\ Written(m, s)
      BY <2>2, <2>4 DEF PrivateOf
    <3>2. IF slave_list[m] = <<>> THEN Writes(m) ELSE WritesToAll(m)
      BY <2>2, <3>1 DEF MasterOK, TransferOf, InTransfer
    <3>3. CASE slave_list[m] = <<>>
      BY <2>2, <3>1, <3>2, <3>3, PartnerExists DEF Writes, Written
    <3>4. CASE slave_list[m] # <<>>
      BY <2>2, <3>1, <3>2, <3>4 DEF WritesToAll, Written, Receiving, InList, Chosen
    <3> QED BY <3>3, <3>4
  <2> QED BY <2>3, <2>4
<1>2. ASSUME Receives(e, "read_response")
      PROVE  current_master[e] = e /\ current_slave[e] = Head(net).src
  <2>1. PICK m \in Masters : \E s \in Slaves \ {m} :
           /\ current_master[m] = m /\ current_master[s] = m /\ MasterOK(m) /\ PrivateOf(m, s)
           /\ Head(net).src = s /\ e = m /\ InFlight("read_response", s, m)
    BY <1>2, HeadOf
  <2> QED BY <2>1 DEF PrivateOf
<1> QED BY <1>1, <1>2 DEF RequestAsserts, ReadResponseAsserts

LEMMA WriteResponseHolds ==
  ASSUME ProtocolInv, NEW e \in Endpoints
  PROVE  WriteResponseAsserts(e)
<1> SUFFICES ASSUME Receives(e, "write_response")
             PROVE  /\ current_master[e] = e
                    /\ IF Broadcasting(e)
                       THEN /\ slave_list_counter[e] > 0
                            /\ state[e] = "wait_rsp_10bit_addr_w" /\ slave_list_counter[e] = 1
                               /\ Head(net).status = NOACK /\ Len(slave_list[e]) = 1
                               => slave_list_ack[e] = NOACK
                       ELSE current_slave[e] = Head(net).src /\ slave_list_counter[e] = 0
  BY DEF WriteResponseAsserts
<1>1. /\ e \in Masters
      /\ \E s \in Slaves \ {e} :
           /\ current_master[e] = e /\ current_master[s] = e /\ MasterOK(e) /\ PrivateOf(e, s)
           /\ Head(net).src = s /\ InFlight("write_response", s, e)
  BY HeadOf
<1>2. PICK s \in Slaves \ {e} :
           /\ current_master[e] = e /\ current_master[s] = e /\ MasterOK(e) /\ PrivateOf(e, s)
           /\ Head(net).src = s /\ InFlight("write_response", s, e)
  BY <1>1
<1>3. device[e] = "write" /\ Written(e, s) /\ s \in Writing(e)
  BY <1>2 DEF PrivateOf, Writing, OwesWrite
<1>4. (slave_list[e] # <<>> => Broadcasting(e))
      /\ IF slave_list[e] = <<>> THEN Writes(e) ELSE WritesToAll(e)
  BY <1>2, <1>3 DEF MasterOK, TransferOf, ListsOf, InTransfer
<1>5. CASE ~Broadcasting(e)
  BY <1>2, <1>3, <1>4, <1>5 DEF Writes, Written
<1>6. CASE Broadcasting(e)
  <2>1. WritesToAll(e) /\ InList(s, e)
    BY <1>3, <1>4, <1>6 DEF Writes, Written
  <2>2. slave_list_counter[e] > 0
    <3>1. PICK S : S = Writing(e)
      OBVIOUS
    <3>2. S \in SUBSET Slaves /\ s \in S
      BY <1>3, <3>1 DEF Writing
    <3>3. PICK R : R = S \ {s}
      OBVIOUS
    <3>4. Cardinality(S) \in Nat /\ Cardinality(S) >= 1
      BY <3>2, <3>3, OneFewer
    <3> QED BY <2>1, <3>1, <3>4 DEF WritesToAll
  <2>3. ASSUME state[e] = "wait_rsp_10bit_addr_w", Len(slave_list[e]) = 1
        PROVE  slave_list_ack[e] = NOACK
    <3>1. Is10bit(address_pattern[e])
      BY <2>1, <2>3 DEF WritesToAll
    <3>2. \A t : InList(t, e) => t = s
      BY <2>1, <2>3 DEF InList
    <3>3. slave_list_ack[e] # ACK
      BY <1>3, <2>1, <3>1, <3>2 DEF WritesToAll
    <3> QED BY <3>3, DevicesAreEndpoints DEF ProtocolInv, TypeOK
  <2> QED BY <1>2, <1>6, <2>2, <2>3
<1> QED BY <1>5, <1>6

LEMMA StartResponseHolds ==
  ASSUME ProtocolInv, NEW e \in Endpoints
  PROVE  StartResponseAsserts(e)
<1> SUFFICES ASSUME Receives(e, "start_response")
             PROVE  /\ AnswersRestart(e) =>
                         /\ pending_slaves[e] = 1
                         /\ Head(net).status = NOACK => current_slave[e] = None
                    /\ Broadcasting(e) /\ ~AnswersRestart(e) /\ Head(net).status = ACK =>
                         current_slave[e] = None
                    /\ /\ ~Broadcasting(e) /\ pending_slaves[e] = 1
                       /\ current_slave[e] = None /\ Head(net).status = NOACK
                       => RemoveFirst(pending_start_responses[e], Head(net).src) = <<>>
  BY DEF StartResponseAsserts
<1>1. /\ e \in Masters
      /\ \E s \in Slaves \ {e} : Head(net).src = s /\ Answering("start_response", e, s)
  BY HeadOf
<1>2. PICK s \in Slaves \ {e} : Head(net).src = s /\ Answering("start_response", e, s)
  BY <1>1
<1>3. Selects(e) /\ SelectsOf(e) /\ LateOf(e) /\ TypeOK
  BY <1>1, <1>2, AnswersSelect DEF MasterOK, ProtocolInv
<1>4. Broadcasting(e) => current_slave[e] = None
  BY <1>3 DEF SelectsOf
<1>5. AnswersRestart(e) => pending_slaves[e] = 1
  BY <1>3, <1>4 DEF SelectsOf, AnswersRestart
<1>6. ASSUME pending_slaves[e] = 1
      PROVE  RemoveFirst(pending_start_responses[e], s) = <<>>
  <2>1. PICK S : S = Owing(e)
    OBVIOUS
  <2>2. S \in SUBSET Slaves /\ s \in S
    BY <1>1, <1>2, <2>1 DEF Owing, OwesStart, Answering
  <2>3. PICK R : R = S \ {s}
    OBVIOUS
  <2>4. R = {}
    BY <1>3, <1>6, <2>1, <2>2, <2>3, OneFewer DEF SelectsOf
  <2>5. PICK q : q = pending_start_responses[e]
    OBVIOUS
  <2>6. PICK r : r = RemoveFirst(q, s)
    OBVIOUS
  <2>7. q \in Seq(Endpoints) /\ Distinct(q)
    BY <1>3, <2>5 DEF LateOf, TypeOK
  <2>8. r \in Seq(Endpoints) /\ Len(r) \in Nat /\ \A y : Has(r, y) <=> Has(q, y) /\ y # s
    BY <2>6, <2>7, RemoveFirstKeeps
  <2>9. \A y : Has(q, y) => y \in Slaves \ {e}
    BY <1>3, <2>5 DEF LateOf, Has
  <2>10. \A y \in Slaves \ {e} : Has(q, y) => y \in S
    <3>1. ASSUME NEW y \in Slaves \ {e}, Has(q, y) PROVE LateAnswer(y, e)
      BY <1>3, <2>5, <3>1 DEF LateOf
    <3> QED BY <2>1, <3>1 DEF LateAnswer, Thinks, Owing, OwesStart
  <2>11. \A i \in 1..Len(r) : FALSE
    BY <2>3, <2>4, <2>8, <2>9, <2>10 DEF Has
  <2> QED BY <2>5, <2>6, <2>8, <2>11, EmptySeq
<1>7. AnswersRestart(e) => Broadcasting(e)
  BY DEF AnswersRestart
<1> QED BY <1>2, <1>4, <1>5, <1>6, <1>7

LEMMA AssertsFollow == ProtocolInv => AssertsHold
BY RequestHolds, WriteResponseHolds, StartResponseHolds DEF AssertsHold

----------------------------------------------------------------------------
(* The properties of the link, in every state. *)

(***************************************************************************)
(* Arbitration: il_start answers a master ACK or NOACK only while no other *)
(* master has the bus, and until the stop of the one that has it has       *)
(* reached all endpoints.                                                  *)
(***************************************************************************)
THEOREM ArbitrationAlways ==
  ASSUME MastersBehave
  PROVE  Spec => []OneMasterAtATime
<1> QED BY ProtocolKept, ArbitrationHolds, PTL

(***************************************************************************)
(* pending_slaves counts the answers to a start that are still to come: a  *)
(* master is answered neither too early nor never.                         *)
(***************************************************************************)
THEOREM CountAlways ==
  ASSUME MastersBehave
  PROVE  Spec => []PendingExact
<1> QED BY ProtocolKept, CountHolds, PTL

(***************************************************************************)
(* The guards of il_start, il_read and il_write never turn down a master   *)
(* that calls them in the order that the answers allow.                    *)
(***************************************************************************)
THEOREM CallsAlways ==
  ASSUME MastersBehave
  PROVE  Spec => []CallsAccepted
<1>1. ProtocolInv => CallsAccepted
  BY CallsHold
<1> QED BY <1>1, ProtocolKept, PTL

(***************************************************************************)
(* A read or a write is with the slave or on the way there or back, and in *)
(* one of these places only; slave_list_counter counts those of a          *)
(* broadcast that are not back.                                            *)
(***************************************************************************)
THEOREM PlacesAlways ==
  ASSUME MastersBehave
  PROVE  Spec => []TransferInOnePlace
<1> QED BY ProtocolKept, PlacesHold, PTL

(***************************************************************************)
(* What is written to a broadcast address reaches the slaves that          *)
(* acknowledged it, each of them once, and no others.                      *)
(***************************************************************************)
THEOREM ReceiversAlways ==
  ASSUME MastersBehave
  PROVE  Spec => []ReceiversExact
<1> QED BY ProtocolKept, ReceiversHold, PTL

(***************************************************************************)
(* No ASSERT of deliver fails.                                             *)
(***************************************************************************)
THEOREM AssertsAlways ==
  ASSUME MastersBehave
  PROVE  Spec => []AssertsHold
<1> QED BY ProtocolKept, AssertsFollow, PTL

----------------------------------------------------------------------------
(* The arbiter that the link implements: its owner is that of the          *)
(* endpoints which the first message has reached.                          *)

EndpointsAgree == AgreeAmong(Endpoints, net, current_master)

(* The endpoint names the owner that the arbiter has. *)
Stands(q, e) == Behind(q, e) => \A f \in Endpoints : Behind(q, f)

Tells(q, e) == q # <<>> /\ e \in Head(q).to /\ Head(q).type \in {"start_request", "stop"}

LEMMA StandsAgree ==
  ASSUME NEW q, NEW owner, AgreeAmong(Endpoints, q, owner), NEW e \in Endpoints, Stands(q, e),
         NEW x \in Endpoints, (\E f \in Endpoints : ~Tells(q, f)) => ~Tells(q, x)
  PROVE  owner[x] = owner[e]
<1>1. CASE Behind(q, x) <=> Behind(q, e)
  BY <1>1 DEF AgreeAmong
<1>2. CASE Behind(q, x) /\ ~Behind(q, e)
  <2>1. Tells(q, x) /\ ~Tells(q, e)
    BY <1>2 DEF Tells, Behind, Shared, SharedStart
  <2> QED BY <2>1
<1>3. CASE Behind(q, e) /\ ~Behind(q, x)
  BY <1>3 DEF Stands
<1> QED BY <1>1, <1>2, <1>3

LEMMA OwnerStands ==
  ASSUME EndpointsAgree, NEW e \in Endpoints, Stands(net, e)
  PROVE  Owner = current_master[e]
<1>1. PICK x : x = CHOOSE y \in Endpoints : Ahead # {} => y \in Ahead
  OBVIOUS
<1>2. \E y \in Endpoints : Ahead # {} => y \in Ahead
  BY DEF Ahead
<1>3. x \in Endpoints /\ (Ahead # {} => x \in Ahead)
  BY <1>1, <1>2
<1>4. \A f \in Endpoints : f \in Ahead <=> ~Tells(net, f)
  BY DEF Ahead, OwnerPending, Receives, Tells
<1>5. Owner = current_master[x]
  BY <1>1 DEF Owner
<1>6. (\E f \in Endpoints : ~Tells(net, f)) => ~Tells(net, x)
  BY <1>3, <1>4
<1> QED BY <1>3, <1>5, <1>6, StandsAgree DEF EndpointsAgree

LEMMA OwnerStandsNext ==
  ASSUME NEW q, q = net', NEW owner, owner = current_master', AgreeAmong(Endpoints, q, owner),
         NEW e \in Endpoints, Stands(q, e)
  PROVE  Owner' = owner[e]
<1>1. PICK x : x = CHOOSE y \in Endpoints : Ahead' # {} => y \in Ahead'
  OBVIOUS
<1>2. \E y \in Endpoints : Ahead' # {} => y \in Ahead'
  BY DEF Ahead
<1>3. x \in Endpoints /\ (Ahead' # {} => x \in Ahead')
  BY <1>1, <1>2
<1>4. \A f \in Endpoints : f \in Ahead' <=> ~Tells(q, f)
  BY DEF Ahead, OwnerPending, Receives, Tells
<1>5. Owner' = owner[x]
  BY <1>1 DEF Owner
<1>6. (\E f \in Endpoints : ~Tells(q, f)) => ~Tells(q, x)
  BY <1>3, <1>4
<1> QED BY <1>3, <1>5, <1>6, StandsAgree

(* A queue that has grown at its end. *)
Extends(q, r) ==
  /\ q \in Seq(Messages) /\ r \in Seq(Messages)
  /\ q # <<>> => r # <<>> /\ Head(r) = Head(q)
  /\ q = <<>> /\ r # <<>> /\ Shared(Head(r)) => Head(r).to = Endpoints

LEMMA ExtendsItself == \A q \in Seq(Messages) : Extends(q, q)
BY DEF Extends

LEMMA ExtendsBySend ==
  ASSUME NEW q \in Seq(Messages), NEW msg \in Messages, Shared(msg) => msg.to = Endpoints
  PROVE  Extends(q, Append(q, msg))
<1> DEFINE r == Append(q, msg)
<1>1. /\ r \in Seq(Messages) /\ Len(r) = Len(q) + 1 /\ r[Len(r)] = msg /\ Len(q) \in Nat
      /\ \A i \in 1..Len(q) : r[i] = q[i]
  BY Sent
<1> HIDE DEF r
<1>2. r # <<>> /\ Head(r) = r[1]
  BY <1>1, HeadTailProperties, EmptySeq
<1>3. CASE q = <<>>
  BY <1>1, <1>2, <1>3 DEF Extends, r
<1>4. CASE q # <<>>
  <2>1. Head(q) = q[1] /\ Len(q) >= 1
    BY <1>1, <1>4, HeadTailProperties, EmptySeq
  <2> QED BY <1>1, <1>2, <1>4, <2>1 DEF Extends, r
<1> QED BY <1>3, <1>4

LEMMA ExtendsByUnicast ==
  ASSUME NEW q \in Seq(Messages), NEW type \in MessageTypes \ {"stop"}, NEW src \in Endpoints,
         NEW dst \in Endpoints \cup {None}, NEW status \in 0..255,
         type = "start_request" => Is10bitRead(status)
  PROVE  Extends(q, Unicast(q, type, src, dst, status))
<1>1. CASE dst = None
  BY <1>1, ExtendsItself DEF Unicast
<1>2. CASE dst # None
  <2>1. dst \in Endpoints
    BY <1>2
  <2>2. PICK msg \in Messages :
           /\ msg.type = type /\ msg.src = src /\ msg.to = {dst} /\ msg.status = status
           /\ Unicast(q, type, src, dst, status) = Append(q, msg)
    <3>1. Appends(q, type, src, status, dst)
      BY <2>1, UnicastAppends
    <3> QED BY <3>1 DEF Appends
  <2>3. ~Shared(msg)
    BY <2>2 DEF Shared, SharedStart
  <2> QED BY <2>2, <2>3, ExtendsBySend
<1> QED BY <1>1, <1>2

LEMMA ExtendsByBroadcast ==
  ASSUME NEW q \in Seq(Messages), NEW type \in MessageTypes, NEW src \in Endpoints, NEW status \in 0..255
  PROVE  Extends(q, Broadcast(q, type, src, status))
<1>1. PICK msg : msg = Message(type, src, Endpoints, status)
  OBVIOUS
<1>2. msg \in Messages /\ msg.to = Endpoints
  <2>1. Endpoints \subseteq Endpoints \cup {None} /\ Endpoints # {}
    OBVIOUS
  <2> QED BY <1>1, <2>1, MessageType DEF Message
<1> QED BY <1>1, <1>2, ExtendsBySend DEF Broadcast

LEMMA ExtendedAgrees ==
  ASSUME NEW q, NEW r, Extends(q, r), NEW owner, AgreeAmong(Endpoints, q, owner)
  PROVE  AgreeAmong(Endpoints, r, owner)
<1>1. CASE q = <<>>
  <2>1. \A d, f \in Endpoints : Behind(r, d) <=> Behind(r, f)
    BY <1>1 DEF Extends, Behind
  <2>2. \A d, f \in Endpoints : owner[d] = owner[f]
    BY <1>1 DEF AgreeAmong, Behind
  <2> QED BY <2>1, <2>2 DEF AgreeAmong
<1>2. CASE q # <<>>
  <2>1. Head(r) = Head(q) /\ \A d : Behind(r, d) <=> Behind(q, d)
    BY <1>2 DEF Extends, Behind
  <2> QED BY <2>1 DEF AgreeAmong
<1> QED BY <1>1, <1>2

LEMMA ExtendedStands ==
  ASSUME NEW q, NEW r, Extends(q, r), NEW e \in Endpoints, Stands(q, e)
  PROVE  Stands(r, e)
<1>1. CASE q = <<>>
  BY <1>1 DEF Extends, Stands, Behind
<1>2. CASE q # <<>>
  <2>1. \A d : Behind(r, d) <=> Behind(q, d)
    BY <1>2 DEF Extends, Behind
  <2> QED BY <2>1 DEF Stands
<1> QED BY <1>1, <1>2

LEMMA SomeStands ==
  ASSUME NEW q, NEW e \in Endpoints
  PROVE  \E f \in Endpoints : Stands(q, f)
BY DEF Stands

LEMMA AgreeAmongKept ==
  ASSUME NEW q, net' = q, AgreeAmong(Endpoints, q, current_master')
  PROVE  EndpointsAgree'
BY DEF EndpointsAgree, AgreeAmong, Behind, Shared, SharedStart, OwnerAfter, Is10bitRead

(* A step that only sends leaves the owner. *)
LEMMA OwnerSends ==
  ASSUME EndpointsAgree, current_master' = current_master, NEW r, net' = r, Extends(net, r),
         NEW m \in Endpoints
  PROVE  EndpointsAgree' /\ Owner' = Owner
<1>1. AgreeAmong(Endpoints, r, current_master)
  BY ExtendedAgrees DEF EndpointsAgree
<1>2. EndpointsAgree'
  <2>1. AgreeAmong(Endpoints, r, current_master')
    BY <1>1
  <2> QED BY <2>1, AgreeAmongKept
<1>3. PICK f \in Endpoints : Stands(net, f)
  BY SomeStands
<1>4. Stands(r, f)
  BY <1>3, ExtendedStands
<1>5. Owner = current_master[f]
  BY <1>3, OwnerStands
<1>6. Owner' = current_master[f]
  BY <1>1, <1>4, OwnerStandsNext
<1> QED BY <1>2, <1>5, <1>6

LEMMA TakerStands ==
  ASSUME TypeOK, QueueOK(net), NEW e \in Endpoints, net # <<>>, e \in Head(net).to,
         NEW q, q = Taken(e)
  PROVE  Stands(q, e)
<1>1. /\ net \in Seq(Messages) /\ Len(net) \in Nat /\ Len(net) >= 1 /\ Head(net) = net[1]
  BY Heads
<1>2. q \in Seq(Messages) /\ Len(q) \in Nat
  BY TakenIs
<1>3. CASE Head(net).to = {e}
  <2>1. Len(q) = Len(net) - 1 /\ \A i \in 1..Len(q) : q[i] = net[i + 1]
    BY <1>3, TakenIs
  <2> SUFFICES ASSUME q # <<>>, Shared(Head(q)) PROVE \A f \in Endpoints : Behind(q, f)
    BY DEF Stands, Behind
  <2>2. Head(q) = q[1] /\ Len(q) >= 1
    BY <1>2, HeadTailProperties, EmptySeq
  <2>3. Head(q) = net[2] /\ 2 \in 1..Len(net) /\ 2 > 1
    BY <1>1, <2>1, <2>2
  <2>4. Head(q).to = Endpoints
    BY <2>3 DEF QueueOK
  <2> QED BY <2>4 DEF Behind
<1>4. CASE Head(net).to # {e}
  <2>1. Len(q) = Len(net) /\ q[1].to = net[1].to \ {e}
    BY <1>4, TakenIs
  <2>2. Head(q) = q[1]
    BY <1>1, <1>2, <2>1, HeadTailProperties, EmptySeq
  <2> QED BY <2>1, <2>2 DEF Stands, Behind
<1> QED BY <1>3, <1>4

(* The owner changes when the first endpoint takes a start or a stop. *)
LEMMA OwnerTakes ==
  ASSUME TypeOK, QueueOK(net), EndpointsAgree, NEW e \in Endpoints,
         net # <<>>, e \in Head(net).to, NEW q, q = Taken(e), NEW r, net' = r, Extends(q, r),
         NEW owner, owner = current_master', \A d \in Endpoints \ {e} : owner[d] = current_master[d],
         owner[e] = IF Shared(Head(net)) THEN OwnerAfter(current_master[e], Head(net)) ELSE current_master[e]
  PROVE  EndpointsAgree' /\ Owner' = owner[e] /\ Owner \in {current_master[e], owner[e]}
<1>1. AgreeAmong(Endpoints, q, owner)
  BY AgreeAmongTaken DEF EndpointsAgree
<1>2. AgreeAmong(Endpoints, r, owner)
  BY <1>1, ExtendedAgrees
<1>3. EndpointsAgree'
  <2>1. AgreeAmong(Endpoints, r, current_master')
    BY <1>2
  <2> QED BY <2>1, AgreeAmongKept
<1>4. Stands(r, e)
  BY TakerStands, ExtendedStands
<1>5. Owner' = owner[e]
  BY <1>2, <1>4, OwnerStandsNext
<1>6. CASE Stands(net, e)
  BY <1>6, OwnerStands, <1>3, <1>5
<1>7. CASE ~Stands(net, e)
  <2>1. Behind(net, e) /\ Shared(Head(net))
    BY <1>7 DEF Stands, Behind
  <2>2. PICK f \in Endpoints : ~Behind(net, f)
    BY <1>7 DEF Stands
  <2>3. Owner = current_master[f]
    BY <2>2, OwnerStands DEF Stands
  <2>4. current_master[f] = OwnerAfter(current_master[e], Head(net))
    BY <2>1, <2>2 DEF EndpointsAgree, AgreeAmong
  <2> QED BY <1>3, <1>5, <2>1, <2>3, <2>4
<1> QED BY <1>6, <1>7

(* What the arbiter sees of a master. *)
Kind(d) == IF d = "idle" THEN "idle" ELSE IF d \in Asking THEN "asking" ELSE "using"

LEMMA ClientIs == Client = [m \in Masters |-> Kind(device[m])] /\ Client' = [m \in Masters |-> Kind(device'[m])]
BY DEF Client, Kind, Asking

LEMMA ClientStays ==
  ASSUME \A m \in Masters : Kind(device'[m]) = Kind(device[m])
  PROVE  Client' = Client
BY ClientIs

LEMMA ClientMoves ==
  ASSUME NEW m \in Masters, \A n \in Masters \ {m} : device'[n] = device[n],
         NEW to, Kind(device'[m]) = to
  PROVE  Client' = [Client EXCEPT ![m] = to] /\ Client[m] = Kind(device[m])
<1>1. /\ \A n \in Masters : Client[n] = Kind(device[n]) /\ Client'[n] = Kind(device'[n])
      /\ Client = [n \in Masters |-> Client[n]] /\ Client' = [n \in Masters |-> Client'[n]]
  BY ClientIs
<1>2. \A n \in Masters : Client'[n] = IF n = m THEN to ELSE Client[n]
  BY <1>1
<1> QED BY <1>1, <1>2

----------------------------------------------------------------------------
(* Every call and every answer is a step of the arbiter, or none. *)

Refines == EndpointsAgree' /\ [Bus!Next]_(Bus!busVars)

LEMMA RefinesIfStill ==
  ASSUME EndpointsAgree', Owner' = Owner, Client' = Client
  PROVE  Refines
BY DEF Refines, Bus!busVars

LEMMA RefinesIfDone ==
  ASSUME EndpointsAgree', NEW m \in Masters,
         Bus!Ask(m) \/ Bus!Win(m) \/ Bus!WinUnanswered(m) \/ Bus!Lose(m) \/ Bus!Answer(m)
           \/ Bus!Finish(m) \/ Bus!Release(m)
  PROVE  Refines
BY DEF Refines, Bus!Next

(* The master that its own endpoint names has the bus until it stops. *)
LEMMA UserOwns ==
  ASSUME ProtocolInv, EndpointsAgree, NEW m \in Masters, current_master[m] = m, NoStop
  PROVE  Owner = m
<1>1. m \in Endpoints /\ TypeOK /\ QueueOK(net) /\ m \in Devices
  BY DevicesAreEndpoints DEF ProtocolInv, Devices
<1>2. CASE Stands(net, m)
  BY <1>1, <1>2, OwnerStands
<1>3. CASE ~Stands(net, m)
  <2>1. Behind(net, m) /\ Shared(Head(net)) /\ net # <<>> /\ m \in Head(net).to
    BY <1>3 DEF Stands, Behind
  <2>2. PICK f \in Endpoints : ~Behind(net, f)
    BY <1>3 DEF Stands
  <2>3. Owner = current_master[f]
    BY <2>2, OwnerStands DEF Stands
  <2>4. current_master[f] = OwnerAfter(m, Head(net))
    BY <1>1, <2>1, <2>2 DEF EndpointsAgree, AgreeAmong
  <2>5. net \in Seq(Messages) /\ Head(net) = net[1] /\ 1 \in DOMAIN net
    BY <1>1, <2>1, Heads, LenProperties
  <2>6. PICK k : k = Head(net).src
    OBVIOUS
  <2>7. k \in Masters
    <3>1. 1 \in 1..Len(net)
      BY <1>1, <2>1, Heads
    <3> QED BY <1>1, <2>1, <2>5, <2>6, <3>1 DEF QueueOK, Shaped
  <2>8. Head(net).type # "stop"
    <3>1. Head(net).type = "stop" => InFlight("stop", k, m)
      BY <2>1, <2>5, <2>6 DEF InFlight
    <3> QED BY <1>1, <2>7, <3>1 DEF NoStop
  <2> QED BY <2>3, <2>4, <2>8, NoneIsNoMaster DEF OwnerAfter
<1> QED BY <1>2, <1>3

LEMMA TransferOwns ==
  ASSUME ProtocolInv, EndpointsAgree, NEW m \in Masters, device[m] \in InTransfer
  PROVE  Owner = m
<1>1. /\ NoStop /\ \A d \in Devices : current_master[d] = m /\ ~InFlight("start_request", m, d)
  BY InTransferOnly
<1> QED BY <1>1, UserOwns DEF Devices

LEMMA StartRefines ==
  ASSUME ProtocolInv, MastersBehave, EndpointsAgree, NEW m \in Masters, Start(m)
  PROVE  Refines
<1>1. PICK a \in Addresses :
           /\ MayStart(m, a) /\ UNCHANGED <<current_master, pending_start_responses>>
           /\ Is10bitRead(a) => device[m] # "idle"
           /\ \/ StartMisplaced(m, a) /\ Is10bitRead(a)
              \/ StartUnicast(m, a) /\ Is10bitRead(a)
              \/ StartBroadcast(m, a)
  BY StartCases
<1>2. /\ m \in Endpoints /\ TypeOK /\ net \in Seq(Messages) /\ a \in 0..255
      /\ device[m] \in {"idle", "r", "w", "nack"} /\ current_slave[m] \in Endpoints \cup {None}
  BY <1>1, DevicesAreEndpoints, EndpointsAssumption DEF ProtocolInv, TypeOK, MayStart
<1>3. device[m] \notin Asking
  BY <1>2 DEF Asking
<1>4. ASSUME NEW d, device' = [device EXCEPT ![m] = d]
      PROVE  device'[m] = d /\ \A n \in Masters \ {m} : device'[n] = device[n]
  BY <1>2, <1>4, DevicesAreEndpoints DEF TypeOK
<1>5. ASSUME EndpointsAgree', Owner' = Owner, device' = [device EXCEPT ![m] = WaitingFor(a)]
      PROVE  Refines
  <2>1. Kind(device'[m]) = "asking"
    BY <1>4, <1>5 DEF Kind, WaitingFor, Asking
  <2>2. Client' = [Client EXCEPT ![m] = "asking"] /\ Client[m] = Kind(device[m])
    BY <1>4, <1>5, <2>1, ClientMoves
  <2>3. Client[m] \in {"idle", "using"}
    BY <1>3, <2>2 DEF Kind
  <2>4. Bus!Ask(m)
    BY <1>5, <2>2, <2>3 DEF Bus!Ask, Bus!Becomes
  <2> QED BY <1>5, <2>4, RefinesIfDone
<1>6. CASE StartMisplaced(m, a) /\ Is10bitRead(a)
  <2>1. net' = net /\ device' = [device EXCEPT ![m] = "nack"]
    BY <1>6 DEF StartMisplaced, RefuseStart
  <2>2. EndpointsAgree' /\ Owner' = Owner
    <3> PICK r : r = net
      OBVIOUS
    <3> QED BY <1>1, <1>2, <2>1, ExtendsItself, OwnerSends
  <2>3. Kind(device'[m]) = "using" /\ Kind(device[m]) = "using"
    BY <1>1, <1>2, <1>3, <1>4, <1>6, <2>1 DEF Kind, Asking
  <2>4. Client' = Client
    BY <1>4, <2>1, <2>3, ClientStays
  <2> QED BY <2>2, <2>4, RefinesIfStill
<1>7. CASE StartUnicast(m, a) /\ Is10bitRead(a)
  <2>1. /\ net' = Unicast(net, "start_request", m, current_slave[m], a)
        /\ device' = [device EXCEPT ![m] = "startR"]
    BY <1>7 DEF StartUnicast
  <2>2. PICK r : r = Unicast(net, "start_request", m, current_slave[m], a)
    OBVIOUS
  <2>3. Extends(net, r)
    <3>1. "start_request" \in MessageTypes \ {"stop"}
      BY DEF MessageTypes
    <3> QED BY <1>2, <1>7, <2>2, <3>1, ExtendsByUnicast
  <2>4. EndpointsAgree' /\ Owner' = Owner
    BY <1>1, <1>2, <2>1, <2>2, <2>3, OwnerSends
  <2>5. WaitingFor(a) = "startR"
    BY <1>7 DEF WaitingFor, IsRead, Is10bitRead
  <2> QED BY <1>5, <2>1, <2>4, <2>5
<1>8. CASE StartBroadcast(m, a)
  <2>1. /\ net' = Broadcast(net, "start_request", m, a)
        /\ device' = [device EXCEPT ![m] = WaitingFor(a)]
    BY <1>8 DEF StartBroadcast
  <2>2. PICK r : r = Broadcast(net, "start_request", m, a)
    OBVIOUS
  <2>3. Extends(net, r)
    <3>1. "start_request" \in MessageTypes
      BY DEF MessageTypes
    <3> QED BY <1>2, <2>2, <3>1, ExtendsByBroadcast
  <2>4. EndpointsAgree' /\ Owner' = Owner
    BY <1>1, <1>2, <2>1, <2>2, <2>3, OwnerSends
  <2> QED BY <1>5, <2>1, <2>4
<1> QED BY <1>1, <1>6, <1>7, <1>8

(* All other calls but a stop send at most and leave the device in its     *)
(* transaction.                                                            *)
LEMMA SendRefines ==
  ASSUME EndpointsAgree, current_master' = current_master, NEW r, net' = r, Extends(net, r),
         NEW m \in Endpoints, \A n \in Masters : Kind(device'[n]) = Kind(device[n])
  PROVE  Refines
BY OwnerSends, ClientStays, RefinesIfStill

LEMMA ReadRefines ==
  ASSUME ProtocolInv, EndpointsAgree, NEW m \in Masters, Read(m)
  PROVE  Refines
<1>1. /\ m \in Endpoints /\ TypeOK /\ net \in Seq(Messages) /\ current_slave[m] \in Endpoints \cup {None}
      /\ device[m] = "r" /\ device' = [device EXCEPT ![m] = "read"] /\ current_master' = current_master
      /\ net' \in {net, Unicast(net, "read_request", m, current_slave[m], 0)}
  BY DevicesAreEndpoints DEF ProtocolInv, TypeOK, Read
<1>2. PICK r : r = net'
  OBVIOUS
<1>3. Extends(net, r)
  <2>1. "read_request" \in MessageTypes \ {"stop"} /\ 0 \in 0..255
    BY DEF MessageTypes
  <2>2. Extends(net, Unicast(net, "read_request", m, current_slave[m], 0))
    BY <1>1, <2>1, ExtendsByUnicast
  <2> QED BY <1>1, <1>2, <2>2, ExtendsItself
<1>4. \A n \in Masters : Kind(device'[n]) = Kind(device[n])
  BY <1>1, DevicesAreEndpoints DEF TypeOK, Kind, Asking
<1> QED BY <1>1, <1>2, <1>3, <1>4, SendRefines

LEMMA ExtendsByRequests ==
  ASSUME NEW q \in Seq(Messages), NEW m \in Endpoints, NEW l \in Seq(Endpoints \cup {None}),
         NEW f, f = [i \in DOMAIN l |-> Message("write_request", m, {l[i]}, 0)]
  PROVE  Extends(q, q \o f)
<1>1. Len(q) \in Nat /\ Len(l) \in Nat /\ DOMAIN l = 1..Len(l)
  BY LenProperties
<1>2. ASSUME NEW i \in 1..Len(l) PROVE f[i] \in Messages /\ ~Shared(f[i])
  <2>1. f[i] = Message("write_request", m, {l[i]}, 0) /\ l[i] \in Endpoints \cup {None}
    BY <1>1
  <2>2. {l[i]} \subseteq Endpoints \cup {None} /\ {l[i]} # {} /\ "write_request" \in MessageTypes /\ 0 \in 0..255
    BY <2>1 DEF MessageTypes
  <2>3. Message("write_request", m, {l[i]}, 0) \in Messages
    BY <2>2, MessageType
  <2> QED BY <2>1, <2>3 DEF Message, Shared, SharedStart
<1>3. f \in Seq(Messages) /\ Len(f) = Len(l)
  <2>1. f \in [1..Len(l) -> Messages]
    <3>1. f = [i \in 1..Len(l) |-> f[i]]
      BY <1>1
    <3> QED BY <1>2, <3>1
  <2> QED BY <1>1, <2>1, LenProperties
<1>4. PICK r : r = q \o f
  OBVIOUS
<1>5. /\ r \in Seq(Messages) /\ Len(r) = Len(q) + Len(l)
      /\ \A j \in 1..(Len(q) + Len(l)) : r[j] = IF j <= Len(q) THEN q[j] ELSE f[j - Len(q)]
  BY <1>1, <1>3, <1>4, Joined
<1>6. ASSUME q # <<>> PROVE r # <<>> /\ Head(r) = Head(q)
  <2>1. Len(q) >= 1 /\ Head(q) = q[1]
    BY <1>1, <1>6, HeadTailProperties, EmptySeq
  <2>2. Len(r) >= 1 /\ 1 \in 1..(Len(q) + Len(l)) /\ 1 <= Len(q)
    BY <1>1, <1>5, <2>1
  <2>3. r[1] = q[1]
    BY <1>5, <2>2
  <2> QED BY <1>5, <2>1, <2>2, <2>3, HeadTailProperties, EmptySeq
<1>7. ASSUME q = <<>>, r # <<>> PROVE ~Shared(Head(r))
  <2>1. Len(q) = 0
    BY <1>7
  <2>2. Len(r) >= 1 /\ Head(r) = r[1]
    BY <1>5, <1>7, HeadTailProperties, LenProperties, EmptySeq
  <2>3. 1 \in 1..Len(l) /\ r[1] = f[1]
    BY <1>1, <1>5, <2>1, <2>2
  <2> QED BY <1>2, <2>2, <2>3
<1>8. Extends(q, r)
  BY <1>5, <1>6, <1>7 DEF Extends
<1> QED BY <1>4, <1>8

LEMMA WriteRefines ==
  ASSUME ProtocolInv, EndpointsAgree, NEW m \in Masters, Write(m)
  PROVE  Refines
<1>1. /\ m \in Endpoints /\ TypeOK /\ net \in Seq(Messages) /\ current_slave[m] \in Endpoints \cup {None}
      /\ slave_list[m] \in Seq(Endpoints \cup {None})
      /\ device[m] = "w" /\ device' = [device EXCEPT ![m] = "write"] /\ current_master' = current_master
  BY DevicesAreEndpoints DEF ProtocolInv, TypeOK, Write
<1>2. PICK l : l = slave_list[m]
  OBVIOUS
<1>3. PICK f : f = [i \in DOMAIN l |-> Message("write_request", m, {l[i]}, 0)]
  OBVIOUS
<1>4. net' \in {net, Unicast(net, "write_request", m, current_slave[m], 0), net \o f}
  BY <1>2, <1>3 DEF Write
<1>5. PICK r : r = net'
  OBVIOUS
<1>6. Extends(net, r)
  <2>1. "write_request" \in MessageTypes \ {"stop"} /\ 0 \in 0..255
    BY DEF MessageTypes
  <2>2. Extends(net, Unicast(net, "write_request", m, current_slave[m], 0))
    BY <1>1, <2>1, ExtendsByUnicast
  <2>3. Extends(net, net \o f)
    BY <1>1, <1>2, <1>3, ExtendsByRequests
  <2> QED BY <1>1, <1>4, <1>5, <2>2, <2>3, ExtendsItself
<1>7. \A n \in Masters : Kind(device'[n]) = Kind(device[n])
  BY <1>1, DevicesAreEndpoints DEF TypeOK, Kind, Asking
<1> QED BY <1>1, <1>5, <1>6, <1>7, SendRefines

LEMMA StopRefines ==
  ASSUME ProtocolInv, MastersBehave, EndpointsAgree, NEW m \in Masters, Stop(m)
  PROVE  Refines
<1>1. /\ m \in Endpoints /\ TypeOK /\ net \in Seq(Messages) /\ current_master' = current_master
      /\ device[m] \in {"r", "w", "nack"} /\ device' = [device EXCEPT ![m] = "idle"]
      /\ net' = Broadcast(net, "stop", m, 0)
  BY DevicesAreEndpoints DEF ProtocolInv, TypeOK, Stop, MastersBehave
<1>2. PICK r : r = Broadcast(net, "stop", m, 0)
  OBVIOUS
<1>3. Extends(net, r)
  <2>1. "stop" \in MessageTypes /\ 0 \in 0..255
    BY DEF MessageTypes
  <2> QED BY <1>1, <1>2, <2>1, ExtendsByBroadcast
<1>4. EndpointsAgree' /\ Owner' = Owner
  BY <1>1, <1>2, <1>3, OwnerSends
<1>5. Owner = m
  BY <1>1, TransferOwns DEF InTransfer
<1>6. Kind(device'[m]) = "idle" /\ \A n \in Masters \ {m} : device'[n] = device[n]
  BY <1>1, DevicesAreEndpoints DEF TypeOK, Kind
<1>7. Client' = [Client EXCEPT ![m] = "idle"] /\ Client[m] = "using"
  BY <1>1, <1>6, ClientMoves DEF Kind, Asking
<1>8. Bus!Finish(m)
  BY <1>4, <1>5, <1>7 DEF Bus!Finish, Bus!Becomes
<1> QED BY <1>4, <1>8, RefinesIfDone

LEMMA SlaveAnswersRefine ==
  ASSUME ProtocolInv, EndpointsAgree, NEW s \in Slaves, SlaveAnswers(s)
  PROVE  Refines
<1>1. /\ s \in Endpoints /\ TypeOK /\ net \in Seq(Messages)
      /\ current_master[s] \in Endpoints \cup {None}
  BY DevicesAreEndpoints DEF ProtocolInv, TypeOK
<1>2. /\ current_master' = current_master /\ device' = device
      /\ \/ net' = net
         \/ \E type \in {"start_response", "write_response", "read_response"}, ack \in {0, 1} :
              net' = Unicast(net, type, s, current_master[s], ack)
  BY DEF SlaveAnswers, AnswerStart, AnswerWrite, AnswerRead, ACK, NOACK, answers, addressing
<1>3. PICK r : r = net'
  OBVIOUS
<1>4. Extends(net, r)
  <2>1. ASSUME NEW type \in {"start_response", "write_response", "read_response"}, NEW ack \in {0, 1}
        PROVE  Extends(net, Unicast(net, type, s, current_master[s], ack))
    <3>1. type \in MessageTypes \ {"stop"} /\ type # "start_request" /\ ack \in 0..255
      BY DEF MessageTypes
    <3> QED BY <1>1, <3>1, ExtendsByUnicast
  <2> QED BY <1>1, <1>2, <1>3, <2>1, ExtendsItself
<1> QED BY <1>1, <1>2, <1>3, <1>4, SendRefines

----------------------------------------------------------------------------
(* Every delivery is a step of the arbiter, or none. *)

(* A message that leaves the owner that the endpoint names. *)
LEMMA TakenStill ==
  ASSUME ProtocolInv, EndpointsAgree, NEW e \in Endpoints, NEW T, Receives(e, T),
         Shared(Head(net)) => OwnerAfter(current_master[e], Head(net)) = current_master[e],
         current_master' = current_master, net' = Taken(e)
  PROVE  EndpointsAgree' /\ Owner' = Owner
<1>1. TypeOK /\ QueueOK(net) /\ net # <<>> /\ e \in Head(net).to
  BY DEF ProtocolInv, Receives
<1>2. PICK q : q = Taken(e)
  OBVIOUS
<1>3. q \in Seq(Messages)
  BY <1>1, <1>2, TakenIs
<1>4. Extends(q, q)
  BY <1>3, ExtendsItself
<1>5. EndpointsAgree' /\ Owner' = current_master[e] /\ Owner \in {current_master[e], current_master[e]}
  BY <1>1, <1>2, <1>4, OwnerTakes
<1> QED BY <1>5

(* The last answer to a start: of the owner's. *)
LEMMA AcknowledgeRefines ==
  ASSUME TypeOK, EndpointsAgree', Owner' = Owner, NEW m \in Masters, NEW ack, Acknowledge(m, ack),
         device[m] \in Asking => Owner = m
  PROVE  Refines
<1>1. /\ device'[m] = Answered(device[m], ack) /\ device[m] \in DeviceStates
      /\ \A n \in Masters \ {m} : device'[n] = device[n]
  BY DevicesAreEndpoints DEF TypeOK, Acknowledge
<1>2. CASE device[m] \in Asking
  <2>1. Kind(device[m]) = "asking" /\ Kind(device'[m]) = "using"
    BY <1>1, <1>2 DEF Kind, Asking, Answered
  <2>2. Client' = [Client EXCEPT ![m] = "using"] /\ Client[m] = "asking"
    BY <1>1, <2>1, ClientMoves
  <2>3. Bus!Answer(m)
    BY <1>2, <2>2 DEF Bus!Answer, Bus!Becomes
  <2> QED BY <2>3, RefinesIfDone
<1>3. CASE device[m] \notin Asking
  <2>1. Kind(device'[m]) = Kind(device[m])
    BY <1>1, <1>3 DEF Kind, Asking, Answered
  <2>2. Client' = Client
    BY <1>1, <2>1, ClientStays
  <2> QED BY <2>2, RefinesIfStill
<1> QED BY <1>2, <1>3

(* A start that finds the bus free. *)
LEMMA WinRefines ==
  ASSUME EndpointsAgree', NEW m \in Masters, Owner = None, Owner' = m, device[m] \in Asking,
         NEW L \in SUBSET (Masters \ {m}), \A n \in L : device[n] \in Asking /\ Kind(device'[n]) = "idle",
         \A n \in Masters \ L : Kind(device'[n]) = Kind(device[n])
  PROVE  Refines
<1>1. Client = [n \in Masters |-> Kind(device[n])] /\ Client' = [n \in Masters |-> Kind(device'[n])]
  BY ClientIs
<1>2. \A n \in Masters : device[n] \in Asking => Client[n] = "asking"
  BY <1>1 DEF Kind, Asking
<1>3. L \in SUBSET {n \in Masters \ {m} : Client[n] = "asking"}
  BY <1>2
<1>4. Client' = [n \in Masters |-> IF n \in L THEN "idle" ELSE Client[n]]
  BY <1>1
<1>5. Client[m] = "asking"
  BY <1>2
<1>6. Bus!Win(m)
  BY <1>3, <1>4, <1>5 DEF Bus!Win
<1> QED BY <1>6, RefinesIfDone

(* The head of the queue, when it is a start. *)
LEMMA HeadStart ==
  ASSUME ProtocolInv, NEW e \in Endpoints, Receives(e, "start_request")
  PROVE  /\ TypeOK /\ QueueOK(net) /\ net # <<>> /\ e \in Head(net).to
         /\ Head(net).type = "start_request" /\ Head(net).src \in Masters
         /\ Shared(Head(net)) <=> ~Is10bitRead(Head(net).status)
         /\ \A owner : OwnerAfter(owner, Head(net)) =
              IF owner \in {None, Head(net).src} THEN Head(net).src ELSE owner
<1>1. TypeOK /\ QueueOK(net) /\ net # <<>> /\ e \in Head(net).to /\ Head(net).type = "start_request"
  BY DEF ProtocolInv, Receives
<1>2. Head(net) = net[1] /\ 1 \in 1..Len(net)
  BY <1>1, Heads
<1>3. Shaped(Head(net))
  BY <1>1, <1>2 DEF QueueOK
<1>4. Head(net).src \in Masters
  BY <1>1, <1>3 DEF Shaped, Between, FromMaster, FromSlave
<1> QED BY <1>1, <1>4 DEF Shared, SharedStart, OwnerAfter

(* A start that the endpoint accepts: the bus is the sender's from now on, *)
(* and was free or the sender's.                                           *)
Accepted(e, m) ==
  /\ Receives(e, "start_request") /\ m = Head(net).src /\ Accepts(e, m)
  /\ Is10bitRead(Head(net).status) => current_master[e] = m
  /\ current_master' = [current_master EXCEPT ![e] = m]

LEMMA AcceptedOwns ==
  ASSUME ProtocolInv, EndpointsAgree, NEW e \in Endpoints, NEW m, Accepted(e, m),
         NEW r, net' = r, Extends(Taken(e), r)
  PROVE  /\ EndpointsAgree' /\ Owner' = m /\ Owner \in {None, m}
         /\ Owner = None => device[m] \in Asking
<1>1. /\ TypeOK /\ QueueOK(net) /\ net # <<>> /\ e \in Head(net).to /\ m \in Masters
      /\ Head(net).type = "start_request" /\ (Shared(Head(net)) <=> ~Is10bitRead(Head(net).status))
      /\ OwnerAfter(current_master[e], Head(net)) = m
  BY HeadStart DEF Accepted, Accepts
<1>2. /\ current_master'[e] = m /\ current_master[e] \in {None, m}
      /\ \A d \in Endpoints \ {e} : current_master'[d] = current_master[d]
  BY <1>1 DEF TypeOK, Accepted, Accepts
<1>3. PICK owner : owner = current_master'
  OBVIOUS
<1>4. EndpointsAgree' /\ Owner' = owner[e] /\ Owner \in {current_master[e], owner[e]}
  <2>1. PICK q : q = Taken(e)
    OBVIOUS
  <2>2. owner[e] = IF Shared(Head(net)) THEN OwnerAfter(current_master[e], Head(net)) ELSE current_master[e]
    BY <1>1, <1>2, <1>3 DEF Accepted
  <2> QED BY <1>1, <1>2, <1>3, <2>1, <2>2, OwnerTakes
<1>5. ASSUME Owner = None PROVE device[m] \in Asking
  <2>1. m # None /\ m \in Endpoints /\ m \in Devices
    BY <1>1, NoneIsNoMaster, DevicesAreEndpoints DEF Devices
  <2>2. current_master[e] = None /\ Shared(Head(net))
    BY <1>1, <1>2, <1>3, <1>4, <1>5, <2>1 DEF Accepted
  <2>3. Behind(net, e)
    BY <1>1, <2>2 DEF Behind
  <2>4. Behind(net, m)
    <3> SUFFICES ASSUME ~Behind(net, m) PROVE FALSE
      OBVIOUS
    <3>1. Owner = current_master[m]
      BY <2>1, OwnerStands DEF Stands
    <3>2. current_master[m] = m
      BY <1>1, <2>1, <2>3 DEF EndpointsAgree, AgreeAmong
    <3> QED BY <1>5, <2>1, <3>1, <3>2
  <2>5. current_master[m] = None /\ m \in Head(net).to
    BY <2>1, <2>2, <2>3, <2>4 DEF EndpointsAgree, AgreeAmong, Behind
  <2>6. Receives(m, "start_request") /\ Accepts(m, m) /\ ~Is10bitRead(Head(net).status)
    BY <1>1, <2>2, <2>5 DEF Receives, Accepts
  <2>7. m = Head(net).src /\ m \in Devices
    BY <2>1 DEF Accepted
  <2>8. PICK a : a = Head(net).status
    OBVIOUS
  <2> QED BY <2>6, <2>7, <2>8, SharedStartWins
<1> QED BY <1>2, <1>3, <1>4, <1>5

LEMMA OwnStartRefines ==
  ASSUME ProtocolInv, TypeOK', EndpointsAgree, NEW m \in Endpoints, DeliverOwnStart(m)
  PROVE  Refines
<1>1. /\ m \in Masters /\ device[m] \in Asking /\ Asks(m) /\ AskedOf(m) /\ TypeOK
      /\ OnWay("start_request", m, Head(net).status, m) /\ Head(net).status \in 0..255
  <2>1. m \in Masters
    BY OwnStartTaken
  <2> QED BY <2>1, OwnStartTaken DEF ProtocolInv, MasterOK
<1>2. ~Is10bitRead(Head(net).status)
  BY <1>1 DEF AskedOf, Devices
<1>3. /\ Receives(m, "start_request") /\ m = Head(net).src /\ Accepts(m, m)
      /\ current_master' = [current_master EXCEPT ![m] = m] /\ net' = Taken(m)
  BY DEF DeliverOwnStart
<1>4. PICK q : q = Taken(m)
  OBVIOUS
<1>5. Extends(q, q)
  BY <1>1, <1>3, <1>4, TakenIs, ExtendsItself DEF Receives
<1>6. EndpointsAgree' /\ Owner' = m /\ Owner \in {None, m}
  <2>1. Accepted(m, m)
    BY <1>2, <1>3 DEF Accepted
  <2>2. net' = q /\ Extends(Taken(m), q)
    BY <1>3, <1>4, <1>5
  <2> QED BY <2>1, <2>2, AcceptedOwns
<1>7. CASE device' = device
  <2>1. CASE Owner = m
    BY <1>6, <1>7, <2>1, ClientStays, RefinesIfStill
  <2>2. CASE Owner = None
    <3>1. {} \in SUBSET (Masters \ {m}) /\ \A n \in Masters \ {} : Kind(device'[n]) = Kind(device[n])
      BY <1>7
    <3> QED BY <1>1, <1>6, <2>2, <3>1, WinRefines
  <2> QED BY <1>6, <2>1, <2>2
<1>8. CASE Acknowledge(m, NOACK)
  <2>1. CASE Owner = m
    BY <1>1, <1>6, <1>8, <2>1, AcknowledgeRefines
  <2>2. CASE Owner = None
    <3>1. Kind(device[m]) = "asking" /\ Kind(device'[m]) = "using"
          /\ \A n \in Masters \ {m} : device'[n] = device[n]
      BY <1>1, <1>8, DevicesAreEndpoints DEF TypeOK, Acknowledge, Answered, Kind, Asking
    <3>2. Client' = [Client EXCEPT ![m] = "using"] /\ Client[m] = "asking"
      BY <1>1, <3>1, ClientMoves
    <3>3. Bus!WinUnanswered(m)
      BY <1>6, <2>2, <3>2 DEF Bus!WinUnanswered, Bus!Becomes
    <3> QED BY <1>1, <1>6, <3>3, RefinesIfDone
  <2> QED BY <1>6, <2>1, <2>2
<1>9. device' = device \/ Acknowledge(m, NOACK)
  BY DEF DeliverOwnStart
<1> QED BY <1>7, <1>8, <1>9

(* A device that was asking itself has lost. *)
LEMMA ForeignStartRefines ==
  ASSUME ProtocolInv, EndpointsAgree, NEW e \in Endpoints, DeliverForeignStart(e)
  PROVE  Refines
<1>1. PICK m : m = Head(net).src
  OBVIOUS
<1>2. /\ Receives(e, "start_request") /\ m # e /\ Accepts(e, m) /\ e \in Slaves
      /\ current_master' = [current_master EXCEPT ![e] = m]
      /\ device' = [device EXCEPT ![e] = Lost(@)]
      /\ \E type \in {"start_response", "start_response_pending"}, ack \in {ACK, NOACK} :
           net' = Unicast(Taken(e), type, e, m, ack)
  BY <1>1 DEF DeliverForeignStart, ACK, NOACK
<1>3. /\ m \in Masters /\ device[m] \in Asking /\ TypeOK /\ m \in Endpoints
      /\ e \in Devices /\ (current_master[e] = m \/ SharedStart(Head(net)))
  <2>1. m \in Masters /\ device[m] \in Asking /\ \A d \in Devices : current_master[d] = m \/ SharedStart(Head(net))
    BY <1>1, <1>2, ForeignStartWins
  <2> QED BY <1>2, <2>1, DevicesAreEndpoints DEF Devices, ProtocolInv
<1>4. PICK q : q = Taken(e)
  OBVIOUS
<1>5. PICK r : r = net'
  OBVIOUS
<1>6. q \in Seq(Messages)
  BY <1>2, <1>3, <1>4, TakenIs DEF Receives
<1>7. Extends(q, r)
  <2>1. PICK type \in {"start_response", "start_response_pending"}, ack \in {ACK, NOACK} :
           r = Unicast(q, type, e, m, ack)
    BY <1>2, <1>4, <1>5
  <2>2. /\ type \in MessageTypes \ {"stop"} /\ type # "start_request" /\ ack \in 0..255
        /\ m \in Endpoints \cup {None}
    BY <1>3, <2>1 DEF MessageTypes, ACK, NOACK
  <2> QED BY <1>6, <2>1, <2>2, ExtendsByUnicast
<1>8. /\ EndpointsAgree' /\ Owner' = m /\ Owner \in {None, m}
  <2>1. Is10bitRead(Head(net).status) => current_master[e] = m
    BY <1>3 DEF SharedStart
  <2>2. Accepted(e, m)
    BY <1>1, <1>2, <2>1 DEF Accepted
  <2>3. net' = r /\ Extends(Taken(e), r)
    BY <1>4, <1>5, <1>7
  <2> QED BY <2>2, <2>3, AcceptedOwns
<1>9. /\ device'[e] = Lost(device[e])
      /\ \A n \in Masters \ {e} : device'[n] = device[n]
  BY <1>2, <1>3, DevicesAreEndpoints DEF TypeOK
<1>10. CASE e \in Masters /\ device[e] \in Asking
  <2>1. Kind(device'[e]) = "idle" /\ Kind(device[e]) = "asking"
    BY <1>9, <1>10 DEF Kind, Lost, Asking
  <2>2. CASE Owner = None
    <3>1. /\ {e} \in SUBSET (Masters \ {m})
          /\ \A n \in {e} : device[n] \in Asking /\ Kind(device'[n]) = "idle"
          /\ \A n \in Masters \ {e} : Kind(device'[n]) = Kind(device[n])
      BY <1>2, <1>9, <1>10, <2>1
    <3> QED BY <1>3, <1>8, <2>2, <3>1, WinRefines
  <2>3. CASE Owner = m
    <3>1. Client' = [Client EXCEPT ![e] = "idle"] /\ Client[e] = "asking"
      BY <1>9, <1>10, <2>1, ClientMoves
    <3>2. Owner \notin {None, e}
      BY <1>2, <1>3, <2>3, NoneIsNoMaster
    <3>3. Bus!Lose(e)
      BY <1>8, <2>3, <3>1, <3>2 DEF Bus!Lose, Bus!Becomes
    <3> QED BY <1>8, <1>10, <3>3, RefinesIfDone
  <2> QED BY <1>8, <2>2, <2>3
<1>11. CASE ~(e \in Masters /\ device[e] \in Asking)
  <2>1. \A n \in Masters : Kind(device'[n]) = Kind(device[n])
    BY <1>9, <1>11 DEF Kind, Lost, Asking
  <2>2. CASE Owner = None
    <3>1. {} \in SUBSET (Masters \ {m}) /\ \A n \in Masters \ {} : Kind(device'[n]) = Kind(device[n])
      BY <2>1
    <3> QED BY <1>3, <1>8, <2>2, <3>1, WinRefines
  <2>3. CASE Owner = m
    BY <1>8, <2>1, <2>3, ClientStays, RefinesIfStill
  <2> QED BY <1>8, <2>2, <2>3
<1> QED BY <1>10, <1>11

(* An endpoint without a slave and, as another one is master, without one. *)
LEMMA StartUnseenRefines ==
  ASSUME ProtocolInv, MastersBehave, EndpointsAgree, NEW e \in Endpoints, DeliverStartUnseen(e)
  PROVE  Refines
<1>1. PICK m : m = Head(net).src
  OBVIOUS
<1>2. /\ Receives(e, "start_request") /\ m # e /\ Accepts(e, m) /\ e \notin Slaves
      /\ current_master' = [current_master EXCEPT ![e] = m] /\ net' = Taken(e)
      /\ (device' = device \/ Acknowledge(e, NOACK))
  BY <1>1 DEF DeliverStartUnseen
<1>3. m \in Masters /\ TypeOK
  BY <1>1, <1>2, HeadStart
<1>4. e \notin Masters
  BY <1>2, <1>3 DEF MastersBehave
<1>5. ~Is10bitRead(Head(net).status)
  <2> SUFFICES ASSUME Is10bitRead(Head(net).status) PROVE FALSE
    OBVIOUS
  <2>1. \E k \in Masters : \E s \in Slaves \ {k} : Visits("start_request", m, e, k, s)
    BY <1>1, <1>2, HeadPrivate
  <2> QED BY <1>2, <1>4, <2>1 DEF Visits
<1>6. PICK q : q = Taken(e)
  OBVIOUS
<1>7. Extends(q, q)
  BY <1>2, <1>3, <1>6, TakenIs, ExtendsItself DEF Receives
<1>8. /\ EndpointsAgree' /\ Owner' = m /\ Owner \in {None, m}
      /\ Owner = None => device[m] \in Asking
  <2>1. Accepted(e, m)
    BY <1>1, <1>2, <1>5 DEF Accepted
  <2>2. net' = q /\ Extends(Taken(e), q)
    BY <1>2, <1>6, <1>7
  <2> QED BY <2>1, <2>2, AcceptedOwns
<1>9. \A n \in Masters : Kind(device'[n]) = Kind(device[n])
  <2>1. \A n \in Masters : device'[n] = device[n]
    BY <1>2, <1>3, <1>4, DevicesAreEndpoints DEF TypeOK, Acknowledge
  <2> QED BY <2>1
<1>10. CASE Owner = None
  <2>1. {} \in SUBSET (Masters \ {m}) /\ \A n \in Masters \ {} : Kind(device'[n]) = Kind(device[n])
    BY <1>9
  <2> QED BY <1>3, <1>8, <1>10, <2>1, WinRefines
<1>11. CASE Owner = m
  BY <1>8, <1>9, <1>11, ClientStays, RefinesIfStill
<1> QED BY <1>8, <1>10, <1>11

LEMMA LostStartRefines ==
  ASSUME ProtocolInv, EndpointsAgree, NEW e \in Endpoints, DeliverLostStart(e)
  PROVE  Refines
<1>1. /\ Receives(e, "start_request") /\ current_master[e] \notin {None, Head(net).src}
      /\ current_master' = current_master /\ net' = Taken(e) /\ device' = device
  BY DEF DeliverLostStart, Accepts
<1>2. OwnerAfter(current_master[e], Head(net)) = current_master[e]
  BY <1>1, HeadStart
<1>3. EndpointsAgree' /\ Owner' = Owner
  BY <1>1, <1>2, TakenStill
<1> QED BY <1>1, <1>3, ClientStays, RefinesIfStill

(* The other messages leave the owner. *)
LEMMA TransferStill ==
  ASSUME ProtocolInv, EndpointsAgree, NEW e \in Endpoints, NEW T, Receives(e, T),
         T \notin {"start_request", "stop"}, current_master' = current_master, net' = Taken(e)
  PROVE  EndpointsAgree' /\ Owner' = Owner
<1>1. ~Shared(Head(net))
  BY DEF Receives, Shared, SharedStart
<1> QED BY <1>1, TakenStill

LEMMA StartResponseRefines ==
  ASSUME ProtocolInv, EndpointsAgree, NEW e \in Endpoints,
         DeliverPending(e) \/ DeliverRestartResponse(e) \/ DeliverBroadcastResponse(e)
           \/ DeliverPlainResponse(e)
  PROVE  Refines
<1>1. /\ Receives(e, "start_response_pending") \/ Receives(e, "start_response")
      /\ current_master' = current_master /\ net' = Taken(e)
      /\ \/ device' = device
         \/ Receives(e, "start_response") /\ \E ack : Acknowledge(e, ack)
  BY DEF DeliverPending, DeliverRestartResponse, DeliverBroadcastResponse, DeliverPlainResponse
<1>2. EndpointsAgree' /\ Owner' = Owner
  BY <1>1, TransferStill
<1>3. CASE device' = device
  BY <1>2, <1>3, ClientStays, RefinesIfStill
<1>4. ASSUME Receives(e, "start_response"), NEW ack, Acknowledge(e, ack)
      PROVE  Refines
  <2>1. PICK m \in Masters : \E s \in Slaves \ {m} :
           e = m /\ current_master[m] = m /\ Answering("start_response", m, s)
    BY <1>4, HeadOf
  <2>2. NoStop
    BY <2>1, AnswersSelect
  <2>3. Owner = m /\ TypeOK
    BY <2>1, <2>2, UserOwns DEF ProtocolInv
  <2> QED BY <1>2, <1>4, <2>1, <2>3, AcknowledgeRefines
<1> QED BY <1>1, <1>3, <1>4

LEMMA RequestRefines ==
  ASSUME ProtocolInv, EndpointsAgree, NEW e \in Endpoints, DeliverRequest(e) \/ DeliverReadResponse(e)
  PROVE  Refines
<1>1. /\ \E T \in {"read_request", "write_request", "read_response"} : Receives(e, T)
      /\ current_master' = current_master /\ net' = Taken(e)
      /\ device' = device \/ device' = [device EXCEPT ![e] = IF @ = "read" THEN "r" ELSE @]
  BY DEF DeliverRequest, DeliverReadResponse
<1>2. EndpointsAgree' /\ Owner' = Owner
  BY <1>1, TransferStill
<1>3. \A n \in Masters : Kind(device'[n]) = Kind(device[n])
  <2>1. \A n \in Masters : device'[n] = device[n] \/ (device'[n] = "r" /\ device[n] = "read")
    BY <1>1, DevicesAreEndpoints DEF ProtocolInv, TypeOK
  <2> QED BY <2>1 DEF Kind, Asking
<1> QED BY <1>2, <1>3, ClientStays, RefinesIfStill

LEMMA WriteResponseRefines ==
  ASSUME ProtocolInv, EndpointsAgree, NEW e \in Endpoints,
         DeliverWriteResponse(e) \/ DeliverBroadcastWriteResponse(e)
  PROVE  Refines
<1>1. /\ Receives(e, "write_response") /\ current_master' = current_master /\ net' = Taken(e)
      /\ device' = device \/ \E ack : Acknowledge(e, ack)
  BY DEF DeliverWriteResponse, DeliverBroadcastWriteResponse
<1>2. EndpointsAgree' /\ Owner' = Owner
  BY <1>1, TransferStill
<1>3. PICK m \in Masters : \E s \in Slaves \ {m} :
         e = m /\ InFlight("write_response", s, m) /\ PrivateOf(m, s)
  BY <1>1, HeadOf
<1>4. device[m] \notin Asking /\ TypeOK
  BY <1>3 DEF PrivateOf, Asking, ProtocolInv
<1>5. CASE device' = device
  BY <1>2, <1>5, ClientStays, RefinesIfStill
<1>6. ASSUME NEW ack, Acknowledge(e, ack)
      PROVE  Refines
  BY <1>2, <1>3, <1>4, <1>6, AcknowledgeRefines
<1> QED BY <1>1, <1>5, <1>6

(* The first endpoint that takes the stop frees the bus. *)
LEMMA StopTakenRefines ==
  ASSUME ProtocolInv, EndpointsAgree, NEW e \in Endpoints, DeliverStop(e)
  PROVE  Refines
<1>1. /\ TypeOK /\ QueueOK(net) /\ net # <<>> /\ e \in Head(net).to /\ Head(net).type = "stop"
      /\ current_master' = [current_master EXCEPT ![e] = None] /\ net' = Taken(e) /\ device' = device
  BY DEF ProtocolInv, DeliverStop, Receives
<1>2. Shared(Head(net)) /\ \A owner : OwnerAfter(owner, Head(net)) = None
  BY <1>1 DEF Shared, OwnerAfter
<1>3. PICK q : q = Taken(e)
  OBVIOUS
<1>4. Extends(q, q)
  BY <1>1, <1>3, TakenIs, ExtendsItself
<1>5. PICK owner : owner = current_master'
  OBVIOUS
<1>6. owner[e] = None /\ \A d \in Endpoints \ {e} : owner[d] = current_master[d]
  BY <1>1, <1>5 DEF TypeOK
<1>7. EndpointsAgree' /\ Owner' = None /\ Owner \in {current_master[e], None}
  <2>1. net' = q
    BY <1>1, <1>3
  <2>2. EndpointsAgree' /\ Owner' = owner[e] /\ Owner \in {current_master[e], owner[e]}
    BY <1>1, <1>2, <1>3, <1>4, <1>5, <1>6, <2>1, OwnerTakes
  <2> QED BY <1>6, <2>2
<1>8. Client' = Client
  BY <1>1, ClientStays
<1>9. CASE Owner = None
  BY <1>7, <1>8, <1>9, RefinesIfStill
<1>10. CASE Owner # None
  <2>1. PICK k \in Masters : Owner = k
    BY <1>7, <1>10 DEF EndpointsAgree, AgreeAmong
  <2>2. \A f \in Endpoints : Behind(net, f)
    <3> SUFFICES ASSUME NEW f \in Endpoints, ~Behind(net, f) PROVE FALSE
      OBVIOUS
    <3>1. Owner = current_master[f]
      BY OwnerStands DEF Stands
    <3>2. Behind(net, e)
      BY <1>1, <1>2 DEF Behind
    <3>3. current_master[f] = None
      BY <1>2, <3>2 DEF EndpointsAgree, AgreeAmong
    <3> QED BY <1>10, <3>1, <3>3
  <2>3. PICK n \in Masters : Head(net).src = n
    <3>1. Head(net) = net[1] /\ 1 \in 1..Len(net)
      BY <1>1, Heads
    <3> QED BY <1>1, <1>2, <3>1 DEF QueueOK, Shaped
  <2>4. n \in Endpoints /\ n \in Devices /\ n \in Head(net).to
    BY <2>2, DevicesAreEndpoints DEF Devices, Behind
  <2>5. InFlight("stop", n, n)
    <3>1. net \in Seq(Messages) /\ Head(net) = net[1] /\ 1 \in DOMAIN net
      BY <1>1, Heads, LenProperties
    <3> QED BY <1>1, <2>3, <2>4, <3>1 DEF InFlight
  <2>6. ~NoStop
    BY <2>4, <2>5 DEF NoStop
  <2>7. device[k] \notin InTransfer
    BY <2>6, StoppedIdle DEF Idle
  <2>8. Client[k] \in {"idle", "asking"}
    <3>1. device[k] = "idle" \/ device[k] \in Asking
      BY <1>1, <2>7, DeviceCases
    <3> QED BY <3>1, ClientIs DEF Kind
  <2>9. Bus!Release(k)
    BY <1>7, <1>8, <2>1, <2>8 DEF Bus!Release
  <2> QED BY <1>7, <2>9, RefinesIfDone
<1> QED BY <1>9, <1>10

LEMMA DeliverRefines ==
  ASSUME ProtocolInv, TypeOK', MastersBehave, EndpointsAgree, NEW e \in Endpoints, Deliver(e)
  PROVE  Refines
<1>1. ~DeliverStrayWriteResponse(e)
  BY NotStray
<1>2. CASE DeliverOwnStart(e) \/ DeliverForeignStart(e) \/ DeliverStartUnseen(e) \/ DeliverLostStart(e)
  BY <1>2, OwnStartRefines, ForeignStartRefines, StartUnseenRefines, LostStartRefines
<1>3. CASE DeliverPending(e) \/ DeliverRestartResponse(e) \/ DeliverBroadcastResponse(e) \/ DeliverPlainResponse(e)
  BY <1>3, StartResponseRefines
<1>4. CASE DeliverRequest(e) \/ DeliverReadResponse(e)
  BY <1>4, RequestRefines
<1>5. CASE DeliverWriteResponse(e) \/ DeliverBroadcastWriteResponse(e)
  BY <1>5, WriteResponseRefines
<1>6. CASE DeliverStop(e)
  BY <1>6, StopTakenRefines
<1> QED BY <1>1, <1>2, <1>3, <1>4, <1>5, <1>6 DEF Deliver

LEMMA NextRefines ==
  ASSUME MastersBehave, Endpoints # {}, ProtocolInv, EndpointsAgree, [Next]_vars
  PROVE  Refines
<1>1. TypeOK' /\ TypeOK /\ net \in Seq(Messages)
  BY NextType DEF ProtocolInv, TypeOK
<1>2. ASSUME NEW m \in Masters, Start(m) \/ Read(m) \/ Write(m) \/ Stop(m)
      PROVE  Refines
  BY <1>2, StartRefines, ReadRefines, WriteRefines, StopRefines
<1>3. ASSUME NEW s \in Slaves, SlaveAnswers(s)
      PROVE  Refines
  BY <1>3, SlaveAnswersRefine
<1>4. ASSUME NEW e \in Endpoints, Deliver(e)
      PROVE  Refines
  BY <1>1, <1>4, DeliverRefines
<1>5. CASE Restore \/ UNCHANGED vars
  <2>1. current_master' = current_master /\ net' = net /\ device' = device
    BY <1>5 DEF Restore, vars
  <2>2. PICK m \in Endpoints : TRUE
    OBVIOUS
  <2>3. PICK r : r = net
    OBVIOUS
  <2>4. net' = r /\ Extends(net, r)
    BY <1>1, <2>1, <2>3, ExtendsItself
  <2>5. EndpointsAgree' /\ Owner' = Owner
    BY <2>1, <2>2, <2>4, OwnerSends
  <2> QED BY <2>1, <2>5, ClientStays, RefinesIfStill
<1> QED BY <1>2, <1>3, <1>4, <1>5 DEF Next, MasterCalls

LEMMA InitRefines ==
  ASSUME Endpoints # {}, Init
  PROVE  EndpointsAgree /\ Bus!Init
<1>1. /\ net = <<>> /\ current_master = [e \in Endpoints |-> None]
      /\ device = [e \in Endpoints |-> "idle"]
  BY DEF Init
<1>2. EndpointsAgree
  BY <1>1 DEF EndpointsAgree, AgreeAmong, Behind
<1>3. Owner = None
  <2>1. PICK e \in Endpoints : Stands(net, e)
    BY SomeStands
  <2> QED BY <1>1, <1>2, <2>1, OwnerStands
<1>4. Client = [m \in Masters |-> "idle"]
  BY <1>1, ClientIs, DevicesAreEndpoints DEF Kind
<1> QED BY <1>2, <1>3, <1>4 DEF Bus!Init

(***************************************************************************)
(* Every step of the link is a step of the single arbiter or leaves it as  *)
(* it is: a start wins or loses, the owner is answered, stops and frees    *)
(* the bus, although no endpoint decides for the others (deliver, il_start,*)
(* il_stop and the comment at lines 1181-1185 of i2c-link-v2.c).           *)
(***************************************************************************)
THEOREM LinkImplementsBus ==
  ASSUME MastersBehave, Endpoints # {}
  PROVE  Spec => Bus!Spec
<1>1. Init => ProtocolInv /\ EndpointsAgree /\ Bus!Init
  BY InitKeeps, InitRefines
<1>2. ProtocolInv /\ EndpointsAgree /\ [Next]_vars =>
        (ProtocolInv /\ EndpointsAgree)' /\ [Bus!Next]_(Bus!busVars)
  BY NextKeeps, NextRefines DEF Refines
<1> QED BY <1>1, <1>2, PTL DEF Spec, Bus!Spec

(***************************************************************************)
(* All endpoints have the same conception of who owns the bus, with the    *)
(* read part of 10-bit transfers too, whose start goes to one slave only   *)
(* (comment at lines 1181-1185): masters that do not abort send it when    *)
(* all the endpoints name its sender.                                      *)
(***************************************************************************)
THEOREM SameOwnerWithReads ==
  ASSUME MastersBehave, Endpoints # {}
  PROVE  Spec => []SameOwner
<1>1. Init => ProtocolInv /\ EndpointsAgree
  BY InitKeeps, InitRefines
<1>2. ProtocolInv /\ EndpointsAgree /\ [Next]_vars => (ProtocolInv /\ EndpointsAgree)'
  BY NextKeeps, NextRefines DEF Refines
<1>3. EndpointsAgree => SameOwner
  <2> SUFFICES ASSUME EndpointsAgree, NEW e \in Endpoints, NEW f \in Endpoints,
                      OwnerPending(e) <=> OwnerPending(f)
               PROVE  current_master[e] = current_master[f]
    BY DEF SameOwner
  <2>1. Behind(net, e) <=> Behind(net, f)
    BY DEF Behind, Shared, SharedStart, OwnerPending, Receives
  <2> QED BY <2>1 DEF EndpointsAgree, AgreeAmong
<1> QED BY <1>1, <1>2, <1>3, PTL DEF Spec

----------------------------------------------------------------------------
(* What the arbiter promises. *)

BusInv == Bus!TypeOK /\ Bus!OwnerUses

LEMMA BusInit == Bus!Init => BusInv
BY DEF Bus!Init, BusInv, Bus!TypeOK, Bus!OwnerUses

(* The bus is won only when it is free, hence when nobody uses it, and an  *)
(* owner gives it back only when it has finished.                          *)
LEMMA BusStep ==
  ASSUME BusInv, [Bus!Next]_(Bus!busVars)
  PROVE  BusInv'
<1>0. None \notin Masters
  BY NoneIsNoMaster
<1>1. CASE UNCHANGED Bus!busVars
  BY <1>1 DEF BusInv, Bus!TypeOK, Bus!OwnerUses, Bus!busVars
<1>2. ASSUME NEW m \in Masters, Bus!Ask(m) PROVE BusInv'
  BY <1>2 DEF BusInv, Bus!TypeOK, Bus!OwnerUses, Bus!Ask, Bus!Becomes
<1>3. ASSUME NEW m \in Masters, Bus!Win(m) PROVE BusInv'
  <2>1. \A n \in Masters : Client[n] # "using"
    BY <1>0, <1>3 DEF BusInv, Bus!OwnerUses, Bus!Win
  <2>2. Bus!TypeOK'
    BY <1>3 DEF BusInv, Bus!TypeOK, Bus!Win
  <2>3. Bus!OwnerUses'
    BY <1>3, <2>1 DEF Bus!OwnerUses, Bus!Win
  <2> QED BY <2>2, <2>3 DEF BusInv
<1>4. ASSUME NEW m \in Masters, Bus!WinUnanswered(m) PROVE BusInv'
  <2>1. \A n \in Masters : Client[n] # "using"
    BY <1>0, <1>4 DEF BusInv, Bus!OwnerUses, Bus!WinUnanswered
  <2> QED BY <1>4, <2>1 DEF BusInv, Bus!TypeOK, Bus!OwnerUses, Bus!WinUnanswered, Bus!Becomes
<1>5. ASSUME NEW m \in Masters, Bus!Lose(m) PROVE BusInv'
  BY <1>5 DEF BusInv, Bus!TypeOK, Bus!OwnerUses, Bus!Lose, Bus!Becomes
<1>6. ASSUME NEW m \in Masters, Bus!Answer(m) PROVE BusInv'
  BY <1>6 DEF BusInv, Bus!TypeOK, Bus!OwnerUses, Bus!Answer, Bus!Becomes
<1>7. ASSUME NEW m \in Masters, Bus!Finish(m) PROVE BusInv'
  BY <1>7 DEF BusInv, Bus!TypeOK, Bus!OwnerUses, Bus!Finish, Bus!Becomes
<1>8. ASSUME NEW m \in Masters, Bus!Release(m) PROVE BusInv'
  BY <1>8 DEF BusInv, Bus!TypeOK, Bus!OwnerUses, Bus!Release
<1> QED
  BY <1>1, <1>2, <1>3, <1>4, <1>5, <1>6, <1>7, <1>8 DEF Bus!Next

(***************************************************************************)
(* Two masters never use the bus of the arbiter at once: the promise that  *)
(* il_start makes to a master when it answers ACK.  As the link implements *)
(* the arbiter, its devices have it too.                                   *)
(***************************************************************************)
THEOREM BusExclusive == Bus!Spec => []Bus!Exclusive
<1>1. Bus!Init => BusInv
  BY BusInit
<1>2. BusInv /\ [Bus!Next]_(Bus!busVars) => BusInv'
  BY BusStep
<1>3. BusInv => Bus!Exclusive
  BY DEF BusInv, Bus!OwnerUses, Bus!Exclusive
<1> QED BY <1>1, <1>2, <1>3, PTL DEF Bus!Spec
=============================================================================
