-------------------------- MODULE ConnectionProofs --------------------------
(***************************************************************************)
(* Proofs about Connection: type correctness, and that both reliable lanes *)
(* are exact FIFOs, for every width of the sequence number and every       *)
(* staleness below it.  The argument is on one lane at a time: IInv counts *)
(* what each end has seen, and places every datagram in flight within less *)
(* than one turn of the sequence number of the packet it could be taken    *)
(* for.                                                                    *)
(***************************************************************************)
EXTENDS Connection, TLAPS

(* The two ends count alike and are at most one packet apart. *)
Counted(l) ==
    /\ Len(waiting[l]) <= submitted[l] /\ Len(delivered[l]) <= submitted[l]
    /\ sendSeq[l] = submitted[l] % SeqValues /\ recvSeq[l] = Len(delivered[l]) % SeqValues
    /\ Popped(l) <= Len(delivered[l]) /\ Len(delivered[l]) <= Popped(l) + 1

(* The FIFO holds the last packets queued; the others came out in order. *)
InOrder(l) ==
    /\ \A i \in DOMAIN waiting[l] :
          waiting[l][i] = [seq |-> (Popped(l) + i - 1) % SeqValues, packet |-> Popped(l) + i - 1]
    /\ \A i \in DOMAIN delivered[l] : delivered[l][i] = i - 1

(* Nothing in flight is ahead of the head, or a turn of the number behind. *)
WireFresh(l) ==
    \A d \in wire[l] :
        /\ d.seq = d.packet % SeqValues
        /\ d.packet <= Popped(l) /\ d.packet < submitted[l]
        /\ Len(delivered[l]) - MaxStale <= d.packet
AcksFresh(l) ==
    \A a \in acks[l] :
        /\ a.next = a.count % SeqValues
        /\ Popped(l) + 1 - MaxStale <= a.count /\ a.count <= Len(delivered[l])

LaneInv(l) == Counted(l) /\ InOrder(l) /\ WireFresh(l) /\ AcksFresh(l)
IInv == TypeOK /\ \A l \in Lanes : LaneInv(l)

-----------------------------------------------------------------------------
(* Division with remainder. *)
LEMMA ModuloStep ==
    ASSUME NEW a \in Nat, NEW m \in Nat \ {0}
    PROVE  \E k \in Nat : a % m \in 0..(m-1) /\ a = m * k + (a % m)
  <1>1. a \div m \in Nat /\ a % m \in 0..(m-1) /\ a = m * (a \div m) + (a % m)
    BY SMTT(30)
  <1> QED BY <1>1

(* Two numbers less than a turn apart with the same remainder are equal. *)
LEMMA SameTurn ==
    ASSUME NEW a \in Nat, NEW b \in Nat, NEW m \in Nat \ {0},
           a % m = b % m, a <= b, b < a + m
    PROVE  a = b
  <1>1. PICK j \in Nat : a = m * j + (a % m)  BY ModuloStep
  <1>2. PICK k \in Nat : b = m * k + (b % m)  BY ModuloStep
  <1>3. a % m \in 0..(m-1)  BY ModuloStep
  <1> DEFINE r == a % m
  <1>4. r \in Nat /\ a = m * j + r /\ b = m * k + r  BY <1>1, <1>2, <1>3
  <1>5. b - a = m * (k - j)
    <2>1. m * (k - j) = m * k - m * j  OBVIOUS
    <2>2. m * k \in Int /\ m * j \in Int  OBVIOUS
    <2> HIDE DEF r
    <2> QED BY <1>4, <2>1, <2>2
  <1>6. ~(k - j >= 1)
    <2>1. ASSUME k - j >= 1 PROVE m * (k - j) >= m  BY <2>1
    <2> QED BY <1>5, <2>1
  <1>7. ~(k - j <= -1)
    <2>1. ASSUME k - j <= -1 PROVE m * (k - j) <= -m  BY <2>1
    <2> QED BY <1>5, <2>1
  <1>8. k - j = 0  BY <1>6, <1>7
  <1>9. m * (k - j) = 0  BY <1>8
  <1> QED BY <1>5, <1>9

(* The remainder of the successor is the successor of the remainder. *)
LEMMA NextIsSuccessor ==
    ASSUME NEW a \in Nat
    PROVE  Next8(a % SeqValues) = (a + 1) % SeqValues /\ a % SeqValues \in Numbers
  <1> DEFINE m == SeqValues
             r == a % m
  <1>0. m \in Nat \ {0}  BY ConnectionAssumption
  <1>1. PICK k \in Nat : r \in 0..(m-1) /\ a = m * k + r  BY <1>0, ModuloStep
  <1>2. PICK j \in Nat : (r + 1) % m \in 0..(m-1) /\ r + 1 = m * j + ((r + 1) % m)
    <2>1. r + 1 \in Nat  BY <1>1
    <2> QED BY <1>0, <2>1, ModuloStep
  <1>3. PICK h \in Nat : (a + 1) % m \in 0..(m-1) /\ a + 1 = m * h + ((a + 1) % m)
    <2>1. a + 1 \in Nat  OBVIOUS
    <2> QED BY <1>0, <2>1, ModuloStep
  <1> DEFINE x == (r + 1) % m
             y == (a + 1) % m
  <1>4. x \in 0..(m-1) /\ y \in 0..(m-1) /\ m * h + y = m * k + m * j + x
    <2>1. m * h \in Int /\ m * k \in Int /\ m * j \in Int  BY <1>0
    <2> HIDE DEF m, r, x, y
    <2> QED BY <1>0, <1>1, <1>2, <1>3, <2>1 DEF x, y
  <1>5. x - y = m * (h - k - j)
    <2>1. m * (h - k - j) = m * h - m * k - m * j  BY <1>0
    <2>2. m * h \in Int /\ m * k \in Int /\ m * j \in Int  BY <1>0
    <2> HIDE DEF m, r, x, y
    <2> QED BY <1>0, <1>4, <2>1, <2>2
  <1> HIDE DEF x, y
  <1>6. ~(h - k - j >= 1)
    <2>1. ASSUME h - k - j >= 1 PROVE m * (h - k - j) >= m  BY <1>0, <2>1
    <2> QED BY <1>0, <1>4, <1>5, <2>1
  <1>7. ~(h - k - j <= -1)
    <2>1. ASSUME h - k - j <= -1 PROVE m * (h - k - j) <= -m  BY <1>0, <2>1
    <2> QED BY <1>0, <1>4, <1>5, <2>1
  <1>8. h - k - j = 0  BY <1>6, <1>7
  <1>9. x = y
    <2>1. m * (h - k - j) = 0  BY <1>0, <1>8
    <2> QED BY <1>0, <1>4, <1>5, <2>1
  <1> QED BY <1>1, <1>9 DEF Next8, Numbers, x, y

-----------------------------------------------------------------------------
(* What Tail leaves. *)
LEMMA TailParts ==
    ASSUME NEW S, NEW s \in Seq(S), s # << >>
    PROVE  /\ Len(s) \in Nat \ {0} /\ DOMAIN s = 1..Len(s) /\ Head(s) = s[1]
           /\ Tail(s) \in Seq(S) /\ Len(Tail(s)) = Len(s) - 1 /\ DOMAIN Tail(s) = 1..(Len(s) - 1)
           /\ \A i \in 1..(Len(s) - 1) : Tail(s)[i] = s[i + 1]
  OBVIOUS

(* What Append adds. *)
LEMMA AppendParts ==
    ASSUME NEW S, NEW s \in Seq(S), NEW e \in S
    PROVE  /\ Append(s, e) \in Seq(S) /\ Len(s) \in Nat /\ DOMAIN s = 1..Len(s)
           /\ Len(Append(s, e)) = Len(s) + 1 /\ DOMAIN Append(s, e) = 1..(Len(s) + 1)
           /\ \A i \in 1..Len(s) : Append(s, e)[i] = s[i]
           /\ Append(s, e)[Len(s) + 1] = e
  OBVIOUS

(* A step moves at most one lane, in one of five ways. *)
Fetch(l, news) == news = {} \/ \E i \in DOMAIN waiting'[l] : i = 1 /\ news = {waiting'[l][i]}
QueueStep(l)   == Queue(l) /\ \E news : Emit(l, news) /\ Fetch(l, news) /\ (news # {} => waiting[l] = << >>)
AckStep(l)     == \E a \in acks[l] : \E news :
                      Acknowledge(l, a, news) /\ (Acknowledged(l, a) => Fetch(l, news))
LoseStep(l)    ==
    /\ \/ \E d \in wire[l] : wire' = [wire EXCEPT ![l] = @ \ {d}] /\ UNCHANGED acks
       \/ \E a \in acks[l] : acks' = [acks EXCEPT ![l] = @ \ {a}] /\ UNCHANGED wire
    /\ UNCHANGED <<submitted, waiting, sendSeq, recvSeq, delivered>>
LaneStep(l) ==
    QueueStep(l) \/ Retry(l) \/ AckStep(l) \/ LoseStep(l) \/ \E d \in wire[l] : Receive(l, d)

LEMMA StepCases == TypeOK /\ [Next]_vars => UNCHANGED lanes \/ \E l \in Lanes : LaneStep(l)
  <1> SUFFICES ASSUME TypeOK, [Next]_vars
               PROVE  UNCHANGED lanes \/ \E l \in Lanes : LaneStep(l)
    OBVIOUS
  <1>0. "ToClient" \in Lanes /\ "ToServer" \in Lanes  BY DEF Lanes
  <1>1. ASSUME Enqueue PROVE LaneStep("ToClient")
    <2>1. Queue("ToClient")  BY <1>1 DEF Enqueue
    <2>2. waiting["ToClient"] = << >> => waiting'["ToClient"][1] = Head(waiting'["ToClient"])
                                       /\ 1 \in DOMAIN waiting'["ToClient"]
      BY <2>1, <1>0 DEF Queue, TypeOK, Entry
    <2>3. QueueStep("ToClient")  BY <1>1, <2>1, <2>2 DEF Enqueue, QueueStep, Fetch
    <2> QED BY <2>3 DEF LaneStep
  <1>2. CASE ServerHandlesSyn  BY <1>0, <1>1, <1>2 DEF ServerHandlesSyn
  <1>3. CASE ServerQueues      BY <1>0, <1>1, <1>3 DEF ServerQueues
  <1>4. CASE ServerRetries     BY <1>0, <1>4 DEF ServerRetries, LaneStep
  <1>5. CASE ServerReceives    BY <1>0, <1>5 DEF ServerReceives, LaneStep
  <1>6. CASE ServerHearsAck
    <2> DEFINE fifo == waiting["ToClient"]
               news == {fifo[i] : i \in DOMAIN fifo \cap {2}}
    <2>1. PICK a \in acks["ToClient"] : Acknowledge("ToClient", a, news)
      BY <1>6 DEF ServerHearsAck
    <2>2. ASSUME Acknowledged("ToClient", a) PROVE Fetch("ToClient", news)
      <3>1. fifo \in Seq(Entry) /\ fifo # << >> /\ waiting'["ToClient"] = Tail(fifo)
        BY <1>0, <2>1, <2>2 DEF Acknowledge, Acknowledged, TypeOK
      <3>2. CASE Len(fifo) = 1
        <4>1. news = {}  BY <3>1, <3>2
        <4> QED BY <4>1 DEF Fetch
      <3>3. CASE Len(fifo) # 1
        <4>1. 2 \in DOMAIN fifo /\ 1 \in DOMAIN Tail(fifo) /\ Tail(fifo)[1] = fifo[2]
          <5> HIDE DEF fifo
          <5>1. Len(fifo) \in Nat \ {0, 1}  BY <3>1, <3>3, TailParts
          <5>2. \A n \in Nat \ {0, 1} : 1 \in 1..(n - 1) /\ 2 \in 1..n  OBVIOUS
          <5>3. 1 \in 1..(Len(fifo) - 1) /\ 2 \in 1..Len(fifo)  BY <5>1, <5>2
          <5> QED BY <3>1, <5>1, <5>3, TailParts
        <4>2. news = {fifo[2]}  BY <4>1
        <4> QED BY <3>1, <4>1, <4>2 DEF Fetch
      <3> QED BY <3>2, <3>3
    <2>3. AckStep("ToClient")  BY <2>1, <2>2 DEF AckStep
    <2> QED BY <1>0, <2>3 DEF LaneStep
  <1>7. CASE ClientQueues
    <2>1. QueueStep("ToServer")
      <3>1. Emit("ToServer", {})  BY <1>0, <1>7 DEF ClientQueues, Emit, TypeOK
      <3> QED BY <1>7, <3>1 DEF ClientQueues, QueueStep, Fetch
    <2> QED BY <1>0, <2>1 DEF LaneStep
  <1>8. CASE ClientRetries   BY <1>0, <1>8 DEF ClientRetries, LaneStep
  <1>9. CASE ClientReceives  BY <1>0, <1>9 DEF ClientReceives, LaneStep
  <1>10. CASE ClientHearsAck
    <2>1. AckStep("ToServer")  BY <1>10 DEF ClientHearsAck, AckStep, Fetch
    <2> QED BY <1>0, <2>1 DEF LaneStep
  <1>11. CASE \E l \in Lanes : Lose(l)
    BY <1>11 DEF Lose, LoseStep, LaneStep
  <1>12. CASE UNCHANGED vars  BY <1>12 DEF vars
  <1>13. CASE \/ ServerHandlesDisconnect \/ ServerDisconnects \/ ServerHandlesDisconnectAck
              \/ ServerDrains \/ ServerTimesOut
    BY <1>13 DEF ServerHandlesDisconnect, ServerDisconnects, ServerHandlesDisconnectAck,
                 ServerDrains, ServerTimesOut
  <1>14. CASE \/ ClientSendsSyn \/ ClientGivesUp \/ ClientHandlesRejected \/ ClientHandlesDisconnect
              \/ ClientHandlesDisconnectAck \/ ClientQuits \/ ClientStopsWaiting
              \/ ClientDrains \/ ClientTimesOut
    BY <1>14 DEF ClientSendsSyn, ClientGivesUp, ClientHandlesRejected, ClientHandlesDisconnect,
                 ClientHandlesDisconnectAck, ClientQuits, ClientStopsWaiting, ClientDrains,
                 ClientTimesOut
  <1> QED BY <1>2, <1>3, <1>4, <1>5, <1>6, <1>7, <1>8, <1>9, <1>10, <1>11, <1>12, <1>13, <1>14
          DEF Next, ServerStep, ClientStep

-----------------------------------------------------------------------------
(* Type correctness.                                                        *)
LaneTypes ==
    /\ submitted \in [Lanes -> Nat]
    /\ waiting \in [Lanes -> Seq(Entry)]
    /\ sendSeq \in [Lanes -> Numbers] /\ recvSeq \in [Lanes -> Numbers]
    /\ delivered \in [Lanes -> Seq(Nat)]
    /\ wire \in [Lanes -> SUBSET Entry] /\ acks \in [Lanes -> SUBSET Ack]
EndTypes ==
    /\ client \in {"Connecting", "Connected", "Disconnecting", "Sleep", "Disconnected", "Gone"}
    /\ retries \in 0..MaxRetries
    /\ server \in {"Absent", "Connected", "Disconnecting", "Sleeping", "Removed"}
    /\ sends \in 0..DisconnectSends
    /\ air \subseteq {"client", "server"} \X {"SYN", "REJECTED", "DISCONNECT", "DISCONNECT_ACK"}

LEMMA NextInNumbers == \A n \in Numbers : Next8(n) \in Numbers
  <1>1. SeqValues \in Nat \ {0}  BY ConnectionAssumption
  <1> SUFFICES ASSUME NEW n \in Numbers PROVE Next8(n) \in Numbers
    OBVIOUS
  <1>2. n + 1 \in Nat  BY <1>1 DEF Numbers
  <1> QED BY <1>1, <1>2, ModuloStep DEF Next8, Numbers

(* An update of one lane keeps a lane variable in its set. *)
LEMMA UpdateType ==
    ASSUME NEW T, NEW f \in [Lanes -> T], NEW l \in Lanes, NEW v \in T
    PROVE  [f EXCEPT ![l] = v] \in [Lanes -> T]
  OBVIOUS

(* Where a lane that moves finds itself after the step. *)
LEMMA QueueFacts ==
    ASSUME LaneTypes, NEW l \in Lanes, QueueStep(l)
    PROVE  LET e == [seq |-> sendSeq[l], packet |-> submitted[l]]
           IN /\ submitted' = [submitted EXCEPT ![l] = submitted[l] + 1] /\ e \in Entry
              /\ waiting' = [waiting EXCEPT ![l] = Append(waiting[l], e)]
              /\ sendSeq' = [sendSeq EXCEPT ![l] = Next8(sendSeq[l])]
              /\ recvSeq' = recvSeq /\ delivered' = delivered /\ acks' = acks
              /\ \E news \in SUBSET {e} : /\ wire' = [wire EXCEPT ![l] = wire[l] \cup news]
                                          /\ news # {} => waiting[l] = << >>
  <1> DEFINE e == [seq |-> sendSeq[l], packet |-> submitted[l]]
  <1>1. e \in Entry  BY DEF LaneTypes, Entry
  <1>2. PICK news : Emit(l, news) /\ Fetch(l, news) /\ (news # {} => waiting[l] = << >>)
    BY DEF QueueStep
  <1>3. Queue(l)  BY DEF QueueStep
  <1>4. waiting'[l] = Append(waiting[l], e)  BY <1>3 DEF Queue, LaneTypes
  <1>5. news \in SUBSET {e}
    <2>1. CASE news = {}  BY <2>1
    <2>2. CASE news # {}
      <3>1. waiting[l] = << >> /\ \E i \in DOMAIN waiting'[l] : i = 1 /\ news = {waiting'[l][i]}
        BY <1>2, <2>2 DEF Fetch
      <3>2. waiting'[l] = <<e>>  BY <1>4, <3>1
      <3> QED BY <3>1, <3>2
    <2> QED BY <2>1, <2>2
  <1> QED BY <1>1, <1>2, <1>3, <1>5 DEF Queue, Emit

LEMMA RetryFacts ==
    ASSUME LaneTypes, NEW l \in Lanes, Retry(l)
    PROVE  /\ waiting[l] # << >> /\ Head(waiting[l]) \in Entry
           /\ wire' = [wire EXCEPT ![l] = wire[l] \cup {Head(waiting[l])}]
           /\ submitted' = submitted /\ waiting' = waiting /\ sendSeq' = sendSeq
           /\ recvSeq' = recvSeq /\ delivered' = delivered /\ acks' = acks
  <1>1. waiting[l] \in Seq(Entry)  BY DEF LaneTypes
  <1> QED BY <1>1, TailParts DEF Retry, Emit

LEMMA ReceiveFacts ==
    ASSUME LaneTypes, NEW l \in Lanes, NEW d \in wire[l], Receive(l, d)
    PROVE  LET answer == [next |-> recvSeq'[l], count |-> Len(delivered'[l])]
           IN /\ d \in Entry /\ answer \in Ack
              /\ acks' = [acks EXCEPT ![l] = acks[l] \cup {answer}]
              /\ wire' \in [Lanes -> SUBSET Entry] /\ wire'[l] \subseteq wire[l]
              /\ \A x \in wire'[l] : x.packet >= Len(delivered'[l]) - MaxStale
              /\ \A k \in Lanes \ {l} : wire'[k] = wire[k]
              /\ submitted' = submitted /\ waiting' = waiting /\ sendSeq' = sendSeq
              /\ \/ d.seq # recvSeq[l] /\ recvSeq' = recvSeq /\ delivered' = delivered
                 \/ /\ d.seq = recvSeq[l] /\ recvSeq' = [recvSeq EXCEPT ![l] = Next8(recvSeq[l])]
                    /\ delivered' = [delivered EXCEPT ![l] = Append(delivered[l], d.packet)]
              /\ recvSeq' \in [Lanes -> Numbers] /\ delivered' \in [Lanes -> Seq(Nat)]
  <1>1. d \in Entry /\ d.packet \in Nat  BY DEF LaneTypes, Entry
  <1>2. recvSeq' \in [Lanes -> Numbers]
    <2>1. recvSeq \in [Lanes -> Numbers] /\ Next8(recvSeq[l]) \in Numbers
      BY NextInNumbers DEF LaneTypes
    <2> QED BY <2>1, UpdateType DEF Receive
  <1>3. delivered' \in [Lanes -> Seq(Nat)]
    <2>1. Append(delivered[l], d.packet) \in Seq(Nat)  BY <1>1, AppendParts DEF LaneTypes
    <2> QED BY <2>1 DEF Receive, LaneTypes
  <1>4. [next |-> recvSeq'[l], count |-> Len(delivered'[l])] \in Ack
    BY <1>2, <1>3 DEF Ack
  <1>5. wire' = [wire EXCEPT ![l] = StillFlying(l, wire[l])]  BY DEF Receive
  <1>6. /\ wire' \in [Lanes -> SUBSET Entry] /\ wire'[l] \subseteq wire[l]
        /\ \A x \in wire'[l] : x.packet >= Len(delivered'[l]) - MaxStale
        /\ \A k \in Lanes \ {l} : wire'[k] = wire[k]
    BY <1>5 DEF LaneTypes, StillFlying
  <1> QED BY <1>1, <1>2, <1>3, <1>4, <1>6 DEF Receive

LEMMA AckFacts ==
    ASSUME LaneTypes, NEW l \in Lanes, AckStep(l)
    PROVE  /\ submitted' = submitted /\ sendSeq' = sendSeq /\ recvSeq' = recvSeq
           /\ delivered' = delivered
           /\ acks' = [acks EXCEPT ![l] = StillHeard(l, acks[l])]
           /\ \/ waiting' = waiting /\ wire' = wire
              \/ \E a \in acks[l], news \in SUBSET Entry :
                    /\ waiting[l] # << >> /\ a.next = Next8(Head(waiting[l]).seq)
                    /\ waiting' = [waiting EXCEPT ![l] = Tail(waiting[l])]
                    /\ wire' = [wire EXCEPT ![l] = wire[l] \cup news]
                    /\ Fetch(l, news)
  <1>0. PICK a \in acks[l] : \E news :
            Acknowledge(l, a, news) /\ (Acknowledged(l, a) => Fetch(l, news))
    BY DEF AckStep
  <1>1. PICK news : Acknowledge(l, a, news) /\ (Acknowledged(l, a) => Fetch(l, news))
    BY <1>0
  <1>2. ASSUME Acknowledged(l, a) PROVE news \in SUBSET Entry
    <2>1. Fetch(l, news)  BY <1>1, <1>2
    <2>2. waiting[l] \in Seq(Entry) /\ waiting[l] # << >> /\ waiting'[l] = Tail(waiting[l])
      BY <1>1, <1>2 DEF Acknowledged, Acknowledge, LaneTypes
    <2>3. waiting'[l] \in Seq(Entry)  BY <2>2, TailParts
    <2> QED BY <2>1, <2>3 DEF Fetch
  <1>3. CASE Acknowledged(l, a)  BY <1>1, <1>2, <1>3 DEF Acknowledge, Acknowledged, Emit
  <1>4. CASE ~Acknowledged(l, a)  BY <1>1, <1>4 DEF Acknowledge
  <1> QED BY <1>3, <1>4

LEMMA LaneTypeStep == ASSUME LaneTypes, NEW l \in Lanes, LaneStep(l) PROVE LaneTypes'
  <1>1. CASE QueueStep(l)
    <2> DEFINE e == [seq |-> sendSeq[l], packet |-> submitted[l]]
    <2>1. e \in Entry /\ Next8(sendSeq[l]) \in Numbers /\ Append(waiting[l], e) \in Seq(Entry)
      BY <1>1, QueueFacts, NextInNumbers, AppendParts DEF LaneTypes
    <2>2. PICK news \in SUBSET {e} : wire' = [wire EXCEPT ![l] = wire[l] \cup news]
      BY <1>1, QueueFacts
    <2>3. wire' \in [Lanes -> SUBSET Entry]
      <3>1. wire[l] \cup news \in SUBSET Entry  BY <2>1 DEF LaneTypes
      <3> QED BY <2>2, <3>1, UpdateType DEF LaneTypes
    <2>4. waiting' = [waiting EXCEPT ![l] = Append(waiting[l], e)]  BY <1>1, QueueFacts
    <2>5. waiting' \in [Lanes -> Seq(Entry)]  BY <2>1, <2>4, UpdateType DEF LaneTypes
    <2>6. submitted' \in [Lanes -> Nat] /\ sendSeq' \in [Lanes -> Numbers]
      <3>1. submitted' = [submitted EXCEPT ![l] = submitted[l] + 1]
            /\ sendSeq' = [sendSeq EXCEPT ![l] = Next8(sendSeq[l])]
        BY <1>1, QueueFacts
      <3> QED BY <2>1, <3>1 DEF LaneTypes
    <2> QED BY <1>1, <2>3, <2>5, <2>6, QueueFacts DEF LaneTypes
  <1>2. CASE Retry(l)
    <2>1. wire[l] \cup {Head(waiting[l])} \in SUBSET Entry  BY <1>2, RetryFacts DEF LaneTypes
    <2>2. wire' \in [Lanes -> SUBSET Entry]
      <3>1. wire' = [wire EXCEPT ![l] = wire[l] \cup {Head(waiting[l])}]  BY <1>2, RetryFacts
      <3>2. wire \in [Lanes -> SUBSET Entry]  BY DEF LaneTypes
      <3> QED BY <2>1, <3>1, <3>2, UpdateType
    <2> QED BY <1>2, <2>2, RetryFacts DEF LaneTypes
  <1>3. CASE AckStep(l)
    <2>1. waiting' \in [Lanes -> Seq(Entry)] /\ wire' \in [Lanes -> SUBSET Entry]
      <3>1. CASE waiting' = waiting /\ wire' = wire  BY <3>1 DEF LaneTypes
      <3>2. CASE ~(waiting' = waiting /\ wire' = wire)
        <4>1. PICK a \in acks[l], news \in SUBSET Entry :
                  /\ waiting[l] # << >>
                  /\ waiting' = [waiting EXCEPT ![l] = Tail(waiting[l])]
                  /\ wire' = [wire EXCEPT ![l] = wire[l] \cup news]
          BY <1>3, <3>2, AckFacts
        <4>2. Tail(waiting[l]) \in Seq(Entry) /\ wire[l] \cup news \in SUBSET Entry
          BY <4>1, TailParts DEF LaneTypes
        <4> QED BY <4>1, <4>2, UpdateType DEF LaneTypes
      <3> QED BY <3>1, <3>2
    <2>2. acks' \in [Lanes -> SUBSET Ack]
      <3>1. StillHeard(l, acks[l]) \in SUBSET Ack  BY DEF LaneTypes, StillHeard
      <3>2. acks' = [acks EXCEPT ![l] = StillHeard(l, acks[l])]  BY <1>3, AckFacts
      <3> QED BY <3>1, <3>2, UpdateType DEF LaneTypes
    <2> QED BY <1>3, <2>1, <2>2, AckFacts DEF LaneTypes
  <1>4. CASE LoseStep(l)
    <2>1. wire' \in [Lanes -> SUBSET Entry] /\ acks' \in [Lanes -> SUBSET Ack]
      BY <1>4 DEF LoseStep, LaneTypes
    <2> QED BY <1>4, <2>1 DEF LoseStep, LaneTypes
  <1>5. CASE \E d \in wire[l] : Receive(l, d)
    <2>1. PICK d \in wire[l] : Receive(l, d)  BY <1>5
    <2> DEFINE answer == [next |-> recvSeq'[l], count |-> Len(delivered'[l])]
    <2>2. answer \in Ack /\ acks' = [acks EXCEPT ![l] = acks[l] \cup {answer}]
      BY <2>1, ReceiveFacts
    <2>3. acks[l] \cup {answer} \in SUBSET Ack  BY <2>2 DEF LaneTypes
    <2>4. acks' \in [Lanes -> SUBSET Ack]  BY <2>2, <2>3, UpdateType DEF LaneTypes
    <2>5. /\ wire' \in [Lanes -> SUBSET Entry]
          /\ submitted' = submitted /\ waiting' = waiting /\ sendSeq' = sendSeq
          /\ recvSeq' \in [Lanes -> Numbers] /\ delivered' \in [Lanes -> Seq(Nat)]
      BY <2>1, ReceiveFacts
    <2> QED BY <2>4, <2>5 DEF LaneTypes
  <1> QED BY <1>1, <1>2, <1>3, <1>4, <1>5 DEF LaneStep

LEMMA EndTypeStep == TypeOK /\ [Next]_vars => EndTypes'
  <1> SUFFICES ASSUME TypeOK, [Next]_vars PROVE EndTypes'
    OBVIOUS
  <1> USE DEF EndTypes, TypeOK, Send
  <1>0. {MaxRetries, DisconnectSends} \subseteq Nat \ {0}  BY ConnectionAssumption
  <1>1. CASE ServerHandlesSyn  BY <1>1 DEF ServerHandlesSyn, ends
  <1>2. CASE ServerQueues      BY <1>2 DEF ServerQueues
  <1>3. CASE ServerRetries \/ ServerReceives \/ ServerHearsAck
    BY <1>3 DEF ServerRetries, ServerReceives, ServerHearsAck, ends
  <1>4. CASE ServerHandlesDisconnect    BY <1>4 DEF ServerHandlesDisconnect
  <1>5. CASE ServerDisconnects          BY <1>0, <1>5 DEF ServerDisconnects
  <1>6. CASE ServerHandlesDisconnectAck BY <1>6 DEF ServerHandlesDisconnectAck
  <1>7. CASE ServerDrains               BY <1>0, <1>7 DEF ServerDrains
  <1>8. CASE ServerTimesOut             BY <1>8 DEF ServerTimesOut
  <1>9. CASE ClientSendsSyn             BY <1>9 DEF ClientSendsSyn, ends
  <1>10. CASE ClientGivesUp \/ ClientHandlesRejected \/ ClientStopsWaiting \/ ClientTimesOut
    BY <1>10 DEF ClientGivesUp, ClientHandlesRejected, ClientStopsWaiting, ClientTimesOut
  <1>11. CASE ClientQueues \/ ClientRetries \/ ClientHearsAck
    BY <1>11 DEF ClientQueues, ClientRetries, ClientHearsAck, ends
  <1>12. CASE ClientReceives              BY <1>12 DEF ClientReceives
  <1>13. CASE ClientHandlesDisconnect     BY <1>13 DEF ClientHandlesDisconnect
  <1>14. CASE ClientHandlesDisconnectAck  BY <1>14 DEF ClientHandlesDisconnectAck
  <1>15. CASE ClientQuits                 BY <1>0, <1>15 DEF ClientQuits
  <1>16. CASE ClientDrains                BY <1>0, <1>16 DEF ClientDrains
  <1>17. CASE \E l \in Lanes : Lose(l)    BY <1>17 DEF Lose, ends
  <1>18. CASE UNCHANGED vars              BY <1>18 DEF vars, ends
  <1> QED BY <1>1, <1>2, <1>3, <1>4, <1>5, <1>6, <1>7, <1>8, <1>9, <1>10, <1>11, <1>12, <1>13,
             <1>14, <1>15, <1>16, <1>17, <1>18
          DEF Next, ServerStep, ClientStep

LEMMA TypeStep == TypeOK /\ [Next]_vars => TypeOK'
  <1> SUFFICES ASSUME TypeOK, [Next]_vars PROVE TypeOK'
    OBVIOUS
  <1>1. LaneTypes  BY DEF TypeOK, LaneTypes
  <1>2. LaneTypes'
    <2>1. CASE UNCHANGED lanes  BY <1>1, <2>1 DEF lanes, LaneTypes
    <2>2. CASE \E l \in Lanes : LaneStep(l)  BY <1>1, <2>2, LaneTypeStep
    <2> QED BY <2>1, <2>2, StepCases
  <1>3. EndTypes'  BY EndTypeStep
  <1> QED BY <1>2, <1>3 DEF TypeOK, LaneTypes, EndTypes

-----------------------------------------------------------------------------
(* The lane invariant: one lemma per way a lane moves.                      *)

(* The numbers the argument is about. *)
LEMMA LaneNumbers ==
    ASSUME LaneTypes, NEW l \in Lanes, LaneInv(l)
    PROVE  /\ submitted[l] \in Nat /\ Len(waiting[l]) \in Nat /\ Len(delivered[l]) \in Nat
           /\ waiting[l] \in Seq(Entry) /\ delivered[l] \in Seq(Nat)
           /\ DOMAIN waiting[l] = 1..Len(waiting[l]) /\ DOMAIN delivered[l] = 1..Len(delivered[l])
           /\ Popped(l) \in Nat /\ Popped(l) + Len(waiting[l]) = submitted[l]
           /\ MaxStale \in Nat /\ SeqValues \in Nat \ {0} /\ 1 <= MaxStale /\ MaxStale < SeqValues
  <1>1. submitted[l] \in Nat /\ waiting[l] \in Seq(Entry) /\ delivered[l] \in Seq(Nat)
    BY DEF LaneTypes
  <1>2. Len(waiting[l]) \in Nat /\ Len(delivered[l]) \in Nat  BY <1>1
  <1>3. Len(waiting[l]) <= submitted[l]  BY DEF LaneInv, Counted
  <1>4. Popped(l) \in Nat /\ Popped(l) + Len(waiting[l]) = submitted[l]
    BY <1>1, <1>2, <1>3 DEF Popped
  <1> QED BY <1>1, <1>2, <1>4, ConnectionAssumption

LEMMA QueueInv == ASSUME LaneTypes, NEW l \in Lanes, LaneInv(l), QueueStep(l) PROVE LaneInv(l)'
  <1> DEFINE n == submitted[l]
             w == waiting[l]
             e == [seq |-> sendSeq[l], packet |-> n]
  <1>1. /\ submitted'[l] = n + 1 /\ waiting'[l] = Append(w, e) /\ e \in Entry
        /\ sendSeq'[l] = Next8(sendSeq[l])
        /\ recvSeq' = recvSeq /\ delivered' = delivered /\ acks' = acks
    BY QueueFacts DEF LaneTypes
  <1>2. PICK news \in SUBSET {e} : wire'[l] = wire[l] \cup news /\ (news # {} => w = << >>)
    BY QueueFacts DEF LaneTypes
  <1>3. n \in Nat /\ w \in Seq(Entry) /\ Len(w) \in Nat  BY LaneNumbers
  <1>4. Len(waiting'[l]) = Len(w) + 1 /\ DOMAIN waiting'[l] = 1..(Len(w) + 1)
    BY <1>1, <1>3, AppendParts
  <1>5. Popped(l)' = Popped(l)
    <2>1. Popped(l)' = (n + 1) - (Len(w) + 1)  BY <1>1, <1>4 DEF Popped
    <2>2. Popped(l) = n - Len(w)  BY DEF Popped
    <2> QED BY <1>3, <2>1, <2>2
  <1>6. Counted(l)'
    <2>1. sendSeq'[l] = (n + 1) % SeqValues
      BY <1>1, <1>3, NextIsSuccessor DEF LaneInv, Counted
    <2>2. Len(w) + 1 <= n + 1 /\ Len(delivered[l]) <= n + 1
      BY <1>3, LaneNumbers DEF LaneInv, Counted
    <2> QED BY <1>1, <1>4, <1>5, <2>1, <2>2 DEF LaneInv, Counted
  <1>7. InOrder(l)'
    <2>1. ASSUME NEW i \in 1..(Len(w) + 1)
          PROVE  waiting'[l][i] = [seq |-> (Popped(l) + i - 1) % SeqValues, packet |-> Popped(l) + i - 1]
      <3>1. CASE i \in 1..Len(w)
        <4>1. waiting'[l][i] = w[i]  BY <1>1, <1>3, <3>1, AppendParts
        <4> QED BY <3>1, <4>1, LaneNumbers DEF LaneInv, InOrder
      <3>2. CASE i = Len(w) + 1
        <4>1. waiting'[l][i] = e  BY <1>1, <1>3, <3>2, AppendParts
        <4>2. Popped(l) + i - 1 = n  BY <1>3, <3>2, LaneNumbers
        <4>3. sendSeq[l] = n % SeqValues  BY DEF LaneInv, Counted
        <4> QED BY <4>1, <4>2, <4>3
      <3> QED BY <1>3, <3>1, <3>2
    <2> QED BY <1>1, <1>4, <1>5, <2>1 DEF LaneInv, InOrder
  <1>8. WireFresh(l)'
    <2>1. ASSUME NEW d \in wire[l]
          PROVE  /\ d.seq = d.packet % SeqValues /\ d.packet <= Popped(l) /\ d.packet < n + 1
                 /\ Len(delivered[l]) - MaxStale <= d.packet
      <3>1. d.packet \in Nat /\ d.packet < n  BY DEF LaneTypes, Entry, LaneInv, WireFresh
      <3> QED BY <1>3, <3>1 DEF LaneInv, WireFresh
    <2>2. ASSUME news # {}
          PROVE  /\ e.seq = e.packet % SeqValues /\ e.packet <= Popped(l) /\ e.packet < n + 1
                 /\ Len(delivered[l]) - MaxStale <= e.packet
      <3>1. Len(w) = 0  BY <1>2, <2>2
      <3>2. Popped(l) = n /\ Len(delivered[l]) <= n
        BY <1>3, <3>1, LaneNumbers DEF LaneInv, Counted
      <3>3. e.seq = n % SeqValues /\ e.packet = n  BY DEF LaneInv, Counted
      <3> QED BY <1>3, <3>2, <3>3, LaneNumbers
    <2> QED BY <1>1, <1>2, <1>5, <2>1, <2>2 DEF WireFresh
  <1>9. AcksFresh(l)'  BY <1>1, <1>5 DEF LaneInv, AcksFresh
  <1> QED BY <1>6, <1>7, <1>8, <1>9 DEF LaneInv

(* The head of a FIFO is the oldest packet not yet popped. *)
LEMMA HeadIsPopped ==
    ASSUME LaneTypes, NEW l \in Lanes, LaneInv(l), waiting[l] # << >>
    PROVE  /\ Head(waiting[l]) = [seq |-> Popped(l) % SeqValues, packet |-> Popped(l)]
           /\ Len(waiting[l]) >= 1
  <1>1. Len(waiting[l]) \in Nat \ {0} /\ 1 \in DOMAIN waiting[l] /\ Head(waiting[l]) = waiting[l][1]
    BY LaneNumbers, TailParts
  <1>2. waiting[l][1] = [seq |-> (Popped(l) + 1 - 1) % SeqValues, packet |-> Popped(l) + 1 - 1]
    BY <1>1 DEF LaneInv, InOrder
  <1>3. Popped(l) + 1 - 1 = Popped(l)  BY LaneNumbers
  <1>4. Len(waiting[l]) >= 1  BY <1>1
  <1> QED BY <1>1, <1>2, <1>3, <1>4

LEMMA RetryInv == ASSUME LaneTypes, NEW l \in Lanes, LaneInv(l), Retry(l) PROVE LaneInv(l)'
  <1> DEFINE d == Head(waiting[l])
  <1>1. /\ waiting[l] # << >> /\ wire'[l] = wire[l] \cup {d}
        /\ submitted' = submitted /\ waiting' = waiting /\ sendSeq' = sendSeq
        /\ recvSeq' = recvSeq /\ delivered' = delivered /\ acks' = acks
    <2>1. /\ waiting[l] # << >> /\ wire' = [wire EXCEPT ![l] = wire[l] \cup {d}]
          /\ submitted' = submitted /\ waiting' = waiting /\ sendSeq' = sendSeq
          /\ recvSeq' = recvSeq /\ delivered' = delivered /\ acks' = acks
      BY RetryFacts
    <2>2. wire'[l] = wire[l] \cup {d}  BY <2>1 DEF LaneTypes
    <2> QED BY <2>1, <2>2
  <1>2. Popped(l)' = Popped(l)  BY <1>1 DEF Popped
  <1>3. d = [seq |-> Popped(l) % SeqValues, packet |-> Popped(l)] /\ Len(waiting[l]) >= 1
    <2>1. waiting[l] # << >>  BY <1>1
    <2> QED BY <2>1, HeadIsPopped
  <1>4. /\ d.seq = d.packet % SeqValues /\ d.packet <= Popped(l) /\ d.packet < submitted[l]
        /\ Len(delivered[l]) - MaxStale <= d.packet
    <2>1. Popped(l) < submitted[l]  BY <1>3, LaneNumbers
    <2>2. Len(delivered[l]) <= Popped(l) + 1  BY DEF LaneInv, Counted
    <2>3. Len(delivered[l]) - MaxStale <= Popped(l) /\ Popped(l) <= Popped(l)
      BY <2>2, LaneNumbers
    <2>4. d.seq = Popped(l) % SeqValues /\ d.packet = Popped(l)  BY <1>3
    <2> HIDE DEF d
    <2> QED BY <2>1, <2>3, <2>4
  <1>5. WireFresh(l)'  BY <1>1, <1>2, <1>4 DEF LaneInv, WireFresh
  <1>6. Counted(l)' /\ InOrder(l)' /\ AcksFresh(l)'
    BY <1>1, <1>2 DEF LaneInv, Counted, InOrder, AcksFresh
  <1> QED BY <1>5, <1>6 DEF LaneInv

LEMMA LoseInv == ASSUME LaneTypes, NEW l \in Lanes, LaneInv(l), LoseStep(l) PROVE LaneInv(l)'
  <1>1. /\ wire'[l] \subseteq wire[l] /\ acks'[l] \subseteq acks[l]
        /\ submitted' = submitted /\ waiting' = waiting /\ sendSeq' = sendSeq
        /\ recvSeq' = recvSeq /\ delivered' = delivered
    BY DEF LoseStep, LaneTypes
  <1>2. Popped(l)' = Popped(l)  BY <1>1 DEF Popped
  <1> QED BY <1>1, <1>2 DEF LaneInv, Counted, InOrder, WireFresh, AcksFresh

(* A packet is taken only if it is the next one: a stale copy of an earlier *)
(* one is less than a turn behind, so its number differs.                   *)
LEMMA TakenIsNext ==
    ASSUME LaneTypes, NEW l \in Lanes, LaneInv(l), NEW d \in wire[l], d.seq = recvSeq[l]
    PROVE  d.packet = Len(delivered[l]) /\ Len(delivered[l]) = Popped(l) /\ Len(delivered[l]) < submitted[l]
  <1> DEFINE k == Len(delivered[l])
             p == d.packet
  <1>1. p \in Nat  BY DEF LaneTypes, Entry
  <1>2. /\ p % SeqValues = k % SeqValues /\ p <= Popped(l) /\ p < submitted[l]
        /\ k - MaxStale <= p /\ Popped(l) <= k
    BY DEF LaneInv, WireFresh, Counted
  <1>3. p <= k /\ k < p + SeqValues  BY <1>1, <1>2, LaneNumbers
  <1>4. p = k  BY <1>1, <1>2, <1>3, LaneNumbers, SameTurn
  <1> QED BY <1>1, <1>2, <1>4, LaneNumbers

LEMMA ReceiveInv ==
    ASSUME LaneTypes, NEW l \in Lanes, LaneInv(l), NEW d \in wire[l], Receive(l, d)
    PROVE  LaneInv(l)'
  <1> DEFINE k == Len(delivered[l])
             answer == [next |-> recvSeq'[l], count |-> Len(delivered'[l])]
  <1>1. /\ submitted' = submitted /\ waiting' = waiting /\ sendSeq' = sendSeq
        /\ acks'[l] = acks[l] \cup {answer} /\ wire'[l] \subseteq wire[l]
        /\ \A x \in wire'[l] : x.packet >= Len(delivered'[l]) - MaxStale
    <2>1. /\ submitted' = submitted /\ waiting' = waiting /\ sendSeq' = sendSeq
          /\ acks' = [acks EXCEPT ![l] = acks[l] \cup {answer}]
          /\ wire'[l] \subseteq wire[l]
          /\ \A x \in wire'[l] : x.packet >= Len(delivered'[l]) - MaxStale
      BY ReceiveFacts
    <2>2. acks'[l] = acks[l] \cup {answer}  BY <2>1 DEF LaneTypes
    <2> QED BY <2>1, <2>2
  <1>2. Popped(l)' = Popped(l)  BY <1>1 DEF Popped
  <1>3. WireFresh(l)'
    <2>1. ASSUME NEW x \in wire'[l]
          PROVE  Len(delivered'[l]) - MaxStale <= x.packet
      <3>1. x.packet \in Nat /\ Len(delivered'[l]) \in Nat
        BY <1>1, ReceiveFacts DEF LaneTypes, Entry
      <3> QED BY <1>1, <3>1, LaneNumbers
    <2> QED BY <1>1, <1>2, <2>1 DEF LaneInv, WireFresh
  <1>4. CASE d.seq # recvSeq[l]
    <2>1. recvSeq' = recvSeq /\ delivered' = delivered  BY <1>4, ReceiveFacts
    <2>2. Popped(l) + 1 - MaxStale <= k  BY LaneNumbers DEF LaneInv, Counted
    <2>3. AcksFresh(l)'
      <3>1. answer.next = answer.count % SeqValues /\ answer.count = k
        BY <2>1 DEF LaneInv, Counted
      <3>2. k <= k  BY LaneNumbers
      <3> QED BY <1>1, <1>2, <2>1, <2>2, <3>1, <3>2 DEF LaneInv, AcksFresh
    <2> QED BY <1>1, <1>2, <1>3, <2>1, <2>3 DEF LaneInv, Counted, InOrder
  <1>5. CASE d.seq = recvSeq[l]
    <2>1. d.packet = k /\ k = Popped(l) /\ k < submitted[l]  BY <1>5, TakenIsNext
    <2>2. recvSeq'[l] = Next8(recvSeq[l]) /\ delivered'[l] = Append(delivered[l], k)
      <3>1. /\ recvSeq' = [recvSeq EXCEPT ![l] = Next8(recvSeq[l])]
            /\ delivered' = [delivered EXCEPT ![l] = Append(delivered[l], d.packet)]
        BY <1>5 DEF Receive
      <3> QED BY <2>1, <3>1 DEF LaneTypes
    <2>3. k \in Nat /\ delivered[l] \in Seq(Nat)  BY LaneNumbers
    <2>4. Len(delivered'[l]) = k + 1 /\ DOMAIN delivered'[l] = 1..(k + 1)
      BY <2>2, <2>3, AppendParts
    <2>5. recvSeq'[l] = (k + 1) % SeqValues
      BY <2>2, <2>3, NextIsSuccessor DEF LaneInv, Counted
    <2>6. Counted(l)'
      <3>1. k + 1 <= submitted[l] /\ Popped(l) <= k + 1 /\ k + 1 <= Popped(l) + 1
        BY <2>1, <2>3, LaneNumbers
      <3> QED BY <1>1, <1>2, <2>4, <2>5, <3>1 DEF LaneInv, Counted
    <2>7. InOrder(l)'
      <3>1. ASSUME NEW i \in 1..(k + 1) PROVE delivered'[l][i] = i - 1
        <4>1. CASE i \in 1..k
          <5>1. delivered'[l][i] = delivered[l][i]  BY <2>2, <2>3, <4>1, AppendParts
          <5> QED BY <4>1, <5>1, LaneNumbers DEF LaneInv, InOrder
        <4>2. CASE i = k + 1
          <5>1. delivered'[l][i] = k  BY <2>2, <2>3, <4>2, AppendParts
          <5> QED BY <2>3, <4>2, <5>1
        <4> QED BY <2>3, <4>1, <4>2
      <3> QED BY <1>1, <1>2, <2>4, <3>1 DEF LaneInv, InOrder
    <2>8. AcksFresh(l)'
      <3>1. ASSUME NEW a \in acks[l]
            PROVE  /\ a.next = a.count % SeqValues
                   /\ Popped(l) + 1 - MaxStale <= a.count /\ a.count <= k + 1
        <4>1. a.count \in Nat /\ a.count <= k  BY DEF LaneTypes, Ack, LaneInv, AcksFresh
        <4> QED BY <2>3, <4>1 DEF LaneInv, AcksFresh
      <3>2. /\ answer.next = answer.count % SeqValues /\ answer.count = k + 1
            /\ Popped(l) + 1 - MaxStale <= k + 1 /\ k + 1 <= k + 1
        BY <2>1, <2>3, <2>4, <2>5, LaneNumbers
      <3> QED BY <1>1, <1>2, <2>4, <3>1, <3>2 DEF AcksFresh
    <2> QED BY <1>3, <2>6, <2>7, <2>8 DEF LaneInv
  <1> QED BY <1>4, <1>5

(* An acknowledgement pops the head only if the head was processed: a stale *)
(* one is less than a turn behind. *)
LEMMA PoppedIsRead ==
    ASSUME LaneTypes, NEW l \in Lanes, LaneInv(l), waiting[l] # << >>, NEW a \in acks[l],
           a.next = Next8(Head(waiting[l]).seq)
    PROVE  Len(delivered[l]) = Popped(l) + 1
  <1> DEFINE p == Popped(l)
             c == a.count
  <1>1. c \in Nat /\ p \in Nat /\ p + 1 \in Nat  BY LaneNumbers DEF LaneTypes, Ack
  <1>2. /\ c % SeqValues = a.next /\ p + 1 - MaxStale <= c /\ c <= Len(delivered[l])
        /\ Len(delivered[l]) <= p + 1
    BY DEF LaneInv, AcksFresh, Counted
  <1>3. a.next = (p + 1) % SeqValues
    <2>1. Head(waiting[l]) = [seq |-> Popped(l) % SeqValues, packet |-> Popped(l)]
      BY HeadIsPopped
    <2>2. Head(waiting[l]).seq = p % SeqValues  BY <2>1
    <2> QED BY <1>1, <2>2, NextIsSuccessor
  <1>4. c <= p + 1 /\ p + 1 < c + SeqValues  BY <1>1, <1>2, LaneNumbers
  <1>5. c = p + 1  BY <1>1, <1>2, <1>3, <1>4, LaneNumbers, SameTurn
  <1> QED BY <1>1, <1>2, <1>5, LaneNumbers

LEMMA AckInv == ASSUME LaneTypes, NEW l \in Lanes, LaneInv(l), AckStep(l) PROVE LaneInv(l)'
  <1>1. /\ submitted' = submitted /\ sendSeq' = sendSeq /\ recvSeq' = recvSeq
        /\ delivered' = delivered /\ acks'[l] = StillHeard(l, acks[l])
    BY AckFacts DEF LaneTypes
  <1>2. CASE waiting' = waiting /\ wire' = wire
    <2>1. Popped(l)' = Popped(l)  BY <1>1, <1>2 DEF Popped
    <2>2. acks'[l] \subseteq acks[l]  BY <1>1 DEF StillHeard
    <2> QED BY <1>1, <1>2, <2>1, <2>2 DEF LaneInv, Counted, InOrder, WireFresh, AcksFresh
  <1>3. CASE ~(waiting' = waiting /\ wire' = wire)
    <2> DEFINE w == waiting[l]
               p == Popped(l)
               k == Len(delivered[l])
    <2>1. PICK a \in acks[l], news \in SUBSET Entry :
              /\ w # << >> /\ a.next = Next8(Head(w).seq) /\ waiting'[l] = Tail(w)
              /\ wire'[l] = wire[l] \cup news /\ Fetch(l, news)
      <3>1. PICK a \in acks[l], news \in SUBSET Entry :
                /\ w # << >> /\ a.next = Next8(Head(w).seq)
                /\ waiting' = [waiting EXCEPT ![l] = Tail(w)]
                /\ wire' = [wire EXCEPT ![l] = wire[l] \cup news]
                /\ Fetch(l, news)
        BY <1>3, AckFacts
      <3>2. waiting'[l] = Tail(w) /\ wire'[l] = wire[l] \cup news  BY <3>1 DEF LaneTypes
      <3> QED BY <3>1, <3>2
    <2>2. k = p + 1  BY <2>1, PoppedIsRead
    <2>3. /\ w \in Seq(Entry) /\ Len(w) \in Nat \ {0} /\ Len(Tail(w)) = Len(w) - 1
          /\ DOMAIN Tail(w) = 1..(Len(w) - 1)
          /\ \A i \in 1..(Len(w) - 1) : Tail(w)[i] = w[i + 1]
      <3>1. w \in Seq(Entry) /\ w # << >>  BY <2>1, LaneNumbers
      <3> HIDE DEF w
      <3> QED BY <3>1, TailParts
    <2>4. /\ submitted[l] \in Nat /\ p \in Nat /\ k \in Nat /\ p + Len(w) = submitted[l]
          /\ DOMAIN w = 1..Len(w)
      BY LaneNumbers
    <2>5. Popped(l)' = p + 1
      <3>1. Popped(l)' = submitted[l] - (Len(w) - 1)  BY <1>1, <2>1, <2>3 DEF Popped
      <3> QED BY <2>3, <2>4, <3>1
    <2>6. Counted(l)'
      <3>1. Len(w) - 1 <= submitted[l] /\ p + 1 <= k /\ k <= p + 1 + 1
        BY <2>2, <2>3, <2>4
      <3> QED BY <1>1, <2>1, <2>3, <2>5, <3>1 DEF LaneInv, Counted
    <2>7. InOrder(l)'
      <3>1. ASSUME NEW i \in 1..(Len(w) - 1)
            PROVE  waiting'[l][i] = [seq |-> (p + 1 + i - 1) % SeqValues, packet |-> p + 1 + i - 1]
        <4>1. waiting'[l][i] = w[i + 1] /\ i + 1 \in 1..Len(w)  BY <2>1, <2>3
        <4>2. w[i + 1] = [seq |-> (p + (i + 1) - 1) % SeqValues, packet |-> p + (i + 1) - 1]
          BY <2>4, <4>1 DEF LaneInv, InOrder
        <4>3. p + (i + 1) - 1 = p + 1 + i - 1  BY <2>3, <2>4
        <4> QED BY <4>1, <4>2, <4>3
      <3> QED BY <1>1, <2>1, <2>3, <2>5, <3>1 DEF LaneInv, InOrder
    <2>8. WireFresh(l)'
      <3>1. ASSUME NEW d \in wire[l]
            PROVE  /\ d.seq = d.packet % SeqValues /\ d.packet <= p + 1 /\ d.packet < submitted[l]
                   /\ k - MaxStale <= d.packet
        <4>1. d.packet \in Nat /\ d.packet <= p  BY DEF LaneTypes, Entry, LaneInv, WireFresh
        <4> QED BY <2>4, <4>1 DEF LaneInv, WireFresh
      <3>2. ASSUME NEW d \in news
            PROVE  /\ d.seq = d.packet % SeqValues /\ d.packet <= p + 1 /\ d.packet < submitted[l]
                   /\ k - MaxStale <= d.packet
        <4>1. 1 \in 1..(Len(w) - 1) /\ d = waiting'[l][1]  BY <2>1, <2>3, <3>2 DEF Fetch
        <4>2. d = [seq |-> (p + 1 + 1 - 1) % SeqValues, packet |-> p + 1 + 1 - 1]
          BY <2>1, <2>3, <2>5, <2>7, <4>1 DEF InOrder
        <4>3. p + 1 + 1 - 1 = p + 1 /\ p + 1 < submitted[l] /\ k - MaxStale <= p + 1
          BY <2>2, <2>3, <2>4, <4>1, LaneNumbers
        <4>4. p + 1 <= p + 1  BY <2>4
        <4> QED BY <4>2, <4>3, <4>4
      <3> QED BY <1>1, <2>1, <2>5, <3>1, <3>2 DEF WireFresh
    <2>9. AcksFresh(l)'
      <3>1. ASSUME NEW b \in acks'[l]
            PROVE  b \in acks[l] /\ (p + 1) + 1 - MaxStale <= b.count
        <4>1. b \in acks[l] /\ b.count >= Popped(l)' + 1 - MaxStale
          BY <1>1 DEF StillHeard, Popped
        <4>2. b.count \in Nat  BY <4>1 DEF LaneTypes, Ack
        <4> QED BY <2>4, <2>5, <4>1, <4>2, LaneNumbers
      <3> QED BY <1>1, <2>5, <3>1 DEF LaneInv, AcksFresh
    <2> QED BY <2>6, <2>7, <2>8, <2>9 DEF LaneInv
  <1> QED BY <1>2, <1>3

-----------------------------------------------------------------------------
LEMMA InitInv == Init => IInv
  <1> SUFFICES ASSUME Init PROVE IInv
    OBVIOUS
  <1>0. SeqValues \in Nat \ {0} /\ MaxStale \in Nat /\ {MaxRetries, DisconnectSends} \subseteq Nat
    BY ConnectionAssumption
  <1>1. 0 % SeqValues = 0 /\ 0 \in Numbers  BY <1>0, SMTT(30) DEF Numbers
  <1>2. TypeOK  BY <1>0, <1>1 DEF Init, TypeOK, Each
  <1>3. ASSUME NEW l \in Lanes PROVE LaneInv(l)
    <2>1. /\ submitted[l] = 0 /\ waiting[l] = << >> /\ delivered[l] = << >>
          /\ sendSeq[l] = 0 /\ recvSeq[l] = 0 /\ wire[l] = {} /\ acks[l] = {}
      BY DEF Init, Each
    <2>2. Len(waiting[l]) = 0 /\ Len(delivered[l]) = 0 /\ Popped(l) = 0
      <3>1. Len(waiting[l]) = 0 /\ Len(delivered[l]) = 0  BY <2>1
      <3>2. Popped(l) = submitted[l] - Len(waiting[l])  BY DEF Popped
      <3>3. submitted[l] = 0  BY <2>1
      <3>4. Popped(l) = 0 - 0  BY <3>1, <3>2, <3>3
      <3> QED BY <3>1, <3>4
    <2>3. Counted(l)  BY <1>1, <2>1, <2>2 DEF Counted
    <2>4. InOrder(l)  BY <2>1 DEF InOrder
    <2>5. WireFresh(l) /\ AcksFresh(l)  BY <2>1 DEF WireFresh, AcksFresh
    <2> QED BY <2>3, <2>4, <2>5 DEF LaneInv
  <1> QED BY <1>2, <1>3 DEF IInv

LEMMA LaneStepFrame ==
    ASSUME LaneTypes, NEW l \in Lanes, LaneStep(l), NEW k \in Lanes, k # l, LaneInv(k)
    PROVE  LaneInv(k)'
  <1>1. /\ submitted'[k] = submitted[k] /\ waiting'[k] = waiting[k] /\ sendSeq'[k] = sendSeq[k]
        /\ recvSeq'[k] = recvSeq[k] /\ delivered'[k] = delivered[k]
        /\ wire'[k] = wire[k] /\ acks'[k] = acks[k]
    <2>1. CASE QueueStep(l)
      <3>1. Queue(l) /\ \E news : Emit(l, news)  BY <2>1 DEF QueueStep
      <3> QED BY <3>1 DEF Queue, Emit, LaneTypes
    <2>2. CASE Retry(l)  BY <2>2 DEF Retry, Emit, LaneTypes
    <2>3. CASE AckStep(l)
      <3>1. PICK a \in acks[l] : \E news : Acknowledge(l, a, news)  BY <2>3 DEF AckStep
      <3> QED BY <3>1 DEF Acknowledge, Emit, LaneTypes
    <2>4. CASE LoseStep(l)  BY <2>4 DEF LoseStep, LaneTypes
    <2>5. CASE \E d \in wire[l] : Receive(l, d)
      <3>1. PICK d \in wire[l] : Receive(l, d)  BY <2>5
      <3> QED BY <3>1 DEF Receive, LaneTypes
    <2> QED BY <2>1, <2>2, <2>3, <2>4, <2>5 DEF LaneStep
  <1>2. Popped(k)' = Popped(k)  BY <1>1 DEF Popped
  <1> QED BY <1>1, <1>2 DEF LaneInv, Counted, InOrder, WireFresh, AcksFresh

LEMMA StepInv == IInv /\ [Next]_vars => IInv'
  <1> SUFFICES ASSUME IInv, [Next]_vars PROVE IInv'
    OBVIOUS
  <1>1. TypeOK /\ LaneTypes  BY DEF IInv, TypeOK, LaneTypes
  <1>2. TypeOK'  BY <1>1, TypeStep
  <1>3. CASE UNCHANGED lanes
    BY <1>2, <1>3 DEF IInv, lanes, LaneInv, Counted, InOrder, WireFresh, AcksFresh, Popped
  <1>4. CASE \E l \in Lanes : LaneStep(l)
    <2>1. PICK l \in Lanes : LaneStep(l)  BY <1>4
    <2>2. LaneInv(l)'
      BY <1>1, <2>1, QueueInv, RetryInv, AckInv, LoseInv, ReceiveInv DEF IInv, LaneStep
    <2>3. \A k \in Lanes : LaneInv(k)'  BY <1>1, <2>1, <2>2, LaneStepFrame DEF IInv
    <2> QED BY <1>2, <2>3 DEF IInv
  <1> QED BY <1>1, <1>3, <1>4, StepCases

(* The inductive invariant holds throughout. *)
THEOREM ConnectionInv == Spec => []IInv
  <1> QED BY InitInv, StepInv, PTL DEF Spec

(* Every variable keeps its type, whatever is lost, repeated or late. *)
THEOREM ConnectionTypes == Spec => []TypeOK
  <1>1. IInv => TypeOK  BY DEF IInv
  <1> QED BY <1>1, ConnectionInv, PTL

(* No FIFO drops a packet that the other end has not processed, for any     *)
(* width of the sequence number and any staleness below it.                 *)
THEOREM NothingIsForgotten == Spec => []NothingForgotten
  <1>1. IInv => NothingForgotten  BY DEF IInv, LaneInv, Counted, NothingForgotten
  <1> QED BY <1>1, ConnectionInv, PTL

(* What one step does to a lane: it queues a packet, delivers the next one, *)
(* or changes neither history. *)
LEMMA LaneRefines ==
    ASSUME TypeOK, \A l \in Lanes : LaneInv(l), [Next]_vars, NEW l \in Lanes
    PROVE  \/ submitted'[l] = submitted[l] + 1 /\ delivered'[l] = delivered[l]
           \/ /\ Len(delivered[l]) < submitted[l] /\ submitted'[l] = submitted[l]
              /\ delivered'[l] = Append(delivered[l], Len(delivered[l]))
           \/ submitted'[l] = submitted[l] /\ delivered'[l] = delivered[l]
  <1>1. LaneTypes  BY DEF TypeOK, LaneTypes
  <1>2. CASE UNCHANGED lanes  BY <1>2 DEF lanes
  <1>3. CASE \E m \in Lanes : LaneStep(m)
    <2>1. PICK m \in Lanes : LaneStep(m)  BY <1>3
    <2>2. CASE QueueStep(m)
      <3>1. delivered' = delivered /\ submitted' = [submitted EXCEPT ![m] = submitted[m] + 1]
        BY <2>2 DEF QueueStep, Queue
      <3> QED BY <1>1, <3>1 DEF LaneTypes
    <2>3. CASE Retry(m)    BY <2>3 DEF Retry
    <2>4. CASE AckStep(m)  BY <2>4 DEF AckStep, Acknowledge
    <2>5. CASE LoseStep(m) BY <2>5 DEF LoseStep
    <2>6. CASE \E d \in wire[m] : Receive(m, d)
      <3>1. PICK d \in wire[m] : Receive(m, d)  BY <2>6
      <3>2. CASE d.seq = recvSeq[m]
        <4>1. d.packet = Len(delivered[m]) /\ Len(delivered[m]) < submitted[m]
          BY <1>1, <3>2, TakenIsNext
        <4>2. /\ delivered' = [delivered EXCEPT ![m] = Append(delivered[m], Len(delivered[m]))]
              /\ submitted' = submitted
          BY <3>1, <3>2, <4>1 DEF Receive
        <4> QED BY <1>1, <4>1, <4>2 DEF LaneTypes
      <3>3. CASE d.seq # recvSeq[m]  BY <3>1, <3>3 DEF Receive
      <3> QED BY <3>2, <3>3
    <2> QED BY <2>1, <2>2, <2>3, <2>4, <2>5, <2>6 DEF LaneStep
  <1> QED BY <1>2, <1>3, StepCases

(* Each direction of a connection implements FifoLane: what was queued      *)
(* comes out in order and once, for every width and staleness below it.     *)
THEOREM LanesDeliverInOrder == Spec => LanesAreFifos
  <1>0. "ToClient" \in Lanes /\ "ToServer" \in Lanes  BY DEF Lanes
  <1>1. Init => ToClientLane!Init /\ ToServerLane!Init
    BY <1>0 DEF Init, Each, ToClientLane!Init, ToServerLane!Init
  <1>2. IInv /\ [Next]_vars => [ToClientLane!Submit \/ ToClientLane!Deliver]_(ToClientLane!vars)
    BY <1>0, LaneRefines DEF IInv, ToClientLane!Submit, ToClientLane!Deliver, ToClientLane!vars
  <1>3. IInv /\ [Next]_vars => [ToServerLane!Submit \/ ToServerLane!Deliver]_(ToServerLane!vars)
    BY <1>0, LaneRefines DEF IInv, ToServerLane!Submit, ToServerLane!Deliver, ToServerLane!vars
  <1> QED BY <1>1, <1>2, <1>3, ConnectionInv, PTL
          DEF Spec, LanesAreFifos, ToClientLane!Spec, ToServerLane!Spec

(* A client becomes connected by the first copy of the accept and by        *)
(* nothing else. *)
THEOREM ClientConnectsOnce == Spec => ConnectsOnce
  <1> DEFINE Once == client' = "Connected" /\ client # "Connected" => delivered["ToClient"] = << >>
  <1>1. IInv /\ [Next]_vars => [Once]_vars
    <2> SUFFICES ASSUME IInv, Next, client' = "Connected", client # "Connected"
                 PROVE  delivered["ToClient"] = << >>
      OBVIOUS
    <2>1. TypeOK /\ LaneTypes /\ "ToClient" \in Lanes  BY DEF IInv, TypeOK, LaneTypes, Lanes
    <2>2. ClientReceives
      BY DEF Next, ServerStep, ClientStep, ServerHandlesSyn, ServerQueues, ServerRetries,
             ServerReceives, ServerHearsAck, ServerHandlesDisconnect, ServerDisconnects,
             ServerHandlesDisconnectAck, ServerDrains, ServerTimesOut, ClientSendsSyn,
             ClientGivesUp, ClientHandlesRejected, ClientQueues, ClientRetries, ClientHearsAck,
             ClientHandlesDisconnect, ClientHandlesDisconnectAck, ClientQuits,
             ClientStopsWaiting, ClientDrains, ClientTimesOut, Lose, ends
    <2>3. PICK d \in wire["ToClient"] : d.packet = 0 /\ d.seq = recvSeq["ToClient"]
      BY <2>2 DEF ClientReceives
    <2>4. Len(delivered["ToClient"]) = 0  BY <2>1, <2>3, TakenIsNext DEF IInv
    <2> QED BY <2>1, <2>4 DEF LaneTypes
  <1> QED BY <1>1, ConnectionInv, PTL DEF Spec, ConnectsOnce

=============================================================================
