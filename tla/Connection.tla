----------------------------- MODULE Connection -----------------------------
(***************************************************************************)
(* One connection between an engine client (net_common.c, net_client.c)    *)
(* and the server's record of it (server_role.rs) over a datagram channel  *)
(* that loses, duplicates, delays and reorders: the handshake, the two     *)
(* reliable lanes with their byte-sized sequence numbers, the disconnects  *)
(* from either end.                                                        *)
(*                                                                         *)
(* Abstracted: the clock (a timeout may fire whenever it is armed); what a *)
(* reliable packet says (packet 0 to the client accepts its SYN; any other *)
(* is its place in the lane); why the server refuses or disconnects.  One  *)
(* incarnation: a removed client is not admitted again.  Module ServerRole *)
(* takes the lanes of this module as exact.                                *)
(***************************************************************************)
EXTENDS Integers, Sequences, FiniteSets

CONSTANTS
    SeqValues,        \* values of a sequence number, one byte
    ReliableCap,      \* RELIABLE_CAP of the server's reliable FIFO
    MaxRetries,       \* MAX_RETRIES of the client's DISCONNECT
    DisconnectSends,  \* DISCONNECT_SENDS of the server's
    MaxPackets,       \* bound: reliable packets of one lane
    MaxStale          \* bound: a datagram arrives before this many later packets

ASSUME ConnectionAssumption ==
    /\ {SeqValues, ReliableCap, MaxRetries, DisconnectSends, MaxPackets} \subseteq Nat \ {0}
    /\ MaxStale \in 1..(SeqValues - 1)

Lanes   == {"ToClient", "ToServer"}
Numbers == 0..(SeqValues - 1)

Next8(seq) == (seq + 1) % SeqValues

VARIABLES
    client,      \* client_connection.state, or Gone once the client has shut down
    retries,     \* num_retries of the client
    server,      \* the server's peer: Absent, its Conn, or Removed
    sends,       \* sends of Conn::Disconnecting
    submitted,   \* history: lane -> packets queued so far
    waiting,     \* lane -> the sender's FIFO of unacknowledged packets
    sendSeq,     \* lane -> reliable_send_seq
    recvSeq,     \* lane -> reliable_recv_seq
    delivered,   \* history: lane -> packets processed so far, in order
    wire,        \* lane -> reliable packets in flight
    acks,        \* lane -> acknowledgements in flight, against the lane
    air          \* control packets sent so far; any of them may (still) arrive

ends  == <<client, retries, server, sends>>
lanes == <<submitted, waiting, sendSeq, recvSeq, delivered, wire, acks>>
vars  == <<ends, lanes, air>>

(* A FIFO entry carries the number stamped when it was queued.  packet and  *)
(* count name what a datagram is about; only the numbers travel.            *)
Entry == [seq : Numbers, packet : Nat]
Ack   == [next : Numbers, count : Nat]

Each(value) == [l \in Lanes |-> value]

Init ==
    /\ client = "Connecting" /\ retries = 0 /\ server = "Absent" /\ sends = 0
    /\ submitted = Each(0) /\ waiting = Each(<< >>) /\ sendSeq = Each(0)
    /\ recvSeq = Each(0) /\ delivered = Each(<< >>)
    /\ wire = Each({}) /\ acks = Each({}) /\ air = {}

-----------------------------------------------------------------------------
(* The lanes. *)

Popped(l) == submitted[l] - Len(waiting[l])

(* What outlives a step of lane l: datagrams that are not too old by then.  *)
StillFlying(l, packets) == {d \in packets : d.packet >= Len(delivered'[l]) - MaxStale}
StillHeard(l, answers)  ==
    {a \in answers : a.count >= submitted'[l] - Len(waiting'[l]) + 1 - MaxStale}

(* enqueue_reliable, NET_Conn_NewReliable: stamp and append. *)
Queue(l) ==
    /\ submitted' = [submitted EXCEPT ![l] = @ + 1]
    /\ waiting' = [waiting EXCEPT ![l] = Append(@, [seq |-> sendSeq[l], packet |-> submitted[l]])]
    /\ sendSeq' = [sendSeq EXCEPT ![l] = Next8(@)]
    /\ UNCHANGED <<recvSeq, delivered, acks>>

(* The sender puts the packets in news on the wire. *)
Emit(l, news) == wire' = [wire EXCEPT ![l] = @ \cup news]

(* The head of a FIFO travels again after a second.                         *)
(* Mutant: any waiting packet may. *)
RetryAny(l) ==
    /\ waiting[l] # << >>
    /\ \E i \in DOMAIN waiting[l] : Emit(l, {waiting[l][i]})
    /\ UNCHANGED <<submitted, waiting, sendSeq, recvSeq, delivered, acks>>
Retry(l) ==
    /\ waiting[l] # << >> /\ Emit(l, {Head(waiting[l])})
    /\ UNCHANGED <<submitted, waiting, sendSeq, recvSeq, delivered, acks>>

(* The receive rule: only the next number is taken, and the number expected *)
(* then is acknowledged either way.                                         *)
(* Mutants: whatever arrives is taken; only what is taken is acknowledged.  *)
ReceiveAny(l, d) ==
    /\ recvSeq' = [recvSeq EXCEPT ![l] = Next8(d.seq)]
    /\ delivered' = [delivered EXCEPT ![l] = Append(@, d.packet)]
    /\ acks' = [acks EXCEPT ![l] = @ \cup {[next |-> recvSeq'[l], count |-> Len(delivered'[l])]}]
    /\ wire' = [wire EXCEPT ![l] = StillFlying(l, @)]
    /\ UNCHANGED <<submitted, waiting, sendSeq>>
ReceiveSilently(l, d) ==
    /\ d.seq = recvSeq[l]
    /\ recvSeq' = [recvSeq EXCEPT ![l] = Next8(@)]
    /\ delivered' = [delivered EXCEPT ![l] = Append(@, d.packet)]
    /\ acks' = [acks EXCEPT ![l] = @ \cup {[next |-> recvSeq'[l], count |-> Len(delivered'[l])]}]
    /\ wire' = [wire EXCEPT ![l] = StillFlying(l, @)]
    /\ UNCHANGED <<submitted, waiting, sendSeq>>
Receive(l, d) ==
    /\ IF d.seq = recvSeq[l]
       THEN /\ recvSeq' = [recvSeq EXCEPT ![l] = Next8(@)]
            /\ delivered' = [delivered EXCEPT ![l] = Append(@, d.packet)]
       ELSE UNCHANGED <<recvSeq, delivered>>
    /\ acks' = [acks EXCEPT ![l] = @ \cup {[next |-> recvSeq'[l], count |-> Len(delivered'[l])]}]
    /\ wire' = [wire EXCEPT ![l] = StillFlying(l, @)]
    /\ UNCHANGED <<submitted, waiting, sendSeq>>

(* An acknowledgement of exactly the head removes it; then news travels.    *)
(* Mutant: any acknowledgement does. *)
AcknowledgedAny(l, a) == waiting[l] # << >>
Acknowledged(l, a)    == waiting[l] # << >> /\ a.next = Next8(Head(waiting[l]).seq)
Acknowledge(l, a, news) ==
    /\ IF Acknowledged(l, a)
       THEN waiting' = [waiting EXCEPT ![l] = Tail(@)] /\ Emit(l, news)
       ELSE UNCHANGED <<waiting, wire>>
    /\ UNCHANGED <<submitted, sendSeq, recvSeq, delivered>>
    /\ acks' = [acks EXCEPT ![l] = StillHeard(l, @)]

(* The channel drops a datagram. *)
Lose(l) ==
    /\ \/ \E d \in wire[l] : wire' = [wire EXCEPT ![l] = @ \ {d}] /\ UNCHANGED acks
       \/ \E a \in acks[l] : acks' = [acks EXCEPT ![l] = @ \ {a}] /\ UNCHANGED wire
    /\ UNCHANGED <<submitted, waiting, sendSeq, recvSeq, delivered, ends, air>>

Arrives(to, type) == <<to, type>> \in air
Send(to, type)    == air' = air \cup {<<to, type>>}

-----------------------------------------------------------------------------
(* The server's record of the client (server_role.rs). *)

(* enqueue_reliable below the cap: a packet behind an unacknowledged head   *)
(* stays at home.                                                           *)
(* Mutant: it travels at once. *)
EnqueueAll == Queue("ToClient") /\ Emit("ToClient", {waiting'["ToClient"][Len(waiting'["ToClient"])]})
Enqueue ==
    /\ Queue("ToClient")
    /\ Emit("ToClient", IF waiting["ToClient"] = << >> THEN {Head(waiting'["ToClient"])} ELSE {})

(* on_syn; a SYN from a peer already known is dropped. *)
ServerHandlesSyn ==
    /\ Arrives("server", "SYN") /\ server = "Absent"
    /\ \/ Send("client", "REJECTED") /\ UNCHANGED <<ends, lanes>>
       \/ server' = "Connected" /\ Enqueue /\ UNCHANGED <<client, retries, sends, air>>

(* The room broadcasts something reliable: LAUNCH, GAMESTART or a message.  *)
(* A full FIFO removes the peer and tells it nothing.                       *)
ServerQueues ==
    /\ server = "Connected" /\ submitted["ToClient"] < MaxPackets
    /\ IF Len(waiting["ToClient"]) >= ReliableCap
       THEN server' = "Removed" /\ UNCHANGED lanes
       ELSE Enqueue /\ UNCHANGED server
    /\ UNCHANGED <<client, retries, sends, air>>

(* The timer's retry of the head. *)
ServerRetries == server = "Connected" /\ Retry("ToClient") /\ UNCHANGED <<ends, air>>

(* A reliable packet arrives; a peer being disconnected is not listened to. *)
ServerReceives ==
    /\ server = "Connected"
    /\ \E d \in wire["ToServer"] : Receive("ToServer", d)
    /\ UNCHANGED <<ends, air>>

(* on_reliable_ack: the next packet leaves at once. *)
ServerHearsAck ==
    /\ server = "Connected"
    /\ \E a \in acks["ToClient"] :
          Acknowledge("ToClient", a, {waiting["ToClient"][i] : i \in DOMAIN waiting["ToClient"] \cap {2}})
    /\ UNCHANGED <<ends, air>>

(* A DISCONNECT of the client, and its repeats while the record sleeps.     *)
ServerHandlesDisconnect ==
    /\ Arrives("server", "DISCONNECT") /\ server \in {"Connected", "Sleeping"}
    /\ server' = "Sleeping" /\ Send("client", "DISCONNECT_ACK")
    /\ UNCHANGED <<client, retries, sends, lanes>>

(* start_disconnect: the server lets the client go with a DISCONNECT. *)
ServerDisconnects ==
    /\ server = "Connected" /\ server' = "Disconnecting" /\ sends' = 1
    /\ Send("client", "DISCONNECT") /\ UNCHANGED <<client, retries, lanes>>

ServerHandlesDisconnectAck ==
    /\ Arrives("server", "DISCONNECT_ACK") /\ server = "Disconnecting"
    /\ server' = "Removed" /\ UNCHANGED <<client, retries, sends, lanes, air>>

(* on_timer over a peer that is leaving: DISCONNECT again, or enough.       *)
(* Mutant: never enough. *)
ServerDrainsForever ==
    /\ \/ server = "Disconnecting" /\ Send("client", "DISCONNECT") /\ UNCHANGED server
       \/ server = "Sleeping" /\ server' = "Removed" /\ UNCHANGED air
    /\ UNCHANGED <<client, retries, sends, lanes>>
ServerDrains ==
    /\ \/ /\ server = "Disconnecting" /\ sends < DisconnectSends
          /\ sends' = sends + 1 /\ Send("client", "DISCONNECT") /\ UNCHANGED server
       \/ /\ server = "Disconnecting" /\ sends >= DisconnectSends
          /\ server' = "Removed" /\ UNCHANGED <<sends, air>>
       \/ server = "Sleeping" /\ server' = "Removed" /\ UNCHANGED <<sends, air>>
    /\ UNCHANGED <<client, retries, lanes>>

(* 30 s of silence: the peer is removed and told nothing. *)
ServerTimesOut ==
    /\ server = "Connected" /\ server' = "Removed"
    /\ UNCHANGED <<client, retries, sends, lanes, air>>

-----------------------------------------------------------------------------
(* The client (net_client.c, net_common.c).  Once Gone it reads nothing.    *)

(* The connect loop of NET_CL_Connect: a SYN a second, five seconds long. *)
ClientSendsSyn  == client = "Connecting" /\ Send("server", "SYN") /\ UNCHANGED <<ends, lanes>>
ClientGivesUp   ==
    /\ client = "Connecting" /\ client' = "Gone"
    /\ UNCHANGED <<retries, server, sends, lanes, air>>

(* A REJECTED counts only before the connection stands. *)
ClientHandlesRejected ==
    /\ Arrives("client", "REJECTED") /\ client = "Connecting"
    /\ client' = "Disconnected" /\ UNCHANGED <<retries, server, sends, lanes, air>>

(* NET_CL_LaunchGame, NET_CL_StartGame: queued; NET_Conn_Run sends it. *)
ClientQueues ==
    /\ client = "Connected" /\ submitted["ToServer"] < MaxPackets
    /\ Queue("ToServer") /\ UNCHANGED <<wire, ends, air>>

(* NET_Conn_Run of a connected client. *)
ClientRetries == client = "Connected" /\ Retry("ToServer") /\ UNCHANGED <<ends, air>>

(* NET_Conn_ReliablePacket in any state; packet 0 is the accepted SYN, and  *)
(* NET_CL_ParseSYN does not look at the state it overwrites.                *)
(* Mutant: it is read whatever its number. *)
ClientReceivesAny ==
    /\ client # "Gone"
    /\ \E d \in wire["ToClient"] :
          /\ Receive("ToClient", d)
          /\ client' = IF d.packet = 0 THEN "Connected" ELSE client
    /\ UNCHANGED <<retries, server, sends, air>>
ClientReceives ==
    /\ client # "Gone"
    /\ \E d \in wire["ToClient"] :
          /\ Receive("ToClient", d)
          /\ client' = IF d.packet = 0 /\ d.seq = recvSeq["ToClient"] THEN "Connected" ELSE client
    /\ UNCHANGED <<retries, server, sends, air>>

(* NET_Conn_ParseReliableACK: the next packet waits for NET_Conn_Run. *)
ClientHearsAck ==
    /\ client # "Gone"
    /\ \E a \in acks["ToServer"] : Acknowledge("ToServer", a, {})
    /\ UNCHANGED <<ends, air>>

(* NET_Conn_ParseDisconnect, whatever the state. *)
ClientHandlesDisconnect ==
    /\ Arrives("client", "DISCONNECT") /\ client # "Gone"
    /\ client' = "Sleep" /\ Send("server", "DISCONNECT_ACK")
    /\ UNCHANGED <<retries, server, sends, lanes>>

(* NET_Conn_ParseDisconnectACK. *)
ClientHandlesDisconnectAck ==
    /\ Arrives("client", "DISCONNECT_ACK") /\ client = "Disconnecting"
    /\ client' = "Disconnected" /\ UNCHANGED <<retries, server, sends, lanes, air>>

(* NET_CL_Disconnect, and the end of its five seconds. *)
ClientQuits ==
    /\ client = "Connected" /\ client' = "Disconnecting" /\ retries' = 0
    /\ UNCHANGED <<server, sends, lanes, air>>
ClientStopsWaiting ==
    /\ client = "Disconnecting" /\ client' = "Gone"
    /\ UNCHANGED <<retries, server, sends, lanes, air>>

(* NET_CL_Run of a client that is leaving: DISCONNECT again, or enough; a   *)
(* client asleep is shut down with the disconnected ones.                   *)
ClientDrains ==
    /\ \/ /\ client = "Disconnecting" /\ retries < MaxRetries
          /\ retries' = retries + 1 /\ Send("server", "DISCONNECT") /\ UNCHANGED client
       \/ /\ client = "Disconnecting" /\ retries >= MaxRetries
          /\ client' = "Gone" /\ UNCHANGED <<retries, air>>
       \/ client \in {"Sleep", "Disconnected"} /\ client' = "Gone" /\ UNCHANGED <<retries, air>>
    /\ UNCHANGED <<server, sends, lanes>>

(* 30 s of silence. *)
ClientTimesOut ==
    /\ client = "Connected" /\ client' = "Gone"
    /\ UNCHANGED <<retries, server, sends, lanes, air>>

-----------------------------------------------------------------------------
ServerStep ==
    \/ ServerHandlesSyn \/ ServerQueues \/ ServerRetries \/ ServerReceives \/ ServerHearsAck
    \/ ServerHandlesDisconnect \/ ServerDisconnects \/ ServerHandlesDisconnectAck
    \/ ServerDrains \/ ServerTimesOut
ClientStep ==
    \/ ClientSendsSyn \/ ClientGivesUp \/ ClientHandlesRejected \/ ClientQueues \/ ClientRetries
    \/ ClientReceives \/ ClientHearsAck \/ ClientHandlesDisconnect \/ ClientHandlesDisconnectAck
    \/ ClientQuits \/ ClientStopsWaiting \/ ClientDrains \/ ClientTimesOut

Next == ServerStep \/ ClientStep \/ \E l \in Lanes : Lose(l)
Spec == Init /\ [][Next]_vars

(* Timers fire: loops and retries go on, and silence is noticed once the    *)
(* other end is gone.  The channel is fair to what is sent again and again. *)
HeadArrives(l) ==
    /\ waiting[l] # << >>
    /\ IF l = "ToClient" THEN ClientReceives ELSE ServerReceives
    /\ \E d \in wire[l] : d = Head(waiting[l]) /\ Receive(l, d)
AckArrives(l) ==
    /\ waiting[l] # << >>
    /\ IF l = "ToClient" THEN ServerHearsAck ELSE ClientHearsAck
    /\ \E a \in acks[l] : Acknowledged(l, a) /\ waiting'[l] = Tail(waiting[l])

FairSpec ==
    /\ Spec
    /\ WF_vars(ClientGivesUp) /\ WF_vars(ClientDrains) /\ WF_vars(ServerDrains)
    /\ WF_vars(ClientRetries) /\ WF_vars(ServerRetries)
    /\ WF_vars(server = "Removed" /\ ClientTimesOut)
    /\ WF_vars(client = "Gone" /\ ServerTimesOut)
    /\ \A l \in Lanes : SF_vars(HeadArrives(l)) /\ SF_vars(AckArrives(l))

-----------------------------------------------------------------------------
TypeOK ==
    /\ client \in {"Connecting", "Connected", "Disconnecting", "Sleep", "Disconnected", "Gone"}
    /\ retries \in 0..MaxRetries
    /\ server \in {"Absent", "Connected", "Disconnecting", "Sleeping", "Removed"}
    /\ sends \in 0..DisconnectSends
    /\ submitted \in [Lanes -> Nat]
    /\ waiting \in [Lanes -> Seq(Entry)]
    /\ sendSeq \in [Lanes -> Numbers] /\ recvSeq \in [Lanes -> Numbers]
    /\ delivered \in [Lanes -> Seq(Nat)]
    /\ wire \in [Lanes -> SUBSET Entry] /\ acks \in [Lanes -> SUBSET Ack]
    /\ air \subseteq {"client", "server"} \X {"SYN", "REJECTED", "DISCONNECT", "DISCONNECT_ACK"}

(* Each lane delivers what was queued, in that order, once: losses,         *)
(* repeats and a wrapped sequence number never skip or repeat a packet      *)
(* (NET_Conn_ReliablePacket, enqueue_reliable, on_reliable_ack).            *)
ToClientLane == INSTANCE FifoLane WITH
    submitted <- submitted["ToClient"], delivered <- delivered["ToClient"]
ToServerLane == INSTANCE FifoLane WITH
    submitted <- submitted["ToServer"], delivered <- delivered["ToServer"]
LanesAreFifos == ToClientLane!Spec /\ ToServerLane!Spec

(* A packet leaves its sender's FIFO only once the other end has processed  *)
(* it: no late or repeated acknowledgement drops an unread one              *)
(* (on_reliable_ack, NET_Conn_ParseReliableACK).                            *)
NothingForgotten == \A l \in Lanes : Popped(l) <= Len(delivered[l])

(* A client becomes connected once in its life, however often the accept    *)
(* arrives, although NET_CL_ParseSYN overwrites any state.                  *)
ConnectsOnce ==
    [][client' = "Connected" /\ client # "Connected" => delivered["ToClient"] = << >>]_vars

(* What was queued is processed, unless one of the ends has left: the FIFOs *)
(* of both ends never stall on a lost packet or acknowledgement.            *)
ReliableDelivery ==
    \A l \in Lanes, k \in 0..(MaxPackets - 1) :
        submitted[l] > k ~> \/ Len(delivered[l]) > k
                           \/ client \notin {"Connecting", "Connected"} \/ server # "Connected"

(* Once either end has left or is leaving, both let go: no end waits for    *)
(* the other for ever, whichever DISCONNECTs and answers are lost.          *)
BothEndsLetGo ==
    client \in {"Disconnecting", "Gone"} \/ server \in {"Disconnecting", "Sleeping", "Removed"}
        ~> client = "Gone" /\ server \in {"Absent", "Removed"}
=============================================================================
