----------------------------- MODULE ServerRole -----------------------------
(***************************************************************************)
(* The lobby and connection lifecycle of one room: the sans-I/O state      *)
(* machine of crates/doom-server/src/server_role.rs.  One input is handled *)
(* to completion before the next one (the room lock), so every input is    *)
(* one atomic step; a handler is an operator from a context -- the role    *)
(* and the actions produced so far -- to a context.                        *)
(*                                                                         *)
(* Abstracted: the clock (a Timer input names the peers whose deadlines    *)
(* have passed), packet contents, the eight-bit reliable sequence numbers  *)
(* (an acknowledgement is exact or not, a reliable packet is the next one  *)
(* or not).  The in-game windows of the same file are module TicFanout.    *)
(***************************************************************************)
EXTENDS Integers, Sequences, FiniteSets

CONSTANTS
    MaxJoins,         \* bound: admissions of one behaviour (PlayerId is a u64)
    MaxPeers,         \* connections the registry lets into a room
    Modes,            \* game mode and mission pairs a client may announce
    Capabilities,     \* max_players values a client may announce
    MaxNodes,         \* MAX_NODES, protocol slots
    NetMaxPlayers,    \* NET_MAX_PLAYERS, players of one game
    ReliableCap,      \* RELIABLE_CAP, entries of a peer's reliable FIFO
    DisconnectSends,  \* DISCONNECT_SENDS before a forced removal
    None              \* Option::None

ASSUME RoleAssumption ==
    /\ {MaxJoins, MaxPeers, MaxNodes, NetMaxPlayers, ReliableCap, DisconnectSends}
         \subseteq Nat \ {0}
    /\ Capabilities \subseteq Nat
    /\ MaxPeers < MaxNodes

VARIABLE role

Ids   == 1..MaxJoins
Slots == 0..(MaxNodes - 1)
ReliablePackets == {"SynAccept", "Launch", "GameStart", "ConsoleMessage"}
ServerPackets   == ReliablePackets \cup {"WaitingData", "Disconnect", "DisconnectAck", "Rejected",
                                         "Keepalive", "ReliableAck", "QueryResponse"}

Peer == [syn : BOOLEAN, slot : Slots \cup {None},
         conn : {"Connected", "Disconnecting", "Sleeping"}, sends : 0..DisconnectSends,
         drone : BOOLEAN, maxPlayers : 0..NetMaxPlayers, mode : Modes \cup {None},
         ready : BOOLEAN, outbox : Seq(ReliablePackets),
         game : BOOLEAN, gameIndex : Slots \cup {None}]

Admitted == [syn |-> FALSE, slot |-> None, conn |-> "Connected", sends |-> 0,
             drone |-> FALSE, maxPlayers |-> NetMaxPlayers, mode |-> None,
             ready |-> FALSE, outbox |-> << >>, game |-> FALSE, gameIndex |-> None]

ASSUME NoneAssumption == None \notin Nat \cup Modes \cup Peer

Roles == [state : {"WaitingLaunch", "WaitingStart", "InGame"}, gamemode : Modes \cup {None},
          settings : BOOLEAN, peers : [Ids -> Peer \cup {None}],
          nextOrder : 0..MaxJoins]

Init == role = [state |-> "WaitingLaunch", gamemode |-> None, settings |-> FALSE,
                peers |-> [p \in Ids |-> None], nextOrder |-> 0]

-----------------------------------------------------------------------------
(* Reading the role.  An id is also the admission order: the registry hands *)
(* them out in ascending order and each id joins once.                      *)

Members(r)     == {p \in Ids : r.peers[p] # None}
Connected(r)   == {p \in Members(r) : r.peers[p].syn /\ r.peers[p].conn = "Connected"}
IsPlayer(peer) == peer.syn /\ peer.conn = "Connected" /\ ~peer.drone
Players(r)     == {p \in Members(r) : IsPlayer(r.peers[p])}
Accepted(r)    == {p \in Members(r) : r.peers[p].syn}
Draining(r)    == {p \in Members(r) : r.peers[p].conn # "Connected"}

Least(S)      == CHOOSE x \in S : \A y \in S : x <= y
Controller(r) == IF Players(r) = {} THEN None ELSE Least(Players(r))

TimerPeers(r) == Accepted(r)
(* Mutant: broadcasts reach draining peers too. *)
ConnectedPeersAnyConn(r) == Accepted(r)
ConnectedPeers(r) == Connected(r)

(* The peer of S in the lowest slot. *)
Lowest(r, S) == CHOOSE p \in S : \A q \in S : r.peers[p].slot <= r.peers[q].slot

MaxPlayersOf(r) == IF Connected(r) = {} THEN NetMaxPlayers
                   ELSE r.peers[Lowest(r, ConnectedPeers(r))].maxPlayers

(* Mutant: a draining peer's slot counts as free. *)
FreeSlotConnectedOnly(r) == Least({s \in Slots : \A p \in Connected(r) : r.peers[p].slot # s})
FreeSlot(r) == Least({s \in Slots : \A p \in Members(r) : r.peers[p].slot # s})

-----------------------------------------------------------------------------
(* The actions a handler returns, and the context it transforms.            *)

Send(p, packet)        == [type |-> "Send", peer |-> p, packet |-> packet]
Disconnect(p, reason)  == [type |-> "Disconnect", peer |-> p, reason |-> reason,
                           terminal |-> None]
GameEnded              == [type |-> "GameEnded"]

Actions  == [type : {"Send"}, peer : Ids, packet : ServerPackets]
            \cup [type : {"Disconnect"}, peer : Ids, terminal : {None, "Rejected"},
                  reason : {"Remote", "Timeout", "GameEnded", "ReliableOverflow",
                            "MalformedInput"}]
            \cup {GameEnded}
Contexts == [role : Roles, actions : Seq(Actions)]

Fresh(r)               == [role |-> r, actions |-> << >>]
Emit(c, p, packet)     == [c EXCEPT !.actions = Append(@, Send(p, packet))]
SetPeer(c, p, peer)    == [c EXCEPT !.role.peers[p] = peer]
(* Mutant: a removal closes the gap it leaves in the player numbering. *)
DropRenumbers(c, p, farewell) ==
    LET Closed(peer) == IF None \in {peer.gameIndex, c.role.peers[p].gameIndex} THEN peer
                        ELSE IF peer.gameIndex < c.role.peers[p].gameIndex THEN peer
                        ELSE [peer EXCEPT !.gameIndex = @ - 1]
    IN  [c EXCEPT !.role.peers = [q \in Ids |-> IF q \in Members(c.role) \ {p}
                                                THEN Closed(@[q]) ELSE None],
                  !.actions = Append(@, farewell)]
Drop(c, p, farewell) ==
    [role |-> [c.role EXCEPT !.peers[p] = None], actions |-> Append(c.actions, farewell)]

(* A loop of n turns: step[i] maps what the turns before have made to what  *)
(* turn i makes of it.                                                      *)
Loop(n, step, first) ==
    LET after[i \in 0..n] == IF i = 0 THEN first ELSE step[i][after[i - 1]]
    IN  after[n]

(* Turn i of a loop over the peers of S in slot order: at most one of them. *)
AtSlot(r, S, i) == {p \in S : r.peers[p].slot = i - 1}

SentTo(c, p, packets) == \E i \in DOMAIN c.actions :
    c.actions[i].type = "Send" /\ c.actions[i].peer = p /\ c.actions[i].packet \in packets

-----------------------------------------------------------------------------
(* Removal, game end and the reliable FIFO.  They are mutually recursive in *)
(* the code: a broadcast onto a full FIFO removes its peer, and a removal   *)
(* broadcasts.                                                              *)

(* What the end of a game says to a member, and what it makes of it: a      *)
(* connected client starts its disconnect, a member without SYN is dropped, *)
(* a drain in progress is left alone.                                       *)
EndNotice(r, p) ==
    IF p \notin Members(r) \/ r.peers[p].conn # "Connected" THEN << >>
    ELSE IF r.peers[p].syn THEN << Send(p, "Disconnect") >>
    ELSE << Disconnect(p, "GameEnded") >>

(* Mutants: game state outlives the game; survivors stay connected. *)
EndedStillPlaying(peer) ==
    IF peer.conn = "Connected"
    THEN [peer EXCEPT !.conn = "Disconnecting", !.sends = 1] ELSE peer
EndedStillConnected(peer) == [peer EXCEPT !.game = FALSE, !.gameIndex = None]
Ended(peer) ==
    LET out == [peer EXCEPT !.game = FALSE, !.gameIndex = None]
    IN  IF peer.conn = "Connected"
        THEN [out EXCEPT !.conn = "Disconnecting", !.sends = 1] ELSE out

EndGame(c) ==
    LET r       == c.role
        notices == Loop(MaxJoins,
                        [p \in Ids |-> [said \in Seq(Actions) |-> said \o EndNotice(r, p)]],
                        c.actions)
    IN  [role    |-> [r EXCEPT !.state = "WaitingLaunch", !.gamemode = None,
                               !.settings = FALSE,
                               !.peers = [p \in Ids |-> IF p \in Accepted(r) THEN Ended(@[p])
                                                     ELSE None]],
         actions |-> Append(notices, GameEnded)]

(* Mutant: connected drones keep a room without players going. *)
NoPlayerLeftButDrones(r) == Connected(r) = {}
NoPlayerLeft(r) == Players(r) = {}

(* Mutant: one entry too many. *)
FifoHasNoRoom(outbox) == Len(outbox) > ReliableCap
FifoFull(outbox)      == Len(outbox) >= ReliableCap
BecomesHead(outbox)   == outbox = << >>

(* enqueue is enqueue_reliable for whatever a removal has left of the room. *)
EnqueueEach(enqueue, c, targets, packet) ==
    Loop(MaxNodes,
         [i \in 1..MaxNodes |-> [acc \in Contexts |->
             LET here == AtSlot(c.role, targets, i)
             IN  IF here = {} THEN acc ELSE enqueue[Least(here)][packet][acc]]],
         c)

Console(enqueue, c) == EnqueueEach(enqueue, c, ConnectedPeers(c.role), "ConsoleMessage")

(* What follows once the removed peer, gone, is out of the room. *)
Settle(enqueue, c, gone) ==
    IF c.role.state = "WaitingStart" /\ IsPlayer(gone) THEN EndGame(Console(enqueue, c))
    ELSE IF NoPlayerLeft(c.role) THEN EndGame(c)
    ELSE c

RemovePeer(enqueue, c, p, reason, announce) ==
    IF p \notin Members(c.role) THEN c ELSE
    LET left == Drop(c, p, Disconnect(p, reason))
    IN  Settle(enqueue, IF announce THEN Console(enqueue, left) ELSE left, c.role.peers[p])

Enqueue(enqueue, c, p, packet) ==
    IF p \notin Members(c.role) THEN c ELSE
    LET peer   == c.role.peers[p]
        queued == SetPeer(c, p, [peer EXCEPT !.outbox = Append(@, packet)])
    IN  IF FifoFull(peer.outbox)
        THEN RemovePeer(enqueue, c, p, "ReliableOverflow", TRUE)
        ELSE IF BecomesHead(peer.outbox) THEN Emit(queued, p, packet)
        ELSE queued

(* Every removal leaves one member fewer, so the recursion is no deeper     *)
(* than the room is large: Cascade[n] serves rooms of at most n members.    *)
Cascade[n \in 0..MaxPeers] ==
    [p \in Ids |-> [packet \in ReliablePackets |-> [c \in Contexts |->
        IF n = 0 THEN c ELSE Enqueue(Cascade[n - 1], c, p, packet)]]]

EnqueueReliable(c, p, packet)          == Enqueue(Cascade[MaxPeers], c, p, packet)
EnqueueAll(c, targets, packet)         == EnqueueEach(Cascade[MaxPeers], c, targets, packet)
RemoveConnected(c, p, reason, announce) == RemovePeer(Cascade[MaxPeers], c, p, reason, announce)

(* Mutant: a stranger's removal takes the connected peers' path. *)
RemoveUnconnectedEndsRoom(c, p, farewell) ==
    LET left == Drop(c, p, farewell)
    IN  IF NoPlayerLeft(left.role) THEN EndGame(left) ELSE left
RemoveUnconnected(c, p, farewell) == Drop(c, p, farewell)

-----------------------------------------------------------------------------
(* The handlers, one per kind of input.                                     *)

OnJoin(c, p, goodLabel) ==
    LET counted == [c EXCEPT !.role.nextOrder = p]
    IN  IF goodLabel THEN SetPeer(counted, p, Admitted)
        ELSE [counted EXCEPT !.actions = Append(@, Disconnect(p, "MalformedInput"))]

OnLeave(c, p) ==
    IF c.role.peers[p].syn THEN RemoveConnected(c, p, "Remote", FALSE)
    ELSE RemoveUnconnected(c, p, Disconnect(p, "Remote"))

(* A refusal: the REJECTED packet rides inside the removal. *)
Reject(c, p) ==
    RemoveUnconnected(c, p, [Disconnect(p, "Remote") EXCEPT !.terminal = "Rejected"])

Accept(c, p, syn, mode) ==
    LET r        == c.role
        peer     == [r.peers[p] EXCEPT !.syn = TRUE, !.slot = FreeSlot(r),
                                       !.drone = syn.drone, !.mode = syn.mode,
                                       !.maxPlayers = syn.maxPlayers]
        accepted == SetPeer([c EXCEPT !.role.gamemode = mode], p, peer)
    IN  Emit(EnqueueReliable(accepted, p, "SynAccept"), p, "WaitingData")

(* Mutant: whoever finds no players adopts (net_server.c:705 of the engine).  *)
AdoptsWithoutPlayers(r, syn) == ~syn.drone /\ Players(r) = {}
Adopts(r, syn) == r.gamemode = None /\ ~syn.drone /\ Players(r) = {}

OnSyn(c, p, syn) ==
    LET r    == c.role
        full == \/ ~syn.drone /\ Cardinality(Players(r)) >= MaxPlayersOf(r)
                \/ Cardinality(Members(r)) >= MaxNodes
        mode == IF Adopts(r, syn) THEN syn.mode ELSE r.gamemode
    IN  IF ~syn.protocol THEN Reject(c, p)
        ELSE IF syn.mode = None \/ syn.maxPlayers > NetMaxPlayers THEN c
        ELSE IF r.state # "WaitingLaunch" \/ full \/ mode # syn.mode
             THEN Reject(c, p)
        ELSE Accept(c, p, syn, mode)

OnLaunch(c, p) ==
    IF c.role.state = "WaitingLaunch" /\ Controller(c.role) = p
    THEN EnqueueAll([c EXCEPT !.role.state = "WaitingStart"],
                    ConnectedPeers(c.role), "Launch")
    ELSE c

(* A connected player's number: its rank among the players, by slot.        *)
FrozenIndex(r, p) ==
    IF p \notin Players(r) THEN None
    ELSE Cardinality({q \in Players(r) : r.peers[q].slot < r.peers[p].slot})

(* The game starts for everybody connected, who keep their numbers. *)
Seat(r, p) == IF p \notin Connected(r) THEN r.peers[p]
              ELSE [r.peers[p] EXCEPT !.game = TRUE, !.gameIndex = FrozenIndex(r, p)]
InGame(r)  == [r EXCEPT !.state = "InGame", !.peers = [p \in Ids |-> Seat(r, p)]]

(* The GAMESTART broadcast is transactional: once an enqueue has removed    *)
(* its target or ended the room, nothing more of the start happens.         *)
Outcome(next, p) ==
    [c |-> next, aborted |-> p \notin Members(next.role) \/ next.role.state # "WaitingStart"]

StartGame(c) ==
    LET offers == Loop(MaxNodes,
            [i \in 1..MaxNodes |-> [acc \in [c : Contexts, aborted : BOOLEAN] |->
                LET here == AtSlot(c.role, ConnectedPeers(c.role), i)
                IN  IF acc.aborted \/ here = {} THEN acc
                    ELSE Outcome(EnqueueReliable(acc.c, Least(here), "GameStart"),
                                 Least(here))]],
            [c |-> c, aborted |-> FALSE])
    IN  IF ~c.role.settings THEN c
        ELSE IF offers.aborted THEN offers.c
        ELSE [offers.c EXCEPT !.role = InGame(@)]

OnGameStart(c, p, valid) ==
    LET controls == Controller(c.role) = p
        adopted  == IF controls THEN [c EXCEPT !.role.settings = TRUE] ELSE c
        ready    == [adopted EXCEPT !.role.peers[p].ready = TRUE]
        Ready(q) == ready.role.peers[q].ready
        Refresh  == [q \in Ids |-> [acc \in Contexts |->
                        IF q \in Connected(ready.role) /\ Ready(q)
                        THEN Emit(acc, q, "WaitingData") ELSE acc]]
    IN  IF c.role.state # "WaitingStart" \/ (controls /\ ~valid) THEN c
        ELSE IF \A q \in Connected(ready.role) : Ready(q) THEN StartGame(ready)
        ELSE Loop(MaxJoins, Refresh, ready)

(* Only the exact head is acknowledged; the next entry leaves at once. *)
OnReliableAck(c, p, exact) ==
    LET outbox == c.role.peers[p].outbox
        popped == [c EXCEPT !.role.peers[p].outbox = Tail(outbox)]
    IN  IF outbox = << >> \/ ~exact THEN c
        ELSE IF Len(outbox) > 1 THEN Emit(popped, p, outbox[2])
        ELSE popped

(* What an established peer may do, once the reliable rule has let the      *)
(* packet through.                                                          *)
Dispatch(c, p, packet) ==
    CASE packet.kind = "Launch"      -> OnLaunch(c, p)
      [] packet.kind = "GameStart"   -> OnGameStart(c, p, packet.valid)
      [] packet.kind = "Disconnect"  -> Emit([c EXCEPT !.role.peers[p].conn = "Sleeping"],
                                             p, "DisconnectAck")
      [] packet.kind = "ReliableAck" -> OnReliableAck(c, p, packet.exact)
      [] packet.kind = "Query"       -> Emit(c, p, "QueryResponse")
      [] OTHER                       -> c

(* lane: "plain", or for a reliable packet "next" when its sequence number  *)
(* is the expected one and "stale" otherwise.                               *)
OnPacket(c, p, lane, packet) ==
    LET peer  == c.role.peers[p]
        acked == IF lane = "plain" THEN c ELSE Emit(c, p, "ReliableAck")
    IN  CASE ~peer.syn /\ packet.kind = "Syn"   -> OnSyn(c, p, packet)
          [] ~peer.syn /\ packet.kind = "Query" -> Emit(c, p, "QueryResponse")
          [] peer.conn = "Disconnecting" /\ packet.kind = "DisconnectAck" ->
                 RemoveConnected(c, p, "Remote", FALSE)
          [] peer.conn = "Sleeping" /\ packet.kind = "Disconnect" ->
                 Emit(c, p, "DisconnectAck")
          [] p \in Connected(c.role) /\ lane = "stale" -> acked
          [] p \in Connected(c.role) /\ lane # "stale" -> Dispatch(acked, p, packet)
          [] OTHER -> c

(* Bytes that did not decode: only a SYN with the pre-3.0 magic matters.    *)
OnMalformed(c, p, oldMagic) ==
    IF ~oldMagic THEN c
    ELSE IF c.role.peers[p].syn THEN Emit(c, p, "Rejected")
    ELSE Reject(c, p)

(* Mutant: the retry count wraps instead of forcing the removal. *)
RetryDisconnectForever(c, p) ==
    Emit([c EXCEPT !.role.peers[p].sends = IF @ < DisconnectSends THEN @ + 1 ELSE 1],
         p, "Disconnect")
RetryDisconnect(c, p) ==
    IF c.role.peers[p].sends < DisconnectSends
    THEN Emit([c EXCEPT !.role.peers[p].sends = @ + 1], p, "Disconnect")
    ELSE RemoveConnected(c, p, "GameEnded", FALSE)

(* Mutant: the whole FIFO is sent again. *)
RetryAll(c, p, outbox) ==
    [c EXCEPT !.actions = @ \o [i \in DOMAIN outbox |-> Send(p, outbox[i])]]
RetryHead(c, p, outbox) ==
    IF outbox = << >> \/ SentTo(c, p, ReliablePackets) THEN c
    ELSE Emit(c, p, Head(outbox))

(* One peer's turn in a timer pass: p \in expired when its current deadline *)
(* has passed (DISCONNECT retry, sleep, or receive silence), p \in idle when *)
(* its one-second cadences have (keepalive, head retry, WAITING_DATA).      *)
VisitPeer(c, p, expired, idle) ==
    LET peer    == c.role.peers[p]
        touched == \E i \in DOMAIN c.actions :
                       c.actions[i].type = "Send" /\ c.actions[i].peer = p
        Kept    == IF touched THEN c ELSE Emit(c, p, "Keepalive")
        Retried == RetryHead(Kept, p, peer.outbox)
    IN  CASE peer.conn = "Disconnecting" /\ p \in expired
             /\ ~SentTo(c, p, {"Disconnect"}) ->
                 RetryDisconnect(c, p)
          [] peer.conn = "Sleeping" /\ p \in expired ->
                 RemoveConnected(c, p, "Remote", FALSE)
          [] peer.conn = "Connected" /\ p \in expired ->
                 RemoveConnected(c, p, "Timeout", TRUE)
          [] peer.conn = "Connected" /\ p \in idle \ expired ->
                 IF c.role.state = "WaitingLaunch"
                 THEN Emit(Retried, p, "WaitingData") ELSE Retried
          [] OTHER -> c

(* The list of peers is taken once, in slot order; a peer that an earlier   *)
(* turn removed is skipped.                                                 *)
OnTimer(c, expired, idle) ==
    Loop(MaxNodes,
         [i \in 1..MaxNodes |-> [acc \in Contexts |->
             LET here == AtSlot(c.role, TimerPeers(c.role), i)
             IN  IF here \cap Members(acc.role) = {} THEN acc
                 ELSE VisitPeer(acc, Least(here), expired, idle)]],
         c)

-----------------------------------------------------------------------------
(* handle(): the one entry point.  An input is a record; Inputs(r) are the  *)
(* inputs the room host can feed to the role r.                             *)

Handle(r, input) ==
    LET c == Fresh(r)
    IN  CASE input.type = "Join"      -> OnJoin(c, input.peer, input.goodLabel)
          [] input.type = "Leave"     -> OnLeave(c, input.peer)
          [] input.type = "Packet"    -> OnPacket(c, input.peer, input.lane, input.packet)
          [] input.type = "Malformed" -> OnMalformed(c, input.peer, input.oldMagic)
          [] input.type = "Timer"     -> OnTimer(c, input.expired, input.idle)

Syns == [kind : {"Syn"}, protocol : BOOLEAN, drone : BOOLEAN,
         mode : Modes \cup {None}, maxPlayers : Capabilities]
ReliableClientPackets == [kind : {"GameStart"}, valid : BOOLEAN] \cup [kind : {"Launch"}]
PlainClientPackets ==
    ReliableClientPackets
    \cup [kind : {"ReliableAck"}, exact : BOOLEAN]
    \cup [kind : {"Disconnect", "DisconnectAck", "Query", "Other"}]

JoinInputs(r) ==
    IF r.nextOrder = MaxJoins \/ Cardinality(Members(r)) = MaxPeers THEN {}
    ELSE [type : {"Join"}, peer : {r.nextOrder + 1}, goodLabel : BOOLEAN]
LeaveInputs(r)     == [type : {"Leave"}, peer : Members(r)]
(* A second SYN is one more packet that changes nothing: kind "Other".      *)
PacketInputs(r)    ==
    LET Packets(members, lane, packets) ==
            [type : {"Packet"}, peer : members, lane : {lane}, packet : packets]
    IN  Packets(Members(r) \ Accepted(r), "plain", Syns)
        \cup Packets(Members(r), "plain", PlainClientPackets)
        \cup Packets(Members(r), "next", ReliableClientPackets)
        \cup Packets(Members(r), "stale", [kind : {"Other"}])
MalformedInputs(r) == [type : {"Malformed"}, peer : Members(r), oldMagic : BOOLEAN]
TimerInputs(r)     == [type : {"Timer"}, expired : SUBSET Accepted(r),
                       idle : {{}, Accepted(r)}]

Feed(inputs) == \E input \in inputs : role' = Handle(role, input).role

Join        == Feed(JoinInputs(role))
Leave       == Feed(LeaveInputs(role))
Packet      == Feed(PacketInputs(role))
Malformed   == Feed(MalformedInputs(role))
Timer       == Feed(TimerInputs(role))

Next == Join \/ Leave \/ Packet \/ Malformed \/ Timer

Spec == Init /\ [][Next]_role

(* What the runtime's timer task guarantees: it ticks forever, so a         *)
(* draining peer's next deadline is eventually found expired.  Nothing is   *)
(* assumed of connected peers: no client has to speak, or to fall silent.   *)
DrainTimer(p) ==
    /\ p \in Draining(role)
    /\ Feed({input \in TimerInputs(role) : p \in input.expired /\ input.idle = {}})

(* Weak fairness of DrainTimer(p), which is enabled exactly while p drains. *)
DrainFairness(p) == []<>(p \notin Draining(role)) \/ []<><<DrainTimer(p)>>_role

FairSpec == Spec /\ \A p \in Ids : DrainFairness(p)

-----------------------------------------------------------------------------
(* Safety.                                                                  *)

(* Every field of the role stays in its type, and no reliable FIFO outgrows *)
(* RELIABLE_CAP.                                                            *)
TypeOK ==
    /\ role.state \in {"WaitingLaunch", "WaitingStart", "InGame"}
    /\ role.gamemode \in Modes \cup {None}
    /\ role.settings \in BOOLEAN
    /\ role.nextOrder \in 0..MaxJoins
    /\ Members(role) \subseteq 1..role.nextOrder
    /\ \A p \in Members(role) :
          role.peers[p] \in Peer /\ Len(role.peers[p].outbox) <= ReliableCap

(* Two SYN-accepted peers never hold the same protocol slot, draining ones  *)
(* included, and exactly the accepted ones hold one (free_slot): timer      *)
(* order, player numbering and the capacity reference all hang on it.       *)
SlotsAreExclusive ==
    /\ \A p \in Members(role) : role.peers[p].syn <=> role.peers[p].slot # None
    /\ \A p, q \in Accepted(role) : role.peers[p].slot = role.peers[q].slot => p = q

(* Nothing of an ended or aborted game reaches the next lobby: while the    *)
(* room waits for launch there are no settings, no connected peer is ready  *)
(* and nobody, draining peers included, holds game state (end_game).        *)
LobbyIsClean ==
    role.state = "WaitingLaunch" =>
        /\ ~role.settings
        /\ \A p \in Connected(role) : ~role.peers[p].ready
        /\ \A p \in Members(role) : ~role.peers[p].game /\ role.peers[p].gameIndex = None

(* The adopted mode and mission is that of everyone connected, and it never *)
(* outlives its players: some player announced it who is connected or in    *)
(* the sleep after its DISCONNECT.  So a newcomer is matched against a mode *)
(* nobody plays for the length of that sleep at most, and a mode is never   *)
(* replaced under the drones that stay (on_syn, end_game).                  *)
OneGameMode ==
    /\ \A p \in Connected(role) : role.gamemode # None /\ role.peers[p].mode = role.gamemode
    /\ role.gamemode # None =>
          \E p \in Accepted(role) : /\ ~role.peers[p].drone
                                   /\ role.peers[p].conn \in {"Connected", "Sleeping"}
                                   /\ role.peers[p].mode = role.gamemode

(* A room past the lobby has a player left, connected or within its         *)
(* disconnect sleep: no cascade of overflow removals leaves a game or a     *)
(* start without players (the transactional guard of start_game, the        *)
(* zero-player check of remove_connected).                                  *)
StartedRoomHasAPlayer ==
    role.state # "WaitingLaunch" =>
        \E p \in Accepted(role) :
            ~role.peers[p].drone /\ role.peers[p].conn \in {"Connected", "Sleeping"}

-----------------------------------------------------------------------------
(* What every input may make the role send, in every reachable state.       *)

Inputs(r) == JoinInputs(r) \cup LeaveInputs(r) \cup PacketInputs(r)
                 \cup MalformedInputs(r) \cup TimerInputs(r)
OldSyns(r) == {input \in MalformedInputs(r) : input.oldMagic}

SendsOf(c) == {i \in DOMAIN c.actions : c.actions[i].type = "Send"}

(* action i of c is traffic to a peer that was already draining before the  *)
(* input, or that a DISCONNECT earlier in the same batch made draining.     *)
ToDraining(r, c, i) ==
    \/ c.actions[i].peer \in Draining(r)
    \/ \E j \in 1..(i - 1) : c.actions[j] = Send(c.actions[i].peer, "Disconnect")

OnlyDisconnect(r, c) ==
    \A i \in SendsOf(c) : ToDraining(r, c, i) =>
        c.actions[i].packet \in {"Disconnect", "DisconnectAck"}

(* A draining peer hears nothing but its own disconnect handshake, although *)
(* Launch, GAMESTART and console loops may still queue reliable packets     *)
(* onto a peer that a cascade disconnected half-way through the loop.       *)
(* A SYN of an old protocol is the exception: on_malformed answers it to    *)
(* any SYN-accepted member.                                                 *)
DrainingHearsOnlyDisconnect ==
    \A input \in Inputs(role) \ OldSyns(role) : OnlyDisconnect(role, Handle(role, input))

Undisturbed(p, after) ==
    /\ after.state = role.state
    /\ after.settings = role.settings
    /\ \A q \in Members(role) \ {p} : q \in Members(after) /\ after.peers[q] = role.peers[q]

(* A member that has not completed SYN disturbs nobody: whatever it sends,  *)
(* and its refusal or its leaving, changes no other member and neither      *)
(* aborts, starts nor ends a game (remove_unconnected, reject).             *)
StrangersDisturbNobody ==
    \A input \in LeaveInputs(role) \cup PacketInputs(role) \cup MalformedInputs(role) :
        ~role.peers[input.peer].syn =>
            Undisturbed(input.peer, Handle(role, input).role)

-----------------------------------------------------------------------------
(* Steps.                                                                   *)

(* While one game runs, a peer that stays keeps its frozen index, its slot  *)
(* and its game state: removals leave holes and never renumber.             *)
IndicesAreFrozen ==
    [][(role.state = "InGame" /\ role'.state = "InGame") =>
          \A p \in Members(role) \cap Members(role') :
              /\ role'.peers[p].gameIndex = role.peers[p].gameIndex
              /\ role'.peers[p].slot = role.peers[p].slot
              /\ role'.peers[p].game = role.peers[p].game]_role

(* Liveness, under FairSpec.  Every drain ends: an initiated DISCONNECT and *)
(* a disconnect sleep both lead to the removal of the peer and to the reuse *)
(* of its slot.                                                             *)
DrainingPeersLeave ==
    \A p \in Ids : (p \in Draining(role)) ~> (p \notin Members(role))

(* A room whose last connected player is gone returns to the lobby, even    *)
(* when that player only said DISCONNECT and drones stay connected.         *)
EmptyGameEnds == (Players(role) = {}) ~> (role.state = "WaitingLaunch")
=============================================================================
