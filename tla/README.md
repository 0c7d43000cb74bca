# A TLA+ model of the Doom room server

This directory holds TLA+ specifications of the Rust multiplayer server of this
repository (`crates/doom-server`), the TLC configurations that check them, and
proofs that TLAPS checks. Paths below are relative to the repository; names in
`code` are the code's own.

## 1. The system

A room server relays a lockstep game between up to eight WebSocket or UDP peers.
Clients simulate; the server is a packet-paced referee that admits clients, agrees
on the settings, collects each player's tic commands, and fans every tic out to
everybody else. Everything that decides something is sans-I/O:

| Part | Code | State | Operations |
|---|---|---|---|
| Server role | `server_role.rs` | `ServerState`, adopted mode and settings, one `Peer` per member (connection state, reliable FIFO, game state), the receive window | `handle(input, now)` with Join, Leave, Packet, Malformed, Timer |
| Room core | `core.rs` | `Registry`: members, their bounded outboxes, the batch snapshot | join, leave, queue, begin a batch, relay |
| Room host | `room.rs` | one registry and one role; owed prefixes of removed peers | join, leave, packet, malformed, tick, drain |
| Runtime | `runtime.rs` | the map of rooms, the timer task | lease, timer loop, close a room |
| WebSocket binding | `websocket.rs` | one session per socket | route binding, read loop, write loop, owed prefix before the close |
| UDP binding | `udp.rs` | addresses, tombstones, captured datagrams | receive, two-phase drain, admission on SYN |
| Codec | `crates/doom-proto` | none | encode and decode |
| Engine client | `engine/src/net_client.c`, `net_common.c`, `d_loop.c` | connection state machine, reliable FIFO, its own send and receive windows | run, send tics, resend |
| Engine transports | `engine/src/net_websockets.c`, `net_sdl.c`, `net_loop.c` | sockets, queues | send, receive |
| Embedding scripts | `engine/src/*.js`, `crates/doom-extension` | verdict aggregation, message gate, mod order, lobby | messages from the frame and the host |

How they meet: a binding turns bytes into `Input`s under the room's lock; the room
host feeds them to the role one at a time; the role answers with a list of `Action`s;
the host puts `Send`s into outboxes, turns a slow consumer into a further Leave, and
takes `Disconnect` as the removal. The timer task ticks every room under the same
lock. So one input is one atomic step of a room, and all of the concurrency is in
*which* input comes next: clients, hangups, timeouts and the timer interleave freely.

What makes it hard:

* a cascade inside one input: a reliable broadcast onto a full FIFO removes its target,
  the removal broadcasts in its turn, may abort the start or end the game, and all
  of it happens while an outer loop still walks a list taken before;
* members in different phases of life at the same time: without SYN, connected, in
  their disconnect sleep, being disconnected. What one forgets about the others shows in
  the *next* game of the same room;
* tic numbers travel as one byte and are expanded against a moving window, while
  uploads are lost, duplicated, late and reordered, and acknowledgements are arbitrary;
* the fan-out of a tic waits for commands, for acknowledgements and for the window,
  and a player may leave between any two of these;
* both ends of a connection and of a game repeat themselves until they are answered, over a
  network that loses, repeats and delays; each end's patience is the other end's progress;
* the tasks of the runtime share rooms under one lock but send and wake outside of it, so
  each may act on a room that has changed, or has been replaced, since it looked.

For each part, what makes it correct:

| Part | Properties |
|---|---|
| Role, lobby | exclusive slots, one mode per room, a lobby without leftovers, frozen player numbers, no game without players, every removal reported once, drains that end |
| Role, game | no command under another tic's number, complete tics, exact replays, no lost gap, no jam, every tic goes out |
| Room core and host | the outbox bound, `MAX_HOST_BATCH`, a removed peer's owed prefix before its terminal, registry and role agree |
| Runtime | a closed room's sessions act on nobody else |
| Bindings | one terminal, after everything owed; an address is one member; a drain cannot resurrect a peer |
| Codec | encode and decode are inverse on what the code emits |
| Client | reliable packets exactly once and in order; what is run as tic t was made for tic t; the game goes on whatever is lost |

`PROJECT.json` lists every hazard at its line, and the property that would notice it.

## 2. The modules

| Module | Models | Shape |
|---|---|---|
| `RoomLifecycle` | abstract: what the role promises about a room | sets of members, one action per promise |
| `RoomLifecycleProofs` | its inductive invariant, proved | |
| `ServerRole` | `server_role.rs` outside the running game | one operator per handler |
| `MCServerRole` | ServerRole for TLC, and the refinement mapping to `RoomLifecycle` | |
| `ServerRoleProofs` | its inductive invariant, what inputs make it send, and the refinement, proved | |
| `RoomHost` | `room.rs` over `core.rs`, composed with ServerRole | the reduction loop, the outboxes |
| `RoomHostProofs` | its inductive invariant, and what every reduction reports, proved | |
| `TicFanout` | `server_role.rs` in the running game | one action per packet and timer pass |
| `TicFanoutProofs` | its inductive invariant, proved | |
| `FifoLane` | abstract: what a reliable lane promises | submit, deliver |
| `Connection` | the handshake, the reliable lanes and the disconnects, both ends: `net_common.c`, `net_client.c`, `server_role.rs` | one action per handler and per timeout, a lossy channel |
| `ConnectionProofs` | both lanes are exact FIFOs, proved | |
| `Lockstep` | a running game with its clients: TicFanout, and `net_client.c` and `d_loop.c` for each client | the windows and rings of both ends, a lossy channel |
| `LockstepProofs` | its safety properties and that it implements `TicFanout`, proved | |
| `Runtime` | `runtime.rs`, `websocket.rs`, `udp.rs` around one room name | one action per critical section, send and wake-up |
| `RuntimeProofs` | its inductive invariants, proved | |
| `RuntimeOrderProofs` | its order of delivery, proved on top of them | |

### RoomLifecycle

Which connections are `fresh`, `strangers` (no SYN yet), `connected`, `asleep` (said
DISCONNECT), `closing` (being disconnected) or gone; whether the room is in its lobby,
starting or in game; the adopted mode and settings, who is ready and who plays. A step
may lose a *set* of members, because one input of the role may (`Lose`). It is the
specification the role is measured against: short enough to read, and proved.

### ServerRole

The variable `role` is the struct `ServerRole`; `role.peers` maps a `PlayerId` to the
fields of `Peer` that outlive an input. A handler is an operator from a context -- the
role and the actions so far -- to a context, so `Handle(r, input)` is `handle()` with
its result, and properties can speak about what an input *sends*. The correspondence is
one to one: `OnJoin`/`on_join`, `OnSyn`/`on_syn`, `OnLaunch`, `OnGameStart`, `StartGame`,
`EnqueueReliable`, `RemoveConnected`, `RemoveUnconnected`, `EndGame`, `OnReliableAck`,
`OnMalformed`, `OnTimer`, `VisitPeer`.

`EnqueueReliable` and `RemoveConnected` call each other, as they do in the code: a removal
broadcasts, a broadcast may find a full FIFO, a full FIFO removes. `Enqueue` and
`RemovePeer` take the enqueue they call as an argument, and `Cascade` closes the knot: its
level `n` serves rooms of at most `n` members, and calls level `n - 1`, because the removal
in between has left one member fewer. A loop of the code is a `Loop` of as many turns as
there are slots, or ids; the turn of an empty slot does nothing. Both are recursive functions
and not RECURSIVE operators, so that the module can be proved about.

Abstracted: time (a Timer input names the peers whose deadlines have passed, and those
whose one-second cadences have); packet contents; the eight-bit reliable sequence numbers (an
acknowledgement is that of the head or not; a reliable packet is the next one or not).
The protocol slots, the reliable FIFO with its capacity, the retries of DISCONNECT, the
readiness and the frozen indices are kept.

### RoomHost

Extends ServerRole with `backlog`, the registry: the length of each member's outbox, `None`
for whoever is not a member. `Reduce` is `reduce()`: actions are applied in order, a
member that was at capacity when the reduction *began* is removed at its next send and feeds
one Leave to the role, whose actions are the next `Round`. A round that induces another has
removed a member, so `MaxPeers + 1` rounds are all the `while` loop can make. Each
binding call is an action (`HostJoin`, `HostLeave`, `HostPacket`, `HostMalformed`,
`HostTick`, `Relay`, `PopOutbound`), and the writers of the bindings drain when
they like, or never. What the host reports -- whom to close, what a removed peer
is owed -- is part of a reduction's result, and the properties examine it for every
input in every state, the induced Leaves included.

What an outbox holds is left out: only its length decides anything. `MAX_HOST_BATCH`
(67) keeps its value; of the 65 sends of an in-game timer pass that `TicFanout` abstracts
(`GameBurst`: 64 resend runs and a pump) the model takes the number from the comment at
`core.rs:20` and checks the rest of that comment's argument.

### TicFanout

One game, from `start_game` to `end_game`: `connected` and `asleep` clients, the receive
window (`start`, `recv`, `asked`), and per client `sendseq`, `acked` and the send queue.
`Upload` is `on_game_data`, `GameDataAck` is `on_game_data_ack`, `Disconnect` and `Leave`
are the departures, `Timer(expired, quiet)` is the timer pass over the clients in slot
order: removals, `pump` for each client, `check_deadlock`, then `advance_window`. A pass
in which several clients expire is modelled with what each turn still sees
(`Present`): clients before a removal in slot order still count the client it removes.

A command is represented by the number of the tic it was made for; that makes "stored,
forwarded or replayed under another tic's number" a state one can see. The variable
`sent` is a history of everything fanned out. The wire byte is kept (`Expand` is
`expand_tic`). Abstracted: the clock (`quiet` names the players whose deadlock clock has
run out), latency values, and packets that a timer pass emits without changing state
(`check_resends` re-sends requests that `asked` already records).

Clients are the environment of these modules: they may send anything at any time. The
modules below put real clients, a network and the runtime in their place.

### Connection and FifoLane

One client and the server's record of it. `client` and `server` are the two connection
states, and each lane (to the client, to the server) has its sender's FIFO, its two counters
and the packets and acknowledgements in flight. The channel drops (`Lose`), repeats
(receiving removes nothing from the wire), delays and reorders. The counters keep their
width: `Next8` is the wrap of the byte. `Retry`, `Receive`, `Acknowledge` are the
same rules on both ends; what differs is when news travels: the server's
`on_reliable_ack` sends the next head at once, the client's waits for `NET_Conn_Run`.
`ClientReceives` takes packet 0 as the accepted SYN and overwrites any state with
Connected, as `NET_CL_ParseSYN` does.

`FifoLane` says what a lane is for: packets come out in the order they went in, once.
`LanesAreFifos` is the refinement, once in each direction.

Abstracted: the clock (an armed timeout may fire at any time), what a packet says, and the
reason for a refusal. One incarnation: a removed client is not admitted again. `ServerRole`
uses acknowledgements that are exact or not; this module is where that is justified.

### Lockstep

Extends `TicFanout` with the clients of that game: `maketic`, `gametic`, the ring `ticdata`
of `d_loop.c`, the send queue, the receive window, the requests and the diff base of
`net_client.c`. `MakeTic` is `BuildNewTic`, `RunTic` is the loop of `TryRunTics`,
`ClientRun` is `NET_CL_Run`: parse every datagram that has arrived, advance the window,
check resends. The server's steps are TicFanout's own actions. Any span ever sent to a
client may arrive, or none; uploads and acknowledgements arrive late, repeated or never.

A command is the number of its tic, and a diff fits only on the command before it: `Garbled`
is a command patched onto another base (`diffBase`, `Fits`). So a tic that is misnumbered,
lost from the ring, or patched out of order shows as a wrong number in what the game runs.

Abstracted: several tics made or run in one pass of a loop are several steps; clocks
and their adaptation; `resend_time` is whether a request is out. A client that disconnects
plays on alone and is followed no further (`Followed`).

### Runtime

One room name. `room` is the `BindRoom` in `Runtime.rooms`, or `NoRoom`; a session has a
reader and a writer task, a listener its phase and the batch it took out of the room. One
action is one critical section of the mutex (`Join`, `Envelope`, `Leave`, `Look`,
`TakePending`, `Receive`, `Take`, `Finish`, `Tick`, `CloseRoom`), or one send, or one
wake-up: `toWake` holds the `Effects` a task has yet to deliver, and `permit` is the stored
permit of a `Notify`. `Applied` is `apply()`: what a removed member is owed moves from its
outbox to its connection or to its address.

Abstracted: the host is any reduction that queues at most one frame for some members, and
removes others, with or without a terminal (`Outcomes`); `RoomHost` models it in full. A
frame is its number among those made for its member. Between different addresses no
order is kept. Left out: routes and `bind_source`, QUERY answers, oversized datagrams.
`close_room` is for an embedding host, which serves no UDP (`websocket.rs` only), so it is
guarded by the absence of UDP state.

## 3. What TLC checks

| Run | Shows |
|---|---|
| `server_role` | three members at a time, two game modes: slots, modes, frozen numbers and the lobby under every interleaving of inputs |
| `server_role_live` | three connections in two seats: what an input may send to a draining peer and change for others; every step is a step of `RoomLifecycle`; drains end, and a room without players returns to its lobby |
| `room_host` | registry and role agree on the members; each removal reaches the binding once; a batch is no backlog; a removed peer is owed everything; `MAX_HOST_BATCH` suffices; no outbox outgrows its bound |
| `fanout_wrap` | two players over more than one wrap of the wire byte: aliasing, fan-out, replay, window and gaps |
| `connection` | both lanes are FIFOs over any losses, repeats and late copies, with a wrapped sequence number; a client connects once |
| `connection_live` | what was queued is processed, and both ends let go of each other |
| `lockstep` | two players, one of whom may leave: what is run as tic t was made for tic t, and every tic is run by whoever stays |
| `lockstep_drone` | a player and a drone: pace, the client's own resends and gaps, uploads within the window |
| `runtime` | a session, a listener, the timer and `close_room` over two lives of the name: identities, order of what is owed, wake-ups, drains that end |
| `streams_diverge`, `drone_freeze`, `stale_writer` | three places where the code does not do what its text says, section 5 |

Two properties of `server_role_live` quantify over all inputs in every reachable state
(`DrainingHearsOnlyDisconnect`, `StrangersDisturbNobody`), and so do five of `room_host`:
they examine the whole result of an input, which no state shows.

### Bounds

`ServerRole`: `MaxJoins` 3 admissions per behaviour and at most `MaxPeers` 2 or 3 members
at a time (the registry's 8): three are a player, another player and a
drone, or a cascade with a victim, a cause and a bystander; with three admissions and
two seats a slot and a room are reused after a game end. `ReliableCap` 2 (64 in the code)
lets a FIFO overflow inside a Launch, a GAMESTART and a console broadcast;
`DisconnectSends` 2 (5) has one retry before the forced removal; `NetMaxPlayers` 2 (8)
makes a full room reachable; `MaxNodes` 4 (16) stays above `MaxPeers`, as 16 is above 8.
A SYN of a player or a drone announces an invalid mode or any of `Modes`: two in
`server_role`, so that a room can adopt one, lose its players and adopt the other while
members of the first drain or sleep, and one in the live run, whose properties do not tell modes
apart. `server_role` treats the two as interchangeable (`ModeSymmetry`): modes are only
compared with each other, and it checks no liveness. `idle` is everybody or
nobody; `expired` is any subset.

`RoomHost`: three connections in two seats and `OutboxCapacity` 1 (64), so a client that
misses one packet is a slow consumer and every kind of batch meets one in first, middle
or last place.

`TicFanout`: the window has 2 slots, the wire byte 4 values (128 and 256, the
same ratio, and `expand_tic`'s thresholds scaled with it), `MaxTic` 5 passes the wrap of
the byte. `StallTics` 0 (40), `SinglePlayerAhead` 0 (10), `ExtraTics` 1, `DeadlockSpan` 2
(6) keep every limit inside such a window. An upload holds up to `MaxUpload` 2
commands, begins at most `MaxStale` tics behind the window and ends within a byte's reach
of it. Those last two are preconditions and not conveniences: the code checks neither, and an
upload older than 128 tics (3.7 s) *is* taken for another tic, since the byte says
no more. With `MaxStale` one above `BackupTics`, or without the limit ahead, TLC finds
`NeverAliased` violated; the proofs need exactly `MaxStale <= BackupTics`. That a real client
stays behind the limit ahead is `UploadsFitWindow` of `Lockstep`; nothing ensures the staleness.

`Connection`: the byte has 2 values (256), `ReliableCap` 2 (64), and `MaxPackets` 3 in a lane
wrap it. `MaxRetries` 1 (5) and `DisconnectSends` 2 (5) have one repeat each. `MaxStale`
(a datagram arrives before this many later packets were processed) must be below `SeqValues`;
like `MaxStale` of the game it is a fact about the protocol: a byte older than a turn would
be taken for another packet. The live run has two packets a lane, to finish.

`Lockstep`: the window has 2 slots and the byte 4 values, or 3 and 6 with a drone, so the
ring is reused; `MaxAhead` 0 (8, `d_loop.c:172`), `StallTics` 0 or 1 (40). `MaxLate`
1 is how far behind the receive window a late span may start, `MaxBatch` how
many datagrams one `NET_CL_Run` drains, `MayLeave` who may leave. `MaxTic` 2 or 4.

`Runtime`: one session and one listener with one address share a room of two seats,
`OutboxCapacity` 1 (64), so any second frame is a slow consumer; two lives of the name
(`MaxLives`), at most three members admitted in the first (`MaxIds`), one frame queued for
a member besides its terminal (`MaxFrames`). Two listeners or two sessions interact
only through the room; the proofs cover any number of both. `stale_writer` has two sessions
and no listener.

In the game runs, the connection runs and the runtime runs deadlock is not checked: the
bounded behaviour stops when all tics are made, or when every connection has come and gone.

### Fairness

`server_role_live` assumes the timer only: while a peer drains, a timer pass in which its
deadline has passed comes again and again (`DrainFairness`). `timer_loop`
(`runtime.rs:526`) ticks every room each interval for as long as the server runs. Nothing
is assumed of clients.

`connection_live` assumes that timeouts and retries fire, that 30 seconds of silence are
noticed once the other end is gone, and that the channel is fair: a head that is sent again
and again arrives (`HeadArrives`), and so does one of its acknowledgements (`AckArrives`),
by strong fairness because each loss disables them. A channel that loses everything is what
the timeouts are for; `BothEndsLetGo` needs nothing of the channel.

`lockstep` assumes that the game loops and the timer keep running, that what one side
repeats until it is answered arrives in the end (the server's request and the player's
answer, `ResendArrives`; the server's replay to a silent player, `Replayed`), and that one of any
number of acknowledgements arrives. A player's own requests are not relied on. A drone's are
(`HeadRequested`, `RequestAnswered`), since nothing is replayed to it; `drone_freeze` shows
that they are not enough.

`runtime` assumes that the executor polls a listener that can go on and whoever holds its
wake-up; `stale_writer` assumes the same of writers. Nobody has to send anything, and
readers may hang for ever.

## 4. What TLAPS proves

**RoomLifecycleProofs**, for every set of connections: `Inv` (the types and the four
promises together) is inductive. The promises need each other: `LobbyIsClean` needs that
`ready` and `playing` name clients only, `GameIsAgreed` that nobody enrols past the lobby,
`StartedRoomHasAPlayer` that a player asleep still counts. `LoseInv` is the core: losing
any set of members keeps the invariant from any state an input may have reached.

**ServerRoleProofs**, for any number of ids, members, slots, FIFO entries and retries allowed
by `RoleAssumption`: `RoleInv` is inductive. Its parts are the invariants of `server_role`
(`TypeOK`, `SlotsAreExclusive`, `LobbyIsClean`, `OneGameMode`, `StartedRoomHasAPlayer`) and
two strengthenings: `Counted` (ids are handed out in order, and the room is within
`MaxPeers`, which is why a free slot exists and why a cascade has enough levels), and
`Strangers` (a member without SYN is as it was admitted, so its first packet finds room in
its FIFO and SYN acceptance sets off no cascade). `StartedRoomHasAPlayer` becomes `Populated`, and
`OneGameMode` has two parts: `OneMode`, everyone connected has the adopted mode, and
`Claimed`, the adopted mode is that of a player connected or asleep. `Claimed` needs `OneMode`:
when a removal leaves the room going, some player is connected, and by `OneMode` the mode is its own.

The argument goes around the recursion. `Loses(r, s)` says what *any* number of removals may
make of a room: either the members that are left keep everything but their FIFOs, or the game
is over, and it is over exactly when the loss as a whole calls for it (`EndsIt`). It is closed
under composition (`LosesTwice`), which is not obvious: a first removal may leave a player
that a second one takes. By least counterexample over the levels (`CascadeServes`), every
enqueue stays within `Loses`, leaves its target with something queued or gone, and never
sends to a peer that drains. Each handler then has one of a few effects (`Effect`:
a loss, an admission, a refusal, an enrolment, a sleep, a launch, a GAMESTART), each effect
keeps `RoleInv` (`EffectInv`), and each is a step of `RoomLifecycle` or invisible to it
(`EffectIsLife`). The theorems:

* `RoleTyped`, `ExclusiveSlots`, `CleanLobby`, `OneModeOnly`, `GameHasAPlayer`,
  `FrozenIndices`: each safety property of `server_role`, for all constants;
* `DrainingIsSpared`, `StrangersAreHarmless`: the two promises about every input in every
  reachable state. For the first, `Quiet` relates the actions of a half-finished batch to the
  role: whoever was told to disconnect in it is not live any more;
* `ImplementsLifecycle`: `ServerRole` implements `RoomLifecycle`, a whole cascade, timer pass
  or aborted GAMESTART being one step. The promises proved of the abstract room
  hold of the role.

`Quiet` also carries `Booked`, the books of a batch: its actions name members only, take each
lost one out exactly once, and say nothing to it afterwards. `HandleIn` proves it of every
input, and the next proofs start from it.

So they do from `HandleIsBrief`, which says how much one input makes for one member: at most four
packets, and two from a timer pass if it plays. Counting sends alone is not preserved by a
cascade, so the counts include what the role could still say by itself: `Heads`, the reliable
packets in the batch and the one that an empty FIFO admits; `Words`, the plain ones and the
notice of removal that a connected member has to come. Whatever a cascade does raises neither
(`Lighter`), and a handler adds to them what it says itself.

**RoomHostProofs**, for every outbox capacity, room size and batch, under `RoleAssumption`
and a capacity of at least 1: `HostInv` is inductive. It says that role and registry are each in
order (`RoleInv`, `Outboxes`) and have the same members. That they agree again after a
reduction is the work. During it they do not: the role has finished the batch and may have lost
members that the registry has yet to meet, and the registry drops slow consumers that
the role has yet to hear of. `Ledger` holds in between, for `S`, the members whose removal the
reduction has not met, and `T`, those the batch will leave:

* `Rolls`: who is registered, closed, slow and retired; `Accounts`: what each outbox owes;
  `Inducing`: which Leaves are still to be told to the role; `Began`: unless
  somebody was slow at the start, the role is as `handle` left it;
* each action keeps it (`SendKeeps`, `DisconnectKeeps`, so `ApplyKeeps`), hence a round does
  (`RoundKeeps`); a round that induces another has removed a member, so `MaxPeers + 1`
  rounds end with an empty batch (`ReduceEnds`), and there `S`, `T`, registry and role are one
  set (`ReduceDelivers`).

The bounds rest on one more count, `Charge`: what a reduction has produced for a member, what the
induced actions will send it, and what the role could still say to it. An action raises it by no
more than its own send (`ApplyCharges`), because the Leave of a slow consumer says nothing to
the others that was not counted as due; so a round does not raise it (`RoundKeeps`), and a
whole reduction makes no more than `HandleIsBrief` allows. `BatchAssumption` gives the constants'
relation, `2 <= GameBurst` and `GameBurst + 2 <= MaxHostBatch`: it is the composition in the
comment of `MAX_HOST_BATCH` (`core.rs:20`), where 64 resend runs and a pump make 65, and a
keepalive and a reliable head make 67. That the game sends no more than its burst is outside the
theorem: `TicFanout` models which tics are asked for again, not the packets that ask.

The outbox bound needs `Began` to say that whoever was at capacity and is still there was sent
nothing. Then an outbox passes its capacity in one reduction only, one that began below it.

The theorems: `RegistryAndRoleAgree`, `RemovalsAreReported`, `NobodyIsSlowMidBatch`,
`RemovedGetEverything` and `MemoryStaysBounded` (from `BatchesFit` and `OutboxesFit`, one for
each assertion) are `RegistryAgrees`, `RemovalsReachTheBinding`, `BatchIsNoBacklog`,
`RemovedAreOwedEverything` and `MemoryIsBounded` of `room_host`, for all constants.

**TicFanoutProofs**, for all casts, window sizes and bounds allowed by
`FanoutAssumption`: `IInv` is inductive. It consists of the checked invariants
(`TypeOK`, `NeverAliased`, `FanoutIsTrue`, `AcksHoldTheWindow`, `NobodySkipped`,
`GapsAreAsked`) and two strengthenings:

* `SentIsHeld`: what has been sent to a client and is still in the window is still held
  there for every connected player. `NobodySkipped` and `WindowNeverJams` rest on it.
* `QueueIsTail`: slot `t % BackupTics` of a send queue holds tic `t`, for the last
  `BackupTics` tics sent. `ReplayIsExact` follows, because the stall guard bounds how far a
  queue runs ahead of an acknowledgement.

The key lemmas are arithmetic. `ExpandIsCongruent`: expansion changes a tic by whole turns
of the byte only. `SlotIsTrue`: so a command at most a window behind and less than a byte
ahead is stored under its own number or not at all. `ExpandIsExact` says more of
the code's own 256, 64 and 176: within 64 tics of the window's start the byte gives
the tic back.

The assumptions: `ByteValues = 2 * BackupTics`, `MaxStale <= BackupTics`,
`StallTics < BackupTics`, `ExtraTics < BackupTics`. With the code's 256, 128 and 40, and
`extratics` validated below `BACKUPTICS` at the game's start (`server_role.rs:2090`), all
hold except the staleness of uploads, which the code leaves to the network.

**ConnectionProofs**, for every width of the sequence number, every FIFO capacity, and every
staleness below the width: `IInv`. On each lane the two ends count alike (`Counted`: the
counters are the histories modulo `SeqValues`, and the receiver is at most one packet ahead of
what its sender has popped), the FIFO holds the last packets (`InOrder`), and what is in
flight is within one turn of what it could be taken for (`WireFresh`, `AcksFresh`).
`SameTurn` then turns equal bytes into equal packets. The theorems: nothing is
forgotten, each lane delivers in order (a history formulation and the steps of `FifoLane`), a
client connects once.

**LockstepProofs**, for every number of players, drones, window size and bound allowed by
`FanoutAssumption` and `LockstepAssumption`: `LInv` is inductive. It is TicFanout's
`IInv`, `LeavesRoom` (what has been sent to a client, and all it may make on top of that, fits
the server's window) and
`ClientInv`: what a client holds in a slot is what the server sent it for that tic
(`RingIsTrue` for what it has run, `DiffsCount` for the base the next diff is applied to),
its send queue keeps what the server may ask for, and acknowledgements never exceed what
has been received. The theorems:

* `LockstepIsFanout`: every step with real clients is a step of `TicFanout` or a stutter. What
  `UploadArrives` takes for granted of an upload there is thus shown of
  `NET_CL_SendTics`, and every theorem about `TicFanout` holds of the composition.
* `ClientsRunTrue`, `NobodyGetsAhead`, `UploadsAlwaysFit`, `ClientsKeepWhatIsMissing`,
  `ClientGapsStayAsked`: each safety property of the runs, for all constants.

`NET_CL_Run` drains any number of datagrams before the window moves, which is a recursive
function over the batch; what holds after each datagram is shown by least
counterexample (`LeastNat`, from the library's `WFMin`), since a rule of induction over
a predicate cannot be instantiated here. The assumptions besides TicFanout's:
`StallTics + MaxAhead + 2 <= BackupTics` (the code's 40 + 8 + 2 and 128),
`SinglePlayerAhead + MaxAhead + 2 <= BackupTics` (10 + 8 + 2), `ExtraTics < MaxUpload`, and
`MaxLate <= BackupTics`, which the code leaves to the network. `ExtraTics` is
otherwise free, so the theorems cover the spans that the runs, with `ExtraTics` at 1, do not.

**RuntimeProofs**, for any sessions, listeners, addresses, capacities and bounds, in two
layers. `IInv` is about the room and its listeners: the shape of `BindRoom`, the identity
maps (`Agrees`), that an address that is owed removal traffic is draining and not mapped
(`Entombed`), and that a batch in flight holds datagrams of this life only, retains the
room, and keeps its tombstones' addresses out until it is finished (`Held`). It yields
`OneIdentityMap`, `LifetimesApart` and `TerminalBeforeReadmission`. `RoomHolds` is the
lemma on `apply()`: any outcome of the host keeps the room invariant. `AInv` adds the tasks:
a writer or a listener that waits with no wake-up stored or on its way has nothing to do.
`NextIsHeard` is its core: whatever gives a waiter something to do wakes it. It
yields `NobodySleepsOn`.

**RuntimeOrderProofs** adds a third layer, `OInv`, for the first life of a name: what each
task holds of a member's frames, in the order in which they will leave, is one line, numbered
without a gap, that ends with the last frame made for it.

* `Lines`: the batch of a listener, what the room owes the address, and the outbox of the
  member behind it; `Served`: what a session sent, the frame in its hand, and
  what waits for it, which begins with frame 1; `Parked`: only who is removed has
  pending frames;
* `Seating`: no two sessions have one id, and none has that of an address. It fails in a second
  life, where ids start again (finding 3 below), and is why `OwedInOrder` is said
  of the first;
* `CapturedTallies`: a reduction lengthens a line, or cuts the outbox of a slow consumer off as a
  whole and uncounts it, so that a terminal may follow. Every other step moves frames along
  the line (`LineConcat`, `LineTail`): `Look` from the outbox to the hand, `Take`
  from the room to the batch.

`OwedKeepsOrder` is `OwedInOrder` for any sessions, listeners, addresses, capacities and bounds.

Not proved: liveness, which is outside the prover's reach and stays with TLC. Every safety
invariant and action property that a passing run checks is stated by a theorem. `RoomLifecycle`
has no run of its own: its promises are proved, and `ServerRole` is proved, and checked, to
implement it.

## 5. Where code and text disagree

Each of the first three has a run that shows it.

1. `streams_diverge`. "clients simulate locally from the same settings and ticcmd stream"
   (`docs/design.md:94`): a player that departs between the turns of two recipients takes
   part in a tic for one survivor and not for the other.
2. `drone_freeze`. A room with a drone stops for ever once the acknowledgements of a whole stall
   span of the drone are lost: `pump` waits for them (`server_role.rs:1462`), the deadlock
   check replays to players only (`server_role.rs:1685`), and the drone acknowledges again
   only after new game data (`net_client.c:722`). Its own forced request names a tic the
   server has not queued. `net_client.c:673` describes the recovery this was meant to be.
3. `stale_writer`. "wakes every connection so its upgrade task closes" (`runtime.rs:101`): a
   writer asks whether its `PlayerId` is a member of *whatever* room now has the name, and
   ids start at 1 in a fresh registry (`core.rs:221`). When another session has joined
   the name since, the old writer takes that member for its own, may pop a frame the member is
   owed, and waits on a `Notify` that nobody will signal. By the same reuse the `leave`
   of a session whose room was closed can remove the new member. `OwedInOrder` is
   stated for the first life of a name for this reason.

Noticed while modelling, by reading; the model follows the code:

* "gets no non-disconnect traffic while it drains" (`server_role.rs:1971`): an old-magic SYN
  from a draining peer is answered with REJECTED (`on_malformed`, line 1223).
  `DrainingHearsOnlyDisconnect` leaves out this input and no other.
* "A non-drone loss while waiting for GAMESTART aborts startup (pinned behavior)"
  (`server_role.rs:594`): not if the player said DISCONNECT first; it is no longer
  `is_player()` when its sleep ends. The pinned `net_server.c:1790` asks only
  `!client->drone`.
* "the room's mode/mission pair is adopted by the first non-drone SYN that finds zero non-drone
  players" (`docs/protocol.md:151`, and so does the retained `net_server.c:705`): `on_syn` asks
  besides that no mode is adopted (`server_role.rs:846`). A player that said DISCONNECT is no
  player any more but holds the mode until its five second sleep ends, so a SYN for another
  game that finds zero players then is refused with "Game mismatch". `OneGameMode` bounds
  this: a room without players has a mode only while one of them sleeps. The extra condition is
  not idle either: the mutant `AdoptsWithoutPlayers`, which follows the text, replaces the
  mode under a connected drone.
* "Overflow is transactional" (`server_role.rs:986`): an overflow in the middle of the GAMESTART
  broadcast leaves earlier recipients with a GAMESTART in a room that keeps waiting.

## 6. Not modelled, and why

Done: the role, its game, the room host, the runtime with both bindings, the client's
half of the connection and of the game, and their compositions `RoomHost` (role and
registry), `Connection` and `Lockstep` (server, network and clients).

Open:

* the burst of a game, 64 resend runs and a pump, which would need the request packets in
  `TicFanout`; `GameBurst` is a constant of `RoomHost`;
* `RoomHost` under `Runtime` in place of any reduction: their product is beyond TLC, and the
  outcomes `Runtime` allows include all of the host's;
* a room with several games and admissions in between, played over `Connection`'s lanes: the
  lanes are verified on their own and taken as exact by `ServerRole`;
* liveness of `Lockstep` with `extratics` above 1 (`server_role.rs:1559`), which needs larger
  windows than TLC finishes; its safety is proved for them;
* routes of the WebSocket envelope, QUERY, and the adaptation of oversized datagrams
  (`udp.rs:324`): decided within one critical section, on data the models abstract.

No state of their own worth a model: the codec (pure, golden fixtures), `canary_verdict.js`,
`message_gate.js`, `mod_order.js` (functions of a message), the extension's lobby (a
snapshot and a timer over `close_room`), the server binary, transports' socket code.

Left out for good: the game simulation, rendering, sound and input of the engine
(upstream, and no state machine of manageable size), vendored libraries, the retained C server
(the oracle the Rust role is pinned to), packaging, and argument parsing.

## 7. Running it

    tlc -config ServerRole.cfg MCServerRole.tla
    tlc -config Runtime.cfg Runtime.tla
    tlapm ServerRoleProofs.tla
    tlapm RoomHostProofs.tla
    tlapm RuntimeOrderProofs.tla
    tlapm TicFanoutProofs.tla
