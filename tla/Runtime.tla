------------------------------- MODULE Runtime -------------------------------
(***************************************************************************)
(* The tasks around one room name: crates/doom-server/src/runtime.rs and   *)
(* its bindings websocket.rs and udp.rs.  A WebSocket session is a read    *)
(* loop and a write loop, a UDP listener is a loop of receive, take, send  *)
(* and finish, and one timer drives the room.  All of them reach the room  *)
(* under one mutex, one step per critical section, and do their sending    *)
(* and their waking after they released it.                                *)
(*                                                                         *)
(* Abstracted: the room's host (room.rs; module RoomHost) is any reduction *)
(* that queues at most one frame for some members and removes others; a    *)
(* frame is its number in the order in which its member was owed frames;   *)
(* datagrams to different addresses keep no order between them; routes,    *)
(* QUERY answers and the adaptation of oversized datagrams are left out.   *)
(***************************************************************************)
EXTENDS Naturals, Sequences, FiniteSets

CONSTANTS
    Sessions,         \* WebSocket upgrades, each used once
    Listeners,        \* UDP listeners pinned to the room
    Addresses,        \* remote UDP addresses
    MaxPlayers,       \* MAX_PLAYERS of the registry
    OutboxCapacity,   \* outbox_capacity of the registry
    MaxLives,         \* bound: how often the room is created
    MaxIds,           \* bound: members the first host admits, each next one less
    MaxFrames         \* bound: frames queued for one member

ASSUME RuntimeAssumption ==
    /\ {MaxPlayers, OutboxCapacity, MaxLives, MaxIds, MaxFrames} \subseteq Nat \ {0}
    /\ Sessions \cap Listeners = {}

VARIABLES
    room,      \* Runtime.rooms at the name: BindRoom, or NoRoom
    lives,     \* how often the name got a fresh BindRoom
    session,   \* the local state of a session's task and its two loops
    sent,      \* frames a session's client was sent
    listener,  \* the local state of a listener's task
    permit,    \* Notify: a stored notification
    toWake     \* waiters that tasks hold in Effects and have yet to notify

vars == <<room, lives, session, sent, listener, permit, toWake>>

Sources == Listeners \X Addresses
Of(l)   == {x \in Sources : x[1] = l}
Waiters == Sessions \cup Listeners

Without(f, S) == [x \in (DOMAIN f) \ S |-> f[x]]
Put(f, k, v)  == [x \in {k} \cup DOMAIN f |-> IF x = k THEN v ELSE f[x]]

NoRoom   == [life |-> 0]
BindRoom == [life |-> lives + 1, next |-> 1, outbox |-> << >>, made |-> << >>,
             connections |-> << >>, peers |-> << >>, addresses |-> << >>,
             owed |-> [x \in Sources |-> << >>], draining |-> {}, inflight |-> {}]

Members(r) == DOMAIN r.outbox

Init ==
    /\ room = NoRoom /\ lives = 0
    /\ session = [s \in Sessions |->
           [id |-> 0, reader |-> "new", writer |-> "new", frame |-> 0]]
    /\ sent = [s \in Sessions |-> << >>]
    /\ listener = [l \in Listeners |->
           [phase |-> "receive", batch |-> [x \in Of(l) |-> << >>], tombstones |-> {}]]
    /\ permit = [w \in Waiters |-> FALSE]
    /\ toWake = {}

-----------------------------------------------------------------------------
(* The room.                                                                *)

Vacant(r) == DOMAIN r.outbox = {} /\ DOMAIN r.connections = {} /\ DOMAIN r.peers = {}
Owes(r)   == (\E x \in Sources : r.owed[x] # << >>)

(* Mutant: a batch that is being sent does not retain the room. *)
IsEmptyWhileSending(r) == Vacant(r) /\ ~Owes(r)
IsEmpty(r)    == Vacant(r) /\ ~Owes(r) /\ r.inflight = {}
IsDraining(r) == Vacant(r) /\ (Owes(r) \/ r.inflight # {})

Kept(r) == IF IsEmpty(r) THEN NoRoom ELSE r

(* What one reduction of the host does to the registry: frames for the      *)
(* members in Q, removals of those in R, a terminal for those in T.  A      *)
(* member of Q at capacity is removed instead and forfeits its outbox.      *)
Slow(r, Q)    == {p \in Q : Len(r.outbox[p]) >= OutboxCapacity}
Gone(r, Q, R) == R \cup Slow(r, Q)

QueuedFor(r, Q, p) ==
    IF p \in Slow(r, Q) THEN << >>
    ELSE IF p \in Q THEN Append(r.outbox[p], r.made[p] + 1) ELSE r.outbox[p]
(* removal_owed and the terminal of a removed member.                       *)
(* Mutant: the terminal overtakes what was queued before it. *)
TerminalFirst(r, Q, T, p) ==
    IF p \in T \ Slow(r, Q)
    THEN << r.made[p] + (IF p \in Q THEN 2 ELSE 1) >> \o QueuedFor(r, Q, p)
    ELSE QueuedFor(r, Q, p)
Captured(r, Q, T, p) ==
    IF p \in T \ Slow(r, Q)
    THEN Append(QueuedFor(r, Q, p), r.made[p] + (IF p \in Q THEN 2 ELSE 1))
    ELSE QueuedFor(r, Q, p)
MadeFor(r, Q, T, p) ==
    r.made[p] + Len(Captured(r, Q, T, p)) - Len(r.outbox[p])

Datagrams(r, frames, p) ==
    [i \in 1..Len(frames) |-> [life |-> r.life, id |-> p, frame |-> frames[i]]]

(* Mutant: the address of a removed member stays mapped. *)
StillMapped(r, gone) == r.addresses
(* The address maps lose a removed member together. *)
LeftBehind(r, gone) == {r.peers[p] : p \in gone \cap DOMAIN r.peers}
StayMapped(r, gone) == Without(r.addresses, LeftBehind(r, gone))

WithPending(c, frames) == [c EXCEPT !.pending = @ \o frames]

(* The reduction and apply(): what a removed member is owed moves to its    *)
(* connection's pending frames, or to the pending datagrams of its address, *)
(* which keep the address out until they are sent.                          *)
Applied(r, Q, R, T) ==
    LET gone == Gone(r, Q, R)
        left == LeftBehind(r, gone)
        Owed(p) == Captured(r, Q, T, p)
    IN  [r EXCEPT
            !.outbox = [p \in DOMAIN @ \ gone |-> QueuedFor(r, Q, p)],
            !.made = [p \in DOMAIN @ |-> IF p \in Members(r) THEN MadeFor(r, Q, T, p) ELSE @[p]],
            !.connections = [p \in DOMAIN @ |->
                IF p \in gone THEN WithPending(@[p], Owed(p)) ELSE @[p]],
            !.peers = Without(@, gone),
            !.addresses = StayMapped(r, gone),
            !.owed = [x \in Sources |->
                IF x \in left THEN @[x] \o Datagrams(r, Owed(r.addresses[x]), r.addresses[x])
                ELSE @[x]],
            !.draining = @ \cup {x \in left : Owed(r.addresses[x]) # << >>}]

WaitersOf(r, S) ==
    {r.connections[p].session : p \in S \cap DOMAIN r.connections}
        \cup {r.peers[p][1] : p \in S \cap DOMAIN r.peers}
(* Mutant: a removal wakes nobody. *)
WokenByFrames(r, Q, R) == WaitersOf(r, Q \ Gone(r, Q, R))
Woken(r, Q, R) == WaitersOf(r, Q \cup R)

(* Members that may get a frame within the bound, or lose their place to one. *)
Writable(r) == {p \in Members(r) : r.made[p] < MaxFrames} \cup Slow(r, Members(r))

(* What becomes of each member in a call of the host that must remove the   *)
(* members in gone.                                                         *)
Fates(r, gone) ==
    {fate \in [Members(r) -> {"stays", "removed", "dismissed"}] :
        \A p \in gone : fate[p] # "stays"}

Outcome(r, Q, fate) ==
    LET R == {p \in Members(r) : fate[p] # "stays"}
        T == {p \in Members(r) : fate[p] = "dismissed"}
    IN  [room |-> Applied(r, Q, R, T), woken |-> Woken(r, Q, R)]

Outcomes(r, gone) ==
    {Outcome(r, Q, fate) : Q \in SUBSET Writable(r), fate \in Fates(r, gone)}

(* The room a join finds or creates, with a new member in it.               *)
Found == IF room = NoRoom THEN BindRoom ELSE room
Admits ==
    /\ room = NoRoom => lives < MaxLives
    /\ Cardinality(Members(Found)) < MaxPlayers
    /\ Found.next + Found.life <= MaxIds + 1

WithMember(r) ==
    [r EXCEPT !.next = @ + 1, !.outbox = Put(@, r.next, << >>),
              !.made = Put(@, r.next, 0)]

CountLife == lives' = IF room = NoRoom THEN lives + 1 ELSE lives

-----------------------------------------------------------------------------
(* A WebSocket session.                                                     *)

Set(s, changes) ==
    session' = [session EXCEPT ![s] =
        [f \in DOMAIN session[s] |->
            IF f \in DOMAIN changes THEN changes[f] ELSE session[s][f]]]

Connected(s) == room # NoRoom /\ session[s].id \in DOMAIN room.connections

(* runtime.join(), then the writer is spawned and the read loop entered.    *)
Join(s) ==
    /\ session[s].reader = "new"
    /\ IF room # NoRoom /\ IsDraining(room)
       THEN /\ Set(s, [reader |-> "left", writer |-> "done"])
            /\ UNCHANGED <<room, lives, toWake>>
       ELSE LET p == Found.next
                entered == [WithMember(Found) EXCEPT
                               !.connections = Put(@, p, [session |-> s, pending |-> << >>])]
            IN  /\ Admits
                /\ CountLife
                /\ Set(s, [id |-> p, reader |-> "open", writer |-> "look"])
                /\ \E o \in Outcomes(entered, {}) :
                       room' = o.room /\ toWake' = toWake \cup o.woken
    /\ UNCHANGED <<sent, listener, permit>>

(* read_loop: a frame for the server or for another member. *)
Envelope(s) ==
    /\ session[s].reader = "open" /\ Connected(s)
    /\ \E o \in Outcomes(room, {}) : room' = o.room /\ toWake' = toWake \cup o.woken
    /\ UNCHANGED <<lives, session, sent, listener, permit>>

(* read_loop: a Ping wakes the writer. *)
Ping(s) ==
    /\ session[s].reader = "open"
    /\ permit' = [permit EXCEPT ![s] = TRUE]
    /\ UNCHANGED <<room, lives, session, sent, listener, toWake>>

(* read_loop returns: a hangup, a Close, or a frame the binding rejects. *)
StopReading(s) ==
    /\ session[s].reader = "open"
    /\ Set(s, [reader |-> "ended"])
    /\ UNCHANGED <<room, lives, sent, listener, permit, toWake>>

(* runtime.leave(), once either loop has ended.                             *)
OwnMember(s) == {session[s].id} \cap Members(room)

Leave(s) ==
    /\ \/ session[s].reader = "ended"
       \/ session[s].reader = "open" /\ session[s].writer \in {"done", "closed"}
    /\ Set(s, [reader |-> "left"])
    /\ IF room = NoRoom THEN UNCHANGED <<room, toWake>>
       ELSE LET waiter == WaitersOf(room, {session[s].id})
            IN  \E o \in (IF OwnMember(s) = {} THEN {[room |-> room, woken |-> {}]}
                          ELSE Outcomes(room, OwnMember(s))) :
                    /\ room' = Kept([o.room EXCEPT !.connections = Without(@, {session[s].id})])
                    /\ toWake' = toWake \cup o.woken \cup waiter
    /\ UNCHANGED <<lives, sent, listener, permit>>

(* write_loop: pop_outbound and contains, under one lock.  With nothing to   *)
(* send it flushes, which may fail, and waits.                              *)
Look(s) ==
    LET p == session[s].id
    IN  /\ session[s].writer = "look"
        /\ IF room = NoRoom
           THEN Set(s, [writer |-> "done"]) /\ UNCHANGED room
           ELSE IF p \in Members(room) /\ room.outbox[p] # << >>
           THEN /\ Set(s, [writer |-> "send", frame |-> Head(room.outbox[p])])
                /\ room' = [room EXCEPT !.outbox[p] = Tail(@)]
           ELSE /\ UNCHANGED room
                /\ \E next \in IF p \in Members(room) THEN {"wait", "done"} ELSE {"take"} :
                       Set(s, [writer |-> next])
        /\ UNCHANGED <<lives, sent, listener, permit, toWake>>

(* sink.send: it succeeds, or the loop returns. *)
Send(s) ==
    /\ session[s].writer = "send"
    /\ \/ /\ sent' = [sent EXCEPT ![s] = Append(@, session[s].frame)]
          /\ Set(s, [writer |-> "look", frame |-> 0])
       \/ Set(s, [writer |-> "done", frame |-> 0]) /\ UNCHANGED sent
    /\ UNCHANGED <<room, lives, listener, permit, toWake>>

(* The peer is gone: its pending frames are taken under a second lock, then *)
(* sent, whatever becomes of them, and the Close frame after them.          *)
TakePending(s) ==
    /\ session[s].writer = "take"
    /\ Set(s, [writer |-> "closed"])
    /\ IF Connected(s)
       THEN /\ sent' = [sent EXCEPT ![s] = @ \o room.connections[session[s].id].pending]
            /\ room' = [room EXCEPT !.connections[session[s].id].pending = << >>]
       ELSE UNCHANGED <<room, sent>>
    /\ UNCHANGED <<lives, listener, permit, toWake>>

(* waiter.notified(). *)
Notified(s) ==
    /\ session[s].writer = "wait" /\ permit[s]
    /\ Set(s, [writer |-> "look"])
    /\ permit' = [permit EXCEPT ![s] = FALSE]
    /\ UNCHANGED <<room, lives, sent, listener, toWake>>

-----------------------------------------------------------------------------
(* A UDP listener.                                                          *)

Phase(l, phase) == listener' = [listener EXCEPT ![l].phase = phase]

Mapped(x) == room # NoRoom /\ x \in DOMAIN room.addresses

(* udp_datagram() of an address the room has mapped. *)
FromPeer(x) ==
    /\ Mapped(x)
    /\ \E o \in Outcomes(room, {}) : room' = o.room /\ toWake' = toWake \cup o.woken
    /\ UNCHANGED lives

AdmissionBlocked(x) == room # NoRoom /\ (x \in room.draining \/ IsDraining(room))

(* udp_datagram() of an unknown address that sends a SYN, accepted or       *)
(* refused by the role in the same step.                                    *)
FromStranger(x) ==
    LET p == Found.next
        entered == [WithMember(Found) EXCEPT !.peers = Put(@, p, x),
                                             !.addresses = Put(@, x, p)]
    IN  /\ ~Mapped(x)
        /\ ~AdmissionBlocked(x)
        /\ Admits
        /\ CountLife
        /\ \E o \in Outcomes(entered, {}) : room' = o.room /\ toWake' = toWake \cup o.woken

(* A datagram that changes nothing: noise, or a SYN that is not admitted. *)
Unheard(x) ==
    /\ ~Mapped(x)
    /\ UNCHANGED <<room, lives, toWake>>

Receive(l, x) ==
    /\ listener[l].phase = "receive"
    /\ Phase(l, "take")
    /\ FromPeer(x) \/ FromStranger(x) \/ Unheard(x)
    /\ UNCHANGED <<session, sent, permit>>

Woke(l) ==
    /\ listener[l].phase = "receive" /\ permit[l]
    /\ Phase(l, "take")
    /\ permit' = [permit EXCEPT ![l] = FALSE]
    /\ UNCHANGED <<room, lives, session, sent, toWake>>

(* take_udp(): the pending datagrams of removed peers and the outboxes of   *)
(* the others become the batch, and its tombstones are remembered.          *)
Live(x) == IF x \in DOMAIN room.addresses
           THEN Datagrams(room, room.outbox[room.addresses[x]], room.addresses[x]) ELSE << >>

Batch(l) == [x \in Of(l) |-> room.owed[x] \o Live(x)]

Taken(r, l) ==
    [r EXCEPT
        !.owed = [x \in Sources |-> IF x \in Of(l) THEN << >> ELSE @[x]],
        !.outbox = [p \in DOMAIN @ |->
            IF p \in DOMAIN r.peers /\ r.peers[p] \in Of(l) THEN << >> ELSE @[p]],
        !.inflight = IF \E x \in Of(l) : Batch(l)[x] # << >> THEN @ \cup {l} ELSE @]

Take(l) ==
    /\ listener[l].phase = "take"
    /\ IF room = NoRoom
       THEN Phase(l, "send") /\ UNCHANGED room
       ELSE /\ listener' = [listener EXCEPT ![l] =
                   [phase |-> "send", batch |-> Batch(l),
                    tombstones |-> room.draining \cap Of(l)]]
            /\ room' = Taken(room, l)
    /\ UNCHANGED <<lives, session, sent, permit, toWake>>

SendTo(l, x) ==
    /\ listener[l].phase = "send" /\ listener[l].batch[x] # << >>
    /\ listener' = [listener EXCEPT ![l].batch[x] = Tail(@)]
    /\ UNCHANGED <<room, lives, session, sent, permit, toWake>>

(* finish_udp(), after the last send.                                       *)
(* Mutant: it clears the listener's tombstones, not its batch's. *)
AllTombstones(l) == Of(l)
Tombstones(l) == listener[l].tombstones

Finish(l) ==
    /\ listener[l].phase = "send"
    /\ \A x \in Of(l) : listener[l].batch[x] = << >>
    /\ listener' = [listener EXCEPT ![l] =
           [phase |-> "receive", batch |-> @.batch, tombstones |-> {}]]
    /\ room' = IF room = NoRoom THEN NoRoom
               ELSE Kept([room EXCEPT !.inflight = @ \ {l}, !.draining = @ \ Tombstones(l)])
    /\ UNCHANGED <<lives, session, sent, permit, toWake>>

-----------------------------------------------------------------------------
(* The timer, the embedding host, and the wake-ups everybody owes.          *)

Tick ==
    /\ room # NoRoom
    /\ \E o \in Outcomes(room, {}) : room' = Kept(o.room) /\ toWake' = toWake \cup o.woken
    /\ UNCHANGED <<lives, session, sent, listener, permit>>

(* close_room(), for an embedding host's own reasons.  Such a host serves   *)
(* no UDP, so the room it closes has no UDP state.                          *)
CloseRoom ==
    /\ room # NoRoom /\ DOMAIN room.peers = {} /\ ~Owes(room) /\ room.inflight = {}
    /\ room' = NoRoom
    /\ toWake' = toWake \cup WaitersOf(room, DOMAIN room.connections)
    /\ UNCHANGED <<lives, session, sent, listener, permit>>

(* notify_one(). *)
Notify(w) ==
    /\ w \in toWake
    /\ toWake' = toWake \ {w}
    /\ permit' = [permit EXCEPT ![w] = TRUE]
    /\ UNCHANGED <<room, lives, session, sent, listener>>

Reads(s)  == Join(s) \/ Envelope(s) \/ Ping(s) \/ StopReading(s) \/ Leave(s)
Writes(s) == Look(s) \/ Send(s) \/ TakePending(s) \/ Notified(s)
Drains(l) == Woke(l) \/ Take(l) \/ Finish(l) \/ \E x \in Of(l) : SendTo(l, x)

Next ==
    \/ \E s \in Sessions : Reads(s) \/ Writes(s)
    \/ \E l \in Listeners : Drains(l) \/ \E x \in Of(l) : Receive(l, x)
    \/ Tick \/ CloseRoom \/ \E w \in Waiters : Notify(w)

Spec == Init /\ [][Next]_vars

(* The executor polls every task that can go on: a writer, a listener, and  *)
(* the task that holds their wake-ups.  Nobody has to send anything.        *)
FairWriters   == \A s \in Sessions : WF_vars(Writes(s)) /\ WF_vars(Notify(s))
FairListeners == \A l \in Listeners : WF_vars(Drains(l)) /\ WF_vars(Notify(l))

WriterSpec   == Spec /\ FairWriters
ListenerSpec == Spec /\ FairListeners

-----------------------------------------------------------------------------
(* One identity map: every member is either behind one connection or        *)
(* behind one address, the address maps are each other's inverse, and a     *)
(* UDP member that the host removes loses its address in the same step.     *)
Agrees(r) ==
    /\ Members(r) \subseteq DOMAIN r.connections \cup DOMAIN r.peers
    /\ DOMAIN r.peers \subseteq Members(r)
    /\ DOMAIN r.peers \cap DOMAIN r.connections = {}
    /\ DOMAIN r.addresses = {r.peers[p] : p \in DOMAIN r.peers}
    /\ \A p \in DOMAIN r.peers : r.addresses[r.peers[p]] = p

BindingsAgree == room # NoRoom => Agrees(room)

(* What is still to be sent to an address, oldest first. *)
Unsent(x) ==
    listener[x[1]].batch[x] \o
        (IF room = NoRoom THEN << >> ELSE room.owed[x] \o Live(x))

(* A new lifetime of the room starts only after the last datagram of the    *)
(* one before has left (is_draining, is_empty and the two-phase drain).     *)
LifetimesDoNotOverlap ==
    \A x \in Sources : \A i \in 1..Len(Unsent(x)) :
        room # NoRoom /\ Unsent(x)[i].life = room.life

(* "A ready SYN must not be admitted before the prior terminal leaves the   *)
(* socket": what waits for an address that is admitted is its own.          *)
PriorTerminalFirst ==
    room # NoRoom => \A x \in DOMAIN room.addresses : \A i \in 1..Len(Unsent(x)) :
        Unsent(x)[i].id = room.addresses[x]

(* Nothing that is owed is lost, doubled or overtaken on its way from the   *)
(* host to a socket, whichever task holds it when the host removes the      *)
(* member ("every already-owed frame is delivered FIFO before the close").  *)
(* What waits for an address ends with the last frame made for its member   *)
(* and skips none; what a session was sent and what waits for it are the    *)
(* frames made for it.  A failed send or the end of its own read loop       *)
(* forfeits a session's rest.  A later lifetime of the room has the writers *)
(* of the first in it (LeftSessionsClose), so this is said of the first.    *)
WaitsInOrder(x) ==
    \A i \in 1..Len(Unsent(x)) :
        LET d == Unsent(x)[i]
        IN  IF i < Len(Unsent(x)) THEN Unsent(x)[i + 1].frame = d.frame + 1
            ELSE d.frame = room.made[d.id]

InHand(s) == IF session[s].writer = "send" THEN << session[s].frame >> ELSE << >>
Waiting(s) ==
    LET p == session[s].id
    IN  (IF p \in Members(room) THEN room.outbox[p] ELSE << >>) \o room.connections[p].pending

OwedInOrder ==
    lives = 1 =>
        /\ \A x \in Sources : WaitsInOrder(x)
        /\ \A s \in Sessions :
            Connected(s) /\ session[s].writer # "done" =>
                sent[s] \o InHand(s) \o Waiting(s) = [i \in 1..room.made[session[s].id] |-> i]

(* Nobody sleeps through a wake-up: when the writer of a live connection    *)
(* or a listener waits and no wake-up is stored or on its way, it has       *)
(* nothing to do, although both are woken only after the lock was released. *)
Sleeps(w) == ~permit[w] /\ w \notin toWake

NoLostWakeup ==
    /\ \A s \in Sessions :
        Connected(s) /\ room.connections[session[s].id].session = s
                /\ session[s].writer = "wait" /\ Sleeps(s) =>
            session[s].id \in Members(room) /\ room.outbox[session[s].id] = << >>
    /\ \A l \in Listeners :
        listener[l].phase = "receive" /\ Sleeps(l) => \A x \in Of(l) : Unsent(x) = << >>

(* A room that is held only by removal traffic is let go: its name is not   *)
(* refused for ever.                                                        *)
DrainsEnd == (room # NoRoom /\ IsDraining(room)) ~> ~(room # NoRoom /\ IsDraining(room))

(* A session that is over closes its socket: leave() wakes its writer, and  *)
(* the writer finds that its member is gone.                                *)
LeftSessionsClose ==
    \A s \in Sessions :
        session[s].reader = "left" ~> session[s].writer \in {"done", "closed"}
=============================================================================
