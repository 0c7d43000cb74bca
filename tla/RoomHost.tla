------------------------------ MODULE RoomHost ------------------------------
(***************************************************************************)
(* One room as its bindings see it: RoomHost of crates/doom-server/src/    *)
(* room.rs, which owns a Registry (core.rs) with the members' bounded      *)
(* outboxes and a ServerRole, and reduces the role's actions into them.    *)
(* One call of the host is one step, under the room's lock.                *)
(*                                                                         *)
(* Abstracted: what an outbox holds.  Only its length decides anything;    *)
(* the packets themselves leave in FIFO order.                             *)
(***************************************************************************)
EXTENDS ServerRole

CONSTANTS
    OutboxCapacity,   \* outbox_capacity of the registry
    MaxHostBatch,     \* MAX_HOST_BATCH
    GameBurst         \* sends of one timer pass to a player that TicFanout
                      \* makes: its expired resend runs and one pump

ASSUME HostAssumption == {OutboxCapacity, MaxHostBatch, GameBurst} \subseteq Nat \ {0}

(* What MAX_HOST_BATCH is made of: to the burst of a timer pass, one resend *)
(* run and a pump at the least, come one keepalive and one reliable packet. *)
ASSUME BatchAssumption == 2 <= GameBurst /\ GameBurst + 2 <= MaxHostBatch

VARIABLE backlog      \* the registry: packets in each member's outbox

hostVars == <<role, backlog>>

Outboxes      == [Ids -> Nat \cup {None}]
Registered(b) == {p \in Ids : b[p] # None}
AtCapacity(b) == {p \in Registered(b) : b[p] >= OutboxCapacity}
Without(b, p) == [b EXCEPT ![p] = None]

HostInit == Init /\ backlog = [p \in Ids |-> None]

Listed(s)     == {s[i] : i \in DOMAIN s}
AddOnce(s, p) == IF p \in Listed(s) THEN s ELSE Append(s, p)

-----------------------------------------------------------------------------
(* reduce(): the actions of a batch are applied in order; every slow        *)
(* consumer they meet is removed and feeds one Leave to the role, whose     *)
(* actions form the next batch.  full: the members at capacity when the     *)
(* reduction began; produced: sends per member, counted before the outbox   *)
(* takes them; slow: registry-level removals; owed: packets captured for a  *)
(* removed peer; induced: the actions of the induced Leaves, which are the  *)
(* next batch.                                                              *)

Reductions == [role : Roles, backlog : Outboxes, full : SUBSET Ids, slow : Seq(Ids),
               produced : [Ids -> Nat], disconnects : Seq(Ids), owed : [Ids -> Nat],
               induced : Seq(Actions)]

Reduction(b, c, slow) ==
    [role |-> c.role, backlog |-> b, full |-> AtCapacity(b), slow |-> slow,
     produced |-> [p \in Ids |-> 0], disconnects |-> << >>, owed |-> [p \in Ids |-> 0],
     induced |-> c.actions]

LeaveRole(r, p) == IF p \in Members(r) THEN OnLeave(Fresh(r), p) ELSE Fresh(r)

Forget(st, p)    == [st EXCEPT !.backlog = Without(@, p), !.slow = Append(@, p)]
Induce(st, left) == [st EXCEPT !.role = left.role, !.induced = @ \o left.actions]
(* Mutant: a removal of the registry's own does not reach the role. *)
RemoveSlowSilently(st, p) == Forget(st, p)
RemoveSlow(st, p) == Induce(Forget(st, p), LeaveRole(st.role, p))

(* Mutant: nobody asks who was at capacity when the reduction began. *)
NeverSlow(st, p) == FALSE
(* Mutant: the batch itself counts as backlog. *)
IsSlowNow(st, p) == st.backlog[p] >= OutboxCapacity
IsSlow(st, p)    == p \in st.full

Queue(st, p) ==
    IF p \notin Registered(st.backlog) THEN st
    ELSE IF IsSlow(st, p) THEN RemoveSlow(st, p)
    ELSE [st EXCEPT !.backlog[p] = @ + 1]

ApplySend(st, p) == Queue([st EXCEPT !.produced[p] = @ + 1], p)

(* Mutant: the registry drops the outbox before it is captured. *)
CaptureTooLate(st, p) == st.owed
Capture(st, p) ==
    IF p \in Registered(st.backlog) /\ st.owed[p] = 0
    THEN [st.owed EXCEPT ![p] = st.backlog[p]] ELSE st.owed

ApplyDisconnect(st, p) ==
    [st EXCEPT !.owed = Capture(st, p), !.backlog = Without(@, p),
               !.disconnects = AddOnce(@, p)]

Apply(st, action) ==
    CASE action.type = "Send"       -> ApplySend(st, action.peer)
      [] action.type = "Disconnect" -> ApplyDisconnect(st, action.peer)
      [] action.type = "GameEnded"  -> st

Round(st) ==
    LET pending == st.induced
    IN  Loop(Len(pending),
             [i \in DOMAIN pending |-> [s \in Reductions |-> Apply(s, pending[i])]],
             [st EXCEPT !.induced = << >>])

(* Every round that induces another has removed a member, so the rounds are *)
(* no more than the room is large and one; a round of nothing does nothing. *)
Reduce(st) ==
    Loop(MaxPeers + 1, [i \in 1..(MaxPeers + 1) |-> [s \in Reductions |-> Round(s)]], st)

(* The peers an effect tells the binding to close.                          *)
(* Mutant: registry-level removals are reported besides the role's own.     *)
ClosesTwice(st) == st.disconnects \o st.slow
Closes(st) ==
    Loop(Len(st.slow),
         [i \in DOMAIN st.slow |-> [told \in Seq(Ids) |-> AddOnce(told, st.slow[i])]],
         st.disconnects)

-----------------------------------------------------------------------------
(* The calls of the bindings.                                               *)

(* join, leave, packet, malformed and tick: the registry takes a new member *)
(* before the role hears of it and forgets a leaving one after.             *)
Entered(input) ==
    IF input.type = "Join" THEN [backlog EXCEPT ![input.peer] = 0] ELSE backlog

Batch(input) ==
    LET Forgetting(st) == IF input.type = "Leave"
                          THEN [st EXCEPT !.backlog = Without(@, input.peer)] ELSE st
    IN  Forgetting(Reduce(Reduction(Entered(input), Handle(role, input), << >>)))

(* relay onto a full outbox.                                                *)
RelaySlow(p) == Reduce(Reduction(Without(backlog, p), LeaveRole(role, p), << p >>))

Becomes(st) == role' = st.role /\ backlog' = st.backlog

Call(inputs) == \E input \in inputs : Becomes(Batch(input))

HostJoin      == Call(JoinInputs(role))
HostLeave     == Call([type : {"Leave"}, peer : Registered(backlog)])
HostPacket    == Call(PacketInputs(role))
HostMalformed == Call(MalformedInputs(role))
HostTick      == Call(TimerInputs(role))

(* A member's packet to another member, or to itself. *)
Relay(p) ==
    /\ p \in Registered(backlog)
    /\ IF p \in AtCapacity(backlog) THEN Becomes(RelaySlow(p))
       ELSE backlog' = [backlog EXCEPT ![p] = @ + 1] /\ UNCHANGED role

(* pop_outbound: the binding's writer takes the oldest packet. *)
PopOutbound(p) ==
    /\ p \in Registered(backlog) /\ backlog[p] > 0
    /\ backlog' = [backlog EXCEPT ![p] = @ - 1]
    /\ UNCHANGED role

HostNext ==
    \/ HostJoin \/ HostLeave \/ HostPacket \/ HostMalformed \/ HostTick
    \/ \E p \in Ids : Relay(p) \/ PopOutbound(p)

HostSpec == HostInit /\ [][HostNext]_hostVars

-----------------------------------------------------------------------------
(* Registry and role always agree about who is in the room, although each   *)
(* removes members on its own and learns of the other's removals from the   *)
(* batch (reduce: a slow consumer's Leave meets a role that has finished    *)
(* the batch, and may have removed that peer in it).                        *)
RegistryAgrees == Registered(backlog) = Members(role)

(* What a reduction closes: exactly the members that are gone, each once,   *)
(* whoever removed them ("every registry-level removal is reported exactly  *)
(* once").                                                                  *)
ClosesTheRemoved(before, st) ==
    LET gone == before \ Registered(st.backlog)
    IN  Listed(Closes(st)) = gone /\ Len(Closes(st)) = Cardinality(gone)

RemovalsReachTheBinding ==
    /\ \A input \in Inputs(role) : ClosesTheRemoved(Registered(Entered(input)), Batch(input))
    /\ \A p \in AtCapacity(backlog) : ClosesTheRemoved(Registered(backlog), RelaySlow(p))

(* A client that keeps up is never punished for the size of a batch: unless *)
(* somebody was at capacity before the call, the outboxes change nothing of *)
(* what the role decided (begin_host_batch).                                *)
BatchIsNoBacklog ==
    AtCapacity(backlog) = {} =>
        \A input \in Inputs(role) : Batch(input).role = Handle(role, input).role

(* A peer the role removes is owed all that was queued for it and all the   *)
(* same reduction produced for it: nothing is sent after its removal, and   *)
(* only a slow consumer forfeits its backlog (removal_owed).                *)
OwesEverything(before, st) ==
    \A p \in Listed(Closes(st)) \ Listed(st.slow) :
        before[p] + st.produced[p] = st.owed[p]

RemovedAreOwedEverything ==
    \A input \in Inputs(role) : OwesEverything(Entered(input), Batch(input))

(* The sends of an input to a player in game that TicFanout makes. *)
Burst(input, p) ==
    IF input.type = "Timer" /\ role.state = "InGame" /\ p \in Players(role)
    THEN GameBurst ELSE 0

(* MAX_HOST_BATCH holds: what the lobby and connection code produces for    *)
(* one member in one reduction, induced Leaves included, leaves room for    *)
(* the resend runs and the pump of a timer pass to a player in game.        *)
FitsTheBatch(input, st) ==
    \A p \in Ids : st.produced[p] + Burst(input, p) <= MaxHostBatch

BatchesAreBounded == \A input \in Inputs(role) : FitsTheBatch(input, Batch(input))

(* "The exact maximum retained outbox count is (capacity - 1) +             *)
(* MAX_HOST_BATCH", which queue_host asserts: an outbox grows past its      *)
(* capacity in one reduction only, which began below it; a member that is   *)
(* at capacity when a reduction begins is sent nothing, or is out.          *)
Retained == (OutboxCapacity - 1) + MaxHostBatch

FitsTheOutbox(input, st) ==
    \A p \in Registered(st.backlog) :
        IF p \in AtCapacity(Entered(input)) THEN st.backlog[p] = backlog[p]
        ELSE st.backlog[p] + Burst(input, p) <= Retained

OutboxesAreBounded ==
    /\ \A p \in Registered(backlog) : backlog[p] <= Retained
    /\ \A input \in Inputs(role) : FitsTheOutbox(input, Batch(input))

(* The two assertions on memory, of reduce and of queue_host, never fire.   *)
MemoryIsBounded == BatchesAreBounded /\ OutboxesAreBounded
=============================================================================
