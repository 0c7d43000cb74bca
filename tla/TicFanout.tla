----------------------------- MODULE TicFanout -----------------------------
(***************************************************************************)
(* One running game of a room: the receive window, the acknowledgements    *)
(* and the per-peer send queues of crates/doom-server/src/server_role.rs.  *)
(* It takes over where ServerRole's start_game says InGame and ends when   *)
(* end_game clears the game; one input is one atomic step.                 *)
(*                                                                         *)
(* Abstracted: a ticcmd is the number of the tic it was made for, so that  *)
(* a command stored or forwarded under another tic's number shows; the     *)
(* clock (a timer pass names the peers whose deadlines have passed);       *)
(* latency.  The wire's byte-sized tic numbers are kept.  The numbers of   *)
(* players are their protocol slots, which order the timer pass.           *)
(***************************************************************************)
EXTENDS Integers, Sequences, FiniteSets

CONSTANTS
    Players,            \* the slots of the clients that play this game
    Drones,             \* the slots of the clients that watch it
    BackupTics,         \* BACKUPTICS, slots of the window and of a send queue
    ByteValues,         \* values of a wire byte
    ExpandLow,          \* EXPAND_LOW
    ExpandHigh,         \* EXPAND_HIGH
    StallTics,          \* STALL_TICS
    SinglePlayerAhead,  \* SINGLE_PLAYER_AHEAD
    ExtraTics,          \* extratics of the adopted settings
    DeadlockSpan,       \* tics one deadlock request asks for
    MaxTic,             \* bound: players upload tics below it
    MaxUpload,          \* bound: tics of one upload
    MaxStale,           \* bound: how far behind the window an upload may start
    None                \* Option::None

Peers == Players \cup Drones
Slots == 0..(BackupTics - 1)
Bytes == 0..(ByteValues - 1)
Commands == 0..MaxTic

ASSUME FanoutAssumption ==
    /\ Players \subseteq Nat /\ Drones \subseteq Nat /\ Players \cap Drones = {}
    /\ BackupTics \in Nat \ {0} /\ ByteValues = 2 * BackupTics
    /\ ExpandLow \in Nat /\ ExpandHigh \in Nat
    /\ StallTics \in Nat /\ StallTics < BackupTics
    /\ SinglePlayerAhead \in Nat /\ DeadlockSpan \in Nat \ {0}
    /\ ExtraTics \in Nat /\ ExtraTics < BackupTics
    /\ MaxTic \in Nat /\ MaxUpload \in Nat /\ MaxStale \in Nat
    /\ MaxStale <= BackupTics
    /\ None \notin Nat

VARIABLES
    inGame,     \* the room is InGame
    connected,  \* connected clients
    asleep,     \* clients within their disconnect sleep
    start,      \* recv.start
    recv,       \* recv.entries: slot -> player -> the command held, or None
    asked,      \* recv.entries: slot -> player -> a resend was requested
    sendseq,    \* peer -> the next tic to fan out
    acked,      \* peer -> acknowledged
    queue,      \* peer -> sendqueue: slot -> the tic queued there, or None
    sent        \* history: peer -> every tic fanned out so far, in order

clients == <<inGame, connected, asleep>>
window  == <<start, recv, asked>>
sending == <<sendseq, queue, sent>>
vars    == <<clients, window, sending, acked>>

EmptyWindow  == [s \in Slots |-> [p \in Players |-> None]]
NothingAsked == [s \in Slots |-> [p \in Players |-> FALSE]]
Zero         == [p \in Peers |-> 0]
EmptyQueues  == [p \in Peers |-> [s \in Slots |-> None]]
NothingSent  == [p \in Peers |-> << >>]

Init ==
    /\ inGame = TRUE /\ connected = Peers /\ asleep = {}
    /\ start = 0 /\ recv = EmptyWindow /\ asked = NothingAsked
    /\ sendseq = Zero /\ acked = Zero /\ queue = EmptyQueues /\ sent = NothingSent

-----------------------------------------------------------------------------
(* Tic numbers on the wire. *)

Expand(relative, low) ==
    LET part == relative % ByteValues
    IN  (relative - part) + low
        - (IF part < ExpandLow /\ low > ExpandHigh THEN ByteValues ELSE 0)
        + (IF part > ExpandHigh /\ low < ExpandLow THEN ByteValues ELSE 0)

(* An acknowledgement counts when it is ahead of the last one and of        *)
(* nothing that was sent.                                                   *)
(* Mutants: unsent tics are acknowledged; a late duplicate takes one back.  *)
AcknowledgeUnsent(p, expanded) ==
    acked' = IF expanded > acked[p] THEN [acked EXCEPT ![p] = expanded] ELSE acked
AcknowledgeStale(p, expanded) ==
    acked' = IF expanded >= 0 /\ expanded <= sendseq[p]
             THEN [acked EXCEPT ![p] = expanded] ELSE acked
Acknowledge(p, expanded) ==
    acked' = IF expanded > acked[p] /\ expanded <= sendseq[p]
             THEN [acked EXCEPT ![p] = expanded] ELSE acked

-----------------------------------------------------------------------------
(* Uploads. *)

(* The window after p's commands first, first + 1, ... were stored from     *)
(* slot at on; what falls outside of the window is discarded.               *)
(* Mutant: the window is used as a ring. *)
StoredAround(p, at, first, count) ==
    [s \in Slots |-> IF \E i \in 0..(count - 1) : (at + i) % BackupTics = s
                     THEN [recv[s] EXCEPT ![p] = first + (s - (at % BackupTics))]
                     ELSE recv[s]]
Stored(p, at, first, count) ==
    [s \in Slots |-> IF s \in at..(at + count - 1)
                     THEN [recv[s] EXCEPT ![p] = first + (s - at)] ELSE recv[s]]

(* The missing run right behind slot at: down to the first slot that holds  *)
(* a command or has been asked for; the top slot is never part of it.       *)
(* Mutant: the scan stops above the window's first slot. *)
RunAboveHead(p, at) ==
    LET end == IF at < BackupTics - 1 THEN at ELSE BackupTics - 1
    IN  {s \in 1..(end - 1) : \A u \in s..(end - 1) : recv'[u][p] = None /\ ~asked[u][p]}
Run(p, at) ==
    LET end == IF at < BackupTics - 1 THEN at ELSE BackupTics - 1
    IN  {s \in 0..(end - 1) : \A u \in s..(end - 1) : recv'[u][p] = None /\ ~asked[u][p]}

(* Player p uploads the tics first, first + 1, ...; ack is whatever byte it *)
(* likes.                                                                   *)
Upload(p, first, count, ack) ==
    LET at == Expand(start, first % ByteValues) - start
    IN  /\ inGame /\ p \in connected
        /\ Acknowledge(p, Expand(start, ack))
        /\ IF at + start < 0 THEN UNCHANGED <<recv, asked>>
           ELSE /\ recv' = Stored(p, at, first, count)
                /\ asked' = [s \in Slots |-> IF s \in Run(p, at)
                                             THEN [asked[s] EXCEPT ![p] = TRUE]
                                             ELSE asked[s]]
        /\ UNCHANGED <<clients, start, sending>>

GameDataAck(p, ack) ==
    /\ inGame /\ p \in connected
    /\ Acknowledge(p, Expand(start, ack))
    /\ UNCHANGED <<clients, window, sending>>

-----------------------------------------------------------------------------
(* Departures. *)

(* The game ends with the first removal that leaves no connected player. *)
EndsGame(removed) == removed # {} /\ connected \cap Players \subseteq removed

Remove(removed) ==
    /\ connected' = connected \ removed /\ asleep' = asleep \ removed
    /\ inGame' = TRUE

End ==
    /\ inGame' = FALSE /\ connected' = {} /\ asleep' = {}
    /\ start' = 0 /\ recv' = EmptyWindow /\ asked' = NothingAsked
    /\ sendseq' = Zero /\ acked' = Zero /\ queue' = EmptyQueues /\ sent' = NothingSent

Disconnect(p) ==
    /\ inGame /\ p \in connected
    /\ connected' = connected \ {p} /\ asleep' = asleep \cup {p}
    /\ UNCHANGED <<inGame, window, sending, acked>>

Leave(p) ==
    /\ inGame /\ p \in connected \cup asleep
    /\ IF EndsGame({p}) THEN End
       ELSE Remove({p}) /\ UNCHANGED <<window, sending, acked>>

-----------------------------------------------------------------------------
(* The timer pass: every client's turn in slot order, then the window.      *)

Others(p, present) == (present \cap Players) \ {p}

(* Every other player's command for the slot has arrived. *)
AllArrived(p, slot, present) == \A q \in Others(p, present) : recv[slot][q] # None

(* The next tic goes to p, whose turn finds the clients in present. *)
Pumps(p, present) ==
    LET slot == sendseq[p] - start
    IN  /\ p \in present
        /\ \A q \in present : sendseq[p] - acked[q] <= StallTics
        /\ slot \in Slots
        /\ AllArrived(p, slot, present)
        /\ Others(p, present) = {} => slot <= SinglePlayerAhead

(* A fanned out tic: the command of each player that takes part in it. *)
FullTics == UNION {[S -> Commands] : S \in SUBSET Players}

(* The tic fanned out to p: the commands of the other connected players. *)
Active(slot, S) == {q \in S : recv[slot][q] # None}
(* Mutant: the window is read as a ring. *)
MergedAround(p, present) ==
    LET slot == sendseq[p] % BackupTics
    IN  [q \in Active(slot, Others(p, present)) |-> recv[slot][q]]
Merged(p, present) ==
    LET slot == sendseq[p] - start
    IN  [q \in Active(slot, Others(p, present)) |-> recv[slot][q]]

(* Turns before a removal still count the client that is removed. *)
Present(p, expired) == connected \ {q \in expired : q < p}
Pumped(expired) == {p \in connected \ expired : Pumps(p, Present(p, expired))}

PumpAll(expired) ==
    /\ sendseq' = [p \in Peers |-> IF p \in Pumped(expired) THEN sendseq[p] + 1 ELSE sendseq[p]]
    /\ queue' = [p \in Peers |->
          IF p \in Pumped(expired)
          THEN [queue[p] EXCEPT ![sendseq[p] % BackupTics] =
                   [seq |-> sendseq[p], tic |-> Merged(p, Present(p, expired))]]
          ELSE queue[p]]
    /\ sent' = [p \in Peers |->
          IF p \in Pumped(expired) THEN Append(sent[p], Merged(p, Present(p, expired)))
          ELSE sent[p]]

(* What the deadlock checks stamp: for a player whose game data has been    *)
(* missing for a second, its first missing slot and the five after it.      *)
Missing(p) == {s \in Slots : recv[s][p] = None}
Stamped(p) ==
    {s \in Slots : \E first \in Missing(p) :
        (\A m \in Missing(p) : first <= m) /\ s \in first..(first + DeadlockSpan - 1)}

(* The window gives up its first n slots: each is acknowledged by every     *)
(* connected client and complete for every connected player.                *)
(* Mutant: the columns of players who left must be complete too. *)
PassesWithDeparted(slot, present) ==
    /\ slot \in Slots
    /\ \A p \in present : start + slot < acked[p]
    /\ \A p \in Players : recv[slot][p] # None
Passes(slot, present) ==
    /\ slot \in Slots
    /\ \A p \in present : start + slot < acked[p]
    /\ \A p \in present \cap Players : recv[slot][p] # None

Advance(n, present, stalled) ==
    /\ \A slot \in 0..(n - 1) : Passes(slot, present)
    /\ ~Passes(n, present)
    /\ start' = start + n
    /\ recv' = [s \in Slots |-> IF s + n \in Slots THEN recv[s + n] ELSE EmptyWindow[s]]
    /\ asked' = [s \in Slots |->
          IF s + n \in Slots
          THEN [p \in Players |-> asked[s + n][p] \/ (p \in stalled /\ s + n \in Stamped(p))]
          ELSE NothingAsked[s]]

(* expired: clients removed at their turn (silence, end of sleep); quiet:   *)
(* players whose deadlock clock has run out.                                *)
Pass(expired, quiet) ==
    LET remaining == connected \ expired
    IN  /\ Remove(expired)
        /\ PumpAll(expired)
        /\ IF remaining \cap Players = {}
           THEN UNCHANGED window
           ELSE \E n \in 0..BackupTics : Advance(n, remaining, quiet \ expired)
        /\ UNCHANGED acked

Timer(expired, quiet) ==
    inGame /\ IF EndsGame(expired) THEN End ELSE Pass(expired, quiet)

-----------------------------------------------------------------------------
(* An upload may be late, duplicated or reordered, but it starts at most    *)
(* MaxStale behind the window and ends within a byte's reach of it.  Both   *)
(* are assumptions: of the network the first, of the client the second      *)
(* (Lockstep proves it of the real one, UploadsFitWindow).                  *)
UploadArrives ==
    \E p \in Players, first \in 0..MaxTic, count \in 0..MaxUpload, ack \in Bytes :
        /\ start - MaxStale <= first
        /\ first + count <= MaxTic /\ first + count <= start + ByteValues
        /\ Upload(p, first, count, ack)

AckArrives == \E p \in Peers, ack \in Bytes : GameDataAck(p, ack)
Departure  == \E p \in Peers : Disconnect(p) \/ Leave(p)
TimerFires ==
    \E expired \in SUBSET (connected \cup asleep), quiet \in SUBSET (connected \cap Players) :
        Timer(expired, quiet)

Next == UploadArrives \/ AckArrives \/ Departure \/ TimerFires

Spec == Init /\ [][Next]_vars

-----------------------------------------------------------------------------
(* Everything stays in its type, and a peer's send sequence counts exactly  *)
(* the tics fanned out to it.                                               *)
TypeOK ==
    /\ inGame \in BOOLEAN
    /\ connected \subseteq Peers /\ asleep \subseteq Peers /\ connected \cap asleep = {}
    /\ start \in Nat
    /\ recv \in [Slots -> [Players -> Commands \cup {None}]]
    /\ asked \in [Slots -> [Players -> BOOLEAN]]
    /\ sendseq \in [Peers -> Nat] /\ acked \in [Peers -> Nat]
    /\ queue \in [Peers -> [Slots -> [seq : Nat, tic : FullTics] \cup {None}]]
    /\ sent \in [Peers -> Seq(FullTics)]
    /\ \A p \in Peers : Len(sent[p]) = sendseq[p]

(* Slot s of the window holds a command made for the tic start + s or       *)
(* nothing, for uploads that are late, repeated or early WITHIN the bound   *)
(* of UploadArrives: they start at most MaxStale, hence at most a window,   *)
(* behind, and end at most a byte ahead.  Within it whatever expand_tic     *)
(* makes of the low byte is the tic or falls out of the window.  The code   *)
(* has no such check, and one tic beyond either end the property fails: the *)
(* command is stored under another tic.                                     *)
NeverAliased ==
    \A s \in Slots, p \in Players : recv[s][p] \in {None, start + s}

(* End to end: every command ever fanned out as part of tic t was made for  *)
(* tic t, for uploads within the same bound.                                *)
FanoutIsTrue ==
    \A p \in Peers : \A t \in 1..Len(sent[p]) :
        \A q \in DOMAIN sent[p][t] : sent[p][t][q] = t - 1

(* Nobody who stays is skipped, and nobody hears itself: every tic fanned   *)
(* out to a connected peer carries the command of each other player still   *)
(* connected (pump's completeness check and merge).                         *)
NobodySkipped ==
    \A p \in connected : \A t \in 1..Len(sent[p]) :
        /\ (connected \cap Players) \ {p} \subseteq DOMAIN sent[p][t]
        /\ p \notin DOMAIN sent[p][t]

(* The window never passes a connected peer's acknowledgement, which never  *)
(* passes what was sent to it; and nobody is sent more than StallTics + 1   *)
(* tics beyond the slowest connected peer's acknowledgement.                *)
AcksHoldTheWindow ==
    \A p \in connected :
        /\ start <= acked[p] /\ acked[p] <= sendseq[p]
        /\ \A q \in connected : sendseq[p] <= acked[q] + StallTics + 1

(* The deadlock replay and a client's resend request read the send queue by *)
(* tic number modulo its size: the whole unacknowledged span, and the       *)
(* extratics span of the newest packet, is still there as it was sent, and  *)
(* nothing a queue holds differs from what was sent under its number.       *)
Holds(p, t) == queue[p][t % BackupTics] = [seq |-> t, tic |-> sent[p][t + 1]]

ReplayIsExact ==
    \A p \in connected :
        /\ \A t \in 0..(sendseq[p] - 1) :
              t >= acked[p] \/ t >= sendseq[p] - 1 - ExtraTics => Holds(p, t)
        /\ \A s \in Slots : queue[p][s] # None =>
              /\ queue[p][s].seq \in 0..(sendseq[p] - 1)
              /\ Holds(p, queue[p][s].seq)

(* The window is never jammed by a tic everyone has acknowledged: with two  *)
(* clients left, such a tic is complete for every connected player, so the  *)
(* next pass gives it up (advance_window needs both conditions).            *)
WindowNeverJams ==
    (\E p, q \in connected : p # q) =>
        \A s \in Slots :
            (\A p \in connected : start + s < acked[p])
            => \A p \in connected \cap Players : recv[s][p] # None

(* No gap is forgotten: a missing slot below one that was received or asked *)
(* for has itself been asked for, so check_resends keeps requesting it      *)
(* until it arrives.                                                        *)
GapsAreAsked ==
    \A p \in Players : \A s, u \in Slots :
        (s < u /\ (recv[u][p] # None \/ asked[u][p]) /\ recv[s][p] = None) => asked[s][p]

(* design.md: "clients simulate locally from the same settings and ticcmd   *)
(* stream".  Whether player q takes part in tic t is the same in every      *)
(* connected peer's stream.                                                 *)
SameStream ==
    \A p, r \in connected : \A t \in (DOMAIN sent[p]) \cap (DOMAIN sent[r]) :
        DOMAIN sent[p][t] \ {r} = DOMAIN sent[r][t] \ {p}
=============================================================================
