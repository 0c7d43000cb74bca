------------------------------ MODULE Lockstep ------------------------------
(***************************************************************************)
(* A running game with its clients: TicFanout's server, and in every       *)
(* client the game loop (engine/src/d_loop.c) over the receive window, the *)
(* send queue and the diff base of engine/src/net_client.c.  The network   *)
(* between them loses, repeats, delays and reorders: any span ever sent    *)
(* may arrive, or none.                                                    *)
(*                                                                         *)
(* Abstracted, besides what TicFanout abstracts: a tic is made and run one *)
(* at a time (TryRunTics and NetUpdate loop over both); clocks and clock   *)
(* synchronisation; resend_time is whether a request is out.  A client     *)
(* whose connection ends plays on alone: it is not followed, and put back  *)
(* to its first state.                                                     *)
(***************************************************************************)
EXTENDS TicFanout

CONSTANTS
    MaxAhead,   \* BuildNewTic: how far maketic may run ahead of gametic
    MaxLate,    \* bound: how far behind the receive window a span may start
    MayLeave,   \* bound: the clients that may leave
    MaxBatch,   \* bound: datagrams drained by one NET_CL_Run
    Garbled     \* a ticcmd patched onto another base than it was made from

ASSUME LockstepAssumption ==
    /\ MaxAhead \in Nat
    /\ StallTics + MaxAhead + 2 <= BackupTics
    /\ SinglePlayerAhead + MaxAhead + 2 <= BackupTics
    /\ ExtraTics + 1 <= MaxUpload
    /\ MaxLate \in Nat /\ MaxLate <= BackupTics
    /\ MayLeave \subseteq Peers /\ MaxBatch \in Nat
    /\ Garbled \notin Nat \cup {None} /\ None \notin FullTics

VARIABLES
    maketic,    \* player -> the next tic to make
    sendQueue,  \* player -> send_queue: slot -> the tic kept there, or None
    gametic,    \* client -> the next tic to run
    ticdata,    \* client -> slot -> player -> command, or None: not in game
    recvtic,    \* client -> recvwindow_start, which is recvtic of d_loop.c
    recvwindow, \* client -> slot -> the tic received, or None
    resent,     \* client -> slot -> a resend was requested
    diffBase,   \* recvwindow_cmd_base: client -> player -> whose diff fits next
    owesAck     \* need_to_acknowledge

loop       == <<maketic, sendQueue, gametic, ticdata>>
receiving  == <<recvtic, recvwindow, resent, diffBase>>
clientVars == <<loop, receiving, owesAck>>
allVars    == <<vars, clientVars>>

FirstTic         == [p \in Players |-> 0]
NothingMade      == [p \in Players |-> [s \in Slots |-> None]]
NothingToRun     == [p \in Peers |-> EmptyWindow]
NothingReceived  == [p \in Peers |-> [s \in Slots |-> None]]
NothingRequested == [p \in Peers |-> [s \in Slots |-> FALSE]]
FirstDiffs       == [p \in Peers |-> FirstTic]
NothingOwed      == [p \in Peers |-> FALSE]

LockstepInit ==
    /\ Init
    /\ maketic = FirstTic /\ sendQueue = NothingMade
    /\ gametic = Zero /\ ticdata = NothingToRun
    /\ recvtic = Zero /\ recvwindow = NothingReceived
    /\ resent = NothingRequested /\ diffBase = FirstDiffs /\ owesAck = NothingOwed

-----------------------------------------------------------------------------
(* The game loop of client p. *)

Playing(p) == inGame /\ p \in connected

(* Mutant: the local player may run ahead without limit. *)
MakesFreely(p) == p \in Players
Makes(p)       == p \in Players /\ maketic[p] - gametic[p] <= MaxAhead

(* The next ticcmd is made, kept for resends and sent, with the last        *)
(* ExtraTics before it.                                                     *)
MakeTic(p) ==
    /\ Playing(p) /\ Makes(p) /\ maketic[p] < MaxTic
    /\ maketic' = [maketic EXCEPT ![p] = @ + 1]
    /\ sendQueue' = [sendQueue EXCEPT ![p][maketic[p] % BackupTics] = maketic[p]]
    /\ ticdata' = [ticdata EXCEPT ![p][maketic[p] % BackupTics][p] = maketic[p]]
    /\ owesAck' = [owesAck EXCEPT ![p] = FALSE]
    /\ UNCHANGED <<vars, gametic, receiving>>

(* A tic is run once the local command and everyone else's are there.       *)
(* Mutant: the local command is not waited for.                             *)
ReceivedTic(p) == recvtic[p]
LowTic(p) ==
    IF p \in Players /\ maketic[p] < recvtic[p] THEN maketic[p] ELSE recvtic[p]

RunTic(p) ==
    /\ Playing(p)
    /\ gametic[p] < LowTic(p)
    /\ gametic' = [gametic EXCEPT ![p] = @ + 1]
    /\ UNCHANGED <<vars, maketic, sendQueue, ticdata, receiving, owesAck>>

-----------------------------------------------------------------------------
(* NET_CL_Run: every datagram that has arrived is parsed, then the window   *)
(* advances over the complete tics at its head, then resends are checked.   *)

(* Client p's window w after the tics of span d: what falls outside of the  *)
(* window is dropped, and the missing run right below the span is asked for *)
(* down to a slot that is received or asked for.                            *)
(* Mutant: the scan stops above the window's first slot.                    *)
Parsed(p, w, d, lowest) ==
    LET at  == Expand(recvtic[p], d.first % ByteValues) - recvtic[p]
        end == IF at < BackupTics - 1 THEN at ELSE BackupTics - 1
        got == [s \in Slots |-> IF s \in at..(at + d.count - 1)
                                THEN sent[p][d.first + (s - at) + 1] ELSE w.tics[s]]
    IN  [tics   |-> got,
         resent |-> [s \in Slots |->
            w.resent[s] \/ /\ s \in lowest..(end - 1)
                           /\ \A u \in s..(end - 1) : got[u] = None /\ ~w.resent[u]]]
ParseAboveHead(p, w, d) == Parsed(p, w, d, 1)
ParseGameData(p, w, d)  == Parsed(p, w, d, 0)

(* The window after the first i datagrams of a batch. *)
Draining(p, batch) ==
    LET drain[i \in 0..Len(batch)] ==
            IF i = 0 THEN [tics |-> recvwindow[p], resent |-> resent[p]]
            ELSE ParseGameData(p, drain[i - 1], batch[i])
    IN  drain

(* The complete tics at the head of the window. *)
Complete(tics) ==
    CHOOSE n \in 0..BackupTics :
        /\ \A s \in 0..(n - 1) : tics[s] # None
        /\ n < BackupTics => tics[n] = None

(* Diffs are applied in order; one that was made from another base garbles  *)
(* its player's commands from there on.                                     *)
Carries(tics, s, q) == tics[s] # None /\ q \in DOMAIN tics[s]
Fits(p, tics, s, q) ==
    /\ diffBase[p][q] # Garbled
    /\ \A u \in 0..s : Carries(tics, u, q) =>
          tics[u][q] = diffBase[p][q] + Cardinality({v \in 0..(u - 1) : Carries(tics, v, q)})
Patched(p, tics, s, q) ==
    IF ~Carries(tics, s, q) THEN None
    ELSE IF Fits(p, tics, s, q) THEN tics[s][q] ELSE Garbled

(* The first n tics are expanded into the ring of the game loop, which the  *)
(* local player's own column never receives.                                *)
AdvanceWindow(p, tics, n) ==
    /\ recvtic' = [recvtic EXCEPT ![p] = @ + n]
    /\ recvwindow' = [recvwindow EXCEPT ![p] =
          [s \in Slots |-> IF s + n \in Slots THEN tics[s + n] ELSE None]]
    /\ ticdata' = [ticdata EXCEPT ![p] = [r \in Slots |-> [q \in Players |->
          IF q # p /\ \E s \in 0..(n - 1) : (recvtic[p] + s) % BackupTics = r
          THEN Patched(p, tics, CHOOSE s \in 0..(n - 1) : (recvtic[p] + s) % BackupTics = r, q)
          ELSE ticdata[p][r][q]]]]
    /\ diffBase' = [diffBase EXCEPT ![p] = [q \in Players |->
          IF q = p \/ \A s \in 0..(n - 1) : ~Carries(tics, s, q) THEN diffBase[p][q]
          ELSE IF Fits(p, tics, n - 1, q)
          THEN diffBase[p][q] + Cardinality({s \in 0..(n - 1) : Carries(tics, s, q)})
          ELSE Garbled]]

(* silent: no game data for a second, so the head is asked for unprompted.  *)
ClientRun(p, batch, silent) ==
    LET w == Draining(p, batch)[Len(batch)]
        n == Complete(w.tics)
    IN  /\ Playing(p)
        /\ AdvanceWindow(p, w.tics, n)
        /\ resent' = [resent EXCEPT ![p] = [s \in Slots |->
              \/ s + n \in Slots /\ w.resent[s + n]
              \/ s = 0 /\ silent /\ recvwindow'[p][0] = None]]
        /\ owesAck' = [owesAck EXCEPT ![p] = @ \/ batch # << >>]
        /\ UNCHANGED <<vars, maketic, sendQueue, gametic>>

-----------------------------------------------------------------------------
(* The network. *)

(* The tics sent to p that may still arrive. *)
Spans(p) ==
    {d \in [first : 0..MaxTic, count : 1..(ExtraTics + 1)] :
        recvtic[p] - MaxLate <= d.first /\ d.first + d.count <= sendseq[p]}

(* The second of silence shows in a run that drains nothing. *)
ClientRuns ==
    \E p \in Peers :
        \/ \E k \in 1..MaxBatch : \E batch \in [1..k -> Spans(p)] : ClientRun(p, batch, FALSE)
        \/ ClientRun(p, << >>, TRUE)

(* Acknowledgements p may have sent. *)
Acks(p) == {r \in 0..recvtic[p] : start - MaxStale <= r}

UploadFrom(p, first, count, r) ==
    /\ first + count <= maketic[p]
    /\ Upload(p, first, count, r % ByteValues)
    /\ UNCHANGED clientVars

Uploads ==
    \E p \in Players, first \in 0..MaxTic, count \in 1..(ExtraTics + 1) : \E r \in Acks(p) :
        start - MaxStale <= first /\ UploadFrom(p, first, count, r)

(* A player's late acknowledgements come with its late uploads. *)
LateAck == \E p \in Drones : \E r \in Acks(p) :
              GameDataAck(p, r % ByteValues) /\ UNCHANGED clientVars

(* What p owes is sent, alone or on tics it sends again: it arrives, or is  *)
(* lost.                                                                    *)
AckArrivesFrom(p) ==
    /\ owesAck[p] /\ GameDataAck(p, recvtic[p] % ByteValues)
    /\ owesAck' = [owesAck EXCEPT ![p] = FALSE]
    /\ UNCHANGED <<loop, receiving>>
(* The server's request for a tic it misses is answered from the queue. *)
ResendArrives(p) ==
    /\ \E s \in Slots :
          /\ asked[s][p] /\ recv[s][p] = None
          /\ sendQueue[p][(start + s) % BackupTics] = start + s
          /\ Upload(p, start + s, 1, recvtic[p] % ByteValues)
    /\ owesAck' = [owesAck EXCEPT ![p] = FALSE]
    /\ UNCHANGED <<loop, receiving>>
AckIsLost(p) ==
    /\ Playing(p) /\ owesAck[p]
    /\ owesAck' = [owesAck EXCEPT ![p] = FALSE]
    /\ UNCHANGED <<vars, loop, receiving>>

(* Clients that are no longer connected are followed no further. *)
Followed(value, first) ==
    [p \in DOMAIN value |-> IF p \in connected' THEN value[p] ELSE first[p]]
LoseClients ==
    /\ maketic'    = Followed(maketic, FirstTic)
    /\ sendQueue'  = Followed(sendQueue, NothingMade)
    /\ gametic'    = Followed(gametic, Zero)
    /\ ticdata'    = Followed(ticdata, NothingToRun)
    /\ recvtic'    = Followed(recvtic, Zero)
    /\ recvwindow' = Followed(recvwindow, NothingReceived)
    /\ resent'     = Followed(resent, NothingRequested)
    /\ diffBase'   = Followed(diffBase, FirstDiffs)
    /\ owesAck'    = Followed(owesAck, NothingOwed)

ServerSteps ==
    /\ \/ \E expired \in SUBSET ((connected \cup asleep) \cap MayLeave),
              quiet \in SUBSET (connected \cap Players) : Timer(expired, quiet)
       \/ \E p \in MayLeave : Disconnect(p) \/ Leave(p)
    /\ LoseClients

LockstepNext ==
    \/ \E p \in Peers : MakeTic(p) \/ RunTic(p) \/ AckArrivesFrom(p) \/ AckIsLost(p)
    \/ \E p \in Players : ResendArrives(p)
    \/ ClientRuns \/ Uploads \/ LateAck \/ ServerSteps

LockstepSpec == LockstepInit /\ [][LockstepNext]_allVars

(* The server answers a client's request from what its queue holds, and     *)
(* repeats all a silent player has not acknowledged; it never repeats       *)
(* anything to a drone unasked.                                             *)
RequestAnswered(p) ==
    \E s \in Slots :
        /\ resent[p][s] /\ recvwindow[p][s] = None
        /\ recvtic[p] + s < sendseq[p] /\ Holds(p, recvtic[p] + s)
        /\ ClientRun(p, <<[first |-> recvtic[p] + s, count |-> 1]>>, FALSE)
Replayed(p) ==
    /\ acked[p] < sendseq[p]
    /\ ClientRun(p, <<[first |-> acked[p], count |-> sendseq[p] - acked[p]]>>, FALSE)
HeadRequested(p) ==
    /\ recvwindow[p][0] = None /\ ~resent[p][0]
    /\ ClientRun(p, << >>, TRUE)
TimerPass(quiet) == UNCHANGED clientVars /\ Timer({}, quiet)

(* Game loops and the timer keep running.  What one side asks for again and *)
(* again, or repeats until it is acknowledged, arrives in the end, and so   *)
(* does one of any number of acknowledgements.  Nothing else has to arrive: *)
(* a player's own requests are not relied on.                               *)
FairLockstep ==
    /\ LockstepSpec
    /\ WF_allVars(TimerPass({}))
    /\ \A p \in Peers : WF_allVars(RunTic(p)) /\ SF_allVars(AckArrivesFrom(p))
    /\ \A p \in Players :
          /\ WF_allVars(MakeTic(p)) /\ WF_allVars(ResendArrives(p))
          /\ WF_allVars(Replayed(p)) /\ WF_allVars(TimerPass({p}))
    /\ \A p \in Drones : WF_allVars(HeadRequested(p)) /\ WF_allVars(RequestAnswered(p))

-----------------------------------------------------------------------------
(* TicFanout takes for granted that an upload ends within a byte's reach of *)
(* the window.  It even ends within the window: a client paced by the tics  *)
(* it receives has made none that the server would discard.                 *)
UploadsFitWindow ==
    \A p \in connected \cap Players : maketic[p] <= start + BackupTics

(* d_loop.c: "a gametic cannot be run until ticcmds are received for it     *)
(* from all players".  What a client runs as tic t is every command that    *)
(* was made for tic t, of everyone still connected: neither the wire's tic  *)
(* numbers, nor the diffs, nor the ring misplace one.  A drone's ring keeps *)
(* only the last BackupTics, since it acknowledges what it has not run.     *)
ToRun(p) == {t \in gametic[p]..(LowTic(p) - 1) : p \in Players \/ t >= recvtic[p] - BackupTics}
TicsRunTrue ==
    \A p \in connected : \A t \in ToRun(p) :
        LET commands == ticdata[p][t % BackupTics]
        IN  /\ \A q \in connected \cap Players : commands[q] = t
            /\ \A q \in Players : commands[q] \in {None, t}

(* Lockstep: nobody runs more than MaxAhead + 1 tics ahead of a player that *)
(* is still connected.                                                      *)
NobodyRunsAhead ==
    \A p \in connected, q \in connected \cap Players :
        gametic[p] <= gametic[q] + MaxAhead + 1

(* A client is never asked for a tic it no longer keeps: what the server's  *)
(* window misses of a connected player, and it has made, is in its queue.   *)
ClientCanResend ==
    \A p \in connected \cap Players : \A s \in Slots :
        recv[s][p] = None /\ start + s < maketic[p]
        => sendQueue[p][(start + s) % BackupTics] = start + s

(* NET_CL_ParseGameData: a tic the client misses below one it has received  *)
(* or asked for was itself asked for, so NET_CL_CheckResends repeats it.    *)
ClientGapsAreAsked ==
    \A p \in connected : \A s, u \in Slots :
        (s < u /\ (recvwindow[p][u] # None \/ resent[p][u]) /\ recvwindow[p][s] = None)
        => resent[p][s]
(* Liveness, under FairLockstep: the players' pace, the stall guard, the    *)
(* window and both sides' resends never wait for one another for good,      *)
(* whatever is lost and whoever leaves.  Every tic is run by every player   *)
(* that stays.                                                              *)
EveryTicIsRun == <>(\A p \in connected \cap Players : gametic[p] = MaxTic)

(* net_client.c's recovery from "a deadlock scenario where tics from the    *)
(* server have been lost" and NET_CL_SendGameDataACK, sent because "if the  *)
(* client is a drone we need to do this": the game also goes on in a room   *)
(* with a drone.  It does not once the drone's acknowledgements of a whole  *)
(* stall span are lost: nobody asks for them or repeats what they were for. *)
DroneLossRecovered == EveryTicIsRun
=============================================================================
