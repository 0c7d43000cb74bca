--------------------------- MODULE LockstepProofs ---------------------------
(***************************************************************************)
(* Proofs about Lockstep, for every cast, window size and bound that       *)
(* FanoutAssumption and LockstepAssumption allow: the server keeps every   *)
(* promise of TicFanout to its real clients, and what a client runs as a   *)
(* tic was made for that tic.                                              *)
(***************************************************************************)
EXTENDS Lockstep, TicFanoutProofs, SequenceTheorems, FiniteSetTheorems,
        WellFoundedInduction

-----------------------------------------------------------------------------
(* Induction over the datagrams of a batch.  The provers cannot instantiate *)
(* the library's induction theorems; a least counterexample serves as well. *)

(* A set of numbers that is not empty has a least member.                   *)
LEMMA LeastNat ==
    ASSUME NEW S \in SUBSET Nat, S # {}
    PROVE  \E n \in S : \A m \in S : n <= m
  <1> DEFINE R == {ss \in Nat \X Nat : ss[1] < ss[2]}
  <1>1. R = OpToRel(<, Nat)
    BY DEF OpToRel
  <1>2. IsWellFoundedOn(R, Nat)
    BY <1>1, NatLessThanWellFounded
  <1>3. \A m, n \in S : <<m, n>> \in R <=> m < n
    OBVIOUS
  <1> HIDE DEF R
  <1>4. \E n \in S : \A m \in S : ~ (<<m, n>> \in R)
    BY <1>2, WFMin
  <1>5. PICK n \in S : \A m \in S : ~ (<<m, n>> \in R)
    BY <1>4
  <1>6. \A m \in S : ~(m < n)
    BY <1>3, <1>5
  <1>7. \A m \in S : n <= m
    <2>1. \A m \in S : m \in Int /\ n \in Int
      OBVIOUS
    <2> QED  BY <1>6, <2>1
  <1> QED  BY <1>7

(* f is the window after each of the first k datagrams.                     *)
Drains(p, batch, f, k) ==
    f = [i \in 0..k |-> IF i = 0 THEN [tics |-> recvwindow[p], resent |-> resent[p]]
                        ELSE ParseGameData(p, f[i - 1], batch[i])]

(* A batch is drained one datagram after the other.                         *)
LEMMA DrainingIsDefined ==
    ASSUME NEW p, NEW batch, Len(batch) \in Nat
    PROVE  Drains(p, batch, Draining(p, batch), Len(batch))
  <1> DEFINE Bad == {k \in Nat : ~ \E f : Drains(p, batch, f, k)}
  <1>1. Bad = {}
    <2> SUFFICES ASSUME Bad # {} PROVE FALSE
      OBVIOUS
    <2>1. PICK k \in Bad : \A m \in Bad : k <= m
      BY LeastNat
    <2>2. CASE k = 0
      <3> DEFINE f == [i \in 0..0 |-> [tics |-> recvwindow[p], resent |-> resent[p]]]
      <3>1. Drains(p, batch, f, 0)
        BY DEF Drains
      <3> QED  BY <2>2, <3>1
    <2>3. CASE k # 0
      <3>1. k - 1 \in Nat /\ k - 1 \notin Bad
        BY <2>1, <2>3
      <3>2. PICK f : Drains(p, batch, f, k - 1)
        BY <3>1
      <3> DEFINE g == [i \in 0..k |-> IF i <= k - 1 THEN f[i]
                                      ELSE ParseGameData(p, f[k - 1], batch[k])]
      <3>3. ASSUME NEW i \in 0..k
            PROVE  g[i] = IF i = 0 THEN [tics |-> recvwindow[p], resent |-> resent[p]]
                          ELSE ParseGameData(p, g[i - 1], batch[i])
        <4>1. CASE i <= k - 1
          <5>1. g[i] = f[i] /\ (i # 0 => g[i - 1] = f[i - 1]) /\ i \in 0..(k - 1)
            BY <4>1, <3>1
          <5> HIDE DEF g
          <5> QED  BY <3>2, <5>1 DEF Drains
        <4>2. CASE ~(i <= k - 1)
          <5>1. i = k /\ i # 0 /\ g[i] = ParseGameData(p, f[k - 1], batch[k])
                /\ g[i - 1] = f[k - 1]
            BY <4>2, <3>1, <2>3
          <5> HIDE DEF g
          <5> QED  BY <5>1
        <4> QED  BY <4>1, <4>2
      <3>4. Drains(p, batch, g, k)
        BY <3>3 DEF Drains
      <3> QED  BY <3>4
    <2> QED  BY <2>2, <2>3
  <1>2. \E f : Drains(p, batch, f, Len(batch))
    BY <1>1
  <1> QED  BY <1>2 DEF Drains, Draining

-----------------------------------------------------------------------------
(* The inductive invariant.                                                 *)

(* The window always has room for what the clients may upload: nobody is    *)
(* sent so much that a player paced by it could leave the window.           *)
LeavesRoom == \A p \in connected : sendseq[p] + MaxAhead + 1 <= start + BackupTics

(* The types of what the clients keep.                                      *)
ClientTypes ==
    /\ maketic \in [Players -> Nat]
    /\ sendQueue \in [Players -> [Slots -> Nat \cup {None}]]
    /\ gametic \in [Peers -> Nat] /\ recvtic \in [Peers -> Nat]
    /\ ticdata \in [Peers -> [Slots -> [Players -> Nat \cup {None, Garbled}]]]
    /\ recvwindow \in [Peers -> [Slots -> FullTics \cup {None}]]
    /\ diffBase \in [Peers -> [Players -> Nat \cup {Garbled}]]

(* A client runs what it received, and makes a little more.                 *)
Paced ==
    /\ \A p \in connected :
          gametic[p] <= recvtic[p] /\ recvtic[p] <= sendseq[p] /\ acked[p] <= recvtic[p]
    /\ \A q \in connected \cap Players :
          /\ gametic[q] <= maketic[q] /\ maketic[q] <= gametic[q] + MaxAhead + 1
          /\ maketic[q] <= MaxTic

(* What the server holds of a player, that player has made: so the window,  *)
(* and what is fanned out to the others, wait for it.                       *)
MadeFirst ==
    \A q \in connected \cap Players :
        /\ start <= maketic[q]
        /\ \A s \in Slots : recv[s][q] # None => start + s < maketic[q]
        /\ \A p \in connected \ {q} : sendseq[p] <= maketic[q]

(* A client's window holds what was sent to it, where it belongs.           *)
TrueRow(p, tics) ==
    \A s \in Slots : tics[s] # None =>
        /\ recvtic[p] + s < sendseq[p]
        /\ tics[s] = sent[p][recvtic[p] + s + 1]
ReceivedIsSent == \A p \in connected : TrueRow(p, recvwindow[p])

(* A player's send queue is the tail of what it made.                       *)
MadeIsKept ==
    \A q \in connected \cap Players :
        /\ \A t \in 0..(maketic[q] - 1) :
              maketic[q] <= t + BackupTics => sendQueue[q][t % BackupTics] = t
        /\ \A s \in Slots : sendQueue[q][s] # None => sendQueue[q][s] < maketic[q]

(* Who stops taking part in a client's tics does not come back.             *)
Joined(p, q, t) == q \in DOMAIN sent[p][t + 1]
NobodyReturns ==
    \A p \in connected, q \in Players : \A t, u \in 0..(sendseq[p] - 1) :
        t < u /\ Joined(p, q, u) => Joined(p, q, t)

(* The diff base of a player counts the tics it took part in.               *)
DiffsCount ==
    \A p \in connected, q \in Players :
        /\ diffBase[p][q] \in 0..recvtic[p]
        /\ \A t \in 0..(recvtic[p] - 1) : Joined(p, q, t) <=> t < diffBase[p][q]

(* The ring of the game loop: the last BackupTics tics received, and the    *)
(* last ones made by the local player.                                      *)
RingIsTrue ==
    \A p \in connected :
        /\ \A t \in 0..(recvtic[p] - 1), q \in Players \ {p} :
              recvtic[p] <= t + BackupTics =>
              ticdata[p][t % BackupTics][q] = IF Joined(p, q, t) THEN t ELSE None
        /\ p \in Players => \A t \in 0..(maketic[p] - 1) :
              maketic[p] <= t + BackupTics => ticdata[p][t % BackupTics][p] = t

(* What the clients hold, and what holds between them and the server.       *)
ClientInv ==
    /\ ClientTypes /\ Paced /\ MadeFirst /\ ReceivedIsSent /\ MadeIsKept
    /\ NobodyReturns /\ DiffsCount /\ RingIsTrue

(* The server's invariant, its room, and the clients' parts.                *)
LInv == IInv /\ LeavesRoom /\ ClientInv

-----------------------------------------------------------------------------
(* Arithmetic of the constants and of acknowledgements.                     *)

(* What the assumptions say, in one place.                                  *)
LEMMA Bounds ==
    /\ BackupTics \in Nat \ {0} /\ ByteValues = 2 * BackupTics /\ ByteValues \in Nat \ {0}
    /\ StallTics \in Nat /\ SinglePlayerAhead \in Nat /\ MaxAhead \in Nat
    /\ MaxTic \in Nat /\ MaxStale \in Nat /\ MaxStale <= BackupTics
    /\ MaxLate \in Nat /\ MaxLate <= BackupTics
    /\ ExtraTics \in Nat /\ MaxUpload \in Nat /\ ExtraTics + 1 <= MaxUpload
    /\ StallTics + MaxAhead + 2 <= BackupTics
    /\ SinglePlayerAhead + MaxAhead + 2 <= BackupTics
    /\ Slots \subseteq Nat /\ Players \subseteq Peers
    /\ None \notin Nat /\ Garbled \notin Nat /\ Garbled # None /\ None \notin FullTics
  BY FanoutAssumption, LockstepAssumption DEF Slots, Peers

(* Every tic has a slot.                                                    *)
LEMMA SlotOf ==
    ASSUME NEW t \in Nat
    PROVE  t % BackupTics \in Slots
  BY Bounds, ModuloStep DEF Slots

(* An acknowledgement no older than the window never names a tic its sender *)
(* has not received: a turn of the byte more would pass everything sent.    *)
LEMMA AckIsTrue ==
    ASSUME IInv, LeavesRoom, ClientTypes, Paced, NEW p \in connected,
           NEW r \in 0..recvtic[p], start - MaxStale <= r,
           Acknowledge(p, Expand(start, r % ByteValues))
    PROVE  /\ acked' \in [Peers -> Nat]
           /\ acked'[p] <= recvtic[p]
           /\ \A q \in Peers \ {p} : acked'[q] = acked[q]
  <1> DEFINE e == Expand(start, r % ByteValues)
  <1>1. /\ p \in Peers /\ start \in Nat /\ sendseq[p] \in Nat /\ recvtic[p] \in Nat
        /\ acked \in [Peers -> Nat]
    BY DEF IInv, TypeOK, ClientTypes
  <1>2. r \in Nat
    BY <1>1
  <1>3. PICK k \in Int : e = r + ByteValues * k
    BY <1>1, <1>2, ExpandIsCongruent
  <1>4. e \in Int
    BY <1>2, <1>3, Bounds
  <1> HIDE DEF e
  <1>5. e <= sendseq[p] => e <= recvtic[p]
    <2> SUFFICES ASSUME e <= sendseq[p] PROVE e <= recvtic[p]
      OBVIOUS
    <2>1. sendseq[p] + MaxAhead + 1 <= start + BackupTics
      BY DEF LeavesRoom
    <2>2. r + ByteValues * k < start + BackupTics
      BY <1>1, <1>2, <1>3, <1>4, <2>1, Bounds
    <2>3. ~(k >= 1)
      <3> SUFFICES ASSUME k >= 1 PROVE FALSE
        OBVIOUS
      <3>1. ByteValues * k >= ByteValues
        BY Bounds
      <3>2. ByteValues * k \in Int
        BY Bounds
      <3> HIDE DEF e
      <3> QED  BY <1>1, <1>2, <2>2, <3>1, <3>2, Bounds
    <2>4. ByteValues * k <= 0
      BY <2>3, Bounds
    <2> QED  BY <1>1, <1>2, <1>3, <2>4, Bounds
  <1>6. acked' = IF e > acked[p] /\ e <= sendseq[p] THEN [acked EXCEPT ![p] = e] ELSE acked
    BY DEF Acknowledge, e
  <1>7. acked[p] <= recvtic[p]
    BY DEF Paced
  <1> QED  BY <1>1, <1>4, <1>5, <1>6, <1>7

-----------------------------------------------------------------------------
(* Steps of the network: an upload or an acknowledgement arrives.           *)

(* Nothing but need_to_acknowledge changes at the clients.                  *)
ClientsStay == UNCHANGED <<loop, receiving>>

(* An input from one client keeps everything, when the acknowledgement is   *)
(* of something received and the commands stored were made.                 *)
LEMMA TalkStep ==
    ASSUME LInv, TypeOK', NEW p \in connected, ClientsStay, UNCHANGED <<clients, start, sending>>,
           acked'[p] <= recvtic[p], \A q \in Peers \ {p} : acked'[q] = acked[q],
           \A s \in Slots, q \in connected \cap Players :
               recv'[s][q] = recv[s][q] \/ start + s < maketic[q]
    PROVE  LeavesRoom' /\ ClientInv'
  <1>1. /\ connected' = connected /\ start' = start /\ sendseq' = sendseq /\ sent' = sent
        /\ maketic' = maketic /\ sendQueue' = sendQueue /\ gametic' = gametic
        /\ ticdata' = ticdata /\ recvtic' = recvtic /\ recvwindow' = recvwindow
        /\ diffBase' = diffBase
    BY DEF clients, sending, ClientsStay, loop, receiving
  <1>2. LeavesRoom'
    BY <1>1 DEF LInv, LeavesRoom
  <1>3. ClientTypes'
    BY <1>1 DEF LInv, ClientInv, ClientTypes
  <1>4. Paced'
    <2>1. connected \subseteq Peers
      BY DEF LInv, IInv, TypeOK
    <2> QED  BY <1>1, <2>1 DEF LInv, ClientInv, Paced
  <1>5. MadeFirst'
    BY <1>1 DEF LInv, ClientInv, MadeFirst
  <1>6. ReceivedIsSent' /\ NobodyReturns' /\ DiffsCount' /\ RingIsTrue'
    BY <1>1 DEF LInv, ClientInv, ReceivedIsSent, TrueRow, NobodyReturns, Joined, DiffsCount,
       RingIsTrue
  <1>7. MadeIsKept'
    BY <1>1 DEF LInv, ClientInv, MadeIsKept
  <1> QED  BY <1>2, <1>3, <1>4, <1>5, <1>6, <1>7 DEF ClientInv

(* Stored commands lie where they were made for, and were made.             *)
LEMMA UploadKeeps ==
    ASSUME LInv, TypeOK', NEW p \in connected \cap Players,
           NEW first \in 0..MaxTic, NEW count \in 0..MaxUpload,
           NEW r \in 0..recvtic[p], start - MaxStale <= r,
           first + count <= maketic[p], UploadStep(p, first, count, r % ByteValues), ClientsStay
    PROVE  LeavesRoom' /\ ClientInv'
  <1> DEFINE at == Expand(start, first % ByteValues) - start
  <1>1. /\ Acknowledge(p, Expand(start, r % ByteValues))
        /\ UNCHANGED <<clients, start, sending>>
    BY DEF UploadStep, Upload
  <1>2. /\ acked'[p] <= recvtic[p] /\ \A q \in Peers \ {p} : acked'[q] = acked[q]
    BY <1>1, AckIsTrue DEF LInv, ClientInv
  <1>3. ASSUME NEW s \in Slots, NEW q \in connected \cap Players, recv'[s][q] # recv[s][q]
        PROVE  start + s < maketic[q]
    <2>1. first \in Nat /\ count \in Nat /\ start \in Nat /\ s \in Nat /\ maketic[p] \in Nat
      BY Bounds DEF LInv, IInv, TypeOK, ClientInv, ClientTypes
    <2>2. first % ByteValues \in Nat
      BY <2>1, ByteIsNat
    <2>3. Expand(start, first % ByteValues) \in Int /\ at \in Int
      BY <2>1, <2>2, ExpandIsInt
    <2>4. recv \in [Slots -> [Players -> Commands \cup {None}]]
      BY DEF LInv, IInv, TypeOK
    <2>5. recv' = recv \/ recv' = Stored(p, at, first, count)
      BY DEF UploadStep, Upload
    <2>6. s \in at..(at + count - 1) /\ q = p
      BY <1>3, <2>4, <2>5 DEF Stored
    <2>7. s - at \in Nat /\ s - at < count
      BY <2>1, <2>3, <2>6
    <2>8. Expand(start, first % ByteValues) + (s - at) = start + s
      BY <2>1, <2>3
    <2>9. start - BackupTics <= first /\ first + (s - at) < start + ByteValues
      <3>1. start - BackupTics <= first /\ first + count <= start + ByteValues
        BY DEF UploadStep
      <3> HIDE DEF at
      <3> QED  BY <2>1, <2>3, <2>7, <3>1, Bounds
    <2> HIDE DEF at
    <2>10. first + (s - at) = start + s
      <3> DEFINE o == s - at
      <3>1. o \in Nat /\ Expand(start, first % ByteValues) + o = start + s
            /\ first + o < start + ByteValues
        BY <2>7, <2>8, <2>9
      <3> HIDE DEF o
      <3>2. first + o = start + s
        BY <2>1, <2>9, <3>1, SlotIsTrue
      <3> QED  BY <3>2 DEF o
    <2> QED  BY <2>1, <2>3, <2>6, <2>7, <2>10
  <1> QED  BY <1>1, <1>2, <1>3, TalkStep

(* So does an acknowledgement on its own.                                   *)
LEMMA AckKeeps ==
    ASSUME LInv, TypeOK', NEW p \in connected, NEW r \in 0..recvtic[p], start - MaxStale <= r,
           GameDataAck(p, r % ByteValues), ClientsStay
    PROVE  LeavesRoom' /\ ClientInv'
  <1>1. /\ Acknowledge(p, Expand(start, r % ByteValues))
        /\ UNCHANGED <<clients, start, sending>> /\ recv' = recv
    BY DEF GameDataAck, window
  <1>2. /\ acked'[p] <= recvtic[p] /\ \A q \in Peers \ {p} : acked'[q] = acked[q]
    BY <1>1, AckIsTrue DEF LInv, ClientInv
  <1> QED  BY <1>1, <1>2, TalkStep

-----------------------------------------------------------------------------
(* Steps of the server on its own: departures and the timer pass.           *)

(* Who stays keeps what it has; who goes is put back to its first state.    *)
LEMMA LostFacts ==
    ASSUME ClientTypes, LoseClients
    PROVE  /\ ClientTypes'
           /\ \A p \in Peers : p \in connected' =>
                 /\ gametic'[p] = gametic[p] /\ recvtic'[p] = recvtic[p]
                 /\ ticdata'[p] = ticdata[p] /\ recvwindow'[p] = recvwindow[p]
                 /\ diffBase'[p] = diffBase[p]
           /\ \A q \in Players : q \in connected' =>
                 maketic'[q] = maketic[q] /\ sendQueue'[q] = sendQueue[q]
  <1>1. maketic' \in [Players -> Nat] /\ sendQueue' \in [Players -> [Slots -> Nat \cup {None}]]
    BY DEF ClientTypes, LoseClients, Followed, FirstTic, NothingMade
  <1>2. gametic' \in [Peers -> Nat] /\ recvtic' \in [Peers -> Nat]
    BY DEF ClientTypes, LoseClients, Followed, Zero
  <1>3. ticdata' \in [Peers -> [Slots -> [Players -> Nat \cup {None, Garbled}]]]
    <2>1. NothingToRun \in [Peers -> [Slots -> [Players -> Nat \cup {None, Garbled}]]]
      BY DEF NothingToRun, EmptyWindow
    <2> QED  BY <2>1 DEF ClientTypes, LoseClients, Followed
  <1>4. recvwindow' \in [Peers -> [Slots -> FullTics \cup {None}]]
    <2>1. NothingReceived \in [Peers -> [Slots -> FullTics \cup {None}]]
      BY DEF NothingReceived
    <2> QED  BY <2>1 DEF ClientTypes, LoseClients, Followed
  <1>5. diffBase' \in [Peers -> [Players -> Nat \cup {Garbled}]]
    <2>1. FirstDiffs \in [Peers -> [Players -> Nat \cup {Garbled}]]
      BY DEF FirstDiffs, FirstTic
    <2> QED  BY <2>1 DEF ClientTypes, LoseClients, Followed
  <1>6. ClientTypes'
    BY <1>1, <1>2, <1>3, <1>4, <1>5 DEF ClientTypes
  <1> QED  BY <1>6 DEF ClientTypes, LoseClients, Followed

(* A departure takes its client out of every promise.                       *)
LEMMA LeaveKeeps ==
    ASSUME LInv, ClientsLeave, LoseClients
    PROVE  LeavesRoom' /\ ClientInv'
  <1>1. /\ connected' \subseteq connected /\ connected \subseteq Peers
        /\ start' = start /\ recv' = recv /\ sendseq' = sendseq /\ sent' = sent /\ acked' = acked
    BY DEF ClientsLeave, window, sending, LInv, IInv, TypeOK
  <1>2. /\ ClientTypes'
        /\ \A p \in connected' :
              /\ gametic'[p] = gametic[p] /\ recvtic'[p] = recvtic[p]
              /\ ticdata'[p] = ticdata[p] /\ recvwindow'[p] = recvwindow[p]
              /\ diffBase'[p] = diffBase[p]
        /\ \A q \in connected' \cap Players :
              maketic'[q] = maketic[q] /\ sendQueue'[q] = sendQueue[q]
    BY <1>1, LostFacts DEF LInv, ClientInv
  <1>3. LeavesRoom'
    BY <1>1 DEF LInv, LeavesRoom
  <1>4. Paced'
    BY <1>1, <1>2 DEF LInv, ClientInv, Paced
  <1>5. MadeFirst'
    BY <1>1, <1>2 DEF LInv, ClientInv, MadeFirst
  <1>6. ReceivedIsSent'
    BY <1>1, <1>2 DEF LInv, ClientInv, ReceivedIsSent, TrueRow
  <1>7. MadeIsKept'
    BY <1>1, <1>2 DEF LInv, ClientInv, MadeIsKept
  <1>8. NobodyReturns' /\ DiffsCount'
    BY <1>1, <1>2 DEF LInv, ClientInv, NobodyReturns, Joined, DiffsCount
  <1>9. RingIsTrue'
    BY <1>1, <1>2 DEF LInv, ClientInv, Joined, RingIsTrue
  <1> QED  BY <1>2, <1>3, <1>4, <1>5, <1>6, <1>7, <1>8, <1>9 DEF ClientInv

(* After the end of the game there is nobody to promise anything to.        *)
LEMMA EndKeeps ==
    ASSUME LInv, End, LoseClients
    PROVE  LeavesRoom' /\ ClientInv'
  <1>1. connected' = {}
    BY DEF End
  <1>2. ClientTypes'
    BY LostFacts DEF LInv, ClientInv
  <1> QED  BY <1>1, <1>2 DEF LeavesRoom, ClientInv, Paced, MadeFirst, ReceivedIsSent, MadeIsKept,
           NobodyReturns, DiffsCount, RingIsTrue

(* What a pass does to the window: it gives up complete slots only, and all *)
(* that everybody has acknowledged while two clients are there.             *)
LEMMA PassWindow ==
    ASSUME LInv, NEW expired \in SUBSET (connected \cup asleep),
           NEW quiet \in SUBSET (connected \cap Players), ~EndsGame(expired), Pass(expired, quiet)
    PROVE  \E n \in 0..BackupTics :
              /\ start' = start + n
              /\ \A s \in Slots, q \in Players :
                    recv'[s][q] # None => s + n \in Slots /\ recv'[s][q] = recv[s + n][q]
              /\ \A q \in connected' \cap Players : n > 0 => recv[n - 1][q] # None
              /\ \A p \in Pumped(expired) :
                    \/ sendseq[p] - start <= SinglePlayerAhead
                    \/ sendseq[p] - start' <= StallTics
  <1> DEFINE remaining == connected \ expired
  <1>1. /\ connected' = remaining /\ connected \subseteq Peers
        /\ start \in Nat /\ sendseq \in [Peers -> Nat] /\ acked \in [Peers -> Nat]
    BY PassFacts DEF LInv, IInv, TypeOK
  <1>2. ASSUME NEW p \in Pumped(expired)
        PROVE  /\ Pumps(p, Present(p, expired)) /\ p \in remaining
               /\ remaining \subseteq Present(p, expired)
               /\ Present(p, expired) \subseteq connected
               /\ sendseq[p] - start \in Slots
    BY DEF Pumped, Present, Pumps
  <1>3. CASE remaining \cap Players = {}
    <2>1. start' = start /\ recv' = recv
      BY <1>3 DEF Pass, window
    <2>2. expired = {}
      BY <1>3 DEF EndsGame
    <2>3. ASSUME NEW p \in Pumped(expired) PROVE sendseq[p] - start <= SinglePlayerAhead
      <3>1. Others(p, Present(p, expired)) = {}
        BY <1>2, <1>3, <2>2 DEF Others
      <3> QED  BY <1>2, <3>1 DEF Pumps
    <2>4. 0 \in 0..BackupTics /\ \A s \in Slots : s + 0 = s /\ s + 0 \in Slots
      BY Bounds
    <2>5. start' = start + 0
      BY <1>1, <2>1
    <2> QED  BY <1>1, <1>3, <2>1, <2>3, <2>4, <2>5
  <1>4. CASE remaining \cap Players # {}
    <2>1. PICK n \in 0..BackupTics : Advance(n, remaining, quiet \ expired)
      BY <1>4 DEF Pass
    <2>2. /\ start' = start + n /\ n \in Nat
          /\ \A s \in Slots, q \in Players :
                /\ s + n \in Slots => recv'[s][q] = recv[s + n][q]
                /\ s + n \notin Slots => recv'[s][q] = None
      <3> DEFINE stalled == quiet \ expired
      <3>1. remaining \in SUBSET Peers /\ TypeOK /\ Advance(n, remaining, stalled)
        BY <1>1, <2>1 DEF LInv, IInv
      <3>2. n \in Nat
        BY Bounds
      <3> HIDE DEF remaining, stalled
      <3>3. /\ start' = start + n
            /\ \A s \in Slots, q \in Players :
                  /\ s + n \in Slots => recv'[s][q] = recv[s + n][q]
                  /\ s + n \notin Slots => recv'[s][q] = None /\ ~asked'[s][q]
        BY <3>1, AdvanceFacts
      <3> QED  BY <3>2, <3>3
    <2>3. ASSUME NEW q \in remaining \cap Players, n > 0 PROVE recv[n - 1][q] # None
      <3>1. n - 1 \in 0..(n - 1)
        BY <2>2, <2>3
      <3>2. Passes(n - 1, remaining)
        BY <2>1, <3>1 DEF Advance
      <3> QED  BY <3>2 DEF Passes
    <2>4. ASSUME NEW p \in Pumped(expired)
          PROVE  \/ sendseq[p] - start <= SinglePlayerAhead
                 \/ sendseq[p] - start' <= StallTics
      <3> DEFINE present == Present(p, expired)
      <3>1. CASE Others(p, present) = {}
        BY <1>2, <3>1 DEF Pumps
      <3>2. CASE Others(p, present) # {}
        <4>1. PICK q \in present : q # p
          BY <3>2 DEF Others
        <4>2. \E r \in present : acked[r] <= start'
          <5> SUFFICES ASSUME \A r \in present : start' < acked[r] PROVE FALSE
            <6>1. \A r \in present : acked[r] \in Nat
              BY <1>1, <1>2
            <6>2. start' \in Nat
              BY <1>1, <2>2
            <6> HIDE DEF present
            <6> QED  BY <6>1, <6>2, <4>1
          <5>1. n \in Slots
            <6>1. start' < acked[p] /\ acked[p] <= sendseq[p]
              BY <1>2 DEF LInv, IInv, AcksHoldTheWindow
            <6>2. sendseq[p] \in Nat /\ acked[p] \in Nat
              BY <1>1, <1>2
            <6> QED  BY <1>1, <1>2, <2>2, <6>1, <6>2, Bounds DEF Slots
          <5>2. \A r \in remaining : start + n < acked[r]
            BY <1>2, <2>2
          <5>3. ASSUME NEW r \in remaining \cap Players PROVE recv[n][r] # None
            <6>1. PICK x \in present : x # r
              BY <1>2, <4>1
            <6>2. x \in connected /\ r \in (connected \cap Players) \ {x}
              BY <1>2, <6>1
            <6>3. start + n < sendseq[x]
              <7>1. start + n < acked[x] /\ acked[x] <= sendseq[x]
                BY <2>2, <6>2 DEF LInv, IInv, AcksHoldTheWindow
              <7>2. sendseq[x] \in Nat /\ acked[x] \in Nat
                BY <1>1, <6>2
              <7> QED  BY <1>1, <2>2, <7>1, <7>2
            <6> QED  BY <5>1, <6>2, <6>3 DEF LInv, IInv, SentIsHeld
          <5>4. Passes(n, remaining)
            BY <5>1, <5>2, <5>3 DEF Passes
          <5> QED  BY <2>1, <5>4 DEF Advance
        <4>3. PICK r \in present : acked[r] <= start'
          BY <4>2
        <4>4. sendseq[p] - acked[r] <= StallTics
          BY <1>2 DEF Pumps
        <4>5. sendseq[p] \in Nat /\ acked[r] \in Nat /\ start' \in Nat
          BY <1>1, <1>2, <2>2
        <4> QED  BY <4>3, <4>4, <4>5, Bounds
      <3> QED  BY <3>1, <3>2
    <2> QED  BY <1>1, <2>2, <2>3, <2>4
  <1> QED  BY <1>3, <1>4

(* A pass appends to the streams, for players that have made what goes out, *)
(* and keeps the room.                                                      *)
LEMMA PassKeeps ==
    ASSUME LInv, NEW expired \in SUBSET (connected \cup asleep),
           NEW quiet \in SUBSET (connected \cap Players), ~EndsGame(expired),
           Pass(expired, quiet), LoseClients
    PROVE  LeavesRoom' /\ ClientInv'
  <1>1. /\ connected' \subseteq connected /\ connected \subseteq Peers /\ acked' = acked
        /\ PumpAll(expired) /\ TypeOK
        /\ start \in Nat /\ sendseq \in [Peers -> Nat] /\ acked \in [Peers -> Nat]
        /\ connected' = connected \ expired
    BY PassFacts DEF LInv, IInv, TypeOK
  <1>2. /\ ClientTypes'
        /\ \A p \in connected' :
              /\ gametic'[p] = gametic[p] /\ recvtic'[p] = recvtic[p]
              /\ ticdata'[p] = ticdata[p] /\ recvwindow'[p] = recvwindow[p]
              /\ diffBase'[p] = diffBase[p]
        /\ \A q \in connected' \cap Players :
              maketic'[q] = maketic[q] /\ sendQueue'[q] = sendQueue[q]
        /\ \A p \in connected' : recvtic[p] \in Nat /\ gametic[p] \in Nat
        /\ \A q \in connected' \cap Players : maketic[q] \in Nat
    BY <1>1, LostFacts DEF LInv, ClientInv, ClientTypes
  <1>3. PICK n \in 0..BackupTics :
              /\ start' = start + n
              /\ \A s \in Slots, q \in Players :
                    recv'[s][q] # None => s + n \in Slots /\ recv'[s][q] = recv[s + n][q]
              /\ \A q \in connected' \cap Players : n > 0 => recv[n - 1][q] # None
              /\ \A p \in Pumped(expired) :
                    \/ sendseq[p] - start <= SinglePlayerAhead
                    \/ sendseq[p] - start' <= StallTics
    BY PassWindow
  <1>4. n \in Nat /\ n <= BackupTics /\ start' \in Nat
    <2>1. n \in Nat /\ n <= BackupTics
      BY Bounds
    <2> QED  BY <1>1, <1>3, <2>1
  <1>5. ASSUME NEW p \in Pumped(expired)
        PROVE  /\ p \in connected' /\ sendseq'[p] = sendseq[p] + 1
               /\ sendseq[p] - start \in Slots
               /\ DOMAIN sent'[p][sendseq[p] + 1] \subseteq (connected \cap Players) \ {p}
               /\ \A q \in (connected' \cap Players) \ {p} : recv[sendseq[p] - start][q] # None
    <2> DEFINE present == Present(p, expired)
    <2>1. p \in connected' /\ Pumps(p, present) /\ present \subseteq connected
          /\ connected' \subseteq present
      BY <1>1 DEF Pumped, Present
    <2>2. sendseq'[p] = sendseq[p] + 1 /\ sent'[p][sendseq[p] + 1] = Merged(p, present)
      BY <1>1, PumpFacts
    <2>3. DOMAIN Merged(p, present) = Others(p, present) /\ sendseq[p] - start \in Slots
      <3>1. p \in Peers
        BY <1>1, <2>1
      <3> HIDE DEF present
      <3> QED  BY <1>1, <2>1, <3>1, MergedType
    <2>4. \A q \in Others(p, present) : recv[sendseq[p] - start][q] # None
      BY <2>1 DEF Pumps, AllArrived
    <2> HIDE DEF present
    <2> QED  BY <2>1, <2>2, <2>3, <2>4 DEF Others
  <1>6. ASSUME NEW p \in connected', p \notin Pumped(expired)
        PROVE  sendseq'[p] = sendseq[p] /\ sent'[p] = sent[p]
    BY <1>1, <1>6, PumpFacts
  <1>7. ASSUME NEW p \in connected'
        PROVE  /\ sendseq[p] \in Nat /\ sendseq'[p] \in Nat /\ sendseq[p] <= sendseq'[p]
               /\ \A t \in 0..(sendseq[p] - 1) : sent'[p][t + 1] = sent[p][t + 1]
    <2>1. sendseq[p] \in Nat
      BY <1>1
    <2>2. CASE p \in Pumped(expired)
      <3>1. \A t \in 1..sendseq[p] : sent'[p][t] = sent[p][t]
        BY <1>1, <2>2, PumpFacts
      <3>2. \A t \in 0..(sendseq[p] - 1) : t + 1 \in 1..sendseq[p]
        BY <2>1
      <3> QED  BY <1>5, <2>1, <2>2, <3>1, <3>2
    <2> QED  BY <1>6, <2>1, <2>2
  <1>8. LeavesRoom'
    <2> SUFFICES ASSUME NEW p \in connected'
                 PROVE  sendseq'[p] + MaxAhead + 1 <= start' + BackupTics
      BY DEF LeavesRoom
    <2>1. sendseq[p] \in Nat /\ sendseq[p] + MaxAhead + 1 <= start + BackupTics
      BY <1>1, <1>7 DEF LInv, LeavesRoom
    <2>2. CASE p \notin Pumped(expired)
      BY <1>1, <1>3, <1>4, <1>6, <2>1, <2>2, Bounds
    <2>3. CASE p \in Pumped(expired)
      BY <1>1, <1>3, <1>4, <1>5, <2>1, <2>3, Bounds
    <2> QED  BY <2>2, <2>3
  <1>9. Paced'
    <2> SUFFICES ASSUME NEW p \in connected'
                 PROVE  /\ gametic[p] <= recvtic[p] /\ recvtic[p] <= sendseq'[p]
                        /\ acked[p] <= recvtic[p]
                        /\ p \in Players => gametic[p] <= maketic[p]
                              /\ maketic[p] <= gametic[p] + MaxAhead + 1 /\ maketic[p] <= MaxTic
      BY <1>1, <1>2 DEF Paced
    <2> QED  BY <1>1, <1>2, <1>7 DEF LInv, ClientInv, Paced
  <1>10. MadeFirst'
    <2> SUFFICES ASSUME NEW q \in connected' \cap Players
                 PROVE  /\ start' <= maketic[q]
                        /\ \A s \in Slots : recv'[s][q] # None => start' + s < maketic[q]
                        /\ \A p \in connected' \ {q} : sendseq'[p] <= maketic[q]
      BY <1>2 DEF MadeFirst
    <2>1. /\ start <= maketic[q]
          /\ \A s \in Slots : recv[s][q] # None => start + s < maketic[q]
          /\ \A p \in connected \ {q} : sendseq[p] <= maketic[q]
      BY <1>1 DEF LInv, ClientInv, MadeFirst
    <2>2. start' <= maketic[q]
      <3>1. CASE n = 0
        BY <1>1, <1>2, <1>3, <2>1, <3>1
      <3>2. CASE n > 0
        <4>1. n - 1 \in Slots /\ recv[n - 1][q] # None
          BY <1>3, <1>4, <3>2, Bounds DEF Slots
        <4>2. start + (n - 1) < maketic[q]
          BY <2>1, <4>1
        <4> QED  BY <1>1, <1>2, <1>3, <1>4, <4>2
      <3> QED  BY <1>4, <3>1, <3>2
    <2>3. ASSUME NEW s \in Slots, recv'[s][q] # None PROVE start' + s < maketic[q]
      <3>1. s + n \in Slots /\ recv[s + n][q] # None
        BY <1>3, <2>3
      <3>2. start + (s + n) < maketic[q]
        BY <2>1, <3>1
      <3>3. s \in Nat
        BY Bounds
      <3> QED  BY <1>1, <1>2, <1>3, <1>4, <3>2, <3>3
    <2>4. ASSUME NEW p \in connected' \ {q} PROVE sendseq'[p] <= maketic[q]
      <3>1. CASE p \notin Pumped(expired)
        BY <1>1, <1>6, <2>1, <3>1
      <3>2. CASE p \in Pumped(expired)
        <4> DEFINE slot == sendseq[p] - start
        <4>1. slot \in Slots /\ recv[slot][q] # None
          BY <1>5, <3>2
        <4>2. start + slot < maketic[q]
          BY <2>1, <4>1
        <4>3. sendseq'[p] = sendseq[p] + 1 /\ sendseq[p] \in Nat
          BY <1>5, <1>7, <3>2
        <4> QED  BY <1>1, <1>2, <4>2, <4>3
      <3> QED  BY <3>1, <3>2
    <2> QED  BY <2>2, <2>3, <2>4
  <1>11. ReceivedIsSent'
    <2> SUFFICES ASSUME NEW p \in connected', NEW s \in Slots, recvwindow[p][s] # None
                 PROVE  /\ recvtic[p] + s < sendseq'[p]
                        /\ recvwindow[p][s] = sent'[p][recvtic[p] + s + 1]
      BY <1>2 DEF ReceivedIsSent, TrueRow
    <2>1. /\ recvtic[p] + s < sendseq[p] /\ recvwindow[p][s] = sent[p][recvtic[p] + s + 1]
      BY <1>1 DEF LInv, ClientInv, ReceivedIsSent, TrueRow
    <2>2. s \in Nat /\ recvtic[p] \in Nat
      BY <1>2, Bounds
    <2>3. recvtic[p] + s \in 0..(sendseq[p] - 1)
      BY <1>7, <2>1, <2>2
    <2> QED  BY <1>7, <2>1, <2>2, <2>3
  <1>12. MadeIsKept'
    BY <1>1, <1>2 DEF LInv, ClientInv, MadeIsKept
  <1>13. NobodyReturns'
    <2> SUFFICES ASSUME NEW p \in connected', NEW q \in Players,
                        NEW t \in 0..(sendseq'[p] - 1), NEW u \in 0..(sendseq'[p] - 1),
                        t < u, q \in DOMAIN sent'[p][u + 1]
                 PROVE  q \in DOMAIN sent'[p][t + 1]
      BY DEF NobodyReturns, Joined
    <2>1. CASE u < sendseq[p]
      <3>1. t \in 0..(sendseq[p] - 1) /\ u \in 0..(sendseq[p] - 1)
        BY <1>7, <2>1
      <3> QED  BY <1>1, <1>7, <3>1 DEF LInv, ClientInv, NobodyReturns, Joined
    <2>2. CASE ~(u < sendseq[p])
      <3>1. p \in Pumped(expired) /\ u = sendseq[p]
        BY <1>5, <1>6, <1>7, <2>2
      <3>2. q \in (connected \cap Players) \ {p}
        BY <1>5, <3>1
      <3>3. t \in 0..(sendseq[p] - 1) /\ t + 1 \in 1..sendseq[p]
        BY <1>7, <3>1
      <3>4. t + 1 \in 1..Len(sent[p])
        BY <1>1, <3>3 DEF TypeOK
      <3>5. q \in DOMAIN sent[p][t + 1]
        BY <1>1, <3>2, <3>4 DEF LInv, IInv, NobodySkipped
      <3> QED  BY <1>7, <3>3, <3>5
    <2> QED  BY <2>1, <2>2
  <1>14. ASSUME NEW p \in connected', NEW t \in 0..(recvtic[p] - 1)
         PROVE  sent'[p][t + 1] = sent[p][t + 1]
    <2>1. recvtic[p] <= sendseq[p]
      BY <1>1 DEF LInv, ClientInv, Paced
    <2>2. t \in 0..(sendseq[p] - 1)
      BY <1>2, <1>7, <2>1
    <2> QED  BY <1>7, <2>2
  <1>15. DiffsCount'
    BY <1>1, <1>2, <1>14 DEF LInv, ClientInv, DiffsCount, Joined
  <1>16. RingIsTrue'
    BY <1>1, <1>2, <1>14 DEF LInv, ClientInv, RingIsTrue, Joined
  <1> QED  BY <1>2, <1>8, <1>9, <1>10, <1>11, <1>12, <1>13, <1>15, <1>16 DEF ClientInv


-----------------------------------------------------------------------------
(* Steps of the game loop.                                                  *)

(* Making a tic overwrites, in the queue and in the ring, the tic that was  *)
(* made BackupTics earlier.                                                 *)
LEMMA MakeTicKeeps ==
    ASSUME LInv, NEW p \in Peers, MakeTic(p)
    PROVE  LeavesRoom' /\ ClientInv'
  <1>1. /\ p \in connected /\ p \in Players /\ connected \subseteq Peers
        /\ maketic[p] \in Nat /\ gametic[p] \in Nat /\ maketic[p] < MaxTic
        /\ maketic[p] - gametic[p] <= MaxAhead
    BY DEF MakeTic, Playing, Makes, LInv, IInv, TypeOK, ClientInv, ClientTypes
  <1> DEFINE slot == maketic[p] % BackupTics
  <1>2. slot \in Slots
    BY <1>1, SlotOf
  <1>3. /\ connected' = connected /\ start' = start /\ recv' = recv /\ sendseq' = sendseq
        /\ sent' = sent /\ acked' = acked /\ gametic' = gametic /\ recvtic' = recvtic
        /\ recvwindow' = recvwindow /\ diffBase' = diffBase
    BY DEF MakeTic, vars, clients, window, sending, receiving
  <1>4. /\ maketic' = [maketic EXCEPT ![p] = @ + 1]
        /\ sendQueue' = [sendQueue EXCEPT ![p][slot] = maketic[p]]
        /\ ticdata' = [ticdata EXCEPT ![p][slot][p] = maketic[p]]
    BY DEF MakeTic
  <1>5. ClientTypes
    BY DEF LInv, ClientInv
  <1> HIDE DEF slot
  <1>6. /\ maketic' \in [Players -> Nat] /\ maketic'[p] = maketic[p] + 1
        /\ \A q \in Players \ {p} : maketic'[q] = maketic[q]
    BY <1>1, <1>4, <1>5 DEF ClientTypes
  <1>7. /\ sendQueue' \in [Players -> [Slots -> Nat \cup {None}]]
        /\ sendQueue'[p][slot] = maketic[p]
        /\ \A s \in Slots \ {slot} : sendQueue'[p][s] = sendQueue[p][s]
        /\ \A q \in Players \ {p} : sendQueue'[q] = sendQueue[q]
    BY <1>1, <1>2, <1>4, <1>5 DEF ClientTypes
  <1>8. /\ ticdata' \in [Peers -> [Slots -> [Players -> Nat \cup {None, Garbled}]]]
        /\ ticdata'[p][slot][p] = maketic[p]
        /\ \A s \in Slots, q \in Players : q # p \/ s # slot => ticdata'[p][s][q] = ticdata[p][s][q]
        /\ \A x \in Peers \ {p} : ticdata'[x] = ticdata[x]
    <2> DEFINE Row == [Players -> Nat \cup {None, Garbled}]
    <2>1. ticdata \in [Peers -> [Slots -> Row]]
      BY <1>5 DEF ClientTypes
    <2>2. maketic[p] \in Nat \cup {None, Garbled}
      BY <1>1
    <2>3. [ticdata[p][slot] EXCEPT ![p] = maketic[p]] \in Row
      BY <1>1, <1>2, <2>1, <2>2
    <2>4. ticdata' = [ticdata EXCEPT ![p] = [ticdata[p] EXCEPT ![slot] =
                         [ticdata[p][slot] EXCEPT ![p] = maketic[p]]]]
      BY <1>4
    <2>5. ticdata[p] \in [Slots -> Row] /\ ticdata[p][slot] \in Row
      BY <1>2, <2>1
    <2> DEFINE new == [ticdata[p][slot] EXCEPT ![p] = maketic[p]]
    <2>6. new[p] = maketic[p] /\ \A q \in Players : q # p => new[q] = ticdata[p][slot][q]
      BY <1>1, <2>5
    <2>7. ticdata' = [ticdata EXCEPT ![p] = [ticdata[p] EXCEPT ![slot] = new]] /\ new \in Row
      BY <2>3, <2>4
    <2> HIDE DEF new, Row
    <2>8. /\ ticdata' \in [Peers -> [Slots -> Row]] /\ ticdata'[p][slot] = new
          /\ \A s \in Slots : s # slot => ticdata'[p][s] = ticdata[p][s]
          /\ \A x \in Peers \ {p} : ticdata'[x] = ticdata[x]
      BY <1>2, <2>1, <2>7
    <2> QED  BY <1>1, <2>6, <2>8 DEF Row
  <1>9. ClientTypes'
    BY <1>3, <1>5, <1>6, <1>7, <1>8 DEF ClientTypes
  <1>10. Paced'
    <2>1. maketic[p] + 1 <= gametic[p] + MaxAhead + 1 /\ maketic[p] + 1 <= MaxTic
          /\ (gametic[p] <= maketic[p] => gametic[p] <= maketic[p] + 1)
      BY <1>1, Bounds
    <2> QED  BY <1>1, <1>3, <1>6, <2>1 DEF LInv, ClientInv, Paced
  <1>11. MadeFirst'
    <2> SUFFICES ASSUME NEW q \in connected \cap Players
                 PROVE  /\ start <= maketic'[q]
                        /\ \A s \in Slots : recv[s][q] # None => start + s < maketic'[q]
                        /\ \A x \in connected \ {q} : sendseq[x] <= maketic'[q]
      BY <1>3 DEF MadeFirst
    <2>1. /\ start <= maketic[q]
          /\ \A s \in Slots : recv[s][q] # None => start + s < maketic[q]
          /\ \A x \in connected \ {q} : sendseq[x] <= maketic[q]
      BY DEF LInv, ClientInv, MadeFirst
    <2>2. CASE q # p
      BY <1>6, <2>1, <2>2
    <2>3. CASE q = p
      <3>1. start \in Nat /\ \A x \in connected : sendseq[x] \in Nat
        BY <1>1 DEF LInv, IInv, TypeOK
      <3>2. \A s \in Slots : start + s \in Nat
        BY <3>1, Bounds
      <3> QED  BY <1>1, <1>6, <2>1, <2>3, <3>1, <3>2
    <2> QED  BY <2>2, <2>3
  <1>12. ReceivedIsSent' /\ NobodyReturns' /\ DiffsCount' /\ LeavesRoom'
    BY <1>3 DEF LInv, ClientInv, ReceivedIsSent, TrueRow, NobodyReturns, Joined, DiffsCount,
       LeavesRoom
  <1>13. ASSUME NEW t \in 0..(maketic[p] - 1), maketic[p] + 1 <= t + BackupTics
         PROVE  t % BackupTics \in Slots \ {slot} /\ maketic[p] <= t + BackupTics
    <2>1. t \in Nat /\ t < maketic[p] /\ maketic[p] < t + BackupTics
      BY <1>1, <1>13, Bounds
    <2>2. t % BackupTics # maketic[p] % BackupTics
      BY <1>1, <2>1, Bounds, SlotsDiffer
    <2>3. t % BackupTics \in Slots
      BY <2>1, SlotOf
    <2> QED  BY <1>1, <2>1, <2>2, <2>3, Bounds DEF slot
  <1>14. MadeIsKept'
    <2> SUFFICES ASSUME NEW q \in connected \cap Players
                 PROVE  /\ \A t \in 0..(maketic'[q] - 1) : maketic'[q] <= t + BackupTics =>
                              sendQueue'[q][t % BackupTics] = t
                        /\ \A s \in Slots : sendQueue'[q][s] # None =>
                              sendQueue'[q][s] < maketic'[q]
      BY <1>3 DEF MadeIsKept
    <2>1. /\ \A t \in 0..(maketic[q] - 1) : maketic[q] <= t + BackupTics =>
                sendQueue[q][t % BackupTics] = t
          /\ \A s \in Slots : sendQueue[q][s] # None => sendQueue[q][s] < maketic[q]
      BY DEF LInv, ClientInv, MadeIsKept
    <2>2. CASE q # p
      BY <1>6, <1>7, <2>1, <2>2
    <2>3. CASE q = p
      <3>1. ASSUME NEW t \in 0..(maketic[p]), maketic[p] + 1 <= t + BackupTics
            PROVE  sendQueue'[p][t % BackupTics] = t
        <4>1. CASE t = maketic[p]
          BY <1>7, <4>1 DEF slot
        <4>2. CASE t # maketic[p]
          <5>1. t \in 0..(maketic[p] - 1)
            BY <1>1, <4>2
          <5> QED  BY <1>7, <1>13, <2>1, <2>3, <3>1, <5>1
        <4> QED  BY <4>1, <4>2
      <3>2. ASSUME NEW s \in Slots, sendQueue'[p][s] # None
            PROVE  sendQueue'[p][s] < maketic[p] + 1
        <4>1. CASE s = slot
          BY <1>1, <1>7, <4>1
        <4>2. CASE s # slot
          <5>1. sendQueue'[p][s] = sendQueue[p][s] /\ sendQueue[p][s] < maketic[p]
            BY <1>7, <2>1, <2>3, <3>2, <4>2
          <5>2. sendQueue[p][s] \in Nat
            BY <1>1, <1>5, <3>2, <5>1 DEF ClientTypes
          <5> QED  BY <1>1, <5>1, <5>2
        <4> QED  BY <4>1, <4>2
      <3>3. (maketic[p] + 1) - 1 = maketic[p]
        BY <1>1
      <3> QED  BY <1>6, <2>3, <3>1, <3>2, <3>3
    <2> QED  BY <2>2, <2>3
  <1>15. RingIsTrue'
    <2> SUFFICES ASSUME NEW x \in connected
                 PROVE  /\ \A t \in 0..(recvtic[x] - 1), q \in Players \ {x} :
                              recvtic[x] <= t + BackupTics =>
                              ticdata'[x][t % BackupTics][q] = IF Joined(x, q, t) THEN t ELSE None
                        /\ x \in Players => \A t \in 0..(maketic'[x] - 1) :
                              maketic'[x] <= t + BackupTics => ticdata'[x][t % BackupTics][x] = t
      BY <1>3 DEF RingIsTrue, Joined
    <2>1. /\ \A t \in 0..(recvtic[x] - 1), q \in Players \ {x} :
                recvtic[x] <= t + BackupTics =>
                ticdata[x][t % BackupTics][q] = IF Joined(x, q, t) THEN t ELSE None
          /\ x \in Players => \A t \in 0..(maketic[x] - 1) :
                maketic[x] <= t + BackupTics => ticdata[x][t % BackupTics][x] = t
      BY DEF LInv, ClientInv, RingIsTrue
    <2>2. CASE x # p
      <3>1. ticdata'[x] = ticdata[x] /\ (x \in Players => maketic'[x] = maketic[x])
        BY <1>1, <1>6, <1>8, <2>2
      <3> QED  BY <2>1, <3>1
    <2>3. CASE x = p
      <3>1. ASSUME NEW t \in 0..(recvtic[p] - 1), NEW q \in Players \ {p}
            PROVE  ticdata'[p][t % BackupTics][q] = ticdata[p][t % BackupTics][q]
        <4>1. recvtic[p] \in Nat
          BY <1>5 DEF ClientTypes
        <4>2. t % BackupTics \in Slots
          BY <4>1, SlotOf
        <4> QED  BY <1>8, <4>2
      <3>2. ASSUME NEW t \in 0..(maketic[p]), maketic[p] + 1 <= t + BackupTics
            PROVE  ticdata'[p][t % BackupTics][p] = t
        <4>1. CASE t = maketic[p]
          BY <1>8, <4>1 DEF slot
        <4>2. CASE t # maketic[p]
          <5>1. t \in 0..(maketic[p] - 1)
            BY <1>1, <4>2
          <5> QED  BY <1>1, <1>8, <1>13, <2>1, <2>3, <3>2, <5>1
        <4> QED  BY <4>1, <4>2
      <3>3. (maketic[p] + 1) - 1 = maketic[p]
        BY <1>1
      <3> QED  BY <1>6, <2>1, <2>3, <3>1, <3>2, <3>3
    <2> QED  BY <2>2, <2>3
  <1> QED  BY <1>9, <1>10, <1>11, <1>12, <1>14, <1>15 DEF ClientInv

(* Running a tic stays behind what was received and what was made.          *)
LEMMA RunTicKeeps ==
    ASSUME LInv, NEW p \in Peers, RunTic(p)
    PROVE  LeavesRoom' /\ ClientInv'
  <1>1. /\ connected' = connected /\ start' = start /\ recv' = recv /\ sendseq' = sendseq
        /\ sent' = sent /\ acked' = acked /\ recvtic' = recvtic /\ maketic' = maketic
        /\ sendQueue' = sendQueue /\ ticdata' = ticdata
        /\ recvwindow' = recvwindow /\ diffBase' = diffBase
    BY DEF RunTic, vars, clients, window, sending, receiving
  <1>2. /\ p \in connected /\ gametic[p] \in Nat /\ recvtic[p] \in Nat
        /\ (p \in Players => maketic[p] \in Nat)
        /\ gametic' = [gametic EXCEPT ![p] = @ + 1] /\ gametic \in [Peers -> Nat]
        /\ gametic[p] < LowTic(p) /\ connected \subseteq Peers
    BY DEF RunTic, Playing, LInv, IInv, TypeOK, ClientInv, ClientTypes
  <1>3. /\ gametic' \in [Peers -> Nat] /\ gametic'[p] = gametic[p] + 1
        /\ \A x \in Peers \ {p} : gametic'[x] = gametic[x]
        /\ gametic'[p] <= recvtic[p] /\ (p \in Players => gametic'[p] <= maketic[p])
    BY <1>2 DEF LowTic
  <1>4. Paced'
    <2> SUFFICES ASSUME NEW x \in connected
                 PROVE  /\ gametic'[x] <= recvtic[x] /\ recvtic[x] <= sendseq[x]
                        /\ acked[x] <= recvtic[x]
                        /\ x \in Players => gametic'[x] <= maketic[x]
                              /\ maketic[x] <= gametic'[x] + MaxAhead + 1 /\ maketic[x] <= MaxTic
      BY <1>1 DEF Paced
    <2>1. /\ gametic[x] <= recvtic[x] /\ recvtic[x] <= sendseq[x] /\ acked[x] <= recvtic[x]
          /\ x \in Players => gametic[x] <= maketic[x]
                /\ maketic[x] <= gametic[x] + MaxAhead + 1 /\ maketic[x] <= MaxTic
      BY DEF LInv, ClientInv, Paced
    <2>2. CASE x # p
      BY <1>2, <1>3, <2>1, <2>2
    <2>3. CASE x = p
      BY <1>2, <1>3, <2>1, <2>3, Bounds
    <2> QED  BY <2>2, <2>3
  <1>5. ClientTypes' /\ MadeFirst' /\ MadeIsKept' /\ LeavesRoom'
    BY <1>1, <1>3 DEF LInv, ClientInv, ClientTypes, MadeFirst, MadeIsKept, LeavesRoom
  <1>6. ReceivedIsSent' /\ NobodyReturns' /\ DiffsCount' /\ RingIsTrue'
    BY <1>1 DEF LInv, ClientInv, ReceivedIsSent, TrueRow, NobodyReturns, Joined, DiffsCount,
       RingIsTrue
  <1> QED  BY <1>4, <1>5, <1>6 DEF ClientInv

(* Nothing but need_to_acknowledge changes.                                 *)
LEMMA OwingKeeps ==
    ASSUME LInv, UNCHANGED <<vars, loop, receiving>>
    PROVE  LeavesRoom' /\ ClientInv'
  BY DEF vars, clients, window, sending, loop, receiving, LInv, LeavesRoom, ClientInv, ClientTypes,
     Paced, MadeFirst, ReceivedIsSent, TrueRow, MadeIsKept, NobodyReturns, Joined, DiffsCount,
     RingIsTrue

-----------------------------------------------------------------------------
(* Steps of the client: datagrams are drained and the window advances.      *)

(* The type of a receive window.                                            *)
Row(tics) == tics \in [Slots -> FullTics \cup {None}]

(* A datagram no older than MaxLate lands where its tics belong: a turn of  *)
(* the byte more would pass everything sent.                                *)
LEMMA ParseIsTrue ==
    ASSUME LInv, NEW p \in connected, NEW d \in Spans(p), NEW w,
           Row(w.tics), TrueRow(p, w.tics)
    PROVE  LET at  == Expand(recvtic[p], d.first % ByteValues) - recvtic[p]
               got == ParseGameData(p, w, d).tics
           IN  /\ Row(got) /\ TrueRow(p, got)
               /\ at \in Int
               /\ \A s \in Slots : IF s \in at..(at + d.count - 1)
                                  THEN got[s] \in FullTics ELSE got[s] = w.tics[s]
  <1> DEFINE ref == recvtic[p]
             t   == d.first
             c   == d.count
             z   == sendseq[p]
             at  == Expand(ref, t % ByteValues) - ref
             got == [s \in Slots |-> IF s \in at..(at + c - 1)
                                     THEN sent[p][t + (s - at) + 1] ELSE w.tics[s]]
  <1>1. /\ p \in Peers /\ sent[p] \in Seq(FullTics) /\ Len(sent[p]) = z
    BY DEF LInv, IInv, TypeOK
  <1>2. ref \in Nat /\ z \in Nat
    BY <1>1 DEF LInv, IInv, TypeOK, ClientInv, ClientTypes
  <1>3. /\ t \in 0..MaxTic /\ c \in 1..(ExtraTics + 1)
        /\ ref - MaxLate <= t /\ t + c <= z
    BY DEF Spans
  <1>4. z <= ref + StallTics + 1
    <2> DEFINE a == acked[p]
    <2>1. a \in Nat
      BY <1>1 DEF LInv, IInv, TypeOK
    <2>2. z <= a + StallTics + 1
      BY DEF LInv, IInv, AcksHoldTheWindow
    <2>3. a <= ref
      BY DEF LInv, ClientInv, Paced
    <2> HIDE DEF a, ref, z
    <2> QED  BY <1>2, <2>1, <2>2, <2>3, Bounds
  <1>5. ParseGameData(p, w, d).tics = got
    BY DEF ParseGameData, Parsed
  <1> HIDE DEF ref, t, c, z
  <1>6. t \in Nat /\ c \in Nat
    BY <1>3, Bounds
  <1>7. t % ByteValues \in Nat
    BY <1>6, ByteIsNat
  <1>8. Expand(ref, t % ByteValues) \in Int
    BY <1>2, <1>7, ExpandIsInt
  <1>9. at \in Int
    BY <1>2, <1>8
  <1>10. ASSUME NEW s \in Slots, s \in at..(at + c - 1)
         PROVE  /\ ref + s < z
                /\ t + (s - at) + 1 = ref + s + 1
                /\ sent[p][ref + s + 1] \in FullTics
    <2> DEFINE o == s - at
    <2>1. s \in Nat
      BY Bounds
    <2>2. o \in Nat /\ o < c /\ s = at + o
      <3> HIDE DEF at
      <3> QED  BY <1>6, <1>9, <1>10, <2>1
    <2>3. Expand(ref, t % ByteValues) + o = ref + s
      BY <1>2, <1>8, <2>1
    <2> HIDE DEF o, at
    <2>4. ref - BackupTics <= t /\ t + o < ref + ByteValues
      BY <1>2, <1>3, <1>4, <1>6, <2>2, Bounds
    <2>5. t + o = ref + s
      <3>1. o \in Nat /\ ref \in Nat /\ t \in Nat /\ s \in Slots
        BY <1>2, <1>6, <2>2
      <3>2. Expand(ref, t % ByteValues) + o = ref + s
            /\ ref - BackupTics <= t /\ t + o < ref + ByteValues
        BY <2>3, <2>4
      <3> HIDE DEF got
      <3> QED  BY <3>1, <3>2, SlotIsTrue
    <2>6. ref + s < z /\ t + o + 1 = ref + s + 1
      BY <1>2, <1>3, <1>6, <2>1, <2>2, <2>5
    <2>7. ref + s + 1 \in 1..Len(sent[p])
      BY <1>1, <1>2, <2>1, <2>6
    <2>8. sent[p][ref + s + 1] \in FullTics
      BY <1>1, <2>7
    <2> QED  BY <2>6, <2>8 DEF o
  <1> HIDE DEF at
  <1>11. Row(got)
    BY <1>10 DEF Row
  <1>12. TrueRow(p, got)
    BY <1>10 DEF TrueRow, ref, z
  <1>13. \A s \in Slots : IF s \in at..(at + c - 1)
                         THEN got[s] \in FullTics ELSE got[s] = w.tics[s]
    BY <1>10
  <1> QED  BY <1>5, <1>9, <1>11, <1>12, <1>13 DEF at, ref, t, c

(* So it does for every datagram of a batch, whatever their order.          *)
LEMMA DrainIsTrue ==
    ASSUME LInv, NEW p \in connected, NEW batch, Len(batch) \in Nat,
           \A i \in 1..Len(batch) : batch[i] \in Spans(p)
    PROVE  \A i \in 0..Len(batch) :
              LET w == Draining(p, batch)[i] IN Row(w.tics) /\ TrueRow(p, w.tics)
  <1> DEFINE w == Draining(p, batch)
             Good(i) == Row(w[i].tics) /\ TrueRow(p, w[i].tics)
             Bad == {i \in 0..Len(batch) : ~Good(i)}
  <1>1. /\ w[0] = [tics |-> recvwindow[p], resent |-> resent[p]]
        /\ \A i \in 1..Len(batch) : w[i] = ParseGameData(p, w[i - 1], batch[i])
    BY DrainingIsDefined DEF Drains
  <1> HIDE DEF w
  <1>2. Bad = {}
    <2> SUFFICES ASSUME Bad # {} PROVE FALSE
      OBVIOUS
    <2>1. Bad \in SUBSET Nat
      OBVIOUS
    <2> HIDE DEF Bad
    <2>2. PICK i \in Bad : \A m \in Bad : i <= m
      BY <2>1, LeastNat
    <2> USE DEF Bad
    <2>3. CASE i = 0
      <3>1. Row(recvwindow[p]) /\ TrueRow(p, recvwindow[p])
        BY DEF LInv, IInv, TypeOK, ClientInv, ClientTypes, ReceivedIsSent, Row
      <3> QED  BY <1>1, <2>2, <2>3, <3>1
    <2>4. CASE i # 0
      <3>1. i \in 1..Len(batch) /\ i - 1 \in 0..Len(batch) /\ ~(i <= i - 1)
        BY <2>2, <2>4
      <3>2. Good(i - 1)
        BY <2>2, <3>1
      <3>3. batch[i] \in Spans(p)
        BY <3>1
      <3>4. Good(i)
        BY <1>1, <3>1, <3>2, <3>3, ParseIsTrue
      <3> QED  BY <2>2, <3>4
    <2> QED  BY <2>3, <2>4
  <1> QED  BY <1>2 DEF w

(* The complete head of a window exists.                                    *)
LEMMA CompleteIsDefined ==
    ASSUME NEW tics
    PROVE  /\ Complete(tics) \in 0..BackupTics
           /\ \A s \in 0..(Complete(tics) - 1) : tics[s] # None
  <1> DEFINE Ends == {n \in 0..BackupTics : n < BackupTics => tics[n] = None}
  <1>1. BackupTics \in Ends /\ Ends \in SUBSET Nat
    BY Bounds
  <1> HIDE DEF Ends
  <1>2. PICK n \in Ends : \A m \in Ends : n <= m
    BY <1>1, LeastNat
  <1> USE DEF Ends
  <1>3. n \in 0..BackupTics /\ n \in Nat
    BY <1>1
  <1>4. ASSUME NEW s \in 0..(n - 1) PROVE tics[s] # None
    <2>1. s \in 0..BackupTics /\ s < BackupTics /\ ~(n <= s)
      BY <1>3, Bounds
    <2> QED  BY <1>2, <2>1
  <1> HIDE DEF Ends
  <1>5. \E k \in 0..BackupTics : /\ \A s \in 0..(k - 1) : tics[s] # None
                                 /\ k < BackupTics => tics[k] = None
    BY <1>1, <1>2, <1>3, <1>4 DEF Ends
  <1> QED  BY <1>5 DEF Complete

(* The complete head of a window, as AdvanceWindow takes it.                *)
TrueHead(p, tics, n) ==
    /\ Row(tics) /\ TrueRow(p, tics)
    /\ n \in 0..BackupTics /\ \A s \in 0..(n - 1) : tics[s] # None

(* The head is a stretch of the stream sent to p, each player's command     *)
(* under its own number.                                                    *)
LEMMA HeadIsSent ==
    ASSUME LInv, NEW p \in connected, NEW tics, NEW n, TrueHead(p, tics, n)
    PROVE  /\ n \in Nat /\ recvtic[p] \in Nat /\ recvtic[p] + n <= sendseq[p]
           /\ \A s \in 0..(n - 1) :
                 /\ s \in Slots /\ recvtic[p] + s \in 0..(sendseq[p] - 1)
                 /\ tics[s] = sent[p][recvtic[p] + s + 1]
                 /\ tics[s] \in FullTics
                 /\ \A q \in Players : Carries(tics, s, q) <=> Joined(p, q, recvtic[p] + s)
                 /\ \A q \in Players : Carries(tics, s, q) => tics[s][q] = recvtic[p] + s
  <1> DEFINE ref == recvtic[p]
             z   == sendseq[p]
  <1>1. /\ p \in Peers /\ sent[p] \in Seq(FullTics) /\ Len(sent[p]) = z
    BY DEF LInv, IInv, TypeOK
  <1>2. ref \in Nat /\ z \in Nat
    BY <1>1 DEF LInv, IInv, TypeOK, ClientInv, ClientTypes
  <1>3. n \in Nat /\ n <= BackupTics
    BY Bounds DEF TrueHead
  <1>4. ref <= z
    BY DEF LInv, ClientInv, Paced
  <1>5. ASSUME NEW s \in 0..(n - 1)
        PROVE  s \in Slots /\ tics[s] # None /\ ref + s < z /\ tics[s] = sent[p][ref + s + 1]
    <2>1. s \in Slots
      BY <1>3, Bounds DEF Slots
    <2> QED  BY <2>1 DEF TrueHead, TrueRow
  <1>6. ASSUME NEW s \in 0..(n - 1)
        PROVE  /\ ref + s \in 0..(z - 1) /\ tics[s] \in FullTics
               /\ \A q \in Players : Carries(tics, s, q) => tics[s][q] = ref + s
    <2> HIDE DEF ref, z
    <2>1. ref + s \in 0..(z - 1) /\ ref + s + 1 \in 1..Len(sent[p]) /\ (ref + s + 1) - 1 = ref + s
      BY <1>1, <1>2, <1>3, <1>5
    <2>2. tics[s] \in FullTics
      BY <1>1, <1>5, <2>1
    <2> DEFINE t == ref + s + 1
    <2>3. \A q \in DOMAIN sent[p][t] : sent[p][t][q] = t - 1
      <3>1. t \in 1..Len(sent[p])
        BY <2>1
      <3> HIDE DEF t
      <3> QED  BY <1>1, <3>1 DEF LInv, IInv, FanoutIsTrue
    <2> QED  BY <1>5, <2>1, <2>2, <2>3 DEF Carries
  <1>7. ref + n <= z
    <2> HIDE DEF ref, z
    <2>1. CASE n = 0
      BY <1>2, <1>4, <2>1
    <2>2. CASE n # 0
      <3>1. n - 1 \in 0..(n - 1)
        BY <1>3, <2>2
      <3>2. ref + (n - 1) < z
        BY <1>5, <3>1
      <3> QED  BY <1>2, <1>3, <3>2
    <2> QED  BY <2>1, <2>2
  <1>8. ASSUME NEW s \in 0..(n - 1), NEW q \in Players
        PROVE  Carries(tics, s, q) <=> Joined(p, q, ref + s)
    BY <1>5 DEF Carries, Joined
  <1> QED  BY <1>2, <1>3, <1>5, <1>6, <1>7, <1>8

(* A player takes part in the first c tics of the head, and then no more;   *)
(* if it does at all, it took part in every tic before.                     *)
LEMMA CarriedFirst ==
    ASSUME LInv, NEW p \in connected, NEW tics, NEW n, TrueHead(p, tics, n), NEW q \in Players
    PROVE  \E c \in 0..n :
              /\ \A s \in 0..(n - 1) : Carries(tics, s, q) <=> s < c
              /\ c > 0 => diffBase[p][q] = recvtic[p]
  <1> DEFINE ref == recvtic[p]
             z   == sendseq[p]
             b   == diffBase[p][q]
             In(t) == Joined(p, q, t)
  <1>1. /\ n \in Nat /\ ref \in Nat /\ ref + n <= z
        /\ \A s \in 0..(n - 1) : Carries(tics, s, q) <=> In(ref + s)
    BY HeadIsSent
  <1>2. b \in 0..ref /\ \A t \in 0..(ref - 1) : In(t) <=> t < b
    BY DEF LInv, ClientInv, DiffsCount
  <1>3. \A t, u \in 0..(z - 1) : t < u /\ In(u) => In(t)
    BY DEF LInv, ClientInv, NobodyReturns
  <1>4. z \in Nat
    BY DEF LInv, IInv, TypeOK
  <1> HIDE DEF ref, z, b, In
  <1> DEFINE Ends == {c \in 0..n : c < n => ~Carries(tics, c, q)}
  <1>5. n \in Ends /\ Ends \in SUBSET Nat
    BY <1>1
  <1> HIDE DEF Ends
  <1>6. PICK c \in Ends : \A m \in Ends : c <= m
    BY <1>5, LeastNat
  <1> USE DEF Ends
  <1>7. c \in 0..n /\ c \in Nat
    BY <1>5
  <1>8. ASSUME NEW s \in 0..(n - 1), s < c PROVE Carries(tics, s, q)
    <2>1. s \in 0..n /\ s < n /\ ~(c <= s)
      BY <1>1, <1>7, <1>8
    <2> QED  BY <1>6, <2>1
  <1>9. ASSUME NEW s \in 0..(n - 1), Carries(tics, s, q) PROVE s < c
    <2> SUFFICES ASSUME ~(s < c) PROVE FALSE
      OBVIOUS
    <2>1. c \in 0..(n - 1) /\ ~Carries(tics, c, q) /\ c < s
      <3>1. c <= s /\ c < n
        BY <1>1, <1>7
      <3>2. ~Carries(tics, c, q) /\ c \in 0..(n - 1)
        BY <1>1, <1>6, <1>7, <3>1
      <3> QED  BY <1>1, <1>7, <1>9, <3>1, <3>2
    <2>2. ~In(ref + c) /\ In(ref + s)
      BY <1>1, <1>9, <2>1
    <2>3. ref + c \in 0..(z - 1) /\ ref + s \in 0..(z - 1) /\ ref + c < ref + s
      BY <1>1, <1>4, <2>1
    <2> QED  BY <1>3, <2>2, <2>3
  <1>10. ASSUME c > 0 PROVE b = ref
    <2> SUFFICES ASSUME b < ref PROVE FALSE
      BY <1>1, <1>2
    <2>1. 0 \in 0..(n - 1) /\ 0 < c
      BY <1>1, <1>7, <1>10
    <2>2. In(ref + 0)
      BY <1>1, <1>8, <2>1
    <2>3. b \in 0..(z - 1) /\ ref + 0 \in 0..(z - 1) /\ b < ref + 0 /\ b \in 0..(ref - 1)
          /\ ~(b < b)
      BY <1>1, <1>2, <1>4, <2>1
    <2>4. In(b)
      BY <1>3, <2>2, <2>3
    <2> QED  BY <1>2, <2>3, <2>4
  <1> QED  BY <1>7, <1>8, <1>9, <1>10 DEF b, ref

(* So every diff of the head fits, and none garbles a command.              *)
LEMMA DiffsFit ==
    ASSUME LInv, NEW p \in connected, NEW tics, NEW n, TrueHead(p, tics, n), NEW q \in Players
    PROVE  /\ \A s \in 0..(n - 1) :
                 Patched(p, tics, s, q) = IF Joined(p, q, recvtic[p] + s)
                                          THEN recvtic[p] + s ELSE None
           /\ \E c \in 0..n :
                 /\ \A s \in 0..(n - 1) : Joined(p, q, recvtic[p] + s) <=> s < c
                 /\ c > 0 => /\ diffBase[p][q] = recvtic[p]
                             /\ Fits(p, tics, n - 1, q)
                             /\ Cardinality({s \in 0..(n - 1) : Carries(tics, s, q)}) = c
  <1> DEFINE ref == recvtic[p]
             b   == diffBase[p][q]
             On(s) == Carries(tics, s, q)
             In(t) == Joined(p, q, t)
  <1>1. /\ n \in Nat /\ ref \in Nat
        /\ \A s \in 0..(n - 1) : On(s) <=> In(ref + s)
        /\ \A s \in 0..(n - 1) : On(s) => tics[s][q] = ref + s
    BY HeadIsSent
  <1>2. PICK c \in 0..n : /\ \A s \in 0..(n - 1) : On(s) <=> s < c
                          /\ c > 0 => b = ref
    BY CarriedFirst
  <1>3. c \in Nat /\ c <= n
    BY <1>1
  <1>4. ASSUME NEW u \in 0..n
        PROVE  Cardinality({v \in 0..(u - 1) : On(v)}) = IF u <= c THEN u ELSE c
    <2> DEFINE m == IF u <= c THEN u ELSE c
    <2>1. u \in Nat /\ m \in Nat /\ m - 1 \in Int /\ 0 \in Int
      BY <1>1, <1>3
    <2>2. ASSUME NEW v \in 0..(u - 1) PROVE On(v) <=> v <= m - 1
      <3>1. v \in 0..(n - 1)
        BY <1>1, <2>1
      <3>2. On(v) <=> v < c
        BY <1>2, <3>1
      <3> HIDE DEF On
      <3> QED  BY <1>3, <2>1, <3>2
    <2>3. {v \in 0..(u - 1) : On(v)} = 0..(m - 1)
      <3>1. m <= u
        BY <1>3, <2>1
      <3> HIDE DEF m, On
      <3> QED  BY <2>1, <2>2, <3>1
    <2>4. Cardinality(0..(m - 1)) = m
      <3> HIDE DEF m
      <3>1. Cardinality(0..(m - 1)) = IF 0 > m - 1 THEN 0 ELSE (m - 1) - 0 + 1
        BY <2>1, FS_Interval
      <3> QED  BY <2>1, <3>1
    <2> QED  BY <2>3, <2>4
  <1>5. ASSUME NEW s \in 0..(n - 1), c > 0 PROVE Fits(p, tics, s, q)
    <2>1. b = ref /\ b # Garbled
      BY <1>1, <1>2, <1>5, Bounds
    <2>2. ASSUME NEW u \in 0..s, On(u)
          PROVE  tics[u][q] = b + Cardinality({v \in 0..(u - 1) : On(v)})
      <3>1. u \in 0..(n - 1) /\ u \in 0..n /\ u \in Nat
        BY <1>1
      <3>2. u < c /\ tics[u][q] = ref + u
        BY <1>1, <1>2, <2>2, <3>1
      <3>3. Cardinality({v \in 0..(u - 1) : On(v)}) = u
        <4>1. Cardinality({v \in 0..(u - 1) : On(v)}) = IF u <= c THEN u ELSE c
          BY <1>4, <3>1
        <4>2. u <= c
          BY <1>3, <3>1, <3>2
        <4> QED  BY <4>1, <4>2
      <3> QED  BY <2>1, <3>2, <3>3
    <2> QED  BY <2>1, <2>2 DEF Fits
  <1>6. ASSUME NEW s \in 0..(n - 1)
        PROVE  Patched(p, tics, s, q) = IF In(ref + s) THEN ref + s ELSE None
    <2>1. CASE ~On(s)
      BY <1>1, <2>1 DEF Patched
    <2>2. CASE On(s)
      <3>1. s < c /\ s >= 0
        BY <1>1, <1>2, <2>2
      <3>2. c > 0
        BY <1>1, <1>3, <3>1
      <3>3. Fits(p, tics, s, q)
        BY <1>5, <3>2
      <3> QED  BY <1>1, <2>2, <3>3 DEF Patched
    <2> QED  BY <2>1, <2>2
  <1>7. ASSUME c > 0
        PROVE  Fits(p, tics, n - 1, q) /\ Cardinality({s \in 0..(n - 1) : On(s)}) = c
    <2>1. n - 1 \in 0..(n - 1) /\ n \in 0..n
      BY <1>1, <1>3, <1>7
    <2>2. Cardinality({s \in 0..(n - 1) : On(s)}) = IF n <= c THEN n ELSE c
      BY <1>4, <2>1
    <2>3. Fits(p, tics, n - 1, q)
      BY <1>5, <1>7, <2>1
    <2> QED  BY <1>1, <1>3, <2>2, <2>3
  <1> QED  BY <1>1, <1>2, <1>6, <1>7

(* What AdvanceWindow writes: one command of the ring, and one diff base.   *)
Cell(p, tics, n, r, q) ==
    IF q # p /\ \E s \in 0..(n - 1) : (recvtic[p] + s) % BackupTics = r
    THEN Patched(p, tics, CHOOSE s \in 0..(n - 1) : (recvtic[p] + s) % BackupTics = r, q)
    ELSE ticdata[p][r][q]
Base(p, tics, n, q) ==
    IF q = p \/ \A s \in 0..(n - 1) : ~Carries(tics, s, q) THEN diffBase[p][q]
    ELSE IF Fits(p, tics, n - 1, q)
    THEN diffBase[p][q] + Cardinality({s \in 0..(n - 1) : Carries(tics, s, q)})
    ELSE Garbled

(* The ring receives the tics under their own numbers, over the ones it     *)
(* received BackupTics earlier.                                             *)
LEMMA CellIsTrue ==
    ASSUME LInv, NEW p \in connected, NEW tics, NEW n, TrueHead(p, tics, n),
           NEW q \in Players
    PROVE  /\ \A r \in Slots : Cell(p, tics, n, r, q) \in Nat \cup {None, Garbled}
           /\ \A r \in Slots : Cell(p, tics, n, r, p) = ticdata[p][r][p]
           /\ q # p => \A t \in 0..(recvtic[p] + n - 1) :
                 recvtic[p] + n <= t + BackupTics =>
                 Cell(p, tics, n, t % BackupTics, q) = IF Joined(p, q, t) THEN t ELSE None
  <1> DEFINE ref == recvtic[p]
             In(t) == Joined(p, q, t)
             Hit(r) == {s \in 0..(n - 1) : (ref + s) % BackupTics = r}
  <1>1. /\ n \in Nat /\ ref \in Nat
        /\ \A s \in 0..(n - 1) :
              Patched(p, tics, s, q) = IF In(ref + s) THEN ref + s ELSE None
    BY HeadIsSent, DiffsFit
  <1>2. n <= BackupTics
    BY Bounds DEF TrueHead
  <1>3. p \in Peers
    BY DEF LInv, IInv, TypeOK
  <1>4. ASSUME NEW r \in Slots PROVE Cell(p, tics, n, r, q) \in Nat \cup {None, Garbled}
    <2>1. CASE q # p /\ \E s \in 0..(n - 1) : (recvtic[p] + s) % BackupTics = r
      <3> DEFINE s == CHOOSE s \in 0..(n - 1) : (recvtic[p] + s) % BackupTics = r
      <3>1. s \in 0..(n - 1) /\ Cell(p, tics, n, r, q) = Patched(p, tics, s, q)
        BY <2>1 DEF Cell
      <3> HIDE DEF s
      <3>2. Cell(p, tics, n, r, q) = IF In(ref + s) THEN ref + s ELSE None
        BY <1>1, <3>1
      <3>3. ref + s \in Nat
        BY <1>1, <3>1
      <3> HIDE DEF In, ref
      <3> QED  BY <3>2, <3>3
    <2>2. CASE ~(q # p /\ \E s \in 0..(n - 1) : (recvtic[p] + s) % BackupTics = r)
      <3>1. Cell(p, tics, n, r, q) = ticdata[p][r][q]
        BY <2>2 DEF Cell
      <3>2. ticdata[p][r][q] \in Nat \cup {None, Garbled}
        BY <1>3 DEF LInv, ClientInv, ClientTypes
      <3> QED  BY <3>1, <3>2
    <2> QED  BY <2>1, <2>2
  <1>5. ASSUME NEW r \in Slots PROVE Cell(p, tics, n, r, p) = ticdata[p][r][p]
    BY DEF Cell
  <1>6. ASSUME q # p, NEW t \in 0..(ref + n - 1), ref + n <= t + BackupTics
        PROVE  Cell(p, tics, n, t % BackupTics, q) = IF In(t) THEN t ELSE None
    <2> DEFINE r == t % BackupTics
    <2>1. t \in Nat /\ t < ref + n
      BY <1>1
    <2>2. CASE t < ref
      <3>1. ASSUME NEW s \in 0..(n - 1) PROVE (ref + s) % BackupTics # r
        <4>1. s \in Nat /\ ref + s \in Nat /\ t < ref + s /\ ref + s < t + BackupTics
          BY <1>1, <1>6, <2>1, <2>2, Bounds
        <4> DEFINE u == ref + s
        <4>2. u \in Nat /\ t < u /\ u < t + BackupTics
          BY <4>1
        <4> HIDE DEF u
        <4>3. t % BackupTics # u % BackupTics
          BY <2>1, <4>2, Bounds, SlotsDiffer
        <4> QED  BY <4>3 DEF u
      <3>2. Cell(p, tics, n, r, q) = ticdata[p][r][q]
        BY <3>1 DEF Cell
      <3>3. t \in 0..(ref - 1) /\ ref <= t + BackupTics
        BY <1>1, <1>6, <2>1, <2>2, Bounds
      <3>4. ticdata[p][r][q] = IF In(t) THEN t ELSE None
        BY <1>6, <3>3 DEF LInv, ClientInv, RingIsTrue
      <3> QED  BY <3>2, <3>4
    <2>3. CASE ~(t < ref)
      <3> DEFINE k == t - ref
      <3>1. k \in 0..(n - 1) /\ ref + k = t
        BY <1>1, <2>1, <2>3
      <3> HIDE DEF k
      <3>2. ASSUME NEW s \in 0..(n - 1), (ref + s) % BackupTics = r PROVE s = k
        <4> DEFINE u == ref + s
        <4>1. u \in Nat /\ u < t + BackupTics /\ t < u + BackupTics /\ s \in Nat /\ k \in Nat
          BY <1>1, <1>2, <3>1, Bounds
        <4>2. u % BackupTics = t % BackupTics
          BY <3>2
        <4>3. u = ref + s
          OBVIOUS
        <4> HIDE DEF u
        <4>4. ~(t < u) /\ ~(u < t)
          BY <2>1, <4>1, <4>2, Bounds, SlotsDiffer
        <4> QED  BY <1>1, <2>1, <3>1, <4>1, <4>3, <4>4
      <3>3. (ref + k) % BackupTics = r
        BY <3>1
      <3>4. (CHOOSE s \in 0..(n - 1) : (ref + s) % BackupTics = r) = k
        BY <3>1, <3>2, <3>3
      <3>5. Cell(p, tics, n, r, q) = Patched(p, tics, k, q)
        BY <1>6, <3>1, <3>3, <3>4 DEF Cell
      <3> QED  BY <1>1, <3>1, <3>5
    <2> QED  BY <2>2, <2>3
  <1> QED  BY <1>4, <1>5, <1>6

(* The diff base goes on counting the tics its player took part in.         *)
LEMMA BaseIsTrue ==
    ASSUME LInv, NEW p \in connected, NEW tics, NEW n, TrueHead(p, tics, n),
           NEW q \in Players
    PROVE  /\ Base(p, tics, n, q) \in 0..(recvtic[p] + n)
           /\ \A t \in 0..(recvtic[p] + n - 1) : Joined(p, q, t) <=> t < Base(p, tics, n, q)
  <1> DEFINE ref == recvtic[p]
             b   == diffBase[p][q]
             new == Base(p, tics, n, q)
             In(t) == Joined(p, q, t)
             On(s) == Carries(tics, s, q)
             taken == Cardinality({s \in 0..(n - 1) : On(s)})
             fit == Fits(p, tics, n - 1, q)
  <1>1. /\ n \in Nat /\ ref \in Nat /\ ref + n <= sendseq[p] /\ sendseq[p] \in Nat
        /\ \A s \in 0..(n - 1) : On(s) <=> In(ref + s)
    BY HeadIsSent DEF LInv, IInv, TypeOK
  <1>2. PICK c \in 0..n :
           /\ \A s \in 0..(n - 1) : In(ref + s) <=> s < c
           /\ c > 0 => b = ref /\ fit /\ taken = c
    BY DiffsFit
  <1>3. b \in 0..ref /\ \A t \in 0..(ref - 1) : In(t) <=> t < b
    BY DEF LInv, ClientInv, DiffsCount
  <1>4. q = p => \A t \in 0..(sendseq[p] - 1) : ~In(t)
    <2> SUFFICES ASSUME NEW t \in 0..(sendseq[p] - 1) PROVE ~Joined(p, p, t)
      OBVIOUS
    <2>1. t + 1 \in 1..Len(sent[p])
      BY <1>1 DEF LInv, IInv, TypeOK
    <2> QED  BY <2>1 DEF LInv, IInv, NobodySkipped, Joined
  <1>5. new = IF q = p \/ \A s \in 0..(n - 1) : ~On(s) THEN b
              ELSE IF fit THEN b + taken ELSE Garbled
    BY DEF Base
  <1> HIDE DEF ref, b, new, In, On, taken, fit
  <1>6. c \in Nat /\ c <= n
    BY <1>1
  <1>7. CASE c = 0
    <2>1. \A s \in 0..(n - 1) : ~In(ref + s) /\ ~On(s)
      BY <1>1, <1>2, <1>7
    <2>2. new = b /\ b \in 0..(ref + n)
      BY <1>1, <1>3, <1>5, <2>1
    <2>3. ASSUME NEW t \in 0..(ref + n - 1) PROVE In(t) <=> t < b
      <3>1. CASE t < ref
        <4>1. t \in 0..(ref - 1)
          BY <1>1, <3>1
        <4> QED  BY <1>3, <4>1
      <3>2. CASE ~(t < ref)
        <4>1. t - ref \in 0..(n - 1) /\ ref + (t - ref) = t /\ ~(t < b)
          BY <1>1, <1>3, <3>2
        <4>2. ~In(ref + (t - ref))
          BY <2>1, <4>1
        <4> QED  BY <4>1, <4>2
      <3> QED  BY <3>1, <3>2
    <2> QED  BY <2>2, <2>3 DEF new, ref, In
  <1>8. CASE c # 0
    <2>1. c > 0 /\ 0 \in 0..(n - 1) /\ 0 < c /\ ref + 0 = ref /\ ref \in 0..(sendseq[p] - 1)
      BY <1>1, <1>6, <1>8
    <2>2. b = ref /\ fit /\ taken = c /\ In(ref) /\ On(0)
      BY <1>1, <1>2, <2>1
    <2>3. q # p
      BY <1>4, <2>1, <2>2
    <2>4. new = ref + c /\ ref + c \in 0..(ref + n)
      BY <1>1, <1>5, <1>6, <2>1, <2>2, <2>3
    <2>5. ASSUME NEW t \in 0..(ref + n - 1) PROVE In(t) <=> t < ref + c
      <3>1. CASE t < ref
        <4>1. t \in 0..(ref - 1) /\ t < ref + c
          BY <1>1, <1>6, <3>1
        <4> QED  BY <1>3, <2>2, <4>1
      <3>2. CASE ~(t < ref)
        <4>1. t - ref \in 0..(n - 1) /\ ref + (t - ref) = t /\ (t < ref + c <=> t - ref < c)
          BY <1>1, <1>6, <3>2
        <4>2. In(ref + (t - ref)) <=> t - ref < c
          BY <1>2, <4>1
        <4> QED  BY <4>1, <4>2
      <3> QED  BY <3>1, <3>2
    <2> QED  BY <2>4, <2>5 DEF new, ref, In
  <1> QED  BY <1>7, <1>8

(* Advancing the window keeps window, diff bases and ring true.             *)
LEMMA AdvanceKeeps ==
    ASSUME LInv, NEW p \in connected, NEW tics, NEW n, TrueHead(p, tics, n),
           AdvanceWindow(p, tics, n), UNCHANGED <<vars, maketic, sendQueue, gametic>>
    PROVE  LeavesRoom' /\ ClientInv'
  <1> DEFINE ref == recvtic[p]
             rest == [s \in Slots |-> IF s + n \in Slots THEN tics[s + n] ELSE None]
             ring == [r \in Slots |-> [q \in Players |-> Cell(p, tics, n, r, q)]]
             base == [q \in Players |-> Base(p, tics, n, q)]
  <1>1. /\ connected' = connected /\ start' = start /\ recv' = recv /\ sendseq' = sendseq
        /\ sent' = sent /\ acked' = acked /\ gametic' = gametic /\ maketic' = maketic
        /\ sendQueue' = sendQueue
    BY DEF vars, clients, window, sending
  <1>2. p \in Peers /\ connected \subseteq Peers /\ ClientTypes
    BY DEF LInv, IInv, TypeOK, ClientInv
  <1>3. n \in Nat /\ ref \in Nat /\ ref + n <= sendseq[p] /\ sendseq[p] \in Nat
    BY <1>2, HeadIsSent DEF LInv, IInv, TypeOK
  <1>4. /\ recvtic' = [recvtic EXCEPT ![p] = ref + n]
        /\ recvwindow' = [recvwindow EXCEPT ![p] = rest]
        /\ ticdata' = [ticdata EXCEPT ![p] = ring]
        /\ diffBase' = [diffBase EXCEPT ![p] = base]
    BY DEF AdvanceWindow, Cell, Base
  <1>5. rest \in [Slots -> FullTics \cup {None}]
    BY DEF TrueHead, Row
  <1>6. ring \in [Slots -> [Players -> Nat \cup {None, Garbled}]]
    BY CellIsTrue
  <1>7. base \in [Players -> Nat \cup {Garbled}]
    <2>1. \A q \in Players : Base(p, tics, n, q) \in 0..(ref + n)
      BY BaseIsTrue
    <2>2. \A x \in 0..(ref + n) : x \in Nat
      BY <1>3
    <2> QED  BY <2>1, <2>2
  <1>8. /\ \A q \in Players : base[q] = Base(p, tics, n, q)
        /\ \A r \in Slots, q \in Players : ring[r][q] = Cell(p, tics, n, r, q)
        /\ \A s \in Slots : rest[s] = IF s + n \in Slots THEN tics[s + n] ELSE None
    OBVIOUS
  <1> HIDE DEF ref, rest, ring, base
  <1>9. ClientTypes'
    <2>1. recvtic' \in [Peers -> Nat]
      BY <1>2, <1>3, <1>4 DEF ClientTypes
    <2>2. recvwindow' \in [Peers -> [Slots -> FullTics \cup {None}]]
      BY <1>2, <1>4, <1>5 DEF ClientTypes
    <2>3. ticdata' \in [Peers -> [Slots -> [Players -> Nat \cup {None, Garbled}]]]
      BY <1>2, <1>4, <1>6 DEF ClientTypes
    <2>4. diffBase' \in [Peers -> [Players -> Nat \cup {Garbled}]]
      BY <1>2, <1>4, <1>7 DEF ClientTypes
    <2> QED  BY <1>1, <1>2, <2>1, <2>2, <2>3, <2>4 DEF ClientTypes
  <1>10. /\ recvtic'[p] = ref + n /\ recvwindow'[p] = rest /\ ticdata'[p] = ring
         /\ diffBase'[p] = base
         /\ \A x \in Peers \ {p} : /\ recvtic'[x] = recvtic[x] /\ recvwindow'[x] = recvwindow[x]
                                   /\ ticdata'[x] = ticdata[x] /\ diffBase'[x] = diffBase[x]
    BY <1>2, <1>4 DEF ClientTypes
  <1>11. Paced'
    <2> SUFFICES ASSUME NEW x \in connected
                 PROVE  /\ gametic[x] <= recvtic'[x] /\ recvtic'[x] <= sendseq[x]
                        /\ acked[x] <= recvtic'[x]
                        /\ x \in Players => gametic[x] <= maketic[x]
                              /\ maketic[x] <= gametic[x] + MaxAhead + 1 /\ maketic[x] <= MaxTic
      BY <1>1 DEF Paced
    <2>1. /\ gametic[x] <= recvtic[x] /\ recvtic[x] <= sendseq[x] /\ acked[x] <= recvtic[x]
          /\ x \in Players => gametic[x] <= maketic[x]
                /\ maketic[x] <= gametic[x] + MaxAhead + 1 /\ maketic[x] <= MaxTic
      BY DEF LInv, ClientInv, Paced
    <2>2. CASE x # p
      BY <1>2, <1>10, <2>1, <2>2
    <2>3. CASE x = p
      <3>1. gametic[p] \in Nat /\ acked[p] \in Nat
        BY <1>2 DEF ClientTypes, LInv, IInv, TypeOK
      <3>2. gametic[p] <= ref + n /\ acked[p] <= ref + n
        BY <1>3, <2>1, <2>3, <3>1 DEF ref
      <3> QED  BY <1>3, <1>10, <2>1, <2>3, <3>2
    <2> QED  BY <2>2, <2>3
  <1>12. MadeFirst' /\ MadeIsKept' /\ LeavesRoom' /\ NobodyReturns'
    BY <1>1 DEF LInv, ClientInv, MadeFirst, MadeIsKept, LeavesRoom, NobodyReturns, Joined
  <1>13. ReceivedIsSent'
    <2> SUFFICES ASSUME NEW x \in connected, NEW s \in Slots, recvwindow'[x][s] # None
                 PROVE  /\ recvtic'[x] + s < sendseq[x]
                        /\ recvwindow'[x][s] = sent[x][recvtic'[x] + s + 1]
      BY <1>1 DEF ReceivedIsSent, TrueRow
    <2>1. CASE x # p
      BY <1>2, <1>10, <2>1 DEF LInv, ClientInv, ReceivedIsSent, TrueRow
    <2>2. CASE x = p
      <3>1. s + n \in Slots /\ tics[s + n] # None /\ recvwindow'[x][s] = tics[s + n]
        BY <1>8, <1>10, <2>2
      <3>2. ref + (s + n) < sendseq[p] /\ tics[s + n] = sent[p][ref + (s + n) + 1]
        BY <3>1 DEF TrueHead, TrueRow, ref
      <3>3. s \in Nat
        BY Bounds
      <3>4. ref + (s + n) = (ref + n) + s
        BY <1>3, <3>3
      <3> QED  BY <1>10, <2>2, <3>1, <3>2, <3>4
    <2> QED  BY <2>1, <2>2
  <1>14. DiffsCount'
    <2> SUFFICES ASSUME NEW x \in connected, NEW q \in Players
                 PROVE  /\ diffBase'[x][q] \in 0..recvtic'[x]
                        /\ \A t \in 0..(recvtic'[x] - 1) :
                              Joined(x, q, t) <=> t < diffBase'[x][q]
      BY <1>1 DEF DiffsCount, Joined
    <2>1. CASE x # p
      <3>1. recvtic'[x] = recvtic[x] /\ diffBase'[x] = diffBase[x]
        BY <1>2, <1>10, <2>1
      <3> QED  BY <3>1 DEF LInv, ClientInv, DiffsCount
    <2>2. CASE x = p
      <3>1. diffBase'[p][q] = Base(p, tics, n, q) /\ recvtic'[p] = recvtic[p] + n
        BY <1>8, <1>10 DEF ref
      <3> DEFINE b == Base(p, tics, n, q)
                 m == recvtic[p] + n
      <3>2. b \in 0..m /\ \A t \in 0..(m - 1) : Joined(p, q, t) <=> t < b
        <4>1. recvtic[p] \in Nat /\ n \in Nat
          BY <1>3 DEF ref
        <4> HIDE DEF b
        <4>2. b \in 0..(recvtic[p] + n)
              /\ \A t \in 0..(recvtic[p] + n - 1) : Joined(p, q, t) <=> t < b
          BY BaseIsTrue DEF b
        <4> QED  BY <4>1, <4>2
      <3>3. diffBase'[x][q] = b /\ recvtic'[x] = m /\ x = p
        BY <2>2, <3>1
      <3> HIDE DEF b, m
      <3> QED  BY <3>2, <3>3
    <2> QED  BY <2>1, <2>2
  <1>15. RingIsTrue'
    <2> SUFFICES ASSUME NEW x \in connected
                 PROVE  /\ \A t \in 0..(recvtic'[x] - 1), q \in Players \ {x} :
                              recvtic'[x] <= t + BackupTics =>
                              ticdata'[x][t % BackupTics][q] = IF Joined(x, q, t) THEN t ELSE None
                        /\ x \in Players => \A t \in 0..(maketic[x] - 1) :
                              maketic[x] <= t + BackupTics => ticdata'[x][t % BackupTics][x] = t
      BY <1>1 DEF RingIsTrue, Joined
    <2>1. CASE x # p
      <3>1. recvtic'[x] = recvtic[x] /\ ticdata'[x] = ticdata[x]
        BY <1>2, <1>10, <2>1
      <3> QED  BY <3>1 DEF LInv, ClientInv, RingIsTrue
    <2>2. CASE x = p
      <3>1. recvtic'[p] = recvtic[p] + n /\ ticdata'[p] = ring
        BY <1>10 DEF ref
      <3>2. ASSUME NEW t \in 0..(recvtic[p] + n - 1), NEW q \in Players \ {p},
                   recvtic[p] + n <= t + BackupTics
            PROVE  ring[t % BackupTics][q] = IF Joined(p, q, t) THEN t ELSE None
        <4>1. t % BackupTics \in Slots
          <5>1. t \in Nat
            BY <1>3 DEF ref
          <5> QED  BY <5>1, SlotOf
        <4>2. ring[t % BackupTics][q] = Cell(p, tics, n, t % BackupTics, q)
          BY <1>8, <4>1
        <4> QED  BY <3>2, <4>2, CellIsTrue
      <3>3. ASSUME p \in Players, NEW t \in 0..(maketic[p] - 1), maketic[p] <= t + BackupTics
            PROVE  ring[t % BackupTics][p] = t
        <4>1. t % BackupTics \in Slots
          <5>1. t \in Nat
            BY <1>2, <3>3 DEF ClientTypes
          <5> QED  BY <5>1, SlotOf
        <4>2. ring[t % BackupTics][p] = ticdata[p][t % BackupTics][p]
          BY <1>8, <3>3, <4>1, CellIsTrue
        <4> QED  BY <3>3, <4>2 DEF LInv, ClientInv, RingIsTrue
      <3> DEFINE m == recvtic[p] + n
      <3>4. ticdata'[x] = ring /\ recvtic'[x] = m /\ x = p
        BY <2>2, <3>1
      <3>5. \A t \in 0..(m - 1), q \in Players \ {p} : m <= t + BackupTics =>
                ring[t % BackupTics][q] = IF Joined(p, q, t) THEN t ELSE None
        <4>1. recvtic[p] \in Nat /\ n \in Nat
          BY <1>3 DEF ref
        <4> QED  BY <3>2, <4>1
      <3>6. p \in Players => \A t \in 0..(maketic[p] - 1) :
                maketic[p] <= t + BackupTics => ring[t % BackupTics][p] = t
        BY <3>3
      <3> HIDE DEF m
      <3> QED  BY <3>4, <3>5, <3>6
    <2> QED  BY <2>1, <2>2
  <1> QED  BY <1>9, <1>11, <1>12, <1>13, <1>14, <1>15 DEF ClientInv

(* The whole of NET_CL_Run.                                                 *)
LEMMA ClientRunKeeps ==
    ASSUME LInv, NEW p \in Peers, NEW batch, NEW silent, Len(batch) \in Nat,
           \A i \in 1..Len(batch) : batch[i] \in Spans(p), ClientRun(p, batch, silent)
    PROVE  LeavesRoom' /\ ClientInv'
  <1> DEFINE w == Draining(p, batch)[Len(batch)]
             tics == w.tics
             n == Complete(tics)
  <1>1. p \in connected
    BY DEF ClientRun, Playing
  <1>2. Row(tics) /\ TrueRow(p, tics)
    <2>1. Len(batch) \in 0..Len(batch)
      OBVIOUS
    <2> QED  BY <1>1, <2>1, DrainIsTrue
  <1>3. AdvanceWindow(p, tics, n) /\ UNCHANGED <<vars, maketic, sendQueue, gametic>>
    BY DEF ClientRun
  <1> HIDE DEF tics
  <1>4. TrueHead(p, tics, n)
    BY <1>2, CompleteIsDefined DEF TrueHead
  <1> HIDE DEF n
  <1> QED  BY <1>1, <1>3, <1>4, AdvanceKeeps

-----------------------------------------------------------------------------
(* Every step.                                                              *)

(* A client has made no tic the server's window has no slot for: it is      *)
(* paced by what it was sent, and that leaves room.                         *)
LEMMA WindowFits == LInv => UploadsFitWindow
  <1> SUFFICES ASSUME LInv, NEW p \in connected \cap Players
               PROVE  maketic[p] <= start + BackupTics
    BY DEF UploadsFitWindow
  <1>1. /\ maketic[p] <= gametic[p] + MaxAhead + 1 /\ gametic[p] <= recvtic[p]
        /\ recvtic[p] <= sendseq[p] /\ sendseq[p] + MaxAhead + 1 <= start + BackupTics
    BY DEF LInv, ClientInv, Paced, LeavesRoom
  <1>2. p \in Peers
    BY Bounds
  <1>3. /\ maketic[p] \in Nat /\ gametic[p] \in Nat /\ recvtic[p] \in Nat
        /\ sendseq[p] \in Nat /\ start \in Nat
    BY <1>2 DEF LInv, ClientInv, ClientTypes, IInv, TypeOK
  <1> QED  BY <1>1, <1>3, Bounds

(* What a client sends is within reach of the server's window.              *)
LEMMA UploadReaches ==
    ASSUME LInv, NEW p \in Players, NEW first \in 0..MaxTic, NEW count \in 1..(ExtraTics + 1),
           NEW r \in 0..recvtic[p], start - MaxStale <= first, first + count <= maketic[p],
           Upload(p, first, count, r % ByteValues)
    PROVE  /\ p \in connected \cap Players
           /\ count \in 0..MaxUpload /\ r % ByteValues \in Bytes
           /\ UploadStep(p, first, count, r % ByteValues)
           /\ UploadArrives
  <1>1. p \in connected \cap Players
    BY DEF Upload
  <1>2. maketic[p] <= start + BackupTics
    BY <1>1, WindowFits DEF UploadsFitWindow
  <1>3. maketic[p] <= MaxTic
    BY <1>1 DEF LInv, ClientInv, Paced
  <1>4. maketic[p] \in Nat /\ start \in Nat /\ recvtic[p] \in Nat
    BY <1>1, Bounds DEF LInv, ClientInv, ClientTypes, IInv, TypeOK
  <1>5. first \in Nat /\ count \in Nat /\ r \in Nat /\ count \in 0..MaxUpload
    BY <1>4, Bounds
  <1>6. first + count <= MaxTic /\ first + count <= start + ByteValues
    BY <1>2, <1>3, <1>4, <1>5, Bounds
  <1>7. start - BackupTics <= first
    BY <1>4, <1>5, Bounds
  <1>8. r % ByteValues \in Bytes
    BY <1>5, Bounds, ModuloStep DEF Bytes
  <1>9. UploadArrives
    BY <1>5, <1>6, <1>8 DEF UploadArrives
  <1> QED  BY <1>1, <1>5, <1>6, <1>7, <1>8, <1>9 DEF UploadStep

(* A client's acknowledgement is one that TicFanout's clients may send.     *)
LEMMA AckReaches ==
    ASSUME LInv, NEW p \in Peers, NEW r \in 0..recvtic[p], GameDataAck(p, r % ByteValues)
    PROVE  p \in connected /\ AckArrives
  <1>1. p \in connected
    BY DEF GameDataAck
  <1>2. recvtic[p] \in Nat
    BY DEF LInv, ClientInv, ClientTypes
  <1>3. r % ByteValues \in Bytes
    BY <1>2, Bounds, ModuloStep DEF Bytes
  <1> QED  BY <1>1, <1>3 DEF AckArrives

(* What is owed is never older than the window.                             *)
LEMMA OwedIsFresh ==
    ASSUME LInv, NEW p \in connected
    PROVE  recvtic[p] \in 0..recvtic[p] /\ start - MaxStale <= recvtic[p]
  <1>1. start <= acked[p] /\ acked[p] <= recvtic[p]
    BY DEF LInv, IInv, AcksHoldTheWindow, ClientInv, Paced
  <1>2. p \in Peers
    BY DEF LInv, IInv, TypeOK
  <1>3. start \in Nat /\ acked[p] \in Nat /\ recvtic[p] \in Nat
    BY <1>2 DEF LInv, IInv, TypeOK, ClientInv, ClientTypes
  <1> QED  BY <1>1, <1>3, Bounds

(* A tic the queue answers with is one its player made.                     *)
LEMMA ResendReaches ==
    ASSUME LInv, NEW p \in Players, NEW s \in Slots,
           sendQueue[p][(start + s) % BackupTics] = start + s,
           Upload(p, start + s, 1, recvtic[p] % ByteValues)
    PROVE  /\ start + s \in 0..MaxTic /\ 1 \in 1..(ExtraTics + 1)
           /\ recvtic[p] \in 0..recvtic[p]
           /\ start - MaxStale <= start + s /\ start + s + 1 <= maketic[p]
  <1>1. p \in connected
    BY DEF Upload
  <1>2. start \in Nat /\ s \in Nat /\ maketic[p] \in Nat /\ start + s \in Nat
    BY Bounds DEF LInv, IInv, TypeOK, ClientInv, ClientTypes
  <1>3. (start + s) % BackupTics \in Slots
    BY <1>2, SlotOf
  <1>4. sendQueue[p][(start + s) % BackupTics] # None
    BY <1>2, Bounds
  <1>5. start + s < maketic[p] /\ maketic[p] <= MaxTic
    BY <1>1, <1>3, <1>4 DEF LInv, ClientInv, MadeIsKept, Paced
  <1>6. recvtic[p] \in 0..recvtic[p]
    BY <1>1, OwedIsFresh
  <1> QED  BY <1>2, <1>5, <1>6, Bounds

(* A batch is a sequence of spans that may arrive.                          *)
LEMMA BatchIsSpans ==
    ASSUME NEW p, NEW k \in Nat, NEW batch \in [1..k -> Spans(p)]
    PROVE  Len(batch) \in Nat /\ \A i \in 1..Len(batch) : batch[i] \in Spans(p)
  <1>1. batch \in Seq(Spans(p))
    BY SeqDef
  <1> HIDE DEF Spans
  <1>2. Len(batch) \in Nat /\ batch \in [1..Len(batch) -> Spans(p)]
    BY <1>1, LenProperties
  <1> QED  BY <1>2

(* What the kinds of step are to the server, and to the clients.            *)
ClientSteps == UNCHANGED vars /\ LeavesRoom' /\ ClientInv'
(* A client's upload arrives.                                               *)
ServerTalks(p, first, count, r) ==
    /\ p \in connected \cap Players /\ first \in 0..MaxTic /\ count \in 0..MaxUpload
    /\ r \in 0..recvtic[p] /\ start - MaxStale <= r
    /\ first + count <= maketic[p] /\ UploadStep(p, first, count, r % ByteValues)
    /\ ClientsStay /\ UploadArrives
(* A client's acknowledgement arrives.                                      *)
ServerHears(p, r) ==
    /\ p \in connected /\ r \in 0..recvtic[p] /\ start - MaxStale <= r
    /\ GameDataAck(p, r % ByteValues) /\ ClientsStay /\ AckArrives

(* The four kinds of step cover LockstepNext.                               *)
LEMMA LockstepCases ==
    ASSUME LInv, [LockstepNext]_allVars
    PROVE  \/ ClientSteps
           \/ \E p, first, count, r : ServerTalks(p, first, count, r)
           \/ \E p, r : ServerHears(p, r)
           \/ ServerSteps
  <1>1. ASSUME UNCHANGED <<vars, loop, receiving>> PROVE ClientSteps
    BY <1>1, OwingKeeps DEF ClientSteps
  <1>2. ASSUME NEW p \in Peers, MakeTic(p) PROVE ClientSteps
    BY <1>2, MakeTicKeeps DEF ClientSteps, MakeTic
  <1>3. ASSUME NEW p \in Peers, RunTic(p) PROVE ClientSteps
    BY <1>3, RunTicKeeps DEF ClientSteps, RunTic
  <1>4. ASSUME NEW p \in Peers, AckIsLost(p) PROVE ClientSteps
    BY <1>1, <1>4 DEF AckIsLost
  <1>5. ASSUME NEW p \in Peers, AckArrivesFrom(p) PROVE \E r : ServerHears(p, r)
    <2>1. GameDataAck(p, recvtic[p] % ByteValues) /\ ClientsStay /\ p \in connected
      BY <1>5 DEF AckArrivesFrom, ClientsStay, GameDataAck
    <2>2. recvtic[p] \in 0..recvtic[p] /\ start - MaxStale <= recvtic[p]
      BY <2>1, OwedIsFresh
    <2>3. AckArrives
      BY <2>1, <2>2, AckReaches
    <2> QED  BY <2>1, <2>2, <2>3 DEF ServerHears
  <1>6. ASSUME NEW p \in Players, ResendArrives(p)
        PROVE  \E first, count, r : ServerTalks(p, first, count, r)
    <2>1. PICK s \in Slots : /\ sendQueue[p][(start + s) % BackupTics] = start + s
                             /\ Upload(p, start + s, 1, recvtic[p] % ByteValues)
      BY <1>6 DEF ResendArrives
    <2> DEFINE first == start + s
    <2>2. /\ first \in 0..MaxTic /\ 1 \in 1..(ExtraTics + 1) /\ recvtic[p] \in 0..recvtic[p]
          /\ start - MaxStale <= first /\ first + 1 <= maketic[p]
      BY <2>1, ResendReaches
    <2>3. Upload(p, first, 1, recvtic[p] % ByteValues) /\ ClientsStay
      BY <1>6, <2>1 DEF ResendArrives, ClientsStay
    <2> HIDE DEF first
    <2>4. /\ p \in connected \cap Players /\ 1 \in 0..MaxUpload
          /\ UploadStep(p, first, 1, recvtic[p] % ByteValues) /\ UploadArrives
      BY <2>2, <2>3, UploadReaches
    <2>5. start - MaxStale <= recvtic[p]
      BY <2>4, OwedIsFresh
    <2> QED  BY <2>2, <2>3, <2>4, <2>5 DEF ServerTalks
  <1>7. ASSUME ClientRuns PROVE ClientSteps
    <2>1. PICK p \in Peers :
             \/ \E k \in 1..MaxBatch : \E batch \in [1..k -> Spans(p)] : ClientRun(p, batch, FALSE)
             \/ ClientRun(p, << >>, TRUE)
      BY <1>7 DEF ClientRuns
    <2>2. CASE \E k \in 1..MaxBatch : \E batch \in [1..k -> Spans(p)] : ClientRun(p, batch, FALSE)
      <3>1. PICK k \in 1..MaxBatch : \E batch \in [1..k -> Spans(p)] : ClientRun(p, batch, FALSE)
        BY <2>2
      <3>2. PICK batch \in [1..k -> Spans(p)] : ClientRun(p, batch, FALSE)
        BY <3>1
      <3>3. k \in Nat
        BY LockstepAssumption
      <3>4. Len(batch) \in Nat /\ \A i \in 1..Len(batch) : batch[i] \in Spans(p)
        BY <3>3, BatchIsSpans
      <3> QED  BY <3>2, <3>4, ClientRunKeeps DEF ClientSteps, ClientRun
    <2>3. CASE ClientRun(p, << >>, TRUE)
      <3>1. Len(<< >>) \in Nat /\ 1..Len(<< >>) = {}
        OBVIOUS
      <3> QED  BY <2>3, <3>1, ClientRunKeeps DEF ClientSteps, ClientRun
    <2> QED  BY <2>1, <2>2, <2>3
  <1>8. ASSUME Uploads PROVE \E p, first, count, r : ServerTalks(p, first, count, r)
    <2>1. PICK p \in Players, first \in 0..MaxTic, count \in 1..(ExtraTics + 1) :
             \E r \in Acks(p) : start - MaxStale <= first /\ UploadFrom(p, first, count, r)
      BY <1>8 DEF Uploads
    <2>2. PICK r \in Acks(p) : start - MaxStale <= first /\ UploadFrom(p, first, count, r)
      BY <2>1
    <2>3. r \in 0..recvtic[p] /\ start - MaxStale <= r
      BY DEF Acks
    <2>4. /\ start - MaxStale <= first /\ first + count <= maketic[p] /\ ClientsStay
          /\ Upload(p, first, count, r % ByteValues)
      BY <2>2 DEF UploadFrom, clientVars, ClientsStay
    <2>5. /\ p \in connected \cap Players /\ count \in 0..MaxUpload
          /\ UploadStep(p, first, count, r % ByteValues) /\ UploadArrives
      BY <2>3, <2>4, UploadReaches
    <2>6. first \in 0..MaxTic
      OBVIOUS
    <2>7. ServerTalks(p, first, count, r)
      BY <2>3, <2>4, <2>5, <2>6 DEF ServerTalks
    <2> QED  BY <2>7
  <1>9. ASSUME LateAck PROVE \E p, r : ServerHears(p, r)
    <2>1. PICK p \in Drones : \E r \in Acks(p) :
              GameDataAck(p, r % ByteValues) /\ UNCHANGED clientVars
      BY <1>9 DEF LateAck
    <2>2. PICK r \in Acks(p) : GameDataAck(p, r % ByteValues) /\ UNCHANGED clientVars
      BY <2>1
    <2>3. r \in 0..recvtic[p] /\ start - MaxStale <= r /\ p \in Peers
      BY DEF Acks, Peers
    <2>4. p \in connected /\ AckArrives
      BY <2>2, <2>3, AckReaches
    <2>5. ClientsStay
      BY <2>2 DEF clientVars, ClientsStay
    <2> QED  BY <2>2, <2>3, <2>4, <2>5 DEF ServerHears
  <1>10. ASSUME UNCHANGED allVars PROVE ClientSteps
    BY <1>1, <1>10 DEF allVars, clientVars
  <1> QED  BY <1>2, <1>3, <1>4, <1>5, <1>6, <1>7, <1>8, <1>9, <1>10 DEF LockstepNext

(* An upload keeps the invariant and is a step of TicFanout.                *)
LEMMA ServerTalksKeep ==
    ASSUME LInv, NEW p, NEW first, NEW count, NEW r, ServerTalks(p, first, count, r)
    PROVE  LInv' /\ Next
  <1>1. UploadArrives
    BY DEF ServerTalks
  <1>2. Next
    BY <1>1 DEF Next
  <1>3. IInv'
    BY <1>2, StepInv DEF LInv
  <1>4. TypeOK'
    BY <1>3 DEF IInv
  <1>5. LeavesRoom' /\ ClientInv'
    BY <1>4, UploadKeeps DEF ServerTalks
  <1> QED  BY <1>2, <1>3, <1>5 DEF LInv

(* So is an acknowledgement, and it does.                                   *)
LEMMA ServerHearsKeeps ==
    ASSUME LInv, NEW p, NEW r, ServerHears(p, r)
    PROVE  LInv' /\ Next
  <1>1. AckArrives
    BY DEF ServerHears
  <1>2. Next
    BY <1>1 DEF Next
  <1>3. IInv'
    BY <1>2, StepInv DEF LInv
  <1>4. TypeOK'
    BY <1>3 DEF IInv
  <1>5. LeavesRoom' /\ ClientInv'
    BY <1>4, AckKeeps DEF ServerHears
  <1> QED  BY <1>2, <1>3, <1>5 DEF LInv

(* Departures and timer passes keep the invariant, whoever stays.           *)
LEMMA ServerStepKeeps ==
    ASSUME LInv, ServerSteps
    PROVE  LInv' /\ Next
  <1>1. LoseClients
    BY DEF ServerSteps
  <1>2. TypeOK
    BY DEF LInv, IInv
  <1>3. CASE \E expired \in SUBSET ((connected \cup asleep) \cap MayLeave),
                quiet \in SUBSET (connected \cap Players) : Timer(expired, quiet)
    <2>1. PICK expired \in SUBSET (connected \cup asleep),
               quiet \in SUBSET (connected \cap Players) : Timer(expired, quiet)
      BY <1>3
    <2>2. Next
      BY <2>1 DEF TimerFires, Next
    <2>3. IInv'
      BY <2>2, StepInv DEF LInv
    <2>4. CASE EndsGame(expired)
      <3>1. End
        BY <2>1, <2>4 DEF Timer
      <3>2. LeavesRoom' /\ ClientInv'
        BY <1>1, <3>1, EndKeeps
      <3> QED  BY <2>2, <2>3, <3>2 DEF LInv
    <2>5. CASE ~EndsGame(expired)
      <3>1. Pass(expired, quiet)
        BY <2>1, <2>5 DEF Timer
      <3>2. LeavesRoom' /\ ClientInv'
        BY <1>1, <2>5, <3>1, PassKeeps
      <3> QED  BY <2>2, <2>3, <3>2 DEF LInv
    <2> QED  BY <2>4, <2>5
  <1>4. CASE \E p \in MayLeave : Disconnect(p) \/ Leave(p)
    <2>1. PICK p \in Peers : Disconnect(p) \/ Leave(p)
      BY <1>4, LockstepAssumption
    <2>2. Next
      BY <2>1 DEF Departure, Next
    <2>3. IInv'
      BY <2>2, StepInv DEF LInv
    <2>4. ClientsLeave \/ End
      <3>1. CASE Disconnect(p)
        BY <1>2, <3>1 DEF Disconnect, ClientsLeave, TypeOK
      <3>2. CASE Leave(p) /\ ~EndsGame({p})
        BY <1>2, <3>2 DEF Leave, Remove, ClientsLeave, TypeOK
      <3>3. CASE Leave(p) /\ EndsGame({p})
        BY <3>3 DEF Leave
      <3> QED  BY <2>1, <3>1, <3>2, <3>3
    <2>5. LeavesRoom' /\ ClientInv'
      BY <1>1, <2>4, LeaveKeeps, EndKeeps
    <2> QED  BY <2>2, <2>3, <2>5 DEF LInv
  <1> QED  BY <1>3, <1>4 DEF ServerSteps

(* Every step keeps the invariant, and is a step of TicFanout or stutters.  *)
LEMMA LockstepStep == LInv /\ [LockstepNext]_allVars => LInv' /\ [Next]_vars
  <1> SUFFICES ASSUME LInv, [LockstepNext]_allVars PROVE LInv' /\ [Next]_vars
    OBVIOUS
  <1>1. CASE ClientSteps
    <2>1. IInv'
      BY <1>1, StepInv DEF ClientSteps, LInv
    <2> QED  BY <1>1, <2>1 DEF ClientSteps, LInv
  <1>2. CASE \E p, first, count, r : ServerTalks(p, first, count, r)
    BY <1>2, ServerTalksKeep
  <1>3. CASE \E p, r : ServerHears(p, r)
    BY <1>3, ServerHearsKeeps
  <1>4. CASE ServerSteps
    BY <1>4, ServerStepKeeps
  <1> QED  BY <1>1, <1>2, <1>3, <1>4, LockstepCases

(* A game starts with nothing made, sent or received.                       *)
LEMMA LockstepInitInv == LockstepInit => LInv
  <1> SUFFICES ASSUME LockstepInit PROVE LInv
    OBVIOUS
  <1>1. IInv
    BY InitInv DEF LockstepInit
  <1>2. /\ connected = Peers /\ start = 0 /\ recv = EmptyWindow /\ sendseq = Zero
        /\ acked = Zero /\ sent = NothingSent
    BY DEF LockstepInit, Init
  <1>3. /\ maketic = FirstTic /\ sendQueue = NothingMade /\ gametic = Zero
        /\ ticdata = NothingToRun /\ recvtic = Zero /\ recvwindow = NothingReceived
        /\ diffBase = FirstDiffs
    BY DEF LockstepInit
  <1>4. ClientTypes
    <2>1. maketic \in [Players -> Nat] /\ sendQueue \in [Players -> [Slots -> Nat \cup {None}]]
      BY <1>3 DEF FirstTic, NothingMade
    <2>2. gametic \in [Peers -> Nat] /\ recvtic \in [Peers -> Nat]
      BY <1>3 DEF Zero
    <2>3. ticdata \in [Peers -> [Slots -> [Players -> Nat \cup {None, Garbled}]]]
      BY <1>3 DEF NothingToRun, EmptyWindow
    <2>4. recvwindow \in [Peers -> [Slots -> FullTics \cup {None}]]
      BY <1>3 DEF NothingReceived
    <2>5. diffBase \in [Peers -> [Players -> Nat \cup {Garbled}]]
      BY <1>3 DEF FirstDiffs, FirstTic
    <2> QED  BY <2>1, <2>2, <2>3, <2>4, <2>5 DEF ClientTypes
  <1>5. LeavesRoom
    BY <1>2, Bounds DEF LeavesRoom, Zero
  <1>6. Paced
    BY <1>2, <1>3, Bounds DEF Paced, Zero, FirstTic
  <1>7. MadeFirst
    BY <1>2, <1>3 DEF MadeFirst, EmptyWindow, Zero, FirstTic
  <1>8. ReceivedIsSent
    BY <1>2, <1>3 DEF ReceivedIsSent, TrueRow, NothingReceived
  <1>9. MadeIsKept
    <2>1. 0..(0 - 1) = {}
      OBVIOUS
    <2> QED  BY <1>3, <2>1 DEF MadeIsKept, FirstTic, NothingMade
  <1>10. NobodyReturns
    BY <1>2 DEF NobodyReturns, Zero
  <1>11. DiffsCount
    BY <1>2, <1>3 DEF DiffsCount, Zero, FirstDiffs, FirstTic
  <1>12. RingIsTrue
    BY <1>2, <1>3, Bounds DEF RingIsTrue, Zero, FirstTic
  <1> QED  BY <1>1, <1>4, <1>5, <1>6, <1>7, <1>8, <1>9, <1>10, <1>11, <1>12 DEF LInv, ClientInv

(* The inductive invariant holds in every reachable state.                  *)
THEOREM LockstepInv == LockstepSpec => []LInv
  <1> QED  BY LockstepInitInv, LockstepStep, PTL DEF LockstepSpec

(* The refinement: TicFanout's server meets real clients.                   *)
THEOREM LockstepIsFanout == LockstepSpec => Spec
  <1>1. LockstepInit => Init
    BY DEF LockstepInit
  <1> QED  BY <1>1, LockstepInv, LockstepStep, PTL DEF LockstepSpec, Spec

(* No client ever uploads a tic that ends outside of the server's window,   *)
(* so nothing NET_CL_SendTics sends is discarded or aliased by expand_tic.  *)
THEOREM UploadsAlwaysFit == LockstepSpec => []UploadsFitWindow
  <1> QED  BY LockstepInv, WindowFits, PTL

(* Nobody runs more than MaxAhead + 1 tics ahead of a player still there    *)
(* (TryRunTics waits for everyone's commands).                              *)
THEOREM NobodyGetsAhead == LockstepSpec => []NobodyRunsAhead
  <1>1. LInv => NobodyRunsAhead
    <2> SUFFICES ASSUME LInv, NEW p \in connected, NEW q \in connected \cap Players
                 PROVE  gametic[p] <= gametic[q] + MaxAhead + 1
      BY DEF NobodyRunsAhead
    <2>1. /\ gametic[p] \in Nat /\ recvtic[p] \in Nat /\ sendseq[p] \in Nat
          /\ maketic[q] \in Nat /\ gametic[q] \in Nat
      BY Bounds DEF LInv, ClientInv, ClientTypes, IInv, TypeOK
    <2>2. /\ gametic[p] <= recvtic[p] /\ recvtic[p] <= sendseq[p]
          /\ maketic[q] <= gametic[q] + MaxAhead + 1
      BY DEF LInv, ClientInv, Paced
    <2>3. CASE p = q
      BY <2>1, <2>3, Bounds
    <2>4. CASE p # q
      <3>1. sendseq[p] <= maketic[q]
        BY <2>4 DEF LInv, ClientInv, MadeFirst
      <3> QED  BY <2>1, <2>2, <3>1, Bounds
    <2> QED  BY <2>3, <2>4
  <1> QED  BY <1>1, LockstepInv, PTL

(* What the server may ask a client for again is still in its send queue    *)
(* (NET_CL_ParseResendRequest answers from it).                             *)
THEOREM ClientsKeepWhatIsMissing == LockstepSpec => []ClientCanResend
  <1>1. LInv => ClientCanResend
    <2> SUFFICES ASSUME LInv, NEW p \in connected \cap Players, NEW s \in Slots,
                        start + s < maketic[p]
                 PROVE  sendQueue[p][(start + s) % BackupTics] = start + s
      BY DEF ClientCanResend
    <2>1. start \in Nat /\ s \in Nat /\ maketic[p] \in Nat
      BY Bounds DEF LInv, ClientInv, ClientTypes, IInv, TypeOK
    <2>2. maketic[p] <= start + BackupTics
      BY WindowFits DEF UploadsFitWindow
    <2> DEFINE t == start + s
    <2>3. t \in 0..(maketic[p] - 1) /\ maketic[p] <= t + BackupTics
      BY <2>1, <2>2, Bounds
    <2> HIDE DEF t
    <2>4. sendQueue[p][t % BackupTics] = t
      BY <2>3 DEF LInv, ClientInv, MadeIsKept
    <2> QED  BY <2>4 DEF t
  <1> QED  BY <1>1, LockstepInv, PTL

(* What any client runs as tic t was made for tic t by everyone still       *)
(* connected, whatever was lost, repeated, late (within MaxStale and        *)
(* MaxLate) or out of order.                                                *)
THEOREM ClientsRunTrue == LockstepSpec => []TicsRunTrue
  <1>1. LInv => TicsRunTrue
    <2> SUFFICES ASSUME LInv, NEW p \in connected, NEW t \in ToRun(p)
                 PROVE  /\ \A q \in connected \cap Players : ticdata[p][t % BackupTics][q] = t
                        /\ \A q \in Players : ticdata[p][t % BackupTics][q] \in {None, t}
      BY DEF TicsRunTrue
    <2>1. /\ p \in Peers /\ gametic[p] \in Nat /\ recvtic[p] \in Nat /\ sendseq[p] \in Nat
          /\ (p \in Players => maketic[p] \in Nat) /\ start \in Nat
      BY DEF LInv, ClientInv, ClientTypes, IInv, TypeOK
    <2>2. /\ recvtic[p] <= sendseq[p] /\ sendseq[p] + MaxAhead + 1 <= start + BackupTics
          /\ p \in Players => maketic[p] <= gametic[p] + MaxAhead + 1 /\ start <= maketic[p]
      BY DEF LInv, ClientInv, Paced, LeavesRoom, MadeFirst
    <2>3. /\ t \in gametic[p]..(LowTic(p) - 1)
          /\ p \in Players \/ t >= recvtic[p] - BackupTics
      BY DEF ToRun
    <2>4. /\ t \in Nat /\ gametic[p] <= t /\ t < recvtic[p]
          /\ p \in Players => t < maketic[p]
      BY <2>1, <2>3 DEF LowTic
    <2>5. recvtic[p] <= t + BackupTics
      BY <2>1, <2>2, <2>3, <2>4, Bounds
    <2>6. ASSUME NEW q \in Players \ {p}
          PROVE  /\ ticdata[p][t % BackupTics][q] = IF Joined(p, q, t) THEN t ELSE None
                 /\ q \in connected => Joined(p, q, t)
      <3>1. t \in 0..(recvtic[p] - 1)
        BY <2>1, <2>4
      <3>2. ticdata[p][t % BackupTics][q] = IF Joined(p, q, t) THEN t ELSE None
        BY <2>5, <3>1 DEF LInv, ClientInv, RingIsTrue
      <3>3. t + 1 \in 1..Len(sent[p])
        BY <2>1, <2>2, <2>4 DEF LInv, IInv, TypeOK
      <3> QED  BY <3>2, <3>3 DEF LInv, IInv, NobodySkipped, Joined
    <2>7. ASSUME p \in Players PROVE ticdata[p][t % BackupTics][p] = t
      <3>1. t \in 0..(maketic[p] - 1) /\ maketic[p] <= t + BackupTics
        BY <2>1, <2>2, <2>4, <2>7, Bounds
      <3> QED  BY <2>7, <3>1 DEF LInv, ClientInv, RingIsTrue
    <2> QED  BY <2>6, <2>7
  <1> QED  BY <1>1, LockstepInv, PTL

-----------------------------------------------------------------------------
(* The clients' own requests.                                               *)

(* In one window, what is missing below something received or asked for is  *)
(* asked for.                                                               *)
Gapless(tics, asks) ==
    \A s, u \in Slots :
        (s < u /\ (tics[u] # None \/ asks[u]) /\ tics[s] = None) => asks[s]

(* ClientGapsAreAsked, with the type it needs.                              *)
GapsInv == resent \in [Peers -> [Slots -> BOOLEAN]] /\ ClientGapsAreAsked

(* The run asked for below a datagram ends where one was received or asked  *)
(* for before.                                                              *)
LEMMA ParseGaps ==
    ASSUME LInv, NEW p \in connected, NEW d \in Spans(p), NEW w,
           Row(w.tics), TrueRow(p, w.tics), w.resent \in [Slots -> BOOLEAN],
           Gapless(w.tics, w.resent)
    PROVE  LET new == ParseGameData(p, w, d)
           IN  new.resent \in [Slots -> BOOLEAN] /\ Gapless(new.tics, new.resent)
  <1> DEFINE at   == Expand(recvtic[p], d.first % ByteValues) - recvtic[p]
             end  == IF at < BackupTics - 1 THEN at ELSE BackupTics - 1
             c    == d.count
             got  == ParseGameData(p, w, d).tics
             asks == ParseGameData(p, w, d).resent
             old  == w.tics
             told == w.resent
             Asked(s) == s \in 0..(end - 1) /\ \A v \in s..(end - 1) : got[v] = None /\ ~told[v]
  <1>1. /\ at \in Int
        /\ \A s \in Slots : IF s \in at..(at + c - 1)
                            THEN got[s] \in FullTics ELSE got[s] = old[s]
    BY ParseIsTrue
  <1>2. asks = [s \in Slots |-> told[s] \/ Asked(s)]
    BY DEF ParseGameData, Parsed
  <1>3. c \in Nat
    <2>1. d.count \in 1..(ExtraTics + 1)
      BY DEF Spans
    <2> QED  BY <2>1, Bounds
  <1>4. told \in [Slots -> BOOLEAN] /\ Gapless(old, told)
    OBVIOUS
  <1>5. BackupTics \in Nat /\ Slots = 0..(BackupTics - 1) /\ None \notin FullTics
    BY Bounds DEF Slots
  <1>6. end \in Int /\ end <= at /\ end <= BackupTics - 1
        /\ (end = at \/ end = BackupTics - 1)
    BY <1>1, <1>5
  <1> HIDE DEF at, end, c, got, asks, old, told
  <1>7. asks \in [Slots -> BOOLEAN]
    <2> HIDE DEF Asked
    <2>1. \A s \in Slots : (told[s] \/ Asked(s)) \in BOOLEAN
      OBVIOUS
    <2> QED  BY <1>2, <2>1
  <1>8. ASSUME NEW s \in Slots, NEW u \in Slots, s < u, got[u] # None \/ asks[u], got[s] = None
        PROVE  asks[s]
    <2>1. s \in Nat /\ u \in Nat /\ u <= BackupTics - 1
      BY <1>5
    <2>2. s \notin at..(at + c - 1) /\ old[s] = None
      BY <1>1, <1>5, <1>8
    <2>3. CASE old[u] # None \/ told[u]
      <3>1. told[s]
        BY <1>4, <1>8, <2>2, <2>3 DEF Gapless
      <3> QED  BY <1>2, <3>1
    <2>4. CASE old[u] = None /\ ~told[u]
      <3>1. u \in at..(at + c - 1) \/ Asked(u)
        <4>1. CASE got[u] # None
          BY <1>1, <2>4, <4>1
        <4>2. CASE asks[u]
          <5> HIDE DEF Asked
          <5>1. told[u] \/ Asked(u)
            BY <1>2, <4>2
          <5> QED  BY <2>4, <5>1
        <4> QED  BY <1>8, <4>1, <4>2
      <3>2. s < end
        <4>1. CASE u \in at..(at + c - 1)
          <5>1. s < at
            BY <1>1, <1>3, <1>8, <2>1, <2>2, <4>1
          <5> QED  BY <1>1, <1>5, <1>6, <1>8, <2>1, <5>1
        <4>2. CASE Asked(u)
          <5>1. u < end
            BY <1>6, <2>1, <4>2
          <5> QED  BY <1>6, <1>8, <2>1, <5>1
        <4> QED  BY <3>1, <4>1, <4>2
      <3>3. s \in 0..(end - 1)
        BY <1>6, <2>1, <3>2
      <3>4. CASE Asked(s)
        <4> HIDE DEF Asked
        <4> QED  BY <1>2, <3>4
      <3>5. CASE ~Asked(s)
        <4>1. PICK v \in s..(end - 1) : got[v] # None \/ told[v]
          BY <3>3, <3>5
        <4>2. v \in Slots /\ v \notin at..(at + c - 1) /\ s <= v
          BY <1>1, <1>5, <1>6, <2>1, <4>1
        <4>3. got[v] = old[v]
          BY <1>1, <4>2
        <4>4. CASE v = s
          <5>1. told[s]
            BY <1>8, <4>1, <4>4
          <5> QED  BY <1>2, <5>1
        <4>5. CASE v # s
          <5>1. s < v
            BY <1>5, <2>1, <4>2, <4>5
          <5>2. told[s]
            BY <1>4, <2>2, <4>1, <4>2, <4>3, <5>1 DEF Gapless
          <5> QED  BY <1>2, <5>2
        <4> QED  BY <4>4, <4>5
      <3> QED  BY <3>4, <3>5
    <2> QED  BY <2>3, <2>4
  <1>9. Gapless(got, asks)
    BY <1>8 DEF Gapless
  <1> QED  BY <1>7, <1>9 DEF got, asks

(* So does a batch of them.                                                 *)
LEMMA DrainGaps ==
    ASSUME LInv, GapsInv, NEW p \in connected, NEW batch, Len(batch) \in Nat,
           \A i \in 1..Len(batch) : batch[i] \in Spans(p)
    PROVE  LET w == Draining(p, batch)[Len(batch)]
           IN  w.resent \in [Slots -> BOOLEAN] /\ Gapless(w.tics, w.resent)
  <1> DEFINE w == Draining(p, batch)
             Good(i) == w[i].resent \in [Slots -> BOOLEAN] /\ Gapless(w[i].tics, w[i].resent)
             Bad == {i \in 0..Len(batch) : ~Good(i)}
  <1>1. /\ w[0] = [tics |-> recvwindow[p], resent |-> resent[p]]
        /\ \A i \in 1..Len(batch) : w[i] = ParseGameData(p, w[i - 1], batch[i])
    BY DrainingIsDefined DEF Drains
  <1>2. \A i \in 0..Len(batch) : Row(w[i].tics) /\ TrueRow(p, w[i].tics)
    BY DrainIsTrue
  <1> HIDE DEF w
  <1>3. Bad = {}
    <2> SUFFICES ASSUME Bad # {} PROVE FALSE
      OBVIOUS
    <2>1. Bad \in SUBSET Nat
      OBVIOUS
    <2> HIDE DEF Bad
    <2>2. PICK i \in Bad : \A m \in Bad : i <= m
      BY <2>1, LeastNat
    <2> USE DEF Bad
    <2>3. CASE i = 0
      <3>1. resent[p] \in [Slots -> BOOLEAN] /\ Gapless(recvwindow[p], resent[p])
        BY DEF GapsInv, ClientGapsAreAsked, Gapless, LInv, IInv, TypeOK
      <3>2. w[0].tics = recvwindow[p] /\ w[0].resent = resent[p]
        BY <1>1
      <3> QED  BY <2>2, <2>3, <3>1, <3>2
    <2>4. CASE i # 0
      <3>1. i \in 1..Len(batch) /\ i - 1 \in 0..Len(batch) /\ ~(i <= i - 1)
        BY <2>2, <2>4
      <3>2. Good(i - 1)
        BY <2>2, <3>1
      <3>3. batch[i] \in Spans(p)
        BY <3>1
      <3>4. Good(i)
        BY <1>1, <1>2, <3>1, <3>2, <3>3, ParseGaps
      <3> QED  BY <2>2, <3>4
    <2> QED  BY <2>3, <2>4
  <1>4. Len(batch) \in 0..Len(batch)
    OBVIOUS
  <1>5. Good(Len(batch))
    BY <1>3, <1>4
  <1> QED  BY <1>5 DEF w

(* The window and the requests advance together.                            *)
LEMMA ClientRunGaps ==
    ASSUME LInv, GapsInv, NEW p \in Peers, NEW batch, NEW silent \in BOOLEAN, Len(batch) \in Nat,
           \A i \in 1..Len(batch) : batch[i] \in Spans(p), ClientRun(p, batch, silent)
    PROVE  GapsInv'
  <1> DEFINE w    == Draining(p, batch)[Len(batch)]
             tics == w.tics
             told == w.resent
             n    == Complete(tics)
             rest == [s \in Slots |-> IF s + n \in Slots THEN tics[s + n] ELSE None]
             asks == [s \in Slots |-> \/ s + n \in Slots /\ told[s + n]
                                      \/ s = 0 /\ silent /\ recvwindow'[p][0] = None]
  <1>1. p \in connected /\ connected' = connected /\ connected \subseteq Peers
    BY DEF ClientRun, Playing, vars, clients, LInv, IInv, TypeOK
  <1>2. told \in [Slots -> BOOLEAN] /\ Gapless(tics, told)
    BY <1>1, DrainGaps
  <1>3. recvwindow' = [recvwindow EXCEPT ![p] = rest] /\ resent' = [resent EXCEPT ![p] = asks]
    BY DEF ClientRun, AdvanceWindow
  <1>4. recvwindow \in [Peers -> [Slots -> FullTics \cup {None}]]
        /\ resent \in [Peers -> [Slots -> BOOLEAN]]
    BY DEF LInv, ClientInv, ClientTypes, GapsInv
  <1>5. n \in Nat /\ BackupTics \in Nat /\ Slots = 0..(BackupTics - 1)
    <2>1. n \in 0..BackupTics
      BY CompleteIsDefined
    <2> HIDE DEF n
    <2> QED  BY <2>1, Bounds DEF Slots
  <1> HIDE DEF tics, told, n
  <1>6. recvwindow'[p] = rest /\ resent'[p] = asks
        /\ \A x \in Peers \ {p} : recvwindow'[x] = recvwindow[x] /\ resent'[x] = resent[x]
    BY <1>3, <1>4
  <1>7. asks \in [Slots -> BOOLEAN]
    BY <1>2
  <1>8. ASSUME NEW s \in Slots, NEW u \in Slots, s < u, rest[u] # None \/ asks[u], rest[s] = None
        PROVE  asks[s]
    <2>1. s \in Nat /\ u \in Nat /\ u # 0
      BY <1>5, <1>8
    <2>2. u + n \in Slots /\ (tics[u + n] # None \/ told[u + n])
      BY <1>8, <2>1
    <2>3. s + n \in Slots /\ s + n < u + n
      BY <1>5, <1>8, <2>1, <2>2
    <2>4. tics[s + n] = None
      BY <1>8, <2>3
    <2>5. told[s + n]
      <3> DEFINE a == s + n
                 b == u + n
      <3>1. a \in Slots /\ b \in Slots /\ a < b /\ (tics[b] # None \/ told[b]) /\ tics[a] = None
        BY <2>2, <2>3, <2>4
      <3> HIDE DEF a, b
      <3>2. told[a]
        BY <1>2, <3>1 DEF Gapless
      <3> QED  BY <3>2 DEF a
    <2> QED  BY <2>3, <2>5
  <1> HIDE DEF rest, asks
  <1>9. resent' \in [Peers -> [Slots -> BOOLEAN]]
    BY <1>3, <1>4, <1>7
  <1>10. ClientGapsAreAsked'
    <2> SUFFICES ASSUME NEW x \in connected, NEW s \in Slots, NEW u \in Slots, s < u,
                        recvwindow'[x][u] # None \/ resent'[x][u], recvwindow'[x][s] = None
                 PROVE  resent'[x][s]
      BY <1>1 DEF ClientGapsAreAsked
    <2>1. CASE x = p
      BY <1>6, <1>8, <2>1
    <2>2. CASE x # p
      BY <1>1, <1>6, <2>2 DEF GapsInv, ClientGapsAreAsked
    <2> QED  BY <2>1, <2>2
  <1> QED  BY <1>9, <1>10 DEF GapsInv

(* Every step keeps the requests.                                           *)
LEMMA GapsKeep == LInv /\ GapsInv /\ [LockstepNext]_allVars => GapsInv'
  <1> SUFFICES ASSUME LInv, GapsInv, [LockstepNext]_allVars PROVE GapsInv'
    OBVIOUS
  <1>1. ASSUME UNCHANGED receiving, UNCHANGED clients PROVE GapsInv'
    BY <1>1 DEF receiving, clients, GapsInv, ClientGapsAreAsked
  <1>2. ASSUME NEW p \in Peers, MakeTic(p) \/ RunTic(p) \/ AckIsLost(p) PROVE GapsInv'
    BY <1>1, <1>2 DEF MakeTic, RunTic, AckIsLost, vars
  <1>3. ASSUME NEW p \in Peers, AckArrivesFrom(p) PROVE GapsInv'
    BY <1>1, <1>3 DEF AckArrivesFrom, GameDataAck
  <1>4. ASSUME NEW p \in Players, ResendArrives(p) PROVE GapsInv'
    BY <1>1, <1>4 DEF ResendArrives, Upload
  <1>5. ASSUME Uploads PROVE GapsInv'
    BY <1>1, <1>5 DEF Uploads, UploadFrom, Upload, clientVars
  <1>6. ASSUME LateAck PROVE GapsInv'
    BY <1>1, <1>6 DEF LateAck, GameDataAck, clientVars
  <1>7. ASSUME UNCHANGED allVars PROVE GapsInv'
    BY <1>1, <1>7 DEF allVars, vars, clientVars
  <1>8. ASSUME ClientRuns PROVE GapsInv'
    <2>1. PICK p \in Peers :
             \/ \E k \in 1..MaxBatch : \E batch \in [1..k -> Spans(p)] : ClientRun(p, batch, FALSE)
             \/ ClientRun(p, << >>, TRUE)
      BY <1>8 DEF ClientRuns
    <2>2. CASE \E k \in 1..MaxBatch : \E batch \in [1..k -> Spans(p)] : ClientRun(p, batch, FALSE)
      <3>1. PICK k \in 1..MaxBatch : \E batch \in [1..k -> Spans(p)] : ClientRun(p, batch, FALSE)
        BY <2>2
      <3>2. PICK batch \in [1..k -> Spans(p)] : ClientRun(p, batch, FALSE)
        BY <3>1
      <3>3. k \in Nat
        BY LockstepAssumption
      <3>4. Len(batch) \in Nat /\ \A i \in 1..Len(batch) : batch[i] \in Spans(p)
        BY <3>3, BatchIsSpans
      <3> QED  BY <3>2, <3>4, ClientRunGaps
    <2>3. CASE ClientRun(p, << >>, TRUE)
      <3>1. Len(<< >>) \in Nat /\ 1..Len(<< >>) = {}
        OBVIOUS
      <3> QED  BY <2>3, <3>1, ClientRunGaps
    <2> QED  BY <2>1, <2>2, <2>3
  <1>9. ASSUME ServerSteps PROVE GapsInv'
    <2>1. LoseClients /\ connected' \subseteq connected /\ connected \subseteq Peers
      <3>1. connected' \subseteq connected
        BY <1>9 DEF ServerSteps, Timer, Pass, Remove, End, Disconnect, Leave
      <3> QED  BY <1>9, <3>1 DEF ServerSteps, LInv, IInv, TypeOK
    <2>2. resent' \in [Peers -> [Slots -> BOOLEAN]]
      BY <2>1 DEF LoseClients, Followed, GapsInv, NothingRequested
    <2>3. \A x \in connected' : recvwindow'[x] = recvwindow[x] /\ resent'[x] = resent[x]
      BY <2>1 DEF LoseClients, Followed, GapsInv, LInv, ClientInv, ClientTypes
    <2>4. ClientGapsAreAsked'
      BY <2>1, <2>3 DEF GapsInv, ClientGapsAreAsked
    <2> QED  BY <2>2, <2>4 DEF GapsInv
  <1> QED  BY <1>2, <1>3, <1>4, <1>5, <1>6, <1>7, <1>8, <1>9 DEF LockstepNext

(* A tic a client misses below one it has received or asked for was asked   *)
(* for, so NET_CL_CheckResends repeats it.                                  *)
THEOREM ClientGapsStayAsked == LockstepSpec => []ClientGapsAreAsked
  <1>1. LockstepInit => GapsInv
    BY DEF LockstepInit, NothingRequested, NothingReceived, GapsInv, ClientGapsAreAsked, Init
  <1>2. LInv /\ GapsInv /\ [LockstepNext]_allVars => GapsInv'
    BY GapsKeep
  <1>3. GapsInv => ClientGapsAreAsked
    BY DEF GapsInv
  <1> QED  BY <1>1, <1>2, <1>3, LockstepInv, PTL DEF LockstepSpec
=============================================================================
