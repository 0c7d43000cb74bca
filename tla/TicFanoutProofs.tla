-------------------------- MODULE TicFanoutProofs --------------------------
(***************************************************************************)
(* Proofs about TicFanout, for every cast of players and drones and every  *)
(* value of the other constants FanoutAssumption allows.  The lemmas go    *)
(* from arithmetic over single definitions to one step lemma per invariant *)
(* part; the theorems are at the end.                                      *)
(***************************************************************************)
EXTENDS TicFanout, TLAPS

(* Division with remainder. *)
LEMMA ModuloStep ==
    ASSUME NEW a \in Nat, NEW m \in Nat \ {0}
    PROVE  \E k \in Nat : a % m \in 0..(m-1) /\ a = m * k + (a % m)
  <1>1. a \div m \in Nat /\ a % m \in 0..(m-1) /\ a = m * (a \div m) + (a % m)
    BY SMTT(30)
  <1> QED BY <1>1

(* expand_tic changes a tic by whole turns of the wire byte only. *)
LEMMA ExpandIsCongruent ==
    ASSUME NEW ref \in Nat, NEW t \in Nat
    PROVE  \E k \in Int : Expand(ref, t % ByteValues) = t + ByteValues * k
  <1> DEFINE M == ByteValues
  <1>0. M \in Nat \ {0} /\ ExpandLow \in Nat /\ ExpandHigh \in Nat
    BY FanoutAssumption
  <1>1. PICK h \in Nat : ref % M \in 0..(M-1) /\ ref = M * h + (ref % M)
    BY <1>0, ModuloStep
  <1>2. PICK g \in Nat : t % M \in 0..(M-1) /\ t = M * g + (t % M)
    BY <1>0, ModuloStep
  <1>3. PICK a \in {0, 1}, b \in {0, 1} :
            Expand(ref, t % M) = (ref - (ref % M)) + (t % M) - M * a + M * b
    <2> DEFINE part == ref % M
               low  == t % M
               a    == IF part < ExpandLow /\ low > ExpandHigh THEN 1 ELSE 0
               b    == IF part > ExpandHigh /\ low < ExpandLow THEN 1 ELSE 0
    <2>1. part \in Int /\ low \in Int  BY <1>1, <1>2
    <2>2. a \in {0, 1} /\ b \in {0, 1}  OBVIOUS
    <2>3. Expand(ref, low) = (ref - part) + low - M * a + M * b
      <3>1. M * a = (IF part < ExpandLow /\ low > ExpandHigh THEN M ELSE 0)
        BY <1>0
      <3>2. M * b = (IF part > ExpandHigh /\ low < ExpandLow THEN M ELSE 0)
        BY <1>0
      <3> QED BY <3>1, <3>2 DEF Expand
    <2> QED BY <2>2, <2>3
  <1>4. Expand(ref, t % M) = M * h + (t - M * g) - M * a + M * b
    BY <1>0, <1>1, <1>2, <1>3
  <1>5. Expand(ref, t % M) = t + M * (h - g - a + b)
    BY <1>0, <1>4
  <1> QED BY <1>5

(* A command within reach of the window is stored under its own number or  *)
(* not at all. *)
LEMMA SlotIsTrue ==
    ASSUME NEW ref \in Nat, NEW t \in Nat, NEW o \in Nat, NEW s \in Slots,
           Expand(ref, t % ByteValues) + o = ref + s,
           ref - BackupTics <= t, t + o < ref + ByteValues
    PROVE  t + o = ref + s
  <1>1. PICK k \in Int : Expand(ref, t % ByteValues) = t + ByteValues * k
    BY ExpandIsCongruent
  <1>2. BackupTics \in Nat \ {0} /\ ByteValues = 2 * BackupTics
    BY FanoutAssumption
  <1>3. t + o + ByteValues * k = ref + s
    BY <1>1, <1>2 DEF Slots
  <1>4. s \in Nat /\ s < BackupTics  BY <1>2 DEF Slots
  <1>5. ~(k >= 1)
    <2>1. ASSUME k >= 1 PROVE ByteValues * k >= ByteValues
      BY <1>2, <2>1
    <2> QED BY <1>2, <1>3, <1>4, <2>1
  <1>6. ~(k <= -1)
    <2>1. ASSUME k <= -1 PROVE ByteValues * k <= -ByteValues
      BY <1>2, <2>1
    <2> QED BY <1>2, <1>3, <1>4, <2>1
  <1> QED BY <1>2, <1>3, <1>5, <1>6

-----------------------------------------------------------------------------
(* Type correctness.                                                        *)

(* An expanded tic is a number, below zero as well. *)
LEMMA ExpandIsInt ==
    ASSUME NEW ref \in Nat, NEW low \in Nat
    PROVE  Expand(ref, low) \in Int
  <1>1. ByteValues \in Nat \ {0}  BY FanoutAssumption
  <1>2. ref % ByteValues \in Int  BY <1>1, ModuloStep
  <1> QED BY <1>1, <1>2 DEF Expand

(* Wire bytes are numbers. *)
LEMMA ByteIsNat == Bytes \subseteq Nat /\ \A t \in Nat : t % ByteValues \in Nat
  <1>1. ByteValues \in Nat \ {0}  BY FanoutAssumption
  <1> QED BY <1>1, ModuloStep DEF Bytes

(* apply_ack only moves forward, and to nothing unsent. *)
LEMMA AcknowledgeType ==
    ASSUME TypeOK, NEW p \in Peers, NEW e \in Int, Acknowledge(p, e)
    PROVE  /\ acked' \in [Peers -> Nat]
           /\ \A q \in Peers : /\ acked'[q] >= acked[q]
                               /\ acked'[q] = acked[q] \/ acked'[q] <= sendseq[q]
  BY DEF TypeOK, Acknowledge

(* Every step is an upload, an acknowledgement, a departure that leaves the *)
(* game running, the end of the game, or a whole timer pass.                *)
UploadStep(p, first, count, ack) ==
    /\ start - BackupTics <= first
    /\ first + count <= MaxTic /\ first + count <= start + ByteValues
    /\ Upload(p, first, count, ack)

ClientsLeave ==
    /\ connected' \subseteq connected /\ asleep' \subseteq Peers /\ connected' \cap asleep' = {}
    /\ inGame' \in BOOLEAN
    /\ UNCHANGED <<window, sending, acked>>

(* The five kinds of step cover Next. *)
LEMMA StepCases ==
    ASSUME TypeOK, [Next]_vars
    PROVE  \/ \E p \in Players, first \in 0..MaxTic, count \in 0..MaxUpload, ack \in Bytes :
                 UploadStep(p, first, count, ack)
           \/ \E p \in Peers, ack \in Bytes : GameDataAck(p, ack)
           \/ ClientsLeave
           \/ End
           \/ \E expired \in SUBSET (connected \cup asleep),
                 quiet \in SUBSET (connected \cap Players) : Pass(expired, quiet)
  <1>1. CASE UploadArrives
    <2>1. PICK p \in Players, first \in 0..MaxTic, count \in 0..MaxUpload, ack \in Bytes :
              /\ start - MaxStale <= first
              /\ first + count <= MaxTic /\ first + count <= start + ByteValues
              /\ Upload(p, first, count, ack)
      BY <1>1 DEF UploadArrives
    <2>2. start - BackupTics <= first
      BY <2>1, FanoutAssumption DEF TypeOK
    <2> QED BY <2>1, <2>2 DEF UploadStep
  <1>2. CASE AckArrives
    BY <1>2 DEF AckArrives
  <1>3. CASE Departure
    <2>1. PICK p \in Peers : Disconnect(p) \/ Leave(p)  BY <1>3 DEF Departure
    <2>2. CASE Disconnect(p)
      <3>1. ClientsLeave
        BY <2>2 DEF Disconnect, ClientsLeave, TypeOK
      <3> QED BY <3>1
    <2>3. CASE Leave(p)
      <3>1. CASE EndsGame({p})  BY <2>3, <3>1 DEF Leave
      <3>2. CASE ~EndsGame({p})
        <4>1. ClientsLeave
          BY <2>3, <3>2 DEF Leave, Remove, ClientsLeave, TypeOK
        <4> QED BY <4>1
      <3> QED BY <3>1, <3>2
    <2> QED BY <2>1, <2>2, <2>3
  <1>4. CASE TimerFires
    <2>1. PICK expired \in SUBSET (connected \cup asleep),
               quiet \in SUBSET (connected \cap Players) : Timer(expired, quiet)
      BY <1>4 DEF TimerFires
    <2> QED BY <2>1 DEF Timer
  <1>5. CASE UNCHANGED vars
    <2>1. ClientsLeave
      BY <1>5 DEF vars, clients, ClientsLeave, TypeOK
    <2> QED BY <2>1
  <1> QED BY <1>1, <1>2, <1>3, <1>4, <1>5 DEF Next

(* Storing an upload keeps the type of the window. *)
LEMMA StoredType ==
    ASSUME TypeOK, NEW p \in Players, NEW at \in Int, NEW first \in Nat, NEW count \in Nat,
           first + count <= MaxTic
    PROVE  Stored(p, at, first, count) \in [Slots -> [Players -> Commands \cup {None}]]
  <1>1. MaxTic \in Nat /\ BackupTics \in Nat  BY FanoutAssumption
  <1>2. ASSUME NEW s \in Slots, s \in at..(at + count - 1)
        PROVE  first + (s - at) \in Commands
    BY <1>1, <1>2 DEF Slots, Commands
  <1> QED BY <1>2 DEF Stored, TypeOK

(* A tic that may go out is complete, and what is merged is the window's   *)
(* row of the other connected players.                                      *)
LEMMA MergedType ==
    ASSUME TypeOK, NEW p \in Peers, NEW present, Pumps(p, present)
    PROVE  /\ Merged(p, present) \in FullTics
           /\ DOMAIN Merged(p, present) = Others(p, present)
           /\ \A q \in Others(p, present) :
                 Merged(p, present)[q] = recv[sendseq[p] - start][q]
           /\ sendseq[p] - start \in Slots
  <1> DEFINE slot == sendseq[p] - start
             takers == Active(slot, Others(p, present))
  <1>1. slot \in Slots /\ AllArrived(p, slot, present)
    BY DEF Pumps
  <1>2. takers = Others(p, present) /\ takers \in SUBSET Players
    BY <1>1 DEF Active, Others, AllArrived
  <1>3. \A q \in takers : recv[slot][q] \in Commands
    BY <1>1, <1>2 DEF TypeOK, Active
  <1>4. Merged(p, present) = [q \in takers |-> recv[slot][q]]
    BY DEF Merged
  <1>5. Merged(p, present) \in [takers -> Commands]
    BY <1>3, <1>4
  <1> QED BY <1>1, <1>2, <1>4, <1>5 DEF FullTics

(* What a timer pass does to the sending side, told once. *)
LEMMA PumpFacts ==
    ASSUME TypeOK, NEW expired, PumpAll(expired)
    PROVE  /\ sendseq' \in [Peers -> Nat]
           /\ sent' \in [Peers -> Seq(FullTics)]
           /\ queue' \in [Peers -> [Slots -> [seq : Nat, tic : FullTics] \cup {None}]]
           /\ \A p \in Peers \ Pumped(expired) :
                 sendseq'[p] = sendseq[p] /\ sent'[p] = sent[p] /\ queue'[p] = queue[p]
           /\ \A p \in Pumped(expired) :
                 LET tic == Merged(p, Present(p, expired))
                 IN  /\ sendseq'[p] = sendseq[p] + 1
                     /\ Len(sent'[p]) = sendseq[p] + 1
                     /\ \A t \in 1..sendseq[p] : sent'[p][t] = sent[p][t]
                     /\ sent'[p][sendseq[p] + 1] = tic
                     /\ queue'[p] = [queue[p] EXCEPT ![sendseq[p] % BackupTics] =
                                        [seq |-> sendseq[p], tic |-> tic]]
  <1> DEFINE tic(p) == Merged(p, Present(p, expired))
  <1>1. Pumped(expired) \subseteq Peers
    BY DEF Pumped, TypeOK
  <1>2. \A p \in Pumped(expired) : tic(p) \in FullTics
    BY <1>1, MergedType DEF Pumped
  <1> HIDE DEF tic
  <1>3. sendseq' \in [Peers -> Nat]
    BY DEF PumpAll, TypeOK
  <1>4. \A p \in Peers :
          sent'[p] = IF p \in Pumped(expired) THEN Append(sent[p], tic(p)) ELSE sent[p]
    BY DEF PumpAll, tic
  <1>5. sent' \in [Peers -> Seq(FullTics)]
    <2>1. \A p \in Peers : sent'[p] \in Seq(FullTics)
      <3> SUFFICES ASSUME NEW p \in Peers PROVE sent'[p] \in Seq(FullTics)
        OBVIOUS
      <3>1. sent[p] \in Seq(FullTics)  BY DEF TypeOK
      <3>2. CASE p \in Pumped(expired)
        <4>1. tic(p) \in FullTics /\ sent'[p] = Append(sent[p], tic(p))
          BY <1>2, <1>4, <3>2
        <4> HIDE DEF tic
        <4> QED BY <3>1, <4>1
      <3> QED BY <1>4, <3>1, <3>2
    <2>2. DOMAIN sent' = Peers /\ sent' = [p \in Peers |-> sent'[p]]
      BY DEF PumpAll
    <2> QED BY <2>1, <2>2
  <1>6. \A p \in Peers : queue'[p] =
          IF p \in Pumped(expired)
          THEN [queue[p] EXCEPT ![sendseq[p] % BackupTics] =
                   [seq |-> sendseq[p], tic |-> tic(p)]]
          ELSE queue[p]
    BY DEF PumpAll, tic
  <1>7. queue' \in [Peers -> [Slots -> [seq : Nat, tic : FullTics] \cup {None}]]
    <2> DEFINE Row == [Slots -> [seq : Nat, tic : FullTics] \cup {None}]
    <2>1. \A p \in Peers : queue'[p] \in Row
      <3> SUFFICES ASSUME NEW p \in Peers PROVE queue'[p] \in Row
        OBVIOUS
      <3>1. queue[p] \in Row /\ sendseq[p] \in Nat  BY DEF TypeOK
      <3>2. CASE p \in Pumped(expired)
        <4>1. [seq |-> sendseq[p], tic |-> tic(p)] \in [seq : Nat, tic : FullTics]
          BY <1>2, <3>1, <3>2
        <4> QED BY <1>6, <3>1, <3>2, <4>1
      <3> QED BY <1>6, <3>1, <3>2
    <2>2. queue' = [p \in Peers |-> queue'[p]]
      BY DEF PumpAll
    <2> HIDE DEF Row
    <2>3. queue' \in [Peers -> Row]
      BY <2>1, <2>2
    <2> QED BY <2>3 DEF Row
  <1>8. ASSUME NEW p \in Pumped(expired)
        PROVE  /\ Len(sent'[p]) = sendseq[p] + 1
               /\ \A t \in 1..sendseq[p] : sent'[p][t] = sent[p][t]
               /\ sent'[p][sendseq[p] + 1] = tic(p)
    <2>1. sent[p] \in Seq(FullTics) /\ Len(sent[p]) = sendseq[p] /\ sendseq[p] \in Nat
      BY <1>1 DEF TypeOK
    <2>2. sent'[p] = Append(sent[p], tic(p))
      BY <1>1, <1>4
    <2> QED BY <1>2, <2>1, <2>2
  <1>9. \A p \in Pumped(expired) : sendseq'[p] = sendseq[p] + 1
    BY <1>1 DEF PumpAll
  <1>10. \A p \in Peers \ Pumped(expired) : sendseq'[p] = sendseq[p]
    BY DEF PumpAll
  <1> QED BY <1>1, <1>3, <1>4, <1>5, <1>6, <1>7, <1>8, <1>9, <1>10 DEF tic

(* The window side of a pass: it stays, or gives up its first n slots. *)
LEMMA AdvanceFacts ==
    ASSUME TypeOK, NEW n \in 0..BackupTics, NEW present \in SUBSET Peers, NEW stalled,
           Advance(n, present, stalled)
    PROVE  /\ start' = start + n
           /\ recv' \in [Slots -> [Players -> Commands \cup {None}]]
           /\ asked' \in [Slots -> [Players -> BOOLEAN]]
           /\ \A s \in Slots, p \in Players :
                 /\ s + n \in Slots => recv'[s][p] = recv[s + n][p]
                 /\ s + n \notin Slots => recv'[s][p] = None /\ ~asked'[s][p]
  <1>1. n \in Nat  BY FanoutAssumption
  <1>2. \A s \in Slots : recv'[s] = IF s + n \in Slots THEN recv[s + n] ELSE EmptyWindow[s]
    BY DEF Advance
  <1>3. \A s \in Slots : recv'[s] \in [Players -> Commands \cup {None}]
    <2> SUFFICES ASSUME NEW s \in Slots PROVE recv'[s] \in [Players -> Commands \cup {None}]
      OBVIOUS
    <2>1. CASE s + n \in Slots
      BY <1>2, <2>1 DEF TypeOK
    <2>2. CASE s + n \notin Slots
      <3>1. recv'[s] = [p \in Players |-> None]  BY <1>2, <2>2 DEF EmptyWindow
      <3> QED BY <3>1
    <2> QED BY <2>1, <2>2
  <1>4. recv' \in [Slots -> [Players -> Commands \cup {None}]]
    <2>1. recv' = [s \in Slots |-> recv'[s]]  BY DEF Advance
    <2> QED BY <1>3, <2>1
  <1>5. asked' \in [Slots -> [Players -> BOOLEAN]]
    BY DEF Advance, TypeOK, NothingAsked
  <1>6. \A s \in Slots, p \in Players : s + n \notin Slots => ~asked'[s][p]
    BY DEF Advance, NothingAsked
  <1>7. start' = start + n  BY DEF Advance
  <1> QED BY <1>2, <1>4, <1>5, <1>6, <1>7 DEF EmptyWindow

(* The new game has its type. *)
LEMMA InitType == Init => TypeOK
  <1> SUFFICES ASSUME Init PROVE TypeOK
    OBVIOUS
  <1>1. sent \in [Peers -> Seq(FullTics)] /\ \A p \in Peers : Len(sent[p]) = 0
    BY DEF Init, NothingSent
  <1> QED
    BY <1>1 DEF Init, TypeOK, EmptyWindow, NothingAsked, Zero, EmptyQueues

(* The end of the game leaves the same room for windows and queues as its   *)
(* start.                                                                   *)
LEMMA EndType == End => TypeOK'
  <1> SUFFICES ASSUME End PROVE TypeOK'
    OBVIOUS
  <1>1. sent' \in [Peers -> Seq(FullTics)] /\ \A p \in Peers : Len(sent'[p]) = 0
    BY DEF End, NothingSent
  <1> QED
    BY <1>1 DEF End, TypeOK, EmptyWindow, NothingAsked, Zero, EmptyQueues

(* What an upload does, told once: the acknowledgement, the commands        *)
(* stored, the run asked for.                                               *)
LEMMA UploadFacts ==
    ASSUME TypeOK, NEW p \in Players, NEW first \in 0..MaxTic, NEW count \in 0..MaxUpload,
           NEW ack \in Bytes, UploadStep(p, first, count, ack)
    PROVE  /\ UNCHANGED <<clients, start, sending>>
           /\ acked' \in [Peers -> Nat]
           /\ \A q \in Peers : /\ acked'[q] >= acked[q]
                               /\ acked'[q] = acked[q] \/ acked'[q] <= sendseq[q]
           /\ recv' \in [Slots -> [Players -> Commands \cup {None}]]
           /\ asked' \in [Slots -> [Players -> BOOLEAN]]
           /\ \A s \in Slots, q \in Players :
                 \/ recv'[s][q] = recv[s][q]
                 \/ recv'[s][q] = start + s
  <1> DEFINE at == Expand(start, first % ByteValues) - start
  <1>1. Acknowledge(p, Expand(start, ack)) /\ UNCHANGED <<clients, start, sending>>
    BY DEF UploadStep, Upload
  <1>2. first \in Nat /\ count \in Nat /\ start \in Nat /\ p \in Peers
        /\ ack \in Nat /\ first % ByteValues \in Nat
    <2>1. MaxTic \in Nat /\ MaxUpload \in Nat  BY FanoutAssumption
    <2>2. first \in Nat /\ count \in Nat  BY <2>1
    <2>3. start \in Nat  BY DEF TypeOK
    <2>4. p \in Peers  BY DEF Peers
    <2>5. ack \in Nat  BY ByteIsNat
    <2>6. first % ByteValues \in Nat  BY <2>2, ByteIsNat
    <2>7. QED  BY <2>2, <2>3, <2>4, <2>5, <2>6
  <1>3. Expand(start, ack) \in Int /\ Expand(start, first % ByteValues) \in Int
    BY <1>2, ExpandIsInt
  <1>4. at \in Int  BY <1>2, <1>3
  <1>5. /\ acked' \in [Peers -> Nat]
        /\ \A q \in Peers : /\ acked'[q] >= acked[q]
                            /\ acked'[q] = acked[q] \/ acked'[q] <= sendseq[q]
    BY <1>1, <1>2, <1>3, AcknowledgeType
  <1>6. CASE at + start < 0
    BY <1>1, <1>5, <1>6 DEF UploadStep, Upload, TypeOK
  <1>7. CASE ~(at + start < 0)
    <2>1. recv' = Stored(p, at, first, count)
          /\ asked' = [s \in Slots |-> IF s \in Run(p, at) THEN [asked[s] EXCEPT ![p] = TRUE]
                                       ELSE asked[s]]
      BY <1>7 DEF UploadStep, Upload
    <2>2. first + count <= MaxTic  BY DEF UploadStep
    <2>3. recv' \in [Slots -> [Players -> Commands \cup {None}]]
      BY <1>2, <1>4, <2>1, <2>2, StoredType
    <2>4. asked' \in [Slots -> [Players -> BOOLEAN]]
      BY <2>1 DEF TypeOK
    <2>5. ASSUME NEW s \in Slots, NEW q \in Players, recv'[s][q] # recv[s][q]
          PROVE  recv'[s][q] = start + s
      <3>1. s \in at..(at + count - 1) /\ q = p /\ recv'[s][q] = first + (s - at)
        BY <2>1, <2>5 DEF Stored, TypeOK
      <3>2. s \in Nat  BY FanoutAssumption DEF Slots
      <3>3. s - at \in Nat /\ s - at < count  BY <1>2, <1>4, <3>1, <3>2
      <3>4. Expand(start, first % ByteValues) + (s - at) = start + s
        BY <1>2, <1>3, <3>2
      <3>5. start - BackupTics <= first /\ first + (s - at) < start + ByteValues
        <4>1. start - BackupTics <= first /\ first + count <= start + ByteValues
          BY DEF UploadStep
        <4>2. ByteValues \in Nat  BY FanoutAssumption
        <4> HIDE DEF at
        <4> QED BY <1>2, <3>3, <4>1, <4>2
      <3> HIDE DEF at
      <3>6. first + (s - at) = start + s
        BY <1>2, <3>3, <3>4, <3>5, SlotIsTrue
      <3> QED BY <3>1, <3>6
    <2> QED BY <1>1, <1>5, <2>3, <2>4, <2>5
  <1> QED BY <1>4, <1>6, <1>7

LEMMA AckFacts ==
    ASSUME TypeOK, NEW p \in Peers, NEW ack \in Bytes, GameDataAck(p, ack)
    PROVE  /\ UNCHANGED <<clients, window, sending>>
           /\ acked' \in [Peers -> Nat]
           /\ \A q \in Peers : /\ acked'[q] >= acked[q]
                               /\ acked'[q] = acked[q] \/ acked'[q] <= sendseq[q]
  <1>1. Expand(start, ack) \in Int
    BY ByteIsNat, ExpandIsInt DEF TypeOK
  <1> QED BY <1>1, AcknowledgeType DEF GameDataAck

(* What a pass leaves of the window: it gave up its first n slots. *)
LEMMA PassFacts ==
    ASSUME TypeOK, NEW expired \in SUBSET (connected \cup asleep),
           NEW quiet \in SUBSET (connected \cap Players), Pass(expired, quiet)
    PROVE  /\ connected' = connected \ expired /\ asleep' = asleep \ expired
           /\ inGame' = TRUE /\ UNCHANGED acked
           /\ PumpAll(expired)
           /\ recv' \in [Slots -> [Players -> Commands \cup {None}]]
           /\ asked' \in [Slots -> [Players -> BOOLEAN]]
           /\ \E n \in 0..BackupTics :
                 /\ start' = start + n
                 /\ n > 0 => \A p \in connected' : start + n <= acked[p]
                 /\ \A s \in Slots, p \in Players :
                       /\ s + n \in Slots => recv'[s][p] = recv[s + n][p]
                       /\ s + n \notin Slots => recv'[s][p] = None /\ ~asked'[s][p]
  <1> DEFINE remaining == connected \ expired
  <1>1. /\ connected' = remaining /\ asleep' = asleep \ expired /\ inGame' = TRUE
        /\ PumpAll(expired) /\ UNCHANGED acked
    BY DEF Pass, Remove
  <1>2. CASE remaining \cap Players = {}
    <2>1. UNCHANGED window  BY <1>2 DEF Pass
    <2>2. 0 \in 0..BackupTics /\ \A s \in Slots : s + 0 = s
      BY FanoutAssumption DEF Slots
    <2>3. start' = start + 0  BY <2>1 DEF window, TypeOK
    <2> QED BY <1>1, <2>1, <2>2, <2>3 DEF window, TypeOK
  <1>3. CASE remaining \cap Players # {}
    <2>1. PICK n \in 0..BackupTics : Advance(n, remaining, quiet \ expired)
      BY <1>3 DEF Pass
    <2>2. remaining \in SUBSET Peers  BY DEF TypeOK
    <2>3. n > 0 => \A p \in remaining : start + n <= acked[p]
      <3> SUFFICES ASSUME n > 0, NEW p \in remaining PROVE start + n <= acked[p]
        OBVIOUS
      <3>1. n \in Nat /\ n - 1 \in 0..(n - 1)  BY FanoutAssumption
      <3>2. Passes(n - 1, remaining)  BY <2>1, <3>1 DEF Advance
      <3>3. start + (n - 1) < acked[p]  BY <3>2 DEF Passes
      <3>4. start \in Nat /\ acked[p] \in Nat  BY <2>2 DEF TypeOK
      <3> QED BY <3>1, <3>3, <3>4
    <2> HIDE DEF remaining
    <2>4. /\ start' = start + n
          /\ recv' \in [Slots -> [Players -> Commands \cup {None}]]
          /\ asked' \in [Slots -> [Players -> BOOLEAN]]
          /\ \A s \in Slots, p \in Players :
                /\ s + n \in Slots => recv'[s][p] = recv[s + n][p]
                /\ s + n \notin Slots => recv'[s][p] = None /\ ~asked'[s][p]
      BY <2>1, <2>2, AdvanceFacts
    <2> QED BY <1>1, <2>3, <2>4 DEF remaining
  <1> QED BY <1>2, <1>3

(* Every input keeps the types. *)
LEMMA TypeStep == TypeOK /\ [Next]_vars => TypeOK'
  <1> SUFFICES ASSUME TypeOK, [Next]_vars PROVE TypeOK'
    OBVIOUS
  <1>1. ASSUME NEW p \in Players, NEW first \in 0..MaxTic, NEW count \in 0..MaxUpload,
               NEW ack \in Bytes, UploadStep(p, first, count, ack)
        PROVE  TypeOK'
    BY <1>1, UploadFacts DEF TypeOK, clients, sending
  <1>2. ASSUME NEW p \in Peers, NEW ack \in Bytes, GameDataAck(p, ack)
        PROVE  TypeOK'
    BY <1>2, AckFacts DEF TypeOK, clients, sending, window
  <1>3. CASE ClientsLeave
    BY <1>3 DEF ClientsLeave, TypeOK, window, sending
  <1>4. CASE End  BY <1>4, EndType
  <1>5. ASSUME NEW expired \in SUBSET (connected \cup asleep),
               NEW quiet \in SUBSET (connected \cap Players), Pass(expired, quiet)
        PROVE  TypeOK'
    <2>1. PumpAll(expired)  BY <1>5, PassFacts
    <2>2. start' \in Nat
      <3>1. PICK n \in 0..BackupTics : start' = start + n
        BY <1>5, PassFacts
      <3> QED BY <3>1, FanoutAssumption DEF TypeOK
    <2>3. \A p \in Peers : Len(sent'[p]) = sendseq'[p]
      BY <2>1, PumpFacts DEF TypeOK
    <2>4. /\ sendseq' \in [Peers -> Nat] /\ sent' \in [Peers -> Seq(FullTics)]
          /\ queue' \in [Peers -> [Slots -> [seq : Nat, tic : FullTics] \cup {None}]]
      BY <2>1, PumpFacts
    <2>5. /\ connected' = connected \ expired /\ asleep' = asleep \ expired
          /\ inGame' = TRUE /\ UNCHANGED acked
          /\ recv' \in [Slots -> [Players -> Commands \cup {None}]]
          /\ asked' \in [Slots -> [Players -> BOOLEAN]]
      BY <1>5, PassFacts
    <2> QED BY <2>2, <2>3, <2>4, <2>5 DEF TypeOK
  <1> QED BY <1>1, <1>2, <1>3, <1>4, <1>5, StepCases

-----------------------------------------------------------------------------
(* A command keeps its tic: in the window, and in every fan-out.            *)

(* Every input keeps the window true: uploads by SlotIsTrue, a pass because *)
(* start and the slots move together.                                       *)
LEMMA AliasStep == TypeOK /\ NeverAliased /\ [Next]_vars => NeverAliased'
  <1> SUFFICES ASSUME TypeOK, NeverAliased, [Next]_vars PROVE NeverAliased'
    OBVIOUS
  <1>1. ASSUME NEW p \in Players, NEW first \in 0..MaxTic, NEW count \in 0..MaxUpload,
               NEW ack \in Bytes, UploadStep(p, first, count, ack)
        PROVE  NeverAliased'
    BY <1>1, UploadFacts DEF NeverAliased
  <1>2. ASSUME NEW p \in Peers, NEW ack \in Bytes, GameDataAck(p, ack)
        PROVE  NeverAliased'
    BY <1>2, AckFacts DEF NeverAliased, window
  <1>3. CASE ClientsLeave
    BY <1>3 DEF ClientsLeave, NeverAliased, window
  <1>4. CASE End
    BY <1>4 DEF End, NeverAliased, EmptyWindow
  <1>5. ASSUME NEW expired \in SUBSET (connected \cup asleep),
               NEW quiet \in SUBSET (connected \cap Players), Pass(expired, quiet)
        PROVE  NeverAliased'
    <2>1. PICK n \in 0..BackupTics :
              /\ start' = start + n
              /\ n > 0 => \A p \in connected' : start + n <= acked[p]
              /\ \A s \in Slots, p \in Players :
                    /\ s + n \in Slots => recv'[s][p] = recv[s + n][p]
                    /\ s + n \notin Slots => recv'[s][p] = None /\ ~asked'[s][p]
      BY <1>5, PassFacts
    <2> SUFFICES ASSUME NEW s \in Slots, NEW p \in Players
                 PROVE  recv'[s][p] \in {None, start' + s}
      BY DEF NeverAliased
    <2>2. CASE s + n \in Slots
      <3>1. recv[s + n][p] \in {None, start + (s + n)}  BY <2>2 DEF NeverAliased
      <3>2. start + (s + n) = start' + s
        BY <2>1, FanoutAssumption DEF TypeOK, Slots
      <3> QED BY <2>1, <2>2, <3>1, <3>2
    <2>3. CASE s + n \notin Slots
      BY <2>1, <2>3
    <2> QED BY <2>2, <2>3
  <1> QED BY <1>1, <1>2, <1>3, <1>4, <1>5, StepCases

(* What a pass fans out is a row of a true window. *)
LEMMA FanoutStep ==
    TypeOK /\ NeverAliased /\ FanoutIsTrue /\ [Next]_vars => FanoutIsTrue'
  <1> SUFFICES ASSUME TypeOK, NeverAliased, FanoutIsTrue, [Next]_vars PROVE FanoutIsTrue'
    OBVIOUS
  <1>1. ASSUME NEW p \in Players, NEW first \in 0..MaxTic, NEW count \in 0..MaxUpload,
               NEW ack \in Bytes, UploadStep(p, first, count, ack)
        PROVE  FanoutIsTrue'
    BY <1>1, UploadFacts DEF FanoutIsTrue, sending
  <1>2. ASSUME NEW p \in Peers, NEW ack \in Bytes, GameDataAck(p, ack)
        PROVE  FanoutIsTrue'
    BY <1>2, AckFacts DEF FanoutIsTrue, sending
  <1>3. CASE ClientsLeave
    BY <1>3 DEF ClientsLeave, FanoutIsTrue, sending
  <1>4. CASE End
    BY <1>4 DEF End, FanoutIsTrue, NothingSent
  <1>5. ASSUME NEW expired \in SUBSET (connected \cup asleep),
               NEW quiet \in SUBSET (connected \cap Players), Pass(expired, quiet)
        PROVE  FanoutIsTrue'
    <2> SUFFICES ASSUME NEW p \in Peers, NEW t \in 1..Len(sent'[p]),
                        NEW q \in DOMAIN sent'[p][t]
                 PROVE  sent'[p][t][q] = t - 1
      BY DEF FanoutIsTrue
    <2>1. PumpAll(expired)  BY <1>5, PassFacts
    <2>2. CASE p \notin Pumped(expired)
      <3>1. sent'[p] = sent[p]  BY <2>1, <2>2, PumpFacts
      <3> QED BY <3>1 DEF FanoutIsTrue
    <2>3. CASE p \in Pumped(expired)
      <3> DEFINE present == Present(p, expired)
      <3>1. /\ Len(sent'[p]) = sendseq[p] + 1 /\ sendseq[p] \in Nat
            /\ \A u \in 1..sendseq[p] : sent'[p][u] = sent[p][u]
            /\ sent'[p][sendseq[p] + 1] = Merged(p, present)
            /\ Len(sent[p]) = sendseq[p]
        BY <2>1, <2>3, PumpFacts DEF TypeOK
      <3>2. CASE t \in 1..sendseq[p]
        BY <3>1, <3>2 DEF FanoutIsTrue
      <3>3. CASE t = sendseq[p] + 1
        <4>1. Pumps(p, present)  BY <2>3 DEF Pumped
        <4>2. /\ DOMAIN Merged(p, present) = Others(p, present)
              /\ Merged(p, present)[q] = recv[sendseq[p] - start][q]
              /\ sendseq[p] - start \in Slots
          BY <3>1, <3>3, <4>1, MergedType
        <4>3. q \in Players /\ recv[sendseq[p] - start][q] # None
          BY <3>1, <3>3, <4>1, <4>2 DEF Others, Pumps, AllArrived
        <4>4. recv[sendseq[p] - start][q] = start + (sendseq[p] - start)
          BY <4>2, <4>3 DEF NeverAliased
        <4> QED BY <3>1, <3>3, <4>2, <4>4 DEF TypeOK
      <3> QED BY <3>1, <3>2, <3>3
    <2> QED BY <2>2, <2>3
  <1> QED BY <1>1, <1>2, <1>3, <1>4, <1>5, StepCases

-----------------------------------------------------------------------------
(* Flow control.                                                            *)

(* A pump needs room in the window, and what was sent to one client is held *)
(* for the others until the window gives it up.                             *)
SentIsHeld ==
    \A p \in connected :
        /\ sendseq[p] <= start + BackupTics
        /\ \A s \in Slots, q \in (connected \cap Players) \ {p} :
              start + s < sendseq[p] => recv[s][q] # None

(* The window moves only past what every remaining client acknowledged, and *)
(* the stall guard bounds each fan out.                                     *)
LEMMA AcksStep ==
    TypeOK /\ AcksHoldTheWindow /\ [Next]_vars => AcksHoldTheWindow'
  <1> SUFFICES ASSUME TypeOK, AcksHoldTheWindow, [Next]_vars PROVE AcksHoldTheWindow'
    OBVIOUS
  <1>0. connected \subseteq Peers /\ StallTics \in Nat
    BY FanoutAssumption DEF TypeOK
  <1>1. ASSUME UNCHANGED <<clients, start, sending>>, acked' \in [Peers -> Nat],
               \A q \in Peers : /\ acked'[q] >= acked[q]
                                /\ acked'[q] = acked[q] \/ acked'[q] <= sendseq[q]
        PROVE  AcksHoldTheWindow'
    <2>1. connected' = connected /\ start' = start /\ sendseq' = sendseq
      BY <1>1 DEF clients, sending
    <2> SUFFICES ASSUME NEW p \in connected
                 PROVE  /\ start <= acked'[p] /\ acked'[p] <= sendseq[p]
                        /\ \A q \in connected : sendseq[p] <= acked'[q] + StallTics + 1
      BY <2>1 DEF AcksHoldTheWindow
    <2>2. \A q \in connected : acked'[q] \in Nat /\ acked[q] \in Nat /\ sendseq[q] \in Nat
                               /\ start \in Nat
      BY <1>0, <1>1 DEF TypeOK
    <2>3. start <= acked'[p] /\ acked'[p] <= sendseq[p]
      BY <1>0, <1>1, <2>2 DEF AcksHoldTheWindow
    <2>4. ASSUME NEW q \in connected PROVE sendseq[p] <= acked'[q] + StallTics + 1
      <3>1. sendseq[p] <= acked[q] + StallTics + 1  BY DEF AcksHoldTheWindow
      <3>2. acked'[q] >= acked[q]  BY <1>0, <1>1
      <3> QED BY <1>0, <2>2, <3>1, <3>2
    <2> QED BY <2>3, <2>4
  <1>2. ASSUME NEW p \in Players, NEW first \in 0..MaxTic, NEW count \in 0..MaxUpload,
               NEW ack \in Bytes, UploadStep(p, first, count, ack)
        PROVE  AcksHoldTheWindow'
    BY <1>1, <1>2, UploadFacts
  <1>3. ASSUME NEW p \in Peers, NEW ack \in Bytes, GameDataAck(p, ack)
        PROVE  AcksHoldTheWindow'
    BY <1>1, <1>3, AckFacts DEF window
  <1>4. CASE ClientsLeave
    BY <1>4 DEF ClientsLeave, AcksHoldTheWindow, window, sending
  <1>5. CASE End
    BY <1>5 DEF End, AcksHoldTheWindow
  <1>6. ASSUME NEW expired \in SUBSET (connected \cup asleep),
               NEW quiet \in SUBSET (connected \cap Players), Pass(expired, quiet)
        PROVE  AcksHoldTheWindow'
    <2>1. PumpAll(expired) /\ connected' = connected \ expired /\ acked' = acked
      BY <1>6, PassFacts
    <2>2. PICK n \in 0..BackupTics :
              /\ start' = start + n
              /\ n > 0 => \A p \in connected' : start + n <= acked[p]
      BY <1>6, PassFacts
    <2> SUFFICES ASSUME NEW p \in connected'
                 PROVE  /\ start' <= acked[p] /\ acked[p] <= sendseq'[p]
                        /\ \A q \in connected' : sendseq'[p] <= acked[q] + StallTics + 1
      BY <2>1 DEF AcksHoldTheWindow
    <2>3. p \in connected /\ p \in Peers /\ start \in Nat /\ acked[p] \in Nat
          /\ sendseq[p] \in Nat /\ n \in Nat
      BY <1>0, <2>1, FanoutAssumption DEF TypeOK
    <2>4. start' <= acked[p]
      <3>1. CASE n = 0  BY <2>2, <2>3, <3>1 DEF AcksHoldTheWindow
      <3>2. CASE n > 0  BY <2>2, <3>2
      <3> QED BY <2>3, <3>1, <3>2
    <2>5. sendseq'[p] = sendseq[p] \/ (p \in Pumped(expired) /\ sendseq'[p] = sendseq[p] + 1)
      BY <2>1, <2>3, PumpFacts
    <2>6. acked[p] <= sendseq'[p]
      BY <2>3, <2>5 DEF AcksHoldTheWindow
    <2>7. ASSUME NEW q \in connected' PROVE sendseq'[p] <= acked[q] + StallTics + 1
      <3>1. q \in connected /\ acked[q] \in Nat  BY <1>0, <2>1 DEF TypeOK
      <3>2. CASE sendseq'[p] = sendseq[p]
        BY <2>3, <3>1, <3>2 DEF AcksHoldTheWindow
      <3>3. CASE p \in Pumped(expired) /\ sendseq'[p] = sendseq[p] + 1
        <4>1. Pumps(p, Present(p, expired)) /\ q \in Present(p, expired)
          BY <2>1, <3>1, <3>3 DEF Pumped, Present
        <4>2. sendseq[p] - acked[q] <= StallTics  BY <4>1 DEF Pumps
        <4> QED BY <1>0, <2>3, <3>1, <3>3, <4>2
      <3> QED BY <2>5, <3>2, <3>3
    <2> QED BY <2>4, <2>6, <2>7
  <1> QED BY <1>2, <1>3, <1>4, <1>5, <1>6, StepCases

(* Every input keeps SentIsHeld: a tic goes out only when its row is        *)
(* complete, and departures only remove obligations.                        *)
LEMMA HeldStep == TypeOK /\ SentIsHeld /\ [Next]_vars => SentIsHeld'
  <1> SUFFICES ASSUME TypeOK, SentIsHeld, [Next]_vars PROVE SentIsHeld'
    OBVIOUS
  <1>0. connected \subseteq Peers /\ BackupTics \in Nat /\ start \in Nat /\ Slots \subseteq Nat
    BY FanoutAssumption DEF TypeOK, Slots
  <1>1. ASSUME NEW p \in Players, NEW first \in 0..MaxTic, NEW count \in 0..MaxUpload,
               NEW ack \in Bytes, UploadStep(p, first, count, ack)
        PROVE  SentIsHeld'
    <2>1. connected' = connected /\ start' = start /\ sendseq' = sendseq
      BY <1>1, UploadFacts DEF clients, sending
    <2>2. \A s \in Slots, q \in Players :
             recv'[s][q] = recv[s][q] \/ recv'[s][q] = start + s
      BY <1>1, UploadFacts
    <2>3. \A s \in Slots : start + s # None
      BY <1>0, FanoutAssumption
    <2> QED BY <2>1, <2>2, <2>3 DEF SentIsHeld
  <1>2. ASSUME NEW p \in Peers, NEW ack \in Bytes, GameDataAck(p, ack)
        PROVE  SentIsHeld'
    BY <1>2, AckFacts DEF SentIsHeld, clients, window, sending
  <1>3. CASE ClientsLeave
    BY <1>3 DEF ClientsLeave, SentIsHeld, window, sending
  <1>4. CASE End
    BY <1>4 DEF End, SentIsHeld
  <1>5. ASSUME NEW expired \in SUBSET (connected \cup asleep),
               NEW quiet \in SUBSET (connected \cap Players), Pass(expired, quiet)
        PROVE  SentIsHeld'
    <2>1. PumpAll(expired) /\ connected' = connected \ expired
      BY <1>5, PassFacts
    <2>2. PICK n \in 0..BackupTics :
              /\ start' = start + n
              /\ n > 0 => \A p \in connected' : start + n <= acked[p]
              /\ \A s \in Slots, p \in Players :
                    /\ s + n \in Slots => recv'[s][p] = recv[s + n][p]
                    /\ s + n \notin Slots => recv'[s][p] = None /\ ~asked'[s][p]
      BY <1>5, PassFacts
    <2> SUFFICES ASSUME NEW p \in connected'
                 PROVE  /\ sendseq'[p] <= start' + BackupTics
                        /\ \A s \in Slots, q \in (connected' \cap Players) \ {p} :
                              start' + s < sendseq'[p] => recv'[s][q] # None
      BY DEF SentIsHeld
    <2>3. p \in connected /\ p \in Peers /\ sendseq[p] \in Nat /\ n \in Nat
      BY <1>0, <2>1 DEF TypeOK
    <2>4. \/ sendseq'[p] = sendseq[p]
          \/ /\ sendseq'[p] = sendseq[p] + 1
             /\ Pumps(p, Present(p, expired)) /\ sendseq[p] - start \in Slots
      <3>1. CASE p \in Pumped(expired)
        BY <2>1, <3>1, PumpFacts DEF Pumped, Pumps
      <3>2. CASE p \notin Pumped(expired)
        BY <2>1, <2>3, <3>2, PumpFacts
      <3> QED BY <3>1, <3>2
    <2>5. sendseq'[p] <= start + BackupTics
      BY <1>0, <2>3, <2>4 DEF SentIsHeld, Slots
    <2>6. ASSUME NEW s \in Slots, NEW q \in (connected' \cap Players) \ {p},
                 start' + s < sendseq'[p]
          PROVE  recv'[s][q] # None
      <3>1. start + (s + n) < sendseq'[p] /\ s \in Nat
        BY <1>0, <2>2, <2>3, <2>6
      <3>2. s + n \in Slots
        BY <1>0, <2>3, <2>4, <2>5, <3>1 DEF Slots
      <3>3. q \in (connected \cap Players) \ {p} /\ q \in Others(p, Present(p, expired))
        BY <2>1 DEF Others, Present
      <3>4. recv[s + n][q] # None
        <4>1. CASE start + (s + n) < sendseq[p]
          BY <2>3, <3>2, <3>3, <4>1 DEF SentIsHeld
        <4>2. CASE ~(start + (s + n) < sendseq[p])
          <5>1. s + n = sendseq[p] - start /\ Pumps(p, Present(p, expired))
            BY <1>0, <2>3, <2>4, <3>1, <4>2
          <5> QED BY <3>3, <5>1 DEF Pumps, AllArrived
        <4> QED BY <4>1, <4>2
      <3> QED BY <2>2, <3>2, <3>3, <3>4
    <2>7. sendseq'[p] <= start' + BackupTics
      <3>1. sendseq'[p] \in Nat /\ start' = start + n  BY <2>2, <2>3, <2>4
      <3> QED BY <1>0, <2>3, <2>5, <3>1
    <2> QED BY <2>6, <2>7
  <1> QED BY <1>1, <1>2, <1>3, <1>4, <1>5, StepCases

(* A slot acknowledged by all was sent to somebody else, so it is held. *)
LEMMA HeldNeverJams ==
    TypeOK /\ AcksHoldTheWindow /\ SentIsHeld => WindowNeverJams
  <1> SUFFICES ASSUME TypeOK, AcksHoldTheWindow, SentIsHeld,
                      NEW a \in connected, NEW b \in connected, a # b,
                      NEW s \in Slots, \A p \in connected : start + s < acked[p],
                      NEW p \in connected \cap Players
               PROVE  recv[s][p] # None
    BY DEF WindowNeverJams
  <1>1. PICK q \in connected : q # p  OBVIOUS
  <1>2. start + s < sendseq[q]
    <2>1. start + s < acked[q] /\ acked[q] <= sendseq[q]  BY DEF AcksHoldTheWindow
    <2>2. acked[q] \in Nat /\ sendseq[q] \in Nat /\ start \in Nat /\ s \in Nat
      BY FanoutAssumption DEF TypeOK, Slots
    <2> QED BY <2>1, <2>2
  <1> QED BY <1>1, <1>2 DEF SentIsHeld

-----------------------------------------------------------------------------
(* Participation. *)

(* Every input keeps NobodySkipped: a removal only shrinks who must be in.  *)
LEMMA SkippedStep == TypeOK /\ NobodySkipped /\ [Next]_vars => NobodySkipped'
  <1> SUFFICES ASSUME TypeOK, NobodySkipped, [Next]_vars PROVE NobodySkipped'
    OBVIOUS
  <1>1. ASSUME NEW p \in Players, NEW first \in 0..MaxTic, NEW count \in 0..MaxUpload,
               NEW ack \in Bytes, UploadStep(p, first, count, ack)
        PROVE  NobodySkipped'
    BY <1>1, UploadFacts DEF NobodySkipped, clients, sending
  <1>2. ASSUME NEW p \in Peers, NEW ack \in Bytes, GameDataAck(p, ack)
        PROVE  NobodySkipped'
    BY <1>2, AckFacts DEF NobodySkipped, clients, sending
  <1>3. CASE ClientsLeave
    BY <1>3 DEF ClientsLeave, NobodySkipped, sending
  <1>4. CASE End
    BY <1>4 DEF End, NobodySkipped
  <1>5. ASSUME NEW expired \in SUBSET (connected \cup asleep),
               NEW quiet \in SUBSET (connected \cap Players), Pass(expired, quiet)
        PROVE  NobodySkipped'
    <2>1. PumpAll(expired) /\ connected' = connected \ expired
      BY <1>5, PassFacts
    <2> SUFFICES ASSUME NEW p \in connected', NEW t \in 1..Len(sent'[p])
                 PROVE  /\ (connected' \cap Players) \ {p} \subseteq DOMAIN sent'[p][t]
                        /\ p \notin DOMAIN sent'[p][t]
      BY DEF NobodySkipped
    <2>2. p \in connected /\ p \in Peers  BY <2>1 DEF TypeOK
    <2>3. CASE p \notin Pumped(expired)
      <3>1. sent'[p] = sent[p]  BY <2>1, <2>2, <2>3, PumpFacts
      <3> QED BY <2>1, <2>2, <3>1 DEF NobodySkipped
    <2>4. CASE p \in Pumped(expired)
      <3> DEFINE present == Present(p, expired)
      <3>1. /\ Len(sent'[p]) = sendseq[p] + 1 /\ sendseq[p] \in Nat
            /\ \A u \in 1..sendseq[p] : sent'[p][u] = sent[p][u]
            /\ sent'[p][sendseq[p] + 1] = Merged(p, present)
            /\ Len(sent[p]) = sendseq[p]
        BY <2>1, <2>2, <2>4, PumpFacts DEF TypeOK
      <3>2. CASE t \in 1..sendseq[p]
        BY <2>1, <2>2, <3>1, <3>2 DEF NobodySkipped
      <3>3. CASE t = sendseq[p] + 1
        <4>1. DOMAIN Merged(p, present) = Others(p, present)
          BY <2>2, <2>4, MergedType DEF Pumped
        <4>2. (connected' \cap Players) \ {p} \subseteq Others(p, present)
              /\ p \notin Others(p, present)
          BY <2>1 DEF Others, Present
        <4> QED BY <3>1, <3>3, <4>1, <4>2
      <3> QED BY <3>1, <3>2, <3>3
    <2> QED BY <2>3, <2>4
  <1> QED BY <1>1, <1>2, <1>3, <1>4, <1>5, StepCases

-----------------------------------------------------------------------------
(* Gaps. *)

(* A gap of player p: below a slot that was received or asked for, nothing  *)
(* was received.  In one column the gaps stay asked for as commands are     *)
(* stored and the run behind them is requested.                             *)
LEMMA UploadGaps ==
    ASSUME TypeOK, GapsAreAsked, NEW p \in Players, NEW at \in Int, NEW first \in Nat,
           NEW count \in Nat, first + count <= MaxTic,
           recv' = Stored(p, at, first, count),
           asked' = [s \in Slots |-> IF s \in Run(p, at) THEN [asked[s] EXCEPT ![p] = TRUE]
                                     ELSE asked[s]]
    PROVE  GapsAreAsked'
  <1>0. BackupTics \in Nat /\ Slots \subseteq Nat /\ None \notin Nat
        /\ Slots = 0..(BackupTics - 1)
    BY FanoutAssumption DEF Slots
  <1> SUFFICES ASSUME NEW q \in Players, NEW s \in Slots, NEW u \in Slots, s < u,
                      recv'[u][q] # None \/ asked'[u][q], recv'[s][q] = None
               PROVE  asked'[s][q]
    BY DEF GapsAreAsked
  <1>1. \A v \in Slots : /\ asked[v][q] => asked'[v][q]
                         /\ asked'[v][q] => asked[v][q] \/ (q = p /\ v \in Run(p, at))
    BY DEF TypeOK
  <1>2. \A v \in Slots : q # p \/ v \notin at..(at + count - 1) => recv'[v][q] = recv[v][q]
    BY DEF Stored, TypeOK
  <1>3. \A v \in Slots : q = p /\ v \in at..(at + count - 1) => recv'[v][q] # None
    <2> SUFFICES ASSUME NEW v \in Slots, q = p, v \in at..(at + count - 1)
                 PROVE  recv'[v][q] # None
      OBVIOUS
    <2>1. recv'[v][q] = first + (v - at)  BY DEF Stored, TypeOK
    <2>2. first + (v - at) \in Nat  BY <1>0
    <2> QED BY <1>0, <2>1, <2>2
  <1>4. recv[s][q] = None /\ ~(q = p /\ s \in at..(at + count - 1))
    BY <1>2, <1>3
  <1>5. CASE recv[u][q] # None \/ asked[u][q]
    BY <1>1, <1>4, <1>5 DEF GapsAreAsked
  <1>6. CASE recv[u][q] = None /\ ~asked[u][q]
    <2> DEFINE end == IF at < BackupTics - 1 THEN at ELSE BackupTics - 1
    <2>1. q = p /\ (u \in at..(at + count - 1) \/ u \in Run(p, at))
      BY <1>1, <1>2, <1>6
    <2>2. end \in Int /\ s < end /\ end <= at /\ end <= BackupTics - 1
      <3>1. CASE u \in at..(at + count - 1)
        BY <1>0, <1>4, <2>1, <3>1
      <3>2. CASE u \in Run(p, at)
        BY <1>0, <3>2 DEF Run
      <3> QED BY <2>1, <3>1, <3>2
    <2>3. Run(p, at) = {v \in 0..(end - 1) :
                          \A w \in v..(end - 1) : recv'[w][p] = None /\ ~asked[w][p]}
      BY DEF Run
    <2> HIDE DEF end
    <2>4. CASE s \in Run(p, at)
      BY <2>1, <2>4 DEF TypeOK
    <2>5. CASE s \notin Run(p, at)
      <3>1. s \in 0..(end - 1)  BY <1>0, <2>2
      <3>2. PICK w \in s..(end - 1) : recv'[w][p] # None \/ asked[w][p]
        BY <2>3, <2>5, <3>1
      <3>3. w \in Slots /\ w \notin at..(at + count - 1)
        BY <1>0, <2>2, <3>1
      <3>4. recv[w][q] # None \/ asked[w][q]
        BY <1>2, <2>1, <3>2, <3>3
      <3>5. CASE w = s
        BY <1>1, <1>4, <3>4, <3>5
      <3>6. CASE s < w
        BY <1>1, <1>4, <3>3, <3>4, <3>6 DEF GapsAreAsked
      <3> QED BY <1>0, <3>1, <3>5, <3>6
    <2> QED BY <2>4, <2>5
  <1> QED BY <1>5, <1>6

(* The deadlock stamps reach up from the first missing slot, so they leave  *)
(* no gap below them.                                                       *)
LEMMA AdvanceGaps ==
    ASSUME TypeOK, GapsAreAsked, NEW n \in 0..BackupTics, NEW present \in SUBSET Peers,
           NEW stalled, Advance(n, present, stalled)
    PROVE  GapsAreAsked'
  <1>0. n \in Nat /\ BackupTics \in Nat /\ Slots = 0..(BackupTics - 1) /\ DeadlockSpan \in Nat
    BY FanoutAssumption DEF Slots
  <1> SUFFICES ASSUME NEW q \in Players, NEW s \in Slots, NEW u \in Slots, s < u,
                      recv'[u][q] # None \/ asked'[u][q], recv'[s][q] = None
               PROVE  asked'[s][q]
    BY DEF GapsAreAsked
  <1>1. u + n \in Slots
    BY AdvanceFacts
  <1>2. s + n \in Slots /\ s + n < u + n
    BY <1>0, <1>1
  <1>3. recv'[u][q] = recv[u + n][q] /\ recv[s + n][q] = None
    BY <1>1, <1>2, AdvanceFacts
  <1>4. \A v \in Slots : v + n \in Slots =>
          (asked'[v][q] <=> asked[v + n][q] \/ (q \in stalled /\ v + n \in Stamped(q)))
    BY DEF Advance, TypeOK
  <1>5. CASE recv[u + n][q] # None \/ asked[u + n][q]
    BY <1>1, <1>2, <1>3, <1>4, <1>5 DEF GapsAreAsked
  <1>6. CASE q \in stalled /\ u + n \in Stamped(q)
    <2>1. PICK low \in Missing(q) : /\ \A m \in Missing(q) : low <= m
                                    /\ u + n \in low..(low + DeadlockSpan - 1)
      BY <1>6 DEF Stamped
    <2>2. s + n \in Missing(q)  BY <1>2, <1>3 DEF Missing
    <2>3. low <= s + n /\ low \in Nat  BY <1>0, <2>1, <2>2 DEF Missing
    <2>4. s + n \in low..(low + DeadlockSpan - 1)  BY <1>0, <1>2, <2>1, <2>3
    <2>5. s + n \in Stamped(q)  BY <1>2, <2>1, <2>4 DEF Stamped
    <2> QED BY <1>2, <1>4, <1>6, <2>5
  <1> QED BY <1>1, <1>3, <1>4, <1>5, <1>6

(* Every input keeps GapsAreAsked. *)
LEMMA GapsStep == TypeOK /\ GapsAreAsked /\ [Next]_vars => GapsAreAsked'
  <1> SUFFICES ASSUME TypeOK, GapsAreAsked, [Next]_vars PROVE GapsAreAsked'
    OBVIOUS
  <1>1. ASSUME NEW p \in Players, NEW first \in 0..MaxTic, NEW count \in 0..MaxUpload,
               NEW ack \in Bytes, UploadStep(p, first, count, ack)
        PROVE  GapsAreAsked'
    <2> DEFINE at == Expand(start, first % ByteValues) - start
    <2>1. first \in Nat /\ count \in Nat /\ first + count <= MaxTic
      BY <1>1, FanoutAssumption DEF UploadStep
    <2>2. at \in Int
      <3>1. start \in Nat /\ first % ByteValues \in Nat
        BY <2>1, ByteIsNat DEF TypeOK
      <3>2. Expand(start, first % ByteValues) \in Int
        BY <3>1, ExpandIsInt
      <3> QED BY <3>1, <3>2
    <2>3. CASE at + start < 0
      BY <1>1, <2>3 DEF UploadStep, Upload, GapsAreAsked
    <2>4. CASE ~(at + start < 0)
      <3>1. recv' = Stored(p, at, first, count)
            /\ asked' = [s \in Slots |-> IF s \in Run(p, at) THEN [asked[s] EXCEPT ![p] = TRUE]
                                         ELSE asked[s]]
        BY <1>1, <2>4 DEF UploadStep, Upload
      <3> HIDE DEF at
      <3> QED BY <2>1, <2>2, <3>1, UploadGaps
    <2> QED BY <2>3, <2>4
  <1>2. ASSUME NEW p \in Peers, NEW ack \in Bytes, GameDataAck(p, ack)
        PROVE  GapsAreAsked'
    BY <1>2, AckFacts DEF GapsAreAsked, window
  <1>3. CASE ClientsLeave
    BY <1>3 DEF ClientsLeave, GapsAreAsked, window
  <1>4. CASE End
    BY <1>4 DEF End, GapsAreAsked, EmptyWindow, NothingAsked
  <1>5. ASSUME NEW expired \in SUBSET (connected \cup asleep),
               NEW quiet \in SUBSET (connected \cap Players), Pass(expired, quiet)
        PROVE  GapsAreAsked'
    <2>1. CASE UNCHANGED window
      BY <2>1 DEF GapsAreAsked, window
    <2>2. CASE \E n \in 0..BackupTics : Advance(n, connected \ expired, quiet \ expired)
      <3>1. connected \ expired \in SUBSET Peers  BY DEF TypeOK
      <3> QED BY <2>2, <3>1, AdvanceGaps
    <2> QED BY <1>5, <2>1, <2>2 DEF Pass
  <1> QED BY <1>1, <1>2, <1>3, <1>4, <1>5, StepCases
-----------------------------------------------------------------------------
(* The send queues.                                                         *)

(* Two tics less than a queue apart lie in different slots. *)
LEMMA SlotsDiffer ==
    ASSUME NEW m \in Nat \ {0}, NEW a \in Nat, NEW b \in Nat, a < b, b < a + m
    PROVE  a % m # b % m
  <1> SUFFICES ASSUME a % m = b % m PROVE FALSE
    OBVIOUS
  <1>1. PICK h \in Nat : a % m \in 0..(m-1) /\ a = m * h + (a % m)
    BY ModuloStep
  <1>2. PICK g \in Nat : b % m \in 0..(m-1) /\ b = m * g + (b % m)
    BY ModuloStep
  <1>3. b - a = m * (g - h)
    BY <1>1, <1>2
  <1>4. ~(g - h >= 1)
    <2>1. ASSUME g - h >= 1 PROVE m * (g - h) >= m
      BY <2>1
    <2> QED BY <1>3, <2>1
  <1>5. ~(g - h <= 0)
    <2>1. ASSUME g - h <= 0 PROVE m * (g - h) <= 0
      BY <2>1
    <2> QED BY <1>3, <2>1
  <1> QED BY <1>4, <1>5

(* A send queue is the tail of what was sent: its last BackupTics tics are  *)
(* all there, and a slot never holds anything but a tic sent under a number *)
(* of its own.                                                              *)
QueueIsTail ==
    \A p \in Peers :
        /\ \A t \in 0..(sendseq[p] - 1) : sendseq[p] <= t + BackupTics => Holds(p, t)
        /\ \A s \in Slots : queue[p][s] # None =>
              /\ queue[p][s].seq \in 0..(sendseq[p] - 1)
              /\ queue[p][s].seq % BackupTics = s
              /\ Holds(p, queue[p][s].seq)

(* Fanning out one tic keeps the tail: the slot it overwrites held a tic    *)
(* that has just left it.                                                   *)
LEMMA PumpKeepsTail ==
    ASSUME TypeOK, QueueIsTail, NEW expired, PumpAll(expired)
    PROVE  QueueIsTail'
  <1>0. BackupTics \in Nat \ {0} /\ Slots = 0..(BackupTics - 1)
    BY FanoutAssumption DEF Slots
  <1> SUFFICES ASSUME NEW p \in Peers
               PROVE  /\ \A t \in 0..(sendseq'[p] - 1) :
                            sendseq'[p] <= t + BackupTics => Holds(p, t)'
                      /\ \A s \in Slots : queue'[p][s] # None =>
                            /\ queue'[p][s].seq \in 0..(sendseq'[p] - 1)
                            /\ queue'[p][s].seq % BackupTics = s
                            /\ queue'[p][queue'[p][s].seq % BackupTics]
                                 = [seq |-> queue'[p][s].seq,
                                    tic |-> sent'[p][queue'[p][s].seq + 1]]
    BY DEF QueueIsTail, Holds
  <1>1. CASE p \notin Pumped(expired)
    <2>1. sendseq'[p] = sendseq[p] /\ sent'[p] = sent[p] /\ queue'[p] = queue[p]
      BY <1>1, PumpFacts
    <2> QED BY <2>1 DEF QueueIsTail, Holds
  <1>2. CASE p \in Pumped(expired)
    <2> DEFINE n   == sendseq[p]
               at  == n % BackupTics
               tic == Merged(p, Present(p, expired))
    <2>1. /\ n \in Nat /\ at \in Slots
          /\ queue[p] \in [Slots -> [seq : Nat, tic : FullTics] \cup {None}]
      <3>1. n \in Nat  BY DEF TypeOK
      <3>2. at \in Slots  BY <1>0, <3>1, ModuloStep
      <3> QED BY <3>1, <3>2 DEF TypeOK
    <2>2. /\ sendseq'[p] = n + 1
          /\ \A t \in 1..n : sent'[p][t] = sent[p][t]
          /\ sent'[p][n + 1] = tic
          /\ queue'[p] = [queue[p] EXCEPT ![at] = [seq |-> n, tic |-> tic]]
      BY <1>2, PumpFacts
    <2> HIDE DEF tic, at
    <2>3. /\ queue'[p][at] = [seq |-> n, tic |-> sent'[p][n + 1]]
          /\ \A s \in Slots : s # at => queue'[p][s] = queue[p][s]
      BY <2>1, <2>2
    <2>4. ASSUME NEW t \in 0..(n - 1), n + 1 <= t + BackupTics
          PROVE  queue'[p][t % BackupTics] = [seq |-> t, tic |-> sent'[p][t + 1]]
      <3>1. t \in Nat /\ t < n /\ n < t + BackupTics /\ n <= t + BackupTics
        BY <1>0, <2>1, <2>4
      <3>2. t % BackupTics # at
        BY <1>0, <2>1, <3>1, SlotsDiffer DEF at
      <3>3. t % BackupTics \in Slots
        BY <1>0, <3>1, ModuloStep
      <3>4. queue[p][t % BackupTics] = [seq |-> t, tic |-> sent[p][t + 1]]
        BY <3>1 DEF QueueIsTail, Holds
      <3>5. sent'[p][t + 1] = sent[p][t + 1]
        BY <2>1, <2>2, <3>1
      <3> QED BY <2>3, <3>2, <3>3, <3>4, <3>5
    <2>5. \A t \in 0..(sendseq'[p] - 1) : sendseq'[p] <= t + BackupTics => Holds(p, t)'
      <3> SUFFICES ASSUME NEW t \in 0..n, n + 1 <= t + BackupTics
                   PROVE  queue'[p][t % BackupTics] = [seq |-> t, tic |-> sent'[p][t + 1]]
        BY <2>1, <2>2 DEF Holds
      <3>1. CASE t = n  BY <2>3, <3>1 DEF at
      <3>2. CASE t # n  BY <2>1, <2>4, <3>2
      <3> QED BY <3>1, <3>2
    <2>6. ASSUME NEW s \in Slots, queue'[p][s] # None
          PROVE  /\ queue'[p][s].seq \in 0..n
                 /\ queue'[p][s].seq % BackupTics = s
                 /\ queue'[p][s] = [seq |-> queue'[p][s].seq,
                                    tic |-> sent'[p][queue'[p][s].seq + 1]]
      <3>1. CASE s = at
        <4>1. queue'[p][s].seq = n  BY <2>3, <3>1
        <4> QED BY <2>1, <2>3, <3>1, <4>1 DEF at
      <3>2. CASE s # at
        <4> DEFINE u == queue[p][s].seq
        <4>1. queue'[p][s] = queue[p][s]  BY <2>3, <3>2
        <4>2. /\ u \in 0..(n - 1) /\ u % BackupTics = s
              /\ queue[p][s] = [seq |-> u, tic |-> sent[p][u + 1]]
          BY <2>6, <4>1 DEF QueueIsTail, Holds
        <4>3. sent'[p][u + 1] = sent[p][u + 1]
          BY <2>1, <2>2, <4>2
        <4> QED BY <2>1, <4>1, <4>2, <4>3
      <3> QED BY <3>1, <3>2
    <2> QED BY <2>1, <2>2, <2>5, <2>6
  <1> QED BY <1>1, <1>2

(* Every input keeps the tail; only a timer pass touches the queues. *)
LEMMA TailStep == TypeOK /\ QueueIsTail /\ [Next]_vars => QueueIsTail'
  <1> SUFFICES ASSUME TypeOK, QueueIsTail, [Next]_vars PROVE QueueIsTail'
    OBVIOUS
  <1>1. ASSUME NEW p \in Players, NEW first \in 0..MaxTic, NEW count \in 0..MaxUpload,
               NEW ack \in Bytes, UploadStep(p, first, count, ack)
        PROVE  QueueIsTail'
    BY <1>1, UploadFacts DEF QueueIsTail, Holds, sending
  <1>2. ASSUME NEW p \in Peers, NEW ack \in Bytes, GameDataAck(p, ack)
        PROVE  QueueIsTail'
    BY <1>2, AckFacts DEF QueueIsTail, Holds, sending
  <1>3. CASE ClientsLeave
    BY <1>3 DEF ClientsLeave, QueueIsTail, Holds, sending
  <1>4. CASE End
    BY <1>4 DEF End, QueueIsTail, EmptyQueues, Zero
  <1>5. ASSUME NEW expired \in SUBSET (connected \cup asleep),
               NEW quiet \in SUBSET (connected \cap Players), Pass(expired, quiet)
        PROVE  QueueIsTail'
    BY <1>5, PassFacts, PumpKeepsTail
  <1> QED BY <1>1, <1>2, <1>3, <1>4, <1>5, StepCases

(* The stall guard keeps the unacknowledged span, and ExtraTics the span of *)
(* the newest packet, within the tail.                                      *)
LEMMA TailIsReplay == TypeOK /\ AcksHoldTheWindow /\ QueueIsTail => ReplayIsExact
  <1> SUFFICES ASSUME TypeOK, AcksHoldTheWindow, QueueIsTail, NEW p \in connected
               PROVE  /\ \A t \in 0..(sendseq[p] - 1) :
                            t >= acked[p] \/ t >= sendseq[p] - 1 - ExtraTics => Holds(p, t)
                      /\ \A s \in Slots : queue[p][s] # None =>
                            /\ queue[p][s].seq \in 0..(sendseq[p] - 1)
                            /\ Holds(p, queue[p][s].seq)
    BY DEF ReplayIsExact
  <1>1. p \in Peers /\ sendseq[p] \in Nat /\ acked[p] \in Nat  BY DEF TypeOK
  <1>2. sendseq[p] <= acked[p] + StallTics + 1  BY DEF AcksHoldTheWindow
  <1>3. /\ BackupTics \in Nat /\ StallTics \in Nat /\ ExtraTics \in Nat
        /\ StallTics < BackupTics /\ ExtraTics < BackupTics
    BY FanoutAssumption
  <1>4. ASSUME NEW t \in 0..(sendseq[p] - 1),
               t >= acked[p] \/ t >= sendseq[p] - 1 - ExtraTics
        PROVE  sendseq[p] <= t + BackupTics
    BY <1>1, <1>2, <1>3, <1>4
  <1>5. \A s \in Slots : queue[p][s] # None =>
           /\ queue[p][s].seq \in 0..(sendseq[p] - 1)
           /\ Holds(p, queue[p][s].seq)
    BY <1>1 DEF QueueIsTail
  <1> QED BY <1>1, <1>4, <1>5 DEF QueueIsTail

-----------------------------------------------------------------------------
(* The inductive invariant.  The parts lean on each other where the code's  *)
(* rules do: what was fanned out is true because the window is, and the     *)
(* window cannot jam because nothing sent is dropped before every client    *)
(* acknowledged it.                                                         *)
IInv ==
    /\ TypeOK /\ NeverAliased /\ FanoutIsTrue /\ AcksHoldTheWindow
    /\ SentIsHeld /\ NobodySkipped /\ GapsAreAsked /\ QueueIsTail

(* A game starts with an empty window, empty queues and nothing sent. *)
LEMMA InitInv == Init => IInv
  <1> SUFFICES ASSUME Init PROVE IInv
    OBVIOUS
  <1>1. TypeOK  BY InitType
  <1>2. BackupTics \in Nat /\ StallTics \in Nat /\ Slots \subseteq Nat
    BY FanoutAssumption DEF Slots
  <1>3. NeverAliased  BY DEF Init, NeverAliased, EmptyWindow
  <1>4. FanoutIsTrue /\ NobodySkipped
    <2>1. \A p \in Peers : 1..Len(sent[p]) = {}
      BY <1>1 DEF Init, TypeOK, Zero
    <2>2. connected \subseteq Peers  BY <1>1 DEF TypeOK
    <2> QED BY <2>1, <2>2 DEF FanoutIsTrue, NobodySkipped
  <1>5. AcksHoldTheWindow  BY <1>2 DEF Init, AcksHoldTheWindow, Zero
  <1>6. SentIsHeld  BY <1>2 DEF Init, SentIsHeld, Zero
  <1>7. GapsAreAsked  BY DEF Init, GapsAreAsked, EmptyWindow, NothingAsked
  <1>8. QueueIsTail  BY DEF Init, QueueIsTail, EmptyQueues, Zero
  <1> QED BY <1>1, <1>3, <1>4, <1>5, <1>6, <1>7, <1>8 DEF IInv

(* Every input keeps all parts at once. *)
LEMMA StepInv == IInv /\ [Next]_vars => IInv'
  <1> SUFFICES ASSUME IInv, [Next]_vars PROVE IInv'
    OBVIOUS
  <1>1. TypeOK'             BY TypeStep DEF IInv
  <1>2. NeverAliased'       BY AliasStep DEF IInv
  <1>3. FanoutIsTrue'       BY FanoutStep DEF IInv
  <1>4. AcksHoldTheWindow'  BY AcksStep DEF IInv
  <1>5. SentIsHeld'         BY HeldStep DEF IInv
  <1>6. NobodySkipped'      BY SkippedStep DEF IInv
  <1>7. GapsAreAsked'       BY GapsStep DEF IInv
  <1>8. QueueIsTail'        BY TailStep DEF IInv
  <1> QED BY <1>1, <1>2, <1>3, <1>4, <1>5, <1>6, <1>7, <1>8 DEF IInv

(* The inductive invariant holds in every reachable state. *)
THEOREM FanoutInv == Spec => []IInv
  <1> QED BY InitInv, StepInv, PTL DEF Spec

(* For every cast, window size and bound: the state keeps its type, and a   *)
(* client's send sequence counts the tics fanned out to it.                 *)
THEOREM FanoutTypes == Spec => []TypeOK
  <1>1. IInv => TypeOK  BY DEF IInv
  <1> QED BY <1>1, FanoutInv, PTL

(* No late, early, duplicated or reordered upload stores a command under    *)
(* another tic (expand_tic and the window checks), as long as it is at most *)
(* a window late and ends within a byte's reach (UploadArrives).            *)
THEOREM WindowNeverAliases == Spec => []NeverAliased
  <1>1. IInv => NeverAliased  BY DEF IInv
  <1> QED BY <1>1, FanoutInv, PTL

(* No client is ever sent a command under another tic (pump), for uploads   *)
(* within the bounds of UploadArrives.                                      *)
THEOREM FanoutStaysTrue == Spec => []FanoutIsTrue
  <1>1. IInv => FanoutIsTrue  BY DEF IInv
  <1> QED BY <1>1, FanoutInv, PTL

(* The window stays behind every connected client's acknowledgement, and    *)
(* nobody is sent further ahead of the slowest client than the stall guard  *)
(* allows (advance_window, pump).                                           *)
THEOREM AcksKeepHolding == Spec => []AcksHoldTheWindow
  <1>1. IInv => AcksHoldTheWindow  BY DEF IInv
  <1> QED BY <1>1, FanoutInv, PTL

(* No tic reaches a client without the commands of everyone still there.    *)
THEOREM NobodyIsSkipped == Spec => []NobodySkipped
  <1>1. IInv => NobodySkipped  BY DEF IInv
  <1> QED BY <1>1, FanoutInv, PTL

(* No gap in a player's column is left without a request (on_upload's       *)
(* backward scan, check_deadlock's stamps, advance_window's shift).         *)
THEOREM GapsStayAsked == Spec => []GapsAreAsked
  <1>1. IInv => GapsAreAsked  BY DEF IInv
  <1> QED BY <1>1, FanoutInv, PTL

(* With two clients left, a slot everyone has acknowledged is complete, so  *)
(* the two conditions of advance_window never hold each other up.           *)
THEOREM WindowStaysClear == Spec => []WindowNeverJams
  <1>1. IInv => WindowNeverJams  BY HeldNeverJams DEF IInv
  <1> QED BY <1>1, FanoutInv, PTL

(* The replay after a deadlock and after a client's request sends every     *)
(* unacknowledged tic as it was sent the first time (send_tics, pump).      *)
THEOREM ReplayStaysExact == Spec => []ReplayIsExact
  <1>1. IInv => ReplayIsExact  BY TailIsReplay DEF IInv
  <1> QED BY <1>1, FanoutInv, PTL

(* With the code's own constants expand_tic is exact: a tic within 64 of    *)
(* the window's start, ahead or behind, comes back from its low byte.       *)
THEOREM ExpandIsExact ==
    ASSUME ByteValues = 256, ExpandLow = 64, ExpandHigh = 176,
           NEW ref \in Nat, NEW d \in -64..64, ref + d \in Nat
    PROVE  Expand(ref, (ref + d) % ByteValues) = ref + d
  BY SMTT(30) DEF Expand
=============================================================================
