--------------------------- MODULE RuntimeProofs ---------------------------
(***************************************************************************)
(* What the lock, the tombstones and the two-phase drain of Runtime buy,   *)
(* for every number of sessions, listeners and addresses and every bound.  *)
(***************************************************************************)
EXTENDS Runtime, SequenceTheorems, TLAPS

Datagram(r) == [life : {r.life}, id : Nat, frame : Int]
Own(r, x)   == [life : {r.life}, id : {r.addresses[x]}, frame : Int]

Shape(r) ==
    r = [life |-> r.life, next |-> r.next, outbox |-> r.outbox, made |-> r.made,
         connections |-> r.connections, peers |-> r.peers, addresses |-> r.addresses,
         owed |-> r.owed, draining |-> r.draining, inflight |-> r.inflight]

(* Ids are handed out in order and every outbox is a queue.                 *)
Registered(r) ==
    /\ r.life \in Nat \ {0} /\ r.next \in Nat
    /\ DOMAIN r.made \subseteq Nat
    /\ \A p \in DOMAIN r.made : p < r.next /\ r.made[p] \in Int
    /\ DOMAIN r.outbox \cup DOMAIN r.connections \subseteq DOMAIN r.made
    /\ \A p \in DOMAIN r.outbox : r.outbox[p] \in Seq(Int)
    /\ \A p \in DOMAIN r.peers : r.peers[p] \in Sources

(* An address that is owed removal traffic is draining, and not mapped.     *)
Entombed(r) ==
    /\ r.owed \in [Sources -> Seq(Datagram(r))]
    /\ \A x \in Sources : r.owed[x] # << >> => x \in r.draining
    /\ r.draining \cap DOMAIN r.addresses = {}

(* What listener l holds, b, against the room: a batch has datagrams of     *)
(* this lifetime, and only its own for a mapped address; it retains the     *)
(* room; the addresses of its tombstones stay out until it is finished.     *)
HeldBatch(r, l, b) ==
    /\ \A x \in Of(l) :
        /\ b.batch[x] \in Seq(Datagram(r))
        /\ x \in DOMAIN r.addresses => b.batch[x] \in Seq(Own(r, x))
        /\ b.batch[x] # << >> => l \in r.inflight
    /\ b.phase = "send" =>
        \A x \in b.tombstones : x \notin DOMAIN r.addresses /\ r.owed[x] = << >>

Held(r, ls) == \A l \in Listeners : HeldBatch(r, l, ls[l])

RoomInv(r) == Shape(r) /\ Registered(r) /\ Agrees(r) /\ Entombed(r)

Nothing(l, b) == \A x \in Of(l) : b.batch[x] = << >>

Listening(l, b) ==
    /\ b = [phase |-> b.phase, batch |-> b.batch, tombstones |-> b.tombstones]
    /\ DOMAIN b.batch = Of(l)
    /\ b.tombstones \subseteq Of(l)
    /\ b.phase # "send" => Nothing(l, b)

ListenersAre(ls) == DOMAIN ls = Listeners /\ \A l \in Listeners : Listening(l, ls[l])

RoomState(r, ls) ==
    /\ r = NoRoom => \A l \in Listeners : Nothing(l, ls[l])
    /\ r # NoRoom => RoomInv(r) /\ Held(r, ls)

IInv == lives \in Nat /\ ListenersAre(listener) /\ RoomState(room, listener)

-----------------------------------------------------------------------------
(* Reductions.                                                              *)

LEMMA CapturedIsQueue ==
    ASSUME NEW r, Registered(r), NEW Q \in SUBSET Members(r), NEW T, NEW p \in Members(r)
    PROVE  /\ QueuedFor(r, Q, p) \in Seq(Int)
           /\ Captured(r, Q, T, p) \in Seq(Int)
           /\ MadeFor(r, Q, T, p) \in Int
  <1>1. r.outbox[p] \in Seq(Int) /\ r.made[p] \in Int
    BY DEF Registered, Members
  <1>2. QueuedFor(r, Q, p) \in Seq(Int)
    BY <1>1 DEF QueuedFor
  <1>3. Captured(r, Q, T, p) \in Seq(Int)
    <2>1. r.made[p] + (IF p \in Q THEN 2 ELSE 1) \in Int
      BY <1>1
    <2> QED  BY <1>2, <2>1 DEF Captured
  <1>4. Len(Captured(r, Q, T, p)) \in Nat /\ Len(r.outbox[p]) \in Nat
    BY <1>1, <1>3, LenProperties
  <1> QED  BY <1>1, <1>2, <1>3, <1>4 DEF MadeFor

LEMMA DatagramsAreOwn ==
    ASSUME NEW r, NEW p, NEW s \in Seq(Int)
    PROVE  Datagrams(r, s, p) \in Seq([life : {r.life}, id : {p}, frame : Int])
  <1> DEFINE D == [life : {r.life}, id : {p}, frame : Int]
  <1>1. Len(s) \in Nat /\ \A i \in 1..Len(s) : s[i] \in Int
    BY LenProperties, ElementOfSeq
  <1>2. \A i \in 1..Len(s) : [life |-> r.life, id |-> p, frame |-> s[i]] \in D
    BY <1>1
  <1>3. Datagrams(r, s, p) \in [1..Len(s) -> D]
    BY <1>2 DEF Datagrams
  <1> HIDE DEF D
  <1>4. Seq(D) = UNION {[1..n -> D] : n \in Nat}
    BY SeqDef
  <1>5. Datagrams(r, s, p) \in Seq(D)
    BY <1>1, <1>3, <1>4
  <1> QED  BY <1>5 DEF D

(* Applied, field by field. *)
Reduced(r, Q, R, T, a) ==
    LET gone == Gone(r, Q, R)
        left == LeftBehind(r, gone)
    IN  /\ Shape(a)
        /\ a.life = r.life /\ a.next = r.next /\ a.inflight = r.inflight
        /\ a.outbox = [p \in DOMAIN r.outbox \ gone |-> QueuedFor(r, Q, p)]
        /\ a.made = [p \in DOMAIN r.made |->
               IF p \in Members(r) THEN MadeFor(r, Q, T, p) ELSE r.made[p]]
        /\ a.connections = [p \in DOMAIN r.connections |->
               IF p \in gone THEN WithPending(r.connections[p], Captured(r, Q, T, p))
               ELSE r.connections[p]]
        /\ a.peers = Without(r.peers, gone)
        /\ a.addresses = Without(r.addresses, left)
        /\ a.owed = [x \in Sources |->
             IF x \in left
             THEN r.owed[x] \o Datagrams(r, Captured(r, Q, T, r.addresses[x]), r.addresses[x])
             ELSE r.owed[x]]
        /\ a.draining = r.draining
               \cup {x \in left : Captured(r, Q, T, r.addresses[x]) # << >>}

LEMMA AppliedFields ==
    ASSUME NEW r, Shape(r), NEW Q, NEW R, NEW T
    PROVE  Reduced(r, Q, R, T, Applied(r, Q, R, T))
  <1> DEFINE a == Applied(r, Q, R, T)
             gone == Gone(r, Q, R)
             left == LeftBehind(r, gone)
             Owed(p) == Captured(r, Q, T, p)
             outbox == [p \in DOMAIN r.outbox \ gone |-> QueuedFor(r, Q, p)]
             made == [p \in DOMAIN r.made |->
                 IF p \in Members(r) THEN MadeFor(r, Q, T, p) ELSE r.made[p]]
             connections == [p \in DOMAIN r.connections |->
                 IF p \in gone THEN WithPending(r.connections[p], Owed(p))
                 ELSE r.connections[p]]
             owed == [x \in Sources |->
                 IF x \in left THEN r.owed[x] \o Datagrams(r, Owed(r.addresses[x]), r.addresses[x])
                 ELSE r.owed[x]]
             draining == r.draining \cup {x \in left : Owed(r.addresses[x]) # << >>}
  <1>1. a = [r EXCEPT !.outbox = outbox, !.made = made, !.connections = connections,
                      !.peers = Without(r.peers, gone), !.addresses = Without(r.addresses, left),
                      !.owed = owed, !.draining = draining]
    BY DEF Applied, StayMapped
  <1> HIDE DEF a, gone, left, outbox, made, connections, owed, draining
  <1>3. a = [life |-> r.life, next |-> r.next, outbox |-> outbox, made |-> made,
             connections |-> connections, peers |-> Without(r.peers, gone),
             addresses |-> Without(r.addresses, left), owed |-> owed,
             draining |-> draining, inflight |-> r.inflight]
    BY <1>1 DEF Shape
  <1>4. /\ Shape(a)
        /\ a.life = r.life /\ a.next = r.next /\ a.inflight = r.inflight
        /\ a.outbox = outbox /\ a.made = made /\ a.connections = connections
        /\ a.peers = Without(r.peers, gone) /\ a.addresses = Without(r.addresses, left)
        /\ a.owed = owed /\ a.draining = draining
    BY <1>3 DEF Shape
  <1> QED  BY <1>4 DEF Reduced, a, gone, left, outbox, made, connections, owed, draining

LEMMA AppliedIsRoom ==
    ASSUME NEW r, RoomInv(r), NEW Q \in SUBSET Members(r), NEW R \in SUBSET Members(r), NEW T
    PROVE  RoomInv(Applied(r, Q, R, T))
  <1> DEFINE a == Applied(r, Q, R, T)
             gone == Gone(r, Q, R)
             left == LeftBehind(r, gone)
  <1>a. Reduced(r, Q, R, T, a)
    BY AppliedFields DEF RoomInv
  <1> HIDE DEF a
  <1>0. /\ Shape(a)
        /\ a.life = r.life /\ a.next = r.next /\ a.inflight = r.inflight
        /\ a.outbox = [p \in DOMAIN r.outbox \ gone |-> QueuedFor(r, Q, p)]
        /\ a.made = [p \in DOMAIN r.made |->
               IF p \in Members(r) THEN MadeFor(r, Q, T, p) ELSE r.made[p]]
        /\ DOMAIN a.connections = DOMAIN r.connections
        /\ a.peers = Without(r.peers, gone)
        /\ a.addresses = Without(r.addresses, left)
        /\ a.owed = [x \in Sources |->
             IF x \in left
             THEN r.owed[x] \o Datagrams(r, Captured(r, Q, T, r.addresses[x]), r.addresses[x])
             ELSE r.owed[x]]
        /\ a.draining = r.draining
               \cup {x \in left : Captured(r, Q, T, r.addresses[x]) # << >>}
    BY <1>a DEF Reduced
  <1>1. gone \subseteq Members(r)
    BY DEF Gone, Slow
  <1>2. left \subseteq DOMAIN r.addresses /\ \A x \in left : r.addresses[x] \in Members(r)
    BY DEF RoomInv, Agrees, LeftBehind
  <1> HIDE DEF gone
  <1>3. Registered(a)
    <2>0. Registered(r)
      BY DEF RoomInv
    <2>a. \A p \in Members(r) : QueuedFor(r, Q, p) \in Seq(Int) /\ MadeFor(r, Q, T, p) \in Int
      BY <2>0, CapturedIsQueue
    <2>b. \A p \in DOMAIN r.made : r.made[p] \in Int
      BY <2>0 DEF Registered
    <2>1. ASSUME NEW p \in DOMAIN a.made PROVE a.made[p] \in Int
      <3>1. p \in DOMAIN r.made
            /\ a.made[p] = IF p \in Members(r) THEN MadeFor(r, Q, T, p) ELSE r.made[p]
        BY <1>0
      <3> QED  BY <2>a, <2>b, <3>1
    <2>2. ASSUME NEW p \in DOMAIN a.outbox PROVE a.outbox[p] \in Seq(Int)
      <3>1. p \in Members(r) /\ a.outbox[p] = QueuedFor(r, Q, p)
        BY <1>0 DEF Members
      <3> QED  BY <2>a, <3>1
    <2>3. \A p \in DOMAIN a.peers : a.peers[p] \in Sources
      BY <1>0 DEF RoomInv, Registered, Without
    <2>4. DOMAIN a.outbox \cup DOMAIN a.connections \subseteq DOMAIN a.made
      BY <1>0 DEF RoomInv, Registered
    <2> QED  BY <1>0, <2>1, <2>2, <2>3, <2>4 DEF RoomInv, Registered
  <1>4. Agrees(a)
    <2>1. Members(a) = Members(r) \ gone /\ DOMAIN a.peers = DOMAIN r.peers \ gone
      BY <1>0 DEF Members, Without
    <2>2. \A p \in DOMAIN a.peers : a.peers[p] = r.peers[p] /\ r.addresses[r.peers[p]] = p
      BY <1>0, <2>1 DEF Without, RoomInv, Agrees
    <2>3. DOMAIN a.addresses = {a.peers[p] : p \in DOMAIN a.peers}
      <3>1. DOMAIN a.addresses = DOMAIN r.addresses \ left
        BY <1>0 DEF Without
      <3>2. \A p \in DOMAIN r.peers : r.peers[p] \in left <=> p \in gone
        BY DEF LeftBehind, RoomInv, Agrees
      <3> QED  BY <2>1, <2>2, <3>1, <3>2 DEF RoomInv, Agrees
    <2>4. \A p \in DOMAIN a.peers : a.addresses[a.peers[p]] = p
      <3>1. \A x \in DOMAIN a.addresses : a.addresses[x] = r.addresses[x]
        BY <1>0 DEF Without
      <3> QED  BY <2>2, <2>3, <3>1
    <2> QED  BY <1>0, <2>1, <2>3, <2>4 DEF RoomInv, Agrees
  <1>5. Entombed(a)
    <2>1. Datagram(a) = Datagram(r)
      BY <1>0 DEF Datagram
    <2>0. left \subseteq Sources
      BY DEF LeftBehind, RoomInv, Registered
    <2>2. ASSUME NEW x \in left
          PROVE  /\ r.owed[x] = << >>
                 /\ Datagrams(r, Captured(r, Q, T, r.addresses[x]), r.addresses[x])
                        \in Seq(Datagram(r))
                 /\ Captured(r, Q, T, r.addresses[x]) = << >> =>
                    Datagrams(r, Captured(r, Q, T, r.addresses[x]), r.addresses[x]) = << >>
      <3> DEFINE p == r.addresses[x]
                 own == [life : {r.life}, id : {p}, frame : Int]
      <3>1. p \in Members(r) /\ p \in Nat
        BY <1>2 DEF RoomInv, Registered, Members
      <3>2. Captured(r, Q, T, p) \in Seq(Int)
        BY <3>1, CapturedIsQueue DEF RoomInv
      <3>3. Datagrams(r, Captured(r, Q, T, p), p) \in Seq(own)
        BY <3>2, DatagramsAreOwn
      <3>4. own \subseteq Datagram(r)
        BY <3>1 DEF Datagram
      <3> HIDE DEF own, p
      <3>5. Datagrams(r, Captured(r, Q, T, p), p) \in Seq(Datagram(r))
        BY <3>3, <3>4
      <3>6. Captured(r, Q, T, p) = << >> => Datagrams(r, Captured(r, Q, T, p), p) = << >>
        BY DEF Datagrams
      <3>7. r.owed[x] = << >>
        BY <1>2, <2>0 DEF RoomInv, Entombed
      <3> QED  BY <3>5, <3>6, <3>7 DEF p
    <2>3. a.owed \in [Sources -> Seq(Datagram(r))]
      BY <1>0, <2>2 DEF RoomInv, Entombed
    <2>4. \A x \in Sources : a.owed[x] # << >> => x \in a.draining
      BY <1>0, <2>2 DEF RoomInv, Entombed
    <2>5. a.draining \cap DOMAIN a.addresses = {}
      BY <1>0, <1>2 DEF RoomInv, Entombed, Without
    <2> QED  BY <2>1, <2>3, <2>4, <2>5 DEF Entombed
  <1> QED  BY <1>0, <1>3, <1>4, <1>5 DEF RoomInv, a

LEMMA AppliedKeepsHeld ==
    ASSUME NEW r, RoomInv(r), NEW Q \in SUBSET Members(r), NEW R \in SUBSET Members(r), NEW T,
           NEW ls, ListenersAre(ls), Held(r, ls)
    PROVE  Held(Applied(r, Q, R, T), ls)
  <1> DEFINE a == Applied(r, Q, R, T)
             left == LeftBehind(r, Gone(r, Q, R))
  <1>a. Reduced(r, Q, R, T, a)
    BY AppliedFields DEF RoomInv
  <1> HIDE DEF a
  <1>1. /\ a.life = r.life /\ a.inflight = r.inflight
        /\ a.addresses = Without(r.addresses, left)
        /\ \A x \in Sources : x \notin left => a.owed[x] = r.owed[x]
    BY <1>a DEF Reduced
  <1>2. left \subseteq DOMAIN r.addresses
    BY DEF RoomInv, Agrees, LeftBehind
  <1>3. ASSUME NEW x \in DOMAIN a.addresses
        PROVE  x \in DOMAIN r.addresses /\ Own(a, x) = Own(r, x)
    BY <1>1 DEF Without, Own
  <1>4. Datagram(a) = Datagram(r)
    BY <1>1 DEF Datagram
  <1> SUFFICES ASSUME NEW l \in Listeners  PROVE HeldBatch(a, l, ls[l])
    BY DEF Held, a
  <1>5. HeldBatch(r, l, ls[l])
    BY DEF Held
  <1>6. \A x \in ls[l].tombstones : x \in Sources
    BY DEF ListenersAre, Listening, Of
  <1> QED  BY <1>1, <1>2, <1>3, <1>4, <1>5, <1>6 DEF HeldBatch, Without

LEMMA OutcomeIsRoom ==
    ASSUME NEW r, RoomInv(r), NEW ls, ListenersAre(ls), Held(r, ls),
           NEW gone \in SUBSET Members(r), NEW o \in Outcomes(r, gone)
    PROVE  RoomInv(o.room) /\ Held(o.room, ls) /\ Members(o.room) \cap gone = {}
  <1>1. PICK Q \in SUBSET Writable(r), fate \in Fates(r, gone) : o = Outcome(r, Q, fate)
    BY DEF Outcomes
  <1> DEFINE R == {p \in Members(r) : fate[p] # "stays"}
             T == {p \in Members(r) : fate[p] = "dismissed"}
  <1>2. o.room = Applied(r, Q, R, T)
    BY <1>1 DEF Outcome
  <1>3. Q \in SUBSET Members(r) /\ R \in SUBSET Members(r) /\ gone \subseteq R
    BY <1>1 DEF Writable, Slow, Fates
  <1> HIDE DEF R, T
  <1>4. RoomInv(Applied(r, Q, R, T)) /\ Held(Applied(r, Q, R, T), ls)
    BY <1>3, AppliedIsRoom, AppliedKeepsHeld
  <1>5. Reduced(r, Q, R, T, Applied(r, Q, R, T))
    BY AppliedFields DEF RoomInv
  <1>6. Members(Applied(r, Q, R, T)) = Members(r) \ Gone(r, Q, R)
    BY <1>5 DEF Reduced, Members
  <1> QED  BY <1>2, <1>3, <1>4, <1>6 DEF Gone

LEMMA EmptyingIsRoom ==
    ASSUME NEW r, RoomInv(r), NEW ls, Held(r, ls)
    PROVE  RoomState(Kept(r), ls)
  <1>1. r # NoRoom
    BY DEF RoomInv, Registered, NoRoom
  <1>2. r.inflight = {} => \A l \in Listeners : Nothing(l, ls[l])
    BY DEF Held, HeldBatch, Nothing
  <1> QED  BY <1>1, <1>2 DEF Kept, IsEmpty, RoomState

-----------------------------------------------------------------------------
(* Joining.                                                                 *)

LEMMA FoundIsRoom ==
    ASSUME IInv
    PROVE  RoomInv(Found) /\ Held(Found, listener)
  <1>1. CASE room # NoRoom
    BY <1>1 DEF IInv, RoomState, Found
  <1>2. CASE room = NoRoom
    <2> DEFINE r == BindRoom
    <2>1. Shape(r) /\ Agrees(r)
      BY DEF BindRoom, Shape, Agrees, Members
    <2>2. Registered(r)
      BY DEF BindRoom, Registered, IInv
    <2>3. Entombed(r)
      <3>1. << >> \in Seq(Datagram(r))
        OBVIOUS
      <3> QED  BY <3>1 DEF BindRoom, Entombed
    <2>4. Held(r, listener)
      <3> SUFFICES ASSUME NEW l \in Listeners  PROVE HeldBatch(r, l, listener[l])
        BY DEF Held
      <3>1. \A x \in Of(l) : listener[l].batch[x] = << >>
        BY <1>2 DEF IInv, RoomState, Nothing
      <3>2. r.addresses = << >> /\ \A x \in Sources : r.owed[x] = << >>
        BY DEF BindRoom
      <3>3. \A x \in listener[l].tombstones : x \in Sources
        BY DEF IInv, ListenersAre, Listening, Of
      <3>4. << >> \in Seq(Datagram(r)) /\ DOMAIN << >> = {}
        OBVIOUS
      <3> HIDE DEF r
      <3> QED  BY <3>1, <3>2, <3>3, <3>4 DEF HeldBatch
    <2> QED  BY <1>2, <2>1, <2>2, <2>3, <2>4 DEF RoomInv, Found
  <1> QED  BY <1>1, <1>2

Behind(r, c) == [WithMember(r) EXCEPT !.connections = Put(@, r.next, c)]
At(r, x) == [WithMember(r) EXCEPT !.peers = Put(@, r.next, x),
                                  !.addresses = Put(@, x, r.next)]

LEMMA MemberIsNew ==
    ASSUME NEW r, RoomInv(r)
    PROVE  /\ r.next \in Nat /\ r.next \notin DOMAIN r.made
           /\ r.next \notin Members(r) /\ r.next \notin DOMAIN r.connections
           /\ r.next \notin DOMAIN r.peers
  BY DEF RoomInv, Registered, Agrees, Members

LEMMA WithMemberIsRegistered ==
    ASSUME NEW r, RoomInv(r), NEW e, e.life = r.life, e.next = r.next + 1,
           e.outbox = Put(r.outbox, r.next, << >>), e.made = Put(r.made, r.next, 0),
           DOMAIN e.connections \subseteq DOMAIN r.connections \cup {r.next},
           \A p \in DOMAIN e.peers : e.peers[p] \in Sources
    PROVE  Registered(e)
  <1>1. << >> \in Seq(Int)
    OBVIOUS
  <1> QED  BY <1>1, MemberIsNew DEF RoomInv, Registered, Put

LEMMA WithMemberFields ==
    ASSUME NEW r, Shape(r)
    PROVE  WithMember(r) = [life |-> r.life, next |-> r.next + 1,
               outbox |-> Put(r.outbox, r.next, << >>), made |-> Put(r.made, r.next, 0),
               connections |-> r.connections, peers |-> r.peers, addresses |-> r.addresses,
               owed |-> r.owed, draining |-> r.draining, inflight |-> r.inflight]
  <1> DEFINE next == r.next + 1
             outbox == Put(r.outbox, r.next, << >>)
             made == Put(r.made, r.next, 0)
  <1>1. WithMember(r) = [r EXCEPT !.next = next, !.outbox = outbox, !.made = made]
    BY DEF WithMember
  <1> HIDE DEF next, outbox, made
  <1>2. WithMember(r) = [life |-> r.life, next |-> next, outbox |-> outbox, made |-> made,
               connections |-> r.connections, peers |-> r.peers, addresses |-> r.addresses,
               owed |-> r.owed, draining |-> r.draining, inflight |-> r.inflight]
    BY <1>1 DEF Shape
  <1> QED  BY <1>2 DEF next, outbox, made

LEMMA BehindIsRoom ==
    ASSUME NEW r, RoomInv(r), NEW ls, Held(r, ls), NEW c
    PROVE  RoomInv(Behind(r, c)) /\ Held(Behind(r, c), ls)
  <1> DEFINE e == Behind(r, c)
  <1>1. e = [life |-> r.life, next |-> r.next + 1, outbox |-> Put(r.outbox, r.next, << >>),
             made |-> Put(r.made, r.next, 0), connections |-> Put(r.connections, r.next, c),
             peers |-> r.peers, addresses |-> r.addresses, owed |-> r.owed,
             draining |-> r.draining, inflight |-> r.inflight]
    BY WithMemberFields DEF Behind, RoomInv
  <1> HIDE DEF e
  <1>2. Shape(e)
    BY <1>1 DEF Shape
  <1>3. Registered(e)
    <2>1. DOMAIN e.connections \subseteq DOMAIN r.connections \cup {r.next}
      BY <1>1 DEF Put
    <2> QED  BY <1>1, <2>1, WithMemberIsRegistered DEF RoomInv, Registered
  <1>4. Agrees(e)
    BY <1>1, MemberIsNew DEF RoomInv, Agrees, Members, Put
  <1>5. Entombed(e)
    BY <1>1 DEF RoomInv, Entombed, Datagram
  <1>6. Held(e, ls)
    BY <1>1 DEF Held, HeldBatch, Datagram, Own
  <1> QED  BY <1>2, <1>3, <1>4, <1>5, <1>6 DEF RoomInv, e

LEMMA AtIsRoom ==
    ASSUME NEW r, RoomInv(r), NEW ls, ListenersAre(ls), Held(r, ls),
           NEW l \in Listeners, NEW x \in Of(l), ls[l].phase = "receive",
           x \notin DOMAIN r.addresses, x \notin r.draining
    PROVE  RoomInv(At(r, x)) /\ Held(At(r, x), ls)
  <1> DEFINE e == At(r, x)
  <1>1. e = [life |-> r.life, next |-> r.next + 1, outbox |-> Put(r.outbox, r.next, << >>),
             made |-> Put(r.made, r.next, 0), connections |-> r.connections,
             peers |-> Put(r.peers, r.next, x), addresses |-> Put(r.addresses, x, r.next),
             owed |-> r.owed, draining |-> r.draining, inflight |-> r.inflight]
    <2> DEFINE w == WithMember(r)
               peers == Put(r.peers, r.next, x)
               addresses == Put(r.addresses, x, r.next)
    <2>1. w = [life |-> r.life, next |-> r.next + 1,
               outbox |-> Put(r.outbox, r.next, << >>), made |-> Put(r.made, r.next, 0),
               connections |-> r.connections, peers |-> r.peers, addresses |-> r.addresses,
               owed |-> r.owed, draining |-> r.draining, inflight |-> r.inflight]
      BY WithMemberFields DEF RoomInv
    <2>2. e = [w EXCEPT !.peers = Put(w.peers, r.next, x),
                        !.addresses = Put(w.addresses, x, r.next)]
      BY DEF At, e
    <2>3. e = [w EXCEPT !.peers = peers, !.addresses = addresses]
      BY <2>1, <2>2
    <2> HIDE DEF peers, addresses, e
    <2> HIDE DEF w
    <2>4. e = [life |-> r.life, next |-> r.next + 1,
               outbox |-> Put(r.outbox, r.next, << >>), made |-> Put(r.made, r.next, 0),
               connections |-> r.connections, peers |-> peers, addresses |-> addresses,
               owed |-> r.owed, draining |-> r.draining, inflight |-> r.inflight]
      BY <2>1, <2>3
    <2> QED  BY <2>4 DEF peers, addresses
  <1> HIDE DEF e
  <1>2. Shape(e)
    BY <1>1 DEF Shape
  <1>3. Registered(e)
    <2>1. \A p \in DOMAIN e.peers : e.peers[p] \in Sources
      BY <1>1 DEF Put, RoomInv, Registered, Of
    <2> QED  BY <1>1, <2>1, WithMemberIsRegistered
  <1>4. Agrees(e)
    <2>1. Members(e) \subseteq DOMAIN e.connections \cup DOMAIN e.peers
      BY <1>1 DEF RoomInv, Agrees, Members, Put
    <2>2. DOMAIN e.peers \subseteq Members(e) /\ DOMAIN e.peers \cap DOMAIN e.connections = {}
      BY <1>1, MemberIsNew DEF RoomInv, Agrees, Members, Put
    <2>3. DOMAIN e.addresses = {e.peers[p] : p \in DOMAIN e.peers}
      <3>1. DOMAIN e.addresses = {x} \cup DOMAIN r.addresses
        BY <1>1 DEF Put
      <3>2. \A p \in DOMAIN r.peers : p \in DOMAIN e.peers /\ e.peers[p] = r.peers[p]
        BY <1>1, MemberIsNew DEF Put
      <3>3. DOMAIN e.peers = {r.next} \cup DOMAIN r.peers /\ e.peers[r.next] = x
        BY <1>1 DEF Put
      <3> QED  BY <3>1, <3>2, <3>3 DEF RoomInv, Agrees
    <2>4. \A p \in DOMAIN e.peers : e.addresses[e.peers[p]] = p
      BY <1>1, MemberIsNew DEF RoomInv, Agrees, Put
    <2> QED  BY <2>1, <2>2, <2>3, <2>4 DEF Agrees
  <1>5. Entombed(e)
    BY <1>1 DEF RoomInv, Entombed, Datagram, Put
  <1>6. Held(e, ls)
    <2> SUFFICES ASSUME NEW k \in Listeners  PROVE HeldBatch(e, k, ls[k])
      BY DEF Held
    <2>1. HeldBatch(r, k, ls[k]) /\ Listening(k, ls[k])
      BY DEF Held, ListenersAre
    <2>2. Datagram(e) = Datagram(r) /\ DOMAIN e.addresses = {x} \cup DOMAIN r.addresses
      BY <1>1 DEF Datagram, Put
    <2>3. \A y \in DOMAIN r.addresses : Own(e, y) = Own(r, y)
      BY <1>1 DEF Own, Put
    <2>4. x \in Of(k) => k = l
      BY DEF Of, Sources
    <2>5. ls[l].batch[x] = << >>
      BY DEF ListenersAre, Listening, Nothing
    <2>6. << >> \in Seq(Own(e, x))
      OBVIOUS
    <2>7. e.inflight = r.inflight /\ e.owed = r.owed
      BY <1>1
    <2> QED  BY <2>1, <2>2, <2>3, <2>4, <2>5, <2>6, <2>7 DEF HeldBatch, Listening
  <1> QED  BY <1>2, <1>3, <1>4, <1>5, <1>6 DEF RoomInv, e

-----------------------------------------------------------------------------
(* The steps.                                                               *)

LEMMA RoomChanges ==
    ASSUME IInv, lives' \in Nat, UNCHANGED listener,
           RoomInv(room'), Held(room', listener)
    PROVE  IInv'
  <1>1. room' # NoRoom
    BY DEF RoomInv, Registered, NoRoom
  <1> QED  BY <1>1 DEF IInv, RoomState

(* Frames that leave an outbox or a connection, and connections that end.   *)
LEMMA LighterIsRoom ==
    ASSUME NEW r, RoomInv(r), NEW ls, Held(r, ls), NEW e, Shape(e),
           e.life = r.life, e.next = r.next, e.made = r.made, e.peers = r.peers,
           e.addresses = r.addresses, e.owed = r.owed, e.draining = r.draining,
           e.inflight = r.inflight,
           DOMAIN e.outbox = DOMAIN r.outbox, \A p \in DOMAIN e.outbox : e.outbox[p] \in Seq(Int),
           DOMAIN e.connections \subseteq DOMAIN r.connections,
           Members(r) \subseteq DOMAIN e.connections \cup DOMAIN e.peers
    PROVE  RoomInv(e) /\ Held(e, ls)
  <1>1. Registered(e)
    BY DEF RoomInv, Registered
  <1>2. Agrees(e)
    BY DEF RoomInv, Agrees, Members
  <1>3. Entombed(e)
    BY DEF RoomInv, Entombed, Datagram
  <1>4. Held(e, ls)
    BY DEF Held, HeldBatch, Datagram, Own
  <1> QED  BY <1>1, <1>2, <1>3, <1>4 DEF RoomInv

LEMMA PhaseKeepsListeners ==
    ASSUME IInv, NEW l \in Listeners, NEW phase, Phase(l, phase), listener[l].phase # "send"
    PROVE  /\ ListenersAre(listener')
           /\ \A k \in Listeners : Nothing(k, listener'[k]) <=> Nothing(k, listener[k])
           /\ phase # "send" => \A r : Held(r, listener) => Held(r, listener')
  <1>1. Listening(l, listener[l]) /\ DOMAIN listener = Listeners
    BY DEF IInv, ListenersAre
  <1>2. listener'[l] = [phase |-> phase, batch |-> listener[l].batch,
                        tombstones |-> listener[l].tombstones]
    BY <1>1 DEF Phase, Listening
  <1>3. \A k \in Listeners \ {l} : listener'[k] = listener[k]
    BY <1>1 DEF Phase
  <1>4. DOMAIN listener' = Listeners
    BY <1>1 DEF Phase
  <1>5. \A k \in Listeners : Nothing(k, listener'[k]) <=> Nothing(k, listener[k])
    BY <1>2, <1>3 DEF Nothing
  <1>6. Listening(l, listener'[l])
    BY <1>1, <1>2 DEF Listening, Nothing
  <1>7. ListenersAre(listener')
    BY <1>3, <1>4, <1>6 DEF IInv, ListenersAre
  <1>8. ASSUME phase # "send", NEW r, Held(r, listener)
        PROVE  Held(r, listener')
    BY <1>2, <1>3, <1>8 DEF Held, HeldBatch
  <1> QED  BY <1>5, <1>7, <1>8

LEMMA JoinStep ==
    ASSUME IInv, NEW s \in Sessions, Join(s)
    PROVE  IInv'
  <1>1. CASE UNCHANGED <<room, lives>>
    BY <1>1 DEF IInv, Join
  <1>2. CASE ~(room # NoRoom /\ IsDraining(room))
    <2> DEFINE p == Found.next
               c == [session |-> s, pending |-> << >>]
    <2>1. PICK o \in Outcomes(Behind(Found, c), {}) : room' = o.room
      BY <1>2 DEF Join, Behind
    <2>2. RoomInv(Behind(Found, c)) /\ Held(Behind(Found, c), listener)
      BY FoundIsRoom, BehindIsRoom
    <2>3. RoomInv(o.room) /\ Held(o.room, listener)
      BY <2>2, OutcomeIsRoom DEF IInv
    <2>4. lives' \in Nat /\ UNCHANGED listener
      BY <1>2 DEF Join, CountLife, IInv
    <2> QED  BY <2>1, <2>3, <2>4, RoomChanges
  <1> QED  BY <1>1, <1>2 DEF Join

LEMMA EnvelopeStep ==
    ASSUME IInv, NEW s \in Sessions, Envelope(s)
    PROVE  IInv'
  <1>1. RoomInv(room) /\ Held(room, listener) /\ ListenersAre(listener)
    BY DEF Envelope, Connected, IInv, RoomState
  <1>2. PICK o \in Outcomes(room, {}) : room' = o.room
    BY DEF Envelope
  <1>3. RoomInv(o.room) /\ Held(o.room, listener)
    BY <1>1, OutcomeIsRoom
  <1> QED  BY <1>2, <1>3, RoomChanges DEF Envelope, IInv

LEMMA LeaveStep ==
    ASSUME IInv, NEW s \in Sessions, Leave(s)
    PROVE  IInv'
  <1>1. CASE room = NoRoom
    BY <1>1 DEF Leave, IInv
  <1>2. CASE room # NoRoom
    <2> DEFINE p == session[s].id
               own == OwnMember(s)
               before == IF own = {} THEN {[room |-> room, woken |-> {}]} ELSE Outcomes(room, own)
    <2>1. RoomInv(room) /\ Held(room, listener) /\ ListenersAre(listener)
      BY <1>2 DEF IInv, RoomState
    <2>2. PICK o \in before :
              room' = Kept([o.room EXCEPT !.connections = Without(@, {p})])
      BY <1>2 DEF Leave
    <2>3. RoomInv(o.room) /\ Held(o.room, listener) /\ p \notin Members(o.room)
      <3>1. CASE own = {}
        BY <2>1, <3>1 DEF OwnMember
      <3>2. CASE own # {}
        <4>1. own \in SUBSET Members(room) /\ p \in own
          BY <3>2 DEF OwnMember
        <4>2. RoomInv(o.room) /\ Held(o.room, listener) /\ Members(o.room) \cap own = {}
          BY <2>1, <3>2, <4>1, OutcomeIsRoom
        <4> QED  BY <4>1, <4>2
      <3> QED  BY <3>1, <3>2
    <2> DEFINE e == [o.room EXCEPT !.connections = Without(@, {p})]
    <2>4. RoomInv(e) /\ Held(e, listener)
      <3> DEFINE r == o.room
                 connections == Without(r.connections, {p})
      <3>1. Shape(r)
        BY <2>3 DEF RoomInv
      <3>2. e = [r EXCEPT !.connections = connections]
        OBVIOUS
      <3>3. DOMAIN connections = DOMAIN r.connections \ {p}
        BY DEF Without
      <3> HIDE DEF r, e, connections
      <3>4. /\ e.life = r.life /\ e.next = r.next /\ e.made = r.made /\ e.peers = r.peers
            /\ e.addresses = r.addresses /\ e.owed = r.owed /\ e.draining = r.draining
            /\ e.inflight = r.inflight /\ e.outbox = r.outbox /\ e.connections = connections
        BY <3>1, <3>2 DEF Shape
      <3>5. Shape(e)
        BY <3>1, <3>2, <3>4 DEF Shape
      <3>6. RoomInv(r) /\ Held(r, listener) /\ p \notin Members(r)
        BY <2>3 DEF r
      <3>7. Members(r) \subseteq DOMAIN e.connections \cup DOMAIN e.peers
        BY <3>3, <3>4, <3>6 DEF RoomInv, Agrees
      <3>8. \A q \in DOMAIN e.outbox : e.outbox[q] \in Seq(Int)
        BY <3>4, <3>6 DEF RoomInv, Registered
      <3> QED  BY <3>3, <3>4, <3>5, <3>6, <3>7, <3>8, LighterIsRoom
    <2>5. RoomState(room', listener)
      BY <2>2, <2>4, EmptyingIsRoom
    <2> QED  BY <2>5 DEF Leave, IInv
  <1> QED  BY <1>1, <1>2

LEMMA LookStep ==
    ASSUME IInv, NEW s \in Sessions, Look(s)
    PROVE  IInv'
  <1> DEFINE p == session[s].id
             pops == room # NoRoom /\ p \in Members(room) /\ room.outbox[p] # << >>
  <1>1. CASE ~pops
    BY <1>1 DEF Look, IInv
  <1>2. CASE pops
    <2>1. room' = [room EXCEPT !.outbox[p] = Tail(@)] /\ UNCHANGED <<lives, listener>>
      BY <1>2 DEF Look
    <2>2. RoomInv(room) /\ Held(room, listener)
      BY <1>2 DEF IInv, RoomState
    <2>3. room.outbox[p] \in Seq(Int)
      BY <1>2, <2>2 DEF RoomInv, Registered, Members
    <2> DEFINE outbox == [room.outbox EXCEPT ![p] = Tail(@)]
    <2>4. DOMAIN outbox = DOMAIN room.outbox /\ \A q \in DOMAIN outbox : outbox[q] \in Seq(Int)
      BY <1>2, <2>2, <2>3 DEF RoomInv, Registered
    <2>5. room' = [room EXCEPT !.outbox = outbox]
      BY <2>1
    <2> HIDE DEF outbox
    <2>6. Shape(room')
      BY <2>2, <2>5 DEF RoomInv, Shape
    <2>7. RoomInv(room') /\ Held(room', listener)
      <3>1. /\ room'.life = room.life /\ room'.next = room.next /\ room'.made = room.made
            /\ room'.peers = room.peers /\ room'.addresses = room.addresses
            /\ room'.owed = room.owed /\ room'.draining = room.draining
            /\ room'.inflight = room.inflight /\ room'.outbox = outbox
            /\ room'.connections = room.connections
        BY <2>2, <2>5 DEF RoomInv, Shape
      <3>2. Members(room) \subseteq DOMAIN room'.connections \cup DOMAIN room'.peers
        BY <2>2, <3>1 DEF RoomInv, Agrees
      <3> QED  BY <2>2, <2>4, <2>6, <3>1, <3>2, LighterIsRoom
    <2> QED  BY <2>1, <2>7, RoomChanges DEF IInv
  <1> QED  BY <1>1, <1>2

LEMMA TakePendingStep ==
    ASSUME IInv, NEW s \in Sessions, TakePending(s)
    PROVE  IInv'
  <1> DEFINE p == session[s].id
  <1>1. CASE ~Connected(s)
    BY <1>1 DEF TakePending, IInv
  <1>2. CASE Connected(s)
    <2>1. room' = [room EXCEPT !.connections[p].pending = << >>] /\ UNCHANGED <<lives, listener>>
      BY <1>2 DEF TakePending
    <2>2. RoomInv(room) /\ Held(room, listener)
      BY <1>2 DEF Connected, IInv, RoomState
    <2> DEFINE connections == [room.connections EXCEPT ![p].pending = << >>]
    <2>4. DOMAIN connections = DOMAIN room.connections
      OBVIOUS
    <2>5. room' = [room EXCEPT !.connections = connections]
      BY <2>1
    <2> HIDE DEF connections
    <2>6. Shape(room')
      BY <2>2, <2>5 DEF RoomInv, Shape
    <2>7. RoomInv(room') /\ Held(room', listener)
      <3>1. /\ room'.life = room.life /\ room'.next = room.next /\ room'.made = room.made
            /\ room'.peers = room.peers /\ room'.addresses = room.addresses
            /\ room'.owed = room.owed /\ room'.draining = room.draining
            /\ room'.inflight = room.inflight /\ room'.outbox = room.outbox
            /\ room'.connections = connections
        BY <2>2, <2>5 DEF RoomInv, Shape
      <3>2. Members(room) \subseteq DOMAIN room'.connections \cup DOMAIN room'.peers
        BY <2>2, <2>4, <3>1 DEF RoomInv, Agrees
      <3>3. \A q \in DOMAIN room'.outbox : room'.outbox[q] \in Seq(Int)
        BY <2>2, <3>1 DEF RoomInv, Registered
      <3> QED  BY <2>2, <2>4, <2>6, <3>1, <3>2, <3>3, LighterIsRoom
    <2> QED  BY <2>1, <2>7, RoomChanges DEF IInv
  <1> QED  BY <1>1, <1>2

LEMMA TickStep ==
    ASSUME IInv, Tick
    PROVE  IInv'
  <1>1. RoomInv(room) /\ Held(room, listener) /\ ListenersAre(listener)
    BY DEF Tick, IInv, RoomState
  <1>2. PICK o \in Outcomes(room, {}) : room' = Kept(o.room)
    BY DEF Tick
  <1>3. RoomInv(o.room) /\ Held(o.room, listener)
    BY <1>1, OutcomeIsRoom
  <1>4. RoomState(room', listener)
    BY <1>2, <1>3, EmptyingIsRoom
  <1> QED  BY <1>4 DEF Tick, IInv

LEMMA CloseRoomStep ==
    ASSUME IInv, CloseRoom
    PROVE  IInv'
  <1>1. \A l \in Listeners : Nothing(l, listener[l])
    BY DEF CloseRoom, IInv, RoomState, Held, HeldBatch, Nothing
  <1> QED  BY <1>1 DEF CloseRoom, IInv, RoomState

LEMMA ReceiveStep ==
    ASSUME IInv, NEW l \in Listeners, NEW x \in Of(l), Receive(l, x)
    PROVE  IInv'
  <1>1. /\ ListenersAre(listener')
        /\ \A k \in Listeners : Nothing(k, listener'[k]) <=> Nothing(k, listener[k])
        /\ \A r : Held(r, listener) => Held(r, listener')
    BY PhaseKeepsListeners DEF Receive
  <1>2. CASE UNCHANGED <<room, lives>>
    BY <1>1, <1>2 DEF IInv, RoomState
  <1>3. CASE FromPeer(x)
    <2>1. RoomInv(room) /\ Held(room, listener) /\ ListenersAre(listener)
      BY <1>3 DEF FromPeer, Mapped, IInv, RoomState
    <2>2. PICK o \in Outcomes(room, {}) : room' = o.room
      BY <1>3 DEF FromPeer
    <2>3. RoomInv(o.room) /\ Held(o.room, listener)
      BY <2>1, OutcomeIsRoom
    <2>4. room' # NoRoom /\ UNCHANGED lives
      BY <1>3, <2>2, <2>3 DEF FromPeer, RoomInv, Registered, NoRoom
    <2> QED  BY <1>1, <2>2, <2>3, <2>4 DEF IInv, RoomState
  <1>4. CASE FromStranger(x)
    <2>1. PICK o \in Outcomes(At(Found, x), {}) : room' = o.room
      BY <1>4 DEF FromStranger, At
    <2>2. RoomInv(Found) /\ Held(Found, listener)
      BY FoundIsRoom
    <2>3. x \notin DOMAIN Found.addresses /\ x \notin Found.draining
      BY <1>4 DEF FromStranger, Mapped, AdmissionBlocked, Found, BindRoom
    <2>4. RoomInv(At(Found, x)) /\ Held(At(Found, x), listener)
      BY <2>2, <2>3, AtIsRoom DEF Receive, IInv
    <2>5. RoomInv(o.room) /\ Held(o.room, listener)
      BY <2>4, OutcomeIsRoom DEF IInv
    <2>6. room' # NoRoom
      BY <2>1, <2>5 DEF RoomInv, Registered, NoRoom
    <2>7. lives' \in Nat
      BY <1>4 DEF FromStranger, CountLife, IInv
    <2> QED  BY <1>1, <2>1, <2>5, <2>6, <2>7 DEF IInv, RoomState
  <1> QED  BY <1>2, <1>3, <1>4 DEF Receive, Unheard

LEMMA WokeStep ==
    ASSUME IInv, NEW l \in Listeners, Woke(l)
    PROVE  IInv'
  <1>1. /\ ListenersAre(listener')
        /\ \A k \in Listeners : Nothing(k, listener'[k]) <=> Nothing(k, listener[k])
        /\ \A r : Held(r, listener) => Held(r, listener')
    BY PhaseKeepsListeners DEF Woke
  <1> QED  BY <1>1 DEF Woke, IInv, RoomState

LEMMA LiveIsOwn ==
    ASSUME RoomInv(room), NEW x \in Sources
    PROVE  /\ Live(x) \in Seq(Datagram(room))
           /\ x \in DOMAIN room.addresses => Live(x) \in Seq(Own(room, x))
  <1>1. CASE x \notin DOMAIN room.addresses
    BY <1>1 DEF Live
  <1>2. CASE x \in DOMAIN room.addresses
    <2> DEFINE p == room.addresses[x]
               own == [life : {room.life}, id : {p}, frame : Int]
    <2>1. p \in Members(room) /\ p \in Nat
      BY <1>2 DEF RoomInv, Agrees, Registered, Members
    <2>2. room.outbox[p] \in Seq(Int)
      BY <2>1 DEF RoomInv, Registered, Members
    <2>3. Live(x) \in Seq(own)
      BY <1>2, <2>2, DatagramsAreOwn DEF Live
    <2>4. own \subseteq Datagram(room)
      BY <2>1 DEF Datagram
    <2>5. own = Own(room, x)
      BY DEF Own
    <2> HIDE DEF own
    <2> QED  BY <2>3, <2>4, <2>5
  <1> QED  BY <1>1, <1>2

LEMMA BatchIsOwn ==
    ASSUME RoomInv(room), NEW x \in Sources
    PROVE  /\ room.owed[x] \o Live(x) \in Seq(Datagram(room))
           /\ x \in DOMAIN room.addresses =>
                 room.owed[x] \o Live(x) \in Seq(Own(room, x))
  <1>1. room.owed[x] \in Seq(Datagram(room))
    BY DEF RoomInv, Entombed
  <1>2. x \in DOMAIN room.addresses => room.owed[x] = << >>
    BY DEF RoomInv, Entombed
  <1> QED  BY <1>1, <1>2, LiveIsOwn

LEMMA TakenIsRoom ==
    ASSUME RoomInv(room), NEW l \in Listeners
    PROVE  RoomInv(Taken(room, l))
  <1> DEFINE r == room
             e == Taken(r, l)
             owed == [x \in Sources |-> IF x \in Of(l) THEN << >> ELSE r.owed[x]]
             outbox == [p \in DOMAIN r.outbox |->
                 IF p \in DOMAIN r.peers /\ r.peers[p] \in Of(l) THEN << >> ELSE r.outbox[p]]
             inflight == IF \E x \in Of(l) : Batch(l)[x] # << >>
                         THEN r.inflight \cup {l} ELSE r.inflight
  <1>1. e = [r EXCEPT !.owed = owed, !.outbox = outbox, !.inflight = inflight]
    BY DEF Taken
  <1> HIDE DEF e, owed, outbox, inflight
  <1>2. e = [life |-> r.life, next |-> r.next, outbox |-> outbox, made |-> r.made,
             connections |-> r.connections, peers |-> r.peers, addresses |-> r.addresses,
             owed |-> owed, draining |-> r.draining, inflight |-> inflight]
    BY <1>1 DEF RoomInv, Shape
  <1>3. Shape(e)
    BY <1>2 DEF Shape
  <1>4. DOMAIN outbox = DOMAIN r.outbox /\ \A p \in DOMAIN outbox : outbox[p] \in Seq(Int)
    BY DEF outbox, RoomInv, Registered
  <1>5. Registered(e)
    BY <1>2, <1>4 DEF RoomInv, Registered
  <1>6. Agrees(e)
    BY <1>2, <1>4 DEF RoomInv, Agrees, Members
  <1>7. owed \in [Sources -> Seq(Datagram(r))]
      /\ \A x \in Sources : owed[x] # << >> => r.owed[x] # << >>
    BY DEF owed, RoomInv, Entombed
  <1>8. Entombed(e)
    <2>1. Datagram(e) = Datagram(r)
      BY <1>2 DEF Datagram
    <2>2. e.owed = owed /\ e.draining = r.draining /\ e.addresses = r.addresses
      BY <1>2
    <2> QED  BY <1>7, <2>1, <2>2 DEF RoomInv, Entombed
  <1> QED  BY <1>3, <1>5, <1>6, <1>8 DEF RoomInv, e

LEMMA TakeStep ==
    ASSUME IInv, NEW l \in Listeners, Take(l)
    PROVE  IInv'
  <1>1. CASE room = NoRoom
    <2>1. Phase(l, "send") /\ UNCHANGED <<room, lives>> /\ listener[l].phase # "send"
      BY <1>1 DEF Take
    <2>2. /\ ListenersAre(listener')
          /\ \A k \in Listeners : Nothing(k, listener'[k]) <=> Nothing(k, listener[k])
      BY <2>1, PhaseKeepsListeners
    <2> QED  BY <1>1, <2>1, <2>2 DEF IInv, RoomState
  <1>2. CASE room # NoRoom
    <2> DEFINE b == [phase |-> "send", batch |-> Batch(l), tombstones |-> room.draining \cap Of(l)]
               e == Taken(room, l)
    <2>1. listener' = [listener EXCEPT ![l] = b] /\ room' = e /\ UNCHANGED lives
      BY <1>2 DEF Take
    <2>2. RoomInv(room) /\ Held(room, listener)
      BY <1>2 DEF IInv, RoomState
    <2>3. RoomInv(e)
      BY <2>2, TakenIsRoom
    <2>4. /\ e.life = room.life /\ e.addresses = room.addresses
          /\ e.owed = [x \in Sources |-> IF x \in Of(l) THEN << >> ELSE room.owed[x]]
          /\ e.inflight = IF \E x \in Of(l) : Batch(l)[x] # << >>
                          THEN room.inflight \cup {l} ELSE room.inflight
      BY <2>2 DEF Taken, RoomInv, Shape
    <2>5. ListenersAre(listener')
      <3>1. Listening(l, b)
        BY DEF Listening, Batch
      <3> QED  BY <2>1, <3>1 DEF IInv, ListenersAre
    <2> HIDE DEF e
    <2>6. Datagram(e) = Datagram(room) /\ \A x : Own(e, x) = Own(room, x)
      BY <2>4 DEF Datagram, Own
    <2>7. HeldBatch(e, l, b)
      <3>1. ASSUME NEW x \in Of(l)
            PROVE  /\ b.batch[x] \in Seq(Datagram(room))
                   /\ x \in DOMAIN room.addresses => b.batch[x] \in Seq(Own(room, x))
                   /\ b.batch[x] # << >> => l \in e.inflight
        <4>1. b.batch[x] = room.owed[x] \o Live(x) /\ x \in Sources
          BY DEF Batch, Of
        <4> QED  BY <2>2, <2>4, <4>1, BatchIsOwn
      <3>2. \A x \in b.tombstones : x \notin DOMAIN e.addresses /\ e.owed[x] = << >>
        BY <2>2, <2>4 DEF RoomInv, Entombed, Of
      <3> HIDE DEF b
      <3> QED  BY <2>4, <2>6, <3>1, <3>2 DEF HeldBatch
    <2>8. ASSUME NEW k \in Listeners \ {l}
          PROVE  HeldBatch(e, k, listener[k])
      <3>1. HeldBatch(room, k, listener[k]) /\ listener[k].tombstones \subseteq Sources
        BY <2>2 DEF Held, IInv, ListenersAre, Listening, Of
      <3>2. k \in room.inflight => k \in e.inflight
        BY <2>4
      <3>3. \A x \in Sources : room.owed[x] = << >> => e.owed[x] = << >>
        BY <2>4
      <3> QED  BY <2>4, <2>6, <3>1, <3>2, <3>3 DEF HeldBatch
    <2>9. Held(e, listener')
      <3> HIDE DEF b
      <3>1. \A k \in Listeners : listener'[k] = IF k = l THEN b ELSE listener[k]
        BY <2>1 DEF IInv, ListenersAre
      <3> QED  BY <2>7, <2>8, <3>1 DEF Held
    <2>10. e # NoRoom
      BY <2>3 DEF RoomInv, Registered, NoRoom
    <2> QED  BY <2>1, <2>3, <2>5, <2>9, <2>10 DEF IInv, RoomState
  <1> QED  BY <1>1, <1>2

LEMMA SendToStep ==
    ASSUME IInv, NEW l \in Listeners, NEW x \in Of(l), SendTo(l, x)
    PROVE  IInv'
  <1> DEFINE b == listener[l]
             batch == [b.batch EXCEPT ![x] = Tail(@)]
             c == [phase |-> "send", batch |-> batch, tombstones |-> b.tombstones]
  <1>1. Listening(l, b) /\ DOMAIN listener = Listeners
    BY DEF IInv, ListenersAre
  <1>2. listener' = [listener EXCEPT ![l] = c] /\ UNCHANGED <<room, lives>>
    <2>1. b.phase = "send" /\ listener' = [listener EXCEPT ![l].batch[x] = Tail(@)]
      BY DEF SendTo
    <2>2. [b EXCEPT !.batch[x] = Tail(@)] = [b EXCEPT !.batch = batch]
      OBVIOUS
    <2>3. [b EXCEPT !.batch = batch] = c
      <3> HIDE DEF batch
      <3> QED  BY <1>1, <2>1 DEF Listening
    <2>4. listener' = [listener EXCEPT ![l] = [listener[l] EXCEPT !.batch[x] = Tail(@)]]
      BY <2>1
    <2> HIDE DEF batch, c
    <2> QED  BY <2>2, <2>3, <2>4 DEF SendTo
  <1>3. ListenersAre(listener')
    <2>1. Listening(l, c)
      BY <1>1 DEF Listening
    <2> QED  BY <1>2, <2>1 DEF IInv, ListenersAre
  <1>4. room # NoRoom
    BY DEF SendTo, IInv, RoomState, Nothing
  <1>5. HeldBatch(room, l, c)
    <2>1. HeldBatch(room, l, b) /\ b.phase = "send" /\ b.batch[x] # << >>
      BY <1>4 DEF SendTo, IInv, RoomState, Held
    <2>2. \A y \in Of(l) : y # x => batch[y] = b.batch[y]
      BY <1>1 DEF Listening
    <2>3. batch[x] = Tail(b.batch[x])
      BY <1>1 DEF Listening
    <2>4. batch[x] \in Seq(Datagram(room))
      BY <2>1, <2>3 DEF HeldBatch
    <2>5. x \in DOMAIN room.addresses => batch[x] \in Seq(Own(room, x))
      BY <2>1, <2>3 DEF HeldBatch
    <2>6. l \in room.inflight
      BY <2>1 DEF HeldBatch
    <2>7. c.phase = "send" /\ c.batch = batch /\ c.tombstones = b.tombstones
      OBVIOUS
    <2> HIDE DEF b, c, batch
    <2> QED  BY <2>1, <2>2, <2>4, <2>5, <2>6, <2>7 DEF HeldBatch
  <1>6. Held(room, listener')
    <2> HIDE DEF c
    <2> QED  BY <1>1, <1>2, <1>4, <1>5 DEF IInv, RoomState, Held
  <1> QED  BY <1>2, <1>3, <1>4, <1>6 DEF IInv, RoomState

LEMMA FinishStep ==
    ASSUME IInv, NEW l \in Listeners, Finish(l)
    PROVE  IInv'
  <1> DEFINE b == listener[l]
             c == [phase |-> "receive", batch |-> b.batch, tombstones |-> {}]
  <1>1. Listening(l, b) /\ DOMAIN listener = Listeners
    BY DEF IInv, ListenersAre
  <1>2. listener' = [listener EXCEPT ![l] = c] /\ UNCHANGED lives
    BY <1>1 DEF Finish, Listening
  <1>3. Nothing(l, b) /\ Nothing(l, c)
    BY DEF Finish, Nothing
  <1>4. ListenersAre(listener')
    <2>1. Listening(l, c)
      BY <1>1, <1>3 DEF Listening
    <2> QED  BY <1>2, <2>1 DEF IInv, ListenersAre
  <1>5. CASE room = NoRoom
    <2> HIDE DEF c
    <2> QED  BY <1>1, <1>2, <1>3, <1>4, <1>5 DEF Finish, IInv, RoomState
  <1>6. CASE room # NoRoom
    <2> DEFINE r == room
               e == [r EXCEPT !.inflight = @ \ {l}, !.draining = @ \ Tombstones(l)]
    <2>1. room' = Kept(e)
      BY <1>6 DEF Finish
    <2>2. RoomInv(r) /\ Held(r, listener)
      BY <1>6 DEF IInv, RoomState
    <2> DEFINE inflight == r.inflight \ {l}
               draining == r.draining \ b.tombstones
    <2>3. e = [r EXCEPT !.inflight = inflight, !.draining = draining]
      BY DEF Tombstones
    <2> HIDE DEF e, inflight, draining
    <2>4. e = [life |-> r.life, next |-> r.next, outbox |-> r.outbox, made |-> r.made,
               connections |-> r.connections, peers |-> r.peers, addresses |-> r.addresses,
               owed |-> r.owed, draining |-> draining, inflight |-> inflight]
      BY <2>2, <2>3 DEF RoomInv, Shape
    <2>5. Shape(e)
      BY <2>4 DEF Shape
    <2>6. Registered(e) /\ Agrees(e)
      BY <2>2, <2>4 DEF RoomInv, Registered, Agrees, Members
    <2>7. Entombed(e)
      <3>1. \A x \in b.tombstones : r.owed[x] = << >>
        BY <2>2 DEF Held, HeldBatch, Finish
      <3>2. Datagram(e) = Datagram(r) /\ e.owed = r.owed /\ e.addresses = r.addresses
            /\ e.draining = r.draining \ b.tombstones
        BY <2>4 DEF Datagram, draining
      <3> QED  BY <2>2, <3>1, <3>2 DEF RoomInv, Entombed
    <2>8. /\ Datagram(e) = Datagram(r) /\ e.owed = r.owed /\ e.addresses = r.addresses
          /\ e.inflight = r.inflight \ {l} /\ \A x : Own(e, x) = Own(r, x)
      BY <2>4 DEF Datagram, Own, inflight
    <2>9. HeldBatch(e, l, c)
      <3>1. c.phase # "send" /\ \A x \in Of(l) : c.batch[x] = << >>
        BY <1>3 DEF Nothing
      <3>2. \A S : << >> \in Seq(S)
        OBVIOUS
      <3> HIDE DEF c
      <3> QED  BY <3>1, <3>2 DEF HeldBatch
    <2>10. Held(e, listener')
      <3> HIDE DEF c, r
      <3>1. \A k \in Listeners : listener'[k] = IF k = l THEN c ELSE listener[k]
        BY <1>1, <1>2
      <3>2. \A k \in Listeners : k # l => HeldBatch(e, k, listener[k])
        BY <2>2, <2>8 DEF Held, HeldBatch
      <3> QED  BY <2>9, <3>1, <3>2 DEF Held
    <2>11. RoomState(room', listener')
      BY <2>1, <2>2, <2>5, <2>6, <2>7, <2>10, EmptyingIsRoom DEF RoomInv
    <2> QED  BY <1>2, <1>4, <2>11 DEF IInv
  <1> QED  BY <1>5, <1>6

LEMMA NextKeepsRoom ==
    ASSUME IInv, [Next]_vars
    PROVE  IInv'
  <1>1. CASE UNCHANGED vars
    BY <1>1 DEF IInv, vars
  <1>2. ASSUME NEW s \in Sessions, Reads(s) \/ Writes(s)
        PROVE  IInv'
    <2>1. CASE Ping(s) \/ StopReading(s) \/ Send(s) \/ Notified(s)
      BY <2>1 DEF Ping, StopReading, Send, Notified, IInv
    <2> QED  BY <1>2, <2>1, JoinStep, EnvelopeStep, LeaveStep, LookStep, TakePendingStep
             DEF Reads, Writes
  <1>3. ASSUME NEW l \in Listeners, Drains(l) \/ \E x \in Of(l) : Receive(l, x)
        PROVE  IInv'
    BY <1>3, WokeStep, TakeStep, FinishStep, SendToStep, ReceiveStep DEF Drains
  <1>4. ASSUME NEW w \in Waiters, Notify(w)
        PROVE  IInv'
    BY <1>4 DEF Notify, IInv
  <1> QED  BY <1>1, <1>2, <1>3, <1>4, TickStep, CloseRoomStep DEF Next

LEMMA RoomHoldsAtFirst ==
    ASSUME Init
    PROVE  IInv
  <1>1. ASSUME NEW l \in Listeners
        PROVE  Listening(l, listener[l]) /\ Nothing(l, listener[l])
    BY DEF Init, Listening, Nothing
  <1>2. room = NoRoom /\ lives \in Nat /\ DOMAIN listener = Listeners
    BY DEF Init
  <1> QED  BY <1>1, <1>2 DEF IInv, ListenersAre, RoomState

LEMMA RoomHolds == Spec => []IInv
  BY RoomHoldsAtFirst, NextKeepsRoom, PTL DEF Spec

(* The maps of the bindings and the registry agree in every state, however  *)
(* joins, removals, drains and closings of the room interleave              *)
(* (runtime.rs apply, udp.rs receive, websocket.rs join and leave).         *)
THEOREM OneIdentityMap == Spec => []BindingsAgree
  <1>1. IInv => BindingsAgree
    BY DEF IInv, RoomState, RoomInv, BindingsAgree
  <1> QED  BY <1>1, RoomHolds, PTL

LEMMA UnsentIsOwn ==
    ASSUME IInv, NEW x \in Sources
    PROVE  /\ room = NoRoom => Unsent(x) = << >>
           /\ room # NoRoom =>
                /\ Unsent(x) \in Seq(Datagram(room))
                /\ x \in DOMAIN room.addresses => Unsent(x) \in Seq(Own(room, x))
  <1>1. x[1] \in Listeners /\ x \in Of(x[1])
    BY DEF Sources, Of
  <1> DEFINE held == listener[x[1]].batch[x]
  <1>2. CASE room = NoRoom
    <2>1. held = << >>
      BY <1>1, <1>2 DEF IInv, RoomState, Nothing
    <2> QED  BY <1>2, <2>1 DEF Unsent
  <1>3. CASE room # NoRoom
    <2>1. RoomInv(room) /\ HeldBatch(room, x[1], listener[x[1]])
      BY <1>1, <1>3 DEF IInv, RoomState, Held
    <2>2. held \in Seq(Datagram(room))
          /\ (x \in DOMAIN room.addresses => held \in Seq(Own(room, x)))
      BY <1>1, <2>1 DEF HeldBatch
    <2> DEFINE rest == room.owed[x] \o Live(x)
    <2>3. rest \in Seq(Datagram(room))
          /\ (x \in DOMAIN room.addresses => rest \in Seq(Own(room, x)))
      BY <2>1, BatchIsOwn
    <2>4. Unsent(x) = held \o rest
      BY <1>3 DEF Unsent
    <2> HIDE DEF held, rest
    <2> QED  BY <1>3, <2>2, <2>3, <2>4
  <1> QED  BY <1>2, <1>3

(* A room comes to life again under a name only after the last datagram of  *)
(* its former life has left every listener (Room::is_draining, is_empty and *)
(* the in-flight set of the two-phase drain).                               *)
THEOREM LifetimesApart == Spec => []LifetimesDoNotOverlap
  <1>1. ASSUME IInv  PROVE LifetimesDoNotOverlap
    <2> SUFFICES ASSUME NEW x \in Sources, NEW i \in 1..Len(Unsent(x))
                 PROVE  room # NoRoom /\ Unsent(x)[i].life = room.life
      BY DEF LifetimesDoNotOverlap
    <2>1. room # NoRoom
      BY <1>1, UnsentIsOwn
    <2>2. Unsent(x) \in Seq(Datagram(room))
      BY <1>1, <2>1, UnsentIsOwn
    <2>3. Unsent(x)[i] \in Datagram(room)
      BY <2>2, ElementOfSeq
    <2> QED  BY <2>1, <2>3 DEF Datagram
  <1> QED  BY <1>1, RoomHolds, PTL

(* A returning UDP peer is admitted only after everything its former member *)
(* was owed, the terminal included, has left the socket (udp.rs             *)
(* drain_requested and the tombstones of finish_udp).                       *)
THEOREM TerminalBeforeReadmission == Spec => []PriorTerminalFirst
  <1>1. ASSUME IInv  PROVE PriorTerminalFirst
    <2> SUFFICES ASSUME room # NoRoom, NEW x \in DOMAIN room.addresses,
                        NEW i \in 1..Len(Unsent(x))
                 PROVE  Unsent(x)[i].id = room.addresses[x]
      BY DEF PriorTerminalFirst
    <2>1. x \in Sources
      BY <1>1 DEF IInv, RoomState, RoomInv, Agrees, Registered
    <2>2. Unsent(x) \in Seq(Own(room, x))
      BY <1>1, <2>1, UnsentIsOwn
    <2>3. Unsent(x)[i] \in Own(room, x)
      BY <2>2, ElementOfSeq
    <2> QED  BY <2>3 DEF Own
  <1> QED  BY <1>1, RoomHolds, PTL

-----------------------------------------------------------------------------
(* Wake-ups.                                                                *)

Seats ==
    /\ DOMAIN session = Sessions /\ DOMAIN permit = Waiters
    /\ \A s \in Sessions : {"id", "writer"} \subseteq DOMAIN session[s]

Wired(r) == \A p \in DOMAIN r.connections : {"session", "pending"} \subseteq DOMAIN r.connections[p]

(* There is something to do for the writer s of member p, or for listener l. *)
Due(r, p, s) ==
    /\ p \in DOMAIN r.connections /\ r.connections[p].session = s
    /\ ~(p \in Members(r) /\ r.outbox[p] = << >>)
DueAt(r, x) ==
    r.owed[x] # << >> \/ (x \in DOMAIN r.addresses /\ r.outbox[r.addresses[x]] # << >>)

LEMMA SetFields ==
    ASSUME Seats, NEW s \in Sessions, NEW changes, Set(s, changes), UNCHANGED permit
    PROVE  /\ Seats'
           /\ \A t \in Sessions \ {s} : session'[t] = session[t]
           /\ session'[s].writer =
                 IF "writer" \in DOMAIN changes THEN changes.writer ELSE session[s].writer
           /\ session'[s].id = IF "id" \in DOMAIN changes THEN changes.id ELSE session[s].id
  <1> DEFINE new == [f \in DOMAIN session[s] |->
                        IF f \in DOMAIN changes THEN changes[f] ELSE session[s][f]]
  <1>1. session' = [session EXCEPT ![s] = new]
    BY DEF Set
  <1>2. DOMAIN new = DOMAIN session[s]
    OBVIOUS
  <1>3. {"id", "writer"} \subseteq DOMAIN session[s]
    BY DEF Seats
  <1>4. /\ new["writer"] = IF "writer" \in DOMAIN changes THEN changes["writer"]
                           ELSE session[s]["writer"]
        /\ new["id"] = IF "id" \in DOMAIN changes THEN changes["id"] ELSE session[s]["id"]
    BY <1>3
  <1> HIDE DEF new
  <1>5. session'[s] = new /\ \A t \in Sessions \ {s} : session'[t] = session[t]
    BY <1>1 DEF Seats
  <1>6. Seats'
    BY <1>1, <1>2, <1>5 DEF Seats
  <1> QED  BY <1>4, <1>5, <1>6

(* A reduction that gives a task something to do wakes it.                  *)
LEMMA OutcomeWakes ==
    ASSUME NEW r, RoomInv(r), Wired(r), NEW gone \in SUBSET Members(r), NEW o \in Outcomes(r, gone)
    PROVE  /\ Wired(o.room)
           /\ \A s \in Sessions : \A p : ~Due(r, p, s) /\ s \notin o.woken => ~Due(o.room, p, s)
           /\ \A x \in Sources : ~DueAt(r, x) /\ x[1] \notin o.woken => ~DueAt(o.room, x)
  <1>1. PICK Q \in SUBSET Writable(r), fate \in Fates(r, gone) : o = Outcome(r, Q, fate)
    BY DEF Outcomes
  <1> DEFINE R == {p \in Members(r) : fate[p] # "stays"}
             T == {p \in Members(r) : fate[p] = "dismissed"}
             a == Applied(r, Q, R, T)
             lost == Gone(r, Q, R)
             left == LeftBehind(r, lost)
  <1>2. o.room = a /\ o.woken = WaitersOf(r, Q \cup R)
    BY <1>1 DEF Outcome, Woken
  <1>3. Q \in SUBSET Members(r) /\ R \in SUBSET Members(r)
    BY <1>1 DEF Writable, Slow
  <1>4. lost \subseteq Q \cup R
    BY DEF Gone, Slow
  <1> HIDE DEF R, T
  <1>5. Reduced(r, Q, R, T, a)
    BY AppliedFields DEF RoomInv
  <1>6. a.connections = [p \in DOMAIN r.connections |->
            IF p \in lost THEN WithPending(r.connections[p], Captured(r, Q, T, p))
            ELSE r.connections[p]]
    BY <1>5 DEF Reduced
  <1>7. ASSUME NEW p \in DOMAIN a.connections
        PROVE  /\ p \in DOMAIN r.connections /\ a.connections[p].session = r.connections[p].session
               /\ {"session", "pending"} \subseteq DOMAIN a.connections[p]
    BY <1>6 DEF Wired, WithPending
  <1> HIDE DEF a
  <1>8. /\ a.outbox = [p \in DOMAIN r.outbox \ lost |-> QueuedFor(r, Q, p)]
        /\ a.addresses = Without(r.addresses, left)
        /\ \A x \in Sources : x \notin left => a.owed[x] = r.owed[x]
    BY <1>5 DEF Reduced
  <1>9. \A p \in Members(r) \ (Q \cup R) : p \in Members(a) /\ a.outbox[p] = r.outbox[p]
    BY <1>3, <1>4, <1>8 DEF Members, QueuedFor, Slow
  <1>10. ASSUME NEW s \in Sessions, NEW p, ~Due(r, p, s), s \notin o.woken
         PROVE  ~Due(a, p, s)
    <2> SUFFICES ASSUME p \in DOMAIN a.connections, a.connections[p].session = s
                 PROVE  p \in Members(a) /\ a.outbox[p] = << >>
      BY DEF Due
    <2>1. p \in DOMAIN r.connections /\ r.connections[p].session = s
      BY <1>7
    <2>2. p \in Members(r) /\ r.outbox[p] = << >>
      BY <1>10, <2>1 DEF Due
    <2>3. p \notin Q \cup R
      BY <1>2, <1>10, <2>1 DEF WaitersOf
    <2> QED  BY <1>9, <2>2, <2>3
  <1>11. ASSUME NEW x \in Sources, ~DueAt(r, x), x[1] \notin o.woken
         PROVE  ~DueAt(a, x)
    <2>1. ASSUME x \in DOMAIN r.addresses  PROVE r.addresses[x] \notin Q \cup R
      <3> DEFINE p == r.addresses[x]
      <3>1. p \in DOMAIN r.peers /\ r.peers[p] = x
        BY <2>1 DEF RoomInv, Agrees
      <3> QED  BY <1>2, <1>11, <3>1 DEF WaitersOf
    <2>2. x \notin left
      <3>1. left \subseteq DOMAIN r.addresses /\ \A y \in left : r.addresses[y] \in lost
        BY DEF RoomInv, Agrees, LeftBehind
      <3> QED  BY <1>4, <2>1, <3>1
    <2>3. x \in DOMAIN a.addresses =>
              x \in DOMAIN r.addresses /\ a.addresses[x] = r.addresses[x]
              /\ r.addresses[x] \in Members(r)
      BY <1>8 DEF Without, RoomInv, Agrees
    <2> QED  BY <1>8, <1>9, <1>11, <2>1, <2>2, <2>3 DEF DueAt
  <1> QED  BY <1>2, <1>7, <1>10, <1>11 DEF Wired

(* A task that waits without a wake-up has nothing to do.  A listener that  *)
(* is sending counts as waiting: it will look at nothing else before.       *)
WriterIdle(s) ==
    session[s].writer = "wait" /\ Sleeps(s) /\ room # NoRoom => ~Due(room, session[s].id, s)
ListenerIdle(l) ==
    listener[l].phase # "take" /\ Sleeps(l) /\ room # NoRoom =>
        \A x \in Of(l) : ~DueAt(room, x)

AInv ==
    /\ IInv /\ Seats
    /\ room # NoRoom => Wired(room)
    /\ \A s \in Sessions : WriterIdle(s)
    /\ \A l \in Listeners : ListenerIdle(l)

LEMMA QuietStep ==
    ASSUME AInv, IInv', Seats', UNCHANGED permit, toWake \subseteq toWake',
           room' # NoRoom => Wired(room'),
           \A s \in Sessions : session'[s].writer = "wait" =>
               /\ session[s].writer = "wait" /\ session'[s].id = session[s].id
               /\ room' # NoRoom /\ s \notin toWake' /\ Due(room', session[s].id, s) =>
                     room # NoRoom /\ Due(room, session[s].id, s),
           \A l \in Listeners : listener'[l].phase # "take" =>
               /\ listener[l].phase # "take"
               /\ room' # NoRoom /\ l \notin toWake' =>
                     \A x \in Of(l) : DueAt(room', x) => room # NoRoom /\ DueAt(room, x)
    PROVE  AInv'
  <1>1. \A s \in Sessions : WriterIdle(s)'
    BY DEF AInv, WriterIdle, Sleeps
  <1>2. \A l \in Listeners : ListenerIdle(l)'
    BY DEF AInv, ListenerIdle, Sleeps
  <1> QED  BY <1>1, <1>2 DEF AInv

LEMMA NewRoomIsIdle ==
    ASSUME AInv
    PROVE  /\ Wired(Found)
           /\ \A s, p : Due(Found, p, s) => room # NoRoom /\ Due(room, p, s)
           /\ \A x \in Sources : DueAt(Found, x) => room # NoRoom /\ DueAt(room, x)
  <1>1. CASE room # NoRoom
    BY <1>1 DEF Found, AInv
  <1>2. CASE room = NoRoom
    BY <1>2 DEF Found, BindRoom, Wired, Due, DueAt
  <1> QED  BY <1>1, <1>2

LEMMA BehindIsIdle ==
    ASSUME NEW r, RoomInv(r), Wired(r), NEW s
    PROVE  LET e == Behind(r, [session |-> s, pending |-> << >>])
           IN  /\ Wired(e)
               /\ \A t, p : t # s /\ Due(e, p, t) => Due(r, p, t)
               /\ \A x : DueAt(e, x) => DueAt(r, x)
  <1> DEFINE c == [session |-> s, pending |-> << >>]
             e == Behind(r, c)
  <1>1. /\ e.connections = Put(r.connections, r.next, c)
        /\ e.outbox = Put(r.outbox, r.next, << >>)
        /\ e.addresses = r.addresses /\ e.owed = r.owed
    BY WithMemberFields DEF Behind, RoomInv
  <1> HIDE DEF e
  <1>2. Wired(e)
    BY <1>1 DEF Wired, Put
  <1>3. \A t, p : t # s /\ Due(e, p, t) => Due(r, p, t)
    BY <1>1 DEF Due, Put, Members
  <1>4. \A x : DueAt(e, x) => DueAt(r, x)
    <2>1. \A x \in DOMAIN r.addresses : r.addresses[x] \in DOMAIN r.outbox
      BY DEF RoomInv, Agrees, Members
    <2> QED  BY <1>1, <2>1, MemberIsNew DEF DueAt, Put, Members
  <1> QED  BY <1>2, <1>3, <1>4 DEF e

LEMMA AtIsIdle ==
    ASSUME NEW r, RoomInv(r), Wired(r), NEW x, x \notin DOMAIN r.addresses
    PROVE  /\ Wired(At(r, x))
           /\ \A s, p : Due(At(r, x), p, s) => Due(r, p, s)
           /\ \A y : DueAt(At(r, x), y) => DueAt(r, y)
  <1> DEFINE e == At(r, x)
  <1>1. /\ e.connections = r.connections /\ e.owed = r.owed
        /\ e.outbox = Put(r.outbox, r.next, << >>)
        /\ e.addresses = Put(r.addresses, x, r.next)
    BY WithMemberFields DEF At, RoomInv
  <1> HIDE DEF e
  <1>2. Wired(e)
    BY <1>1 DEF Wired
  <1>3. \A s, p : Due(e, p, s) => Due(r, p, s)
    BY <1>1 DEF Due, Put, Members
  <1>4. \A y : DueAt(e, y) => DueAt(r, y)
    <2>1. \A y \in DOMAIN r.addresses : r.addresses[y] \in DOMAIN r.outbox
      BY DEF RoomInv, Agrees, Members
    <2> QED  BY <1>1, <2>1, MemberIsNew DEF DueAt, Put, Members
  <1> QED  BY <1>2, <1>3, <1>4 DEF e

LEMMA JoinIsHeard ==
    ASSUME AInv, IInv', NEW s \in Sessions, Join(s)
    PROVE  AInv'
  <1>0. UNCHANGED <<listener, permit>> /\ toWake \subseteq toWake'
    BY DEF Join
  <1>1. CASE room # NoRoom /\ IsDraining(room)
    <2>1. UNCHANGED <<room, toWake>> /\ Set(s, [reader |-> "left", writer |-> "done"])
      BY <1>1 DEF Join
    <2>2. /\ Seats' /\ session'[s].writer = "done"
          /\ \A t \in Sessions \ {s} : session'[t] = session[t]
      BY <1>0, <2>1, SetFields DEF AInv
    <2> QED  BY <1>0, <2>1, <2>2, QuietStep DEF AInv
  <1>2. CASE ~(room # NoRoom /\ IsDraining(room))
    <2> DEFINE r == Behind(Found, [session |-> s, pending |-> << >>])
    <2>1. PICK o \in Outcomes(r, {}) : room' = o.room /\ toWake' = toWake \cup o.woken
      BY <1>2 DEF Join, Behind
    <2>2. Set(s, [id |-> Found.next, reader |-> "open", writer |-> "look"])
      BY <1>2 DEF Join
    <2>3. /\ Seats' /\ session'[s].writer = "look"
          /\ \A t \in Sessions \ {s} : session'[t] = session[t]
      BY <1>0, <2>2, SetFields DEF AInv
    <2>4. RoomInv(Found) /\ RoomInv(r)
      BY FoundIsRoom, BehindIsRoom DEF AInv
    <2>5. /\ Wired(r)
          /\ \A t, p : t # s /\ Due(r, p, t) => room # NoRoom /\ Due(room, p, t)
          /\ \A x \in Sources : DueAt(r, x) => room # NoRoom /\ DueAt(room, x)
      BY <2>4, NewRoomIsIdle, BehindIsIdle
    <2> HIDE DEF r
    <2>6. /\ Wired(o.room)
          /\ \A t \in Sessions : \A p : ~Due(r, p, t) /\ t \notin o.woken => ~Due(o.room, p, t)
          /\ \A x \in Sources : ~DueAt(r, x) /\ x[1] \notin o.woken => ~DueAt(o.room, x)
      BY <2>4, <2>5, OutcomeWakes
    <2>7. ASSUME NEW l \in Listeners, l \notin toWake', NEW x \in Of(l), DueAt(room', x)
          PROVE  room # NoRoom /\ DueAt(room, x)
      BY <2>1, <2>5, <2>6, <2>7 DEF Of
    <2>8. ASSUME NEW t \in Sessions \ {s}, t \notin toWake', NEW p, Due(room', p, t)
          PROVE  room # NoRoom /\ Due(room, p, t)
      BY <2>1, <2>5, <2>6, <2>8
    <2> QED  BY <1>0, <2>1, <2>3, <2>6, <2>7, <2>8, QuietStep
  <1> QED  BY <1>1, <1>2

(* One reduction of the room as it is, and then the same room or none.      *)
LEMMA OutcomeIsHeard ==
    ASSUME AInv, IInv', Seats', UNCHANGED permit, room # NoRoom,
           NEW gone \in SUBSET Members(room), NEW o \in Outcomes(room, gone),
           room' # NoRoom => /\ DOMAIN room'.connections \subseteq DOMAIN o.room.connections
                             /\ \A p \in DOMAIN room'.connections :
                                    room'.connections[p] = o.room.connections[p]
                             /\ room'.outbox = o.room.outbox /\ room'.owed = o.room.owed
                             /\ room'.addresses = o.room.addresses,
           toWake \cup o.woken \subseteq toWake',
           \A t \in Sessions : session'[t].writer = session[t].writer
                               /\ session'[t].id = session[t].id,
           \A l \in Listeners : listener'[l].phase # "take" => listener[l].phase # "take"
    PROVE  AInv'
  <1>1. RoomInv(room) /\ Wired(room)
    BY DEF AInv, IInv, RoomState
  <1>2. /\ Wired(o.room)
        /\ \A t \in Sessions : \A p : ~Due(room, p, t) /\ t \notin o.woken => ~Due(o.room, p, t)
        /\ \A x \in Sources : ~DueAt(room, x) /\ x[1] \notin o.woken => ~DueAt(o.room, x)
    BY <1>1, OutcomeWakes
  <1>3. room' # NoRoom => Wired(room')
    BY <1>2 DEF Wired
  <1>4. \A t, p : room' # NoRoom /\ Due(room', p, t) => Due(o.room, p, t)
    BY DEF Due, Members
  <1>5. \A x : room' # NoRoom /\ DueAt(room', x) => DueAt(o.room, x)
    BY DEF DueAt
  <1>6. ASSUME NEW t \in Sessions, room' # NoRoom, t \notin toWake', NEW p, Due(room', p, t)
        PROVE  Due(room, p, t)
    BY <1>2, <1>4, <1>6
  <1>7. ASSUME NEW l \in Listeners, room' # NoRoom, l \notin toWake', NEW x \in Of(l),
               DueAt(room', x)
        PROVE  DueAt(room, x)
    BY <1>2, <1>5, <1>7 DEF Of
  <1> QED  BY <1>3, <1>6, <1>7, QuietStep

LEMMA KeptIsSame == \A r : Kept(r) # NoRoom => Kept(r) = r
  BY DEF Kept

LEMMA EnvelopeIsHeard ==
    ASSUME AInv, IInv', NEW s \in Sessions, Envelope(s)
    PROVE  AInv'
  <1>1. PICK o \in Outcomes(room, {}) : room' = o.room /\ toWake' = toWake \cup o.woken
    BY DEF Envelope
  <1>2. room # NoRoom /\ UNCHANGED <<session, listener, permit>>
    BY DEF Envelope, Connected
  <1>3. Seats'
    BY <1>2 DEF AInv, Seats
  <1> QED  BY <1>1, <1>2, <1>3, OutcomeIsHeard

LEMMA TickIsHeard ==
    ASSUME AInv, IInv', Tick
    PROVE  AInv'
  <1>1. PICK o \in Outcomes(room, {}) : room' = Kept(o.room) /\ toWake' = toWake \cup o.woken
    BY DEF Tick
  <1>2. room # NoRoom /\ UNCHANGED <<session, listener, permit>>
    BY DEF Tick
  <1>3. Seats'
    BY <1>2 DEF AInv, Seats
  <1>4. room' # NoRoom => room' = o.room
    BY <1>1, KeptIsSame
  <1> QED  BY <1>1, <1>2, <1>3, <1>4, OutcomeIsHeard

LEMMA CloseRoomIsHeard ==
    ASSUME AInv, IInv', CloseRoom
    PROVE  AInv'
  <1>1. room' = NoRoom /\ UNCHANGED <<session, listener, permit>> /\ toWake \subseteq toWake'
    BY DEF CloseRoom
  <1>2. Seats'
    BY <1>1 DEF AInv, Seats
  <1> QED  BY <1>1, <1>2, QuietStep

LEMMA LeaveIsHeard ==
    ASSUME AInv, IInv', NEW s \in Sessions, Leave(s)
    PROVE  AInv'
  <1>0. UNCHANGED <<listener, permit>> /\ Set(s, [reader |-> "left"])
    BY DEF Leave
  <1>1. /\ Seats'
        /\ \A t \in Sessions : session'[t].writer = session[t].writer
                               /\ session'[t].id = session[t].id
    <2>1. /\ Seats' /\ \A t \in Sessions \ {s} : session'[t] = session[t]
          /\ session'[s].writer = session[s].writer /\ session'[s].id = session[s].id
      BY <1>0, SetFields DEF AInv
    <2> QED  BY <2>1
  <1>2. CASE room = NoRoom
    <2>1. UNCHANGED <<room, toWake>>
      BY <1>2 DEF Leave
    <2> QED  BY <1>0, <1>1, <1>2, <2>1, QuietStep DEF AInv
  <1>3. CASE room # NoRoom
    <2> DEFINE p == session[s].id
               own == OwnMember(s)
               before == IF own = {} THEN {[room |-> room, woken |-> {}]} ELSE Outcomes(room, own)
    <2>1. PICK o \in before :
              /\ room' = Kept([o.room EXCEPT !.connections = Without(@, {p})])
              /\ toWake' = toWake \cup o.woken \cup WaitersOf(room, {p})
      BY <1>3 DEF Leave
    <2> DEFINE r == o.room
               e == [r EXCEPT !.connections = Without(r.connections, {p})]
    <2>2. RoomInv(room) /\ Held(room, listener) /\ ListenersAre(listener) /\ Wired(room)
      BY <1>3 DEF AInv, IInv, RoomState
    <2>3. own \in SUBSET Members(room)
      BY DEF OwnMember
    <2>4. Shape(r)
      <3>1. CASE own = {}
        BY <2>2, <3>1 DEF RoomInv
      <3>2. CASE own # {}
        BY <2>2, <2>3, <3>2, OutcomeIsRoom DEF RoomInv
      <3> QED  BY <3>1, <3>2
    <2>5. room' # NoRoom => room' = e
      BY <2>1, KeptIsSame
    <2>6. /\ e.outbox = r.outbox /\ e.owed = r.owed /\ e.addresses = r.addresses
          /\ e.connections = Without(r.connections, {p})
      BY <2>4 DEF Shape
    <2>7. DOMAIN e.connections \subseteq DOMAIN r.connections
          /\ \A q \in DOMAIN e.connections : e.connections[q] = r.connections[q]
      BY <2>6 DEF Without
    <2> HIDE DEF e
    <2>8. CASE own # {}
      <3>1. o \in Outcomes(room, own)
        BY <2>8
      <3>2. toWake \cup o.woken \subseteq toWake'
        BY <2>1
      <3> QED  BY <1>0, <1>1, <1>3, <2>3, <2>5, <2>6, <2>7, <3>1, <3>2, OutcomeIsHeard
    <2>9. CASE own = {}
      <3>1. r = room /\ toWake \subseteq toWake'
        BY <2>1, <2>9
      <3>2. room' # NoRoom => Wired(room')
        BY <2>2, <2>5, <2>7, <3>1 DEF Wired
      <3>3. \A t, q : room' # NoRoom /\ Due(room', q, t) => Due(room, q, t)
        BY <2>5, <2>6, <2>7, <3>1 DEF Due, Members
      <3>4. \A x : room' # NoRoom /\ DueAt(room', x) => DueAt(room, x)
        BY <2>5, <2>6, <3>1 DEF DueAt
      <3> QED  BY <1>0, <1>1, <1>3, <3>1, <3>2, <3>3, <3>4, QuietStep
    <2> QED  BY <2>8, <2>9
  <1> QED  BY <1>2, <1>3

LEMMA LookIsHeard ==
    ASSUME AInv, IInv', NEW s \in Sessions, Look(s)
    PROVE  AInv'
  <1> DEFINE p == session[s].id
             pops == room # NoRoom /\ p \in Members(room) /\ room.outbox[p] # << >>
  <1>0. UNCHANGED <<listener, permit, toWake>>
    BY DEF Look
  <1>1. CASE pops
    <2>1. /\ Set(s, [writer |-> "send", frame |-> Head(room.outbox[p])])
          /\ room' = [room EXCEPT !.outbox[p] = Tail(@)]
      BY <1>1 DEF Look
    <2>2. /\ Seats' /\ session'[s].writer = "send"
          /\ \A t \in Sessions \ {s} : session'[t] = session[t]
      BY <1>0, <2>1, SetFields DEF AInv
    <2> DEFINE outbox == [room.outbox EXCEPT ![p] = Tail(@)]
    <2>3. RoomInv(room) /\ Wired(room)
      BY <1>1 DEF AInv, IInv, RoomState
    <2>4. room' = [room EXCEPT !.outbox = outbox]
      BY <2>1
    <2>5. /\ DOMAIN outbox = DOMAIN room.outbox
          /\ \A q \in DOMAIN outbox : outbox[q] # << >> => room.outbox[q] # << >>
      BY <1>1
    <2> HIDE DEF outbox
    <2>6. /\ room'.outbox = outbox /\ room'.connections = room.connections
          /\ room'.owed = room.owed /\ room'.addresses = room.addresses
      BY <2>3, <2>4 DEF RoomInv, Shape
    <2>7. Wired(room')
      BY <2>3, <2>6 DEF Wired
    <2>8. \A t, q : Due(room', q, t) => Due(room, q, t)
      BY <2>5, <2>6 DEF Due, Members
    <2>9. \A x : DueAt(room', x) => DueAt(room, x)
      <3>1. \A x \in DOMAIN room.addresses : room.addresses[x] \in DOMAIN room.outbox
        BY <2>3 DEF RoomInv, Agrees, Members
      <3> QED  BY <2>5, <2>6, <3>1 DEF DueAt
    <2> QED  BY <1>0, <1>1, <2>2, <2>7, <2>8, <2>9, QuietStep
  <1>2. CASE ~pops
    <2>1. UNCHANGED room
      BY <1>2 DEF Look
    <2>2. PICK next \in {"wait", "done", "take"} :
              /\ Set(s, [writer |-> next])
              /\ next = "wait" /\ room # NoRoom => p \in Members(room) /\ room.outbox[p] = << >>
      BY <1>2 DEF Look
    <2>3. /\ Seats' /\ session'[s].writer = next /\ session'[s].id = session[s].id
          /\ \A t \in Sessions \ {s} : session'[t] = session[t]
      BY <1>0, <2>2, SetFields DEF AInv
    <2>4. \A t \in Sessions : WriterIdle(t)'
      <3>1. WriterIdle(s)'
        BY <2>1, <2>2, <2>3 DEF WriterIdle, Due
      <3>2. \A t \in Sessions \ {s} : WriterIdle(t)'
        BY <1>0, <2>1, <2>3 DEF WriterIdle, AInv, Sleeps
      <3> QED  BY <3>1, <3>2
    <2>5. \A l \in Listeners : ListenerIdle(l)'
      BY <1>0, <2>1 DEF ListenerIdle, AInv, Sleeps
    <2> QED  BY <2>1, <2>3, <2>4, <2>5 DEF AInv
  <1> QED  BY <1>1, <1>2

LEMMA TakePendingIsHeard ==
    ASSUME AInv, IInv', NEW s \in Sessions, TakePending(s)
    PROVE  AInv'
  <1>0. UNCHANGED <<listener, permit, toWake>> /\ Set(s, [writer |-> "closed"])
    BY DEF TakePending
  <1>1. /\ Seats' /\ session'[s].writer = "closed"
        /\ \A t \in Sessions \ {s} : session'[t] = session[t]
    BY <1>0, SetFields DEF AInv
  <1> DEFINE p == session[s].id
  <1>2. CASE ~Connected(s)
    <2>1. UNCHANGED room
      BY <1>2 DEF TakePending
    <2> QED  BY <1>0, <1>1, <2>1, QuietStep DEF AInv
  <1>3. CASE Connected(s)
    <2> DEFINE c == room.connections[p]
               d == [c EXCEPT !.pending = << >>]
               connections == [room.connections EXCEPT ![p] = d]
    <2>1. room # NoRoom /\ RoomInv(room) /\ Wired(room) /\ p \in DOMAIN room.connections
      BY <1>3 DEF Connected, AInv, IInv, RoomState
    <2>2. room' = [room EXCEPT !.connections = connections]
      BY <1>3 DEF TakePending
    <2>3. {"session", "pending"} \subseteq DOMAIN c
      BY <2>1 DEF Wired
    <2>4. DOMAIN d = DOMAIN c /\ d.session = c.session
      BY <2>3
    <2> HIDE DEF d
    <2>5. /\ DOMAIN connections = DOMAIN room.connections
          /\ \A q \in DOMAIN connections :
                /\ connections[q].session = room.connections[q].session
                /\ DOMAIN connections[q] = DOMAIN room.connections[q]
      BY <2>1, <2>4
    <2> HIDE DEF connections
    <2>6. /\ room'.outbox = room.outbox /\ room'.connections = connections
          /\ room'.owed = room.owed /\ room'.addresses = room.addresses
      BY <2>1, <2>2 DEF RoomInv, Shape
    <2>7. Wired(room')
      BY <2>1, <2>5, <2>6 DEF Wired
    <2>8. \A t, q : Due(room', q, t) => Due(room, q, t)
      BY <2>5, <2>6 DEF Due, Members
    <2>9. \A x : DueAt(room', x) => DueAt(room, x)
      BY <2>6 DEF DueAt
    <2> QED  BY <1>0, <1>1, <2>1, <2>7, <2>8, <2>9, QuietStep
  <1> QED  BY <1>2, <1>3

LEMMA SessionIsHeard ==
    ASSUME AInv, IInv', NEW s \in Sessions, Ping(s) \/ StopReading(s) \/ Send(s) \/ Notified(s)
    PROVE  AInv'
  <1>1. UNCHANGED <<room, listener, toWake>>
    BY DEF Ping, StopReading, Send, Notified
  <1>2. /\ DOMAIN session' = Sessions /\ DOMAIN permit' = Waiters
        /\ \A t \in Sessions : {"id", "writer"} \subseteq DOMAIN session'[t]
        /\ \A w \in Waiters \ {s} : permit'[w] = permit[w]
        /\ \A t \in Sessions \ {s} : session'[t] = session[t]
        /\ session'[s].writer = "wait" =>
               /\ session[s].writer = "wait" /\ session'[s].id = session[s].id
               /\ ~permit'[s] => ~permit[s]
    <2>1. CASE Ping(s)
      BY <2>1 DEF Ping, AInv, Seats, Waiters
    <2>2. CASE StopReading(s)
      <3>1. Set(s, [reader |-> "ended"]) /\ UNCHANGED permit
        BY <2>2 DEF StopReading
      <3>2. /\ Seats' /\ session'[s].writer = session[s].writer
            /\ session'[s].id = session[s].id
            /\ \A t \in Sessions \ {s} : session'[t] = session[t]
        BY <3>1, SetFields DEF AInv
      <3> QED  BY <3>1, <3>2 DEF Seats
    <2>3. CASE Send(s)
      <3>1. PICK next \in {"look", "done"} : Set(s, [writer |-> next, frame |-> 0])
        BY <2>3 DEF Send
      <3>2. UNCHANGED permit
        BY <2>3 DEF Send
      <3>3. /\ Seats' /\ session'[s].writer = next
            /\ \A t \in Sessions \ {s} : session'[t] = session[t]
        BY <3>1, <3>2, SetFields DEF AInv
      <3> QED  BY <3>2, <3>3 DEF Seats
    <2>4. CASE Notified(s)
      <3>1. Set(s, [writer |-> "look"]) /\ permit' = [permit EXCEPT ![s] = FALSE]
        BY <2>4 DEF Notified
      <3> DEFINE new == [f \in DOMAIN session[s] |-> IF f \in DOMAIN [writer |-> "look"]
                            THEN [writer |-> "look"][f] ELSE session[s][f]]
      <3>2. session' = [session EXCEPT ![s] = new]
        BY <3>1 DEF Set
      <3>3. {"id", "writer"} \subseteq DOMAIN session[s] /\ DOMAIN session = Sessions
            /\ DOMAIN permit = Waiters
        BY DEF AInv, Seats
      <3>4. DOMAIN new = DOMAIN session[s] /\ new["writer"] = "look"
        BY <3>3
      <3> HIDE DEF new
      <3> QED  BY <3>1, <3>2, <3>3, <3>4 DEF AInv, Seats
    <2> QED  BY <2>1, <2>2, <2>3, <2>4
  <1>3. s \notin Listeners
    BY RuntimeAssumption
  <1>4. \A t \in Sessions : WriterIdle(t)'
    BY <1>1, <1>2 DEF WriterIdle, AInv, Sleeps, Waiters
  <1>5. \A l \in Listeners : ListenerIdle(l)'
    BY <1>1, <1>2, <1>3 DEF ListenerIdle, AInv, Sleeps, Waiters
  <1> QED  BY <1>1, <1>2, <1>4, <1>5 DEF AInv, Seats

LEMMA PhasesMove ==
    ASSUME AInv, NEW l \in Listeners, NEW b, listener' = [listener EXCEPT ![l] = b]
    PROVE  /\ listener'[l] = b
           /\ \A k \in Listeners \ {l} : listener'[k] = listener[k]
  BY DEF AInv, IInv, ListenersAre

LEMMA ReceiveIsHeard ==
    ASSUME AInv, IInv', NEW l \in Listeners, NEW x \in Of(l), Receive(l, x)
    PROVE  AInv'
  <1>0. UNCHANGED <<session, permit>>
    BY DEF Receive
  <1>1. Seats'
    BY <1>0 DEF AInv, Seats
  <1>2. \A k \in Listeners : listener'[k].phase # "take" => listener[k].phase # "take"
    <2>1. listener' = [listener EXCEPT ![l] = [listener[l] EXCEPT !.phase = "take"]]
      BY DEF Receive, Phase
    <2> DEFINE b == [listener[l] EXCEPT !.phase = "take"]
    <2>2. listener'[l] = b /\ \A k \in Listeners \ {l} : listener'[k] = listener[k]
      BY <2>1, PhasesMove
    <2> QED  BY <2>2 DEF Receive
  <1>3. CASE FromPeer(x)
    <2>1. PICK o \in Outcomes(room, {}) : room' = o.room /\ toWake' = toWake \cup o.woken
      BY <1>3 DEF FromPeer
    <2>2. room # NoRoom
      BY <1>3 DEF FromPeer, Mapped
    <2> QED  BY <1>0, <1>1, <1>2, <2>1, <2>2, OutcomeIsHeard
  <1>4. CASE FromStranger(x)
    <2> DEFINE r == At(Found, x)
    <2>1. PICK o \in Outcomes(r, {}) : room' = o.room /\ toWake' = toWake \cup o.woken
      BY <1>4 DEF FromStranger, At
    <2>2. x \notin DOMAIN Found.addresses /\ x \notin Found.draining
      BY <1>4 DEF FromStranger, Mapped, AdmissionBlocked, Found, BindRoom
    <2>3. RoomInv(Found) /\ RoomInv(r)
      BY <2>2, FoundIsRoom, AtIsRoom DEF Receive, AInv, IInv
    <2>4. /\ Wired(r)
          /\ \A t, p : Due(r, p, t) => room # NoRoom /\ Due(room, p, t)
          /\ \A y \in Sources : DueAt(r, y) => room # NoRoom /\ DueAt(room, y)
      BY <2>2, <2>3, NewRoomIsIdle, AtIsIdle
    <2> HIDE DEF r
    <2>5. /\ Wired(o.room)
          /\ \A t \in Sessions : \A p : ~Due(r, p, t) /\ t \notin o.woken => ~Due(o.room, p, t)
          /\ \A y \in Sources : ~DueAt(r, y) /\ y[1] \notin o.woken => ~DueAt(o.room, y)
      BY <2>3, <2>4, OutcomeWakes
    <2>6. ASSUME NEW k \in Listeners, k \notin toWake', NEW y \in Of(k), DueAt(room', y)
          PROVE  room # NoRoom /\ DueAt(room, y)
      BY <2>1, <2>4, <2>5, <2>6 DEF Of
    <2>7. ASSUME NEW t \in Sessions, t \notin toWake', NEW p, Due(room', p, t)
          PROVE  room # NoRoom /\ Due(room, p, t)
      BY <2>1, <2>4, <2>5, <2>7
    <2> QED  BY <1>0, <1>1, <1>2, <2>1, <2>5, <2>6, <2>7, QuietStep
  <1>5. CASE Unheard(x)
    BY <1>0, <1>1, <1>2, <1>5, QuietStep DEF Unheard, AInv
  <1> QED  BY <1>3, <1>4, <1>5 DEF Receive

LEMMA WokeIsHeard ==
    ASSUME AInv, IInv', NEW l \in Listeners, Woke(l)
    PROVE  AInv'
  <1> DEFINE b == [listener[l] EXCEPT !.phase = "take"]
  <1>1. listener' = [listener EXCEPT ![l] = b] /\ UNCHANGED <<room, session, toWake>>
    BY DEF Woke, Phase
  <1>2. listener'[l] = b /\ \A k \in Listeners \ {l} : listener'[k] = listener[k]
    BY <1>1, PhasesMove
  <1>3. b.phase = "take"
    BY DEF AInv, IInv, ListenersAre, Listening
  <1>4. l \notin Sessions
    BY RuntimeAssumption
  <1>5. DOMAIN permit' = Waiters /\ \A w \in Waiters \ {l} : permit'[w] = permit[w]
    BY DEF Woke, AInv, Seats
  <1> HIDE DEF b
  <1>6. \A s \in Sessions : WriterIdle(s)'
    BY <1>1, <1>4, <1>5 DEF WriterIdle, AInv, Sleeps, Waiters
  <1>7. \A k \in Listeners : ListenerIdle(k)'
    BY <1>1, <1>2, <1>3, <1>5 DEF ListenerIdle, AInv, Sleeps, Waiters
  <1> QED  BY <1>1, <1>5, <1>6, <1>7 DEF AInv, Seats

LEMMA TakeIsHeard ==
    ASSUME AInv, IInv', NEW l \in Listeners, Take(l)
    PROVE  AInv'
  <1>0. UNCHANGED <<session, permit, toWake>> /\ Seats'
    BY DEF Take, AInv, Seats
  <1>1. CASE room = NoRoom
    <2>1. UNCHANGED room
      BY <1>1 DEF Take
    <2>2. \A s \in Sessions : WriterIdle(s)'
      BY <1>1, <2>1 DEF WriterIdle
    <2>3. \A k \in Listeners : ListenerIdle(k)'
      BY <1>1, <2>1 DEF ListenerIdle
    <2> QED  BY <1>0, <1>1, <2>1, <2>2, <2>3 DEF AInv
  <1>2. CASE room # NoRoom
    <2> DEFINE b == [phase |-> "send", batch |-> Batch(l), tombstones |-> room.draining \cap Of(l)]
               e == Taken(room, l)
    <2>1. listener' = [listener EXCEPT ![l] = b] /\ room' = e
      BY <1>2 DEF Take
    <2>2. RoomInv(room) /\ Wired(room)
      BY <1>2 DEF AInv, IInv, RoomState
    <2>3. listener'[l] = b /\ \A k \in Listeners \ {l} : listener'[k] = listener[k]
      <3> HIDE DEF b
      <3> QED  BY <2>1, PhasesMove
    <2>4. /\ e.connections = room.connections /\ e.addresses = room.addresses
          /\ e.owed = [x \in Sources |-> IF x \in Of(l) THEN << >> ELSE room.owed[x]]
          /\ e.outbox = [p \in DOMAIN room.outbox |->
                IF p \in DOMAIN room.peers /\ room.peers[p] \in Of(l) THEN << >>
                ELSE room.outbox[p]]
      BY <2>2 DEF Taken, RoomInv, Shape
    <2> HIDE DEF b, e
    <2>5. Wired(e)
      BY <2>2, <2>4 DEF Wired
    <2>6. \A t, p : Due(e, p, t) => Due(room, p, t)
      BY <2>4 DEF Due, Members
    <2>7. \A x \in Sources : DueAt(e, x) => DueAt(room, x) /\ x \notin Of(l)
      <3>1. \A x \in DOMAIN room.addresses :
               LET p == room.addresses[x]
               IN  p \in DOMAIN room.outbox /\ p \in DOMAIN room.peers /\ room.peers[p] = x
        BY <2>2 DEF RoomInv, Agrees, Members
      <3> QED  BY <2>4, <3>1 DEF DueAt
    <2>8. \A s \in Sessions : WriterIdle(s)'
      BY <1>0, <1>2, <2>1, <2>6 DEF WriterIdle, AInv, Sleeps
    <2>9. \A k \in Listeners : ListenerIdle(k)'
      <3>1. \A k \in Listeners : \A x : x \in Of(k) => x \in Sources
        BY DEF Of
      <3> QED  BY <1>0, <1>2, <2>1, <2>3, <2>7, <3>1 DEF ListenerIdle, AInv, Sleeps
    <2> QED  BY <1>0, <2>1, <2>5, <2>8, <2>9 DEF AInv
  <1> QED  BY <1>1, <1>2

LEMMA SendToIsHeard ==
    ASSUME AInv, IInv', NEW l \in Listeners, NEW x \in Of(l), SendTo(l, x)
    PROVE  AInv'
  <1>1. UNCHANGED <<room, session, permit, toWake>> /\ Seats'
    BY DEF SendTo, AInv, Seats
  <1>2. \A k \in Listeners : listener'[k].phase # "take" => listener[k].phase # "take"
    <2> DEFINE b == [listener[l] EXCEPT !.batch[x] = Tail(@)]
    <2>1. listener' = [listener EXCEPT ![l] = b]
      BY DEF SendTo
    <2>2. listener'[l] = b /\ \A k \in Listeners \ {l} : listener'[k] = listener[k]
      <3> HIDE DEF b
      <3> QED  BY <2>1, PhasesMove
    <2> QED  BY <2>2 DEF SendTo
  <1> QED  BY <1>1, <1>2, QuietStep DEF AInv

LEMMA FinishIsHeard ==
    ASSUME AInv, IInv', NEW l \in Listeners, Finish(l)
    PROVE  AInv'
  <1>1. UNCHANGED <<session, permit, toWake>> /\ Seats'
    BY DEF Finish, AInv, Seats
  <1>2. \A k \in Listeners : listener'[k].phase # "take" => listener[k].phase # "take"
    <2> DEFINE b == [phase |-> "receive", batch |-> listener[l].batch, tombstones |-> {}]
    <2>1. listener' = [listener EXCEPT ![l] = b]
      BY DEF Finish
    <2>2. listener'[l] = b /\ \A k \in Listeners \ {l} : listener'[k] = listener[k]
      <3> HIDE DEF b
      <3> QED  BY <2>1, PhasesMove
    <2> QED  BY <2>2 DEF Finish
  <1>3. CASE room = NoRoom
    <2>1. UNCHANGED room
      BY <1>3 DEF Finish
    <2> QED  BY <1>1, <1>2, <1>3, <2>1, QuietStep
  <1>4. CASE room # NoRoom
    <2> DEFINE inflight == room.inflight \ {l}
               draining == room.draining \ Tombstones(l)
               e == [room EXCEPT !.inflight = inflight, !.draining = draining]
    <2>1. room' = Kept(e)
      BY <1>4 DEF Finish
    <2>2. RoomInv(room) /\ Wired(room)
      BY <1>4 DEF AInv, IInv, RoomState
    <2> HIDE DEF inflight, draining
    <2>3. /\ e.connections = room.connections /\ e.addresses = room.addresses
          /\ e.owed = room.owed /\ e.outbox = room.outbox
      BY <2>2 DEF RoomInv, Shape
    <2>4. room' # NoRoom => room' = e
      BY <2>1, KeptIsSame
    <2> HIDE DEF e
    <2>5. room' # NoRoom => Wired(room')
      BY <2>2, <2>3, <2>4 DEF Wired
    <2>6. \A t, p : room' # NoRoom /\ Due(room', p, t) => Due(room, p, t)
      BY <2>3, <2>4 DEF Due, Members
    <2>7. \A x : room' # NoRoom /\ DueAt(room', x) => DueAt(room, x)
      BY <2>3, <2>4 DEF DueAt
    <2> QED  BY <1>1, <1>2, <1>4, <2>5, <2>6, <2>7, QuietStep
  <1> QED  BY <1>3, <1>4

LEMMA NotifyIsHeard ==
    ASSUME AInv, IInv', NEW w \in Waiters, Notify(w)
    PROVE  AInv'
  <1>1. UNCHANGED <<room, session, listener>> /\ toWake' = toWake \ {w}
        /\ permit' = [permit EXCEPT ![w] = TRUE]
    BY DEF Notify
  <1>2. DOMAIN permit' = Waiters /\ permit'[w] = TRUE
        /\ \A v \in Waiters \ {w} : permit'[v] = permit[v]
    BY <1>1 DEF AInv, Seats
  <1>3. \A v \in Waiters : Sleeps(v)' => Sleeps(v)
    BY <1>1, <1>2 DEF Sleeps
  <1>4. \A s \in Sessions : WriterIdle(s)'
    BY <1>1, <1>3 DEF WriterIdle, AInv, Waiters
  <1>5. \A l \in Listeners : ListenerIdle(l)'
    BY <1>1, <1>3 DEF ListenerIdle, AInv, Waiters
  <1> QED  BY <1>1, <1>2, <1>4, <1>5 DEF AInv, Seats

LEMMA NextIsHeard ==
    ASSUME AInv, [Next]_vars
    PROVE  AInv'
  <1>1. IInv'
    BY NextKeepsRoom DEF AInv
  <1>2. CASE UNCHANGED vars
    <2>1. UNCHANGED <<room, session, listener, permit, toWake>>
      BY <1>2 DEF vars
    <2>2. Seats'
      BY <2>1 DEF AInv, Seats
    <2> QED  BY <1>1, <2>1, <2>2, QuietStep DEF AInv
  <1>3. ASSUME NEW s \in Sessions, Reads(s) \/ Writes(s)
        PROVE  AInv'
    BY <1>1, <1>3, JoinIsHeard, EnvelopeIsHeard, LeaveIsHeard, LookIsHeard, TakePendingIsHeard,
       SessionIsHeard DEF Reads, Writes
  <1>4. ASSUME NEW l \in Listeners, Drains(l) \/ \E x \in Of(l) : Receive(l, x)
        PROVE  AInv'
    BY <1>1, <1>4, WokeIsHeard, TakeIsHeard, FinishIsHeard, SendToIsHeard, ReceiveIsHeard
       DEF Drains
  <1> QED  BY <1>1, <1>2, <1>3, <1>4, TickIsHeard, CloseRoomIsHeard, NotifyIsHeard DEF Next

(* No task sleeps through a wake-up, although frames are queued under the   *)
(* lock and the wake-ups are sent after it was released (runtime.rs         *)
(* Effects, tokio's stored permit, and the order look-then-wait of          *)
(* websocket.rs write_loop and of the UDP driver).                          *)
THEOREM NobodySleepsOn == Spec => []NoLostWakeup
  <1>1. ASSUME Init  PROVE AInv
    <2>1. IInv
      BY <1>1, RoomHoldsAtFirst
    <2>2. room = NoRoom
      BY <1>1 DEF Init
    <2>3. Seats
      BY <1>1 DEF Init, Seats
    <2> QED  BY <2>1, <2>2, <2>3 DEF AInv, WriterIdle, ListenerIdle
  <1>2. ASSUME AInv  PROVE NoLostWakeup
    <2>1. ASSUME NEW s \in Sessions, Connected(s),
                 room.connections[session[s].id].session = s, session[s].writer = "wait", Sleeps(s)
          PROVE  session[s].id \in Members(room) /\ room.outbox[session[s].id] = << >>
      BY <1>2, <2>1 DEF AInv, WriterIdle, Connected, Due
    <2>2. ASSUME NEW l \in Listeners, listener[l].phase = "receive", Sleeps(l), NEW x \in Of(l)
          PROVE  Unsent(x) = << >>
      <3>1. IInv /\ x \in Sources /\ x[1] = l
        BY <1>2 DEF AInv, Of
      <3>2. CASE room = NoRoom
        BY <3>1, <3>2, UnsentIsOwn
      <3>3. CASE room # NoRoom
        <4>1. ~DueAt(room, x)
          BY <1>2, <2>2, <3>3 DEF AInv, ListenerIdle
        <4>2. listener[l].batch[x] = << >>
          BY <2>2, <3>1 DEF IInv, ListenersAre, Listening, Nothing
        <4>3. Live(x) = << >>
          BY <4>1 DEF DueAt, Live, Datagrams
        <4>4. room.owed[x] = << >>
          BY <4>1 DEF DueAt
        <4> QED  BY <3>1, <3>3, <4>2, <4>3, <4>4 DEF Unsent
      <3> QED  BY <3>2, <3>3
    <2> QED  BY <2>1, <2>2 DEF NoLostWakeup
  <1> QED  BY <1>1, <1>2, NextIsHeard, PTL DEF Spec
=============================================================================
