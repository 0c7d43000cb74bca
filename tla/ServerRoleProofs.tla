-------------------------- MODULE ServerRoleProofs --------------------------
(***************************************************************************)
(* Proofs about ServerRole, for rooms, games and FIFOs of every size: its  *)
(* invariants, the two promises about what inputs make it send, and the    *)
(* refinement of RoomLifecycle.                                            *)
(*                                                                         *)
(* The argument.  A removal may set off a broadcast, a broadcast a full    *)
(* FIFO and a full FIFO a removal, so no handler is proved by itself.      *)
(* Loses(r, s) says what any number of removals may make of a room and is  *)
(* closed under composition (LosesTwice); by induction over the levels of  *)
(* Cascade every enqueue stays within it (CascadeServes).  Each handler    *)
(* then has one of a few Effects on the role, and stays quiet towards      *)
(* peers that drain; each Effect keeps RoleInv, the inductive invariant,   *)
(* and is a step of RoomLifecycle or invisible to it.                      *)
(*                                                                         *)
(* How much an input says.  For each member, Heads counts the reliable     *)
(* packets a batch holds for it and the one an empty FIFO could add, Words *)
(* the plain ones and the notice of removal that a connected one has to    *)
(* come.  What a cascade does raises neither (Lighter), so a handler adds  *)
(* only what it says itself: HandleIsBrief.                                *)
(***************************************************************************)
EXTENDS MCServerRole, FiniteSetTheorems, SequenceTheorems, WellFoundedInduction, TLAPS

(* The None of the model is nothing else. *)
LEMMA Constants ==
    /\ MaxJoins \in Nat \ {0} /\ MaxPeers \in Nat \ {0} /\ MaxNodes \in Nat \ {0}
    /\ NetMaxPlayers \in Nat \ {0} /\ ReliableCap \in Nat \ {0} /\ DisconnectSends \in Nat \ {0}
    /\ MaxPeers < MaxNodes /\ Capabilities \subseteq Nat
    /\ None \notin Nat /\ None \notin Modes /\ None \notin Peer /\ None \notin Ids
    /\ None \notin Slots /\ Ids \subseteq Nat /\ Slots \subseteq Nat
  BY RoleAssumption, NoneAssumption DEF Ids, Slots

(* A role is the record of its five fields.                                 *)
LEMMA RoleFields ==
    ASSUME NEW r
    PROVE  r \in Roles <=>
             /\ r = [state |-> r.state, gamemode |-> r.gamemode, settings |-> r.settings,
                     peers |-> r.peers, nextOrder |-> r.nextOrder]
             /\ r.state \in {"WaitingLaunch", "WaitingStart", "InGame"}
             /\ r.gamemode \in Modes \cup {None} /\ r.settings \in BOOLEAN
             /\ r.peers \in [Ids -> Peer \cup {None}] /\ r.nextOrder \in 0..MaxJoins
  BY DEF Roles

(* A member of a role is a peer record, each field in its type.             *)
LEMMA MemberIsPeer ==
    ASSUME NEW r \in Roles, NEW p \in Members(r)
    PROVE  /\ p \in Ids /\ r.peers[p] \in Peer /\ r.peers[p].outbox \in Seq(ReliablePackets)
           /\ r.peers[p].syn \in BOOLEAN /\ r.peers[p].drone \in BOOLEAN
           /\ r.peers[p].ready \in BOOLEAN /\ r.peers[p].game \in BOOLEAN
           /\ r.peers[p].conn \in {"Connected", "Disconnecting", "Sleeping"}
           /\ r.peers[p].slot \in Slots \cup {None} /\ Len(r.peers[p].outbox) \in Nat
  <1>1. p \in Ids /\ r.peers[p] # None
    BY DEF Members
  <1>2. r.peers[p] \in Peer
    BY <1>1 DEF Roles
  <1> QED  BY <1>1, <1>2 DEF Peer

(* Players are connected, the connected are accepted, the accepted are      *)
(* members.                                                                 *)
LEMMA Subsets ==
    ASSUME NEW r
    PROVE  /\ Players(r) \subseteq Connected(r) /\ Connected(r) \subseteq Accepted(r)
           /\ Accepted(r) \subseteq Members(r) /\ Members(r) \subseteq Ids
           /\ Draining(r) \subseteq Members(r)
  BY DEF Players, Connected, Accepted, Members, IsPlayer, Draining

(* A room is finite, and so are its parts.                                  *)
LEMMA MembersFinite ==
    ASSUME NEW r
    PROVE  /\ IsFiniteSet(Members(r)) /\ Cardinality(Members(r)) \in Nat
           /\ \A S \in SUBSET Members(r) :
                 IsFiniteSet(S) /\ Cardinality(S) \in Nat /\ Cardinality(S) <= Cardinality(Members(r))
           /\ Cardinality(Members(r)) = 0 => Members(r) = {}
  <1>1. IsFiniteSet(Ids)
    BY Constants, FS_Interval DEF Ids
  <1>2. IsFiniteSet(Members(r))
    BY <1>1, Subsets, FS_Subset
  <1>3. \A S \in SUBSET Members(r) : IsFiniteSet(S) /\ Cardinality(S) <= Cardinality(Members(r))
    BY <1>2, FS_Subset
  <1>4. \A S \in SUBSET Members(r) : Cardinality(S) \in Nat
    BY <1>3, FS_CardinalityType
  <1> QED  BY <1>2, <1>3, <1>4, FS_CardinalityType, FS_EmptySet

-----------------------------------------------------------------------------
(* What the removal of members does to the rest of the room.               *)

(* Nothing but its FIFO and its retries changes for a member that stays.    *)
Same(x, y) ==
    /\ y.syn = x.syn /\ y.slot = x.slot /\ y.conn = x.conn /\ y.drone = x.drone
    /\ y.maxPlayers = x.maxPlayers /\ y.mode = x.mode /\ y.ready = x.ready
    /\ y.game = x.game /\ y.gameIndex = x.gameIndex
    /\ ~x.syn => y.outbox = x.outbox

(* The end of the game disconnects it, and takes its game state.            *)
Closed(x, y) ==
    /\ y.syn = x.syn /\ y.slot = x.slot /\ y.drone = x.drone
    /\ y.maxPlayers = x.maxPlayers /\ y.mode = x.mode /\ y.ready = x.ready
    /\ y.conn = IF x.conn = "Connected" THEN "Disconnecting" ELSE x.conn
    /\ y.game = FALSE /\ y.gameIndex = None

Kept(r, s) ==
    /\ s.state = r.state /\ s.gamemode = r.gamemode /\ s.settings = r.settings
    /\ s.nextOrder = r.nextOrder
    /\ Members(s) \subseteq Members(r) /\ Members(r) \ Members(s) \subseteq Accepted(r)
    /\ \A p \in Members(s) : Same(r.peers[p], s.peers[p])

Over(r, s) ==
    /\ s.state = "WaitingLaunch" /\ s.gamemode = None /\ s.settings = FALSE
    /\ s.nextOrder = r.nextOrder
    /\ Members(s) \subseteq Accepted(r)
    /\ \A p \in Members(s) : Closed(r.peers[p], s.peers[p])

Lost(r, s) == Accepted(r) \ Members(s)

(* The loss of S ends the game (EndsGame of RoomLifecycle). *)
EndsIt(r, S) == (r.state = "WaitingStart" /\ S \cap Players(r) # {}) \/ Players(r) \subseteq S

Loses(r, s) ==
    \/ Kept(r, s) /\ (Lost(r, s) # {} => ~EndsIt(r, Lost(r, s)))
    \/ Over(r, s) /\ Lost(r, s) # {} /\ EndsIt(r, Lost(r, s))

(* FIFOs only grow, and who was connected has heard of the end of the game. *)
Heard(r, s) ==
    \A p \in Members(s) :
        /\ Len(s.peers[p].outbox) >= Len(r.peers[p].outbox)
        /\ p \in Connected(r) /\ p \notin Connected(s) => Len(s.peers[p].outbox) > 0

(* The peers' slots and FIFOs are in order, and a stranger's connection is  *)
(* up: what ends a game drops it.                                           *)
Orderly(r) ==
    /\ \A p \in Members(r) : Len(r.peers[p].outbox) <= ReliableCap
    /\ \A p \in Members(r) : r.peers[p].syn <=> r.peers[p].slot # None
    /\ \A p, q \in Accepted(r) : r.peers[p].slot = r.peers[q].slot => p = q
    /\ \A p \in Members(r) \ Accepted(r) : r.peers[p].conn = "Connected"

(* While the room goes on, each set of members just loses who was removed.  *)
LEMMA KeptSets ==
    ASSUME NEW r \in Roles, NEW s \in Roles, Kept(r, s)
    PROVE  /\ Accepted(s) = Accepted(r) \cap Members(s)
           /\ Connected(s) = Connected(r) \cap Members(s)
           /\ Players(s) = Players(r) \cap Members(s)
           /\ Accepted(s) = Accepted(r) \ Lost(r, s)
           /\ Connected(s) = Connected(r) \ Lost(r, s)
           /\ Players(s) = Players(r) \ Lost(r, s)
           /\ Members(s) = Members(r) \ Lost(r, s)
  <1>1. /\ Accepted(s) = Accepted(r) \cap Members(s)
        /\ Connected(s) = Connected(r) \cap Members(s)
        /\ Players(s) = Players(r) \cap Members(s)
    BY DEF Kept, Same, Accepted, Connected, Players, IsPlayer
  <1>2. Members(s) = Members(r) \ Lost(r, s)
    BY Subsets DEF Kept, Lost
  <1> QED  BY <1>1, <1>2, Subsets

(* Once the game is over nobody is connected and every stranger is gone.    *)
LEMMA OverSets ==
    ASSUME NEW r \in Roles, NEW s \in Roles, Over(r, s)
    PROVE  /\ Accepted(s) = Members(s) /\ Connected(s) = {} /\ Players(s) = {}
           /\ Members(s) = Accepted(r) \ Lost(r, s)
  <1>1. Accepted(s) = Members(s)
    BY DEF Over, Closed, Accepted
  <1>2. \A p \in Members(s) : s.peers[p].conn # "Connected"
    BY DEF Over, Closed
  <1>3. Connected(s) = {} /\ Players(s) = {}
    BY <1>2, Subsets DEF Connected
  <1> QED  BY <1>1, <1>3 DEF Over, Lost

(* A room that kept its members has lost nobody.                            *)
LEMMA LosesNothing ==
    ASSUME NEW r \in Roles, NEW s \in Roles, Kept(r, s), Members(s) = Members(r)
    PROVE  Loses(r, s) /\ Lost(r, s) = {}
  BY Subsets DEF Loses, Lost

(* A removal after a removal, and a loss after a loss, is one. *)
LEMMA Twice ==
    ASSUME NEW r \in Roles, NEW s \in Roles, NEW t \in Roles,
           Kept(r, s) \/ Over(r, s), Kept(s, t) \/ Over(s, t)
    PROVE  /\ Kept(r, s) /\ Kept(s, t) => Kept(r, t)
           /\ Over(r, s) \/ Over(s, t) => Over(r, t)
           /\ Lost(r, t) = Lost(r, s) \cup Lost(s, t)
           /\ Members(t) \subseteq Members(s) /\ Members(s) \subseteq Members(r)
  <1>1. Members(t) \subseteq Members(s) /\ Members(s) \subseteq Members(r)
    BY Subsets DEF Kept, Over
  <1>2. Lost(r, t) = Lost(r, s) \cup Lost(s, t)
    <2>1. Accepted(s) = Accepted(r) \cap Members(s)
      BY KeptSets, OverSets DEF Lost
    <2> QED  BY <1>1, <2>1 DEF Lost
  <1>3. ASSUME Kept(r, s), Kept(s, t) PROVE Kept(r, t)
    <2>1. \A p \in Members(t) : Same(r.peers[p], t.peers[p])
      BY <1>3 DEF Kept, Same
    <2>2. Members(r) \ Members(t) \subseteq Accepted(r)
      BY <1>3, KeptSets DEF Kept
    <2> QED  BY <1>3, <2>1, <2>2 DEF Kept
  <1>4. ASSUME Kept(r, s), Over(s, t) PROVE Over(r, t)
    <2>1. \A p \in Members(t) : Closed(r.peers[p], t.peers[p])
      <3>1. \A p \in Members(t) : p \in Members(s) /\ Closed(s.peers[p], t.peers[p])
        BY <1>1, <1>4 DEF Over
      <3>2. \A p \in Members(s) : Same(r.peers[p], s.peers[p])
        BY <1>4 DEF Kept
      <3> QED  BY <3>1, <3>2 DEF Same, Closed
    <2>2. Members(t) \subseteq Accepted(r)
      BY <1>4, KeptSets DEF Over
    <2> QED  BY <1>4, <2>1, <2>2 DEF Kept, Over
  <1>5. ASSUME Over(r, s) PROVE Over(r, t)
    <2>1. \A p \in Members(t) : p \in Members(s) /\ Closed(s.peers[p], t.peers[p])
      <3>1. CASE Kept(s, t)
        BY <1>5, <3>1 DEF Kept, Over, Same, Closed
      <3>2. CASE Over(s, t)
        BY <3>2, Subsets DEF Over
      <3> QED  BY <3>1, <3>2
    <2>2. \A p \in Members(t) : Closed(r.peers[p], t.peers[p])
      BY <1>5, <2>1 DEF Over, Closed
    <2>3. t.state = "WaitingLaunch" /\ t.gamemode = None /\ t.settings = FALSE
          /\ t.nextOrder = r.nextOrder
      BY <1>5 DEF Kept, Over
    <2> QED  BY <1>5, <2>1, <2>2, <2>3 DEF Over
  <1> QED  BY <1>1, <1>2, <1>3, <1>4, <1>5

(* Two removals in a row are one removal of everybody they removed: this is *)
(* what makes a cascade one step of the lifecycle.                          *)
LEMMA LosesTwice ==
    ASSUME NEW r \in Roles, NEW s \in Roles, NEW t \in Roles, Loses(r, s), Loses(s, t)
    PROVE  Loses(r, t) /\ Lost(r, t) = Lost(r, s) \cup Lost(s, t)
  <1> DEFINE Keeps(a, b) == Kept(a, b) /\ (Lost(a, b) # {} => ~EndsIt(a, Lost(a, b)))
             Ends(a, b)  == Over(a, b) /\ Lost(a, b) # {} /\ EndsIt(a, Lost(a, b))
  <1>0. /\ Keeps(r, s) \/ Ends(r, s)
        /\ Keeps(s, t) \/ Ends(s, t)
        /\ Keeps(r, t) \/ Ends(r, t) => Loses(r, t)
    BY DEF Loses
  <1>1. /\ Kept(r, s) /\ Kept(s, t) => Kept(r, t)
        /\ Over(r, s) \/ Over(s, t) => Over(r, t)
        /\ Lost(r, t) = Lost(r, s) \cup Lost(s, t)
    BY <1>0, Twice
  <1>2. Kept(r, s) => Players(s) = Players(r) \ Lost(r, s) /\ s.state = r.state
    BY KeptSets DEF Kept
  <1>3. CASE Keeps(r, s) /\ Keeps(s, t)
    <2>1. ASSUME Lost(r, t) # {}, EndsIt(r, Lost(r, t)) PROVE FALSE
      BY <1>1, <1>2, <1>3, <2>1 DEF EndsIt
    <2> QED  BY <1>0, <1>1, <1>3, <2>1
  <1>4. CASE Keeps(r, s) /\ Ends(s, t)
    <2>1. Lost(r, t) # {} /\ EndsIt(r, Lost(r, t))
      BY <1>1, <1>2, <1>4 DEF EndsIt
    <2> QED  BY <1>0, <1>1, <1>4, <2>1
  <1>5. CASE Ends(r, s)
    <2>1. Lost(r, t) # {} /\ EndsIt(r, Lost(r, t))
      BY <1>1, <1>5 DEF EndsIt
    <2> QED  BY <1>0, <1>1, <1>5, <2>1
  <1> QED  BY <1>0, <1>1, <1>3, <1>4, <1>5

(* What two changes in a row have queued stays queued.                      *)
LEMMA HeardTwice ==
    ASSUME NEW r \in Roles, NEW s \in Roles, NEW t \in Roles,
           Members(t) \subseteq Members(s), Members(s) \subseteq Members(r),
           Heard(r, s), Heard(s, t)
    PROVE  Heard(r, t)
  <1> SUFFICES ASSUME NEW p \in Members(t)
               PROVE  /\ Len(t.peers[p].outbox) >= Len(r.peers[p].outbox)
                      /\ p \in Connected(r) /\ p \notin Connected(t) => Len(t.peers[p].outbox) > 0
    BY DEF Heard
  <1> DEFINE lr == Len(r.peers[p].outbox)
             ls == Len(s.peers[p].outbox)
             lt == Len(t.peers[p].outbox)
  <1>1. lr \in Nat /\ ls \in Nat /\ lt \in Nat
    BY MemberIsPeer
  <1>2. ls >= lr /\ (p \in Connected(r) /\ p \notin Connected(s) => ls > 0)
    BY DEF Heard
  <1>3. lt >= ls /\ (p \in Connected(s) /\ p \notin Connected(t) => lt > 0)
    BY DEF Heard
  <1> HIDE DEF lr, ls, lt
  <1>4. lt >= lr /\ (p \in Connected(r) /\ p \notin Connected(t) => lt > 0)
    BY <1>1, <1>2, <1>3
  <1> QED  BY <1>4 DEF lr, lt

(* A removal adds no member, slot or connected peer.                        *)
LEMMA LosesMembers ==
    ASSUME NEW r \in Roles, NEW s \in Roles, Loses(r, s)
    PROVE  /\ Members(s) \subseteq Members(r) /\ Connected(s) \subseteq Connected(r)
           /\ Players(s) \subseteq Players(r)
           /\ \A p \in Members(s) :
                 s.peers[p].slot = r.peers[p].slot /\ s.peers[p].syn = r.peers[p].syn
           /\ Accepted(s) = Accepted(r) \cap Members(s)
           /\ s.nextOrder = r.nextOrder
  <1>1. CASE Kept(r, s)
    BY <1>1, KeptSets DEF Kept, Same
  <1>2. CASE Over(r, s)
    <2>1. /\ Accepted(s) = Members(s) /\ Connected(s) = {} /\ Players(s) = {}
          /\ Members(s) \subseteq Accepted(r) /\ s.nextOrder = r.nextOrder
      BY <1>2, OverSets DEF Over
    <2>2. \A p \in Members(s) :
             s.peers[p].slot = r.peers[p].slot /\ s.peers[p].syn = r.peers[p].syn
      BY <1>2 DEF Over, Closed
    <2> QED  BY <2>1, <2>2, Subsets
  <1> QED  BY <1>1, <1>2 DEF Loses

(* A removal leaves slots exclusive; the FIFOs' bound is all that is to     *)
(* check.                                                                   *)
LEMMA LosesOrderly ==
    ASSUME NEW r \in Roles, NEW s \in Roles, Loses(r, s), Orderly(r),
           \A p \in Members(s) : Len(s.peers[p].outbox) <= ReliableCap
    PROVE  Orderly(s)
  <1>1. \A p \in Members(s) \ Accepted(s) : s.peers[p].conn = "Connected"
    <2>1. CASE Kept(r, s)
      <3>1. \A p \in Members(s) \ Accepted(s) : p \in Members(r) \ Accepted(r)
        BY <2>1, KeptSets DEF Kept
      <3> QED  BY <2>1, <3>1 DEF Kept, Same, Orderly
    <2>2. CASE Over(r, s)
      BY <2>2, OverSets
    <2> QED  BY <2>1, <2>2 DEF Loses
  <1> QED  BY <1>1, LosesMembers DEF Orderly

-----------------------------------------------------------------------------
(* Loops.  A least counterexample serves as induction.                      *)

(* A set of natural numbers has a least element.                            *)
LEMMA LeastOfSet ==
    ASSUME NEW S \in SUBSET Nat, S # {}
    PROVE  \E n \in S : \A m \in S : n <= m
  <1> DEFINE R == {ss \in Nat \X Nat : ss[1] < ss[2]}
  <1>1. R = OpToRel(<, Nat)
    BY DEF OpToRel
  <1>2. IsWellFoundedOn(R, Nat)
    BY <1>1, NatLessThanWellFounded
  <1>3. \A m, n \in S : <<m, n>> \in R <=> m < n
    OBVIOUS
  <1> HIDE DEF R
  <1>4. \E n \in S : \A m \in S : ~ (<<m, n>> \in R)
    BY <1>2, WFMin
  <1>5. PICK n \in S : \A m \in S : ~ (<<m, n>> \in R)
    BY <1>4
  <1>6. \A m \in S : ~(m < n)
    BY <1>3, <1>5
  <1>7. \A m \in S : m \in Int /\ n \in Int
    OBVIOUS
  <1> QED  BY <1>6, <1>7

(* Least is it.                                                             *)
LEMMA LeastIsLeast ==
    ASSUME NEW S \in SUBSET Nat, S # {}
    PROVE  Least(S) \in S /\ \A m \in S : Least(S) <= m
  BY LeastOfSet DEF Least

(* f holds what the first turns of a loop have made. *)
Turns(f, n, step, first) ==
    f = [i \in 0..n |-> IF i = 0 THEN first ELSE step[i][f[i - 1]]]

(* Every loop has a value after each of its turns.                          *)
LEMMA TurnsExist ==
    ASSUME NEW n \in Nat, NEW step, NEW first
    PROVE  \E f : Turns(f, n, step, first)
  <1> DEFINE Bad == {k \in Nat : ~ \E f : Turns(f, k, step, first)}
  <1> SUFFICES ASSUME Bad # {} PROVE FALSE
    OBVIOUS
  <1>1. PICK k \in Bad : \A m \in Bad : k <= m
    BY LeastOfSet
  <1>2. CASE k = 0
    <2> DEFINE f == [i \in 0..0 |-> first]
    <2>1. Turns(f, 0, step, first)
      BY DEF Turns
    <2> QED  BY <1>1, <1>2, <2>1
  <1>3. CASE k # 0
    <2>1. k - 1 \in Nat /\ k - 1 \notin Bad
      BY <1>1, <1>3
    <2>2. PICK f : Turns(f, k - 1, step, first)
      BY <2>1
    <2> DEFINE g == [i \in 0..k |-> IF i <= k - 1 THEN f[i] ELSE step[k][f[k - 1]]]
    <2>3. ASSUME NEW i \in 0..k PROVE g[i] = IF i = 0 THEN first ELSE step[i][g[i - 1]]
      <3>1. CASE i <= k - 1
        <4>1. g[i] = f[i] /\ (i # 0 => g[i - 1] = f[i - 1]) /\ i \in 0..(k - 1)
          BY <2>1, <3>1
        <4> HIDE DEF g
        <4> QED  BY <2>2, <4>1 DEF Turns
      <3>2. CASE ~(i <= k - 1)
        <4>1. i = k /\ i # 0 /\ g[i] = step[k][f[k - 1]] /\ g[i - 1] = f[i - 1]
          BY <2>1, <2>3, <3>2
        <4> HIDE DEF g
        <4> QED  BY <4>1
      <3> QED  BY <3>1, <3>2
    <2>4. g = [i \in 0..k |-> g[i]]
      OBVIOUS
    <2> HIDE DEF g
    <2>5. Turns(g, k, step, first)
      BY <2>3, <2>4 DEF Turns
    <2> QED  BY <1>1, <2>5
  <1> QED  BY <1>2, <1>3

(* What every turn maintains holds after the loop; G[i] are the values that *)
(* are good after i turns.                                                  *)
LEMMA LoopRule ==
    ASSUME NEW n \in Nat, NEW step, NEW first, NEW G, first \in G[0],
           \A i \in 1..n : \A d \in G[i - 1] : step[i][d] \in G[i]
    PROVE  Loop(n, step, first) \in G[n]
  <1> DEFINE f == CHOOSE f : Turns(f, n, step, first)
  <1>1. Loop(n, step, first) = f[n]
    BY DEF Loop, Turns
  <1>2. Turns(f, n, step, first)
    BY TurnsExist
  <1> HIDE DEF f
  <1>3. f[0] = first /\ \A i \in 1..n : f[i] = step[i][f[i - 1]]
    BY <1>2 DEF Turns
  <1> DEFINE Bad == {k \in 0..n : f[k] \notin G[k]}
  <1>4. Bad = {}
    <2> SUFFICES ASSUME Bad # {} PROVE FALSE
      OBVIOUS
    <2>1. Bad \in SUBSET Nat
      OBVIOUS
    <2>2. PICK k \in Bad : \A m \in Bad : k <= m
      BY <2>1, LeastOfSet
    <2>3. k # 0
      BY <1>3, <2>2
    <2>4. k \in 1..n /\ k - 1 \in 0..n /\ ~(k <= k - 1)
      BY <2>2, <2>3
    <2>5. f[k - 1] \in G[k - 1]
      BY <2>2, <2>4
    <2>6. f[k] \in G[k]
      BY <1>3, <2>4, <2>5
    <2> QED  BY <2>2, <2>6
  <1>5. n \in 0..n
    OBVIOUS
  <1> QED  BY <1>1, <1>4, <1>5

(* The same, when what a turn maintains does not depend on the turn.        *)
LEMMA LoopKeeps ==
    ASSUME NEW n \in Nat, NEW step, NEW first, NEW S, first \in S,
           \A i \in 1..n : \A d \in S : step[i][d] \in S
    PROVE  Loop(n, step, first) \in S
  <1> DEFINE G == [i \in 0..n |-> S]
  <1>1. \A i \in 0..n : G[i] = S
    OBVIOUS
  <1>2. 0 \in 0..n /\ n \in 0..n /\ \A i \in 1..n : i \in 0..n /\ i - 1 \in 0..n
    OBVIOUS
  <1> HIDE DEF G
  <1>3. first \in G[0]
    BY <1>1, <1>2
  <1>4. \A i \in 1..n : \A d \in G[i - 1] : step[i][d] \in G[i]
    BY <1>1, <1>2
  <1>5. Loop(n, step, first) \in G[n]
    BY <1>3, <1>4, LoopRule
  <1> QED  BY <1>1, <1>2, <1>5

-----------------------------------------------------------------------------
(* The primitive changes of a context.                                      *)

WithPeer(r, p, x) == [r EXCEPT !.peers[p] = x]

Replaces(r, s, p, x) ==
    /\ s \in Roles /\ s.state = r.state /\ s.gamemode = r.gamemode
    /\ s.settings = r.settings /\ s.nextOrder = r.nextOrder
    /\ s.peers[p] = x /\ \A q \in Ids \ {p} : s.peers[q] = r.peers[q]
    /\ Members(s) = IF x = None THEN Members(r) \ {p} ELSE Members(r) \cup {p}

(* Writing one peer changes that peer and nothing else.                     *)
LEMMA PeerSet ==
    ASSUME NEW r \in Roles, NEW p \in Ids, NEW x, x \in Peer \/ x = None
    PROVE  Replaces(r, WithPeer(r, p, x), p, x)
  <1> DEFINE s == WithPeer(r, p, x)
  <1>1. /\ s \in Roles /\ s.state = r.state /\ s.gamemode = r.gamemode
        /\ s.settings = r.settings /\ s.nextOrder = r.nextOrder
        /\ s.peers = [r.peers EXCEPT ![p] = x]
    BY DEF Roles, WithPeer
  <1> HIDE DEF s
  <1>2. s.peers[p] = x /\ \A q \in Ids \ {p} : s.peers[q] = r.peers[q]
    BY <1>1 DEF Roles
  <1>3. Members(s) = IF x = None THEN Members(r) \ {p} ELSE Members(r) \cup {p}
    BY <1>2 DEF Members
  <1>4. Replaces(r, s, p, x)
    BY <1>1, <1>2, <1>3 DEF Replaces
  <1> QED  BY <1>4 DEF s

(* A context is a role and a list of actions.                               *)
LEMMA ContextFields ==
    ASSUME NEW c \in Contexts
    PROVE  c.role \in Roles /\ c.actions \in Seq(Actions)
  BY DEF Contexts

(* The context a handler starts from has produced nothing yet.              *)
LEMMA FreshIn ==
    ASSUME NEW r \in Roles
    PROVE  Fresh(r) \in Contexts /\ Fresh(r).role = r /\ Fresh(r).actions = << >>
  BY DEF Contexts, Fresh

(* One more action makes a context of a context.                            *)
LEMMA AppendIn ==
    ASSUME NEW c \in Contexts, NEW a \in Actions, NEW r \in Roles, NEW d,
           d.role = r, d.actions = Append(c.actions, a),
           d = [role |-> d.role, actions |-> d.actions]
    PROVE  d \in Contexts
  BY DEF Contexts

(* Three kinds of actions.                                                  *)
LEMMA ActionKinds ==
    ASSUME NEW a \in Actions
    PROVE  /\ a.type \in {"Send", "Disconnect", "GameEnded"}
           /\ a.type # "GameEnded" => a.peer \in Ids
           /\ a.type = "Send" => a.packet \in ServerPackets
  BY DEF Actions, GameEnded

(* A send is an action.                                                     *)
LEMMA SendIn ==
    ASSUME NEW p \in Ids, NEW packet \in ServerPackets
    PROVE  /\ Send(p, packet) \in Actions
           /\ Send(p, packet).type = "Send" /\ Send(p, packet).peer = p
           /\ Send(p, packet).packet = packet
  BY DEF Send, Actions

(* a takes the peer p out of the room. *)
Ends(a, p) == a.type = "Disconnect" /\ a.peer = p

(* The farewells of removals are such actions.                              *)
LEMMA FarewellIn ==
    ASSUME NEW p \in Ids,
           NEW reason \in {"Remote", "Timeout", "GameEnded", "ReliableOverflow", "MalformedInput"}
    PROVE  /\ Disconnect(p, reason) \in Actions /\ Ends(Disconnect(p, reason), p)
           /\ [Disconnect(p, reason) EXCEPT !.terminal = "Rejected"] \in Actions
           /\ Ends([Disconnect(p, reason) EXCEPT !.terminal = "Rejected"], p)
  BY DEF Disconnect, Actions, Ends

(* Emit appends one send and leaves the role alone.                         *)
LEMMA EmitIn ==
    ASSUME NEW c \in Contexts, NEW p \in Ids, NEW packet \in ServerPackets
    PROVE  /\ Emit(c, p, packet) \in Contexts
           /\ Emit(c, p, packet).role = c.role
           /\ Emit(c, p, packet).actions = Append(c.actions, Send(p, packet))
  <1>1. Send(p, packet) \in Actions
    BY SendIn
  <1> QED  BY <1>1 DEF Emit, Contexts

(* SetPeer writes one peer and says nothing.                                *)
LEMMA SetPeerIn ==
    ASSUME NEW c \in Contexts, NEW p \in Ids, NEW x \in Peer
    PROVE  /\ SetPeer(c, p, x) \in Contexts
           /\ SetPeer(c, p, x).role = WithPeer(c.role, p, x)
           /\ SetPeer(c, p, x).actions = c.actions
  <1>1. WithPeer(c.role, p, x) \in Roles
    BY PeerSet, ContextFields DEF Replaces
  <1> QED  BY <1>1 DEF SetPeer, Contexts, WithPeer

(* Drop removes one peer and says one farewell.                             *)
LEMMA DropIn ==
    ASSUME NEW c \in Contexts, NEW p \in Ids, NEW farewell \in Actions
    PROVE  /\ Drop(c, p, farewell) \in Contexts
           /\ Drop(c, p, farewell).role = WithPeer(c.role, p, None)
           /\ Drop(c, p, farewell).actions = Append(c.actions, farewell)
  <1>1. WithPeer(c.role, p, None) \in Roles
    BY PeerSet, ContextFields DEF Replaces
  <1>2. Append(c.actions, farewell) \in Seq(Actions)
    BY ContextFields
  <1>3. Drop(c, p, farewell) = [role    |-> WithPeer(c.role, p, None),
                                actions |-> Append(c.actions, farewell)]
    BY DEF Drop, WithPeer
  <1> QED  BY <1>1, <1>2, <1>3 DEF Contexts

-----------------------------------------------------------------------------
(* The books of a batch.  The members S are down to M once acts have been   *)
(* carried out: each of the others is taken out once, and nothing is said   *)
(* to it after that.                                                        *)
Booked(S, M, acts) ==
    /\ M \subseteq S
    /\ \A p \in S \ M : \E i \in DOMAIN acts : Ends(acts[i], p)
    /\ \A i \in DOMAIN acts : acts[i].type = "Disconnect" => acts[i].peer \notin M
    /\ \A i \in DOMAIN acts : acts[i].type # "GameEnded" =>
          acts[i].peer \in S /\ \A j \in 1..(i - 1) : ~Ends(acts[j], acts[i].peer)

(* Nothing said, nobody gone.                                               *)
LEMMA BookedNothing ==
    ASSUME NEW S
    PROVE  Booked(S, S, << >>)
  BY DEF Booked

(* One more action: the removal of one who is left, or a word to one.       *)
LEMMA BookedAppend ==
    ASSUME NEW S, NEW M, NEW N, NEW acts \in Seq(Actions), NEW a \in Actions,
           Booked(S, M, acts),
           \/ a.type = "Disconnect" /\ a.peer \in M /\ N = M \ {a.peer}
           \/ a.type # "Disconnect" /\ (a.type # "GameEnded" => a.peer \in M) /\ N = M
    PROVE  Booked(S, N, Append(acts, a))
  <1> DEFINE n == Len(acts)
             b == Append(acts, a)
  <1>1. /\ n \in Nat /\ DOMAIN acts = 1..n /\ DOMAIN b = 1..(n + 1)
        /\ \A i \in 1..n : b[i] = acts[i]
        /\ b[n + 1] = a
    OBVIOUS
  <1>2. /\ n + 1 \in 1..(n + 1) /\ \A i \in 1..(n + 1) : i = n + 1 \/ i \in 1..n
        /\ \A i \in 1..n : i \in 1..(n + 1) /\ \A j \in 1..(i - 1) : j \in 1..n
        /\ (n + 1) - 1 = n
    BY <1>1
  <1> HIDE DEF n, b
  <1>3. /\ M \subseteq S /\ N \subseteq M
        /\ \A p \in S \ M : \E i \in 1..n : Ends(acts[i], p)
        /\ \A i \in 1..n : acts[i].type = "Disconnect" => acts[i].peer \notin M
        /\ \A i \in 1..n : acts[i].type # "GameEnded" =>
              acts[i].peer \in S /\ \A j \in 1..(i - 1) : ~Ends(acts[j], acts[i].peer)
    BY <1>1 DEF Booked
  <1>4. ASSUME NEW p \in S \ N PROVE \E i \in DOMAIN b : Ends(b[i], p)
    <2>1. CASE p \in M
      <3>1. Ends(b[n + 1], p)
        BY <1>1, <1>4, <2>1 DEF Ends
      <3> QED  BY <1>1, <1>2, <3>1
    <2>2. CASE p \notin M
      <3>1. PICK i \in 1..n : Ends(acts[i], p)
        BY <1>3, <1>4, <2>2
      <3> QED  BY <1>1, <1>2, <3>1
    <2> QED  BY <2>1, <2>2
  <1>5. ASSUME NEW i \in DOMAIN b, b[i].type = "Disconnect" PROVE b[i].peer \notin N
    <2>1. CASE i = n + 1
      BY <1>1, <1>5, <2>1
    <2>2. CASE i \in 1..n
      BY <1>1, <1>3, <1>5, <2>2
    <2> QED  BY <1>1, <1>2, <2>1, <2>2
  <1>6. ASSUME NEW i \in DOMAIN b, b[i].type # "GameEnded"
        PROVE  b[i].peer \in S /\ \A j \in 1..(i - 1) : ~Ends(b[j], b[i].peer)
    <2>1. CASE i = n + 1
      <3>1. a.peer \in M /\ b[i] = a /\ i - 1 = n
        BY <1>1, <1>2, <1>6, <2>1
      <3>2. \A j \in 1..n : ~Ends(b[j], a.peer)
        BY <1>1, <1>3, <3>1 DEF Ends
      <3> QED  BY <1>3, <3>1, <3>2
    <2>2. CASE i \in 1..n
      BY <1>1, <1>2, <1>3, <1>6, <2>2
    <2> QED  BY <1>1, <1>2, <2>1, <2>2
  <1>7. N \subseteq S
    BY <1>3
  <1>8. Booked(S, N, b)
    BY <1>4, <1>5, <1>6, <1>7 DEF Booked
  <1> QED  BY <1>8 DEF b

(* One batch after another.                                                 *)
LEMMA BookedConcat ==
    ASSUME NEW S, NEW M, NEW N, NEW a \in Seq(Actions), NEW b \in Seq(Actions),
           Booked(S, M, a), Booked(M, N, b)
    PROVE  Booked(S, N, a \o b)
  <1> DEFINE n == Len(a)
             m == Len(b)
             c == a \o b
  <1>1. /\ n \in Nat /\ m \in Nat /\ DOMAIN a = 1..n /\ DOMAIN b = 1..m
        /\ DOMAIN c = 1..(n + m)
        /\ \A i \in 1..n : c[i] = a[i]
        /\ \A i \in 1..m : c[n + i] = b[i]
    OBVIOUS
  <1>2. /\ \A i \in 1..n : i \in 1..(n + m) /\ \A j \in 1..(i - 1) : j \in 1..n
        /\ \A i \in 1..m : n + i \in 1..(n + m)
              /\ \A j \in 1..(n + i - 1) : j \in 1..n \/ (j - n \in 1..(i - 1) /\ j = n + (j - n))
        /\ \A i \in 1..m : \A j \in 1..(i - 1) : j \in 1..m
        /\ \A i \in 1..(n + m) : i \in 1..n \/ (i - n \in 1..m /\ i = n + (i - n))
    BY <1>1
  <1> HIDE DEF n, m, c
  <1>3. /\ M \subseteq S
        /\ \A p \in S \ M : \E i \in 1..n : Ends(a[i], p)
        /\ \A i \in 1..n : a[i].type = "Disconnect" => a[i].peer \notin M
        /\ \A i \in 1..n : a[i].type # "GameEnded" =>
              a[i].peer \in S /\ \A j \in 1..(i - 1) : ~Ends(a[j], a[i].peer)
    BY <1>1 DEF Booked
  <1>4. /\ N \subseteq M
        /\ \A p \in M \ N : \E i \in 1..m : Ends(b[i], p)
        /\ \A i \in 1..m : b[i].type = "Disconnect" => b[i].peer \notin N
        /\ \A i \in 1..m : b[i].type # "GameEnded" =>
              b[i].peer \in M /\ \A j \in 1..(i - 1) : ~Ends(b[j], b[i].peer)
    BY <1>1 DEF Booked
  <1>5. ASSUME NEW p \in S \ N PROVE \E i \in DOMAIN c : Ends(c[i], p)
    <2>1. CASE p \in M
      <3>1. PICK i \in 1..m : Ends(b[i], p)
        BY <1>4, <1>5, <2>1
      <3>2. n + i \in DOMAIN c /\ Ends(c[n + i], p)
        BY <1>1, <1>2, <3>1
      <3> QED  BY <3>2
    <2>2. CASE p \notin M
      <3>1. PICK i \in 1..n : Ends(a[i], p)
        BY <1>3, <1>5, <2>2
      <3> QED  BY <1>1, <1>2, <3>1
    <2> QED  BY <2>1, <2>2
  <1>6. ASSUME NEW i \in DOMAIN c
        PROVE  /\ c[i].type = "Disconnect" => c[i].peer \notin N
               /\ c[i].type # "GameEnded" =>
                     c[i].peer \in S /\ \A j \in 1..(i - 1) : ~Ends(c[j], c[i].peer)
    <2>1. CASE i \in 1..n
      BY <1>1, <1>2, <1>3, <1>4, <2>1
    <2>2. CASE i - n \in 1..m /\ i = n + (i - n)
      <3> DEFINE k == i - n
      <3>1. k \in 1..m /\ i = n + k /\ c[i] = b[k]
        BY <1>1, <2>2
      <3> HIDE DEF k
      <3>2. ASSUME b[k].type # "GameEnded", NEW j \in 1..(i - 1) PROVE ~Ends(c[j], b[k].peer)
        <4>1. b[k].peer \in M
          BY <1>4, <3>1, <3>2
        <4>2. CASE j \in 1..n
          BY <1>1, <1>3, <4>1, <4>2 DEF Ends
        <4>3. CASE j - n \in 1..(k - 1) /\ j = n + (j - n)
          <5>1. c[j] = b[j - n]
            BY <1>1, <1>2, <3>1, <4>3
          <5> QED  BY <1>4, <3>1, <3>2, <4>3, <5>1
        <4>4. j \in 1..(n + k - 1)
          BY <1>1, <3>1
        <4> QED  BY <1>2, <3>1, <4>2, <4>3, <4>4
      <3> QED  BY <1>3, <1>4, <3>1, <3>2
    <2> QED  BY <1>1, <1>2, <2>1, <2>2
  <1>7. N \subseteq S
    BY <1>3, <1>4
  <1>8. Booked(S, N, c)
    BY <1>5, <1>6, <1>7 DEF Booked
  <1> QED  BY <1>8 DEF c

-----------------------------------------------------------------------------
(* Who may be spoken to.                                                    *)

(* The members whose disconnect has not begun. *)
Live(r) == Members(r) \ Draining(r)

(* Those a batch that began in r0 may no longer speak to: acts is what it   *)
(* has produced.                                                            *)
Marked(r0, acts) ==
    Draining(r0) \cup {p \in Ids : \E i \in DOMAIN acts : acts[i] = Send(p, "Disconnect")}

Handshake == {"Disconnect", "DisconnectAck"}

Polite(r0, acts) ==
    \A i \in DOMAIN acts : acts[i].type = "Send" /\ acts[i].packet \notin Handshake =>
        /\ acts[i].peer \notin Draining(r0)
        /\ \A j \in 1..(i - 1) : acts[j] # Send(acts[i].peer, "Disconnect")

(* c has come from r0 without a word to those, and with its books in order. *)
Quiet(r0, c) ==
    /\ Polite(r0, c.actions) /\ Marked(r0, c.actions) \cap Live(c.role) = {}
    /\ Booked(Members(r0), Members(c.role), c.actions)

(* The live members are those whose connection is up, accepted or not.      *)
LEMMA LiveSets ==
    ASSUME NEW r \in Roles
    PROVE  /\ Live(r) = {p \in Members(r) : r.peers[p].conn = "Connected"}
           /\ Connected(r) = Live(r) \cap Accepted(r)
           /\ Live(r) \subseteq Members(r) /\ Live(r) \cap Draining(r) = {}
  BY DEF Live, Draining, Connected, Accepted

(* Polite is OnlyDisconnect, said of the actions alone.                     *)
LEMMA PoliteIsOnlyDisconnect ==
    ASSUME NEW r0 \in Roles, NEW c \in Contexts
    PROVE  Polite(r0, c.actions) => OnlyDisconnect(r0, c)
  <1> SUFFICES ASSUME Polite(r0, c.actions), NEW i \in SendsOf(c), ToDraining(r0, c, i)
               PROVE  c.actions[i].packet \in Handshake
    BY DEF OnlyDisconnect, Handshake
  <1> QED  BY DEF Polite, SendsOf, ToDraining

(* One more action is polite when it is no reliable or game traffic to a    *)
(* peer that is draining, or that was told to disconnect earlier in the     *)
(* batch.                                                                   *)
LEMMA PoliteAppend ==
    ASSUME NEW r0 \in Roles, NEW acts \in Seq(Actions), NEW a \in Actions, Polite(r0, acts),
           a.type = "Send" /\ a.packet \notin Handshake =>
               a.peer \in Ids /\ a.peer \notin Marked(r0, acts)
    PROVE  /\ Polite(r0, Append(acts, a))
           /\ Marked(r0, Append(acts, a))
                = Marked(r0, acts) \cup {p \in Ids : a = Send(p, "Disconnect")}
  <1> DEFINE n == Len(acts)
             b == Append(acts, a)
  <1>1. /\ n \in Nat /\ DOMAIN acts = 1..n /\ DOMAIN b = 1..(n + 1)
        /\ \A i \in 1..n : b[i] = acts[i]
        /\ b[n + 1] = a
    OBVIOUS
  <1>2. /\ n + 1 \in 1..(n + 1) /\ \A i \in 1..(n + 1) : i = n + 1 \/ i \in 1..n
        /\ \A i \in 1..n : i \in 1..(n + 1) /\ \A j \in 1..(i - 1) : j \in 1..n
        /\ (n + 1) - 1 = n
    BY <1>1
  <1> HIDE DEF n, b
  <1>3. Marked(r0, b) = Marked(r0, acts) \cup {p \in Ids : a = Send(p, "Disconnect")}
    BY <1>1, <1>2 DEF Marked
  <1>4. ASSUME NEW i \in DOMAIN b, b[i].type = "Send", b[i].packet \notin Handshake
        PROVE  /\ b[i].peer \notin Draining(r0)
               /\ \A j \in 1..(i - 1) : b[j] # Send(b[i].peer, "Disconnect")
    <2>1. CASE i = n + 1
      BY <1>1, <1>2, <1>4, <2>1 DEF Marked
    <2>2. CASE i \in 1..n
      BY <1>1, <1>2, <1>4, <2>2 DEF Polite
    <2> QED  BY <1>1, <1>2, <1>4, <2>1, <2>2
  <1>5. Polite(r0, b)
    BY <1>4 DEF Polite
  <1> QED  BY <1>3, <1>5 DEF b

(* Live members may hear anything but a DISCONNECT, the others only that.   *)
LEMMA QuietSays ==
    ASSUME NEW r0 \in Roles, NEW c \in Contexts, NEW p \in Members(c.role),
           NEW packet \in ServerPackets, Quiet(r0, c),
           \/ p \in Live(c.role) /\ packet # "Disconnect"
           \/ p \notin Live(c.role) /\ packet \in Handshake
    PROVE  Quiet(r0, Emit(c, p, packet))
  <1> DEFINE a == Send(p, packet)
             d == Emit(c, p, packet)
  <1>0. p \in Ids
    BY Subsets
  <1>1. /\ a \in Actions /\ a.type = "Send" /\ a.peer = p /\ a.packet = packet
        /\ d.role = c.role /\ d.actions = Append(c.actions, a)
        /\ c.actions \in Seq(Actions)
    BY <1>0, SendIn, EmitIn, ContextFields
  <1>2. \A q \in Ids : a = Send(q, "Disconnect") => q = p /\ packet = "Disconnect"
    BY DEF Send
  <1> HIDE DEF a, d
  <1>3. a.packet \notin Handshake => a.peer \in Ids /\ a.peer \notin Marked(r0, c.actions)
    BY <1>0, <1>1 DEF Quiet
  <1>6. Booked(Members(r0), Members(d.role), d.actions)
    <2> DEFINE M == Members(c.role)
               acts == c.actions
    <2>1. Booked(Members(r0), M, acts) /\ a.peer \in M /\ acts \in Seq(Actions)
      BY <1>1 DEF Quiet
    <2> HIDE DEF M, acts
    <2>2. Booked(Members(r0), M, Append(acts, a))
      BY <1>1, <2>1, BookedAppend
    <2> QED  BY <1>1, <2>2 DEF M, acts
  <1>4. /\ Polite(r0, d.actions)
        /\ Marked(r0, d.actions)
             = Marked(r0, c.actions) \cup {q \in Ids : a = Send(q, "Disconnect")}
    BY <1>1, <1>3, PoliteAppend DEF Quiet
  <1>5. Quiet(r0, d)
    BY <1>1, <1>2, <1>4, <1>6 DEF Quiet
  <1> QED  BY <1>5 DEF d

(* Whatever else happens to the members, as long as none comes back, and    *)
(* none leaves without a farewell.                                          *)
LEMMA QuietStays ==
    ASSUME NEW r0 \in Roles, NEW c \in Contexts, NEW d \in Contexts, Quiet(r0, c),
           Live(d.role) \subseteq Live(c.role),
           \/ d.actions = c.actions /\ Members(d.role) = Members(c.role)
           \/ \E p \in Members(c.role), a \in Actions :
                 /\ Ends(a, p) /\ d.actions = Append(c.actions, a)
                 /\ Members(d.role) = Members(c.role) \ {p}
    PROVE  Quiet(r0, d)
  <1>1. CASE d.actions = c.actions /\ Members(d.role) = Members(c.role)
    BY <1>1 DEF Quiet
  <1>2. CASE \E p \in Members(c.role), a \in Actions :
                 /\ Ends(a, p) /\ d.actions = Append(c.actions, a)
                 /\ Members(d.role) = Members(c.role) \ {p}
    <2>1. PICK p \in Members(c.role), a \in Actions :
                 /\ Ends(a, p) /\ d.actions = Append(c.actions, a)
                 /\ Members(d.role) = Members(c.role) \ {p}
      BY <1>2
    <2>2. /\ \A q \in Ids : a # Send(q, "Disconnect")
          /\ a.type = "Disconnect" /\ a.peer = p
      BY <2>1 DEF Send, Ends
    <2> DEFINE acts == c.actions
               M    == Members(c.role)
               N    == Members(d.role)
    <2>3. /\ acts \in Seq(Actions) /\ Polite(r0, acts) /\ Booked(Members(r0), M, acts)
          /\ a.peer \in M /\ N = M \ {a.peer}
      BY <2>1, <2>2, ContextFields DEF Quiet
    <2> HIDE DEF acts, M, N
    <2>6. Booked(Members(r0), N, Append(acts, a))
      BY <2>2, <2>3, BookedAppend
    <2>4. /\ Polite(r0, Append(acts, a))
          /\ Marked(r0, Append(acts, a))
               = Marked(r0, acts) \cup {q \in Ids : a = Send(q, "Disconnect")}
      BY <2>1, <2>2, <2>3, PoliteAppend
    <2>5. /\ Polite(r0, d.actions) /\ Marked(r0, d.actions) = Marked(r0, acts)
          /\ Booked(Members(r0), Members(d.role), d.actions)
      BY <2>1, <2>2, <2>4, <2>6 DEF acts, N
    <2> QED  BY <2>5 DEF Quiet, acts
  <1> QED  BY <1>1, <1>2

-----------------------------------------------------------------------------
(* The end of a game.                                                       *)

(* Ended does to one peer what Closed says.                                 *)
LEMMA EndedIsClosed ==
    ASSUME NEW x \in Peer
    PROVE  /\ Ended(x) \in Peer /\ Closed(x, Ended(x)) /\ Ended(x).outbox = x.outbox
           /\ Ended(x).conn # "Connected"
  <1>1. 1 \in 0..DisconnectSends
    BY Constants
  <1> QED  BY <1>1 DEF Ended, Closed, Peer

(* The end of a game says at most one thing to a member.                    *)
LEMMA NoticeIn ==
    ASSUME NEW r \in Roles, NEW p \in Ids
    PROVE  \/ EndNotice(r, p) = << >>
           \/ EndNotice(r, p) = << Send(p, "Disconnect") >>
           \/ EndNotice(r, p) = << Disconnect(p, "GameEnded") >>
  BY DEF EndNotice

(* Notices of the end are polite: they are farewells and DISCONNECTs.       *)
LEMMA SaysNotice ==
    ASSUME NEW r0 \in Roles, NEW r \in Roles, NEW p \in Ids, NEW said \in Seq(Actions)
    PROVE  /\ said \o EndNotice(r, p) \in Seq(Actions)
           /\ Polite(r0, said) => Polite(r0, said \o EndNotice(r, p))
  <1>1. Send(p, "Disconnect") \in Actions /\ Send(p, "Disconnect").packet \in Handshake
    <2>1. "Disconnect" \in ServerPackets /\ "Disconnect" \in Handshake
      BY DEF ServerPackets, Handshake
    <2> QED  BY <2>1, SendIn
  <1>4. Disconnect(p, "GameEnded") \in Actions /\ Disconnect(p, "GameEnded").type # "Send"
    BY FarewellIn DEF Ends
  <1>2. /\ said \o << >> = said
        /\ \A a \in Actions : said \o << a >> = Append(said, a)
    OBVIOUS
  <1>3. \A a \in Actions : Append(said, a) \in Seq(Actions)
    OBVIOUS
  <1> QED  BY <1>1, <1>2, <1>3, <1>4, NoticeIn, PoliteAppend

(* They leave the books in order, and take out the strangers.               *)
LEMMA NoticeBooked ==
    ASSUME NEW S, NEW r \in Roles, Orderly(r), NEW p \in Ids, NEW said \in Seq(Actions),
           NEW M, Accepted(r) \subseteq M, M \subseteq Members(r), p \in Members(r) => p \in M,
           Booked(S, M, said)
    PROVE  Booked(S, M \ ({p} \ Accepted(r)), said \o EndNotice(r, p))
  <1> DEFINE N == M \ ({p} \ Accepted(r))
  <1>1. \A a \in Actions : said \o << a >> = Append(said, a)
    OBVIOUS
  <1>2. CASE p \notin Members(r) \/ r.peers[p].conn # "Connected"
    <2>1. EndNotice(r, p) = << >> /\ said \o << >> = said
      BY <1>2 DEF EndNotice
    <2>2. N = M
      BY <1>2 DEF Orderly
    <2> QED  BY <2>1, <2>2
  <1>3. CASE p \in Members(r) /\ r.peers[p].conn = "Connected" /\ r.peers[p].syn
    <2> DEFINE a == Send(p, "Disconnect")
    <2>1. "Disconnect" \in ServerPackets
      BY DEF ServerPackets
    <2>2. a \in Actions /\ a.type = "Send" /\ a.peer = p /\ EndNotice(r, p) = << a >>
      BY <1>3, <2>1, SendIn DEF EndNotice
    <2>3. N = M
      BY <1>3 DEF Accepted
    <2> HIDE DEF a, N
    <2>4. Booked(S, N, Append(said, a))
      BY <1>3, <2>2, <2>3, BookedAppend
    <2> QED  BY <1>1, <2>2, <2>4 DEF N
  <1>4. CASE p \in Members(r) /\ r.peers[p].conn = "Connected" /\ ~r.peers[p].syn
    <2> DEFINE a == Disconnect(p, "GameEnded")
    <2>1. a \in Actions /\ a.type = "Disconnect" /\ a.peer = p /\ EndNotice(r, p) = << a >>
      BY <1>4, FarewellIn DEF EndNotice, Ends
    <2>2. N = M \ {p}
      BY <1>4 DEF Accepted
    <2> HIDE DEF a, N
    <2>3. Booked(S, N, Append(said, a))
      BY <1>4, <2>1, <2>2, BookedAppend
    <2> QED  BY <1>1, <2>1, <2>3 DEF N
  <1> QED  BY <1>2, <1>3, <1>4 DEF Accepted

(* The role that a game's end leaves. *)
Lobby(r) == [r EXCEPT !.state = "WaitingLaunch", !.gamemode = None, !.settings = FALSE,
                      !.peers = [p \in Ids |-> IF p \in Accepted(r) THEN Ended(@[p]) ELSE None]]

(* The lobby a game ends in: nobody live, every accepted peer closed, FIFOs *)
(* as they were.                                                            *)
LEMMA EndGameRole ==
    ASSUME NEW r \in Roles, NEW s, s = Lobby(r)
    PROVE  /\ s \in Roles /\ Over(r, s) /\ Members(s) = Accepted(r) /\ Live(s) = {}
           /\ \A p \in Members(s) : s.peers[p].outbox = r.peers[p].outbox
  <1>1. \A p \in Accepted(r) : p \in Ids /\ r.peers[p] \in Peer /\ Ended(r.peers[p]) \in Peer
    BY Subsets, MemberIsPeer, EndedIsClosed
  <1>2. /\ s.state = "WaitingLaunch" /\ s.gamemode = None /\ s.settings = FALSE
        /\ s.nextOrder = r.nextOrder
        /\ s.peers = [p \in Ids |-> IF p \in Accepted(r) THEN Ended(r.peers[p]) ELSE None]
    BY DEF Roles, Lobby
  <1>3. s.peers \in [Ids -> Peer \cup {None}]
    BY <1>1, <1>2
  <1>4. s \in Roles
    BY <1>2, <1>3 DEF Roles, Lobby
  <1>5. Members(s) = Accepted(r) /\ \A p \in Members(s) : s.peers[p] = Ended(r.peers[p])
    BY <1>1, <1>2, Constants, Subsets DEF Members
  <1>6. \A p \in Members(s) : /\ Closed(r.peers[p], s.peers[p])
                              /\ s.peers[p].outbox = r.peers[p].outbox
                              /\ s.peers[p].conn # "Connected"
    BY <1>1, <1>5, EndedIsClosed
  <1>7. Over(r, s)
    BY <1>2, <1>5, <1>6 DEF Over
  <1>8. Live(s) = {}
    BY <1>4, <1>6, LiveSets
  <1> QED  BY <1>4, <1>5, <1>6, <1>7, <1>8

(* end_game as a whole, its notices included.                               *)
LEMMA EndGameIn ==
    ASSUME NEW c \in Contexts, Orderly(c.role)
    PROVE  /\ EndGame(c) \in Contexts
           /\ Over(c.role, EndGame(c).role)
           /\ Members(EndGame(c).role) = Accepted(c.role)
           /\ \A p \in Accepted(c.role) :
                 EndGame(c).role.peers[p].outbox = c.role.peers[p].outbox
           /\ \A r0 \in Roles : Quiet(r0, c) => Quiet(r0, EndGame(c))
  <1> DEFINE r       == c.role
             step    == [p \in Ids |-> [said \in Seq(Actions) |-> said \o EndNotice(r, p)]]
             notices == Loop(MaxJoins, step, c.actions)
             s       == Lobby(r)
  <1>1. EndGame(c) = [role |-> s, actions |-> Append(notices, GameEnded)]
    BY DEF EndGame, Lobby
  <1>2. r \in Roles /\ Orderly(r) /\ c.actions \in Seq(Actions) /\ MaxJoins \in Nat /\ Ids = 1..MaxJoins
    BY ContextFields, Constants DEF Ids
  <1>4. \A p \in Ids : \A said \in Seq(Actions) : step[p][said] = said \o EndNotice(r, p)
    OBVIOUS
  <1> HIDE DEF step, r
  <1>3. /\ s \in Roles /\ Over(r, s) /\ Members(s) = Accepted(r) /\ Live(s) = {}
        /\ \A p \in Accepted(r) : s.peers[p].outbox = r.peers[p].outbox
    BY <1>2, EndGameRole
  <1> HIDE DEF s
  <1>5. notices \in Seq(Actions)
    <2>1. \A p \in 1..MaxJoins : \A said \in Seq(Actions) : step[p][said] \in Seq(Actions)
      BY <1>2, <1>4, SaysNotice
    <2> QED  BY <1>2, <2>1, LoopKeeps
  <1>6. ASSUME NEW r0 \in Roles, Polite(r0, c.actions) PROVE Polite(r0, notices)
    <2> DEFINE S == {said \in Seq(Actions) : Polite(r0, said)}
    <2>1. ASSUME NEW p \in 1..MaxJoins, NEW said \in S PROVE step[p][said] \in S
      <3>1. p \in Ids /\ said \in Seq(Actions) /\ Polite(r0, said)
        BY <1>2
      <3>2. /\ said \o EndNotice(r, p) \in Seq(Actions)
            /\ Polite(r0, said \o EndNotice(r, p))
        BY <1>2, <3>1, SaysNotice
      <3> QED  BY <1>4, <3>1, <3>2
    <2>2. c.actions \in S
      BY <1>2, <1>6
    <2>3. \A said \in S : Polite(r0, said)
      OBVIOUS
    <2> HIDE DEF S
    <2>4. notices \in S
      BY <1>2, <2>1, <2>2, LoopKeeps
    <2> QED  BY <2>3, <2>4
  <1>11. ASSUME NEW S, Booked(S, Members(r), c.actions) PROVE Booked(S, Accepted(r), notices)
    <2> DEFINE Rest(i) == {p \in Members(r) : p \in Accepted(r) \/ p > i}
               G       == [i \in 0..MaxJoins |-> {said \in Seq(Actions) : Booked(S, Rest(i), said)}]
    <2>1. \A i \in 0..MaxJoins : \A said : said \in G[i] <=> said \in Seq(Actions) /\ Booked(S, Rest(i), said)
      OBVIOUS
    <2>2. /\ 0 \in 0..MaxJoins /\ MaxJoins \in 0..MaxJoins
          /\ \A p \in 1..MaxJoins : p \in 0..MaxJoins /\ p - 1 \in 0..MaxJoins
      BY <1>2
    <2>3. Members(r) \subseteq 1..MaxJoins /\ Accepted(r) \subseteq Members(r)
      BY <1>2, Subsets
    <2>4. Rest(0) = Members(r) /\ Rest(MaxJoins) = Accepted(r)
      BY <1>2, <2>3
    <2>5. ASSUME NEW p \in 1..MaxJoins
          PROVE  /\ Rest(p) = Rest(p - 1) \ ({p} \ Accepted(r))
                 /\ Accepted(r) \subseteq Rest(p - 1) /\ Rest(p - 1) \subseteq Members(r)
                 /\ p \in Members(r) => p \in Rest(p - 1)
      BY <1>2, <2>3
    <2> HIDE DEF G, Rest
    <2>6. c.actions \in G[0]
      BY <1>2, <1>11, <2>1, <2>2, <2>4
    <2>7. ASSUME NEW p \in 1..MaxJoins, NEW said \in G[p - 1] PROVE step[p][said] \in G[p]
      <3> DEFINE M == Rest(p - 1)
      <3>1. p \in Ids /\ said \in Seq(Actions) /\ Booked(S, M, said)
        BY <1>2, <2>1, <2>2
      <3>2. /\ Accepted(r) \subseteq M /\ M \subseteq Members(r)
            /\ p \in Members(r) => p \in M
            /\ Rest(p) = M \ ({p} \ Accepted(r))
        BY <2>5
      <3> HIDE DEF M
      <3>3. Booked(S, Rest(p), said \o EndNotice(r, p))
        BY <1>2, <3>1, <3>2, NoticeBooked
      <3>4. said \o EndNotice(r, p) \in Seq(Actions)
        BY <1>2, <3>1, SaysNotice
      <3> QED  BY <1>4, <2>1, <2>2, <3>1, <3>3, <3>4
    <2>8. notices \in G[MaxJoins]
      BY <1>2, <2>6, <2>7, LoopRule
    <2> QED  BY <2>1, <2>2, <2>4, <2>8
  <1> HIDE DEF notices
  <1>7. GameEnded \in Actions /\ GameEnded.type # "Send"
           /\ GameEnded.type # "Disconnect" /\ GameEnded.type = "GameEnded"
    BY DEF GameEnded, Actions
  <1>8. EndGame(c) \in Contexts
    BY <1>1, <1>3, <1>5, <1>7 DEF Contexts
  <1>9. ASSUME NEW r0 \in Roles, Quiet(r0, c) PROVE Quiet(r0, EndGame(c))
    <2>1. Polite(r0, Append(notices, GameEnded))
      BY <1>5, <1>6, <1>7, <1>9, PoliteAppend DEF Quiet
    <2>2. Booked(Members(r0), Members(r), c.actions)
      BY <1>9 DEF Quiet, r
    <2>3. Booked(Members(r0), Accepted(r), notices)
      BY <1>11, <2>2
    <2>4. Booked(Members(r0), Accepted(r), Append(notices, GameEnded))
      BY <1>5, <1>7, <2>3, BookedAppend
    <2>5. EndGame(c).role = s /\ EndGame(c).actions = Append(notices, GameEnded)
      BY <1>1
    <2> QED  BY <1>3, <2>1, <2>4, <2>5 DEF Quiet
  <1>10. EndGame(c).role = s
    BY <1>1
  <1> QED  BY <1>3, <1>8, <1>9, <1>10 DEF r

-----------------------------------------------------------------------------
(* What a batch says to one peer.  A peer whose FIFO is empty may be sent   *)
(* one reliable packet, the head it then waits to have acknowledged; one    *)
(* that a game's end would disconnect may be told so.  Counting either      *)
(* among what is said, no removal and no broadcast raises the count.        *)

Said(acts, p, K) ==
    Cardinality({i \in DOMAIN acts : acts[i].type = "Send" /\ acts[i].peer = p
                                     /\ acts[i].packet \in K})

Bit(b) == IF b THEN 1 ELSE 0

PlainPackets == ServerPackets \ ReliablePackets

Awaits(r, p)  == p \in Members(r) /\ r.peers[p].outbox = << >>
Endable(r, p) == /\ p \in Members(r) /\ r.peers[p].conn = "Connected"
                 /\ ~(r.state = "InGame" /\ p \in Players(r))

Heads(c, p) == Said(c.actions, p, ReliablePackets) + Bit(Awaits(c.role, p))
Words(c, p) == Said(c.actions, p, PlainPackets) + Bit(Endable(c.role, p))

(* d, which has come from c, is no louder. *)
Lighter(c, d) == \A p \in Ids : Heads(d, p) <= Heads(c, p) /\ Words(d, p) <= Words(c, p)

(* What is said is finite.                                                  *)
LEMMA SaidIn ==
    ASSUME NEW acts \in Seq(Actions), NEW p, NEW K
    PROVE  /\ IsFiniteSet({i \in DOMAIN acts : acts[i].type = "Send" /\ acts[i].peer = p
                                               /\ acts[i].packet \in K})
           /\ Said(acts, p, K) \in Nat
  <1> DEFINE S == {i \in DOMAIN acts : acts[i].type = "Send" /\ acts[i].peer = p
                                       /\ acts[i].packet \in K}
  <1>1. Len(acts) \in Nat /\ S \in SUBSET (1..Len(acts))
    OBVIOUS
  <1> HIDE DEF S
  <1>2. IsFiniteSet(1..Len(acts))
    BY <1>1, FS_Interval
  <1>3. IsFiniteSet(S)
    BY <1>1, <1>2, FS_Subset
  <1>4. Cardinality(S) \in Nat
    BY <1>3, FS_CardinalityType
  <1> QED  BY <1>3, <1>4 DEF Said, S

(* Nothing said is nothing said to p.                                       *)
LEMMA SaidNothing ==
    ASSUME NEW p, NEW K
    PROVE  Said(<< >>, p, K) = 0
  <1>1. {i \in DOMAIN << >> : << >>[i].type = "Send" /\ << >>[i].peer = p
                              /\ << >>[i].packet \in K} = {}
    OBVIOUS
  <1> QED  BY <1>1, FS_EmptySet DEF Said

(* One more action counts when it is such a send.                           *)
LEMMA SaidAppend ==
    ASSUME NEW acts \in Seq(Actions), NEW a \in Actions, NEW p, NEW K
    PROVE  Said(Append(acts, a), p, K)
             = Said(acts, p, K) + Bit(a.type = "Send" /\ a.peer = p /\ a.packet \in K)
  <1> DEFINE n    == Len(acts)
             b    == Append(acts, a)
             S    == {i \in DOMAIN acts : acts[i].type = "Send" /\ acts[i].peer = p
                                          /\ acts[i].packet \in K}
             T    == {i \in DOMAIN b : b[i].type = "Send" /\ b[i].peer = p /\ b[i].packet \in K}
             such == a.type = "Send" /\ a.peer = p /\ a.packet \in K
  <1>1. /\ n \in Nat /\ DOMAIN acts = 1..n /\ DOMAIN b = 1..(n + 1) /\ b[n + 1] = a
        /\ \A i \in 1..n : b[i] = acts[i]
    OBVIOUS
  <1>2. IsFiniteSet(S) /\ Cardinality(S) \in Nat /\ Cardinality(S) = Said(acts, p, K)
    <2>1. Cardinality(S) = Said(acts, p, K)
      BY DEF Said
    <2>2. Said(acts, p, K) \in Nat
      BY SaidIn
    <2>3. S \in SUBSET (1..n) /\ IsFiniteSet(1..n)
      BY <1>1, FS_Interval
    <2> HIDE DEF S, n
    <2>4. IsFiniteSet(S)
      BY <2>3, FS_Subset
    <2> QED  BY <2>1, <2>2, <2>4
  <1>3. n + 1 \notin S
    BY <1>1
  <1>4. Said(b, p, K) = Cardinality(T)
    BY DEF Said
  <1>5. CASE such
    <2>1. T = S \cup {n + 1}
      <3> HIDE DEF b
      <3> QED  BY <1>1, <1>5
    <2> HIDE DEF S, T, n, b, such
    <2>2. Cardinality(T) = Cardinality(S) + 1
      BY <1>2, <1>3, <2>1, FS_AddElement
    <2>3. Bit(such) = 1
      BY <1>5 DEF Bit
    <2> QED  BY <1>2, <1>4, <2>2, <2>3 DEF b, such
  <1>6. CASE ~such
    <2>1. T = S
      <3> HIDE DEF b
      <3> QED  BY <1>1, <1>6
    <2> HIDE DEF S, T, n, b, such
    <2>2. Bit(such) = 0
      BY <1>6 DEF Bit
    <2> QED  BY <1>2, <1>4, <2>1, <2>2 DEF b, such
  <1> QED  BY <1>5, <1>6

(* The counts are numbers, and a bit is 0 or 1.                             *)
LEMMA CountsIn ==
    ASSUME NEW c \in Contexts, NEW p
    PROVE  /\ Heads(c, p) \in Nat /\ Words(c, p) \in Nat
           /\ Said(c.actions, p, ReliablePackets) \in Nat
           /\ Said(c.actions, p, PlainPackets) \in Nat
           /\ \A b \in BOOLEAN : Bit(b) \in {0, 1}
  <1>1. /\ Said(c.actions, p, ReliablePackets) \in Nat
        /\ Said(c.actions, p, PlainPackets) \in Nat
    BY ContextFields, SaidIn
  <1> QED  BY <1>1 DEF Heads, Words, Bit

(* Louder by nothing, twice, is louder by nothing.                          *)
LEMMA LighterTwice ==
    ASSUME NEW c \in Contexts, NEW d \in Contexts, NEW e \in Contexts,
           Lighter(c, d), Lighter(d, e)
    PROVE  Lighter(c, e)
  <1> SUFFICES ASSUME NEW p \in Ids
               PROVE  Heads(e, p) <= Heads(c, p) /\ Words(e, p) <= Words(c, p)
    BY DEF Lighter
  <1>1. /\ Heads(d, p) <= Heads(c, p) /\ Words(d, p) <= Words(c, p)
        /\ Heads(e, p) <= Heads(d, p) /\ Words(e, p) <= Words(d, p)
    BY DEF Lighter
  <1>2. /\ Heads(c, p) \in Nat /\ Words(c, p) \in Nat /\ Heads(d, p) \in Nat
        /\ Words(d, p) \in Nat /\ Heads(e, p) \in Nat /\ Words(e, p) \in Nat
    BY CountsIn
  <1> QED  BY <1>1, <1>2

(* A context is as loud as itself.                                          *)
LEMMA LighterSelf ==
    ASSUME NEW c \in Contexts
    PROVE  Lighter(c, c)
  <1>1. \A p \in Ids : Heads(c, p) \in Nat /\ Words(c, p) \in Nat
    BY CountsIn
  <1> QED  BY <1>1 DEF Lighter

(* Nobody waits for more, nothing is said: no louder.                       *)
LEMMA LighterRole ==
    ASSUME NEW c \in Contexts, NEW d \in Contexts,
           \A p \in Ids, K \in {ReliablePackets, PlainPackets} :
              Said(d.actions, p, K) = Said(c.actions, p, K),
           \A p \in Ids : /\ Awaits(d.role, p) => Awaits(c.role, p)
                          /\ Endable(d.role, p) => Endable(c.role, p)
    PROVE  Lighter(c, d)
  <1> SUFFICES ASSUME NEW p \in Ids
               PROVE  Heads(d, p) <= Heads(c, p) /\ Words(d, p) <= Words(c, p)
    BY DEF Lighter
  <1>1. /\ Said(c.actions, p, ReliablePackets) \in Nat
        /\ Said(c.actions, p, PlainPackets) \in Nat
    BY CountsIn
  <1>2. /\ Said(d.actions, p, ReliablePackets) = Said(c.actions, p, ReliablePackets)
        /\ Said(d.actions, p, PlainPackets) = Said(c.actions, p, PlainPackets)
    OBVIOUS
  <1>3. /\ Bit(Awaits(d.role, p)) <= Bit(Awaits(c.role, p))
        /\ Bit(Endable(d.role, p)) <= Bit(Endable(c.role, p))
        /\ Bit(Awaits(d.role, p)) \in Int /\ Bit(Awaits(c.role, p)) \in Int
        /\ Bit(Endable(d.role, p)) \in Int /\ Bit(Endable(c.role, p)) \in Int
    BY DEF Bit
  <1> HIDE DEF Said, Bit
  <1> QED  BY <1>1, <1>2, <1>3 DEF Heads, Words

(* A farewell is said to nobody's outbox.                                   *)
LEMMA SaidOther ==
    ASSUME NEW acts \in Seq(Actions), NEW a \in Actions, a.type # "Send", NEW p, NEW K
    PROVE  Said(Append(acts, a), p, K) = Said(acts, p, K)
  <1>1. Said(acts, p, K) \in Nat
    BY SaidIn
  <1>2. Bit(a.type = "Send" /\ a.peer = p /\ a.packet \in K) = 0
    BY DEF Bit
  <1> QED  BY <1>1, <1>2, SaidAppend

(* A packet is said to one peer, and counted once.                          *)
LEMMA SaidSend ==
    ASSUME NEW acts \in Seq(Actions), NEW q \in Ids, NEW packet \in ServerPackets, NEW p, NEW K
    PROVE  Said(Append(acts, Send(q, packet)), p, K)
             = Said(acts, p, K) + (IF p = q /\ packet \in K THEN 1 ELSE 0)
  <1> DEFINE a == Send(q, packet)
  <1>1. a \in Actions /\ a.type = "Send" /\ a.peer = q /\ a.packet = packet
    BY SendIn
  <1> HIDE DEF a
  <1>2. Said(Append(acts, a), p, K)
          = Said(acts, p, K) + Bit(a.type = "Send" /\ a.peer = p /\ a.packet \in K)
    BY <1>1, SaidAppend
  <1>3. Bit(a.type = "Send" /\ a.peer = p /\ a.packet \in K)
          = IF p = q /\ packet \in K THEN 1 ELSE 0
    BY <1>1 DEF Bit
  <1> QED  BY <1>2, <1>3 DEF a

(* A notice of the end is one plain packet to a peer it disconnects.        *)
LEMMA NoticeSays ==
    ASSUME NEW r \in Roles, NEW p \in Ids, NEW said \in Seq(Actions), NEW q \in Ids
    PROVE  /\ said \o EndNotice(r, p) \in Seq(Actions)
           /\ Said(said \o EndNotice(r, p), q, ReliablePackets) = Said(said, q, ReliablePackets)
           /\ Said(said \o EndNotice(r, p), q, PlainPackets)
                <= Said(said, q, PlainPackets)
                     + (IF q = p /\ q \in Live(r) THEN 1 ELSE 0)
  <1>1. \A a \in Actions : said \o << a >> = Append(said, a) /\ Append(said, a) \in Seq(Actions)
    OBVIOUS
  <1>2. Said(said, q, ReliablePackets) \in Nat /\ Said(said, q, PlainPackets) \in Nat
    BY SaidIn
  <1>3. CASE EndNotice(r, p) = << >>
    <2>1. said \o << >> = said
      OBVIOUS
    <2> QED  BY <1>2, <1>3, <2>1
  <1>4. CASE EndNotice(r, p) = << Send(p, "Disconnect") >>
    <2>1. "Disconnect" \in ServerPackets /\ "Disconnect" \notin ReliablePackets
      BY DEF ServerPackets, ReliablePackets
    <2>2. Send(p, "Disconnect") \in Actions
      BY <2>1, SendIn
    <2>3. /\ Said(Append(said, Send(p, "Disconnect")), q, ReliablePackets)
               = Said(said, q, ReliablePackets) + 0
          /\ Said(Append(said, Send(p, "Disconnect")), q, PlainPackets)
               = Said(said, q, PlainPackets) + (IF q = p THEN 1 ELSE 0)
      BY <2>1, SaidSend DEF PlainPackets
    <2>4. p \in Live(r)
      <3>1. Send(p, "Disconnect").type = "Send" /\ Disconnect(p, "GameEnded").type = "Disconnect"
        BY DEF Send, Disconnect
      <3>2. p \in Members(r) /\ r.peers[p].conn = "Connected"
        BY <1>4, <3>1 DEF EndNotice
      <3> QED  BY <3>2, LiveSets
    <2>5. /\ said \o EndNotice(r, p) = Append(said, Send(p, "Disconnect"))
          /\ said \o EndNotice(r, p) \in Seq(Actions)
      BY <1>1, <1>4, <2>2
    <2> QED  BY <1>2, <2>3, <2>4, <2>5
  <1>5. CASE EndNotice(r, p) = << Disconnect(p, "GameEnded") >>
    <2>1. Disconnect(p, "GameEnded") \in Actions /\ Disconnect(p, "GameEnded").type # "Send"
      BY FarewellIn DEF Ends
    <2>2. \A K : Said(Append(said, Disconnect(p, "GameEnded")), q, K) = Said(said, q, K)
      BY <2>1, SaidOther
    <2>3. /\ said \o EndNotice(r, p) = Append(said, Disconnect(p, "GameEnded"))
          /\ said \o EndNotice(r, p) \in Seq(Actions)
      BY <1>1, <1>5, <2>1
    <2> QED  BY <1>2, <2>2, <2>3
  <1> QED  BY <1>3, <1>4, <1>5, NoticeIn

(* The end of a game is no louder: it disconnects those it may, and then    *)
(* nobody is left to disconnect.                                            *)
LEMMA EndGameLighter ==
    ASSUME NEW c \in Contexts, Orderly(c.role),
           c.role.state # "InGame" \/ Players(c.role) = {}
    PROVE  Lighter(c, EndGame(c))
  <1> DEFINE r       == c.role
             step    == [p \in Ids |-> [said \in Seq(Actions) |-> said \o EndNotice(r, p)]]
             notices == Loop(MaxJoins, step, c.actions)
             s       == Lobby(r)
             d       == EndGame(c)
             Told(q, i) == IF q <= i /\ q \in Live(r) THEN 1 ELSE 0
             Counts(said, i) == \A q \in Ids :
                /\ Said(said, q, ReliablePackets) = Said(c.actions, q, ReliablePackets)
                /\ Said(said, q, PlainPackets) <= Said(c.actions, q, PlainPackets) + Told(q, i)
             G == [i \in 0..MaxJoins |-> {said \in Seq(Actions) : Counts(said, i)}]
  <1>1. EndGame(c) = [role |-> s, actions |-> Append(notices, GameEnded)]
    BY DEF EndGame, Lobby
  <1>2. r \in Roles /\ c.actions \in Seq(Actions) /\ MaxJoins \in Nat /\ Ids = 1..MaxJoins
    BY ContextFields, Constants DEF Ids
  <1>3. \A p \in Ids : \A said \in Seq(Actions) : step[p][said] = said \o EndNotice(r, p)
    OBVIOUS
  <1>4. \A i \in 0..MaxJoins : \A said : said \in G[i] <=> said \in Seq(Actions) /\ Counts(said, i)
    OBVIOUS
  <1>5. \A acts \in Seq(Actions) : \A q, K : Said(acts, q, K) \in Nat
    BY SaidIn
  <1>6. /\ 0 \in 0..MaxJoins /\ MaxJoins \in 0..MaxJoins
        /\ \A p \in 1..MaxJoins : p \in 0..MaxJoins /\ p - 1 \in 0..MaxJoins
    BY <1>2
  <1> HIDE DEF step, r, s, G, d
  <1>7. c.actions \in G[0]
    <2>1. Counts(c.actions, 0)
      BY <1>2, <1>5
    <2> HIDE DEF Counts
    <2> QED  BY <1>2, <1>4, <1>6, <2>1
  <1>8. ASSUME NEW p \in 1..MaxJoins, NEW said \in G[p - 1] PROVE step[p][said] \in G[p]
    <2>1. p \in Ids /\ said \in Seq(Actions) /\ Counts(said, p - 1)
      BY <1>2, <1>4, <1>6
    <2> DEFINE more == said \o EndNotice(r, p)
    <2>2. more \in Seq(Actions)
      BY <1>2, <2>1, NoticeSays
    <2>3. ASSUME NEW q \in Ids
          PROVE  /\ Said(more, q, ReliablePackets) = Said(c.actions, q, ReliablePackets)
                 /\ Said(more, q, PlainPackets) <= Said(c.actions, q, PlainPackets) + Told(q, p)
      <3>1. /\ Said(more, q, ReliablePackets) = Said(said, q, ReliablePackets)
            /\ Said(more, q, PlainPackets)
                 <= Said(said, q, PlainPackets) + (IF q = p /\ q \in Live(r) THEN 1 ELSE 0)
        BY <1>2, <2>1, NoticeSays
      <3>2. /\ Said(said, q, ReliablePackets) = Said(c.actions, q, ReliablePackets)
            /\ Said(said, q, PlainPackets) <= Said(c.actions, q, PlainPackets) + Told(q, p - 1)
        BY <2>1
      <3>3. /\ Said(said, q, PlainPackets) \in Nat /\ Said(c.actions, q, PlainPackets) \in Nat
            /\ Said(more, q, PlainPackets) \in Nat
        BY <1>2, <1>5, <2>1, <2>2
      <3>4. Told(q, p - 1) + (IF q = p /\ q \in Live(r) THEN 1 ELSE 0) = Told(q, p)
        BY <1>2
      <3>5. Told(q, p - 1) \in Int /\ Told(q, p) \in Int
        OBVIOUS
      <3> HIDE DEF Told, more
      <3> DEFINE x == IF q = p /\ q \in Live(r) THEN 1 ELSE 0
      <3>6. x \in Int
        OBVIOUS
      <3> HIDE DEF x
      <3>7. Said(more, q, PlainPackets) <= Said(c.actions, q, PlainPackets) + Told(q, p - 1) + x
        BY <3>1, <3>2, <3>3, <3>5, <3>6 DEF x
      <3> QED  BY <3>1, <3>2, <3>3, <3>4, <3>5, <3>6, <3>7 DEF x
    <2>4. Counts(more, p)
      BY <2>3
    <2> HIDE DEF Counts
    <2> QED  BY <1>3, <1>4, <1>6, <2>1, <2>2, <2>4
  <1>9. notices \in G[MaxJoins]
    BY <1>2, <1>7, <1>8, LoopRule
  <1>10. notices \in Seq(Actions) /\ Counts(notices, MaxJoins)
    BY <1>4, <1>6, <1>9
  <1> HIDE DEF notices
  <1>11. GameEnded \in Actions /\ GameEnded.type # "Send"
    BY DEF GameEnded, Actions
  <1>12. /\ s \in Roles /\ Members(s) = Accepted(r) /\ Live(s) = {}
         /\ \A p \in Members(s) : s.peers[p].outbox = r.peers[p].outbox
    BY <1>2, EndGameRole DEF s
  <1>13. d.role = s /\ d.actions = Append(notices, GameEnded)
    BY <1>1 DEF d
  <1>14. ASSUME NEW q \in Ids
         PROVE  Heads(d, q) <= Heads(c, q) /\ Words(d, q) <= Words(c, q)
    <2>1. /\ Said(d.actions, q, ReliablePackets) = Said(c.actions, q, ReliablePackets)
          /\ Said(d.actions, q, PlainPackets)
               <= Said(c.actions, q, PlainPackets) + Told(q, MaxJoins)
          /\ Said(d.actions, q, PlainPackets) \in Nat
      BY <1>5, <1>10, <1>11, <1>13, SaidOther
    <2>2. Bit(Awaits(d.role, q)) <= Bit(Awaits(r, q))
      BY <1>12, <1>13, Subsets DEF Bit, Awaits
    <2>3. Bit(Endable(d.role, q)) = 0
      BY <1>12, <1>13, LiveSets DEF Bit, Endable
    <2>4. Told(q, MaxJoins) = Bit(Endable(r, q))
      <3>1. q <= MaxJoins
        BY <1>2
      <3>2. r.state # "InGame" \/ Players(r) = {}
        BY DEF r
      <3>3. q \in Live(r) <=> Endable(r, q)
        BY <1>2, <3>2, LiveSets DEF Endable
      <3> QED  BY <3>1, <3>3 DEF Bit
    <2>5. /\ Said(c.actions, q, ReliablePackets) \in Nat /\ Said(c.actions, q, PlainPackets) \in Nat
          /\ \A b \in BOOLEAN : Bit(b) \in {0, 1}
      BY CountsIn
    <2>6. Bit(Awaits(d.role, q)) \in Int /\ Bit(Awaits(r, q)) \in Int
          /\ Bit(Endable(r, q)) \in Int
      BY DEF Bit
    <2> HIDE DEF Told
    <2> QED  BY <2>1, <2>2, <2>3, <2>4, <2>5, <2>6 DEF Heads, Words, r
  <1> QED  BY <1>14 DEF Lighter, d

(* While the room goes on, who may be told of its end could be told before. *)
LEMMA KeptEndable ==
    ASSUME NEW r \in Roles, NEW s \in Roles, Kept(r, s)
    PROVE  \A q \in Ids : Endable(s, q) => Endable(r, q)
  <1>1. s.state = r.state /\ Members(s) \subseteq Members(r)
    BY DEF Kept
  <1>2. \A q \in Members(s) : /\ s.peers[q].conn = r.peers[q].conn
                              /\ q \in Players(r) => q \in Players(s)
    BY <1>1 DEF Kept, Same, Players, IsPlayer
  <1> QED  BY <1>1, <1>2 DEF Endable

(* An entry that becomes the head of an empty FIFO is the head its peer     *)
(* waited for.                                                              *)
LEMMA HeadLighter ==
    ASSUME NEW c \in Contexts, NEW u \in Contexts, Lighter(c, u), u.actions = c.actions,
           NEW p \in Ids, Awaits(c.role, p), ~Awaits(u.role, p),
           NEW packet \in ReliablePackets, NEW d, d = Emit(u, p, packet)
    PROVE  Lighter(c, d)
  <1>1. packet \in ServerPackets /\ packet \notin PlainPackets
    BY DEF ServerPackets, PlainPackets
  <1>2. d.role = u.role /\ d.actions = Append(u.actions, Send(p, packet))
    BY <1>1, EmitIn
  <1> SUFFICES ASSUME NEW q \in Ids
               PROVE  Heads(d, q) <= Heads(c, q) /\ Words(d, q) <= Words(c, q)
    BY DEF Lighter
  <1>3. u.actions \in Seq(Actions)
    BY ContextFields
  <1>4. /\ Said(d.actions, q, ReliablePackets)
             = Said(u.actions, q, ReliablePackets) + (IF q = p THEN 1 ELSE 0)
        /\ Said(d.actions, q, PlainPackets) = Said(u.actions, q, PlainPackets) + 0
    BY <1>1, <1>2, <1>3, SaidSend
  <1>5. /\ Said(u.actions, q, ReliablePackets) \in Nat /\ Said(u.actions, q, PlainPackets) \in Nat
        /\ \A b \in BOOLEAN : Bit(b) \in {0, 1}
    BY CountsIn
  <1>6. Heads(u, q) <= Heads(c, q) /\ Words(u, q) <= Words(c, q)
    BY DEF Lighter
  <1>7. Words(d, q) = Words(u, q)
    BY <1>2, <1>4, <1>5 DEF Words
  <1>8. CASE q # p
    <2>1. Heads(d, q) = Heads(u, q)
      BY <1>2, <1>4, <1>5, <1>8 DEF Heads
    <2> QED  BY <1>6, <1>7, <2>1
  <1>9. CASE q = p
    <2>1. Bit(Awaits(c.role, q)) = 1 /\ Bit(Awaits(d.role, q)) = 0
      BY <1>2, <1>9 DEF Bit
    <2>2. Heads(d, q) = Heads(c, q)
      BY <1>4, <1>5, <1>9, <2>1 DEF Heads
    <2>3. Heads(c, q) \in Nat
      BY CountsIn
    <2> QED  BY <1>6, <1>7, <2>2, <2>3
  <1> QED  BY <1>8, <1>9

-----------------------------------------------------------------------------
(* The cascade: what enqueueing a reliable packet may do.                   *)

(* d is what is left of c after some enqueues: the removals in between took *)
(* members of S and connected ones.                                         *)
Sheds(c, d, S) ==
    /\ d \in Contexts /\ Orderly(d.role) /\ Loses(c.role, d.role) /\ Heard(c.role, d.role)
    /\ Lost(c.role, d.role) \subseteq Connected(c.role) \cup S /\ Lighter(c, d)

(* Something sent to p cannot meet an announced disconnect. *)
Hearing(r, p) == p \in Live(r) \/ p \notin Members(r) \/ Len(r.peers[p].outbox) > 0

(* What c, enqueued a packet for p, becomes. *)
Served(c, d, p) ==
    /\ Sheds(c, d, {p})
    /\ p \in Members(d.role) => Len(d.role.peers[p].outbox) > 0 /\ Lost(c.role, d.role) = {}
    /\ \A r0 \in Roles : Quiet(r0, c) /\ Hearing(c.role, p) => Quiet(r0, d)

(* f serves every room of at most n members. *)
Serves(f, n) ==
    \A p \in Ids, packet \in ReliablePackets, c \in Contexts :
        /\ Orderly(c.role) /\ Cardinality(Members(c.role)) <= n
        /\ p \in Members(c.role) => p \in Accepted(c.role)
        => Served(c, f[p][packet][c], p)

(* Doing nothing loses nobody.                                              *)
LEMMA ShedsNothing ==
    ASSUME NEW c \in Contexts, Orderly(c.role), NEW S
    PROVE  Sheds(c, c, S)
  <1> DEFINE r == c.role
  <1>1. r \in Roles
    BY ContextFields
  <1> HIDE DEF r
  <1>2. Kept(r, r)
    BY DEF Kept, Same
  <1>3. Loses(r, r) /\ Lost(r, r) = {}
    BY <1>1, <1>2, LosesNothing
  <1>4. \A p \in Members(r) : Len(r.peers[p].outbox) \in Nat
    BY <1>1, MemberIsPeer
  <1>5. Heard(r, r)
    BY <1>4 DEF Heard
  <1>6. Lighter(c, c)
    BY LighterSelf
  <1> QED  BY <1>3, <1>5, <1>6 DEF Sheds, r

(* Two sheddings in a row are one.                                          *)
LEMMA ShedsTwice ==
    ASSUME NEW c \in Contexts, NEW d, NEW e, NEW S, NEW T, Sheds(c, d, S), Sheds(d, e, T)
    PROVE  Sheds(c, e, S \cup T) /\ Lost(c.role, e.role) = Lost(c.role, d.role) \cup Lost(d.role, e.role)
  <1>1. /\ c.role \in Roles /\ d.role \in Roles /\ e.role \in Roles
        /\ e \in Contexts /\ Orderly(e.role)
        /\ Loses(c.role, d.role) /\ Loses(d.role, e.role)
        /\ Heard(c.role, d.role) /\ Heard(d.role, e.role)
    BY ContextFields DEF Sheds
  <1>2. /\ Loses(c.role, e.role)
        /\ Lost(c.role, e.role) = Lost(c.role, d.role) \cup Lost(d.role, e.role)
    BY <1>1, LosesTwice
  <1>3. /\ Members(d.role) \subseteq Members(c.role) /\ Members(e.role) \subseteq Members(d.role)
        /\ Connected(d.role) \subseteq Connected(c.role)
    BY <1>1, LosesMembers
  <1>4. Heard(c.role, e.role)
    BY <1>1, <1>3, HeardTwice
  <1>5. /\ Lost(c.role, d.role) \subseteq Connected(c.role) \cup S
        /\ Lost(d.role, e.role) \subseteq Connected(d.role) \cup T
    BY DEF Sheds
  <1>6. Lost(c.role, e.role) \subseteq Connected(c.role) \cup (S \cup T)
    BY <1>2, <1>3, <1>5
  <1>7. Lighter(c, e)
    BY LighterTwice DEF Sheds
  <1> QED  BY <1>1, <1>2, <1>4, <1>6, <1>7 DEF Sheds

(* A smaller room is served, too. *)
LEMMA SmallerRoom ==
    ASSUME NEW r \in Roles, NEW s \in Roles, NEW n \in Nat, Members(s) \subseteq Members(r),
           Cardinality(Members(r)) <= n
    PROVE  Cardinality(Members(s)) <= n
  <1> DEFINE a == Cardinality(Members(r))
             b == Cardinality(Members(s))
  <1>1. a \in Nat /\ b \in Nat /\ b <= a
    BY MembersFinite
  <1> HIDE DEF a, b
  <1>2. a <= n => b <= n
    BY <1>1
  <1> QED  BY <1>2 DEF a, b

(* One turn of a loop over members that were connected in c, from acc to d. *)
Turned(c, acc, d, p) ==
    /\ Sheds(c, d, {}) /\ Heard(acc.role, d.role)
    /\ Members(d.role) \subseteq Members(acc.role)
    /\ p \in Members(d.role) =>
          Len(d.role.peers[p].outbox) > 0 /\ Lost(c.role, d.role) = Lost(c.role, acc.role)
    /\ \A r0 \in Roles : Quiet(r0, acc) => Quiet(r0, d)

(* A turn of a broadcast that has served its target, seen from the start of *)
(* the broadcast.                                                           *)
LEMMA ServedTurn ==
    ASSUME NEW c \in Contexts, NEW acc, Sheds(c, acc, {}), NEW p \in Connected(c.role),
           NEW d, Served(acc, d, p)
    PROVE  Turned(c, acc, d, p)
  <1>1. /\ c.role \in Roles /\ acc \in Contexts /\ acc.role \in Roles
        /\ Orderly(acc.role) /\ Loses(c.role, acc.role) /\ Heard(c.role, acc.role)
    BY ContextFields DEF Sheds
  <1>6. Sheds(acc, d, {p})
    BY DEF Served
  <1>7. /\ Sheds(c, d, {} \cup {p})
        /\ Lost(c.role, d.role) = Lost(c.role, acc.role) \cup Lost(acc.role, d.role)
    <2> DEFINE none == {}
               one  == {p}
    <2>1. Sheds(c, acc, none) /\ Sheds(acc, d, one)
      BY <1>6
    <2> HIDE DEF none, one
    <2>2. Sheds(c, d, none \cup one)
      BY <2>1, ShedsTwice
    <2>3. Lost(c.role, d.role) = Lost(c.role, acc.role) \cup Lost(acc.role, d.role)
      BY <1>1, <1>6, LosesTwice, ContextFields DEF Sheds
    <2> QED  BY <2>2, <2>3 DEF none, one
  <1>8. Sheds(c, d, {})
    BY <1>7 DEF Sheds
  <1>9. Members(d.role) \subseteq Members(acc.role) /\ Heard(acc.role, d.role)
    BY <1>1, <1>6, LosesMembers, ContextFields DEF Sheds
  <1>10. Hearing(acc.role, p)
    <2>1. CASE p \in Connected(acc.role)
      BY <1>1, <2>1, LiveSets DEF Hearing
    <2>2. CASE p \in Members(acc.role) /\ p \notin Connected(acc.role)
      BY <1>1, <2>2 DEF Hearing, Heard
    <2> QED  BY <2>1, <2>2 DEF Hearing
  <1>11. \A r0 \in Roles : Quiet(r0, acc) => Quiet(r0, d)
    BY <1>10 DEF Served
  <1>12. p \in Members(d.role) =>
            Len(d.role.peers[p].outbox) > 0 /\ Lost(c.role, d.role) = Lost(c.role, acc.role)
    BY <1>7 DEF Served
  <1> QED  BY <1>8, <1>9, <1>11, <1>12 DEF Turned

(* The same turn, for a target that a removal in an earlier turn may have   *)
(* taken.                                                                   *)
LEMMA EachTurn ==
    ASSUME NEW f, NEW n \in Nat, Serves(f, n), NEW packet \in ReliablePackets,
           NEW c \in Contexts, Cardinality(Members(c.role)) <= n,
           NEW acc, Sheds(c, acc, {}), NEW p \in Connected(c.role),
           NEW d, d = f[p][packet][acc]
    PROVE  Turned(c, acc, d, p)
  <1>1. /\ c.role \in Roles /\ acc \in Contexts /\ acc.role \in Roles
        /\ Orderly(acc.role) /\ Loses(c.role, acc.role)
    BY ContextFields DEF Sheds
  <1>2. /\ Members(acc.role) \subseteq Members(c.role)
        /\ Accepted(acc.role) = Accepted(c.role) \cap Members(acc.role)
    BY <1>1, LosesMembers
  <1>3. Cardinality(Members(acc.role)) <= n
    BY <1>1, <1>2, SmallerRoom
  <1>4. p \in Ids /\ (p \in Members(acc.role) => p \in Accepted(acc.role))
    BY <1>2, Subsets
  <1>5. Served(acc, d, p)
    BY <1>1, <1>3, <1>4 DEF Serves
  <1> QED  BY <1>5, ServedTurn

(* The members of S that turn i of a loop in slot order serves. *)
LEMMA TurnServes ==
    ASSUME NEW r \in Roles, Orderly(r), NEW S \in SUBSET Accepted(r), NEW i
    PROVE  /\ AtSlot(r, S, i) # {} => Least(AtSlot(r, S, i)) \in AtSlot(r, S, i)
           /\ AtSlot(r, S, i) \subseteq S
           /\ \A p, q \in AtSlot(r, S, i) : p = q
  <1>1. AtSlot(r, S, i) \subseteq S
    BY DEF AtSlot
  <1>2. AtSlot(r, S, i) \in SUBSET Nat
    BY <1>1, Subsets, Constants
  <1>3. \A p, q \in AtSlot(r, S, i) : p = q
    BY DEF AtSlot, Orderly
  <1> QED  BY <1>1, <1>2, <1>3, LeastIsLeast

(* A broadcast over connected peers sheds connected peers only, and leaves  *)
(* every target that stays with something in its FIFO.                      *)
LEMMA EachServes ==
    ASSUME NEW f, NEW n \in Nat, Serves(f, n), NEW packet \in ReliablePackets,
           NEW c \in Contexts, Orderly(c.role), Cardinality(Members(c.role)) <= n,
           NEW S \in SUBSET Connected(c.role), NEW d, d = EnqueueEach(f, c, S, packet)
    PROVE  /\ Sheds(c, d, {})
           /\ \A p \in S \cap Members(d.role) : Len(d.role.peers[p].outbox) > 0
           /\ \A r0 \in Roles : Quiet(r0, c) => Quiet(r0, d)
  <1> DEFINE r    == c.role
             step == [i \in 1..MaxNodes |-> [acc \in Contexts |->
                        LET here == AtSlot(r, S, i)
                        IN  IF here = {} THEN acc ELSE f[Least(here)][packet][acc]]]
  <1>1. d = Loop(MaxNodes, step, c)
    BY DEF EnqueueEach
  <1>2. r \in Roles /\ MaxNodes \in Nat /\ S \in SUBSET Accepted(r)
    BY ContextFields, Constants, Subsets
  <1>3. \A i \in 1..MaxNodes : \A acc \in Contexts :
           step[i][acc] = IF AtSlot(r, S, i) = {} THEN acc
                          ELSE f[Least(AtSlot(r, S, i))][packet][acc]
    OBVIOUS
  <1> HIDE DEF step
  <1>4. ASSUME NEW i \in 1..MaxNodes, NEW acc, Sheds(c, acc, {})
        PROVE  /\ Sheds(c, step[i][acc], {}) /\ Heard(acc.role, step[i][acc].role)
               /\ Members(step[i][acc].role) \subseteq Members(acc.role)
               /\ \A p \in AtSlot(r, S, i) \cap Members(step[i][acc].role) :
                     Len(step[i][acc].role.peers[p].outbox) > 0
               /\ \A r0 \in Roles : Quiet(r0, acc) => Quiet(r0, step[i][acc])
    <2>1. acc \in Contexts /\ Orderly(acc.role)
      BY <1>4 DEF Sheds
    <2>2. CASE AtSlot(r, S, i) = {}
      <3>1. step[i][acc] = acc
        BY <1>3, <2>1, <2>2
      <3>2. Heard(acc.role, acc.role)
        BY <2>1, ShedsNothing DEF Sheds
      <3> QED  BY <1>4, <2>2, <3>1, <3>2
    <2>3. CASE AtSlot(r, S, i) # {}
      <3> DEFINE p == Least(AtSlot(r, S, i))
                 e == step[i][acc]
      <3>1. p \in AtSlot(r, S, i) /\ p \in S /\ \A q \in AtSlot(r, S, i) : q = p
        BY <1>2, <2>3, TurnServes
      <3>2. e = f[p][packet][acc]
        BY <1>3, <2>1, <2>3
      <3> HIDE DEF p, e
      <3>3. p \in Connected(c.role)
        BY <3>1
      <3>4. Turned(c, acc, e, p)
        BY <1>4, <3>2, <3>3, EachTurn
      <3> QED  BY <3>1, <3>4 DEF e, Turned
    <2> QED  BY <2>2, <2>3
  <1>5. Sheds(c, c, {})
    BY ShedsNothing
  <1>6. Sheds(c, d, {}) /\ \A p \in S \cap Members(d.role) : Len(d.role.peers[p].outbox) > 0
    <2> DEFINE Fed(i, e) == \A p \in S \cap Members(e.role) :
                               r.peers[p].slot < i => Len(e.role.peers[p].outbox) > 0
               G == [i \in 0..MaxNodes |-> {e \in Contexts : Sheds(c, e, {}) /\ Fed(i, e)}]
    <2>1. ASSUME NEW p \in S PROVE r.peers[p].slot \in 0..(MaxNodes - 1) /\ p \in Members(r)
      <3>1. p \in Members(r) /\ r.peers[p].syn
        BY <1>2 DEF Accepted
      <3> QED  BY <1>2, <3>1, MemberIsPeer DEF Orderly, Slots
    <2>2. \A i \in 0..MaxNodes : \A e : e \in G[i] <=> e \in Contexts /\ Sheds(c, e, {}) /\ Fed(i, e)
      OBVIOUS
    <2> HIDE DEF G
    <2>3. c \in G[0]
      <3>1. 0 \in 0..MaxNodes /\ \A p \in S : ~(r.peers[p].slot < 0)
        BY <1>2, <2>1
      <3> QED  BY <1>5, <2>2, <3>1
    <2>4. ASSUME NEW i \in 1..MaxNodes, NEW acc \in G[i - 1] PROVE step[i][acc] \in G[i]
      <3> DEFINE e == step[i][acc]
      <3>1. i - 1 \in 0..MaxNodes /\ i \in 0..MaxNodes
        BY <1>2
      <3>2. acc \in Contexts /\ Sheds(c, acc, {}) /\ Fed(i - 1, acc)
        BY <2>2, <3>1
      <3>3. /\ Sheds(c, e, {}) /\ Heard(acc.role, e.role)
            /\ Members(e.role) \subseteq Members(acc.role)
            /\ \A p \in AtSlot(r, S, i) \cap Members(e.role) : Len(e.role.peers[p].outbox) > 0
        BY <1>4, <3>2
      <3>4. e \in Contexts /\ e.role \in Roles /\ acc.role \in Roles
        BY <3>2, <3>3, ContextFields DEF Sheds
      <3> HIDE DEF e
      <3>5. ASSUME NEW p \in S \cap Members(e.role), r.peers[p].slot < i
            PROVE  Len(e.role.peers[p].outbox) > 0
        <4>1. CASE p \in AtSlot(r, S, i)
          BY <3>3, <4>1
        <4>2. CASE p \notin AtSlot(r, S, i)
          <5>1. r.peers[p].slot < i - 1
            <6>1. r.peers[p].slot \in Nat /\ r.peers[p].slot # i - 1 /\ i \in Nat
              BY <2>1, <4>2, <1>2 DEF AtSlot
            <6> QED  BY <3>5, <6>1
          <5>2. p \in Members(acc.role) /\ Len(acc.role.peers[p].outbox) > 0
            BY <3>2, <3>3, <5>1
          <5>3. /\ Len(e.role.peers[p].outbox) >= Len(acc.role.peers[p].outbox)
                /\ Len(e.role.peers[p].outbox) \in Nat /\ Len(acc.role.peers[p].outbox) \in Nat
            BY <3>3, <3>4, <5>2, MemberIsPeer DEF Heard
          <5> QED  BY <5>2, <5>3
        <4> QED  BY <4>1, <4>2
      <3>6. Fed(i, e)
        BY <3>5
      <3>7. e \in G[i]
        BY <2>2, <3>1, <3>3, <3>4, <3>6
      <3> QED  BY <3>7 DEF e
    <2>5. d \in G[MaxNodes]
      BY <1>1, <1>2, <2>3, <2>4, LoopRule
    <2>6. MaxNodes \in 0..MaxNodes /\ \A p \in S : r.peers[p].slot < MaxNodes
      BY <1>2, <2>1
    <2> QED  BY <2>2, <2>5, <2>6
  <1>7. ASSUME NEW r0 \in Roles, Quiet(r0, c) PROVE Quiet(r0, d)
    <2> DEFINE G == {e \in Contexts : Sheds(c, e, {}) /\ Quiet(r0, e)}
    <2>1. c \in G
      BY <1>5, <1>7
    <2>2. \A i \in 1..MaxNodes : \A acc \in G : step[i][acc] \in G
      BY <1>4 DEF Sheds
    <2>3. \A e \in G : Quiet(r0, e)
      OBVIOUS
    <2> HIDE DEF G
    <2>4. d \in G
      BY <1>1, <1>2, <2>1, <2>2, LoopKeeps
    <2> QED  BY <2>3, <2>4
  <1> QED  BY <1>6, <1>7

-----------------------------------------------------------------------------
(* A removal.                                                               *)

(* What the removal of p makes of c; announced, everybody connected hears   *)
(* of it.                                                                   *)
Removed(c, d, p, announce) ==
    /\ d \in Contexts /\ Orderly(d.role) /\ Loses(c.role, d.role)
    /\ p \notin Members(d.role) /\ Lost(c.role, d.role) \subseteq Connected(c.role) \cup {p}
    /\ announce => Heard(c.role, d.role)
    /\ Lighter(c, d) /\ \A r0 \in Roles : Quiet(r0, c) => Quiet(r0, d)

(* Taking one accepted peer out loses that peer and keeps the rest.         *)
LEMMA DropKeeps ==
    ASSUME NEW c \in Contexts, NEW p \in Accepted(c.role), NEW farewell \in Actions,
           Ends(farewell, p), Orderly(c.role), NEW d, d = Drop(c, p, farewell)
    PROVE  /\ d \in Contexts /\ Kept(c.role, d.role) /\ Lost(c.role, d.role) = {p}
           /\ Members(d.role) = Members(c.role) \ {p} /\ Orderly(d.role)
           /\ \A q \in Members(d.role) : d.role.peers[q] = c.role.peers[q]
           /\ Lighter(c, d) /\ \A r0 \in Roles : Quiet(r0, c) => Quiet(r0, d)
  <1> DEFINE r == c.role
             s == d.role
  <1>1. p \in Ids /\ p \in Members(r) /\ r \in Roles /\ r.peers[p].syn
    BY Subsets, ContextFields DEF Accepted
  <1>2. d \in Contexts /\ s = WithPeer(r, p, None) /\ d.actions = Append(c.actions, farewell)
    BY <1>1, DropIn
  <1> HIDE DEF r, s
  <1>3. /\ s \in Roles /\ s.state = r.state /\ s.gamemode = r.gamemode
        /\ s.settings = r.settings /\ s.nextOrder = r.nextOrder
        /\ \A q \in Ids \ {p} : s.peers[q] = r.peers[q]
        /\ Members(s) = Members(r) \ {p}
    BY <1>1, <1>2, PeerSet DEF Replaces
  <1>4. \A q \in Members(s) : q \in Members(r) /\ s.peers[q] = r.peers[q]
    BY <1>3, Subsets
  <1>5. Kept(r, s)
    BY <1>1, <1>3, <1>4 DEF Kept, Same, Accepted
  <1>6. Lost(r, s) = {p}
    BY <1>1, <1>3, Subsets DEF Lost, Accepted
  <1>7. Accepted(s) = Accepted(r) \cap Members(s)
    BY <1>1, <1>3, <1>5, KeptSets
  <1>8. Orderly(s)
    BY <1>4, <1>7 DEF Orderly, r
  <1>9. Live(s) \subseteq Live(r)
    BY <1>1, <1>3, <1>4, LiveSets
  <1>10. ASSUME NEW r0 \in Roles, Quiet(r0, c) PROVE Quiet(r0, d)
    BY <1>1, <1>2, <1>3, <1>9, <1>10, QuietStays DEF r, s
  <1>11. Lighter(c, d)
    <2>1. \A q \in Ids : \A K : Said(d.actions, q, K) = Said(c.actions, q, K)
      BY <1>2, ContextFields, SaidOther DEF Ends
    <2>2. \A q \in Ids : /\ Awaits(s, q) => Awaits(r, q)
                         /\ Endable(s, q) => Endable(r, q)
      BY <1>1, <1>3, <1>4, <1>5, KeptEndable DEF Awaits
    <2> QED  BY <1>2, <2>1, <2>2, LighterRole DEF r, s
  <1> QED  BY <1>2, <1>3, <1>4, <1>5, <1>6, <1>8, <1>10, <1>11 DEF r, s

(* The console broadcast is such a broadcast.                               *)
LEMMA ConsoleServes ==
    ASSUME NEW f, NEW n \in Nat, Serves(f, n), NEW c \in Contexts, Orderly(c.role),
           Cardinality(Members(c.role)) <= n, NEW d, d = Console(f, c)
    PROVE  /\ Sheds(c, d, {})
           /\ \A p \in Connected(c.role) \cap Members(d.role) : Len(d.role.peers[p].outbox) > 0
           /\ \A r0 \in Roles : Quiet(r0, c) => Quiet(r0, d)
  <1>1. "ConsoleMessage" \in ReliablePackets
    BY DEF ReliablePackets
  <1>2. d = EnqueueEach(f, c, Connected(c.role), "ConsoleMessage")
    BY DEF Console, ConnectedPeers
  <1>3. Connected(c.role) \in SUBSET Connected(c.role)
    OBVIOUS
  <1> QED  BY <1>1, <1>2, <1>3, EachServes

(* The end of the game after the removal of p has left t of r. *)
LEMMA GameEndsIt ==
    ASSUME NEW r \in Roles, NEW t \in Roles, NEW e \in Roles, NEW p \in Accepted(r),
           Kept(r, t) \/ Over(r, t), p \notin Members(t), Over(t, e),
           Members(e) = Accepted(t), EndsIt(r, Lost(r, t))
    PROVE  Loses(r, e) /\ Lost(r, e) = Lost(r, t) /\ Members(e) \subseteq Members(t)
  <1>1. /\ Over(r, e) /\ Members(e) \subseteq Members(t)
        /\ Lost(r, e) = Lost(r, t) \cup Lost(t, e)
    BY Twice
  <1>2. Lost(t, e) = {}
    BY DEF Lost
  <1>3. p \in Lost(r, t)
    BY DEF Lost
  <1> QED  BY <1>1, <1>2, <1>3 DEF Loses

(* The removal of p has left l of r, and what followed x of l. *)
LEMMA AfterDrop ==
    ASSUME NEW r \in Roles, NEW l \in Roles, NEW x \in Roles, NEW p \in Accepted(r),
           Kept(r, l), Lost(r, l) = {p}, Loses(l, x), Lost(l, x) \subseteq Connected(l)
    PROVE  /\ Kept(r, x) \/ Over(r, x)
           /\ Lost(r, x) \subseteq Connected(r) \cup {p} /\ p \notin Members(x)
           /\ p \in Lost(r, x)
           /\ Players(x) = {} => EndsIt(r, Lost(r, x))
           /\ x.state = "WaitingStart" /\ p \in Players(r) => EndsIt(r, Lost(r, x))
           /\ Players(x) # {} /\ ~(x.state = "WaitingStart" /\ p \in Players(r)) => Loses(r, x)
  <1>1. Kept(l, x) \/ Over(l, x)
    BY DEF Loses
  <1>2. /\ Kept(l, x) => Kept(r, x)
        /\ Over(l, x) => Over(r, x)
        /\ Lost(r, x) = {p} \cup Lost(l, x)
        /\ Members(x) \subseteq Members(l)
    BY <1>1, Twice
  <1>3. /\ Connected(l) = Connected(r) \ {p} /\ Players(l) = Players(r) \ {p}
        /\ l.state = r.state
    BY KeptSets DEF Kept
  <1>4. p \notin Members(x) /\ p \in Lost(r, x)
    BY <1>2 DEF Lost
  <1>5. CASE Kept(l, x) /\ (Lost(l, x) # {} => ~EndsIt(l, Lost(l, x)))
    <2>1. Players(x) = Players(l) \ Lost(l, x) /\ x.state = l.state
      BY <1>5, KeptSets DEF Kept
    <2>3. Players(x) = {} => EndsIt(r, Lost(r, x))
      BY <1>2, <1>3, <2>1 DEF EndsIt
    <2>4. x.state = "WaitingStart" /\ p \in Players(r) => EndsIt(r, Lost(r, x))
      BY <1>3, <1>4, <2>1 DEF EndsIt
    <2>5. ASSUME Players(x) # {}, ~(x.state = "WaitingStart" /\ p \in Players(r))
          PROVE  Loses(r, x)
      BY <1>2, <1>3, <1>5, <2>1, <2>5 DEF Loses, EndsIt
    <2> QED  BY <1>2, <1>3, <1>4, <1>5, <2>3, <2>4, <2>5
  <1>6. CASE Over(l, x) /\ Lost(l, x) # {} /\ EndsIt(l, Lost(l, x))
    <2>1. x.state = "WaitingLaunch" /\ Players(x) = {}
      BY <1>6, OverSets DEF Over
    <2>3. EndsIt(r, Lost(r, x))
      BY <1>2, <1>3, <1>6 DEF EndsIt
    <2> QED  BY <1>2, <1>3, <1>4, <1>6, <2>1, <2>3
  <1> QED  BY <1>5, <1>6 DEF Loses

(* remove_connected as a whole, over any enqueue that serves the room it    *)
(* leaves: it loses its peer, perhaps some connected ones, and ends the     *)
(* game exactly when the loss calls for it.                                 *)
LEMMA RemoveServes ==
    ASSUME NEW f, NEW n \in Nat, Serves(f, n), NEW c \in Contexts, Orderly(c.role),
           Cardinality(Members(c.role)) <= n + 1, NEW p \in Accepted(c.role),
           NEW reason \in {"Remote", "Timeout", "GameEnded", "ReliableOverflow", "MalformedInput"},
           NEW announce \in BOOLEAN, NEW d, d = RemovePeer(f, c, p, reason, announce)
    PROVE  Removed(c, d, p, announce)
  <1> DEFINE r    == c.role
             gone == r.peers[p]
             left == Drop(c, p, Disconnect(p, reason))
             told == IF announce THEN Console(f, left) ELSE left
             last == Console(f, told)
  <1>1. p \in Ids /\ p \in Members(r) /\ r \in Roles
    BY Subsets, ContextFields
  <1>2. d = IF told.role.state = "WaitingStart" /\ IsPlayer(gone) THEN EndGame(last)
            ELSE IF NoPlayerLeft(told.role) THEN EndGame(told) ELSE told
    BY <1>1 DEF RemovePeer, Settle
  <1>3. /\ left \in Contexts /\ Kept(r, left.role) /\ Lost(r, left.role) = {p}
        /\ Members(left.role) = Members(r) \ {p} /\ Orderly(left.role)
        /\ \A q \in Members(left.role) : left.role.peers[q] = r.peers[q]
        /\ Lighter(c, left) /\ \A r0 \in Roles : Quiet(r0, c) => Quiet(r0, left)
    <2> DEFINE farewell == Disconnect(p, reason)
    <2>1. farewell \in Actions /\ Ends(farewell, p)
      BY <1>1, FarewellIn
    <2> HIDE DEF farewell
    <2>2. left = Drop(c, p, farewell)
      BY DEF farewell
    <2> HIDE DEF left
    <2> QED  BY <2>1, <2>2, DropKeeps
  <1>4. IsPlayer(gone) <=> p \in Players(r)
    BY <1>1 DEF Players
  <1> HIDE DEF left, gone, r
  <1>5. left.role \in Roles
    BY <1>3, ContextFields
  <1>6. Cardinality(Members(left.role)) <= n
    <2>1. /\ Cardinality(Members(left.role)) = Cardinality(Members(r)) - 1
          /\ Cardinality(Members(r)) \in Nat
      BY <1>1, <1>3, MembersFinite, FS_RemoveElement
    <2> QED  BY <2>1 DEF r
  <1>7. /\ Sheds(left, told, {})
        /\ announce => \A q \in Connected(left.role) \cap Members(told.role) :
                          Len(told.role.peers[q].outbox) > 0
        /\ \A r0 \in Roles : Quiet(r0, left) => Quiet(r0, told)
    <2>1. CASE announce
      <3>1. told = Console(f, left)
        BY <2>1
      <3> QED  BY <1>3, <1>6, <2>1, <3>1, ConsoleServes
    <2>2. CASE ~announce
      <3>1. told = left
        BY <2>2
      <3> QED  BY <1>3, <2>2, <3>1, ShedsNothing
    <2> QED  BY <2>1, <2>2
  <1> HIDE DEF told
  <1>8. /\ told \in Contexts /\ told.role \in Roles /\ Orderly(told.role)
        /\ Loses(left.role, told.role) /\ Heard(left.role, told.role)
        /\ Lost(left.role, told.role) \subseteq Connected(left.role)
    BY <1>7, ContextFields DEF Sheds
  <1>9. Members(told.role) \subseteq Members(left.role)
    BY <1>5, <1>8, LosesMembers
  <1>10. Cardinality(Members(told.role)) <= n
    BY <1>5, <1>6, <1>8, <1>9, SmallerRoom
  <1>11. /\ Sheds(told, last, {})
         /\ \A q \in Connected(told.role) \cap Members(last.role) :
               Len(last.role.peers[q].outbox) > 0
         /\ \A r0 \in Roles : Quiet(r0, told) => Quiet(r0, last)
    BY <1>8, <1>10, ConsoleServes
  <1> HIDE DEF last
  <1>12. /\ Sheds(left, last, {} \cup {})
         /\ Members(last.role) \subseteq Members(told.role)
         /\ Heard(told.role, last.role) /\ last \in Contexts /\ last.role \in Roles
         /\ Orderly(last.role)
    <2>1. Sheds(left, last, {} \cup {})
      BY <1>3, <1>7, <1>11, ShedsTwice
    <2>2. /\ Heard(told.role, last.role) /\ last \in Contexts /\ Orderly(last.role)
          /\ Loses(told.role, last.role)
      BY <1>11 DEF Sheds
    <2>3. last.role \in Roles
      BY <2>2, ContextFields
    <2>4. Members(last.role) \subseteq Members(told.role)
      BY <1>8, <2>2, <2>3, LosesMembers
    <2> QED  BY <2>1, <2>2, <2>3, <2>4
  <1>13. /\ Loses(left.role, last.role) /\ Lost(left.role, last.role) \subseteq Connected(left.role)
         /\ Heard(left.role, last.role)
    BY <1>12 DEF Sheds
  <1>21. /\ Lighter(c, told) /\ Lighter(c, last)
         /\ told.role.state = "WaitingStart" => last.role.state # "InGame"
    <2>1. Lighter(left, told) /\ Lighter(told, last)
      BY <1>7, <1>11 DEF Sheds
    <2>2. Lighter(c, told)
      BY <1>3, <1>8, <2>1, LighterTwice
    <2>3. Lighter(c, last)
      BY <1>8, <1>12, <2>1, <2>2, LighterTwice
    <2>4. told.role.state = "WaitingStart" => last.role.state # "InGame"
      BY <1>11 DEF Sheds, Loses, Kept, Over
    <2> QED  BY <2>2, <2>3, <2>4
  <1>14. p \in Accepted(r)
    BY DEF r
  (* Who stays among those that heard the announcement has heard it. *)
  <1>15. ASSUME announce, NEW x \in {told, last}, NEW e \in Roles,
                Members(e) \subseteq Members(x.role),
                \A q \in Members(e) : e.peers[q].outbox = x.role.peers[q].outbox
         PROVE  Heard(r, e)
    <2> SUFFICES ASSUME NEW q \in Members(e)
                 PROVE  /\ Len(e.peers[q].outbox) >= Len(r.peers[q].outbox)
                        /\ q \in Connected(r) => Len(e.peers[q].outbox) > 0
      BY DEF Heard
    <2>1. q \in Members(x.role) /\ q \in Members(told.role) /\ q \in Members(left.role)
          /\ q \in Members(r)
      BY <1>3, <1>9, <1>12, <1>15
    <2>2. /\ left.role.peers[q] = r.peers[q]
          /\ Len(x.role.peers[q].outbox) >= Len(left.role.peers[q].outbox)
      BY <1>3, <1>8, <1>13, <1>15, <2>1 DEF Heard
    <2>3. q \in Connected(r) => q \in Connected(left.role)
      BY <1>1, <1>3, <1>5, <2>1, KeptSets
    <2>4. q \in Connected(r) => Len(told.role.peers[q].outbox) > 0
      BY <1>7, <1>15, <2>1, <2>3
    <2>5. Len(told.role.peers[q].outbox) \in Nat /\ Len(x.role.peers[q].outbox) \in Nat
      BY <1>8, <1>12, <1>15, <2>1, MemberIsPeer
    <2>6. q \in Connected(r) => Len(x.role.peers[q].outbox) > 0
      <3>1. CASE x = told
        BY <2>4, <3>1
      <3>2. CASE x = last
        <4>1. Len(last.role.peers[q].outbox) >= Len(told.role.peers[q].outbox)
          BY <1>12, <2>1, <3>2 DEF Heard
        <4> QED  BY <2>4, <2>5, <3>2, <4>1
      <3> QED  BY <1>15, <3>1, <3>2
    <2> QED  BY <1>15, <2>2, <2>6
  <1>16. ASSUME NEW x \in {told, last}, EndsIt(r, Lost(r, x.role)), d = EndGame(x),
                x.role.state # "InGame" \/ Players(x.role) = {}
         PROVE  Removed(c, d, p, announce)
    <2>1. /\ x \in Contexts /\ x.role \in Roles /\ Orderly(x.role)
          /\ Kept(r, x.role) \/ Over(r, x.role)
          /\ Lost(r, x.role) \subseteq Connected(r) \cup {p} /\ p \notin Members(x.role)
      BY <1>1, <1>3, <1>5, <1>8, <1>12, <1>13, <1>14, AfterDrop
    <2>2. /\ d \in Contexts /\ d.role \in Roles /\ Over(x.role, d.role)
          /\ Members(d.role) = Accepted(x.role)
          /\ \A q \in Members(d.role) : d.role.peers[q].outbox = x.role.peers[q].outbox
          /\ \A r0 \in Roles : Quiet(r0, x) => Quiet(r0, d)
      BY <1>16, <2>1, EndGameIn, ContextFields
    <2>3. /\ Loses(r, d.role) /\ Lost(r, d.role) = Lost(r, x.role)
          /\ Members(d.role) \subseteq Members(x.role)
      BY <1>1, <1>14, <1>16, <2>1, <2>2, GameEndsIt
    <2>4. Orderly(d.role)
      <3>1. \A q \in Members(d.role) :
               /\ d.role.peers[q].outbox = x.role.peers[q].outbox
               /\ Closed(x.role.peers[q], d.role.peers[q])
        BY <2>2 DEF Over
      <3>2. Accepted(d.role) = Accepted(x.role) /\ Members(d.role) \subseteq Members(x.role)
        BY <2>1, <2>2, <2>3, OverSets
      <3>3. Members(d.role) = Accepted(d.role)
        BY <2>1, <2>2, OverSets
      <3> QED  BY <2>1, <3>1, <3>2, <3>3, Subsets DEF Orderly, Closed
    <2>5. \A r0 \in Roles : Quiet(r0, c) => Quiet(r0, d)
      BY <1>3, <1>7, <1>11, <1>16, <2>2
    <2>6. announce => Heard(r, d.role)
      BY <1>15, <2>2, <2>3
    <2>7. Lighter(c, d)
      <3>1. Lighter(x, d)
        BY <1>16, <2>1, EndGameLighter
      <3> QED  BY <1>16, <1>21, <2>1, <2>2, <3>1, LighterTwice
    <2> QED  BY <2>1, <2>2, <2>3, <2>4, <2>5, <2>6, <2>7 DEF Removed, r
  <1>17. /\ Kept(r, told.role) \/ Over(r, told.role)
         /\ Lost(r, told.role) \subseteq Connected(r) \cup {p} /\ p \notin Members(told.role)
         /\ p \in Lost(r, told.role)
         /\ Players(told.role) = {} => EndsIt(r, Lost(r, told.role))
         /\ told.role.state = "WaitingStart" /\ p \in Players(r) => EndsIt(r, Lost(r, told.role))
         /\ Players(told.role) # {} /\ ~(told.role.state = "WaitingStart" /\ p \in Players(r))
               => Loses(r, told.role)
    BY <1>1, <1>3, <1>5, <1>8, <1>14, AfterDrop
  <1>18. CASE told.role.state = "WaitingStart" /\ IsPlayer(gone)
    <2>1. d = EndGame(last)
      BY <1>2, <1>18
    <2>2. EndsIt(r, Lost(r, told.role)) /\ Lost(r, told.role) \subseteq Lost(r, last.role)
      BY <1>4, <1>12, <1>17, <1>18 DEF Lost
    <2>3. EndsIt(r, Lost(r, last.role)) /\ last.role.state # "InGame"
      BY <1>18, <1>21, <2>2 DEF EndsIt
    <2> QED  BY <1>16, <2>1, <2>3
  <1>19. CASE ~(told.role.state = "WaitingStart" /\ IsPlayer(gone)) /\ NoPlayerLeft(told.role)
    <2>1. d = EndGame(told) /\ Players(told.role) = {}
      BY <1>2, <1>19 DEF NoPlayerLeft
    <2> QED  BY <1>16, <1>17, <2>1
  <1>20. CASE ~(told.role.state = "WaitingStart" /\ IsPlayer(gone)) /\ ~NoPlayerLeft(told.role)
    <2>1. d = told /\ Players(told.role) # {}
      BY <1>2, <1>20 DEF NoPlayerLeft
    <2>2. Loses(r, d.role)
      BY <1>4, <1>17, <1>20, <2>1
    <2>3. \A r0 \in Roles : Quiet(r0, c) => Quiet(r0, d)
      BY <1>3, <1>7, <2>1
    <2>4. announce => Heard(r, d.role)
      BY <1>8, <1>15, <2>1
    <2> QED  BY <1>8, <1>17, <1>21, <2>1, <2>2, <2>3, <2>4 DEF Removed, r
  <1> QED  BY <1>18, <1>19, <1>20

-----------------------------------------------------------------------------
(* The reliable FIFO.                                                       *)

Queued(x, packet) == [x EXCEPT !.outbox = Append(@, packet)]

(* A packet queued is one entry more, and nothing else.                     *)
LEMMA QueuedIn ==
    ASSUME NEW x \in Peer, NEW packet \in ReliablePackets, x.syn
    PROVE  /\ Queued(x, packet) \in Peer /\ Same(x, Queued(x, packet))
           /\ Queued(x, packet).conn = x.conn
           /\ Len(x.outbox) \in Nat /\ Len(Queued(x, packet).outbox) = Len(x.outbox) + 1
  <1> DEFINE box == x.outbox
  <1>1. box \in Seq(ReliablePackets)
    BY DEF Peer
  <1>2. Append(box, packet) \in Seq(ReliablePackets) /\ Len(Append(box, packet)) = Len(box) + 1
        /\ Len(box) \in Nat
    BY <1>1
  <1> DEFINE long == Append(box, packet)
  <1>3. Queued(x, packet) = [x EXCEPT !.outbox = long]
    BY DEF Queued
  <1>4. long \in Seq(ReliablePackets) /\ Len(long) = Len(box) + 1
    BY <1>2
  <1> HIDE DEF long
  <1>5. Queued(x, packet) \in Peer /\ Queued(x, packet).outbox = long
    BY <1>3, <1>4 DEF Peer
  <1>6. Same(x, Queued(x, packet)) /\ Queued(x, packet).conn = x.conn
    BY <1>3 DEF Peer, Same
  <1> QED  BY <1>2, <1>4, <1>5, <1>6

QueuesFor(c, d, p) ==
    /\ Sheds(c, d, {}) /\ Lost(c.role, d.role) = {} /\ Members(d.role) = Members(c.role)
    /\ Live(d.role) = Live(c.role) /\ d.actions = c.actions
    /\ Len(d.role.peers[p].outbox) > 0

(* Queueing on a FIFO with room keeps everybody, and the FIFO within its    *)
(* bound.                                                                   *)
LEMMA QueueKeeps ==
    ASSUME NEW c \in Contexts, Orderly(c.role), NEW p \in Accepted(c.role),
           NEW packet \in ReliablePackets, ~FifoFull(c.role.peers[p].outbox),
           NEW d, d = SetPeer(c, p, Queued(c.role.peers[p], packet))
    PROVE  QueuesFor(c, d, p)
  <1> DEFINE r == c.role
             s == d.role
             x == r.peers[p]
             y == Queued(x, packet)
  <1>1. /\ p \in Ids /\ p \in Members(r) /\ r \in Roles /\ x.syn
        /\ x \in Peer
    BY Subsets, ContextFields, MemberIsPeer DEF Accepted
  <1>2. /\ y \in Peer /\ Same(x, y) /\ y.conn = x.conn
        /\ Len(x.outbox) \in Nat /\ Len(y.outbox) = Len(x.outbox) + 1
    BY <1>1, QueuedIn
  <1>3. Len(y.outbox) = Len(x.outbox) + 1 /\ Len(y.outbox) <= ReliableCap /\ Len(y.outbox) > 0
    <2>1. ReliableCap \in Nat /\ ~(Len(x.outbox) >= ReliableCap)
      BY Constants DEF FifoFull
    <2> QED  BY <1>2, <2>1
  <1>4. d \in Contexts /\ s = WithPeer(r, p, y) /\ d.actions = c.actions
    BY <1>1, <1>2, SetPeerIn
  <1> HIDE DEF s, y
  <1>5. Replaces(r, s, p, y)
    BY <1>1, <1>2, <1>4, PeerSet
  <1>6. y # None
    BY <1>2, Constants
  <1>7. Members(s) = Members(r) /\ s \in Roles
    BY <1>1, <1>5, <1>6 DEF Replaces
  <1>8. \A q \in Members(s) : Same(r.peers[q], s.peers[q])
    <2>1. \A q \in Members(s) : q \in Ids /\ (q = p \/ s.peers[q] = r.peers[q])
      BY <1>5, Subsets DEF Replaces
    <2> QED  BY <1>2, <1>5, <2>1 DEF Replaces, Same
  <1>9. Kept(r, s)
    BY <1>5, <1>7, <1>8 DEF Kept, Replaces
  <1>10. Loses(r, s) /\ Lost(r, s) = {}
    BY <1>1, <1>7, <1>9, LosesNothing
  <1>11. \A q \in Members(s) :
            /\ Len(s.peers[q].outbox) >= Len(r.peers[q].outbox)
            /\ Len(s.peers[q].outbox) <= ReliableCap
    <2>1. \A q \in Members(s) \ {p} :
             /\ s.peers[q] = r.peers[q] /\ Len(r.peers[q].outbox) \in Nat
             /\ Len(r.peers[q].outbox) <= ReliableCap
      BY <1>1, <1>5, <1>7, Subsets, MemberIsPeer DEF Replaces, Orderly
    <2>2. s.peers[p] = y
      BY <1>5 DEF Replaces
    <2>3. /\ Len(s.peers[p].outbox) >= Len(r.peers[p].outbox)
          /\ Len(s.peers[p].outbox) <= ReliableCap
      BY <1>2, <1>3, <2>2
    <2>4. \A q \in Members(s) \ {p} :
             /\ Len(s.peers[q].outbox) >= Len(r.peers[q].outbox)
             /\ Len(s.peers[q].outbox) <= ReliableCap
      BY <2>1
    <2> QED  BY <2>3, <2>4
  <1>12. Orderly(s)
    BY <1>1, <1>7, <1>10, <1>11, LosesOrderly
  <1>13. Connected(s) = Connected(r) /\ Live(s) = Live(r)
    <2>1. Connected(s) = Connected(r)
      <3> HIDE DEF r, x
      <3>1. Connected(s) = Connected(r) \cap Members(s)
        BY <1>1, <1>7, <1>9, KeptSets
      <3> QED  BY <1>7, <3>1, Subsets
    <2>2. \A q \in Members(s) : s.peers[q].conn = r.peers[q].conn
      BY <1>8 DEF Same
    <2> QED  BY <1>1, <1>7, <2>1, <2>2, LiveSets
  <1>14. Heard(r, s)
    BY <1>11, <1>13 DEF Heard
  <1>15. Len(s.peers[p].outbox) > 0
    BY <1>3, <1>5 DEF Replaces
  <1>16. Lighter(c, d)
    <2>1. \A q \in Ids : Awaits(s, q) => Awaits(r, q)
      <3>1. CASE Awaits(s, p)
        <4>1. s.peers[p].outbox = << >>
          BY <3>1 DEF Awaits
        <4>2. Len(s.peers[p].outbox) = 0
          BY <4>1
        <4> QED  BY <1>15, <4>2
      <3>2. \A q \in Ids \ {p} : s.peers[q] = r.peers[q]
        BY <1>5 DEF Replaces
      <3> QED  BY <1>7, <3>1, <3>2 DEF Awaits
    <2>2. \A q \in Ids : Endable(s, q) => Endable(r, q)
      BY <1>1, <1>7, <1>9, KeptEndable
    <2>3. \A q \in Ids : \A K : Said(d.actions, q, K) = Said(c.actions, q, K)
      BY <1>4
    <2> QED  BY <1>4, <2>1, <2>2, <2>3, LighterRole DEF r, s
  <1> QED  BY <1>4, <1>7, <1>10, <1>12, <1>13, <1>14, <1>15, <1>16 DEF Sheds, QueuesFor, s

(* enqueue_reliable serves a room of n + 1 members when the cascade it may  *)
(* start serves one of n.                                                   *)
LEMMA EnqueueServes ==
    ASSUME NEW f, NEW n \in Nat, Serves(f, n), NEW c \in Contexts, Orderly(c.role),
           Cardinality(Members(c.role)) <= n + 1, NEW p \in Ids,
           p \in Members(c.role) => p \in Accepted(c.role),
           NEW packet \in ReliablePackets, NEW d, d = Enqueue(f, c, p, packet)
    PROVE  Served(c, d, p)
  <1> DEFINE peer   == c.role.peers[p]
             queued == SetPeer(c, p, Queued(peer, packet))
  <1>1. CASE p \notin Members(c.role)
    <2>1. d = c
      BY <1>1 DEF Enqueue
    <2> QED  BY <1>1, <2>1, ShedsNothing DEF Served
  <1>2. CASE p \in Members(c.role) /\ FifoFull(peer.outbox)
    <2>1. d = RemovePeer(f, c, p, "ReliableOverflow", TRUE)
      BY <1>2 DEF Enqueue
    <2>2. Removed(c, d, p, TRUE)
      <3> DEFINE reason == "ReliableOverflow"
                 announce == TRUE
      <3>1. /\ reason \in {"Remote", "Timeout", "GameEnded", "ReliableOverflow", "MalformedInput"}
            /\ announce \in BOOLEAN /\ d = RemovePeer(f, c, p, reason, announce)
        BY <2>1
      <3> HIDE DEF reason, announce
      <3>2. Removed(c, d, p, announce)
        BY <1>2, <3>1, RemoveServes
      <3> QED  BY <3>2 DEF announce
    <2> QED  BY <2>2 DEF Removed, Served, Sheds
  <1>3. CASE p \in Members(c.role) /\ ~FifoFull(peer.outbox)
    <2>1. d = IF BecomesHead(peer.outbox) THEN Emit(queued, p, packet) ELSE queued
      BY <1>3 DEF Enqueue, Queued
    <2>0. queued = SetPeer(c, p, Queued(c.role.peers[p], packet))
      OBVIOUS
    <2> HIDE DEF queued
    <2>9. QueuesFor(c, queued, p)
      BY <1>3, <2>0, QueueKeeps
    <2>2. /\ Sheds(c, queued, {}) /\ Lost(c.role, queued.role) = {}
          /\ Members(queued.role) = Members(c.role)
          /\ Live(queued.role) = Live(c.role) /\ queued.actions = c.actions
          /\ Len(queued.role.peers[p].outbox) > 0
      BY <2>9 DEF QueuesFor
    <2>3. queued \in Contexts
      BY <2>2 DEF Sheds
    <2>4. packet \in ServerPackets /\ packet # "Disconnect"
      BY DEF ServerPackets, ReliablePackets
    <2>5. d \in Contexts /\ d.role = queued.role
      BY <2>1, <2>3, <2>4, EmitIn
    <2>8. Lighter(c, d)
      <3>1. Lighter(c, queued)
        BY <2>2 DEF Sheds
      <3>2. CASE BecomesHead(peer.outbox)
        <4>1. Awaits(c.role, p)
          BY <1>3, <3>2 DEF Awaits, BecomesHead
        <4>2. ~Awaits(queued.role, p)
          <5>1. Len(<< >>) = 0
            OBVIOUS
          <5> QED  BY <2>2, <5>1 DEF Awaits
        <4>3. d = Emit(queued, p, packet) /\ queued.actions = c.actions
          BY <2>1, <2>2, <3>2
        <4> QED  BY <2>3, <3>1, <4>1, <4>2, <4>3, HeadLighter
      <3> QED  BY <2>1, <3>1, <3>2
    <2>6. Sheds(c, d, {p})
      BY <2>2, <2>5, <2>8 DEF Sheds
    <2>7. ASSUME NEW r0 \in Roles, Quiet(r0, c), Hearing(c.role, p) PROVE Quiet(r0, d)
      <3>1. Quiet(r0, queued)
        BY <2>2, <2>7 DEF Quiet
      <3>2. CASE BecomesHead(peer.outbox)
        <4>1. Len(peer.outbox) = 0
          BY <3>2 DEF BecomesHead
        <4>2. p \in Live(queued.role)
          BY <1>3, <2>2, <2>7, <4>1 DEF Hearing
        <4>3. p \in Members(queued.role)
          BY <1>3, <2>2
        <4> QED  BY <2>1, <2>3, <2>4, <3>1, <3>2, <4>2, <4>3, QuietSays
      <3>3. CASE ~BecomesHead(peer.outbox)
        BY <2>1, <3>1, <3>3
      <3> QED  BY <3>2, <3>3
    <2> QED  BY <2>2, <2>5, <2>6, <2>7 DEF Served
  <1> QED  BY <1>1, <1>2, <1>3

-----------------------------------------------------------------------------
(* The levels of the cascade.                                               *)

Level(i, below) ==
    [p \in Ids |-> [packet \in ReliablePackets |-> [c \in Contexts |->
        IF i = 0 THEN c ELSE Enqueue(below, c, p, packet)]]]

Levels(f, n) == f = [i \in 0..n |-> Level(i, f[i - 1])]

(* The recursion over levels has a value at every level.                    *)
LEMMA LevelsExist ==
    ASSUME NEW n \in Nat
    PROVE  \E f : Levels(f, n)
  <1> DEFINE Bad == {k \in Nat : ~ \E f : Levels(f, k)}
  <1> SUFFICES ASSUME Bad # {} PROVE FALSE
    OBVIOUS
  <1>1. PICK k \in Bad : \A m \in Bad : k <= m
    BY LeastOfSet
  <1>0. \A a, b : Level(0, a) = Level(0, b)
    BY DEF Level
  <1>2. CASE k = 0
    <2> DEFINE f == [i \in 0..0 |-> Level(0, {})]
    <2>1. \A i \in 0..0 : i = 0
      OBVIOUS
    <2>2. f = [i \in 0..0 |-> Level(i, f[i - 1])]
      <3>1. \A i \in 0..0 : Level(0, {}) = Level(i, f[i - 1])
        BY <1>0, <2>1
      <3> QED  BY <3>1
    <2>3. Levels(f, 0)
      BY <2>2 DEF Levels
    <2> QED  BY <1>1, <1>2, <2>3
  <1>3. CASE k # 0
    <2>1. k - 1 \in Nat /\ k - 1 \notin Bad
      BY <1>1, <1>3
    <2>2. PICK f : Levels(f, k - 1)
      BY <2>1
    <2> DEFINE g == [i \in 0..k |-> IF i <= k - 1 THEN f[i] ELSE Level(k, f[k - 1])]
    <2>3. ASSUME NEW i \in 0..k PROVE g[i] = Level(i, g[i - 1])
      <3>1. CASE i <= k - 1
        <4>1. g[i] = f[i] /\ (i # 0 => g[i - 1] = f[i - 1]) /\ i \in 0..(k - 1)
          BY <2>1, <3>1
        <4>2. f[i] = Level(i, f[i - 1])
          BY <2>2, <4>1 DEF Levels
        <4> HIDE DEF g
        <4> QED  BY <1>0, <4>1, <4>2
      <3>2. CASE ~(i <= k - 1)
        <4>1. i = k /\ g[i] = Level(k, f[k - 1]) /\ g[i - 1] = f[i - 1]
          BY <2>1, <2>3, <3>2
        <4> HIDE DEF g
        <4> QED  BY <4>1
      <3> QED  BY <3>1, <3>2
    <2>4. g = [i \in 0..k |-> g[i]]
      OBVIOUS
    <2> HIDE DEF g
    <2>5. Levels(g, k)
      BY <2>3, <2>4 DEF Levels
    <2> QED  BY <1>1, <2>5
  <1> QED  BY <1>2, <1>3

(* Each level of the cascade is an enqueue over the level below.            *)
LEMMA CascadeLevels ==
    ASSUME NEW n \in 0..MaxPeers
    PROVE  Cascade[n] = Level(n, Cascade[n - 1])
  <1>1. MaxPeers \in Nat
    BY Constants
  <1>2. Cascade = CHOOSE f : Levels(f, MaxPeers)
    BY DEF Cascade, Levels, Level
  <1>3. Levels(Cascade, MaxPeers)
    BY <1>1, <1>2, LevelsExist
  <1> QED  BY <1>3 DEF Levels

(* Level n of the cascade serves the rooms of at most n members. *)
LEMMA CascadeServes ==
    ASSUME NEW n \in 0..MaxPeers
    PROVE  Serves(Cascade[n], n)
  <1> DEFINE Bad == {k \in 0..MaxPeers : ~Serves(Cascade[k], k)}
  <1> SUFFICES ASSUME Bad # {} PROVE FALSE
    OBVIOUS
  <1>1. MaxPeers \in Nat /\ Bad \in SUBSET Nat
    BY Constants
  <1>2. PICK k \in Bad : \A m \in Bad : k <= m
    BY <1>1, LeastOfSet
  <1>3. k \in 0..MaxPeers /\ k \in Nat
    BY <1>1
  <1>4. SUFFICES ASSUME NEW p \in Ids, NEW packet \in ReliablePackets, NEW c \in Contexts,
                        Orderly(c.role), Cardinality(Members(c.role)) <= k,
                        p \in Members(c.role) => p \in Accepted(c.role)
                 PROVE  Served(c, Cascade[k][p][packet][c], p)
    BY <1>2 DEF Serves
  <1>5. Cascade[k][p][packet][c] = IF k = 0 THEN c ELSE Enqueue(Cascade[k - 1], c, p, packet)
    <2> DEFINE below == Cascade[k - 1]
    <2>1. Cascade[k] = Level(k, below)
      BY <1>3, CascadeLevels
    <2> HIDE DEF below
    <2>2. Level(k, below)[p][packet][c] = IF k = 0 THEN c ELSE Enqueue(below, c, p, packet)
      BY <1>4 DEF Level
    <2> QED  BY <2>1, <2>2 DEF below
  <1>6. CASE k = 0
    <2>1. Members(c.role) = {}
      BY <1>4, <1>6, MembersFinite
    <2> QED  BY <1>4, <1>5, <1>6, <2>1, ShedsNothing DEF Served
  <1>7. CASE k # 0
    <2>1. k - 1 \in Nat /\ k - 1 \in 0..MaxPeers /\ ~(k <= k - 1) /\ (k - 1) + 1 = k
      BY <1>1, <1>3, <1>7
    <2>2. Serves(Cascade[k - 1], k - 1)
      BY <1>2, <2>1
    <2> DEFINE m == k - 1
               f == Cascade[m]
    <2> HIDE DEF m, f
    <2>3. m \in Nat /\ Serves(f, m) /\ Cardinality(Members(c.role)) <= m + 1
          /\ Cascade[k][p][packet][c] = Enqueue(f, c, p, packet)
      BY <1>4, <1>5, <1>7, <2>1, <2>2 DEF m, f
    <2> QED  BY <1>4, <2>3, EnqueueServes
  <1> QED  BY <1>6, <1>7

(* The three entry points, in a room the registry lets be. *)
LEMMA EntryPoints ==
    ASSUME NEW c \in Contexts, Orderly(c.role), Cardinality(Members(c.role)) <= MaxPeers
    PROVE  /\ \A p \in Accepted(c.role), packet \in ReliablePackets :
                 Served(c, EnqueueReliable(c, p, packet), p)
           /\ \A p \in Accepted(c.role), announce \in BOOLEAN,
                 reason \in {"Remote", "Timeout", "GameEnded", "ReliableOverflow", "MalformedInput"} :
                 Removed(c, RemoveConnected(c, p, reason, announce), p, announce)
           /\ \A packet \in ReliablePackets :
                 LET d == EnqueueAll(c, Connected(c.role), packet)
                 IN  Sheds(c, d, {}) /\ \A r0 \in Roles : Quiet(r0, c) => Quiet(r0, d)
  <1> DEFINE n == MaxPeers
             f == Cascade[n]
             m == Cardinality(Members(c.role))
  <1>1. n \in Nat /\ n \in 0..MaxPeers /\ m \in Nat
    BY Constants, MembersFinite
  <1>2. Serves(f, n) /\ m <= n
    BY <1>1, CascadeServes
  <1>3. m <= n + 1
    BY <1>1, <1>2
  <1>4. ASSUME NEW p \in Accepted(c.role), NEW packet \in ReliablePackets
        PROVE  Served(c, EnqueueReliable(c, p, packet), p)
    <2>1. EnqueueReliable(c, p, packet) = Enqueue(f, c, p, packet) /\ p \in Ids
      BY Subsets DEF EnqueueReliable
    <2> HIDE DEF n, f
    <2> QED  BY <1>1, <1>2, <1>3, <2>1, EnqueueServes
  <1>5. ASSUME NEW p \in Accepted(c.role), NEW announce \in BOOLEAN,
               NEW reason \in {"Remote", "Timeout", "GameEnded", "ReliableOverflow",
                               "MalformedInput"}
        PROVE  Removed(c, RemoveConnected(c, p, reason, announce), p, announce)
    <2>1. RemoveConnected(c, p, reason, announce) = RemovePeer(f, c, p, reason, announce)
      BY DEF RemoveConnected
    <2> HIDE DEF n, f
    <2> QED  BY <1>1, <1>2, <1>3, <2>1, RemoveServes
  <1>6. ASSUME NEW packet \in ReliablePackets, NEW d,
               d = EnqueueAll(c, Connected(c.role), packet)
        PROVE  Sheds(c, d, {}) /\ \A r0 \in Roles : Quiet(r0, c) => Quiet(r0, d)
    <2>1. d = EnqueueEach(f, c, Connected(c.role), packet)
          /\ Connected(c.role) \in SUBSET Connected(c.role)
      BY <1>6 DEF EnqueueAll
    <2> HIDE DEF n, f
    <2> QED  BY <1>1, <1>2, <2>1, EachServes
  <1> QED  BY <1>4, <1>5, <1>6

-----------------------------------------------------------------------------
(* The inductive invariant, part by part, of one role.                      *)

(* A member that has not completed SYN is as it was admitted. *)
Unknown(x) == x.conn = "Connected" /\ ~x.ready /\ ~x.game /\ x.gameIndex = None /\ x.outbox = << >>

Strangers(r) == \A p \in Members(r) \ Accepted(r) : Unknown(r.peers[p])

Clean(r) ==
    r.state = "WaitingLaunch" =>
        /\ ~r.settings
        /\ \A p \in Connected(r) : ~r.peers[p].ready
        /\ \A p \in Members(r) : ~r.peers[p].game /\ r.peers[p].gameIndex = None

OneMode(r) == \A p \in Connected(r) : r.gamemode # None /\ r.peers[p].mode = r.gamemode

Watches(x) == x.drone \/ x.conn = "Disconnecting"

(* An adopted mode is that of a player, connected or asleep. *)
Claimed(r) == r.gamemode # None =>
    \E p \in Accepted(r) : ~Watches(r.peers[p]) /\ r.peers[p].mode = r.gamemode

Populated(r) == r.state # "WaitingLaunch" => \E p \in Accepted(r) : ~Watches(r.peers[p])

Counted(r) == Members(r) \subseteq 1..r.nextOrder /\ Cardinality(Members(r)) <= MaxPeers

RoleInv(r) ==
    /\ r \in Roles /\ Counted(r) /\ Orderly(r) /\ Strangers(r)
    /\ Clean(r) /\ OneMode(r) /\ Claimed(r) /\ Populated(r)

Frozen(r, s) ==
    r.state = "InGame" /\ s.state = "InGame" =>
        \A p \in Members(r) \cap Members(s) :
            /\ s.peers[p].gameIndex = r.peers[p].gameIndex
            /\ s.peers[p].slot = r.peers[p].slot
            /\ s.peers[p].game = r.peers[p].game

(* An empty lobby satisfies the invariant.                                  *)
LEMMA InitInv ==
    ASSUME NEW r, r = [state |-> "WaitingLaunch", gamemode |-> None, settings |-> FALSE,
                       peers |-> [p \in Ids |-> None], nextOrder |-> 0]
    PROVE  RoleInv(r) /\ Members(r) = {}
  <1>1. Members(r) = {}
    BY DEF Members
  <1>2. r \in Roles
    BY Constants DEF Roles
  <1>3. Counted(r)
    <2>1. Cardinality(Members(r)) = 0
      BY <1>1, FS_EmptySet
    <2>2. MaxPeers \in Nat /\ 0 <= MaxPeers
      BY Constants
    <2>3. Cardinality(Members(r)) <= MaxPeers
      BY <2>1, <2>2
    <2> QED  BY <1>1, <2>3 DEF Counted
  <1> QED  BY <1>1, <1>2, <1>3, Subsets
           DEF RoleInv, Orderly, Strangers, Clean, OneMode, Claimed, Populated

(* Any shedding keeps the invariant and every frozen index.                 *)
LEMMA LosesKeepsInv ==
    ASSUME NEW r, RoleInv(r), NEW s \in Roles, Loses(r, s), Orderly(s)
    PROVE  RoleInv(s) /\ Frozen(r, s)
  <1>0. r \in Roles
    BY DEF RoleInv
  <1>1. /\ Members(s) \subseteq Members(r) /\ s.nextOrder = r.nextOrder
        /\ Accepted(s) = Accepted(r) \cap Members(s)
        /\ \A p \in Members(s) :
              s.peers[p].slot = r.peers[p].slot /\ s.peers[p].syn = r.peers[p].syn
    BY <1>0, LosesMembers
  <1>2. Counted(s)
    <2>1. MaxPeers \in Nat
      BY Constants
    <2>2. Cardinality(Members(s)) <= MaxPeers
      BY <1>0, <1>1, <2>1, SmallerRoom DEF RoleInv, Counted
    <2> QED  BY <1>1, <2>2 DEF RoleInv, Counted
  <1>3. CASE Kept(r, s) /\ (Lost(r, s) # {} => ~EndsIt(r, Lost(r, s)))
    <2>1. /\ Accepted(s) = Accepted(r) \ Lost(r, s) /\ Connected(s) \subseteq Connected(r)
          /\ Players(s) = Players(r) \ Lost(r, s)
      BY <1>0, <1>3, KeptSets
    <2>2. \A p \in Members(s) : p \in Members(r) /\ Same(r.peers[p], s.peers[p])
      BY <1>1, <1>3 DEF Kept
    <2>3. s.state = r.state /\ s.gamemode = r.gamemode /\ s.settings = r.settings
      BY <1>3 DEF Kept
    <2>4. Strangers(s)
      BY <1>1, <2>2 DEF RoleInv, Strangers, Unknown, Same, Accepted
    <2>5. Clean(s)
      <3> SUFFICES ASSUME s.state = "WaitingLaunch"
                   PROVE  /\ ~s.settings
                          /\ \A p \in Connected(s) : ~s.peers[p].ready
                          /\ \A p \in Members(s) : ~s.peers[p].game /\ s.peers[p].gameIndex = None
        BY DEF Clean
      <3>1. /\ ~r.settings
            /\ \A p \in Connected(r) : ~r.peers[p].ready
            /\ \A p \in Members(r) : ~r.peers[p].game /\ r.peers[p].gameIndex = None
        BY <2>3 DEF RoleInv, Clean
      <3>2. \A p \in Members(s) : /\ p \in Members(r)
                                  /\ s.peers[p].ready = r.peers[p].ready
                                  /\ s.peers[p].game = r.peers[p].game
                                  /\ s.peers[p].gameIndex = r.peers[p].gameIndex
        BY <2>2 DEF Same
      <3>3. \A p \in Connected(s) : p \in Connected(r) /\ p \in Members(s)
        BY <2>1, Subsets
      <3> QED  BY <2>3, <3>1, <3>2, <3>3
    <2>6. OneMode(s)
      BY <2>1, <2>2, <2>3, Subsets DEF RoleInv, OneMode, Same
    <2>7. Populated(s)
      <3>1. CASE Lost(r, s) = {}
        BY <2>1, <2>2, <2>3, <3>1, Subsets DEF RoleInv, Populated, Watches, Same
      <3>2. CASE Lost(r, s) # {}
        <4>1. PICK p \in Players(s) : TRUE
          BY <1>3, <2>1, <3>2 DEF EndsIt
        <4>2. p \in Accepted(s) /\ ~Watches(s.peers[p])
          BY <4>1, Subsets DEF Players, IsPlayer, Watches
        <4> QED  BY <4>2 DEF Populated
      <3> QED  BY <3>1, <3>2
    <2>8. Frozen(r, s)
      BY <2>2 DEF Frozen, Same
    <2>9. Claimed(s)
      <3>1. CASE Lost(r, s) = {}
        BY <2>1, <2>2, <2>3, <3>1, Subsets DEF RoleInv, Claimed, Watches, Same
      <3>2. CASE Lost(r, s) # {}
        <4>1. PICK p \in Players(s) : TRUE
          BY <1>3, <2>1, <3>2 DEF EndsIt
        <4>2. p \in Accepted(s) /\ p \in Connected(s) /\ ~Watches(s.peers[p])
          BY <4>1, Subsets DEF Players, IsPlayer, Watches, Connected
        <4> QED  BY <2>6, <4>2 DEF Claimed, OneMode
      <3> QED  BY <3>1, <3>2
    <2> QED  BY <1>2, <2>4, <2>5, <2>6, <2>7, <2>8, <2>9 DEF RoleInv
  <1>4. CASE Over(r, s)
    <2>1. Accepted(s) = Members(s) /\ Connected(s) = {}
      BY <1>0, <1>4, OverSets
    <2>2. s.state = "WaitingLaunch" /\ s.gamemode = None /\ ~s.settings
      BY <1>4 DEF Over
    <2>3. Strangers(s) /\ OneMode(s) /\ Claimed(s) /\ Populated(s) /\ Frozen(r, s)
      BY <2>1, <2>2 DEF Strangers, OneMode, Claimed, Populated, Frozen
    <2>4. Clean(s)
      BY <1>4, <2>1, <2>2 DEF Clean, Over, Closed
    <2> QED  BY <1>2, <2>3, <2>4 DEF RoleInv
  <1> QED  BY <1>3, <1>4 DEF Loses

-----------------------------------------------------------------------------
(* The other things that may become of a role.                              *)

(* A connection is admitted, or its admission fails. *)
Admits(r, s) ==
    LET p == r.nextOrder + 1
    IN  /\ p \in Ids /\ s \in Roles /\ s.nextOrder = p
        /\ s.state = r.state /\ s.gamemode = r.gamemode /\ s.settings = r.settings
        /\ s.peers[p] \in {Admitted, None}
        /\ \A q \in Ids \ {p} : s.peers[q] = r.peers[q]

Refuses(r, s, p) == p \in Members(r) \ Accepted(r) /\ Replaces(r, s, p, None)

(* p completes SYN. *)
Enrolls(r, s, p) ==
    LET x == r.peers[p]
        y == s.peers[p]
    IN  /\ p \in Members(r) \ Accepted(r) /\ r.state = "WaitingLaunch" /\ s \in Roles
        /\ s.state = r.state /\ s.settings = r.settings /\ s.nextOrder = r.nextOrder
        /\ s.gamemode # None /\ (Connected(r) # {} => s.gamemode = r.gamemode)
        /\ y.drone => r.gamemode # None /\ s.gamemode = r.gamemode
        /\ \A q \in Ids \ {p} : s.peers[q] = r.peers[q]
        /\ y \in Peer /\ y.syn /\ y.conn = "Connected" /\ ~y.ready /\ ~y.game /\ y.gameIndex = None
        /\ y.mode = s.gamemode /\ Len(y.outbox) <= ReliableCap
        /\ y.slot \in Slots /\ \A q \in Members(r) : r.peers[q].slot # y.slot

(* p says DISCONNECT. *)
Sleeps(r, s, p) ==
    p \in Connected(r) /\ Replaces(r, s, p, [r.peers[p] EXCEPT !.conn = "Sleeping"])

Launching(r) == [r EXCEPT !.state = "WaitingStart"]

Launches(r, s) ==
    /\ r.state = "WaitingLaunch" /\ Players(r) # {} /\ s \in Roles /\ Orderly(s)
    /\ Loses(Launching(r), s) /\ Lost(Launching(r), s) \subseteq Connected(r)

(* An admission, good or failed, keeps the invariant.                       *)
LEMMA AdmitsInv ==
    ASSUME NEW r, RoleInv(r), NEW s, Admits(r, s), Cardinality(Members(r)) # MaxPeers
    PROVE  /\ RoleInv(s) /\ Frozen(r, s) /\ Accepted(s) = Accepted(r)
           /\ Connected(s) = Connected(r)
           /\ Members(s) \in {Members(r), Members(r) \cup {r.nextOrder + 1}}
           /\ \A p \in Accepted(r) : s.peers[p] = r.peers[p]
           /\ \A p \in Members(s) \ Accepted(s) : ~s.peers[p].game
           /\ r.nextOrder + 1 \notin Members(r)
  <1> DEFINE p == r.nextOrder + 1
  <1>1. /\ r \in Roles /\ Members(r) \subseteq 1..r.nextOrder /\ r.nextOrder \in Nat
        /\ p \in Nat /\ ~(p <= r.nextOrder)
    BY Constants DEF RoleInv, Counted, Roles
  <1>2. p \notin Members(r) /\ r.peers[p] = None
    BY <1>1 DEF Admits, Members
  <1>3. /\ p \in Ids /\ s \in Roles /\ s.nextOrder = p
        /\ s.state = r.state /\ s.gamemode = r.gamemode /\ s.settings = r.settings
        /\ s.peers[p] \in {Admitted, None}
        /\ \A q \in Ids \ {p} : s.peers[q] = r.peers[q]
    BY DEF Admits
  <1> HIDE DEF p
  <1>4. /\ Admitted # None /\ Unknown(Admitted) /\ ~Admitted.syn /\ Admitted.slot = None
        /\ Len(Admitted.outbox) <= ReliableCap
    <2>1. Admitted \in Peer
      <3>1. NetMaxPlayers \in 0..NetMaxPlayers /\ 0 \in 0..DisconnectSends
        BY Constants
      <3>2. << >> \in Seq(ReliablePackets)
        OBVIOUS
      <3> QED  BY <3>1, <3>2 DEF Admitted, Peer
    <2>2. Len(<< >>) <= ReliableCap
      BY Constants
    <2> QED  BY <2>1, <2>2, Constants DEF Admitted, Unknown
  <1>5. Members(s) = IF s.peers[p] = None THEN Members(r) ELSE Members(r) \cup {p}
    BY <1>2, <1>3 DEF Members
  <1>6. \A q \in Members(r) : q \in Members(s) /\ s.peers[q] = r.peers[q] /\ q # p
    BY <1>2, <1>3, <1>5, Subsets
  <1>7. \A q \in Members(s) : q \in Members(r) \/ (q = p /\ s.peers[q] = Admitted)
    BY <1>3, <1>5
  <1>8. Accepted(s) = Accepted(r) /\ Connected(s) = Connected(r)
    BY <1>4, <1>6, <1>7 DEF Accepted, Connected
  <1>9. \A q \in Accepted(r) : s.peers[q] = r.peers[q]
    BY <1>6, Subsets
  <1>10. Counted(s)
    <2>1. 1..r.nextOrder \subseteq 1..p /\ p \in 1..p
      BY <1>1 DEF p
    <2>2. /\ IsFiniteSet(Members(r)) /\ Cardinality(Members(r)) \in Nat
          /\ Cardinality(Members(r)) <= MaxPeers /\ MaxPeers \in Nat
      BY MembersFinite, Constants DEF RoleInv, Counted
    <2>3. Cardinality(Members(r) \cup {p}) = Cardinality(Members(r)) + 1
      BY <1>2, <2>2, FS_AddElement
    <2>4. Cardinality(Members(s)) <= MaxPeers
      BY <1>5, <2>2, <2>3
    <2> QED  BY <1>1, <1>3, <1>5, <2>1, <2>4 DEF Counted
  <1>11. Orderly(s)
    <2>1. \A q \in Members(s) \ Accepted(s) : s.peers[q].conn = "Connected"
      BY <1>4, <1>6, <1>7, <1>8 DEF RoleInv, Orderly, Unknown
    <2>2. /\ \A q \in Members(s) : Len(s.peers[q].outbox) <= ReliableCap
          /\ \A q \in Members(s) : s.peers[q].syn <=> s.peers[q].slot # None
      BY <1>4, <1>6, <1>7 DEF RoleInv, Orderly
    <2>3. \A q, t \in Accepted(s) : s.peers[q].slot = s.peers[t].slot => q = t
      BY <1>6, <1>8, Subsets DEF RoleInv, Orderly
    <2> QED  BY <2>1, <2>2, <2>3 DEF Orderly
  <1>12. Strangers(s)
    BY <1>4, <1>6, <1>7, <1>8 DEF RoleInv, Strangers
  <1>13. Clean(s)
    BY <1>3, <1>4, <1>6, <1>7, <1>8, Subsets DEF RoleInv, Clean, Unknown
  <1>14. OneMode(s) /\ Claimed(s) /\ Populated(s)
    BY <1>3, <1>8, <1>9, Subsets DEF RoleInv, OneMode, Claimed, Populated
  <1>15. Frozen(r, s)
    BY <1>6 DEF Frozen
  <1>16. \A q \in Members(s) \ Accepted(s) : ~s.peers[q].game
    BY <1>12 DEF Strangers, Unknown
  <1>17. RoleInv(s)
    BY <1>3, <1>10, <1>11, <1>12, <1>13, <1>14 DEF RoleInv
  <1> QED  BY <1>2, <1>5, <1>8, <1>9, <1>15, <1>16, <1>17 DEF p

(* The removal of a stranger keeps the invariant and every other member.    *)
LEMMA RefusesInv ==
    ASSUME NEW r, RoleInv(r), NEW s, NEW p, Refuses(r, s, p)
    PROVE  /\ RoleInv(s) /\ Frozen(r, s)
           /\ Accepted(s) = Accepted(r) /\ Connected(s) = Connected(r)
           /\ Members(s) = Members(r) \ {p}
           /\ \A q \in Members(s) : s.peers[q] = r.peers[q]
  <1>1. /\ p \in Members(r) /\ p \notin Accepted(r) /\ Replaces(r, s, p, None)
        /\ r \in Roles /\ s \in Roles
    BY DEF Refuses, RoleInv, Replaces
  <1>2. /\ s.state = r.state /\ s.gamemode = r.gamemode
        /\ s.settings = r.settings /\ s.nextOrder = r.nextOrder
        /\ \A q \in Ids \ {p} : s.peers[q] = r.peers[q]
        /\ Members(s) = Members(r) \ {p}
    BY <1>1 DEF Replaces
  <1>3. \A q \in Members(s) : q \in Members(r) /\ s.peers[q] = r.peers[q]
    BY <1>2, Subsets
  <1>4. Accepted(s) = Accepted(r) /\ Connected(s) = Connected(r)
    BY <1>1, <1>2, <1>3 DEF Accepted, Connected
  <1>5. Counted(s)
    <2>1. MaxPeers \in Nat
      BY Constants
    <2>2. Cardinality(Members(s)) <= MaxPeers
      BY <1>1, <1>2, <2>1, SmallerRoom DEF RoleInv, Counted
    <2> QED  BY <1>2, <2>2 DEF RoleInv, Counted
  <1>6. Orderly(s)
    BY <1>3, <1>4, Subsets DEF RoleInv, Orderly
  <1>7. Strangers(s) /\ Clean(s) /\ OneMode(s) /\ Claimed(s) /\ Populated(s) /\ Frozen(r, s)
    <2>1. Strangers(s)
      BY <1>3, <1>4 DEF RoleInv, Strangers
    <2>2. \A q \in Connected(r) : s.peers[q] = r.peers[q]
      BY <1>3, <1>4, Subsets
    <2>3. Clean(s) /\ OneMode(s)
      BY <1>2, <1>3, <1>4, <2>2 DEF RoleInv, Clean, OneMode
    <2>4. \A q \in Accepted(r) : s.peers[q] = r.peers[q]
      BY <1>3, <1>4, Subsets
    <2>5. Claimed(s) /\ Populated(s)
      BY <1>2, <1>4, <2>4 DEF RoleInv, Claimed, Populated
    <2> QED  BY <1>3, <2>1, <2>3, <2>5 DEF Frozen
  <1> QED  BY <1>1, <1>2, <1>3, <1>4, <1>5, <1>6, <1>7 DEF RoleInv

(* A completed SYN keeps the invariant and every other member.              *)
LEMMA EnrollsInv ==
    ASSUME NEW r, RoleInv(r), NEW s, NEW p, Enrolls(r, s, p)
    PROVE  /\ RoleInv(s) /\ Frozen(r, s) /\ Members(s) = Members(r)
           /\ Accepted(s) = Accepted(r) \cup {p} /\ Connected(s) = Connected(r) \cup {p}
           /\ \A q \in Members(s) \ {p} : s.peers[q] = r.peers[q]
           /\ p \in Members(r) /\ p \notin Accepted(r) /\ ~r.peers[p].game
  <1> DEFINE y == s.peers[p]
  <1>1. /\ p \in Members(r) /\ p \notin Accepted(r) /\ r.state = "WaitingLaunch" /\ s \in Roles
        /\ s.state = r.state /\ s.settings = r.settings /\ s.nextOrder = r.nextOrder
        /\ s.gamemode # None /\ (Connected(r) # {} => s.gamemode = r.gamemode)
        /\ s.peers[p].drone => r.gamemode # None /\ s.gamemode = r.gamemode
        /\ \A q \in Ids \ {p} : s.peers[q] = r.peers[q]
        /\ r \in Roles /\ p \in Ids
    BY Subsets DEF Enrolls, RoleInv
  <1>2. /\ y \in Peer /\ y.syn /\ y.conn = "Connected" /\ ~y.ready /\ ~y.game /\ y.gameIndex = None
        /\ y.mode = s.gamemode /\ Len(y.outbox) <= ReliableCap
        /\ y.slot \in Slots /\ \A q \in Members(r) : r.peers[q].slot # y.slot
    BY DEF Enrolls
  <1> HIDE DEF y
  <1>3. y # None /\ y.slot # None
    BY <1>2, Constants
  <1>4. Members(s) = Members(r) /\ \A q \in Members(r) \ {p} : s.peers[q] = r.peers[q]
    BY <1>1, <1>3 DEF Members, y
  <1>5. Accepted(s) = Accepted(r) \cup {p} /\ Connected(s) = Connected(r) \cup {p}
    BY <1>1, <1>2, <1>4 DEF Accepted, Connected, y
  <1>6. Counted(s)
    BY <1>1, <1>4 DEF RoleInv, Counted
  <1>7. Orderly(s)
    <2>1. \A q \in Members(s) : Len(s.peers[q].outbox) <= ReliableCap
      BY <1>2, <1>4 DEF RoleInv, Orderly, y
    <2>2. \A q \in Members(s) : s.peers[q].syn <=> s.peers[q].slot # None
      BY <1>2, <1>3, <1>4 DEF RoleInv, Orderly, y
    <2>3. ASSUME NEW q \in Accepted(s), NEW t \in Accepted(s), s.peers[q].slot = s.peers[t].slot
          PROVE  q = t
      <3>1. \A k \in Accepted(r) : k # p /\ s.peers[k] = r.peers[k] /\ s.peers[k].slot # y.slot
        BY <1>1, <1>2, <1>4, Subsets
      <3>2. \A k, l \in Accepted(r) : s.peers[k].slot = s.peers[l].slot => k = l
        BY <3>1 DEF RoleInv, Orderly
      <3> QED  BY <1>5, <2>3, <3>1, <3>2 DEF y
    <2>4. \A q \in Members(s) \ Accepted(s) : s.peers[q].conn = "Connected"
      BY <1>4, <1>5 DEF RoleInv, Orderly
    <2> QED  BY <2>1, <2>2, <2>3, <2>4 DEF Orderly
  <1>8. Strangers(s)
    BY <1>4, <1>5 DEF RoleInv, Strangers
  <1>9. Clean(s)
    <2>1. /\ ~r.settings
          /\ \A q \in Connected(r) : ~r.peers[q].ready
          /\ \A q \in Members(r) : ~r.peers[q].game /\ r.peers[q].gameIndex = None
      BY <1>1 DEF RoleInv, Clean
    <2>2. \A q \in Members(s) : q = p \/ (q \in Members(r) /\ s.peers[q] = r.peers[q])
      BY <1>4
    <2>3. \A q \in Connected(s) : q = p \/ (q \in Connected(r) /\ s.peers[q] = r.peers[q])
      BY <1>4, <1>5, Subsets
    <2> QED  BY <1>1, <1>2, <2>1, <2>2, <2>3 DEF Clean, y
  <1>10. OneMode(s)
    <2>1. \A q \in Connected(s) : q = p \/ (q \in Connected(r) /\ s.peers[q] = r.peers[q])
      BY <1>4, <1>5, Subsets
    <2> QED  BY <1>1, <1>2, <2>1 DEF RoleInv, OneMode, y
  <1>11. Populated(s) /\ Frozen(r, s)
    BY <1>1 DEF Populated, Frozen
  <1>12. ~r.peers[p].game
    BY <1>1 DEF RoleInv, Strangers, Unknown
  <1>13. Claimed(s)
    <2>1. CASE y.drone
      <3>1. PICK q \in Accepted(r) : ~Watches(r.peers[q]) /\ r.peers[q].mode = r.gamemode
        BY <1>1, <2>1 DEF RoleInv, Claimed, y
      <3>2. q \in Accepted(s) /\ s.peers[q] = r.peers[q] /\ s.gamemode = r.gamemode
        BY <1>1, <1>4, <1>5, <2>1, <3>1, Subsets DEF y
      <3> QED  BY <3>1, <3>2 DEF Claimed
    <2>2. CASE ~y.drone
      <3>1. p \in Accepted(s) /\ ~Watches(s.peers[p]) /\ s.peers[p].mode = s.gamemode
        BY <1>2, <1>5, <2>2 DEF Watches, y
      <3> QED  BY <3>1 DEF Claimed
    <2> QED  BY <2>1, <2>2
  <1> QED  BY <1>1, <1>4, <1>5, <1>6, <1>7, <1>8, <1>9, <1>10, <1>11, <1>12, <1>13 DEF RoleInv

(* A peer's DISCONNECT keeps the invariant: its player is still there,      *)
(* asleep.                                                                  *)
LEMMA SleepsInv ==
    ASSUME NEW r, RoleInv(r), NEW s, NEW p, Sleeps(r, s, p)
    PROVE  /\ RoleInv(s) /\ Frozen(r, s) /\ Members(s) = Members(r)
           /\ Accepted(s) = Accepted(r) /\ Connected(s) = Connected(r) \ {p}
           /\ \A q \in Members(s) \ {p} : s.peers[q] = r.peers[q]
           /\ p \in Connected(r) /\ s.peers[p].conn = "Sleeping"
           /\ s.peers[p].drone = r.peers[p].drone /\ s.peers[p].game = r.peers[p].game
           /\ s.state = r.state /\ s.gamemode = r.gamemode
           /\ s.settings = r.settings /\ s.nextOrder = r.nextOrder
  <1> DEFINE x == r.peers[p]
             y == [r.peers[p] EXCEPT !.conn = "Sleeping"]
  <1>1. /\ r \in Roles /\ p \in Connected(r) /\ p \in Accepted(r) /\ p \in Members(r) /\ p \in Ids
        /\ x \in Peer /\ x.syn /\ x.conn = "Connected" /\ Replaces(r, s, p, y)
    BY Subsets, MemberIsPeer DEF Sleeps, RoleInv, Connected
  <1>2. /\ y \in Peer /\ y.syn = x.syn /\ y.slot = x.slot /\ y.conn = "Sleeping"
        /\ y.drone = x.drone /\ y.mode = x.mode /\ y.ready = x.ready /\ y.outbox = x.outbox
        /\ y.game = x.game /\ y.gameIndex = x.gameIndex
    BY <1>1 DEF Peer
  <1>3. y # None
    BY <1>2, Constants
  <1> HIDE DEF y
  <1>4. /\ s \in Roles /\ s.state = r.state /\ s.gamemode = r.gamemode
        /\ s.settings = r.settings /\ s.nextOrder = r.nextOrder
        /\ Members(s) = Members(r) /\ s.peers[p] = y
        /\ \A q \in Members(s) \ {p} : s.peers[q] = r.peers[q]
    BY <1>1, <1>3, Subsets DEF Replaces
  <1> HIDE DEF x
  <1>5. \A q \in Members(s) :
           /\ s.peers[q].syn = r.peers[q].syn /\ s.peers[q].slot = r.peers[q].slot
           /\ s.peers[q].drone = r.peers[q].drone /\ s.peers[q].mode = r.peers[q].mode
           /\ s.peers[q].ready = r.peers[q].ready /\ s.peers[q].outbox = r.peers[q].outbox
           /\ s.peers[q].game = r.peers[q].game /\ s.peers[q].gameIndex = r.peers[q].gameIndex
           /\ q # p => s.peers[q].conn = r.peers[q].conn
    BY <1>2, <1>4 DEF x
  <1>6. Accepted(s) = Accepted(r) /\ Connected(s) = Connected(r) \ {p}
    BY <1>1, <1>2, <1>4, <1>5 DEF Accepted, Connected
  <1>7. Counted(s)
    BY <1>4 DEF RoleInv, Counted
  <1>8. Orderly(s)
    <2>1. \A q \in Members(s) \ Accepted(s) : s.peers[q].conn = "Connected"
      BY <1>1, <1>4, <1>5, <1>6 DEF RoleInv, Orderly
    <2>2. /\ \A q \in Members(s) : Len(s.peers[q].outbox) <= ReliableCap
          /\ \A q \in Members(s) : s.peers[q].syn <=> s.peers[q].slot # None
          /\ \A q, t \in Accepted(s) : s.peers[q].slot = s.peers[t].slot => q = t
      BY <1>4, <1>5, <1>6, Subsets DEF RoleInv, Orderly
    <2> QED  BY <2>1, <2>2 DEF Orderly
  <1>9. Strangers(s)
    BY <1>1, <1>4, <1>6 DEF RoleInv, Strangers
  <1>10. Clean(s)
    BY <1>4, <1>5, <1>6, Subsets DEF RoleInv, Clean
  <1>11. OneMode(s)
    BY <1>4, <1>5, <1>6, Subsets DEF RoleInv, OneMode
  <1>12. Populated(s)
    <2>1. ASSUME NEW q \in Accepted(r), ~Watches(r.peers[q]) PROVE ~Watches(s.peers[q])
      BY <1>2, <1>4, <1>5, <2>1, Subsets DEF Watches
    <2> QED  BY <1>4, <1>6, <2>1 DEF RoleInv, Populated
  <1>13. Frozen(r, s)
    BY <1>5 DEF Frozen
  <1>14. Claimed(s)
    <2>1. ASSUME NEW q \in Accepted(r), ~Watches(r.peers[q])
          PROVE  ~Watches(s.peers[q]) /\ s.peers[q].mode = r.peers[q].mode
      BY <1>2, <1>4, <1>5, <2>1, Subsets DEF Watches
    <2> QED  BY <1>4, <1>6, <2>1 DEF RoleInv, Claimed
  <1> QED  BY <1>1, <1>2, <1>4, <1>5, <1>6, <1>7, <1>8, <1>9, <1>10, <1>11, <1>12, <1>13, <1>14
           DEF RoleInv

(* The same members in another state of the room, past its lobby. *)
LEMMA LaunchingInv ==
    ASSUME NEW r, RoleInv(r), Players(r) # {}, NEW s, s = Launching(r)
    PROVE  /\ RoleInv(s) /\ Members(s) = Members(r) /\ Accepted(s) = Accepted(r)
           /\ Connected(s) = Connected(r) /\ Players(s) = Players(r) /\ s.peers = r.peers
           /\ s.state = "WaitingStart" /\ s.gamemode = r.gamemode
           /\ s.settings = r.settings /\ s.nextOrder = r.nextOrder
  <1>1. /\ r \in Roles /\ s \in Roles /\ s.peers = r.peers /\ s.state = "WaitingStart"
        /\ s.gamemode = r.gamemode /\ s.settings = r.settings /\ s.nextOrder = r.nextOrder
    BY DEF RoleInv, Roles, Launching
  <1>2. /\ Members(s) = Members(r) /\ Accepted(s) = Accepted(r)
        /\ Connected(s) = Connected(r) /\ Players(s) = Players(r)
    BY <1>1 DEF Members, Accepted, Connected, Players
  <1>3. Populated(s)
    <2>1. PICK p \in Players(r) : TRUE
      OBVIOUS
    <2>2. p \in Accepted(s) /\ ~Watches(s.peers[p])
      BY <1>1, <1>2, <2>1, Subsets DEF Players, IsPlayer, Watches
    <2> QED  BY <2>2 DEF Populated
  <1>4. Counted(s) /\ Orderly(s) /\ Strangers(s) /\ Clean(s) /\ OneMode(s) /\ Claimed(s)
    BY <1>1, <1>2 DEF RoleInv, Counted, Orderly, Strangers, Clean, OneMode, Claimed
  <1> QED  BY <1>1, <1>2, <1>3, <1>4 DEF RoleInv

(* A launch keeps the invariant, whatever its broadcast has shed.           *)
LEMMA LaunchesInv ==
    ASSUME NEW r, RoleInv(r), NEW s, Launches(r, s)
    PROVE  RoleInv(s) /\ Frozen(r, s)
  <1>1. RoleInv(Launching(r))
    BY LaunchingInv DEF Launches
  <1>2. RoleInv(s)
    BY <1>1, LosesKeepsInv DEF Launches
  <1> QED  BY <1>2 DEF Launches, Frozen

-----------------------------------------------------------------------------
(* GAMESTART.                                                               *)

(* t is r with p ready, and with the settings if p brings them. *)
Wills(r, t, p, adopts) ==
    /\ t \in Roles /\ t.state = r.state /\ t.gamemode = r.gamemode /\ t.nextOrder = r.nextOrder
    /\ t.settings = (r.settings \/ adopts) /\ Members(t) = Members(r)
    /\ t.peers[p] = [r.peers[p] EXCEPT !.ready = TRUE]
    /\ \A q \in Ids \ {p} : t.peers[q] = r.peers[q]

Agreed(t) == t.settings /\ \A q \in Connected(t) : t.peers[q].ready

(* s is u in game. *)
Seats(u, s) ==
    /\ s \in Roles /\ s.state = "InGame" /\ s.gamemode = u.gamemode
    /\ s.settings = u.settings /\ s.nextOrder = u.nextOrder /\ Members(s) = Members(u)
    /\ \A q \in Members(u) \ Connected(u) : s.peers[q] = u.peers[q]
    /\ \A q \in Connected(u) :
          s.peers[q] = [u.peers[q] EXCEPT !.game = TRUE, !.gameIndex = s.peers[q].gameIndex]

(* The start is off, aborted, or on. *)
Offers(t, s) ==
    \/ ~Agreed(t) /\ s = t
    \/ Agreed(t) /\ Loses(t, s) /\ Lost(t, s) # {} /\ Lost(t, s) \subseteq Connected(t)
    \/ Agreed(t) /\ \E u \in Roles : Orderly(u) /\ Loses(t, u) /\ Lost(t, u) = {} /\ Seats(u, s)

GameStarts(r, s, p) ==
    /\ r.state = "WaitingStart" /\ p \in Connected(r) /\ s \in Roles /\ Orderly(s)
    /\ \E t \in Roles, adopts \in BOOLEAN :
          Wills(r, t, p, adopts) /\ (adopts => p \in Players(r)) /\ Offers(t, s)

(* One peer's readiness, and perhaps the settings, keep the invariant.      *)
LEMMA WillsInv ==
    ASSUME NEW r, RoleInv(r), r.state = "WaitingStart", NEW p \in Connected(r),
           NEW t, NEW adopts \in BOOLEAN, Wills(r, t, p, adopts)
    PROVE  /\ RoleInv(t) /\ Accepted(t) = Accepted(r) /\ Connected(t) = Connected(r)
           /\ Players(t) = Players(r)
           /\ \A q \in Members(r) : /\ t.peers[q].conn = r.peers[q].conn
                                    /\ t.peers[q].drone = r.peers[q].drone
                                    /\ t.peers[q].game = r.peers[q].game
                                    /\ q # p => t.peers[q].ready = r.peers[q].ready
           /\ t.peers[p].ready
  <1> DEFINE x == r.peers[p]
             y == [r.peers[p] EXCEPT !.ready = TRUE]
  <1>1. r \in Roles /\ p \in Accepted(r) /\ p \in Members(r) /\ p \in Ids /\ x \in Peer
    BY Subsets, MemberIsPeer DEF RoleInv
  <1>2. /\ y.syn = x.syn /\ y.slot = x.slot /\ y.conn = x.conn
        /\ y.drone = x.drone /\ y.mode = x.mode /\ y.ready = TRUE /\ y.outbox = x.outbox
        /\ y.game = x.game /\ y.gameIndex = x.gameIndex
    BY <1>1 DEF Peer
  <1> HIDE DEF y
  <1>3. /\ t \in Roles /\ t.state = r.state /\ t.gamemode = r.gamemode
        /\ t.nextOrder = r.nextOrder /\ Members(t) = Members(r) /\ t.peers[p] = y
        /\ \A q \in Members(r) \ {p} : t.peers[q] = r.peers[q]
    BY Subsets DEF Wills, y
  <1> HIDE DEF x
  <1>4. \A q \in Members(r) :
           /\ t.peers[q].syn = r.peers[q].syn /\ t.peers[q].slot = r.peers[q].slot
           /\ t.peers[q].conn = r.peers[q].conn
           /\ t.peers[q].drone = r.peers[q].drone /\ t.peers[q].mode = r.peers[q].mode
           /\ t.peers[q].outbox = r.peers[q].outbox
           /\ t.peers[q].game = r.peers[q].game /\ t.peers[q].gameIndex = r.peers[q].gameIndex
           /\ q # p => t.peers[q].ready = r.peers[q].ready
    BY <1>2, <1>3 DEF x
  <1>5. Accepted(t) = Accepted(r) /\ Connected(t) = Connected(r) /\ Players(t) = Players(r)
    BY <1>3, <1>4 DEF Accepted, Connected, Players, IsPlayer
  <1>6. Counted(t) /\ Clean(t)
    BY <1>3 DEF RoleInv, Counted, Clean
  <1>7. Orderly(t)
    BY <1>3, <1>4, <1>5, Subsets DEF RoleInv, Orderly
  <1>8. Strangers(t)
    BY <1>1, <1>3, <1>5 DEF RoleInv, Strangers
  <1>9. OneMode(t)
    BY <1>3, <1>4, <1>5, Subsets DEF RoleInv, OneMode
  <1>10. Populated(t)
    <2>1. ASSUME NEW q \in Accepted(r), ~Watches(r.peers[q]) PROVE ~Watches(t.peers[q])
      BY <1>4, <2>1, Subsets DEF Watches
    <2> QED  BY <1>3, <1>5, <2>1 DEF RoleInv, Populated
  <1>11. t.peers[p].ready
    BY <1>2, <1>3
  <1>12. Claimed(t)
    <2>1. ASSUME NEW q \in Accepted(r), ~Watches(r.peers[q])
          PROVE  ~Watches(t.peers[q]) /\ t.peers[q].mode = r.peers[q].mode
      BY <1>4, <2>1, Subsets DEF Watches
    <2> QED  BY <1>3, <1>5, <2>1 DEF RoleInv, Claimed
  <1>13. RoleInv(t)
    BY <1>3, <1>6, <1>7, <1>8, <1>9, <1>10, <1>12 DEF RoleInv
  <1> QED  BY <1>4, <1>5, <1>11, <1>13

(* Seating the connected peers of a starting room keeps the invariant.      *)
LEMMA SeatsInv ==
    ASSUME NEW u, RoleInv(u), u.state = "WaitingStart", NEW s, Seats(u, s)
    PROVE  /\ RoleInv(s) /\ Accepted(s) = Accepted(u) /\ Connected(s) = Connected(u)
           /\ \A q \in Members(u) : /\ s.peers[q].conn = u.peers[q].conn
                                    /\ s.peers[q].drone = u.peers[q].drone
                                    /\ s.peers[q].ready = u.peers[q].ready
                                    /\ s.peers[q].game = (u.peers[q].game \/ q \in Connected(u))
  <1>1. /\ s \in Roles /\ s.state = "InGame" /\ s.gamemode = u.gamemode
        /\ s.nextOrder = u.nextOrder /\ Members(s) = Members(u) /\ u \in Roles
    BY DEF Seats, RoleInv
  <1>2. \A q \in Connected(u) : u.peers[q] \in Peer /\ q \in Members(u)
    BY <1>1, Subsets, MemberIsPeer
  <1>3. ASSUME NEW q \in Members(u)
        PROVE  /\ s.peers[q].syn = u.peers[q].syn /\ s.peers[q].slot = u.peers[q].slot
               /\ s.peers[q].conn = u.peers[q].conn
               /\ s.peers[q].drone = u.peers[q].drone /\ s.peers[q].mode = u.peers[q].mode
               /\ s.peers[q].outbox = u.peers[q].outbox
               /\ s.peers[q].ready = u.peers[q].ready
               /\ s.peers[q].game = (u.peers[q].game \/ q \in Connected(u))
    <2>1. CASE q \in Connected(u)
      <3> DEFINE x == u.peers[q]
                 i == s.peers[q].gameIndex
                 y == [x EXCEPT !.game = TRUE, !.gameIndex = i]
      <3>1. x \in Peer /\ s.peers[q] = y
        BY <1>2, <2>1 DEF Seats
      <3> HIDE DEF i
      <3>2. /\ y.syn = x.syn /\ y.slot = x.slot /\ y.conn = x.conn
            /\ y.drone = x.drone /\ y.mode = x.mode /\ y.ready = x.ready
            /\ y.outbox = x.outbox /\ y.game = TRUE
        BY <3>1 DEF Peer
      <3> HIDE DEF x, y
      <3> QED  BY <2>1, <3>1, <3>2 DEF x
    <2>2. CASE q \notin Connected(u)
      <3>1. s.peers[q] = u.peers[q] /\ u.peers[q].game \in BOOLEAN
        BY <1>1, <2>2, MemberIsPeer DEF Seats
      <3> QED  BY <2>2, <3>1
    <2> QED  BY <2>1, <2>2
  <1>4. Accepted(s) = Accepted(u) /\ Connected(s) = Connected(u)
    BY <1>1, <1>3 DEF Accepted, Connected
  <1>5. Counted(s) /\ Clean(s)
    BY <1>1 DEF RoleInv, Counted, Clean
  <1>6. Orderly(s)
    BY <1>1, <1>3, <1>4, Subsets DEF RoleInv, Orderly
  <1>7. Strangers(s)
    <2>1. \A q \in Members(s) \ Accepted(s) : s.peers[q] = u.peers[q]
      BY <1>1, <1>4, Subsets DEF Seats
    <2> QED  BY <1>1, <1>4, <2>1 DEF RoleInv, Strangers
  <1>8. OneMode(s)
    BY <1>1, <1>3, <1>4, Subsets DEF RoleInv, OneMode
  <1>9. Populated(s)
    <2>1. ASSUME NEW q \in Accepted(u), ~Watches(u.peers[q]) PROVE ~Watches(s.peers[q])
      BY <1>3, <2>1, Subsets DEF Watches
    <2> QED  BY <1>4, <2>1 DEF RoleInv, Populated
  <1>10. Claimed(s)
    <2>1. ASSUME NEW q \in Accepted(u), ~Watches(u.peers[q])
          PROVE  ~Watches(s.peers[q]) /\ s.peers[q].mode = u.peers[q].mode
      BY <1>3, <2>1, Subsets DEF Watches
    <2> QED  BY <1>1, <1>4, <2>1 DEF RoleInv, Claimed
  <1>11. RoleInv(s)
    BY <1>1, <1>5, <1>6, <1>7, <1>8, <1>9, <1>10 DEF RoleInv
  <1> QED  BY <1>3, <1>4, <1>11

(* A GAMESTART keeps the invariant, whether the game starts, waits or is    *)
(* aborted by its own broadcast.                                            *)
LEMMA GameStartsInv ==
    ASSUME NEW r, RoleInv(r), NEW s, NEW p, GameStarts(r, s, p)
    PROVE  RoleInv(s) /\ Frozen(r, s)
  <1>1. PICK t \in Roles, adopts \in BOOLEAN : Wills(r, t, p, adopts) /\ Offers(t, s)
    BY DEF GameStarts
  <1>2. r.state = "WaitingStart" /\ p \in Connected(r) /\ s \in Roles /\ Orderly(s)
    BY DEF GameStarts
  <1>3. RoleInv(t) /\ t.state = "WaitingStart"
    BY <1>1, <1>2, WillsInv DEF Wills
  <1>4. RoleInv(s)
    <2>1. CASE s = t
      BY <1>3, <2>1
    <2>2. CASE Loses(t, s)
      BY <1>2, <1>3, <2>2, LosesKeepsInv
    <2>3. CASE \E u \in Roles : Orderly(u) /\ Loses(t, u) /\ Lost(t, u) = {} /\ Seats(u, s)
      <3>1. PICK u \in Roles : Orderly(u) /\ Loses(t, u) /\ Lost(t, u) = {} /\ Seats(u, s)
        BY <2>3
      <3>2. RoleInv(u)
        BY <1>3, <3>1, LosesKeepsInv
      <3>3. u.state = "WaitingStart"
        BY <1>3, <3>1 DEF Loses, Kept
      <3> QED  BY <3>1, <3>2, <3>3, SeatsInv
    <2> QED  BY <1>1, <2>1, <2>2, <2>3 DEF Offers
  <1> QED  BY <1>2, <1>4 DEF Frozen

-----------------------------------------------------------------------------
(* The handlers.                                                            *)

(* What one input may make of a role. *)
Yields(r, s) == s \in Roles /\ Orderly(s) /\ Loses(r, s)

Effect(r, s) ==
    \/ Yields(r, s)
    \/ Admits(r, s) /\ Cardinality(Members(r)) # MaxPeers
    \/ \E p \in Ids : Refuses(r, s, p) \/ Enrolls(r, s, p) \/ Sleeps(r, s, p)
    \/ Launches(r, s)
    \/ \E p \in Ids : GameStarts(r, s, p)

(* And an input of p, which has not completed SYN. *)
StrangerEffect(r, s, p) == s = r \/ Refuses(r, s, p) \/ Enrolls(r, s, p)

(* d says nothing to those c may not speak to. *)
Hushed(c, d) == \A r0 \in Roles : Quiet(r0, c) => Quiet(r0, d)

(* A handler that has said nothing yet is quiet.                            *)
LEMMA QuietFresh ==
    ASSUME NEW r \in Roles
    PROVE  Quiet(r, Fresh(r))
  <1>1. Fresh(r).role = r /\ Fresh(r).actions = << >>
    BY FreshIn
  <1>2. Polite(r, << >>) /\ Marked(r, << >>) = Draining(r) /\ Booked(Members(r), Members(r), << >>)
    BY BookedNothing DEF Polite, Marked
  <1> QED  BY <1>1, <1>2 DEF Quiet, Live

(* Nothing is a possible outcome.                                           *)
LEMMA YieldsNothing ==
    ASSUME NEW r, RoleInv(r)
    PROVE  Yields(r, r)
  <1>1. Kept(r, r) /\ r \in Roles /\ Orderly(r)
    BY DEF Kept, Same, RoleInv
  <1> QED  BY <1>1, LosesNothing DEF Yields

(* d, which has come from c, says at most k plain packets more to the peers *)
(* of S and none to others, and has no second head for anyone.              *)
Speaks(c, d, S, k) ==
    \A p \in Ids : /\ Heads(c, p) <= 1 => Heads(d, p) <= 1
                   /\ Words(d, p) <= Words(c, p) + (IF p \in S THEN k ELSE 0)

(* To say no more is to say at most that much more.                         *)
LEMMA LighterSpeaks ==
    ASSUME NEW c \in Contexts, NEW d \in Contexts, Lighter(c, d), NEW S, NEW k \in Nat
    PROVE  Speaks(c, d, S, k)
  <1> SUFFICES ASSUME NEW p \in Ids
               PROVE  /\ Heads(c, p) <= 1 => Heads(d, p) <= 1
                      /\ Words(d, p) <= Words(c, p) + (IF p \in S THEN k ELSE 0)
    BY DEF Speaks
  <1>1. Heads(d, p) <= Heads(c, p) /\ Words(d, p) <= Words(c, p)
    BY DEF Lighter
  <1>2. /\ Heads(c, p) \in Nat /\ Words(c, p) \in Nat
        /\ Heads(d, p) \in Nat /\ Words(d, p) \in Nat
    BY CountsIn
  <1> QED  BY <1>1, <1>2

(* To say at most that much to some is to say at most more to more.         *)
LEMMA SpeaksMore ==
    ASSUME NEW c \in Contexts, NEW d \in Contexts, NEW S, NEW T, S \cap Ids \subseteq T,
           NEW j \in Nat, NEW k \in Nat, j <= k, Speaks(c, d, S, j)
    PROVE  Speaks(c, d, T, k)
  <1> SUFFICES ASSUME NEW p \in Ids
               PROVE  /\ Heads(c, p) <= 1 => Heads(d, p) <= 1
                      /\ Words(d, p) <= Words(c, p) + (IF p \in T THEN k ELSE 0)
    BY DEF Speaks
  <1>1. /\ Heads(c, p) <= 1 => Heads(d, p) <= 1
        /\ Words(d, p) <= Words(c, p) + (IF p \in S THEN j ELSE 0)
    BY DEF Speaks
  <1>2. Words(c, p) \in Nat /\ Words(d, p) \in Nat
    BY CountsIn
  <1> QED  BY <1>1, <1>2

(* One after the other adds up ...                                          *)
LEMMA SpeaksTwice ==
    ASSUME NEW c \in Contexts, NEW d \in Contexts, NEW e \in Contexts, NEW S,
           NEW j \in Nat, NEW k \in Nat, Speaks(c, d, S, j), Speaks(d, e, S, k)
    PROVE  Speaks(c, e, S, j + k)
  <1> SUFFICES ASSUME NEW p \in Ids
               PROVE  /\ Heads(c, p) <= 1 => Heads(e, p) <= 1
                      /\ Words(e, p) <= Words(c, p) + (IF p \in S THEN j + k ELSE 0)
    BY DEF Speaks
  <1>1. /\ Heads(c, p) <= 1 => Heads(d, p) <= 1
        /\ Heads(d, p) <= 1 => Heads(e, p) <= 1
        /\ Words(d, p) <= Words(c, p) + (IF p \in S THEN j ELSE 0)
        /\ Words(e, p) <= Words(d, p) + (IF p \in S THEN k ELSE 0)
    BY DEF Speaks
  <1>2. Words(c, p) \in Nat /\ Words(d, p) \in Nat /\ Words(e, p) \in Nat
    BY CountsIn
  <1> QED  BY <1>1, <1>2

(* ... unless they speak to different peers.                                *)
LEMMA SpeaksApart ==
    ASSUME NEW c \in Contexts, NEW d \in Contexts, NEW e \in Contexts, NEW S, NEW T,
           S \cap T = {}, NEW k \in Nat, Speaks(c, d, S, k), Speaks(d, e, T, k)
    PROVE  Speaks(c, e, S \cup T, k)
  <1> SUFFICES ASSUME NEW p \in Ids
               PROVE  /\ Heads(c, p) <= 1 => Heads(e, p) <= 1
                      /\ Words(e, p) <= Words(c, p) + (IF p \in S \cup T THEN k ELSE 0)
    BY DEF Speaks
  <1>1. /\ Heads(c, p) <= 1 => Heads(d, p) <= 1
        /\ Heads(d, p) <= 1 => Heads(e, p) <= 1
        /\ Words(d, p) <= Words(c, p) + (IF p \in S THEN k ELSE 0)
        /\ Words(e, p) <= Words(d, p) + (IF p \in T THEN k ELSE 0)
    BY DEF Speaks
  <1>2. Words(c, p) \in Nat /\ Words(d, p) \in Nat /\ Words(e, p) \in Nat
    BY CountsIn
  <1>3. ~(p \in S /\ p \in T)
    OBVIOUS
  <1> QED  BY <1>1, <1>2, <1>3

(* A plain packet is one plain packet.                                      *)
LEMMA SaysPlain ==
    ASSUME NEW c \in Contexts, NEW p \in Ids, NEW packet \in PlainPackets,
           NEW d, d = Emit(c, p, packet)
    PROVE  d \in Contexts /\ Speaks(c, d, {p}, 1) /\ Speaks(c, d, Ids, 1)
  <1>1. packet \in ServerPackets /\ packet \notin ReliablePackets
    BY DEF PlainPackets
  <1>2. d \in Contexts /\ d.role = c.role /\ d.actions = Append(c.actions, Send(p, packet))
    BY <1>1, EmitIn
  <1>3. ASSUME NEW q \in Ids
        PROVE  Heads(d, q) = Heads(c, q) /\ Words(d, q) = Words(c, q) + (IF q = p THEN 1 ELSE 0)
    <2>1. c.actions \in Seq(Actions)
      BY ContextFields
    <2>2. /\ Said(d.actions, q, ReliablePackets) = Said(c.actions, q, ReliablePackets) + 0
          /\ Said(d.actions, q, PlainPackets)
               = Said(c.actions, q, PlainPackets) + (IF q = p THEN 1 ELSE 0)
      BY <1>1, <1>2, <2>1, SaidSend
    <2>3. /\ Said(c.actions, q, ReliablePackets) \in Nat
          /\ Said(c.actions, q, PlainPackets) \in Nat
          /\ \A b \in BOOLEAN : Bit(b) \in {0, 1}
      BY CountsIn
    <2> QED  BY <1>2, <2>2, <2>3 DEF Heads, Words, Bit
  <1>4. \A q \in Ids : Words(c, q) \in Nat
    BY CountsIn
  <1>5. Speaks(c, d, {p}, 1)
    BY <1>3, <1>4 DEF Speaks
  <1> QED  BY <1>2, <1>3, <1>4, <1>5 DEF Speaks

(* Some of the packets.                                                     *)
LEMMA Plain ==
    /\ "WaitingData" \in PlainPackets /\ "Disconnect" \in PlainPackets
    /\ "DisconnectAck" \in PlainPackets /\ "Rejected" \in PlainPackets
    /\ "Keepalive" \in PlainPackets /\ "ReliableAck" \in PlainPackets
    /\ "QueryResponse" \in PlainPackets
  BY DEF PlainPackets, ServerPackets, ReliablePackets

(* Replacing a peer by none, or by one that waits for no more, is silent.   *)
LEMMA ReplacedLighter ==
    ASSUME NEW c \in Contexts, NEW d \in Contexts, NEW p \in Members(c.role), NEW y,
           Replaces(c.role, d.role, p, y), d.actions = c.actions,
           \/ y = None
           \/ /\ y.outbox = << >> => c.role.peers[p].outbox = << >>
              /\ y.conn = "Connected" => /\ c.role.peers[p].conn = "Connected"
                                         /\ IsPlayer(c.role.peers[p]) => IsPlayer(y)
    PROVE  Lighter(c, d)
  <1> DEFINE r == c.role
             s == d.role
  <1>1. /\ p \in Members(r) /\ s.state = r.state /\ s.peers[p] = y /\ p \in Ids
        /\ \A q \in Ids \ {p} : s.peers[q] = r.peers[q]
    BY Subsets DEF Replaces
  <1>2. ASSUME NEW q \in Ids
        PROVE  (Awaits(s, q) => Awaits(r, q)) /\ (Endable(s, q) => Endable(r, q))
    <2>1. CASE q = p /\ y = None
      BY <1>1, <2>1 DEF Awaits, Endable, Members
    <2>2. CASE q = p /\ y # None
      <3>1. /\ y.outbox = << >> => r.peers[p].outbox = << >>
            /\ y.conn = "Connected" => /\ r.peers[p].conn = "Connected"
                                       /\ IsPlayer(r.peers[p]) => IsPlayer(y)
        BY <2>2
      <3>2. p \in Members(s)
        BY <1>1, <2>2 DEF Members
      <3> HIDE DEF r, s
      <3> QED  BY <1>1, <2>2, <3>1, <3>2 DEF Awaits, Endable, Players
    <2>3. CASE q # p
      <3> HIDE DEF r, s
      <3>1. s.peers[q] = r.peers[q]
        BY <1>1, <2>3
      <3> QED  BY <1>1, <3>1 DEF Awaits, Endable, Players, Members
    <2> QED  BY <2>1, <2>2, <2>3
  <1> QED  BY <1>2, LighterRole

(* Replacing a peer by one as connected waits for more at that peer only.   *)
LEMMA ReplacedCounts ==
    ASSUME NEW c \in Contexts, NEW e \in Contexts, NEW p \in Members(c.role), NEW y, y # None,
           Replaces(c.role, e.role, p, y), e.actions = c.actions,
           y.conn = c.role.peers[p].conn, IsPlayer(c.role.peers[p]) => IsPlayer(y)
    PROVE  /\ \A q \in Ids \ {p} : Heads(e, q) = Heads(c, q)
           /\ \A q \in Ids : Words(e, q) <= Words(c, q)
           /\ Awaits(e.role, p) <=> y.outbox = << >>
  <1> DEFINE r == c.role
             s == e.role
  <1>1. /\ p \in Members(r) /\ s.state = r.state /\ s.peers[p] = y /\ p \in Ids /\ p \in Members(s)
        /\ \A q \in Ids \ {p} : s.peers[q] = r.peers[q]
    BY Subsets DEF Replaces
  <1>2. \A q \in Ids \ {p} : Awaits(s, q) <=> Awaits(r, q)
    <2> HIDE DEF r, s
    <2> QED  BY <1>1 DEF Awaits, Members
  <1>3. ASSUME NEW q \in Ids PROVE Endable(s, q) => Endable(r, q)
    <2>1. CASE q = p
      <3>1. y.conn = r.peers[p].conn /\ (IsPlayer(r.peers[p]) => IsPlayer(y))
        OBVIOUS
      <3> HIDE DEF r, s
      <3> QED  BY <1>1, <2>1, <3>1 DEF Endable, Players
    <2>2. CASE q # p
      <3> HIDE DEF r, s
      <3> QED  BY <1>1, <2>2 DEF Endable, Players, Members
    <2> QED  BY <2>1, <2>2
  <1>4. ASSUME NEW q \in Ids PROVE Words(e, q) <= Words(c, q)
    <2>1. Said(c.actions, q, PlainPackets) \in Nat
      BY CountsIn
    <2>2. Bit(Endable(s, q)) <= Bit(Endable(r, q))
          /\ Bit(Endable(s, q)) \in Int /\ Bit(Endable(r, q)) \in Int
      BY <1>3 DEF Bit
    <2> QED  BY <2>1, <2>2 DEF Words
  <1>5. \A q \in Ids \ {p} : Heads(e, q) = Heads(c, q)
    BY <1>2 DEF Heads, Bit
  <1>6. Awaits(s, p) <=> y.outbox = << >>
    <2> HIDE DEF s
    <2> QED  BY <1>1 DEF Awaits
  <1> QED  BY <1>4, <1>5, <1>6

(* A stranger is live. *)
LEMMA StrangerIsLive ==
    ASSUME NEW r, RoleInv(r), NEW p \in Members(r) \ Accepted(r)
    PROVE  /\ p \in Ids /\ r.peers[p] \in Peer /\ Unknown(r.peers[p]) /\ ~r.peers[p].syn
           /\ p \in Live(r)
  <1>1. r \in Roles /\ p \in Ids /\ r.peers[p] \in Peer /\ Unknown(r.peers[p])
    BY MemberIsPeer DEF RoleInv, Strangers
  <1>2. ~r.peers[p].syn
    BY DEF Accepted
  <1> QED  BY <1>1, <1>2, LiveSets DEF Unknown

(* A send to a live member, or a handshake packet to any other, keeps quiet *)
(* and changes no role.                                                     *)
LEMMA Says ==
    ASSUME NEW c \in Contexts, NEW p \in Members(c.role), NEW packet \in ServerPackets,
           \/ p \in Live(c.role) /\ packet # "Disconnect"
           \/ p \notin Live(c.role) /\ packet \in Handshake
    PROVE  /\ Emit(c, p, packet) \in Contexts /\ Emit(c, p, packet).role = c.role
           /\ Hushed(c, Emit(c, p, packet))
  BY EmitIn, QuietSays, Subsets DEF Hushed

(* Taking a stranger out refuses it, and says only its farewell.            *)
LEMMA DropStranger ==
    ASSUME NEW c \in Contexts, NEW r, r = c.role, RoleInv(r), NEW p \in Members(r) \ Accepted(r),
           NEW farewell \in Actions, Ends(farewell, p), NEW d, d = Drop(c, p, farewell)
    PROVE  d \in Contexts /\ Refuses(r, d.role, p) /\ Hushed(c, d) /\ Lighter(c, d)
  <1>1. p \in Ids /\ r \in Roles
    BY StrangerIsLive, ContextFields
  <1>2. d \in Contexts /\ d.role = WithPeer(r, p, None) /\ d.actions = Append(c.actions, farewell)
    BY <1>1, DropIn
  <1>3. Replaces(r, d.role, p, None)
    BY <1>1, <1>2, PeerSet
  <1>4. Live(d.role) \subseteq Live(r)
    <2>1. d.role \in Roles /\ Members(d.role) = Members(r) \ {p}
          /\ \A q \in Members(d.role) : d.role.peers[q] = r.peers[q]
      BY <1>3, Subsets DEF Replaces
    <2> QED  BY <1>1, <2>1, LiveSets
  <1>6. Members(d.role) = Members(c.role) \ {p}
    BY <1>3 DEF Replaces
  <1>5. Hushed(c, d)
    BY <1>2, <1>4, <1>6, QuietStays DEF Hushed
  <1>7. Lighter(c, d)
    <2> DEFINE e == [role |-> d.role, actions |-> c.actions]
    <2>1. e \in Contexts /\ e.role = d.role /\ e.actions = c.actions
      BY <1>2, ContextFields DEF Contexts
    <2> HIDE DEF e
    <2>2. Lighter(c, e)
      BY <1>3, <2>1, ReplacedLighter
    <2>3. Lighter(e, d)
      <3>1. \A q \in Ids : \A K : Said(d.actions, q, K) = Said(e.actions, q, K)
        BY <1>2, <2>1, ContextFields, SaidOther DEF Ends
      <3> QED  BY <1>2, <2>1, <3>1, LighterRole
    <2> QED  BY <1>2, <2>1, <2>2, <2>3, LighterTwice
  <1> QED  BY <1>2, <1>3, <1>5, <1>7 DEF Refuses

(* One change of an accepted peer that leaves the room as it is. *)
Touches(c, d, p, y) ==
    /\ d \in Contexts /\ Yields(c.role, d.role) /\ Live(d.role) = Live(c.role)
    /\ Members(d.role) = Members(c.role) /\ d.role.peers[p] = y /\ Hushed(c, d)

(* Writing a FIFO or a retry count changes nobody else.                     *)
LEMMA PeerTouched ==
    ASSUME NEW c \in Contexts, Orderly(c.role), NEW p \in Accepted(c.role),
           NEW y \in Peer, Same(c.role.peers[p], y), Len(y.outbox) <= ReliableCap,
           NEW d, d = SetPeer(c, p, y)
    PROVE  Touches(c, d, p, y)
  <1> DEFINE r == c.role
             s == d.role
  <1>1. /\ p \in Ids /\ p \in Members(r) /\ r \in Roles
    BY Subsets, ContextFields
  <1>2. d \in Contexts /\ s = WithPeer(r, p, y) /\ d.actions = c.actions
    BY <1>1, SetPeerIn
  <1> HIDE DEF s
  <1>3. Replaces(r, s, p, y) /\ y # None
    BY <1>1, <1>2, PeerSet, Constants
  <1>4. /\ s \in Roles /\ Members(s) = Members(r) /\ s.peers[p] = y
        /\ \A q \in Members(s) \ {p} : s.peers[q] = r.peers[q]
    BY <1>1, <1>3, Subsets DEF Replaces
  <1>5. \A q \in Members(s) : Same(r.peers[q], s.peers[q])
    BY <1>4 DEF Same
  <1>6. Kept(r, s)
    BY <1>3, <1>4, <1>5 DEF Kept, Replaces
  <1>7. Loses(r, s)
    BY <1>1, <1>4, <1>6, LosesNothing
  <1>8. Orderly(s)
    <2>1. \A q \in Members(s) : Len(s.peers[q].outbox) <= ReliableCap
      BY <1>4 DEF Orderly
    <2> QED  BY <1>1, <1>4, <1>7, <2>1, LosesOrderly
  <1>9. Live(s) = Live(r)
    <2>1. \A q \in Members(s) : s.peers[q].conn = r.peers[q].conn
      BY <1>5 DEF Same
    <2> HIDE DEF r
    <2>2. /\ Live(r) = {q \in Members(r) : r.peers[q].conn = "Connected"}
          /\ Live(s) = {q \in Members(s) : s.peers[q].conn = "Connected"}
      BY <1>1, <1>4, LiveSets
    <2> QED  BY <1>4, <2>1, <2>2
  <1>10. Hushed(c, d)
    BY <1>2, <1>4, <1>9, QuietStays DEF Hushed, s
  <1> QED  BY <1>2, <1>4, <1>7, <1>8, <1>9, <1>10 DEF Touches, Yields, s

(* A room within MAX_PEERS has a free slot, and free_slot finds it.         *)
LEMMA FreeSlotIsFree ==
    ASSUME NEW r \in Roles, Cardinality(Members(r)) <= MaxPeers
    PROVE  FreeSlot(r) \in Slots /\ \A q \in Members(r) : r.peers[q].slot # FreeSlot(r)
  <1> DEFINE T == {s \in Slots : \A q \in Members(r) : r.peers[q].slot # s}
  <1>1. T # {}
    <2> SUFFICES ASSUME T = {} PROVE FALSE
      OBVIOUS
    <2> DEFINE f == [s \in Slots |-> CHOOSE q \in Members(r) : r.peers[q].slot = s]
    <2>1. \A s \in Slots : f[s] \in Members(r) /\ r.peers[f[s]].slot = s
      OBVIOUS
    <2>2. f \in [Slots -> Members(r)]
      BY <2>1
    <2> HIDE DEF f
    <2>3. IsFiniteSet(Slots) /\ Cardinality(Slots) = MaxNodes
      <3>1. MaxNodes - 1 \in Int /\ ~(0 > MaxNodes - 1) /\ (MaxNodes - 1) - 0 + 1 = MaxNodes
        BY Constants
      <3> QED  BY <3>1, FS_Interval DEF Slots
    <2>4. IsFiniteSet(Members(r)) /\ Cardinality(Members(r)) < Cardinality(Slots)
      <3>1. Cardinality(Members(r)) \in Nat /\ IsFiniteSet(Members(r))
        BY MembersFinite
      <3> QED  BY <2>3, <3>1, Constants
    <2>5. \E s, t \in Slots : s # t /\ f[s] = f[t]
      BY <2>2, <2>3, <2>4, FS_PigeonHole
    <2> QED  BY <2>1, <2>5
  <1>2. T \in SUBSET Nat
    BY Constants
  <1>3. FreeSlot(r) = Least(T)
    BY DEF FreeSlot
  <1> HIDE DEF T
  <1>4. FreeSlot(r) \in T
    BY <1>1, <1>2, <1>3, LeastIsLeast
  <1> QED  BY <1>4 DEF T

(* The peer that a SYN makes of a stranger. *)
Greeted(x, slot, syn) ==
    [x EXCEPT !.syn = TRUE, !.slot = slot, !.drone = syn.drone, !.mode = syn.mode,
              !.maxPlayers = syn.maxPlayers]

Newcomer(y, slot, syn) ==
    /\ y \in Peer /\ y.syn = TRUE /\ y.slot = slot /\ y.drone = syn.drone
    /\ y.mode = syn.mode /\ y.conn = "Connected" /\ y.ready = FALSE /\ y.game = FALSE
    /\ y.gameIndex = None /\ y.outbox = << >>

Eligible(syn) == syn.mode # None /\ ~(syn.maxPlayers > NetMaxPlayers)

(* The peer record a SYN leaves.                                            *)
LEMMA GreetedIn ==
    ASSUME NEW x \in Peer, Unknown(x), NEW slot \in Slots, NEW syn \in Syns, Eligible(syn)
    PROVE  Newcomer(Greeted(x, slot, syn), slot, syn)
  <1>1. syn.drone \in BOOLEAN /\ syn.mode \in Modes /\ syn.maxPlayers \in 0..NetMaxPlayers
    <2>1. syn.drone \in BOOLEAN /\ syn.mode \in Modes \cup {None} /\ syn.maxPlayers \in Capabilities
      BY DEF Syns
    <2>2. syn.maxPlayers \in Nat /\ NetMaxPlayers \in Nat
      BY <2>1, Constants
    <2> QED  BY <2>1, <2>2 DEF Eligible
  <1>2. x.conn = "Connected" /\ x.ready = FALSE /\ x.game = FALSE /\ x.gameIndex = None
        /\ x.outbox = << >>
    BY DEF Unknown, Peer
  <1> QED  BY <1>1, <1>2 DEF Greeted, Peer, Newcomer

(* accept enrolls the peer: its fresh FIFO takes SYN_ACCEPT without a       *)
(* cascade.                                                                 *)
LEMMA AcceptIn ==
    ASSUME NEW c \in Contexts, NEW r, r = c.role, RoleInv(r), NEW p \in Members(r) \ Accepted(r),
           NEW syn \in Syns, Eligible(syn),
           NEW d, d = Accept(c, p, syn, syn.mode), r.state = "WaitingLaunch",
           Connected(r) # {} => r.gamemode = syn.mode,
           syn.drone => r.gamemode # None /\ syn.mode = r.gamemode
    PROVE  d \in Contexts /\ Enrolls(r, d.role, p) /\ Hushed(c, d) /\ Speaks(c, d, Ids, 1)
  <1> DEFINE slot == FreeSlot(r)
             x    == r.peers[p]
             y    == Greeted(x, slot, syn)
             c1   == [c EXCEPT !.role.gamemode = syn.mode]
             c2   == SetPeer(c1, p, y)
             z    == Queued(y, "SynAccept")
             c3   == SetPeer(c2, p, z)
             c4   == Emit(c3, p, "SynAccept")
  <1>1. /\ r \in Roles /\ p \in Ids /\ x \in Peer /\ Unknown(x) /\ p \in Live(r)
        /\ p \in Members(r) /\ Cardinality(Members(r)) <= MaxPeers
    BY StrangerIsLive DEF RoleInv, Counted
  <1>2. slot \in Slots /\ \A q \in Members(r) : r.peers[q].slot # slot
    BY <1>1, FreeSlotIsFree
  <1>3. syn.mode \in Modes
    BY DEF Syns, Eligible
  <1>0. y = Greeted(x, slot, syn)
    OBVIOUS
  <1> HIDE DEF slot, x, y
  <1>4. /\ y \in Peer /\ y.syn = TRUE /\ y.slot = slot /\ y.drone = syn.drone
        /\ y.mode = syn.mode /\ y.conn = "Connected" /\ y.ready = FALSE /\ y.game = FALSE
        /\ y.gameIndex = None /\ y.outbox = << >>
    <2>1. Newcomer(y, slot, syn)
      BY <1>0, <1>1, <1>2, GreetedIn
    <2> QED  BY <2>1 DEF Newcomer
  <1>5. /\ c1 \in Contexts /\ c1.actions = c.actions
        /\ c1.role = [r EXCEPT !.gamemode = syn.mode]
    BY <1>3 DEF Contexts, Roles
  <1>6. /\ c1.role \in Roles /\ c1.role.state = r.state /\ c1.role.gamemode = syn.mode
        /\ c1.role.settings = r.settings /\ c1.role.nextOrder = r.nextOrder
        /\ c1.role.peers = r.peers
    BY <1>1, <1>3, <1>5 DEF Roles
  <1> HIDE DEF c1
  <1>7. d = Emit(EnqueueReliable(c2, p, "SynAccept"), p, "WaitingData")
    BY <1>5 DEF Accept, Greeted, y, x, slot, c1
  <1>8. c2 \in Contexts /\ c2.actions = c.actions /\ Replaces(c1.role, c2.role, p, y) /\ y # None
    BY <1>1, <1>4, <1>5, <1>6, SetPeerIn, PeerSet, Constants
  <1> HIDE DEF c2
  <1>9. p \in Members(c2.role) /\ c2.role.peers[p] = y
    BY <1>1, <1>8 DEF Replaces
  <1>10. EnqueueReliable(c2, p, "SynAccept") = c4
    <2>1. ~FifoFull(y.outbox) /\ BecomesHead(y.outbox)
      <3>1. Len(<< >>) = 0 /\ ~(0 >= ReliableCap)
        BY Constants
      <3> QED  BY <1>4, <3>1 DEF FifoFull, BecomesHead
    <2> QED  BY <1>9, <2>1 DEF EnqueueReliable, Enqueue, Queued
  <1>11. "SynAccept" \in ReliablePackets /\ "SynAccept" \in ServerPackets
         /\ "WaitingData" \in ServerPackets
    BY DEF ReliablePackets, ServerPackets
  <1>12. z \in Peer /\ Same(y, z) /\ Len(z.outbox) = 1 /\ z # None
    <2>1. z \in Peer /\ Same(y, z) /\ Len(z.outbox) = Len(y.outbox) + 1
      BY <1>4, <1>11, QueuedIn
    <2>2. Len(y.outbox) = 0
      BY <1>4
    <2> QED  BY <2>1, <2>2, Constants
  <1> HIDE DEF z
  <1>13. c3 \in Contexts /\ c3.actions = c.actions /\ Replaces(c2.role, c3.role, p, z)
    BY <1>1, <1>8, <1>12, SetPeerIn, PeerSet, ContextFields
  <1> HIDE DEF c3
  <1> DEFINE s == c3.role
  <1>14. /\ s \in Roles /\ s.state = r.state /\ s.gamemode = syn.mode
         /\ s.settings = r.settings /\ s.nextOrder = r.nextOrder /\ s.peers[p] = z
         /\ \A q \in Ids \ {p} : s.peers[q] = r.peers[q]
    BY <1>6, <1>8, <1>13 DEF Replaces
  <1> HIDE DEF s
  <1>15. /\ z.syn = TRUE /\ z.slot = slot /\ z.drone = syn.drone /\ z.mode = syn.mode
         /\ z.conn = "Connected" /\ z.ready = FALSE /\ z.game = FALSE /\ z.gameIndex = None
    BY <1>4, <1>12 DEF Same
  <1>16. Len(z.outbox) <= ReliableCap
    BY <1>12, Constants
  <1>17. Enrolls(r, s, p)
    BY <1>1, <1>2, <1>3, <1>12, <1>14, <1>15, <1>16, Constants DEF Enrolls
  <1>18. Live(s) = Live(r) /\ Members(s) = Members(r)
    <2>1. Members(s) = Members(r)
      BY <1>1, <1>12, <1>14 DEF Members
    <2>2. \A q \in Members(r) : q # p => s.peers[q] = r.peers[q]
      BY <1>14, Subsets
    <2>3. /\ Live(r) = {q \in Members(r) : r.peers[q].conn = "Connected"}
          /\ Live(s) = {q \in Members(s) : s.peers[q].conn = "Connected"}
      BY <1>1, <1>14, LiveSets
    <2> QED  BY <1>1, <1>14, <1>15, <2>1, <2>2, <2>3 DEF Unknown, x
  <1>19. Hushed(c, c3)
    BY <1>13, <1>18, QuietStays DEF Hushed, s
  <1>22. Lighter(c, c3) /\ Awaits(r, p) /\ ~Awaits(s, p)
    <2>1. Awaits(r, p) /\ ~Awaits(s, p)
      <3>1. x.outbox = << >> /\ r.peers[p] = x
        BY <1>1 DEF Unknown, x
      <3>2. z.outbox # << >> /\ s.peers[p] = z
        <4>1. Len(<< >>) # 1
          OBVIOUS
        <4>2. Len(z.outbox) = 1 /\ s.peers[p] = z
          BY <1>12, <1>14
        <4> QED  BY <4>1, <4>2, Zenon
      <3> QED  BY <1>1, <3>1, <3>2 DEF Awaits
    <2>2. \A q \in Ids : Awaits(s, q) => Awaits(r, q)
      <3>1. \A q \in Ids \ {p} : Awaits(s, q) => Awaits(r, q)
        BY <1>14, <1>18 DEF Awaits
      <3> QED  BY <2>1, <3>1
    <2>3. \A q \in Ids : Endable(s, q) => Endable(r, q)
      <3>1. /\ Live(r) = {q \in Members(r) : r.peers[q].conn = "Connected"}
            /\ Live(s) = {q \in Members(s) : s.peers[q].conn = "Connected"}
        BY <1>1, <1>14, LiveSets
      <3> QED  BY <1>18, <3>1 DEF Endable
    <2>4. \A q \in Ids : \A K : Said(c3.actions, q, K) = Said(c.actions, q, K)
      BY <1>13
    <2> QED  BY <1>13, <2>1, <2>2, <2>3, <2>4, LighterRole DEF s
  <1>23. Lighter(c, c4)
    BY <1>1, <1>11, <1>13, <1>22, HeadLighter DEF s
  <1>20. c4 \in Contexts /\ c4.role = s /\ Hushed(c3, c4)
    BY <1>1, <1>11, <1>13, <1>18, Says DEF s
  <1> HIDE DEF c4
  <1>21. d \in Contexts /\ d.role = s /\ Hushed(c4, d)
    BY <1>1, <1>7, <1>10, <1>11, <1>18, <1>20, Says
  <1>24. Speaks(c, d, Ids, 1)
    <2>1. Speaks(c4, d, Ids, 1)
      BY <1>1, <1>7, <1>10, <1>20, SaysPlain, Plain
    <2>2. Speaks(c, c4, Ids, 0)
      BY <1>20, <1>23, LighterSpeaks
    <2>3. Speaks(c, d, Ids, 0 + 1)
      BY <1>20, <1>21, <2>1, <2>2, SpeaksTwice
    <2> QED  BY <2>3
  <1> QED  BY <1>17, <1>19, <1>20, <1>21, <1>24 DEF Hushed

(* reject refuses a stranger.                                               *)
LEMMA RejectIn ==
    ASSUME NEW c \in Contexts, NEW r, r = c.role, RoleInv(r), NEW p \in Members(r) \ Accepted(r)
    PROVE  /\ Reject(c, p) \in Contexts /\ Refuses(r, Reject(c, p).role, p)
           /\ Hushed(c, Reject(c, p)) /\ Speaks(c, Reject(c, p), Ids, 1)
  <1> DEFINE farewell == [Disconnect(p, "Remote") EXCEPT !.terminal = "Rejected"]
  <1>1. farewell \in Actions /\ Ends(farewell, p)
    BY StrangerIsLive, FarewellIn
  <1>2. Reject(c, p) = Drop(c, p, farewell)
    BY DEF Reject, RemoveUnconnected
  <1> HIDE DEF farewell
  <1>3. /\ Reject(c, p) \in Contexts /\ Refuses(r, Reject(c, p).role, p)
        /\ Hushed(c, Reject(c, p)) /\ Lighter(c, Reject(c, p))
    BY <1>1, <1>2, DropStranger
  <1> QED  BY <1>3, LighterSpeaks

(* on_syn ignores, refuses or enrolls a stranger.                           *)
LEMMA OnSynIn ==
    ASSUME NEW c \in Contexts, NEW r, r = c.role, RoleInv(r), NEW p \in Members(r) \ Accepted(r),
           NEW syn \in Syns, NEW d, d = OnSyn(c, p, syn)
    PROVE  d \in Contexts /\ StrangerEffect(r, d.role, p) /\ Hushed(c, d) /\ Speaks(c, d, Ids, 1)
  <1> DEFINE mode == IF Adopts(r, syn) THEN syn.mode ELSE r.gamemode
  <1>1. CASE d = Reject(c, p)
    BY <1>1, RejectIn DEF StrangerEffect
  <1>2. CASE d = c
    BY <1>2, LighterSelf, LighterSpeaks DEF StrangerEffect, Hushed
  <1>3. CASE /\ ~(syn.mode = None \/ syn.maxPlayers > NetMaxPlayers)
             /\ r.state = "WaitingLaunch" /\ mode = syn.mode
             /\ d = Accept(c, p, syn, mode)
    <2>1. mode = syn.mode /\ syn.mode # None
      BY <1>3
    <2>2. Connected(r) # {} => r.gamemode = syn.mode
      BY <2>1 DEF RoleInv, OneMode, Adopts
    <2>3. syn.drone => r.gamemode # None /\ syn.mode = r.gamemode
      BY <2>1 DEF Adopts
    <2> HIDE DEF mode
    <2> QED  BY <1>3, <2>1, <2>2, <2>3, AcceptIn DEF StrangerEffect, Eligible
  <1> QED  BY <1>1, <1>2, <1>3 DEF OnSyn

(* on_launch does nothing, or launches.                                     *)
LEMMA OnLaunchIn ==
    ASSUME NEW c \in Contexts, NEW r, r = c.role, RoleInv(r), NEW p \in Connected(r),
           NEW d, d = OnLaunch(c, p)
    PROVE  d \in Contexts /\ Effect(r, d.role) /\ Hushed(c, d) /\ Speaks(c, d, Ids, 1)
  <1>1. CASE d = c
    BY <1>1, YieldsNothing, LighterSelf, LighterSpeaks DEF Effect, Hushed
  <1>2. CASE r.state = "WaitingLaunch" /\ Controller(r) = p
    <2> DEFINE c1 == [c EXCEPT !.role.state = "WaitingStart"]
               s  == c1.role
    <2>1. r \in Roles /\ Orderly(r) /\ Cardinality(Members(r)) <= MaxPeers /\ p \in Ids
      BY Subsets DEF RoleInv, Counted
    <2>2. Players(r) # {}
      BY <1>2, <2>1, Constants DEF Controller
    <2>3. c1 \in Contexts /\ c1.actions = c.actions /\ s = Launching(r)
      BY DEF Contexts, Roles, Launching
    <2> HIDE DEF s
    <2>4. /\ RoleInv(s) /\ Members(s) = Members(r) /\ Connected(s) = Connected(r)
          /\ s.peers = r.peers
      BY <2>2, <2>3, LaunchingInv
    <2>5. d = EnqueueAll(c1, Connected(s), "Launch")
      BY <1>2, <2>4 DEF OnLaunch, ConnectedPeers
    <2> HIDE DEF c1
    <2>6. s = c1.role /\ "Launch" \in ReliablePackets
          /\ Orderly(s) /\ Cardinality(Members(s)) <= MaxPeers
      BY <2>4 DEF s, ReliablePackets, RoleInv, Counted
    <2>7. Sheds(c1, d, {}) /\ Hushed(c1, d)
      BY <2>3, <2>5, <2>6, EntryPoints DEF Hushed
    <2>8. Hushed(c, c1)
      <3>1. Live(s) = Live(r)
        BY <2>4 DEF Live, Draining
      <3> QED  BY <2>3, <2>4, <2>6, <3>1, QuietStays DEF Hushed
    <2>9. d \in Contexts /\ Orderly(d.role) /\ Loses(s, d.role) /\ Lost(s, d.role) \subseteq Connected(r)
      BY <2>4, <2>6, <2>7 DEF Sheds
    <2>10. Launches(r, d.role)
      BY <1>2, <2>2, <2>3, <2>9, ContextFields DEF Launches
    <2>11. Lighter(c, c1)
      <3>1. \A q \in Ids : /\ Awaits(s, q) => Awaits(r, q)
                           /\ Endable(s, q) => Endable(r, q)
        BY <1>2, <2>4 DEF Awaits, Endable
      <3>2. \A q \in Ids : \A K : Said(c1.actions, q, K) = Said(c.actions, q, K)
        BY <2>3
      <3> QED  BY <2>3, <2>6, <3>1, <3>2, LighterRole
    <2>12. Lighter(c, d)
      BY <2>3, <2>7, <2>9, <2>11, LighterTwice DEF Sheds
    <2>13. Speaks(c, d, Ids, 1)
      BY <2>9, <2>12, LighterSpeaks
    <2> QED  BY <2>7, <2>8, <2>9, <2>10, <2>13 DEF Effect, Hushed
  <1> QED  BY <1>1, <1>2 DEF OnLaunch

(* A frozen index fits a slot, since a room holds fewer players than slots. *)
LEMMA IndexIn ==
    ASSUME NEW r \in Roles, Cardinality(Members(r)) <= MaxPeers, NEW p
    PROVE  FrozenIndex(r, p) \in Slots \cup {None}
  <1> DEFINE S == {q \in Players(r) : r.peers[q].slot < r.peers[p].slot}
             n == Cardinality(S)
             m == Cardinality(Members(r))
  <1>1. S \in SUBSET Members(r)
    BY Subsets
  <1> HIDE DEF S
  <1>2. n \in Nat /\ m \in Nat /\ n <= m
    BY <1>1, MembersFinite
  <1> HIDE DEF n
  <1>3. n \in 0..(MaxNodes - 1)
    BY <1>2, Constants
  <1> QED  BY <1>3 DEF FrozenIndex, Slots, n, S

(* What the members that have been offered the start have left of c.        *)
Offered(c, acc) ==
    /\ acc.c \in Contexts /\ acc.aborted \in BOOLEAN
    /\ acc = [c |-> acc.c, aborted |-> acc.aborted]
    /\ Sheds(c, acc.c, {}) /\ Hushed(c, acc.c)
    /\ acc.aborted <=> Lost(c.role, acc.c.role) # {}

(* Nothing lost, nothing but FIFOs changed. *)
LEMMA NothingLost ==
    ASSUME NEW r \in Roles, NEW s \in Roles, Loses(r, s), Lost(r, s) = {}
    PROVE  Kept(r, s) /\ Members(s) = Members(r) /\ Accepted(s) = Accepted(r)
           /\ Connected(s) = Connected(r)
  <1>1. Kept(r, s)
    BY DEF Loses
  <1> QED  BY <1>1, KeptSets

(* One turn of the GAMESTART broadcast: nobody lost yet, or aborted.        *)
LEMMA OfferTurn ==
    ASSUME NEW c \in Contexts, NEW r, r = c.role, RoleInv(r), r.state = "WaitingStart",
           NEW acc, Offered(c, acc), ~acc.aborted, NEW p \in Connected(r),
           NEW next, next = EnqueueReliable(acc.c, p, "GameStart"),
           NEW gone, gone = (p \notin Members(next.role) \/ next.role.state # "WaitingStart")
    PROVE  Offered(c, [c |-> next, aborted |-> gone])
  <1> DEFINE a == acc.c
  <1>1. /\ a \in Contexts /\ Sheds(c, a, {}) /\ Hushed(c, a) /\ Lost(r, a.role) = {}
        /\ r \in Roles /\ a.role \in Roles /\ Orderly(a.role) /\ Loses(r, a.role)
    BY ContextFields DEF Offered, Sheds
  <1> HIDE DEF a
  <1>2. /\ Kept(r, a.role) /\ Members(a.role) = Members(r) /\ Accepted(a.role) = Accepted(r)
        /\ Connected(a.role) = Connected(r)
    BY <1>1, NothingLost
  <1>3. Cardinality(Members(a.role)) <= MaxPeers /\ p \in Accepted(a.role)
        /\ "GameStart" \in ReliablePackets
    BY <1>2, Subsets DEF RoleInv, Counted, ReliablePackets
  <1>4. Served(a, next, p)
    BY <1>1, <1>3, EntryPoints DEF a
  <1>5. Turned(c, a, next, p)
    BY <1>1, <1>4, ServedTurn
  <1>6. Sheds(c, next, {}) /\ Hushed(c, next) /\ next \in Contexts
    BY <1>1, <1>5 DEF Turned, Hushed, Sheds
  <1>7. gone <=> Lost(r, next.role) # {}
    <2>1. CASE p \notin Members(next.role)
      BY <1>2, <1>3, <2>1 DEF Lost
    <2>2. CASE p \in Members(next.role)
      <3>1. Lost(r, next.role) = {}
        BY <1>1, <1>5, <2>2 DEF Turned
      <3>2. Kept(r, next.role)
        BY <1>1, <1>6, <3>1, NothingLost, ContextFields DEF Sheds
      <3> QED  BY <2>2, <3>1, <3>2 DEF Kept
    <2> QED  BY <2>1, <2>2
  <1>8. gone \in BOOLEAN
    OBVIOUS
  <1> QED  BY <1>6, <1>7, <1>8 DEF Offered

(* One turn of the broadcast. *)
OfferStep(c, S, i, acc) ==
    LET here == AtSlot(c.role, S, i)
        next == EnqueueReliable(acc.c, Least(here), "GameStart")
    IN  IF acc.aborted \/ here = {} THEN acc
        ELSE [c |-> next,
              aborted |-> Least(here) \notin Members(next.role) \/ next.role.state # "WaitingStart"]

OfferLoop(c) ==
    Loop(MaxNodes,
         [i \in 1..MaxNodes |-> [acc \in [c : Contexts, aborted : BOOLEAN] |->
             OfferStep(c, ConnectedPeers(c.role), i, acc)]],
         [c |-> c, aborted |-> FALSE])

(* The GAMESTART broadcast as a whole.                                      *)
LEMMA OffersIn ==
    ASSUME NEW c \in Contexts, NEW r, r = c.role, RoleInv(r), r.state = "WaitingStart"
    PROVE  Offered(c, OfferLoop(c))
  <1> DEFINE C    == Connected(r)
             A    == [c : Contexts, aborted : BOOLEAN]
             step == [i \in 1..MaxNodes |-> [acc \in A |-> OfferStep(c, C, i, acc)]]
             G    == {acc \in A : Offered(c, acc)}
             zero == [c |-> c, aborted |-> FALSE]
  <1>1. OfferLoop(c) = Loop(MaxNodes, step, zero)
    BY DEF OfferLoop, ConnectedPeers
  <1>2. zero \in G
    <2>1. Sheds(c, c, {})
      BY ShedsNothing DEF RoleInv
    <2>2. Lost(r, r) = {} /\ Hushed(c, c)
      BY Subsets DEF Lost, Hushed
    <2> QED  BY <2>1, <2>2 DEF Offered
  <1>3. \A i \in 1..MaxNodes : \A acc \in A : step[i][acc] = OfferStep(c, C, i, acc)
    OBVIOUS
  <1> HIDE DEF step, zero
  <1>4. ASSUME NEW i \in 1..MaxNodes, NEW acc \in G PROVE step[i][acc] \in G
    <2> DEFINE here == AtSlot(r, C, i)
               p    == Least(here)
               next == EnqueueReliable(acc.c, p, "GameStart")
               gone == p \notin Members(next.role) \/ next.role.state # "WaitingStart"
    <2>1. acc \in A /\ Offered(c, acc) /\ step[i][acc] = OfferStep(c, C, i, acc)
      BY <1>3
    <2>2. OfferStep(c, C, i, acc) = IF acc.aborted \/ here = {} THEN acc
                                    ELSE [c |-> next, aborted |-> gone]
      BY DEF OfferStep
    <2>3. CASE acc.aborted \/ here = {}
      BY <2>1, <2>2, <2>3
    <2>4. CASE ~(acc.aborted \/ here = {})
      <3>1. C \in SUBSET Accepted(r) /\ r \in Roles /\ Orderly(r)
        BY Subsets DEF RoleInv
      <3> HIDE DEF C
      <3>2. p \in C
        BY <2>4, <3>1, TurnServes
      <3> HIDE DEF p, here
      <3>3. Offered(c, [c |-> next, aborted |-> gone])
        BY <2>1, <2>4, <3>2, OfferTurn DEF C
      <3> DEFINE e == [c |-> next, aborted |-> gone]
      <3>4. e \in A
        BY <3>3 DEF Offered
      <3> QED  BY <2>1, <2>2, <2>4, <3>3, <3>4
    <2> QED  BY <2>3, <2>4
  <1>5. MaxNodes \in Nat
    BY Constants
  <1> HIDE DEF G
  <1>6. Loop(MaxNodes, step, zero) \in G
    BY <1>2, <1>4, <1>5, LoopKeeps
  <1> QED  BY <1>1, <1>6 DEF G

(* start_game, by its three endings.                                        *)
LEMMA StartGameIs ==
    ASSUME NEW c
    PROVE  StartGame(c) = IF ~c.role.settings THEN c
                          ELSE IF OfferLoop(c).aborted THEN OfferLoop(c).c
                          ELSE [OfferLoop(c).c EXCEPT !.role = InGame(OfferLoop(c).c.role)]
  BY DEF StartGame, OfferLoop, OfferStep, Outcome

(* The last step of start_game seats every connected peer.                  *)
LEMMA InGameSeats ==
    ASSUME NEW u \in Roles, Orderly(u), Cardinality(Members(u)) <= MaxPeers, NEW s, s = InGame(u)
    PROVE  Seats(u, s) /\ Live(s) = Live(u) /\ Orderly(s)
  <1>1. \A p \in Connected(u) :
           /\ p \in Ids /\ p \in Members(u) /\ u.peers[p] \in Peer
           /\ FrozenIndex(u, p) \in Slots \cup {None}
    BY Subsets, MemberIsPeer, IndexIn
  <1>2. ASSUME NEW p \in Connected(u), NEW y, y = Seat(u, p)
        PROVE  /\ y \in Peer /\ y = [u.peers[p] EXCEPT !.game = TRUE, !.gameIndex = y.gameIndex]
               /\ y.syn = u.peers[p].syn /\ y.slot = u.peers[p].slot
               /\ y.outbox = u.peers[p].outbox /\ y.conn = u.peers[p].conn
    <2> DEFINE x == u.peers[p]
               i == FrozenIndex(u, p)
    <2>1. y = [x EXCEPT !.game = TRUE, !.gameIndex = i]
      BY <1>2 DEF Seat
    <2>2. x \in Peer /\ i \in Slots \cup {None}
      BY <1>1
    <2> HIDE DEF x, i
    <2>3. y \in Peer /\ y.gameIndex = i /\ y.syn = x.syn /\ y.slot = x.slot
          /\ y.outbox = x.outbox /\ y.conn = x.conn
      BY <2>1, <2>2 DEF Peer
    <2> QED  BY <2>1, <2>3 DEF x
  <1>3. /\ s.state = "InGame" /\ s.gamemode = u.gamemode /\ s.settings = u.settings
        /\ s.nextOrder = u.nextOrder /\ s.peers = [p \in Ids |-> Seat(u, p)]
    BY DEF InGame, Roles
  <1>4. \A p \in Ids : s.peers[p] = Seat(u, p)
    BY <1>3
  <1>5. \A p \in Ids : Seat(u, p) \in Peer \cup {None}
    BY <1>2 DEF Seat, Roles
  <1>6. s \in Roles
    <2>1. s.peers \in [Ids -> Peer \cup {None}]
      BY <1>3, <1>5
    <2> QED  BY <1>3, <2>1 DEF InGame, Roles
  <1>7. \A p \in Ids : p \notin Connected(u) => s.peers[p] = u.peers[p]
    BY <1>4 DEF Seat
  <1>8. ASSUME NEW p \in Connected(u)
        PROVE  /\ s.peers[p] \in Peer
               /\ s.peers[p] = [u.peers[p] EXCEPT !.game = TRUE, !.gameIndex = s.peers[p].gameIndex]
               /\ s.peers[p].syn = u.peers[p].syn /\ s.peers[p].slot = u.peers[p].slot
               /\ s.peers[p].outbox = u.peers[p].outbox /\ s.peers[p].conn = u.peers[p].conn
    BY <1>1, <1>2, <1>4
  <1>9. Members(s) = Members(u)
    <2>2. None \notin Peer
      BY Constants
    <2>3. \A p \in Connected(u) : s.peers[p] \in Peer /\ u.peers[p] \in Peer
      BY <1>1, <1>8
    <2>1. \A p \in Connected(u) : s.peers[p] # None /\ u.peers[p] # None
      BY <2>2, <2>3
    <2> QED  BY <1>7, <2>1 DEF Members
  <1>10. \A p \in Members(u) :
            /\ s.peers[p].syn = u.peers[p].syn /\ s.peers[p].slot = u.peers[p].slot
            /\ s.peers[p].outbox = u.peers[p].outbox /\ s.peers[p].conn = u.peers[p].conn
    BY <1>7, <1>8, Subsets
  <1>11. Seats(u, s)
    BY <1>3, <1>6, <1>7, <1>8, <1>9, Subsets DEF Seats
  <1>12. Orderly(s)
    <2>1. Accepted(s) = Accepted(u)
      BY <1>9, <1>10 DEF Accepted
    <2> QED  BY <1>9, <1>10, <2>1, Subsets DEF Orderly
  <1>13. Live(s) = Live(u)
    BY <1>9, <1>10 DEF Live, Draining
  <1> QED  BY <1>11, <1>12, <1>13

(* start_game offers the start: aborted by a loss, or carried through.      *)
LEMMA StartGameIn ==
    ASSUME NEW c \in Contexts, NEW t, t = c.role, RoleInv(t), t.state = "WaitingStart",
           \A q \in Connected(t) : t.peers[q].ready, NEW d, d = StartGame(c)
    PROVE  d \in Contexts /\ Offers(t, d.role) /\ Orderly(d.role) /\ Hushed(c, d) /\ Lighter(c, d)
  <1> DEFINE o == OfferLoop(c)
             a == o.c
             u == a.role
  <1>1. t \in Roles /\ Orderly(t) /\ t.settings \in BOOLEAN
        /\ Cardinality(Members(t)) <= MaxPeers /\ MaxPeers \in Nat
    BY Constants DEF RoleInv, Roles, Counted
  <1>2. d = IF ~t.settings THEN c ELSE IF o.aborted THEN a ELSE [a EXCEPT !.role = InGame(u)]
    BY StartGameIs
  <1>3. Offered(c, o)
    BY OffersIn
  <1> HIDE DEF o
  <1>4. /\ a \in Contexts /\ u \in Roles /\ Orderly(u) /\ Loses(t, u) /\ Hushed(c, a)
        /\ Lost(t, u) \subseteq Connected(t) /\ (o.aborted <=> Lost(t, u) # {})
        /\ Lighter(c, a)
    BY <1>3, ContextFields DEF Offered, Sheds
  <1>5. CASE ~t.settings
    BY <1>1, <1>2, <1>5, LighterSelf DEF Offers, Agreed, Hushed
  <1>6. CASE t.settings /\ o.aborted
    BY <1>2, <1>4, <1>6 DEF Offers, Agreed
  <1>7. CASE t.settings /\ ~o.aborted
    <2> DEFINE s == InGame(u)
    <2>1. Lost(t, u) = {}
      BY <1>4, <1>7
    <2>2. Cardinality(Members(u)) <= MaxPeers
      BY <1>1, <1>4, <2>1, NothingLost
    <2>3. Seats(u, s) /\ Live(s) = Live(u) /\ Orderly(s)
      BY <1>4, <2>2, InGameSeats
    <2>4. d = [a EXCEPT !.role = s]
      BY <1>2, <1>7
    <2> HIDE DEF s, a
    <2>5. d \in Contexts /\ d.role = s /\ d.actions = a.actions
      BY <1>4, <2>3, <2>4 DEF Contexts, Seats
    <2>8. Members(s) = Members(u)
      BY <2>3 DEF Seats
    <2>6. Hushed(a, d)
      BY <1>4, <2>3, <2>5, <2>8, QuietStays DEF Hushed
    <2>7. Offers(t, s)
      BY <1>4, <1>7, <2>1, <2>3 DEF Offers, Agreed
    <2>9. Lighter(a, d)
      <3>1. \A q \in Ids : Awaits(s, q) => Awaits(u, q)
        <4>1. \A q \in Connected(u) : s.peers[q].outbox = u.peers[q].outbox
          <5>1. \A q \in Connected(u) : u.peers[q] \in Peer
            BY <1>4, Subsets, MemberIsPeer
          <5> QED  BY <2>3, <5>1 DEF Seats, Peer
        <4>2. \A q \in Members(u) \ Connected(u) : s.peers[q] = u.peers[q]
          BY <2>3 DEF Seats
        <4> QED  BY <2>8, <4>1, <4>2 DEF Awaits
      <3>2. \A q \in Ids : Endable(s, q) => Endable(u, q)
        <4>1. /\ Live(u) = {q \in Members(u) : u.peers[q].conn = "Connected"}
              /\ Live(s) = {q \in Members(s) : s.peers[q].conn = "Connected"}
          BY <1>4, <2>5, LiveSets, ContextFields
        <4>2. u.state # "InGame"
          <5>1. u.state = t.state
            BY <1>1, <1>4, <2>1, NothingLost DEF Kept
          <5> QED  BY <5>1
        <4> QED  BY <2>3, <4>1, <4>2 DEF Endable
      <3>3. \A q \in Ids : \A K : Said(d.actions, q, K) = Said(a.actions, q, K)
        BY <2>5
      <3> QED  BY <1>4, <2>5, <3>1, <3>2, <3>3, LighterRole
    <2>10. Lighter(c, d)
      BY <1>4, <2>5, <2>9, LighterTwice
    <2> QED  BY <1>4, <2>3, <2>5, <2>6, <2>7, <2>10 DEF Hushed
  <1> QED  BY <1>1, <1>5, <1>6, <1>7

(* p is told to wait, or nobody is. *)
LEMMA RefreshIn ==
    ASSUME NEW c \in Contexts, NEW S \in SUBSET Connected(c.role), NEW d,
           d = Loop(MaxJoins,
                    [q \in Ids |-> [acc \in Contexts |->
                        IF q \in S THEN Emit(acc, q, "WaitingData") ELSE acc]], c)
    PROVE  d \in Contexts /\ d.role = c.role /\ Hushed(c, d) /\ Speaks(c, d, Ids, 1)
  <1> DEFINE step == [q \in Ids |-> [acc \in Contexts |->
                         IF q \in S THEN Emit(acc, q, "WaitingData") ELSE acc]]
             H    == [i \in 0..MaxJoins |-> {acc \in Contexts : Speaks(c, acc, 1..i, 1)}]
             G    == {acc \in Contexts : acc.role = c.role /\ Hushed(c, acc)}
  <1>1. \A q \in Ids : \A acc \in Contexts :
           step[q][acc] = IF q \in S THEN Emit(acc, q, "WaitingData") ELSE acc
    OBVIOUS
  <1>2. d = Loop(MaxJoins, step, c)
    OBVIOUS
  <1> HIDE DEF step
  <1>3. c \in G
    BY DEF Hushed
  <1>4. MaxJoins \in Nat /\ Ids = 1..MaxJoins
    BY Constants DEF Ids
  <1>5. ASSUME NEW q \in 1..MaxJoins, NEW acc \in G PROVE step[q][acc] \in G
    <2>1. /\ q \in Ids /\ acc \in Contexts /\ acc.role = c.role /\ Hushed(c, acc)
          /\ step[q][acc] = IF q \in S THEN Emit(acc, q, "WaitingData") ELSE acc
      BY <1>1, <1>4
    <2>2. CASE q \in S
      <3>1. "WaitingData" \in ServerPackets
        BY DEF ServerPackets
      <3>2. q \in Live(acc.role) /\ q \in Members(acc.role)
        BY <2>1, <2>2, LiveSets, ContextFields
      <3>3. /\ Emit(acc, q, "WaitingData") \in Contexts
            /\ Emit(acc, q, "WaitingData").role = acc.role
            /\ Hushed(acc, Emit(acc, q, "WaitingData"))
        BY <2>1, <3>1, <3>2, Says
      <3> QED  BY <2>1, <2>2, <3>3 DEF Hushed
    <2> QED  BY <2>1, <2>2
  <1> HIDE DEF G
  <1>6. d \in G
    BY <1>2, <1>3, <1>4, <1>5, LoopKeeps
  <1>7. \A i \in 0..MaxJoins : \A acc : acc \in H[i] <=> acc \in Contexts /\ Speaks(c, acc, 1..i, 1)
    OBVIOUS
  <1>8. /\ 0 \in 0..MaxJoins /\ MaxJoins \in 0..MaxJoins
        /\ \A q \in 1..MaxJoins : /\ q \in 0..MaxJoins /\ q - 1 \in 0..MaxJoins
                                  /\ (1..(q - 1)) \cup {q} = 1..q /\ (1..(q - 1)) \cap {q} = {}
    BY <1>4
  <1> HIDE DEF H
  <1>9. c \in H[0]
    BY <1>7, <1>8, LighterSelf, LighterSpeaks
  <1>10. ASSUME NEW q \in 1..MaxJoins, NEW acc \in H[q - 1] PROVE step[q][acc] \in H[q]
    <2> DEFINE S1 == 1..(q - 1)
               S2 == {q}
               e  == step[q][acc]
    <2>1. /\ q \in Ids /\ acc \in Contexts /\ Speaks(c, acc, S1, 1)
          /\ e = IF q \in S THEN Emit(acc, q, "WaitingData") ELSE acc
      BY <1>1, <1>4, <1>7, <1>8
    <2>2. S1 \cup S2 = 1..q /\ S1 \cap S2 = {}
      BY <1>8
    <2>3. e \in Contexts /\ Speaks(acc, e, S2, 1)
      BY <2>1, SaysPlain, Plain, LighterSelf, LighterSpeaks
    <2> HIDE DEF S1, S2, e
    <2>4. Speaks(c, e, S1 \cup S2, 1)
      BY <2>1, <2>2, <2>3, SpeaksApart
    <2> QED  BY <1>7, <1>8, <2>2, <2>3, <2>4 DEF e
  <1>11. d \in H[MaxJoins]
    BY <1>2, <1>4, <1>9, <1>10, LoopRule
  <1>12. d \in Contexts /\ Speaks(c, d, Ids, 1)
    BY <1>4, <1>7, <1>8, <1>11
  <1> QED  BY <1>6, <1>12 DEF G

(* p ready, and its settings adopted. *)
Willing(c, p, adopts) ==
    LET adopted == IF adopts THEN [c EXCEPT !.role.settings = TRUE] ELSE c
    IN  [adopted EXCEPT !.role.peers[p].ready = TRUE]

(* What a GAMESTART writes before it looks at the others.                   *)
LEMMA WillingIn ==
    ASSUME NEW c \in Contexts, NEW r, r = c.role, RoleInv(r), NEW p \in Connected(r),
           NEW adopts \in BOOLEAN, NEW d, d = Willing(c, p, adopts)
    PROVE  d \in Contexts /\ Wills(r, d.role, p, adopts) /\ Hushed(c, d) /\ Lighter(c, d)
  <1> DEFINE x == r.peers[p]
             y == [r.peers[p] EXCEPT !.ready = TRUE]
             b == IF adopts THEN [c EXCEPT !.role.settings = TRUE] ELSE c
  <1>1. r \in Roles /\ p \in Members(r) /\ p \in Ids /\ x \in Peer
    BY Subsets, MemberIsPeer DEF RoleInv
  <1>2. y \in Peer /\ y.conn = x.conn
    BY <1>1 DEF Peer
  <1>3. /\ b \in Contexts /\ b.actions = c.actions /\ b.role \in Roles
        /\ b.role.state = r.state /\ b.role.gamemode = r.gamemode
        /\ b.role.nextOrder = r.nextOrder /\ b.role.peers = r.peers
        /\ b.role.settings = (r.settings \/ adopts)
    <2>1. CASE adopts
      <3>1. b = [c EXCEPT !.role.settings = TRUE]
        BY <2>1
      <3>2. b \in Contexts /\ b.actions = c.actions /\ b.role = [r EXCEPT !.settings = TRUE]
        BY <3>1 DEF Contexts, Roles
      <3> HIDE DEF b
      <3>3. /\ b.role \in Roles
            /\ b.role.state = r.state /\ b.role.gamemode = r.gamemode
            /\ b.role.nextOrder = r.nextOrder /\ b.role.peers = r.peers
            /\ b.role.settings = TRUE
        BY <1>1, <3>2 DEF Roles
      <3> QED  BY <2>1, <3>2, <3>3
    <2>2. CASE ~adopts
      <3>1. b = c /\ r.settings \in BOOLEAN
        BY <1>1, <2>2 DEF Roles
      <3> QED  BY <1>1, <2>2, <3>1
    <2> QED  BY <2>1, <2>2
  <1> HIDE DEF b
  <1>4. d = SetPeer(b, p, y)
    <2>1. b.role.peers[p] = x
      BY <1>3
    <2>2. d = [b EXCEPT !.role.peers[p].ready = TRUE]
      BY DEF Willing, b
    <2>3. d = [b EXCEPT !.role.peers[p] = [b.role.peers[p] EXCEPT !.ready = TRUE]]
      BY <2>2
    <2> QED  BY <2>1, <2>3 DEF SetPeer
  <1> HIDE DEF y, x
  <1>5. d \in Contexts /\ d.actions = c.actions /\ Replaces(b.role, d.role, p, y) /\ y # None
    BY <1>1, <1>2, <1>3, <1>4, SetPeerIn, PeerSet, Constants
  <1>6. Members(b.role) = Members(r)
    BY <1>3 DEF Members
  <1>7. Wills(r, d.role, p, adopts)
    BY <1>1, <1>3, <1>5, <1>6 DEF Replaces, Wills, y
  <1>8. Live(d.role) = Live(r)
    <2>1. /\ d.role \in Roles /\ Members(d.role) = Members(r) /\ d.role.peers[p] = y
          /\ \A q \in Members(r) \ {p} : d.role.peers[q] = r.peers[q]
      BY <1>1, <1>3, <1>5, <1>6, Subsets DEF Replaces
    <2>2. \A q \in Members(r) : d.role.peers[q].conn = r.peers[q].conn
      BY <1>2, <2>1 DEF x
    <2> QED  BY <2>1, <2>2 DEF Live, Draining
  <1>9. Hushed(c, d)
    BY <1>5, <1>7, <1>8, QuietStays DEF Hushed, Wills
  <1>10. Lighter(c, d)
    <2>1. Lighter(c, b)
      <3>1. \A q \in Ids : /\ Awaits(b.role, q) => Awaits(r, q)
                           /\ Endable(b.role, q) => Endable(r, q)
        BY <1>3, <1>6 DEF Awaits, Endable, Players
      <3>2. \A q \in Ids : \A K : Said(b.actions, q, K) = Said(c.actions, q, K)
        BY <1>3
      <3> QED  BY <1>3, <3>1, <3>2, LighterRole
    <2>2. Lighter(b, d)
      <3>1. p \in Members(b.role) /\ b.role.peers[p] = x /\ d.actions = b.actions
        BY <1>1, <1>3, <1>5, <1>6 DEF x
      <3>2. y.outbox = x.outbox /\ y.conn = x.conn /\ (IsPlayer(x) => IsPlayer(y))
        BY <1>1 DEF Peer, IsPlayer, x, y
      <3> QED  BY <1>3, <1>5, <3>1, <3>2, ReplacedLighter
    <2> QED  BY <1>3, <1>5, <2>1, <2>2, LighterTwice
  <1> QED  BY <1>5, <1>7, <1>9, <1>10

(* on_gamestart is ignored or is a GAMESTART of the lifecycle.              *)
LEMMA OnGameStartIn ==
    ASSUME NEW c \in Contexts, NEW r, r = c.role, RoleInv(r), NEW p \in Connected(r),
           NEW valid \in BOOLEAN, NEW d, d = OnGameStart(c, p, valid)
    PROVE  d \in Contexts /\ Effect(r, d.role) /\ Hushed(c, d) /\ Speaks(c, d, Ids, 1)
  <1> DEFINE controls == Controller(r) = p
             w        == Willing(c, p, controls)
             t        == w.role
             S        == {q \in Connected(t) : t.peers[q].ready}
             told     == Loop(MaxJoins,
                              [q \in Ids |-> [acc \in Contexts |->
                                  IF q \in S THEN Emit(acc, q, "WaitingData") ELSE acc]], w)
  <1>1. d = IF r.state # "WaitingStart" \/ (controls /\ ~valid) THEN c
            ELSE IF \A q \in Connected(t) : t.peers[q].ready THEN StartGame(w)
            ELSE Loop(MaxJoins,
                      [q \in Ids |-> [acc \in Contexts |->
                          IF q \in Connected(t) /\ t.peers[q].ready
                          THEN Emit(acc, q, "WaitingData") ELSE acc]], w)
    BY DEF OnGameStart, Willing
  <1>2. told = Loop(MaxJoins,
                    [q \in Ids |-> [acc \in Contexts |->
                        IF q \in Connected(t) /\ t.peers[q].ready
                        THEN Emit(acc, q, "WaitingData") ELSE acc]], w)
    OBVIOUS
  <1> HIDE DEF told
  <1>3. d = IF r.state # "WaitingStart" \/ (controls /\ ~valid) THEN c
            ELSE IF \A q \in Connected(t) : t.peers[q].ready THEN StartGame(w) ELSE told
    BY <1>1, <1>2
  <1>4. CASE r.state # "WaitingStart" \/ (controls /\ ~valid)
    BY <1>3, <1>4, YieldsNothing, LighterSelf, LighterSpeaks DEF Effect, Hushed
  <1>5. CASE r.state = "WaitingStart" /\ ~(controls /\ ~valid)
    <2>1. r \in Roles /\ p \in Ids /\ p \in Accepted(r)
      BY Subsets DEF RoleInv
    <2>2. controls => p \in Players(r)
      <3>1. Players(r) \in SUBSET Nat
        BY Subsets, Constants
      <3>2. Players(r) # {} => Least(Players(r)) \in Players(r)
        BY <3>1, LeastIsLeast
      <3>3. Players(r) = {} => Controller(r) # p
        BY <2>1, Constants DEF Controller
      <3> QED  BY <3>2, <3>3 DEF Controller
    <2>3. controls \in BOOLEAN
      OBVIOUS
    <2> HIDE DEF controls
    <2>4. w \in Contexts /\ Wills(r, t, p, controls) /\ Hushed(c, w) /\ Lighter(c, w)
      BY <2>3, WillingIn
    <2> HIDE DEF w, t
    <2>5. RoleInv(t) /\ t.state = "WaitingStart" /\ t \in Roles /\ t = w.role
      BY <1>5, <2>3, <2>4, WillsInv DEF Wills, t
    <2>6. ASSUME d \in Contexts, Offers(t, d.role), Orderly(d.role), Hushed(w, d),
                 Speaks(w, d, Ids, 1)
          PROVE  d \in Contexts /\ Effect(r, d.role) /\ Hushed(c, d) /\ Speaks(c, d, Ids, 1)
      <3>1. GameStarts(r, d.role, p)
        BY <1>5, <2>2, <2>3, <2>4, <2>5, <2>6, ContextFields DEF GameStarts
      <3>2. Speaks(c, w, Ids, 0)
        BY <2>4, LighterSpeaks
      <3>3. Speaks(c, d, Ids, 0 + 1)
        BY <2>4, <2>6, <3>2, SpeaksTwice
      <3> QED  BY <2>1, <2>4, <2>6, <3>1, <3>3 DEF Effect, Hushed
    <2>7. CASE \A q \in Connected(t) : t.peers[q].ready
      <3>1. d = StartGame(w)
        BY <1>3, <1>5, <2>7
      <3>2. /\ d \in Contexts /\ Offers(t, d.role) /\ Orderly(d.role) /\ Hushed(w, d)
            /\ Lighter(w, d)
        BY <2>4, <2>5, <2>7, <3>1, StartGameIn
      <3>3. Speaks(w, d, Ids, 1)
        BY <2>4, <3>2, LighterSpeaks
      <3> QED  BY <2>6, <3>2, <3>3
    <2>8. CASE ~ \A q \in Connected(t) : t.peers[q].ready
      <3>1. d = told
        BY <1>3, <1>5, <2>8
      <3>2. S \in SUBSET Connected(w.role)
        BY <2>5
      <3> HIDE DEF S
      <3>3. told \in Contexts /\ told.role = w.role /\ Hushed(w, told) /\ Speaks(w, told, Ids, 1)
        BY <2>4, <3>2, RefreshIn DEF told
      <3>4. Offers(t, d.role) /\ Orderly(d.role)
        BY <2>5, <2>8, <3>1, <3>3 DEF Offers, Agreed, RoleInv
      <3> QED  BY <2>6, <3>1, <3>3, <3>4
    <2> QED  BY <2>7, <2>8
  <1> QED  BY <1>4, <1>5

-----------------------------------------------------------------------------
(* The acknowledgement of a reliable packet.                                *)

(* The tail of a FIFO is a FIFO, one shorter at least.                      *)
LEMMA TailIn ==
    ASSUME NEW T, NEW box \in Seq(T), box # << >>
    PROVE  /\ Tail(box) \in Seq(T) /\ Len(Tail(box)) \in Nat /\ Len(box) \in Nat
           /\ Len(Tail(box)) <= Len(box)
           /\ Len(box) > 1 => box[2] \in T /\ Tail(box) # << >>
  <1>1. Len(box) \in Nat /\ Len(box) # 0
    OBVIOUS
  <1>2. Tail(box) \in Seq(T) /\ Len(Tail(box)) = Len(box) - 1
    OBVIOUS
  <1>3. Len(box) > 1 => 2 \in 1..Len(box)
    BY <1>1
  <1>4. Len(box) > 1 => Len(Tail(box)) # 0
    <2> DEFINE m == Len(box)
               n == Len(Tail(box))
    <2>1. m \in Nat /\ n = m - 1
      BY <1>1, <1>2
    <2> HIDE DEF m, n
    <2>2. m > 1 => n # 0
      BY <2>1
    <2> QED  BY <2>2 DEF m, n
  <1>5. Len(box) > 1 => Tail(box) # << >>
    <2> DEFINE rest == Tail(box)
    <2>1. Len(box) > 1 => Len(rest) # 0
      BY <1>4
    <2> HIDE DEF rest
    <2>2. rest = << >> => Len(rest) = 0
      OBVIOUS
    <2> QED  BY <2>1, <2>2 DEF rest
  <1> QED  BY <1>1, <1>2, <1>3, <1>5

(* An acknowledgement pops the head of one FIFO and sends the next entry.   *)
LEMMA OnReliableAckIn ==
    ASSUME NEW c \in Contexts, NEW r, r = c.role, RoleInv(r), NEW p \in Connected(r),
           NEW exact \in BOOLEAN, NEW d, d = OnReliableAck(c, p, exact)
    PROVE  /\ d \in Contexts /\ Effect(r, d.role) /\ Hushed(c, d)
           /\ Said(c.actions, p, ReliablePackets) = 0 => Speaks(c, d, Ids, 1)
  <1> DEFINE x   == r.peers[p]
             box == x.outbox
             y   == [r.peers[p] EXCEPT !.outbox = Tail(box)]
             e   == [c EXCEPT !.role.peers[p].outbox = Tail(box)]
  <1>1. /\ r \in Roles /\ Orderly(r) /\ p \in Ids /\ p \in Accepted(r) /\ p \in Members(r)
        /\ x \in Peer /\ x.syn /\ p \in Live(r)
        /\ box \in Seq(ReliablePackets)
    BY Subsets, MemberIsPeer, LiveSets DEF RoleInv, Connected
  <1>2. CASE d = c
    BY <1>2, YieldsNothing, LighterSelf, LighterSpeaks DEF Effect, Hushed
  <1>3. CASE box # << >> /\ d = IF Len(box) > 1 THEN Emit(e, p, box[2]) ELSE e
    <2> DEFINE rest == Tail(box)
    <2>1. rest \in Seq(ReliablePackets) /\ Len(rest) <= Len(box) /\ Len(box) \in Nat
          /\ Len(rest) \in Nat /\ (Len(box) > 1 => box[2] \in ReliablePackets)
      BY <1>1, <1>3, TailIn
    <2>2. Len(box) <= ReliableCap /\ ReliableCap \in Nat
      BY <1>1, Constants DEF Orderly
    <2>3. Len(rest) <= ReliableCap
      BY <2>1, <2>2
    <2>4. e = SetPeer(c, p, y)
      BY DEF SetPeer
    <2> HIDE DEF rest
    <2>5. y = [x EXCEPT !.outbox = rest]
      BY DEF rest
    <2> HIDE DEF y, e
    <2>6. y \in Peer /\ Same(x, y) /\ Len(y.outbox) <= ReliableCap
      BY <1>1, <2>1, <2>3, <2>5 DEF Peer, Same
    <2>7. Touches(c, e, p, y)
      BY <1>1, <2>4, <2>6, PeerTouched
    <2>8. /\ e \in Contexts /\ Yields(r, e.role) /\ Live(e.role) = Live(r) /\ Hushed(c, e)
          /\ p \in Members(e.role)
      BY <1>1, <2>7 DEF Touches
    <2>11. /\ \A q \in Ids \ {p} : Heads(e, q) = Heads(c, q)
           /\ \A q \in Ids : Words(e, q) <= Words(c, q)
           /\ Awaits(e.role, p) <=> rest = << >>
           /\ e.actions = c.actions /\ e.actions \in Seq(Actions)
      <3>1. Replaces(r, e.role, p, y) /\ e.actions = c.actions /\ y # None
        BY <1>1, <2>4, <2>6, SetPeerIn, PeerSet, Constants
      <3>2. y.conn = x.conn /\ (IsPlayer(x) => IsPlayer(y)) /\ y.outbox = rest
        BY <1>1, <2>1, <2>5, <2>6 DEF Same, IsPlayer, Peer
      <3> QED  BY <1>1, <2>8, <3>1, <3>2, ReplacedCounts, ContextFields
    <2>12. \A q \in Ids : Heads(c, q) \in Nat /\ Words(c, q) \in Nat /\ Words(e, q) \in Nat
      BY <2>8, CountsIn
    <2>9. CASE Len(box) > 1
      <3>1. box[2] \in ServerPackets /\ box[2] # "Disconnect"
        BY <2>1, <2>9 DEF ServerPackets, ReliablePackets
      <3> DEFINE head == box[2]
      <3>2. head \in ServerPackets /\ head # "Disconnect" /\ d = Emit(e, p, head)
        BY <1>3, <2>9, <3>1
      <3> HIDE DEF head
      <3>3. d \in Contexts /\ d.role = e.role /\ Hushed(e, d)
        BY <1>1, <2>8, <3>2, Says
      <3>4. ASSUME Said(c.actions, p, ReliablePackets) = 0, NEW q \in Ids
            PROVE  (Heads(c, q) <= 1 => Heads(d, q) <= 1) /\ Words(d, q) <= Words(c, q) + 1
        <4>1. head \in ReliablePackets /\ head \notin PlainPackets
          BY <2>1, <2>9 DEF PlainPackets, head
        <4>2. rest # << >>
          BY <1>1, <1>3, <2>9, TailIn DEF rest
        <4>3. /\ Said(d.actions, q, ReliablePackets)
                   = Said(c.actions, q, ReliablePackets) + (IF q = p THEN 1 ELSE 0)
              /\ Said(d.actions, q, PlainPackets) = Said(e.actions, q, PlainPackets) + 0
          <5>1. d.actions = Append(e.actions, Send(p, head))
            BY <1>1, <2>8, <3>2, EmitIn
          <5> QED  BY <1>1, <2>11, <3>2, <4>1, <5>1, SaidSend
        <4>4. /\ Said(c.actions, q, ReliablePackets) \in Nat
              /\ Said(e.actions, q, PlainPackets) \in Nat
          BY <2>8, CountsIn
        <4>5. Words(d, q) = Words(e, q)
          BY <3>3, <4>3, <4>4 DEF Words
        <4>6. CASE q = p
          <5>1. Heads(d, p) = 1
            BY <2>11, <3>3, <3>4, <4>2, <4>3, <4>6 DEF Heads, Bit
          <5> QED  BY <2>11, <2>12, <4>5, <4>6, <5>1
        <4>7. CASE q # p
          <5>1. Heads(d, q) = Heads(e, q)
            BY <2>11, <3>3, <4>3, <4>4, <4>7 DEF Heads
          <5> QED  BY <2>11, <2>12, <4>5, <4>7, <5>1
        <4> QED  BY <4>6, <4>7
      <3>5. Said(c.actions, p, ReliablePackets) = 0 => Speaks(c, d, Ids, 1)
        BY <3>4 DEF Speaks
      <3> QED  BY <2>8, <3>3, <3>5 DEF Effect, Hushed
    <2>10. CASE ~(Len(box) > 1)
      <3>1. d = e
        BY <1>3, <2>10
      <3>2. ASSUME Said(c.actions, p, ReliablePackets) = 0, NEW q \in Ids
            PROVE  (Heads(c, q) <= 1 => Heads(e, q) <= 1) /\ Words(e, q) <= Words(c, q) + 1
        <4>1. q = p => Heads(e, q) <= 1
          BY <2>11, <3>2 DEF Heads, Bit
        <4> QED  BY <2>11, <2>12, <4>1
      <3>3. Said(c.actions, p, ReliablePackets) = 0 => Speaks(c, e, Ids, 1)
        BY <3>2 DEF Speaks
      <3> QED  BY <2>8, <3>1, <3>3 DEF Effect
    <2> QED  BY <2>9, <2>10
  <1> QED  BY <1>2, <1>3 DEF OnReliableAck

-----------------------------------------------------------------------------
(* Packets.                                                                 *)

(* remove_connected, from the invariant.                                    *)
LEMMA RemoveIn ==
    ASSUME NEW c \in Contexts, NEW r, r = c.role, RoleInv(r), NEW p \in Accepted(r),
           NEW reason \in {"Remote", "Timeout", "GameEnded", "ReliableOverflow", "MalformedInput"},
           NEW announce \in BOOLEAN, NEW d, d = RemoveConnected(c, p, reason, announce)
    PROVE  /\ d \in Contexts /\ Yields(r, d.role) /\ Hushed(c, d) /\ p \notin Members(d.role)
           /\ Lighter(c, d)
  <1>1. Orderly(c.role) /\ Cardinality(Members(c.role)) <= MaxPeers
    BY DEF RoleInv, Counted
  <1>2. Removed(c, d, p, announce)
    BY <1>1, EntryPoints
  <1> QED  BY <1>2, ContextFields DEF Removed, Yields, Hushed

(* A DISCONNECT from a connected peer puts it to sleep and acknowledges.    *)
LEMMA SleepIn ==
    ASSUME NEW c \in Contexts, NEW r, r = c.role, RoleInv(r), NEW p \in Connected(r),
           NEW d, d = Emit([c EXCEPT !.role.peers[p].conn = "Sleeping"], p, "DisconnectAck")
    PROVE  d \in Contexts /\ Sleeps(r, d.role, p) /\ Hushed(c, d) /\ Speaks(c, d, Ids, 1)
  <1> DEFINE x == r.peers[p]
             y == [r.peers[p] EXCEPT !.conn = "Sleeping"]
             e == [c EXCEPT !.role.peers[p].conn = "Sleeping"]
  <1>1. r \in Roles /\ p \in Ids /\ p \in Members(r) /\ x \in Peer
    BY Subsets, MemberIsPeer DEF RoleInv
  <1>2. y \in Peer /\ y.conn = "Sleeping" /\ y.outbox = x.outbox
    BY <1>1 DEF Peer
  <1>3. e = SetPeer(c, p, y)
    BY DEF SetPeer
  <1>4. d = Emit(e, p, "DisconnectAck")
    OBVIOUS
  <1> HIDE DEF e, x, y
  <1>5. e \in Contexts /\ e.actions = c.actions /\ Replaces(r, e.role, p, y) /\ y # None
    BY <1>1, <1>2, <1>3, SetPeerIn, PeerSet, Constants
  <1>6. /\ Live(e.role) \subseteq Live(r) /\ p \notin Live(e.role)
        /\ Members(e.role) = Members(r)
    <2>1. /\ e.role \in Roles /\ Members(e.role) = Members(r) /\ e.role.peers[p] = y
          /\ \A q \in Members(r) \ {p} : e.role.peers[q] = r.peers[q]
      BY <1>1, <1>5, Subsets DEF Replaces
    <2> QED  BY <1>2, <2>1 DEF Live, Draining
  <1>7. Hushed(c, e)
    BY <1>5, <1>6, QuietStays DEF Hushed
  <1>8. "DisconnectAck" \in ServerPackets /\ "DisconnectAck" \in Handshake
    BY DEF ServerPackets, Handshake
  <1>9. d \in Contexts /\ d.role = e.role /\ Hushed(e, d)
    BY <1>1, <1>4, <1>5, <1>6, <1>8, Says
  <1>10. Speaks(c, d, Ids, 1)
    <2>1. Lighter(c, e)
      BY <1>1, <1>2, <1>5, ReplacedLighter DEF x
    <2>2. Speaks(c, e, Ids, 0) /\ Speaks(e, d, Ids, 1)
      BY <1>1, <1>4, <1>5, <1>9, <2>1, LighterSpeaks, SaysPlain, Plain
    <2>3. Speaks(c, d, Ids, 0 + 1)
      BY <1>5, <1>9, <2>2, SpeaksTwice
    <2> QED  BY <2>3
  <1> QED  BY <1>5, <1>7, <1>9, <1>10 DEF Sleeps, Hushed, y

(* A handler that only sends leaves the role as it was.                     *)
LEMMA SaysOnly ==
    ASSUME NEW c \in Contexts, NEW r, r = c.role, RoleInv(r), NEW p \in Members(r),
           NEW packet \in ServerPackets,
           \/ p \in Live(r) /\ packet # "Disconnect"
           \/ p \notin Live(r) /\ packet \in Handshake,
           NEW d, d = Emit(c, p, packet)
    PROVE  d \in Contexts /\ d.role = r /\ Yields(r, d.role) /\ Hushed(c, d)
  BY Says, YieldsNothing

(* Whatever an established peer sends has one of the effects.               *)
LEMMA DispatchIn ==
    ASSUME NEW c \in Contexts, NEW r, r = c.role, RoleInv(r), NEW p \in Connected(r),
           NEW packet \in PlainClientPackets, NEW d, d = Dispatch(c, p, packet)
    PROVE  /\ d \in Contexts /\ Effect(r, d.role) /\ Hushed(c, d)
           /\ Said(c.actions, p, ReliablePackets) = 0 => Speaks(c, d, Ids, 1)
  <1>1. CASE d = OnLaunch(c, p)
    BY <1>1, OnLaunchIn
  <1>2. CASE packet.kind = "GameStart" /\ d = OnGameStart(c, p, packet.valid)
    <2>1. packet.valid \in BOOLEAN
      BY <1>2 DEF PlainClientPackets, ReliableClientPackets
    <2> QED  BY <1>2, <2>1, OnGameStartIn
  <1>3. CASE d = Emit([c EXCEPT !.role.peers[p].conn = "Sleeping"], p, "DisconnectAck")
    <2>1. p \in Ids
      BY Subsets
    <2> QED  BY <1>3, <2>1, SleepIn DEF Effect
  <1>4. CASE packet.kind = "ReliableAck" /\ d = OnReliableAck(c, p, packet.exact)
    <2>1. packet.exact \in BOOLEAN
      BY <1>4 DEF PlainClientPackets, ReliableClientPackets
    <2> QED  BY <1>4, <2>1, OnReliableAckIn
  <1>5. CASE d = Emit(c, p, "QueryResponse")
    <2>1. p \in Members(r) /\ p \in Live(r) /\ "QueryResponse" \in ServerPackets
      BY Subsets, LiveSets DEF ServerPackets, RoleInv
    <2>2. Speaks(c, d, Ids, 1)
      BY <1>5, Subsets, SaysPlain, Plain
    <2> QED  BY <1>5, <2>1, <2>2, SaysOnly DEF Effect
  <1>6. CASE d = c
    BY <1>6, YieldsNothing, LighterSelf, LighterSpeaks DEF Effect, Hushed
  <1> QED  BY <1>1, <1>2, <1>3, <1>4, <1>5, <1>6 DEF Dispatch

(* The packets of one lane. *)
InLane(lane, packet) ==
    \/ lane = "plain" /\ packet \in PlainClientPackets
    \/ lane = "next" /\ packet \in ReliableClientPackets
    \/ lane = "stale" /\ packet.kind = "Other"

(* on_packet for an accepted peer, in each of its connection states.        *)
LEMMA PeerPacketIn ==
    ASSUME NEW c \in Contexts, NEW r, r = c.role, RoleInv(r), NEW p \in Accepted(r),
           NEW lane, NEW packet, InLane(lane, packet), NEW d, d = OnPacket(c, p, lane, packet)
    PROVE  /\ d \in Contexts /\ Effect(r, d.role) /\ Hushed(c, d)
           /\ Said(c.actions, p, ReliablePackets) = 0 => Speaks(c, d, Ids, 2)
  <1> DEFINE acked == IF lane = "plain" THEN c ELSE Emit(c, p, "ReliableAck")
  <1>1. /\ r \in Roles /\ p \in Ids /\ p \in Members(r) /\ r.peers[p].syn
        /\ (p \in Connected(r) => p \in Live(r))
        /\ (r.peers[p].conn # "Connected" => p \notin Live(r))
    BY Subsets, LiveSets DEF RoleInv, Accepted
  <1>2. CASE d = RemoveConnected(c, p, "Remote", FALSE)
    BY <1>2, RemoveIn, LighterSpeaks DEF Effect
  <1>3. CASE r.peers[p].conn = "Sleeping" /\ d = Emit(c, p, "DisconnectAck")
    <2>1. "DisconnectAck" \in ServerPackets /\ "DisconnectAck" \in Handshake /\ p \notin Live(r)
      BY <1>1, <1>3 DEF ServerPackets, Handshake
    <2>2. d \in Contexts /\ Speaks(c, d, Ids, 1)
      BY <1>1, <1>3, SaysPlain, Plain
    <2>3. Speaks(c, d, Ids, 2)
      BY <2>2, SpeaksMore
    <2> QED  BY <1>1, <1>3, <2>1, <2>3, SaysOnly DEF Effect
  <1>4. p \in Connected(r) =>
            /\ acked \in Contexts /\ acked.role = r /\ Yields(r, acked.role) /\ Hushed(c, acked)
            /\ Speaks(c, acked, Ids, 1)
            /\ Said(c.actions, p, ReliablePackets) = 0 => Said(acked.actions, p, ReliablePackets) = 0
    <2>1. CASE lane = "plain"
      BY <2>1, YieldsNothing, LighterSelf, LighterSpeaks DEF Hushed
    <2>2. CASE lane # "plain"
      <3>1. "ReliableAck" \in ServerPackets /\ acked = Emit(c, p, "ReliableAck")
        BY <2>2 DEF ServerPackets
      <3> HIDE DEF acked
      <3>2. acked \in Contexts /\ Speaks(c, acked, Ids, 1)
        BY <1>1, <3>1, SaysPlain, Plain
      <3>3. Said(acked.actions, p, ReliablePackets) = Said(c.actions, p, ReliablePackets) + 0
        <4> DEFINE ack == "ReliableAck"
        <4>1. /\ ack \in ServerPackets /\ ack \notin ReliablePackets /\ acked = Emit(c, p, ack)
              /\ c.actions \in Seq(Actions)
          BY <3>1, ContextFields, Plain DEF PlainPackets
        <4> HIDE DEF ack
        <4>2. acked.actions = Append(c.actions, Send(p, ack))
          BY <1>1, <4>1, EmitIn
        <4>3. Said(Append(c.actions, Send(p, ack)), p, ReliablePackets)
                = Said(c.actions, p, ReliablePackets)
                    + (IF p = p /\ ack \in ReliablePackets THEN 1 ELSE 0)
          BY <1>1, <4>1, SaidSend
        <4> QED  BY <4>1, <4>2, <4>3
      <3> QED  BY <1>1, <3>1, <3>2, <3>3, SaysOnly
    <2> QED  BY <2>1, <2>2
  <1>5. CASE p \in Connected(r) /\ d = acked
    <2>1. Speaks(c, d, Ids, 2)
      BY <1>4, <1>5, SpeaksMore
    <2> QED  BY <1>4, <1>5, <2>1 DEF Effect
  <1>6. CASE p \in Connected(r) /\ lane # "stale" /\ d = Dispatch(acked, p, packet)
    <2>1. packet \in PlainClientPackets
      BY <1>6 DEF InLane, PlainClientPackets
    <2> HIDE DEF acked
    <2>2. /\ d \in Contexts /\ Effect(r, d.role) /\ Hushed(acked, d)
          /\ Said(acked.actions, p, ReliablePackets) = 0 => Speaks(acked, d, Ids, 1)
      BY <1>4, <1>6, <2>1, DispatchIn
    <2>3. ASSUME Said(c.actions, p, ReliablePackets) = 0
          PROVE  Speaks(c, d, Ids, 2)
      <3>1. Speaks(c, d, Ids, 1 + 1)
        BY <1>4, <1>6, <2>2, <2>3, SpeaksTwice
      <3> QED  BY <3>1
    <2> QED  BY <1>4, <1>6, <2>2, <2>3 DEF Hushed
  <1>7. CASE d = c
    BY <1>7, YieldsNothing, LighterSelf, LighterSpeaks DEF Effect, Hushed
  <1> QED  BY <1>1, <1>2, <1>3, <1>5, <1>6, <1>7 DEF OnPacket

(* on_packet for a stranger has a stranger's effect.                        *)
LEMMA StrangerPacketIn ==
    ASSUME NEW c \in Contexts, NEW r, r = c.role, RoleInv(r), NEW p \in Members(r) \ Accepted(r),
           NEW lane, NEW packet,
           (lane = "plain" /\ packet \in Syns) \/ InLane(lane, packet),
           NEW d, d = OnPacket(c, p, lane, packet)
    PROVE  d \in Contexts /\ StrangerEffect(r, d.role, p) /\ Hushed(c, d) /\ Speaks(c, d, Ids, 1)
  <1>1. /\ r \in Roles /\ p \in Ids /\ ~r.peers[p].syn /\ p \in Live(r)
        /\ r.peers[p].conn = "Connected" /\ p \notin Connected(r)
    BY StrangerIsLive, Subsets DEF RoleInv, Unknown
  <1>2. CASE packet.kind = "Syn" /\ d = OnSyn(c, p, packet)
    <2>1. packet.kind = "Syn" => packet \in Syns
      <3>1. InLane(lane, packet) => packet.kind # "Syn"
        BY DEF InLane, PlainClientPackets, ReliableClientPackets
      <3> QED  BY <3>1
    <2> QED  BY <1>2, <2>1, OnSynIn
  <1>3. CASE d = Emit(c, p, "QueryResponse")
    <2>1. "QueryResponse" \in ServerPackets
      BY DEF ServerPackets
    <2>2. d \in Contexts /\ d.role = r /\ Hushed(c, d)
      BY <1>1, <1>3, <2>1, SaysOnly
    <2>3. Speaks(c, d, Ids, 1)
      BY <1>1, <1>3, SaysPlain, Plain
    <2> QED  BY <2>2, <2>3 DEF StrangerEffect
  <1>4. CASE d = c
    BY <1>4, LighterSelf, LighterSpeaks DEF StrangerEffect, Hushed
  <1> QED  BY <1>1, <1>2, <1>3, <1>4 DEF OnPacket

(* on_malformed refuses strangers and only answers accepted peers.          *)
LEMMA OnMalformedIn ==
    ASSUME NEW c \in Contexts, NEW r, r = c.role, RoleInv(r), NEW p \in Members(r),
           NEW oldMagic \in BOOLEAN, NEW d, d = OnMalformed(c, p, oldMagic)
    PROVE  /\ d \in Contexts
           /\ p \notin Accepted(r) => StrangerEffect(r, d.role, p) /\ Hushed(c, d)
           /\ p \in Accepted(r) => d.role = r
           /\ ~oldMagic => Hushed(c, d)
           /\ c.actions = << >> => Booked(Members(r), Members(d.role), d.actions)
           /\ Speaks(c, d, Ids, 1)
  <1>1. p \in Ids /\ (r.peers[p].syn <=> p \in Accepted(r))
    BY Subsets DEF Accepted
  <1>5. ASSUME Hushed(c, d), c.actions = << >>
        PROVE  Booked(Members(r), Members(d.role), d.actions)
    <2>1. Fresh(r) = c /\ r \in Roles
      BY <1>5, ContextFields DEF Contexts, Fresh
    <2>2. Quiet(r, d)
      BY <1>5, <2>1, QuietFresh DEF Hushed
    <2> QED  BY <2>2 DEF Quiet
  <1>2. CASE d = c
    <2>1. Hushed(c, d)
      BY <1>2 DEF Hushed
    <2> QED  BY <1>2, <1>5, <2>1, LighterSelf, LighterSpeaks DEF StrangerEffect
  <1>3. CASE oldMagic /\ p \in Accepted(r) /\ d = Emit(c, p, "Rejected")
    <2>1. "Rejected" \in ServerPackets
      BY DEF ServerPackets
    <2> DEFINE packet == "Rejected"
    <2>2. packet \in ServerPackets /\ d = Emit(c, p, packet)
      BY <1>3, <2>1
    <2> HIDE DEF packet
    <2>3. d \in Contexts /\ d.role = r /\ d.actions = Append(c.actions, Send(p, packet))
      BY <1>1, <2>2, EmitIn
    <2>4. ASSUME c.actions = << >> PROVE Booked(Members(r), Members(r), d.actions)
      <3> DEFINE a    == Send(p, packet)
                 M    == Members(r)
                 none == << >>
      <3>1. a \in Actions /\ a.type = "Send" /\ a.peer = p /\ p \in M
        BY <1>1, <2>2, SendIn
      <3>2. none \in Seq(Actions) /\ Booked(M, M, none) /\ c.actions = none
        BY <2>4, BookedNothing
      <3> HIDE DEF a, M, none
      <3>3. Booked(M, M, Append(none, a))
        BY <3>1, <3>2, BookedAppend
      <3> QED  BY <2>3, <3>2, <3>3 DEF a, M
    <2>5. Speaks(c, d, Ids, 1)
      BY <1>1, <1>3, SaysPlain, Plain
    <2> QED  BY <1>3, <2>3, <2>4, <2>5
  <1>4. CASE p \notin Accepted(r) /\ d = Reject(c, p)
    BY <1>4, <1>5, RejectIn DEF StrangerEffect
  <1> QED  BY <1>1, <1>2, <1>3, <1>4 DEF OnMalformed

(* on_leave removes the peer by the path its SYN calls for.                 *)
LEMMA OnLeaveIn ==
    ASSUME NEW c \in Contexts, NEW r, r = c.role, RoleInv(r), NEW p \in Members(r),
           NEW d, d = OnLeave(c, p)
    PROVE  /\ d \in Contexts /\ Hushed(c, d) /\ p \notin Members(d.role)
           /\ p \in Accepted(r) => Yields(r, d.role)
           /\ p \notin Accepted(r) => Refuses(r, d.role, p)
           /\ Lighter(c, d)
  <1>1. p \in Ids /\ (r.peers[p].syn <=> p \in Accepted(r))
    BY Subsets DEF Accepted
  <1>2. CASE p \in Accepted(r)
    BY <1>1, <1>2, RemoveIn DEF OnLeave
  <1>3. CASE p \notin Accepted(r)
    <2> DEFINE farewell == Disconnect(p, "Remote")
    <2>1. farewell \in Actions /\ Ends(farewell, p)
      BY <1>1, FarewellIn
    <2>2. d = Drop(c, p, farewell)
      BY <1>1, <1>3 DEF OnLeave, RemoveUnconnected
    <2> HIDE DEF farewell
    <2>3. d \in Contexts /\ Refuses(r, d.role, p) /\ Hushed(c, d) /\ Lighter(c, d)
      BY <1>3, <2>1, <2>2, DropStranger
    <2>4. p \notin Members(d.role)
      BY <2>3 DEF Refuses, Replaces
    <2> QED  BY <1>3, <2>3, <2>4
  <1> QED  BY <1>2, <1>3

(* on_join admits a member, or counts the failed admission.                 *)
LEMMA OnJoinIn ==
    ASSUME NEW r, RoleInv(r), r.nextOrder # MaxJoins, NEW c, c = Fresh(r),
           NEW p, p = r.nextOrder + 1, NEW goodLabel \in BOOLEAN, NEW d, d = OnJoin(c, p, goodLabel)
    PROVE  /\ d \in Contexts /\ Admits(r, d.role) /\ Polite(r, d.actions)
           /\ Booked(Members(r) \cup {p}, Members(d.role), d.actions)
           /\ Speaks(c, d, Ids, 1)
  <1> DEFINE b == [c EXCEPT !.role.nextOrder = p]
  <1>1. /\ r \in Roles /\ r.nextOrder \in 0..MaxJoins /\ MaxJoins \in Nat
        /\ Members(r) \subseteq 1..r.nextOrder
    BY Constants DEF RoleInv, Roles, Counted
  <1> DEFINE S == Members(r) \cup {p}
  <1>0. /\ c \in Contexts /\ c.role = r /\ c.actions = << >> /\ Polite(r, << >>)
        /\ Booked(S, S, << >>)
    BY <1>1, FreshIn, BookedNothing DEF Polite
  <1>2. p \in Ids /\ p \in 0..MaxJoins /\ p \notin 1..r.nextOrder
    BY <1>1 DEF Ids
  <1>3. p \notin Members(r) /\ r.peers[p] = None
    BY <1>1, <1>2 DEF Members
  <1>4. b \in Contexts /\ b.actions = c.actions /\ b.role = [r EXCEPT !.nextOrder = p]
    BY <1>0, <1>2 DEF Contexts, Roles
  <1> HIDE DEF b
  <1>5. /\ b.role \in Roles /\ b.role.state = r.state /\ b.role.gamemode = r.gamemode
        /\ b.role.settings = r.settings /\ b.role.nextOrder = p /\ b.role.peers = r.peers
    BY <1>1, <1>2, <1>4 DEF Roles
  <1>6. Admitted \in Peer /\ Admitted.conn = "Connected"
    <2>1. NetMaxPlayers \in 0..NetMaxPlayers /\ 0 \in 0..DisconnectSends
      BY Constants
    <2>2. << >> \in Seq(ReliablePackets)
      OBVIOUS
    <2> QED  BY <2>1, <2>2 DEF Admitted, Peer
  <1>7. CASE goodLabel
    <2>1. d = SetPeer(b, p, Admitted)
      BY <1>7 DEF OnJoin, b
    <2>2. d \in Contexts /\ d.actions = c.actions /\ Replaces(b.role, d.role, p, Admitted)
      BY <1>2, <1>4, <1>5, <1>6, <2>1, SetPeerIn, PeerSet
    <2>3. Admits(r, d.role)
      BY <1>2, <1>5, <2>2 DEF Admits, Replaces
    <2>4. Members(d.role) = S
      <3>1. Members(b.role) = Members(r) /\ Admitted # None
        BY <1>5, <1>6, Constants DEF Members
      <3> QED  BY <2>2, <3>1 DEF Replaces
    <2> HIDE DEF S
    <2>5. Polite(r, d.actions) /\ Booked(S, Members(d.role), d.actions)
      BY <1>0, <2>2, <2>4
    <2>6. ASSUME NEW q \in Ids
          PROVE  (Heads(c, q) <= 1 => Heads(d, q) <= 1) /\ Words(d, q) <= Words(c, q) + 1
      <3>1. \A K : Said(d.actions, q, K) = 0 /\ Said(c.actions, q, K) = 0
        BY <1>0, <2>2, SaidNothing
      <3>2. \A t \in BOOLEAN : Bit(t) \in {0, 1}
        BY DEF Bit
      <3> QED  BY <3>1, <3>2 DEF Heads, Words, Bit
    <2> QED  BY <2>2, <2>3, <2>5, <2>6 DEF S, Speaks
  <1>8. CASE ~goodLabel
    <2> DEFINE farewell == Disconnect(p, "MalformedInput")
    <2>1. /\ farewell \in Actions /\ farewell.type = "Disconnect" /\ farewell.peer = p
      BY <1>2, FarewellIn DEF Ends
    <2>2. d = [b EXCEPT !.actions = Append(@, farewell)]
      BY <1>8 DEF OnJoin, b
    <2> HIDE DEF farewell
    <2>3. d \in Contexts /\ d.role = b.role /\ d.actions = Append(c.actions, farewell)
      <3> DEFINE said == Append(c.actions, farewell)
      <3>1. said \in Seq(Actions) /\ d = [b EXCEPT !.actions = said]
        BY <1>0, <1>4, <2>1, <2>2, ContextFields
      <3> HIDE DEF said
      <3>2. d \in Contexts /\ d.role = b.role /\ d.actions = said
        BY <1>4, <3>1 DEF Contexts
      <3> QED  BY <3>2 DEF said
    <2>4. Admits(r, d.role)
      BY <1>2, <1>3, <1>5, <2>3 DEF Admits
    <2>5. Members(d.role) = S \ {p} /\ p \in S
      BY <1>3, <1>5, <2>3 DEF Members
    <2> DEFINE M    == Members(d.role)
               none == << >>
    <2>6. none \in Seq(Actions) /\ Booked(S, S, none) /\ Polite(r, none)
          /\ c.actions = none /\ M = S \ {farewell.peer} /\ farewell.peer \in S
      BY <1>0, <2>1, <2>5
    <2> HIDE DEF S, M, none
    <2>7. Booked(S, M, Append(none, farewell))
      BY <2>1, <2>6, BookedAppend
    <2>8. Polite(r, Append(none, farewell))
      BY <1>1, <2>1, <2>6, PoliteAppend
    <2>9. Speaks(c, d, Ids, 1)
      <3>1. \A q \in Ids : \A K : Said(d.actions, q, K) = Said(c.actions, q, K)
        <4> DEFINE said == c.actions
        <4>1. said \in Seq(Actions) /\ farewell \in Actions /\ farewell.type # "Send"
              /\ d.actions = Append(said, farewell)
          BY <1>0, <2>1, <2>3, ContextFields
        <4> HIDE DEF said
        <4>2. ASSUME NEW q \in Ids, NEW K
              PROVE  Said(d.actions, q, K) = Said(said, q, K)
          <5>1. Said(Append(said, farewell), q, K) = Said(said, q, K)
            BY <4>1, SaidOther
          <5> QED  BY <4>1, <5>1
        <4> QED  BY <4>2 DEF said
      <3>2. \A q \in Ids : /\ Awaits(d.role, q) => Awaits(c.role, q)
                           /\ Endable(d.role, q) => Endable(c.role, q)
        BY <1>0, <1>5, <2>3 DEF Awaits, Endable, Players, Members
      <3>3. Lighter(c, d)
        BY <1>0, <2>3, <3>1, <3>2, LighterRole
      <3> QED  BY <1>0, <2>3, <3>3, LighterSpeaks
    <2> QED  BY <2>3, <2>4, <2>6, <2>7, <2>8, <2>9 DEF M, S
  <1> QED  BY <1>7, <1>8

-----------------------------------------------------------------------------
(* The timer.                                                               *)

(* A DISCONNECT retry sends again, or removes the peer.                     *)
LEMMA RetryDisconnectIn ==
    ASSUME NEW c \in Contexts, NEW r, r = c.role, RoleInv(r), NEW p \in Accepted(r),
           r.peers[p].conn # "Connected", NEW d, d = RetryDisconnect(c, p)
    PROVE  d \in Contexts /\ Yields(r, d.role) /\ Hushed(c, d) /\ Speaks(c, d, {p}, 1)
  <1> DEFINE x == r.peers[p]
             n == x.sends + 1
             y == [r.peers[p] EXCEPT !.sends = n]
             e == [c EXCEPT !.role.peers[p].sends = @ + 1]
  <1>1. /\ r \in Roles /\ Orderly(r) /\ p \in Ids /\ p \in Members(r) /\ x \in Peer
        /\ p \notin Live(r)
    BY Subsets, MemberIsPeer, LiveSets DEF RoleInv
  <1>2. CASE d = RemoveConnected(c, p, "GameEnded", FALSE)
    BY <1>2, RemoveIn, LighterSpeaks
  <1>3. CASE x.sends < DisconnectSends /\ d = Emit(e, p, "Disconnect")
    <2>1. n \in 0..DisconnectSends
      <3>1. x.sends \in 0..DisconnectSends /\ DisconnectSends \in Nat
        BY <1>1, Constants DEF Peer
      <3> QED  BY <1>3, <3>1
    <2>2. e = SetPeer(c, p, y)
      BY DEF SetPeer
    <2> HIDE DEF n
    <2>3. y \in Peer /\ Same(x, y) /\ y.outbox = x.outbox
      BY <1>1, <2>1 DEF Peer, Same
    <2>4. Len(y.outbox) <= ReliableCap
      BY <1>1, <2>3 DEF Orderly
    <2> HIDE DEF e, y
    <2>5. Touches(c, e, p, y)
      BY <1>1, <2>2, <2>3, <2>4, PeerTouched
    <2>6. /\ e \in Contexts /\ Yields(r, e.role) /\ Live(e.role) = Live(r) /\ Hushed(c, e)
          /\ p \in Members(e.role)
      BY <1>1, <2>5 DEF Touches
    <2>7. "Disconnect" \in ServerPackets /\ "Disconnect" \in Handshake
      BY DEF ServerPackets, Handshake
    <2>8. d \in Contexts /\ d.role = e.role /\ Hushed(e, d)
      BY <1>1, <1>3, <2>6, <2>7, Says
    <2>9. Speaks(c, d, {p}, 1)
      <3>1. Replaces(r, e.role, p, y) /\ e.actions = c.actions
        BY <1>1, <2>2, <2>3, SetPeerIn, PeerSet
      <3>2. y.conn = x.conn /\ (IsPlayer(x) => IsPlayer(y))
        BY <2>3 DEF Same, IsPlayer
      <3>3. Lighter(c, e)
        BY <1>1, <2>3, <2>6, <3>1, <3>2, ReplacedLighter
      <3>4. Speaks(c, e, {p}, 0) /\ Speaks(e, d, {p}, 1)
        BY <1>1, <1>3, <2>6, <3>3, LighterSpeaks, SaysPlain, Plain
      <3>5. Speaks(c, d, {p}, 0 + 1)
        BY <2>6, <2>8, <3>4, SpeaksTwice
      <3> QED  BY <3>5
    <2> QED  BY <2>6, <2>8, <2>9 DEF Hushed
  <1> QED  BY <1>2, <1>3 DEF RetryDisconnect

(* A head retry sends at most one packet to a connected peer.               *)
LEMMA RetryHeadIn ==
    ASSUME NEW c \in Contexts, NEW r, r = c.role, RoleInv(r), NEW p \in Connected(r),
           NEW box \in Seq(ReliablePackets), NEW d, d = RetryHead(c, p, box)
    PROVE  /\ d \in Contexts /\ d.role = r /\ Hushed(c, d)
           /\ box = r.peers[p].outbox => Speaks(c, d, {p}, 0)
  <1>1. CASE d = c
    BY <1>1, LighterSelf, LighterSpeaks DEF Hushed
  <1>2. CASE /\ box # << >> /\ d = Emit(c, p, Head(box))
             /\ ~SentTo(c, p, ReliablePackets)
    <2> DEFINE head == Head(box)
    <2>1. head \in ReliablePackets
      BY <1>2
    <2>2. head \in ServerPackets /\ head # "Disconnect"
      BY <2>1 DEF ServerPackets, ReliablePackets
    <2>3. p \in Members(r) /\ p \in Live(r)
      BY Subsets, LiveSets DEF RoleInv
    <2>4. d = Emit(c, p, head)
      BY <1>2
    <2> HIDE DEF head
    <2>5. ASSUME box = r.peers[p].outbox, NEW q \in Ids
          PROVE  /\ Heads(c, q) <= 1 => Heads(d, q) <= 1
                 /\ Words(d, q) <= Words(c, q) + (IF q \in {p} THEN 0 ELSE 0)
      <3>1. p \in Ids /\ d.role = r /\ d.actions = Append(c.actions, Send(p, head))
        BY <2>2, <2>3, <2>4, Subsets, EmitIn
      <3>2. /\ Said(d.actions, q, ReliablePackets)
                 = Said(c.actions, q, ReliablePackets) + (IF q = p THEN 1 ELSE 0)
            /\ Said(d.actions, q, PlainPackets) = Said(c.actions, q, PlainPackets) + 0
        <4>1. head \notin PlainPackets /\ c.actions \in Seq(Actions)
          BY <2>1, ContextFields DEF PlainPackets, head
        <4> QED  BY <2>1, <2>2, <3>1, <4>1, SaidSend DEF head
      <3>3. /\ Said(c.actions, q, ReliablePackets) \in Nat
            /\ Said(c.actions, q, PlainPackets) \in Nat
            /\ Heads(c, q) \in Nat /\ Words(c, q) \in Nat
        BY CountsIn
      <3>4. Words(d, q) = Words(c, q)
        BY <3>1, <3>2, <3>3 DEF Words
      <3>5. CASE q = p
        <4>1. Said(c.actions, p, ReliablePackets) = 0
          <5>1. {i \in DOMAIN c.actions : c.actions[i].type = "Send" /\ c.actions[i].peer = p
                                          /\ c.actions[i].packet \in ReliablePackets} = {}
            BY <1>2 DEF SentTo
          <5> QED  BY <5>1, FS_EmptySet DEF Said
        <4>2. ~Awaits(r, p)
          BY <1>2, <2>5 DEF Awaits
        <4>3. Heads(d, q) = 1
          BY <3>1, <3>2, <3>5, <4>1, <4>2 DEF Heads, Bit
        <4> QED  BY <3>3, <3>4, <4>3
      <3>6. CASE q # p
        <4>1. Heads(d, q) = Heads(c, q)
          BY <3>1, <3>2, <3>3, <3>6 DEF Heads
        <4> QED  BY <3>3, <3>4, <4>1
      <3> QED  BY <3>5, <3>6
    <2>6. box = r.peers[p].outbox => Speaks(c, d, {p}, 0)
      BY <2>5 DEF Speaks
    <2> QED  BY <2>2, <2>3, <2>4, <2>6, SaysOnly
  <1> QED  BY <1>1, <1>2 DEF RetryHead

(* One peer's turn in a timer pass is a shedding.                           *)
LEMMA VisitIn ==
    ASSUME NEW c \in Contexts, NEW r, r = c.role, RoleInv(r), NEW p \in Accepted(r),
           NEW expired, NEW idle, NEW d, d = VisitPeer(c, p, expired, idle)
    PROVE  /\ d \in Contexts /\ Yields(r, d.role) /\ Hushed(c, d)
           /\ Speaks(c, d, {p}, 2)
           /\ r.state # "WaitingLaunch" \/ p \notin Connected(r) => Speaks(c, d, {p}, 1)
  <1> DEFINE touched == \E i \in DOMAIN c.actions :
                            c.actions[i].type = "Send" /\ c.actions[i].peer = p
             alive   == IF touched THEN c ELSE Emit(c, p, "Keepalive")
             retried == RetryHead(alive, p, r.peers[p].outbox)
             waiting == Emit(retried, p, "WaitingData")
  <1>1. CASE r.peers[p].conn # "Connected" /\ d = RetryDisconnect(c, p)
    <2>1. d \in Contexts /\ Yields(r, d.role) /\ Hushed(c, d) /\ Speaks(c, d, {p}, 1)
      BY <1>1, RetryDisconnectIn
    <2> QED  BY <2>1, SpeaksMore
  <1>2. CASE \/ d = RemoveConnected(c, p, "Remote", FALSE)
             \/ d = RemoveConnected(c, p, "Timeout", TRUE)
    BY <1>2, RemoveIn, LighterSpeaks
  <1>3. CASE d = c
    BY <1>3, YieldsNothing, LighterSelf, LighterSpeaks DEF Hushed
  <1>4. CASE /\ r.peers[p].conn = "Connected"
             /\ (d = waiting /\ r.state = "WaitingLaunch") \/ d = retried
    <2>1. /\ p \in Connected(r) /\ p \in Members(r) /\ p \in Live(r)
          /\ r.peers[p].outbox \in Seq(ReliablePackets)
      BY <1>4, Subsets, MemberIsPeer, LiveSets DEF Connected, Accepted, RoleInv
    <2>2. alive \in Contexts /\ alive.role = r /\ Hushed(c, alive) /\ Speaks(c, alive, {p}, 1)
      <3>1. CASE alive = c
        BY <3>1, LighterSelf, LighterSpeaks DEF Hushed
      <3>2. CASE alive = Emit(c, p, "Keepalive")
        <4>1. "Keepalive" \in ServerPackets
          BY DEF ServerPackets
        <4> HIDE DEF alive
        <4>2. Speaks(c, alive, {p}, 1)
          BY <2>1, <3>2, Subsets, SaysPlain, Plain
        <4> QED  BY <2>1, <3>2, <4>1, <4>2, SaysOnly
      <3> QED  BY <3>1, <3>2
    <2> HIDE DEF alive
    <2>3. /\ retried \in Contexts /\ retried.role = r /\ Hushed(alive, retried)
          /\ Speaks(alive, retried, {p}, 0)
      BY <2>1, <2>2, RetryHeadIn
    <2> HIDE DEF retried
    <2>4. /\ waiting \in Contexts /\ waiting.role = r /\ Hushed(retried, waiting)
          /\ Speaks(retried, waiting, {p}, 1)
      <3>1. "WaitingData" \in ServerPackets
        BY DEF ServerPackets
      <3>2. Speaks(retried, waiting, {p}, 1)
        BY <2>1, <2>3, Subsets, SaysPlain, Plain
      <3> QED  BY <2>1, <2>3, <3>1, <3>2, SaysOnly
    <2>5. Speaks(c, retried, {p}, 1) /\ Speaks(c, retried, {p}, 2) /\ Speaks(c, waiting, {p}, 2)
      <3>1. Speaks(c, retried, {p}, 1 + 0)
        BY <2>2, <2>3, SpeaksTwice
      <3>2. Speaks(c, retried, {p}, 1)
        BY <3>1
      <3>3. Speaks(c, waiting, {p}, 1 + 1)
        BY <2>3, <2>4, <3>2, SpeaksTwice
      <3> QED  BY <2>3, <3>2, <3>3, SpeaksMore
    <2> HIDE DEF waiting
    <2> QED  BY <1>4, <2>1, <2>2, <2>3, <2>4, <2>5, YieldsNothing DEF Hushed
  <1> HIDE DEF touched
  <1>5. CASE /\ ~(r.peers[p].conn = "Disconnecting" /\ p \in expired
                  /\ ~SentTo(c, p, {"Disconnect"}))
             /\ ~(r.peers[p].conn = "Sleeping" /\ p \in expired)
             /\ ~(r.peers[p].conn = "Connected" /\ p \in expired)
             /\ r.peers[p].conn = "Connected" /\ p \in idle \ expired
    <2>1. (d = waiting /\ r.state = "WaitingLaunch") \/ d = retried
      BY <1>5 DEF VisitPeer, touched
    <2> QED  BY <1>4, <1>5, <2>1
  <1> DEFINE Visited == /\ d \in Contexts /\ Yields(r, d.role) /\ Hushed(c, d)
                        /\ Speaks(c, d, {p}, 2)
                        /\ r.state # "WaitingLaunch" \/ p \notin Connected(r)
                             => Speaks(c, d, {p}, 1)
  <1>6. /\ r.peers[p].conn # "Connected" /\ d = RetryDisconnect(c, p) => Visited
        /\ d = RemoveConnected(c, p, "Remote", FALSE) => Visited
        /\ d = RemoveConnected(c, p, "Timeout", TRUE) => Visited
        /\ d = c => Visited
    BY <1>1, <1>2, <1>3
  <1>7. ASSUME ~(r.peers[p].conn = "Disconnecting" /\ p \in expired
                 /\ ~SentTo(c, p, {"Disconnect"})),
               ~(r.peers[p].conn = "Sleeping" /\ p \in expired),
               ~(r.peers[p].conn = "Connected" /\ p \in expired),
               r.peers[p].conn = "Connected" /\ p \in idle \ expired
        PROVE  Visited
    BY <1>5, <1>7
  <1> HIDE DEF Visited
  <1>8. Visited
    BY <1>6, <1>7 DEF VisitPeer
  <1> QED  BY <1>8 DEF Visited

(* Two turns in a row are one shedding.                                     *)
LEMMA YieldsTwice ==
    ASSUME NEW r, RoleInv(r), NEW s, NEW t, Yields(r, s), Yields(s, t)
    PROVE  Yields(r, t) /\ RoleInv(s)
  <1>1. r \in Roles
    BY DEF RoleInv
  <1> QED  BY <1>1, LosesTwice, LosesKeepsInv DEF Yields

(* A whole timer pass is one shedding.                                      *)
LEMMA OnTimerIn ==
    ASSUME NEW c \in Contexts, NEW r, r = c.role, RoleInv(r), NEW expired, NEW idle,
           NEW d, d = OnTimer(c, expired, idle)
    PROVE  /\ d \in Contexts /\ Yields(r, d.role) /\ Hushed(c, d)
           /\ Speaks(c, d, Ids, IF r.state = "InGame" THEN 1 ELSE 2)
  <1> DEFINE S    == TimerPeers(r)
             k    == IF r.state = "InGame" THEN 1 ELSE 2
             Done(i) == {p \in S : \E j \in 1..i : r.peers[p].slot = j - 1}
             H    == [i \in 0..MaxNodes |-> {acc \in Contexts :
                         Yields(r, acc.role) /\ Speaks(c, acc, Done(i), k)}]
             turn(i, acc) ==
                 LET here == AtSlot(r, S, i)
                 IN  IF here \cap Members(acc.role) = {} THEN acc
                     ELSE VisitPeer(acc, Least(here), expired, idle)
             step == [i \in 1..MaxNodes |-> [acc \in Contexts |-> turn(i, acc)]]
             G    == {acc \in Contexts : Yields(r, acc.role) /\ Hushed(c, acc)}
  <1>1. d = Loop(MaxNodes, step, c)
    BY DEF OnTimer
  <1>2. \A i \in 1..MaxNodes : \A acc \in Contexts : step[i][acc] = turn(i, acc)
    OBVIOUS
  <1>3. S \in SUBSET Accepted(r) /\ r \in Roles /\ Orderly(r)
    BY DEF TimerPeers, RoleInv
  <1>8. \A i \in 0..MaxNodes : \A acc : acc \in H[i] <=>
             acc \in Contexts /\ Yields(r, acc.role) /\ Speaks(c, acc, Done(i), k)
    OBVIOUS
  <1>9. k \in Nat
    OBVIOUS
  <1> HIDE DEF step, S, H
  <1>4. c \in G
    BY YieldsNothing DEF Hushed
  <1>5. ASSUME NEW i \in 1..MaxNodes, NEW acc \in G PROVE step[i][acc] \in G
    <2> DEFINE here == AtSlot(r, S, i)
               p    == Least(here)
               e    == VisitPeer(acc, p, expired, idle)
    <2>1. acc \in Contexts /\ Yields(r, acc.role) /\ Hushed(c, acc) /\ step[i][acc] = turn(i, acc)
      BY <1>2
    <2>2. turn(i, acc) = IF here \cap Members(acc.role) = {} THEN acc ELSE e
      OBVIOUS
    <2>3. CASE here \cap Members(acc.role) = {}
      BY <2>1, <2>2, <2>3
    <2>4. CASE here \cap Members(acc.role) # {}
      <3>1. p \in here /\ here \subseteq S /\ \A q \in here : p = q
        BY <1>3, <2>4, TurnServes
      <3> HIDE DEF p, here
      <3>2. p \in Members(acc.role) /\ p \in Accepted(r)
        BY <1>3, <2>4, <3>1
      <3>3. RoleInv(acc.role) /\ p \in Accepted(acc.role)
        BY <1>3, <2>1, <3>2, LosesMembers, LosesKeepsInv DEF Yields
      <3>4. e \in Contexts /\ Yields(acc.role, e.role) /\ Hushed(acc, e)
        BY <2>1, <3>3, VisitIn
      <3> HIDE DEF e
      <3>5. Yields(r, e.role)
        BY <2>1, <3>4, YieldsTwice
      <3>6. Hushed(c, e)
        BY <2>1, <3>4 DEF Hushed
      <3> QED  BY <2>1, <2>2, <2>4, <3>4, <3>5, <3>6
    <2> QED  BY <2>3, <2>4
  <1>6. MaxNodes \in Nat
    BY Constants
  <1> HIDE DEF G
  <1>7. d \in G
    BY <1>1, <1>4, <1>5, <1>6, LoopKeeps
  <1>10. /\ 0 \in 0..MaxNodes /\ MaxNodes \in 0..MaxNodes
         /\ \A i \in 1..MaxNodes : i \in 0..MaxNodes /\ i - 1 \in 0..MaxNodes
    BY <1>6
  <1>11. c \in H[0]
    <2>1. Speaks(c, c, Done(0), k) /\ Yields(r, c.role)
      BY <1>9, LighterSelf, LighterSpeaks, YieldsNothing
    <2> QED  BY <1>8, <1>10, <2>1
  <1>12. ASSUME NEW i \in 1..MaxNodes, NEW acc \in H[i - 1] PROVE step[i][acc] \in H[i]
    <2> DEFINE here == AtSlot(r, S, i)
               p    == Least(here)
               e    == VisitPeer(acc, p, expired, idle)
    <2>1. /\ acc \in Contexts /\ Yields(r, acc.role) /\ Speaks(c, acc, Done(i - 1), k)
          /\ step[i][acc] = turn(i, acc)
      BY <1>2, <1>8, <1>10
    <2>2. turn(i, acc) = IF here \cap Members(acc.role) = {} THEN acc ELSE e
      OBVIOUS
    <2>3. Done(i - 1) \subseteq Done(i)
      BY <1>6
    <2>4. CASE here \cap Members(acc.role) = {}
      <3>1. Speaks(c, acc, Done(i), k)
        <4>1. Done(i - 1) \cap Ids \subseteq Done(i) /\ k <= k
          BY <1>9, <2>3
        <4> HIDE DEF Done, k
        <4> QED  BY <1>9, <2>1, <4>1, SpeaksMore
      <3> QED  BY <1>8, <1>10, <2>1, <2>2, <2>4, <3>1
    <2>5. CASE here \cap Members(acc.role) # {}
      <3>1. p \in here /\ here \subseteq S /\ \A q \in here : p = q
        BY <1>3, <2>5, TurnServes
      <3>2. p \in S /\ r.peers[p].slot = i - 1
        BY <3>1 DEF AtSlot
      <3> HIDE DEF p, here
      <3>3. p \in Members(acc.role) /\ p \in Accepted(r) /\ p \in Ids
        BY <1>3, <2>5, <3>1, Subsets
      <3>4. RoleInv(acc.role) /\ p \in Accepted(acc.role)
        BY <1>3, <2>1, <3>3, LosesMembers, LosesKeepsInv DEF Yields
      <3>5. /\ e \in Contexts /\ Yields(acc.role, e.role) /\ Speaks(acc, e, {p}, 2)
            /\ acc.role.state # "WaitingLaunch" \/ p \notin Connected(acc.role)
                 => Speaks(acc, e, {p}, 1)
        BY <2>1, <3>4, VisitIn
      <3> HIDE DEF e
      <3>6. Yields(r, e.role)
        BY <2>1, <3>5, YieldsTwice
      <3>7. r.state = "InGame" =>
               acc.role.state # "WaitingLaunch" \/ p \notin Connected(acc.role)
        <4>1. CASE Kept(r, acc.role)
          BY <4>1 DEF Kept
        <4>2. CASE Over(r, acc.role)
          <5>1. acc.role.peers[p].conn # "Connected"
            BY <3>3, <4>2 DEF Over, Closed
          <5> QED  BY <5>1 DEF Connected
        <4> QED  BY <2>1, <4>1, <4>2 DEF Yields, Loses
      <3>8. Speaks(acc, e, {p}, k)
        BY <3>5, <3>7
      <3>9. Done(i - 1) \cap {p} = {} /\ (Done(i - 1) \cup {p}) \cap Ids \subseteq Done(i)
        <4>1. \A j \in 1..(i - 1) : j - 1 # i - 1
          BY <1>6
        <4>2. i \in 1..i
          BY <1>6
        <4> QED  BY <2>3, <3>2, <4>1, <4>2
      <3>10. Speaks(c, e, Done(i), k)
        <4> DEFINE D == Done(i - 1)
                   E == Done(i)
        <4>1. D \cap {p} = {} /\ (D \cup {p}) \cap Ids \subseteq E /\ k <= k
              /\ Speaks(c, acc, D, k)
          BY <1>9, <2>1, <3>9
        <4> HIDE DEF D, E, k
        <4>2. Speaks(c, e, D \cup {p}, k)
          BY <1>9, <2>1, <3>5, <3>8, <4>1, SpeaksApart
        <4>3. Speaks(c, e, E, k)
          BY <1>9, <3>5, <4>1, <4>2, SpeaksMore
        <4> QED  BY <4>3 DEF E
      <3> QED  BY <1>8, <1>10, <2>1, <2>2, <2>5, <3>5, <3>6, <3>10
    <2> QED  BY <2>4, <2>5
  <1>13. d \in H[MaxNodes]
    BY <1>1, <1>6, <1>11, <1>12, LoopRule
  <1>14. d \in Contexts /\ Speaks(c, d, Done(MaxNodes), k)
    BY <1>8, <1>10, <1>13
  <1>15. Done(MaxNodes) \cap Ids \subseteq Ids /\ k <= k
    BY <1>9
  <1>16. Speaks(c, d, Ids, k)
    <2> HIDE DEF Done, k
    <2> QED  BY <1>9, <1>14, <1>15, SpeaksMore
  <1> QED  BY <1>7, <1>16 DEF G

-----------------------------------------------------------------------------
(* Every input.                                                             *)

(* Every effect keeps the invariant, and every frozen index within a game.  *)
LEMMA EffectInv ==
    ASSUME NEW r, RoleInv(r), NEW s, Effect(r, s)
    PROVE  RoleInv(s) /\ Frozen(r, s)
  <1>1. CASE Yields(r, s)
    BY <1>1, LosesKeepsInv DEF Yields
  <1>2. CASE Admits(r, s) /\ Cardinality(Members(r)) # MaxPeers
    BY <1>2, AdmitsInv
  <1>3. CASE \E p \in Ids : Refuses(r, s, p) \/ Enrolls(r, s, p) \/ Sleeps(r, s, p)
    BY <1>3, RefusesInv, EnrollsInv, SleepsInv
  <1>4. CASE Launches(r, s)
    BY <1>4, LaunchesInv
  <1>5. CASE \E p \in Ids : GameStarts(r, s, p)
    BY <1>5, GameStartsInv
  <1> QED  BY <1>1, <1>2, <1>3, <1>4, <1>5 DEF Effect

(* A stranger's effect is an effect.                                        *)
LEMMA StrangerHasEffect ==
    ASSUME NEW r, RoleInv(r), NEW s, NEW p \in Members(r), StrangerEffect(r, s, p)
    PROVE  Effect(r, s)
  <1>1. p \in Ids
    BY Subsets
  <1> QED  BY <1>1, YieldsNothing DEF StrangerEffect, Effect

(* What one input does: to the role, and to whom the role speaks. *)
Handled(r, d) == d \in Contexts /\ Effect(r, d.role) /\ Quiet(r, d)

(* What stays quiet from a fresh context is quiet.                          *)
LEMMA FreshOf ==
    ASSUME NEW r, RoleInv(r), NEW d, Hushed(Fresh(r), d)
    PROVE  Quiet(r, d)
  BY QuietFresh DEF RoleInv, Hushed

(* handle starts from a fresh context of the role.                          *)
LEMMA FreshContext ==
    ASSUME NEW r, RoleInv(r)
    PROVE  Fresh(r) \in Contexts /\ r = Fresh(r).role
  BY FreshIn DEF RoleInv

(* Every Join input: the new member comes besides those there are.          *)
LEMMA JoinIn ==
    ASSUME NEW r, RoleInv(r), NEW input \in JoinInputs(r), NEW d, d = Handle(r, input)
    PROVE  /\ d \in Contexts /\ Effect(r, d.role) /\ Polite(r, d.actions)
           /\ Booked(Members(r) \cup {input.peer}, Members(d.role), d.actions)
  <1> DEFINE c == Fresh(r)
             p == r.nextOrder + 1
  <1>1. /\ input.type = "Join" /\ input.peer = p /\ input.goodLabel \in BOOLEAN
        /\ r.nextOrder # MaxJoins /\ Cardinality(Members(r)) # MaxPeers
    BY DEF JoinInputs
  <1>2. d = OnJoin(c, p, input.goodLabel)
    BY <1>1 DEF Handle
  <1> HIDE DEF p, c
  <1>3. /\ d \in Contexts /\ Admits(r, d.role) /\ Polite(r, d.actions)
        /\ Booked(Members(r) \cup {p}, Members(d.role), d.actions)
    BY <1>1, <1>2, OnJoinIn DEF c, p
  <1> QED  BY <1>1, <1>3 DEF Effect

(* Every Leave input.                                                       *)
LEMMA LeaveIn ==
    ASSUME NEW r, RoleInv(r), NEW input \in LeaveInputs(r), NEW d, d = Handle(r, input)
    PROVE  /\ Handled(r, d) /\ input.peer \notin Members(d.role)
           /\ input.peer \in Members(r) /\ (input.peer \notin Accepted(r) =>
                StrangerEffect(r, d.role, input.peer))
  <1> DEFINE c == Fresh(r)
             p == input.peer
  <1>1. input.type = "Leave" /\ p \in Members(r)
    BY DEF LeaveInputs
  <1>2. d = OnLeave(c, p)
    BY <1>1 DEF Handle
  <1>3. c \in Contexts /\ r = c.role
    BY FreshContext
  <1> HIDE DEF c, p
  <1>4. /\ d \in Contexts /\ Hushed(c, d) /\ p \notin Members(d.role)
        /\ p \in Accepted(r) => Yields(r, d.role)
        /\ p \notin Accepted(r) => Refuses(r, d.role, p)
    BY <1>1, <1>2, <1>3, OnLeaveIn
  <1>5. Quiet(r, d)
    BY <1>4, FreshOf DEF c
  <1>6. p \notin Accepted(r) => StrangerEffect(r, d.role, p)
    BY <1>4 DEF StrangerEffect
  <1>7. Effect(r, d.role)
    BY <1>1, <1>4, <1>6, StrangerHasEffect DEF Effect
  <1> QED  BY <1>1, <1>4, <1>5, <1>6, <1>7 DEF Handled, p

(* What a Packet input can carry.                                           *)
LEMMA PacketFields ==
    ASSUME NEW r, NEW input \in PacketInputs(r)
    PROVE  /\ input.type = "Packet" /\ input.peer \in Members(r)
           /\ \/ /\ input.lane = "plain" /\ input.packet \in Syns
                 /\ input.peer \in Members(r) \ Accepted(r)
              \/ InLane(input.lane, input.packet)
  <1> DEFINE Packets(members, lane, packets) ==
                 [type : {"Packet"}, peer : members, lane : {lane}, packet : packets]
  <1>1. CASE input \in Packets(Members(r) \ Accepted(r), "plain", Syns)
    BY <1>1
  <1>2. CASE input \in Packets(Members(r), "plain", PlainClientPackets)
    BY <1>2 DEF InLane
  <1>3. CASE input \in Packets(Members(r), "next", ReliableClientPackets)
    BY <1>3 DEF InLane
  <1>4. CASE input \in Packets(Members(r), "stale", [kind : {"Other"}])
    BY <1>4 DEF InLane
  <1> QED  BY <1>1, <1>2, <1>3, <1>4 DEF PacketInputs

(* Every Packet input.                                                      *)
LEMMA PacketIn ==
    ASSUME NEW r, RoleInv(r), NEW input \in PacketInputs(r), NEW d, d = Handle(r, input)
    PROVE  /\ Handled(r, d)
           /\ input.peer \in Members(r) /\ (input.peer \notin Accepted(r) =>
                StrangerEffect(r, d.role, input.peer))
  <1> DEFINE c      == Fresh(r)
             p      == input.peer
             lane   == input.lane
             packet == input.packet
  <1>1. /\ input.type = "Packet" /\ p \in Members(r)
        /\ \/ lane = "plain" /\ packet \in Syns /\ p \in Members(r) \ Accepted(r)
           \/ InLane(lane, packet)
    BY PacketFields
  <1>2. d = OnPacket(c, p, lane, packet)
    BY <1>1 DEF Handle
  <1>3. c \in Contexts /\ r = c.role
    BY FreshContext
  <1> HIDE DEF c, p, lane, packet
  <1>4. CASE p \in Accepted(r)
    <2>1. d \in Contexts /\ Effect(r, d.role) /\ Hushed(c, d)
      BY <1>1, <1>2, <1>3, <1>4, PeerPacketIn
    <2>2. Quiet(r, d)
      BY <2>1, FreshOf DEF c
    <2> QED  BY <1>1, <1>4, <2>1, <2>2 DEF Handled, p
  <1>5. CASE p \notin Accepted(r)
    <2>1. d \in Contexts /\ StrangerEffect(r, d.role, p) /\ Hushed(c, d)
      BY <1>1, <1>2, <1>3, <1>5, StrangerPacketIn
    <2>2. Quiet(r, d)
      BY <2>1, FreshOf DEF c
    <2>3. Effect(r, d.role)
      BY <1>1, <2>1, StrangerHasEffect
    <2> QED  BY <1>1, <2>1, <2>2, <2>3 DEF Handled, p
  <1> QED  BY <1>4, <1>5

(* Every Malformed input; only the old SYN may be answered to a draining    *)
(* peer.                                                                    *)
LEMMA MalformedIn ==
    ASSUME NEW r, RoleInv(r), NEW input \in MalformedInputs(r), NEW d, d = Handle(r, input)
    PROVE  /\ d \in Contexts /\ Effect(r, d.role) /\ (~input.oldMagic => Quiet(r, d))
           /\ Booked(Members(r), Members(d.role), d.actions)
           /\ input.peer \in Members(r) /\ (input.peer \notin Accepted(r) =>
                StrangerEffect(r, d.role, input.peer))
  <1> DEFINE c   == Fresh(r)
             p   == input.peer
             old == input.oldMagic
  <1>1. input.type = "Malformed" /\ p \in Members(r) /\ old \in BOOLEAN
    BY DEF MalformedInputs
  <1>2. d = OnMalformed(c, p, old)
    BY <1>1 DEF Handle
  <1>3. c \in Contexts /\ r = c.role
    BY FreshContext
  <1> HIDE DEF c, p, old
  <1>4. /\ d \in Contexts
        /\ p \notin Accepted(r) => StrangerEffect(r, d.role, p) /\ Hushed(c, d)
        /\ p \in Accepted(r) => d.role = r
        /\ ~old => Hushed(c, d)
        /\ c.actions = << >> => Booked(Members(r), Members(d.role), d.actions)
    BY <1>1, <1>2, <1>3, OnMalformedIn
  <1>5. Effect(r, d.role)
    BY <1>1, <1>4, StrangerHasEffect, YieldsNothing DEF Effect
  <1>6. ~old => Quiet(r, d)
    BY <1>4, FreshOf DEF c
  <1>7. c.actions = << >>
    BY FreshIn DEF c, RoleInv
  <1> QED  BY <1>1, <1>4, <1>5, <1>6, <1>7 DEF p, old

(* Every Timer input.                                                       *)
LEMMA TimerIn ==
    ASSUME NEW r, RoleInv(r), NEW input \in TimerInputs(r)
    PROVE  Handled(r, Handle(r, input))
  <1> DEFINE c == Fresh(r)
             d == Handle(r, input)
  <1>1. input.type = "Timer"
    BY DEF TimerInputs
  <1>2. d = OnTimer(c, input.expired, input.idle)
    BY <1>1 DEF Handle
  <1>3. c \in Contexts /\ r = c.role
    BY FreshContext
  <1> HIDE DEF c, d
  <1>4. d \in Contexts /\ Yields(r, d.role) /\ Hushed(c, d)
    BY <1>2, <1>3, OnTimerIn
  <1>5. Quiet(r, d)
    BY <1>4, FreshOf DEF c
  <1> QED  BY <1>4, <1>5 DEF Handled, Effect, d

(* Every step of the role has one of the effects.                           *)
LEMMA StepHasEffect ==
    ASSUME RoleInv(role), Next
    PROVE  Effect(role, role')
  <1>1. CASE Join
    BY <1>1, JoinIn DEF Join, Feed
  <1>2. CASE Leave
    BY <1>2, LeaveIn DEF Leave, Feed, Handled
  <1>3. CASE Packet
    BY <1>3, PacketIn DEF Packet, Feed, Handled
  <1>4. CASE Malformed
    BY <1>4, MalformedIn DEF Malformed, Feed
  <1>5. CASE Timer
    BY <1>5, TimerIn DEF Timer, Feed, Handled
  <1> QED  BY <1>1, <1>2, <1>3, <1>4, <1>5 DEF Next

(* The members the room host has registered when it feeds the input. *)
Audience(r, input) == Members(r) \cup (IF input.type = "Join" THEN {input.peer} ELSE {})

(* What the host may count on, whatever the input: the invariant, and the   *)
(* books of the batch; a Leave leaves nothing of its peer.                  *)
LEMMA HandleIn ==
    ASSUME NEW r, RoleInv(r), NEW input \in Inputs(r), NEW d, d = Handle(r, input)
    PROVE  /\ d \in Contexts /\ RoleInv(d.role)
           /\ Booked(Audience(r, input), Members(d.role), d.actions)
           /\ input.type = "Leave" => input.peer \notin Members(d.role)
           /\ Audience(r, input) \subseteq Ids
           /\ input.type = "Join" => input.peer \in Ids \ Members(r)
  <1>1. CASE input \in JoinInputs(r)
    <2>1. input.type = "Join" /\ input.peer = r.nextOrder + 1 /\ r.nextOrder # MaxJoins
      BY <1>1 DEF JoinInputs
    <2>2. r.nextOrder + 1 \in Ids /\ r.nextOrder + 1 \notin Members(r)
      <3>1. r.nextOrder \in 0..MaxJoins /\ MaxJoins \in Nat /\ Members(r) \subseteq 1..r.nextOrder
        BY Constants DEF RoleInv, Roles, Counted
      <3>2. r.nextOrder + 1 \in 1..MaxJoins /\ r.nextOrder + 1 \notin 1..r.nextOrder
        BY <2>1, <3>1
      <3> QED  BY <3>1, <3>2 DEF Ids
    <2>3. Audience(r, input) = Members(r) \cup {input.peer}
      BY <2>1 DEF Audience
    <2> QED  BY <1>1, <2>1, <2>2, <2>3, JoinIn, EffectInv, Subsets
  <1>2. CASE input \notin JoinInputs(r)
    <2>1. /\ d \in Contexts /\ Effect(r, d.role)
          /\ Booked(Members(r), Members(d.role), d.actions)
          /\ input.type = "Leave" => input.peer \notin Members(d.role)
          /\ input.type # "Join"
      <3>1. CASE input \in LeaveInputs(r)
        <4>1. input.type = "Leave"
          BY <3>1 DEF LeaveInputs
        <4> QED  BY <3>1, <4>1, LeaveIn DEF Handled, Quiet
      <3>2. CASE input \in PacketInputs(r)
        BY <3>2, PacketIn, PacketFields DEF Handled, Quiet
      <3>3. CASE input \in MalformedInputs(r)
        <4>1. input.type = "Malformed"
          BY <3>3 DEF MalformedInputs
        <4> QED  BY <3>3, <4>1, MalformedIn
      <3>4. CASE input \in TimerInputs(r)
        <4>1. input.type = "Timer"
          BY <3>4 DEF TimerInputs
        <4> QED  BY <3>4, <4>1, TimerIn DEF Handled, Quiet
      <3> QED  BY <1>2, <3>1, <3>2, <3>3, <3>4 DEF Inputs
    <2>2. Audience(r, input) = Members(r)
      BY <2>1 DEF Audience
    <2> QED  BY <2>1, <2>2, EffectInv, Subsets
  <1> QED  BY <1>1, <1>2

(* How much an input may say: two plain packets to a peer besides what the  *)
(* end of a game would, one in a timer pass of a running game.              *)
Allowance(r, input) == IF input.type = "Timer" /\ r.state = "InGame" THEN 1 ELSE 2

(* No input says more than that.                                            *)
LEMMA HandleSays ==
    ASSUME NEW r, RoleInv(r), NEW input \in Inputs(r), NEW d, d = Handle(r, input)
    PROVE  d \in Contexts /\ Speaks(Fresh(r), d, Ids, Allowance(r, input))
  <1> DEFINE c == Fresh(r)
             k == Allowance(r, input)
  <1>1. c \in Contexts /\ r = c.role /\ c.actions = << >>
    BY FreshIn DEF RoleInv
  <1>2. \A p : Said(c.actions, p, ReliablePackets) = 0
    BY <1>1, SaidNothing
  <1>3. k \in Nat /\ 1 <= k /\ (input.type # "Timer" => k = 2) /\ 1 \in Nat /\ 0 \in Nat
        /\ k = IF input.type = "Timer" /\ r.state = "InGame" THEN 1 ELSE 2
    BY DEF Allowance
  <1> HIDE DEF c, k
  <1>4. ASSUME d \in Contexts, Speaks(c, d, Ids, 1)
        PROVE  Speaks(c, d, Ids, k)
    BY <1>1, <1>3, <1>4, SpeaksMore
  <1>5. CASE input \in JoinInputs(r)
    <2>1. /\ input.type = "Join" /\ input.peer = r.nextOrder + 1 /\ input.goodLabel \in BOOLEAN
          /\ r.nextOrder # MaxJoins
      BY <1>5 DEF JoinInputs
    <2>2. d = OnJoin(c, input.peer, input.goodLabel)
      BY <2>1 DEF Handle, c
    <2>3. d \in Contexts /\ Speaks(c, d, Ids, 1)
      BY <2>1, <2>2, OnJoinIn DEF c
    <2> QED  BY <1>4, <2>3 DEF c, k
  <1>6. CASE input \in LeaveInputs(r)
    <2>1. input.type = "Leave" /\ input.peer \in Members(r)
      BY <1>6 DEF LeaveInputs
    <2>2. d = OnLeave(c, input.peer)
      BY <2>1 DEF Handle, c
    <2>3. d \in Contexts /\ Lighter(c, d)
      BY <1>1, <2>1, <2>2, OnLeaveIn
    <2>4. Speaks(c, d, Ids, k)
      BY <1>1, <1>3, <2>3, LighterSpeaks
    <2> QED  BY <2>3, <2>4 DEF c, k
  <1>7. CASE input \in PacketInputs(r)
    <2> DEFINE p      == input.peer
               lane   == input.lane
               packet == input.packet
    <2>1. /\ input.type = "Packet" /\ p \in Members(r)
          /\ \/ lane = "plain" /\ packet \in Syns /\ p \in Members(r) \ Accepted(r)
             \/ InLane(lane, packet)
      BY <1>7, PacketFields
    <2>2. d = OnPacket(c, p, lane, packet)
      BY <2>1 DEF Handle, c
    <2>3. k = 2
      BY <1>3, <2>1
    <2> HIDE DEF p, lane, packet
    <2>4. CASE p \in Accepted(r)
      <3>1. d \in Contexts /\ Speaks(c, d, Ids, 2)
        BY <1>1, <1>2, <2>1, <2>2, <2>4, PeerPacketIn
      <3> QED  BY <2>3, <3>1 DEF c, k
    <2>5. CASE p \notin Accepted(r)
      <3>1. d \in Contexts /\ Speaks(c, d, Ids, 1)
        BY <1>1, <2>1, <2>2, <2>5, StrangerPacketIn
      <3> QED  BY <1>4, <3>1 DEF c, k
    <2> QED  BY <2>4, <2>5
  <1>8. CASE input \in MalformedInputs(r)
    <2>1. input.type = "Malformed" /\ input.peer \in Members(r) /\ input.oldMagic \in BOOLEAN
      BY <1>8 DEF MalformedInputs
    <2>2. d = OnMalformed(c, input.peer, input.oldMagic)
      BY <2>1 DEF Handle, c
    <2>3. d \in Contexts /\ Speaks(c, d, Ids, 1)
      BY <1>1, <2>1, <2>2, OnMalformedIn
    <2> QED  BY <1>4, <2>3 DEF c, k
  <1>9. CASE input \in TimerInputs(r)
    <2>1. input.type = "Timer"
      BY <1>9 DEF TimerInputs
    <2>2. d = OnTimer(c, input.expired, input.idle)
      BY <2>1 DEF Handle, c
    <2>3. d \in Contexts /\ Speaks(c, d, Ids, IF r.state = "InGame" THEN 1 ELSE 2)
      BY <1>1, <2>2, OnTimerIn
    <2>4. k = IF r.state = "InGame" THEN 1 ELSE 2
      BY <1>3, <2>1
    <2> QED  BY <2>3, <2>4 DEF c, k
  <1> QED  BY <1>5, <1>6, <1>7, <1>8, <1>9 DEF Inputs

(* What an input says to one peer, and what a game's end may still add: at  *)
(* most one head and three plain packets, and in a timer pass one and one   *)
(* to a player in game.                                                     *)
LEMMA HandleIsBrief ==
    ASSUME NEW r, RoleInv(r), NEW input \in Inputs(r), NEW d, d = Handle(r, input), NEW p \in Ids
    PROVE  /\ Heads(d, p) + Words(d, p) <= 4
           /\ input.type = "Timer" /\ r.state = "InGame" /\ p \in Players(r) =>
                 Heads(d, p) + Words(d, p) <= 2
  <1> DEFINE c == Fresh(r)
             k == Allowance(r, input)
  <1>1. c \in Contexts /\ r = c.role /\ c.actions = << >>
    BY FreshIn DEF RoleInv
  <1>2. d \in Contexts /\ Speaks(c, d, Ids, k)
    BY HandleSays
  <1>3. k \in {1, 2} /\ (input.type = "Timer" /\ r.state = "InGame" => k = 1)
    BY DEF Allowance
  <1>4. /\ Said(c.actions, p, ReliablePackets) = 0
        /\ Said(c.actions, p, PlainPackets) = 0
    BY <1>1, SaidNothing
  <1>5. /\ Heads(c, p) <= 1 /\ Words(c, p) \in {0, 1}
        /\ r.state = "InGame" /\ p \in Players(r) => Words(c, p) = 0
    <2>1. r.state = "InGame" /\ p \in Players(r) => ~Endable(c.role, p)
      BY <1>1 DEF Endable
    <2> QED  BY <1>4, <2>1 DEF Heads, Words, Bit
  <1> HIDE DEF c, k
  <1>6. Heads(d, p) <= 1 /\ Words(d, p) <= Words(c, p) + k
    BY <1>2, <1>5 DEF Speaks
  <1>7. Heads(d, p) \in Nat /\ Words(d, p) \in Nat
    BY <1>2, CountsIn
  <1> QED  BY <1>3, <1>5, <1>6, <1>7

-----------------------------------------------------------------------------
(* Theorems.                                                                *)

(* Whatever inputs a room is fed, in whatever order, the role keeps its     *)
(* invariant: the registry's numbering, exclusive slots, bounded FIFOs,     *)
(* strangers without client state, a clean lobby, one game mode, and a      *)
(* player in every room past its lobby.                                     *)
THEOREM RoleInvariant == Spec => []RoleInv(role)
  <1>1. Init => RoleInv(role)
    BY InitInv DEF Init
  <1>2. RoleInv(role) /\ [Next]_role => RoleInv(role)'
    <2> SUFFICES ASSUME RoleInv(role), [Next]_role PROVE RoleInv(role')
      OBVIOUS
    <2>1. CASE Next
      BY <2>1, StepHasEffect, EffectInv
    <2>2. CASE UNCHANGED role
      BY <2>2
    <2> QED  BY <2>1, <2>2
  <1> QED  BY <1>1, <1>2, PTL DEF Spec

(* Every field of the role stays in its type and no reliable FIFO outgrows  *)
(* RELIABLE_CAP (enqueue_reliable checks before it pushes).                 *)
THEOREM RoleTyped == Spec => []TypeOK
  <1>1. RoleInv(role) => TypeOK
    <2> SUFFICES ASSUME RoleInv(role) PROVE TypeOK
      OBVIOUS
    <2>1. \A p \in Members(role) :
             role.peers[p] \in Peer /\ Len(role.peers[p].outbox) <= ReliableCap
      BY MemberIsPeer DEF RoleInv, Orderly
    <2> QED  BY <2>1 DEF TypeOK, RoleInv, Roles, Counted
  <1> QED  BY <1>1, RoleInvariant, PTL

(* No two accepted peers ever share a slot, draining ones included          *)
(* (free_slot looks at every member), for any number of peers.              *)
THEOREM ExclusiveSlots == Spec => []SlotsAreExclusive
  <1>1. RoleInv(role) => SlotsAreExclusive
    BY DEF RoleInv, Orderly, SlotsAreExclusive
  <1> QED  BY <1>1, RoleInvariant, PTL

(* end_game leaves nothing of a game behind: settings, readiness and game   *)
(* state never reach the next lobby.                                        *)
THEOREM CleanLobby == Spec => []LobbyIsClean
  <1>1. RoleInv(role) => LobbyIsClean
    BY DEF RoleInv, Clean, LobbyIsClean
  <1> QED  BY <1>1, RoleInvariant, PTL

(* on_syn and end_game together never let two game modes into one room, and *)
(* the adopted one is always that of a player still there, if only asleep.  *)
THEOREM OneModeOnly == Spec => []OneGameMode
  <1>1. RoleInv(role) => OneGameMode
    <2> SUFFICES ASSUME RoleInv(role) PROVE OneGameMode
      OBVIOUS
    <2>1. ASSUME NEW p \in Accepted(role), ~Watches(role.peers[p])
          PROVE  ~role.peers[p].drone /\ role.peers[p].conn \in {"Connected", "Sleeping"}
      <3>1. role.peers[p].conn \in {"Connected", "Disconnecting", "Sleeping"}
        BY Subsets, MemberIsPeer DEF RoleInv
      <3> QED  BY <2>1, <3>1 DEF Watches
    <2> QED  BY <2>1 DEF RoleInv, OneMode, Claimed, OneGameMode
  <1> QED  BY <1>1, RoleInvariant, PTL

(* No cascade of overflow removals leaves a start or a game without a       *)
(* player (remove_connected, start_game), however deep the cascade goes.    *)
THEOREM GameHasAPlayer == Spec => []StartedRoomHasAPlayer
  <1>1. RoleInv(role) => StartedRoomHasAPlayer
    <2> SUFFICES ASSUME RoleInv(role), role.state # "WaitingLaunch"
                 PROVE  \E p \in Accepted(role) :
                           ~role.peers[p].drone /\ role.peers[p].conn \in {"Connected", "Sleeping"}
      BY DEF StartedRoomHasAPlayer
    <2>1. PICK p \in Accepted(role) : ~Watches(role.peers[p])
      BY DEF RoleInv, Populated
    <2>2. role.peers[p].conn \in {"Connected", "Disconnecting", "Sleeping"}
      BY Subsets, MemberIsPeer DEF RoleInv
    <2> QED  BY <2>1, <2>2 DEF Watches
  <1> QED  BY <1>1, RoleInvariant, PTL

(* While one game runs, no removal renumbers, reseats or unseats a peer     *)
(* that stays.                                                              *)
THEOREM FrozenIndices == Spec => IndicesAreFrozen
  <1> DEFINE Holds == (role.state = "InGame" /\ role'.state = "InGame") =>
          \A p \in Members(role) \cap Members(role') :
              /\ role'.peers[p].gameIndex = role.peers[p].gameIndex
              /\ role'.peers[p].slot = role.peers[p].slot
              /\ role'.peers[p].game = role.peers[p].game
  <1>1. RoleInv(role) /\ [Next]_role => [Holds]_role
    <2> SUFFICES ASSUME RoleInv(role), Next PROVE Holds
      OBVIOUS
    <2> QED  BY StepHasEffect, EffectInv DEF Frozen
  <1> QED  BY <1>1, RoleInvariant, PTL DEF Spec, IndicesAreFrozen

(* A peer that was told to disconnect, earlier or in the same batch, hears  *)
(* its handshake only, although broadcasts and cascades go on around it.    *)
THEOREM DrainingIsSpared == Spec => []DrainingHearsOnlyDisconnect
  <1>1. RoleInv(role) => DrainingHearsOnlyDisconnect
    <2> SUFFICES ASSUME RoleInv(role), NEW input \in Inputs(role) \ OldSyns(role)
                 PROVE  OnlyDisconnect(role, Handle(role, input))
      BY DEF DrainingHearsOnlyDisconnect
    <2> DEFINE d == Handle(role, input)
    <2>1. d \in Contexts /\ Polite(role, d.actions)
      <3>1. CASE input \in JoinInputs(role)
        BY <3>1, JoinIn
      <3>2. CASE input \in LeaveInputs(role)
        BY <3>2, LeaveIn DEF Handled, Quiet
      <3>3. CASE input \in PacketInputs(role)
        BY <3>3, PacketIn DEF Handled, Quiet
      <3>4. CASE input \in MalformedInputs(role)
        BY <3>4, MalformedIn DEF OldSyns, Quiet
      <3>5. CASE input \in TimerInputs(role)
        BY <3>5, TimerIn DEF Handled, Quiet
      <3> QED  BY <3>1, <3>2, <3>3, <3>4, <3>5 DEF Inputs
    <2> HIDE DEF d
    <2>2. role \in Roles
      BY DEF RoleInv
    <2>3. OnlyDisconnect(role, d)
      BY <2>1, <2>2, PoliteIsOnlyDisconnect
    <2> QED  BY <2>3 DEF d
  <1> QED  BY <1>1, RoleInvariant, PTL

(* A member that has not completed SYN changes no other member and no game, *)
(* whatever it sends (remove_unconnected, reject).                          *)
THEOREM StrangersAreHarmless == Spec => []StrangersDisturbNobody
  <1>1. RoleInv(role) => StrangersDisturbNobody
    <2> SUFFICES ASSUME RoleInv(role), NEW input,
                        input \in LeaveInputs(role) \cup PacketInputs(role) \cup MalformedInputs(role),
                        ~role.peers[input.peer].syn
                 PROVE  Undisturbed(input.peer, Handle(role, input).role)
      BY DEF StrangersDisturbNobody
    <2> DEFINE p == input.peer
               s == Handle(role, input).role
    <2>1. p \in Members(role) /\ (p \notin Accepted(role) => StrangerEffect(role, s, p))
      BY LeaveIn, PacketIn, MalformedIn
    <2> SUFFICES Undisturbed(p, s)
      OBVIOUS
    <2> HIDE DEF s, p
    <2>2. p \notin Accepted(role) /\ StrangerEffect(role, s, p)
      BY <2>1 DEF Accepted, p
    <2>3. CASE s = role
      BY <2>3 DEF Undisturbed
    <2>4. CASE Refuses(role, s, p)
      <3>1. s.state = role.state /\ s.settings = role.settings
        BY <2>4 DEF Refuses, Replaces
      <3> QED  BY <2>4, <3>1, RefusesInv DEF Undisturbed
    <2>5. CASE Enrolls(role, s, p)
      <3>1. s.state = role.state /\ s.settings = role.settings
        BY <2>5 DEF Enrolls
      <3> QED  BY <2>5, <3>1, EnrollsInv DEF Undisturbed
    <2> QED  BY <2>2, <2>3, <2>4, <2>5 DEF StrangerEffect
  <1> QED  BY <1>1, RoleInvariant, PTL

-----------------------------------------------------------------------------
(* The lifecycle: what RoomLifecycle sees of a role.                        *)

Ahead(r)     == (r.nextOrder + 1)..MaxJoins
Unaccepted(r) == Members(r) \ Accepted(r)
Asleep(r)    == {p \in Accepted(r) : r.peers[p].conn = "Sleeping"}
Closing(r)   == {p \in Accepted(r) : r.peers[p].conn = "Disconnecting"}
Drones(r)    == {p \in Accepted(r) : r.peers[p].drone}
ReadyOf(r)   == {p \in Connected(r) : r.peers[p].ready}
Playing(r)   == {p \in Members(r) : r.peers[p].game}

(* Everything is as it was. *)
SameView(r, s) ==
    /\ s.state = r.state /\ s.gamemode = r.gamemode /\ s.settings = r.settings
    /\ Ahead(s) = Ahead(r) /\ Unaccepted(s) = Unaccepted(r) /\ Connected(s) = Connected(r)
    /\ Asleep(s) = Asleep(r) /\ Closing(s) = Closing(r) /\ Drones(s) = Drones(r)
    /\ ReadyOf(s) = ReadyOf(r) /\ Playing(s) = Playing(r)

(* The members in S are gone, and the game with them or not (Lose). *)
EndView(r, s, S) ==
    /\ s.state = "WaitingLaunch" /\ s.gamemode = None /\ s.settings = FALSE
    /\ Ahead(s) = Ahead(r) /\ Unaccepted(s) = {} /\ Connected(s) = {}
    /\ Asleep(s) = Asleep(r) \ S /\ Closing(s) = (Closing(r) \cup Connected(r)) \ S
    /\ Drones(s) = Drones(r) \ S /\ ReadyOf(s) = {} /\ Playing(s) = {}

StayView(r, s, S) ==
    /\ s.state = r.state /\ s.gamemode = r.gamemode /\ s.settings = r.settings
    /\ Ahead(s) = Ahead(r) /\ Unaccepted(s) = Unaccepted(r) /\ Connected(s) = Connected(r) \ S
    /\ Asleep(s) = Asleep(r) \ S /\ Closing(s) = Closing(r) \ S
    /\ Drones(s) = Drones(r) \ S /\ ReadyOf(s) = ReadyOf(r) \ S /\ Playing(s) = Playing(r) \ S

LoseView(r, s, S) == IF EndsIt(r, S) THEN EndView(r, s, S) ELSE StayView(r, s, S)

(* Players are the connected that are no drones.                            *)
LEMMA PlayersView ==
    ASSUME NEW r
    PROVE  Players(r) = Connected(r) \ Drones(r)
  BY Subsets DEF Players, IsPlayer, Connected, Drones, Accepted

(* Every accepted peer is connected, asleep or closing.                     *)
LEMMA AcceptedView ==
    ASSUME NEW r \in Roles
    PROVE  /\ Accepted(r) = Connected(r) \cup Asleep(r) \cup Closing(r)
           /\ Connected(r) = {p \in Accepted(r) : r.peers[p].conn = "Connected"}
  <1>1. Connected(r) = {p \in Accepted(r) : r.peers[p].conn = "Connected"}
    BY DEF Connected, Accepted
  <1>2. \A p \in Accepted(r) : r.peers[p].conn \in {"Connected", "Disconnecting", "Sleeping"}
    BY Subsets, MemberIsPeer
  <1> QED  BY <1>1, <1>2 DEF Asleep, Closing

(* A loss that lets the room go on, as the lifecycle sees it.               *)
LEMMA KeptView ==
    ASSUME NEW r, RoleInv(r), NEW s \in Roles, Kept(r, s), NEW S, S = Lost(r, s)
    PROVE  StayView(r, s, S)
  <1>1. r \in Roles
    BY DEF RoleInv
  <1>2. /\ Accepted(s) = Accepted(r) \ S /\ Connected(s) = Connected(r) \ S
        /\ Members(s) = Members(r) \ S /\ S \subseteq Accepted(r)
    BY <1>1, KeptSets DEF Lost
  <1>3. \A p \in Members(s) : /\ s.peers[p].conn = r.peers[p].conn
                              /\ s.peers[p].drone = r.peers[p].drone
                              /\ s.peers[p].ready = r.peers[p].ready
                              /\ s.peers[p].game = r.peers[p].game
    BY DEF Kept, Same
  <1>4. Unaccepted(s) = Unaccepted(r)
    BY <1>2 DEF Unaccepted
  <1>5. \A p \in Accepted(s) : p \in Members(s)
    BY Subsets
  <1>6. Asleep(s) = Asleep(r) \ S /\ Closing(s) = Closing(r) \ S /\ Drones(s) = Drones(r) \ S
    BY <1>2, <1>3, <1>5 DEF Asleep, Closing, Drones
  <1>7. ReadyOf(s) = ReadyOf(r) \ S
    BY <1>2, <1>3, Subsets DEF ReadyOf
  <1>8. Playing(s) = Playing(r) \ S
    BY <1>2, <1>3 DEF Playing
  <1> QED  BY <1>2, <1>4, <1>6, <1>7, <1>8 DEF Kept, Ahead, StayView

(* A loss that ends the game, as the lifecycle sees it.                     *)
LEMMA OverView ==
    ASSUME NEW r, RoleInv(r), NEW s \in Roles, Over(r, s), NEW S, S = Lost(r, s)
    PROVE  EndView(r, s, S)
  <1>1. r \in Roles
    BY DEF RoleInv
  <1>2. /\ Accepted(s) = Members(s) /\ Connected(s) = {} /\ Members(s) = Accepted(r) \ S
    BY <1>1, OverSets
  <1>3. \A p \in Members(s) :
           /\ s.peers[p].conn = (IF r.peers[p].conn = "Connected" THEN "Disconnecting"
                                 ELSE r.peers[p].conn)
           /\ s.peers[p].drone = r.peers[p].drone /\ s.peers[p].game = FALSE
    BY DEF Over, Closed
  <1>4. Unaccepted(s) = {} /\ ReadyOf(s) = {} /\ Playing(s) = {}
    BY <1>2, <1>3 DEF Unaccepted, ReadyOf, Playing
  <1>5. Asleep(s) = Asleep(r) \ S /\ Drones(s) = Drones(r) \ S
    BY <1>2, <1>3 DEF Asleep, Drones
  <1>6. Closing(s) = (Closing(r) \cup Connected(r)) \ S
    <2>1. Connected(r) = {p \in Accepted(r) : r.peers[p].conn = "Connected"}
      BY <1>1, AcceptedView
    <2> QED  BY <1>2, <1>3, <2>1 DEF Closing
  <1> QED  BY <1>2, <1>4, <1>5, <1>6 DEF Over, Ahead, EndView

(* A shedding that loses nobody is invisible; one that loses somebody is a  *)
(* Lose.                                                                    *)
LEMMA YieldsView ==
    ASSUME NEW r, RoleInv(r), NEW s, Yields(r, s), NEW S, S = Lost(r, s)
    PROVE  /\ S \subseteq Accepted(r)
           /\ S = {} => SameView(r, s)
           /\ S # {} \/ Players(r) # {} => LoseView(r, s, S)
  <1>1. s \in Roles /\ Loses(r, s) /\ S \subseteq Accepted(r)
    BY DEF Yields, Lost
  <1>2. CASE Kept(r, s) /\ (S # {} => ~EndsIt(r, S))
    <2>1. StayView(r, s, S)
      BY <1>1, <1>2, KeptView
    <2>2. S = {} => SameView(r, s)
      BY <2>1 DEF SameView, StayView
    <2>3. S # {} \/ Players(r) # {} => ~EndsIt(r, S)
      BY <1>2 DEF EndsIt
    <2> QED  BY <1>1, <2>1, <2>2, <2>3 DEF LoseView
  <1>3. CASE Over(r, s) /\ S # {} /\ EndsIt(r, S)
    <2>1. EndView(r, s, S)
      BY <1>1, <1>3, OverView
    <2> QED  BY <1>1, <1>3, <2>1 DEF LoseView
  <1> QED  BY <1>1, <1>2, <1>3 DEF Loses

(* Who is a client, and how, is as it was. *)
SameClients(r, s) ==
    /\ Asleep(s) = Asleep(r) /\ Closing(s) = Closing(r) /\ Drones(s) = Drones(r)
    /\ ReadyOf(s) = ReadyOf(r) /\ Playing(s) = Playing(r)

SameGame(r, s) == s.state = r.state /\ s.gamemode = r.gamemode /\ s.settings = r.settings

AdmitView(r, s, p) ==
    /\ p \in Ahead(r) /\ Ahead(s) = Ahead(r) \ {p}
    /\ Unaccepted(s) \in {Unaccepted(r), Unaccepted(r) \cup {p}}
    /\ Connected(s) = Connected(r) /\ SameClients(r, s) /\ SameGame(r, s)

(* An admission uses up the next connection.                                *)
LEMMA AdmitsView ==
    ASSUME NEW r, RoleInv(r), NEW s, Admits(r, s), Cardinality(Members(r)) # MaxPeers
    PROVE  AdmitView(r, s, r.nextOrder + 1)
  <1> DEFINE p == r.nextOrder + 1
  <1>1. /\ RoleInv(s) /\ Accepted(s) = Accepted(r) /\ Connected(s) = Connected(r)
        /\ Members(s) \in {Members(r), Members(r) \cup {p}}
        /\ \A q \in Accepted(r) : s.peers[q] = r.peers[q]
        /\ \A q \in Members(s) \ Accepted(s) : ~s.peers[q].game
        /\ p \notin Members(r)
    BY AdmitsInv
  <1>2. SameGame(r, s) /\ s.nextOrder = p /\ p \in Ids
    BY DEF Admits, SameGame
  <1>3. p \in Ahead(r) /\ Ahead(s) = Ahead(r) \ {p}
    <2>1. r.nextOrder \in Nat /\ p \in 1..MaxJoins /\ MaxJoins \in Nat
      BY <1>2, Constants DEF RoleInv, Roles, Ids
    <2>2. Ahead(r) = p..MaxJoins /\ Ahead(s) = (p + 1)..MaxJoins
      BY <1>2 DEF Ahead
    <2> HIDE DEF p
    <2>3. p..MaxJoins = {p} \cup ((p + 1)..MaxJoins) /\ p \notin (p + 1)..MaxJoins
      BY <2>1
    <2> QED  BY <2>1, <2>2, <2>3
  <1> HIDE DEF p
  <1>4. Unaccepted(s) \in {Unaccepted(r), Unaccepted(r) \cup {p}}
    BY <1>1, Subsets DEF Unaccepted
  <1>5. Asleep(s) = Asleep(r) /\ Closing(s) = Closing(r) /\ Drones(s) = Drones(r)
    BY <1>1 DEF Asleep, Closing, Drones
  <1>6. ReadyOf(s) = ReadyOf(r)
    BY <1>1, Subsets DEF ReadyOf
  <1>7. \A q \in Members(r) \ Accepted(r) : ~r.peers[q].game
    BY DEF RoleInv, Strangers, Unknown
  <1>8. Playing(s) = Playing(r)
    <2>1. Playing(s) = {q \in Accepted(s) : s.peers[q].game}
      BY <1>1, Subsets DEF Playing
    <2>2. Playing(r) = {q \in Accepted(r) : r.peers[q].game}
      BY <1>7, Subsets DEF Playing
    <2> QED  BY <1>1, <2>1, <2>2
  <1>9. AdmitView(r, s, p)
    BY <1>1, <1>2, <1>3, <1>4, <1>5, <1>6, <1>8 DEF AdmitView, SameClients
  <1> QED  BY <1>9 DEF p

RefuseView(r, s, p) ==
    /\ p \in Unaccepted(r) /\ Unaccepted(s) = Unaccepted(r) \ {p} /\ Ahead(s) = Ahead(r)
    /\ Connected(s) = Connected(r) /\ SameClients(r, s) /\ SameGame(r, s)

(* A refusal takes one stranger.                                            *)
LEMMA RefusesView ==
    ASSUME NEW r, RoleInv(r), NEW s, NEW p, Refuses(r, s, p)
    PROVE  RefuseView(r, s, p)
  <1>1. /\ Accepted(s) = Accepted(r) /\ Connected(s) = Connected(r)
        /\ Members(s) = Members(r) \ {p} /\ p \in Members(r) \ Accepted(r)
        /\ \A q \in Members(s) : s.peers[q] = r.peers[q]
    BY RefusesInv DEF Refuses
  <1>2. SameGame(r, s) /\ Ahead(s) = Ahead(r)
    BY DEF Refuses, Replaces, SameGame, Ahead
  <1>3. \A q \in Accepted(r) : q \in Members(s) /\ s.peers[q] = r.peers[q]
    BY <1>1, Subsets
  <1>4. Asleep(s) = Asleep(r) /\ Closing(s) = Closing(r) /\ Drones(s) = Drones(r)
    BY <1>1, <1>3 DEF Asleep, Closing, Drones
  <1>5. ReadyOf(s) = ReadyOf(r)
    BY <1>1, <1>3, Subsets DEF ReadyOf
  <1>6. ~r.peers[p].game
    BY <1>1 DEF RoleInv, Strangers, Unknown
  <1>7. Playing(s) = Playing(r)
    BY <1>1, <1>6 DEF Playing
  <1> QED  BY <1>1, <1>2, <1>4, <1>5, <1>7 DEF RefuseView, Unaccepted, SameClients

EnrollView(r, s, p, drone) ==
    /\ p \in Unaccepted(r) /\ r.state = "WaitingLaunch" /\ drone \in BOOLEAN
    /\ drone => r.gamemode # None
    /\ Unaccepted(s) = Unaccepted(r) \ {p} /\ Connected(s) = Connected(r) \cup {p}
    /\ Drones(s) = IF drone THEN Drones(r) \cup {p} ELSE Drones(r)
    /\ s.gamemode # None /\ s.state = r.state /\ s.settings = r.settings
    /\ Ahead(s) = Ahead(r) /\ Asleep(s) = Asleep(r) /\ Closing(s) = Closing(r)
    /\ ReadyOf(s) = ReadyOf(r) /\ Playing(s) = Playing(r)

(* A completed SYN makes a client of a stranger.                            *)
LEMMA EnrollsView ==
    ASSUME NEW r, RoleInv(r), NEW s, NEW p, Enrolls(r, s, p)
    PROVE  EnrollView(r, s, p, s.peers[p].drone)
  <1>1. /\ RoleInv(s) /\ Members(s) = Members(r)
        /\ Accepted(s) = Accepted(r) \cup {p} /\ Connected(s) = Connected(r) \cup {p}
        /\ \A q \in Members(s) \ {p} : s.peers[q] = r.peers[q]
        /\ p \in Members(r) /\ p \notin Accepted(r) /\ ~r.peers[p].game
    BY EnrollsInv
  <1> DEFINE y == s.peers[p]
  <1>2. /\ y.conn = "Connected" /\ ~y.ready /\ ~y.game /\ y.drone \in BOOLEAN
        /\ y.drone => r.gamemode # None
        /\ r.state = "WaitingLaunch" /\ s.gamemode # None /\ s.state = r.state
        /\ s.settings = r.settings /\ Ahead(s) = Ahead(r)
    <2>1. y \in Peer /\ y.conn = "Connected" /\ ~y.ready /\ ~y.game
      BY DEF Enrolls
    <2>2. /\ y.drone => r.gamemode # None
          /\ r.state = "WaitingLaunch" /\ s.gamemode # None /\ s.state = r.state
          /\ s.settings = r.settings /\ Ahead(s) = Ahead(r)
      BY DEF Enrolls, Ahead
    <2>3. y.drone \in BOOLEAN
      BY <2>1 DEF Peer
    <2> QED  BY <2>1, <2>2, <2>3
  <1> HIDE DEF y
  <1>3. \A q \in Accepted(r) : q # p /\ s.peers[q] = r.peers[q]
    BY <1>1, Subsets
  <1>4. Asleep(s) = Asleep(r) /\ Closing(s) = Closing(r)
    BY <1>1, <1>2, <1>3 DEF Asleep, Closing, y
  <1>5. Drones(s) = IF y.drone THEN Drones(r) \cup {p} ELSE Drones(r)
    BY <1>1, <1>3 DEF Drones, y
  <1>6. ReadyOf(s) = ReadyOf(r)
    BY <1>1, <1>2, <1>3, Subsets DEF ReadyOf, y
  <1>7. Playing(s) = Playing(r)
    BY <1>1, <1>2 DEF Playing, y
  <1>8. EnrollView(r, s, p, y.drone)
    BY <1>1, <1>2, <1>4, <1>5, <1>6, <1>7 DEF EnrollView, Unaccepted
  <1> QED  BY <1>8 DEF y

SleepView(r, s, p) ==
    /\ p \in Connected(r) /\ Connected(s) = Connected(r) \ {p} /\ Asleep(s) = Asleep(r) \cup {p}
    /\ ReadyOf(s) = ReadyOf(r) \ {p} /\ Unaccepted(s) = Unaccepted(r) /\ Ahead(s) = Ahead(r)
    /\ Closing(s) = Closing(r) /\ Drones(s) = Drones(r) /\ Playing(s) = Playing(r)
    /\ SameGame(r, s)

(* A DISCONNECT puts a connected client to sleep, and takes its readiness.  *)
LEMMA SleepsView ==
    ASSUME NEW r, RoleInv(r), NEW s, NEW p, Sleeps(r, s, p)
    PROVE  SleepView(r, s, p)
  <1>1. /\ Members(s) = Members(r) /\ Accepted(s) = Accepted(r) /\ Connected(s) = Connected(r) \ {p}
        /\ \A q \in Members(s) \ {p} : s.peers[q] = r.peers[q]
        /\ p \in Connected(r) /\ s.peers[p].conn = "Sleeping"
        /\ s.peers[p].drone = r.peers[p].drone /\ s.peers[p].game = r.peers[p].game
        /\ s.state = r.state /\ s.gamemode = r.gamemode
        /\ s.settings = r.settings /\ s.nextOrder = r.nextOrder
    BY SleepsInv
  <1>2. p \in Accepted(r) /\ r.peers[p].conn = "Connected"
        /\ \A q \in Accepted(r) \ {p} : s.peers[q] = r.peers[q]
    BY <1>1, Subsets DEF Connected
  <1>3. Asleep(s) = Asleep(r) \cup {p} /\ Closing(s) = Closing(r) /\ Drones(s) = Drones(r)
    BY <1>1, <1>2 DEF Asleep, Closing, Drones
  <1>4. ReadyOf(s) = ReadyOf(r) \ {p}
    BY <1>1, <1>2, Subsets DEF ReadyOf
  <1>5. Playing(s) = Playing(r)
    BY <1>1 DEF Playing
  <1> QED  BY <1>1, <1>3, <1>4, <1>5 DEF SleepView, Unaccepted, Ahead, SameGame

(* The loss of S by a room that has gone on to the state from, with these   *)
(* settings and these clients ready.                                        *)
LoseFrom(r, s, S, from, agreed, willing) ==
    IF (from = "WaitingStart" /\ S \cap Players(r) # {}) \/ Players(r) \subseteq S
    THEN EndView(r, s, S)
    ELSE /\ s.state = from /\ s.gamemode = r.gamemode /\ s.settings = agreed
         /\ Ahead(s) = Ahead(r) /\ Unaccepted(s) = Unaccepted(r) /\ Connected(s) = Connected(r) \ S
         /\ Asleep(s) = Asleep(r) \ S /\ Closing(s) = Closing(r) \ S
         /\ Drones(s) = Drones(r) \ S /\ ReadyOf(s) = willing \ S /\ Playing(s) = Playing(r) \ S

SameSets(r, t) ==
    /\ t.gamemode = r.gamemode /\ Players(t) = Players(r)
    /\ Ahead(t) = Ahead(r) /\ Unaccepted(t) = Unaccepted(r) /\ Connected(t) = Connected(r)
    /\ Asleep(t) = Asleep(r) /\ Closing(t) = Closing(r) /\ Drones(t) = Drones(r)
    /\ Playing(t) = Playing(r)

(* A Lose of a room that has changed state or settings first.               *)
LEMMA LosesFrom ==
    ASSUME NEW r, NEW t, SameSets(r, t), NEW s, NEW S, LoseView(t, s, S)
    PROVE  LoseFrom(r, s, S, t.state, t.settings, ReadyOf(t))
  <1>1. CASE EndsIt(t, S)
    BY <1>1 DEF LoseView, EndsIt, EndView, LoseFrom, SameSets
  <1>2. CASE ~EndsIt(t, S)
    BY <1>2 DEF LoseView, EndsIt, StayView, LoseFrom, SameSets
  <1> QED  BY <1>1, <1>2

(* A shedding is a Shed, or invisible.                                      *)
LEMMA ShedsView ==
    ASSUME NEW r, RoleInv(r), NEW s, Yields(r, s)
    PROVE  \/ SameView(r, s)
           \/ \E S \in SUBSET Accepted(r) :
                 S # {} /\ LoseFrom(r, s, S, r.state, r.settings, ReadyOf(r))
  <1> DEFINE S == Lost(r, s)
  <1>1. /\ S \subseteq Accepted(r)
        /\ S = {} => SameView(r, s)
        /\ S # {} \/ Players(r) # {} => LoseView(r, s, S)
    BY YieldsView
  <1> HIDE DEF S
  <1>2. SameSets(r, r)
    BY DEF SameSets
  <1>3. S # {} => LoseFrom(r, s, S, r.state, r.settings, ReadyOf(r))
    BY <1>1, <1>2, LosesFrom
  <1> QED  BY <1>1, <1>3

LaunchView(r, s, S) ==
    /\ r.state = "WaitingLaunch" /\ Players(r) # {} /\ S \subseteq Connected(r)
    /\ LoseFrom(r, s, S, "WaitingStart", r.settings, ReadyOf(r))

(* A launch, and the loss its broadcast has caused, are one Launch.         *)
LEMMA LaunchesView ==
    ASSUME NEW r, RoleInv(r), NEW s, Launches(r, s)
    PROVE  \E S \in SUBSET Connected(r) : LaunchView(r, s, S)
  <1> DEFINE t == Launching(r)
             S == Lost(t, s)
  <1>1. /\ RoleInv(t) /\ Members(t) = Members(r) /\ Accepted(t) = Accepted(r)
        /\ Connected(t) = Connected(r) /\ Players(t) = Players(r) /\ t.peers = r.peers
        /\ t.state = "WaitingStart" /\ t.gamemode = r.gamemode
        /\ t.settings = r.settings /\ t.nextOrder = r.nextOrder
    BY LaunchingInv DEF Launches
  <1>2. /\ r.state = "WaitingLaunch" /\ Players(r) # {} /\ Yields(t, s)
        /\ S \subseteq Connected(r)
    BY DEF Launches, Yields
  <1>3. SameSets(r, t) /\ ReadyOf(t) = ReadyOf(r)
    BY <1>1 DEF SameSets, Ahead, Unaccepted, Asleep, Closing, Drones, Playing, ReadyOf
  <1> HIDE DEF t
  <1>4. LoseView(t, s, S)
    BY <1>1, <1>2, YieldsView
  <1> HIDE DEF S
  <1>5. LoseFrom(r, s, S, t.state, t.settings, ReadyOf(t))
    BY <1>3, <1>4, LosesFrom
  <1> QED  BY <1>1, <1>2, <1>3, <1>5 DEF LaunchView

StartView(r, s, p, adopts, S) ==
    LET agreed  == r.settings \/ adopts
        willing == ReadyOf(r) \cup {p}
        starts  == agreed /\ Connected(r) \subseteq willing
    IN  /\ p \in Connected(r) /\ r.state = "WaitingStart" /\ S \subseteq Connected(r)
        /\ adopts => p \in Players(r)
        /\ IF starts /\ S # {} THEN LoseFrom(r, s, S, "WaitingStart", agreed, willing)
           ELSE /\ S = {}
                /\ s.state = IF starts THEN "InGame" ELSE r.state
                /\ Playing(s) = IF starts THEN Playing(r) \cup Connected(r) ELSE Playing(r)
                /\ s.settings = agreed /\ ReadyOf(s) = willing /\ s.gamemode = r.gamemode
                /\ Ahead(s) = Ahead(r) /\ Unaccepted(s) = Unaccepted(r)
                /\ Connected(s) = Connected(r) /\ Asleep(s) = Asleep(r)
                /\ Closing(s) = Closing(r) /\ Drones(s) = Drones(r)

(* What a GAMESTART writes, as the lifecycle sees it.                       *)
LEMMA WillsView ==
    ASSUME NEW r, RoleInv(r), r.state = "WaitingStart", NEW p \in Connected(r),
           NEW t, NEW adopts \in BOOLEAN, Wills(r, t, p, adopts)
    PROVE  /\ SameSets(r, t) /\ RoleInv(t) /\ t.state = "WaitingStart"
           /\ t.settings = (r.settings \/ adopts) /\ ReadyOf(t) = ReadyOf(r) \cup {p}
           /\ Agreed(t) <=> (r.settings \/ adopts) /\ Connected(r) \subseteq ReadyOf(r) \cup {p}
  <1>1. /\ RoleInv(t) /\ Accepted(t) = Accepted(r) /\ Connected(t) = Connected(r)
        /\ Players(t) = Players(r) /\ Members(t) = Members(r)
        /\ \A q \in Members(r) : /\ t.peers[q].conn = r.peers[q].conn
                                 /\ t.peers[q].drone = r.peers[q].drone
                                 /\ t.peers[q].game = r.peers[q].game
                                 /\ q # p => t.peers[q].ready = r.peers[q].ready
        /\ t.peers[p].ready
    BY WillsInv DEF Wills
  <1>2. /\ t.state = "WaitingStart" /\ t.gamemode = r.gamemode
        /\ t.settings = (r.settings \/ adopts) /\ Ahead(t) = Ahead(r)
    BY DEF Wills, Ahead
  <1>3. Asleep(t) = Asleep(r) /\ Closing(t) = Closing(r) /\ Drones(t) = Drones(r)
    BY <1>1, Subsets DEF Asleep, Closing, Drones
  <1>4. Playing(t) = Playing(r) /\ Unaccepted(t) = Unaccepted(r)
    BY <1>1 DEF Playing, Unaccepted
  <1>5. ReadyOf(t) = ReadyOf(r) \cup {p}
    BY <1>1, Subsets DEF ReadyOf
  <1>6. Agreed(t) <=> t.settings /\ Connected(t) \subseteq ReadyOf(t)
    BY DEF Agreed, ReadyOf
  <1>7. SameSets(r, t)
    BY <1>1, <1>2, <1>3, <1>4 DEF SameSets
  <1> QED  BY <1>1, <1>2, <1>5, <1>6, <1>7

(* Seating makes every connected client play.                               *)
LEMMA SeatsView ==
    ASSUME NEW u, RoleInv(u), u.state = "WaitingStart", NEW s, Seats(u, s)
    PROVE  /\ s.state = "InGame" /\ s.gamemode = u.gamemode /\ s.settings = u.settings
           /\ Ahead(s) = Ahead(u) /\ Unaccepted(s) = Unaccepted(u)
           /\ Connected(s) = Connected(u) /\ Asleep(s) = Asleep(u) /\ Closing(s) = Closing(u)
           /\ Drones(s) = Drones(u) /\ ReadyOf(s) = ReadyOf(u)
           /\ Playing(s) = Playing(u) \cup Connected(u)
  <1>1. /\ Accepted(s) = Accepted(u) /\ Connected(s) = Connected(u) /\ Members(s) = Members(u)
        /\ \A q \in Members(u) : /\ s.peers[q].conn = u.peers[q].conn
                                 /\ s.peers[q].drone = u.peers[q].drone
                                 /\ s.peers[q].ready = u.peers[q].ready
                                 /\ s.peers[q].game = (u.peers[q].game \/ q \in Connected(u))
    <2>1. Members(s) = Members(u)
      BY DEF Seats
    <2> QED  BY <2>1, SeatsInv
  <1>2. Asleep(s) = Asleep(u) /\ Closing(s) = Closing(u) /\ Drones(s) = Drones(u)
    BY <1>1, Subsets DEF Asleep, Closing, Drones
  <1>3. ReadyOf(s) = ReadyOf(u)
    BY <1>1, Subsets DEF ReadyOf
  <1>4. Playing(s) = Playing(u) \cup Connected(u)
    BY <1>1, Subsets DEF Playing
  <1> QED  BY <1>1, <1>2, <1>3, <1>4 DEF Seats, Ahead, Unaccepted

(* A GAMESTART, the start it completes and the loss that aborts it are one  *)
(* GameStart.                                                               *)
LEMMA GameStartsView ==
    ASSUME NEW r, RoleInv(r), NEW s, NEW p, GameStarts(r, s, p)
    PROVE  \E adopts \in BOOLEAN, S \in SUBSET Connected(r) : StartView(r, s, p, adopts, S)
  <1>1. PICK t \in Roles, adopts \in BOOLEAN :
            Wills(r, t, p, adopts) /\ (adopts => p \in Players(r)) /\ Offers(t, s)
    BY DEF GameStarts
  <1>2. r.state = "WaitingStart" /\ p \in Connected(r) /\ s \in Roles /\ Orderly(s)
    BY DEF GameStarts
  <1> DEFINE agreed  == r.settings \/ adopts
             willing == ReadyOf(r) \cup {p}
             starts  == agreed /\ Connected(r) \subseteq willing
  <1>3. /\ SameSets(r, t) /\ RoleInv(t) /\ t.state = "WaitingStart"
        /\ t.settings = agreed /\ ReadyOf(t) = willing /\ (Agreed(t) <=> starts)
    BY <1>1, <1>2, WillsView
  <1>4. CASE ~Agreed(t) /\ s = t
    <2>1. StartView(r, s, p, adopts, {})
      BY <1>1, <1>2, <1>3, <1>4 DEF StartView, SameSets
    <2> QED  BY <1>1, <2>1
  <1>5. CASE Agreed(t) /\ Loses(t, s) /\ Lost(t, s) # {} /\ Lost(t, s) \subseteq Connected(t)
    <2> DEFINE S == Lost(t, s)
    <2>1. Yields(t, s)
      BY <1>2, <1>5 DEF Yields
    <2>2. LoseView(t, s, S)
      BY <1>3, <1>5, <2>1, YieldsView
    <2>3. S # {} /\ S \subseteq Connected(r)
      BY <1>3, <1>5 DEF SameSets
    <2> HIDE DEF S
    <2>4. LoseFrom(r, s, S, "WaitingStart", agreed, willing)
      BY <1>3, <2>2, LosesFrom
    <2>5. StartView(r, s, p, adopts, S)
      BY <1>1, <1>2, <1>3, <1>5, <2>3, <2>4 DEF StartView
    <2> QED  BY <1>1, <2>3, <2>5
  <1>6. CASE Agreed(t) /\ \E u \in Roles : Orderly(u) /\ Loses(t, u) /\ Lost(t, u) = {} /\ Seats(u, s)
    <2>1. PICK u \in Roles : Orderly(u) /\ Loses(t, u) /\ Lost(t, u) = {} /\ Seats(u, s)
      BY <1>6
    <2>2. Yields(t, u)
      BY <2>1 DEF Yields
    <2>3. SameView(t, u)
      BY <1>3, <2>1, <2>2, YieldsView
    <2>4. RoleInv(u) /\ u.state = "WaitingStart"
      BY <1>3, <2>1, <2>3, LosesKeepsInv DEF SameView
    <2>5. /\ s.state = "InGame" /\ s.gamemode = u.gamemode /\ s.settings = u.settings
          /\ Ahead(s) = Ahead(u) /\ Unaccepted(s) = Unaccepted(u)
          /\ Connected(s) = Connected(u) /\ Asleep(s) = Asleep(u) /\ Closing(s) = Closing(u)
          /\ Drones(s) = Drones(u) /\ ReadyOf(s) = ReadyOf(u)
          /\ Playing(s) = Playing(u) \cup Connected(u)
      BY <2>1, <2>4, SeatsView
    <2>6. StartView(r, s, p, adopts, {})
      BY <1>1, <1>2, <1>3, <1>6, <2>3, <2>5 DEF StartView, SameSets, SameView
    <2> QED  BY <1>1, <2>6
  <1> QED  BY <1>1, <1>4, <1>5, <1>6 DEF Offers

-----------------------------------------------------------------------------
(* The role implements the lifecycle.                                       *)

(* The mapping's sets of connections are the views of the role. *)
LEMMA MappedSets ==
    ASSUME RoleInv(role)
    PROVE  /\ InState("Connected") = Connected(role)
           /\ InState("Sleeping") = Asleep(role)
           /\ InState("Disconnecting") = Closing(role)
           /\ {p \in Accepted(role) : role.peers[p].drone} = Drones(role)
           /\ {p \in Connected(role) : role.peers[p].ready} = ReadyOf(role)
           /\ {p \in Members(role) : role.peers[p].game} = Playing(role)
           /\ Life!Accepted = Accepted(role)
           /\ Life!Players = Players(role)
  <1>1. /\ Accepted(role) = Connected(role) \cup Asleep(role) \cup Closing(role)
        /\ Connected(role) = {p \in Accepted(role) : role.peers[p].conn = "Connected"}
    BY AcceptedView DEF RoleInv
  <1>2. /\ InState("Connected") = Connected(role)
        /\ InState("Sleeping") = Asleep(role)
        /\ InState("Disconnecting") = Closing(role)
    BY <1>1 DEF InState, Asleep, Closing
  <1>3. /\ {p \in Accepted(role) : role.peers[p].drone} = Drones(role)
        /\ {p \in Connected(role) : role.peers[p].ready} = ReadyOf(role)
        /\ {p \in Members(role) : role.peers[p].game} = Playing(role)
    BY DEF Drones, ReadyOf, Playing
  <1>4. Life!Accepted = Accepted(role)
    BY <1>1, <1>2 DEF Life!Accepted
  <1>5. Life!Players = Players(role)
    BY <1>2, <1>3, PlayersView DEF Life!Players
  <1> QED  BY <1>2, <1>3, <1>4, <1>5

(* The same equations at both ends of a step. *)
Mapped ==
    /\ InState("Connected") = Connected(role)
    /\ InState("Sleeping") = Asleep(role)
    /\ InState("Disconnecting") = Closing(role)
    /\ {p \in Accepted(role) : role.peers[p].drone} = Drones(role)
    /\ {p \in Connected(role) : role.peers[p].ready} = ReadyOf(role)
    /\ {p \in Members(role) : role.peers[p].game} = Playing(role)
    /\ (role.nextOrder + 1)..MaxJoins = Ahead(role)
    /\ Members(role) \ Accepted(role) = Unaccepted(role)
    /\ Life!Accepted = Accepted(role)
    /\ Life!Players = Players(role)

(* The equations hold under the invariant.                                  *)
LEMMA RoleIsMapped == RoleInv(role) => Mapped
  BY MappedSets DEF Mapped, Ahead, Unaccepted

(* An invisible change is a stutter of the lifecycle.                       *)
LEMMA MapsStutter ==
    ASSUME Mapped, Mapped', SameView(role, role')
    PROVE  UNCHANGED Life!vars
  BY DEF Mapped, SameView, Life!vars, Life!members, Life!game

(* An admission is an Admit.                                                *)
LEMMA MapsAdmit ==
    ASSUME Mapped, Mapped', NEW p, AdmitView(role, role', p)
    PROVE  Life!Next
  <1>1. Life!Admit(p)
    BY DEF Mapped, AdmitView, SameClients, SameGame, Life!Admit, Life!game
  <1>2. p \in (role.nextOrder + 1)..MaxJoins
    BY DEF AdmitView, Mapped
  <1> QED  BY <1>1, <1>2 DEF Life!Next

(* A refusal is a Refuse.                                                   *)
LEMMA MapsRefuse ==
    ASSUME Mapped, Mapped', NEW p, RefuseView(role, role', p)
    PROVE  Life!Next
  <1>1. Life!Refuse(p)
    BY DEF Mapped, RefuseView, SameClients, SameGame, Life!Refuse, Life!game
  <1>2. p \in Members(role) \ Accepted(role)
    BY DEF RefuseView, Unaccepted
  <1> QED  BY <1>1, <1>2 DEF Life!Next

(* A completed SYN is an Enroll.                                            *)
LEMMA MapsEnroll ==
    ASSUME Mapped, Mapped', NEW p, NEW drone, EnrollView(role, role', p, drone)
    PROVE  Life!Next
  <1>1. Life!Enroll(p, drone)
    BY DEF Mapped, EnrollView, Life!Enroll
  <1>2. p \in Members(role) \ Accepted(role) /\ drone \in BOOLEAN
    BY DEF EnrollView, Unaccepted
  <1> QED  BY <1>1, <1>2 DEF Life!Next

(* A client's DISCONNECT is a Sleep.                                        *)
LEMMA MapsSleep ==
    ASSUME Mapped, Mapped', NEW p, SleepView(role, role', p)
    PROVE  Life!Next
  <1>1. Life!Sleep(p)
    BY DEF Mapped, SleepView, SameGame, Life!Sleep
  <1>2. p \in InState("Connected")
    BY DEF SleepView, Mapped
  <1> QED  BY <1>1, <1>2 DEF Life!Next

(* A loss is a Shed.                                                        *)
LEMMA MapsShed ==
    ASSUME Mapped, Mapped', NEW S \in SUBSET Accepted(role), S # {},
           LoseFrom(role, role', S, role.state, role.settings, ReadyOf(role))
    PROVE  Life!Next
  <1>1. Life!Shed(S)
    BY DEF Mapped, LoseFrom, EndView, Life!Shed, Life!Lose, Life!EndsGame
  <1>2. S \in SUBSET Life!Accepted
    BY DEF Mapped
  <1> QED  BY <1>1, <1>2 DEF Life!Next

(* A launch is a Launch.                                                    *)
LEMMA MapsLaunch ==
    ASSUME Mapped, Mapped', NEW S, LaunchView(role, role', S)
    PROVE  Life!Next
  <1>1. Life!Launch(S)
    BY DEF Mapped, LaunchView, LoseFrom, EndView, Life!Launch, Life!Lose, Life!EndsGame
  <1>2. S \in SUBSET InState("Connected")
    BY DEF Mapped, LaunchView
  <1> QED  BY <1>1, <1>2 DEF Life!Next

(* A GAMESTART is a GameStart.                                              *)
LEMMA MapsStart ==
    ASSUME Mapped, Mapped', NEW p, NEW adopts \in BOOLEAN, NEW S,
           StartView(role, role', p, adopts, S)
    PROVE  Life!Next
  <1>0. PICK agreed, willing :
            /\ agreed = (role.settings \/ adopts)
            /\ willing = ReadyOf(role) \cup {p}
    OBVIOUS
  <1> DEFINE starts  == agreed /\ Connected(role) \subseteq willing
  <1>1. /\ p \in Connected(role) /\ role.state = "WaitingStart" /\ S \subseteq Connected(role)
        /\ adopts => p \in Players(role)
        /\ IF starts /\ S # {} THEN LoseFrom(role, role', S, "WaitingStart", agreed, willing)
           ELSE /\ S = {}
                /\ role'.state = IF starts THEN "InGame" ELSE role.state
                /\ Playing(role') = IF starts THEN Playing(role) \cup Connected(role)
                                    ELSE Playing(role)
                /\ role'.settings = agreed /\ ReadyOf(role') = willing
                /\ role'.gamemode = role.gamemode
                /\ Ahead(role') = Ahead(role) /\ Unaccepted(role') = Unaccepted(role)
                /\ Connected(role') = Connected(role) /\ Asleep(role') = Asleep(role)
                /\ Closing(role') = Closing(role) /\ Drones(role') = Drones(role)
    BY <1>0 DEF StartView
  <1>2. /\ {q \in Connected(role) : role.peers[q].ready} \cup {p} = willing
        /\ InState("Connected") = Connected(role) /\ Life!Players = Players(role)
    BY <1>0 DEF ReadyOf, Mapped
  <1>3. ASSUME starts, S # {}
        PROVE  Life!GameStart(p, adopts, S)
    <2>1. LoseFrom(role, role', S, "WaitingStart", agreed, willing)
      BY <1>1, <1>3
    <2>2. Life!Lose(S, "WaitingStart", agreed, willing)
      BY <2>1 DEF Mapped, LoseFrom, EndView, Life!Lose, Life!EndsGame
    <2> QED  BY <1>0, <1>1, <1>2, <1>3, <2>2
             DEF Life!GameStart, Life!Starts, Life!TakesReadiness, Life!Lose
  <1>4. ASSUME ~(starts /\ S # {})
        PROVE  Life!GameStart(p, adopts, S)
    <2>1. /\ {q \in Members(role) : role.peers[q].game} = Playing(role)
          /\ {q \in Members(role') : role'.peers[q].game} = Playing(role')
          /\ {q \in Connected(role') : role'.peers[q].ready} = willing
      BY <1>1, <1>4 DEF Playing, ReadyOf
    <2>2. UNCHANGED <<Life!members, role.gamemode # None>>
      BY <1>1, <1>4 DEF Mapped, Life!members
    <2> QED  BY <1>0, <1>1, <1>2, <1>4, <2>1, <2>2
             DEF Life!GameStart, Life!Starts, Life!TakesReadiness
  <1>5. Life!GameStart(p, adopts, S)
    BY <1>3, <1>4
  <1>6. S \in SUBSET InState("Connected") /\ p \in InState("Connected")
    BY <1>1, <1>2
  <1> QED  BY <1>5, <1>6 DEF Life!Next

(* Every effect of an input is a step of the lifecycle, or none. *)
LEMMA EffectIsLife ==
    ASSUME RoleInv(role), RoleInv(role)', Effect(role, role')
    PROVE  Life!Next \/ UNCHANGED Life!vars
  <1>1. Mapped /\ Mapped'
    BY RoleIsMapped, PTL
  <1>3. CASE Yields(role, role')
    <2>1. CASE SameView(role, role')
      BY <1>1, <2>1, MapsStutter
    <2>2. CASE \E S \in SUBSET Accepted(role) :
                 S # {} /\ LoseFrom(role, role', S, role.state, role.settings, ReadyOf(role))
      BY <1>1, <2>2, MapsShed
    <2> QED  BY <1>3, <2>1, <2>2, ShedsView
  <1>4. CASE Admits(role, role') /\ Cardinality(Members(role)) # MaxPeers
    BY <1>1, <1>4, AdmitsView, MapsAdmit
  <1>5. ASSUME NEW p \in Ids, Refuses(role, role', p)
        PROVE  Life!Next
    BY <1>1, <1>5, RefusesView, MapsRefuse
  <1>6. ASSUME NEW p \in Ids, Enrolls(role, role', p)
        PROVE  Life!Next
    <2>1. PICK drone : EnrollView(role, role', p, drone)
      BY <1>6, EnrollsView
    <2> QED  BY <1>1, <2>1, MapsEnroll
  <1>7. ASSUME NEW p \in Ids, Sleeps(role, role', p)
        PROVE  Life!Next
    BY <1>1, <1>7, SleepsView, MapsSleep
  <1>8. CASE Launches(role, role')
    BY <1>1, <1>8, LaunchesView, MapsLaunch
  <1>9. ASSUME NEW p \in Ids, GameStarts(role, role', p)
        PROVE  Life!Next
    BY <1>1, <1>9, GameStartsView, MapsStart
  <1> QED  BY <1>3, <1>4, <1>5, <1>6, <1>7, <1>8, <1>9 DEF Effect

(* The role implements RoomLifecycle: every input, with the cascade or the  *)
(* timer pass it sets off, is one step the lifecycle promises, or           *)
(* invisible.                                                               *)
THEOREM ImplementsLifecycle == Spec => Lifecycle
  <1>1. Init => Life!Init
    <2> SUFFICES ASSUME Init PROVE Life!Init
      OBVIOUS
    <2>1. /\ role.state = "WaitingLaunch" /\ role.gamemode = None /\ role.settings = FALSE
          /\ role.nextOrder = 0 /\ \A p \in Ids : role.peers[p] = None
      BY DEF Init
    <2>2. Members(role) = {} /\ Accepted(role) = {} /\ Connected(role) = {}
      BY <2>1 DEF Members, Accepted, Connected
    <2>3. (role.nextOrder + 1)..MaxJoins = Ids
      BY <2>1 DEF Ids
    <2> QED  BY <2>1, <2>2, <2>3 DEF Life!Init, InState
  <1>2. RoleInv(role) /\ RoleInv(role)' /\ [Next]_role => [Life!Next]_Life!vars
    <2> SUFFICES ASSUME RoleInv(role), RoleInv(role)', [Next]_role
                 PROVE  Life!Next \/ UNCHANGED Life!vars
      OBVIOUS
    <2>1. CASE Next
      BY <2>1, StepHasEffect, EffectIsLife
    <2>2. CASE UNCHANGED role
      BY <2>2 DEF Life!vars, Life!members, Life!game, InState, Accepted, Connected, Members
    <2> QED  BY <2>1, <2>2
  <1> QED  BY <1>1, <1>2, RoleInvariant, PTL DEF Spec, Lifecycle, Life!Spec
=============================================================================
