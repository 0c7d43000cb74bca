--------------------------- MODULE RoomHostProofs ---------------------------
(***************************************************************************)
(* Proofs about RoomHost, for rooms, outboxes and batches of every size:   *)
(* registry and role agree, what a reduction removes reaches the binding   *)
(* once and is owed everything, without a slow consumer the outboxes       *)
(* decide nothing, and batches and outboxes have the bounds of core.rs.    *)
(*                                                                         *)
(* The argument.  ServerRoleProofs shows that the role's books are in      *)
(* order: a batch names only members, takes each one that it loses out     *)
(* once, and says nothing to it afterwards (Booked).  Ledger relates a     *)
(* reduction to those books while a batch is being applied: S are the      *)
(* members whose removal the reduction has not yet met, T those the batch  *)
(* leaves.  Each action keeps it (SendKeeps, DisconnectKeeps), so a round  *)
(* does; a round that induces another has removed a member, so the rounds  *)
(* of Reduce are enough to reach a batch of nothing, where S, T, the       *)
(* registry and the role are all the same.                                 *)
(*                                                                         *)
(* The bounds.  Charge counts for one member what a reduction has produced *)
(* so far, what the induced actions will send, and what the role can still *)
(* say to it unasked.  No action raises it by more than its own send       *)
(* (ApplyCharges), no round raises it (RoundKeeps), and it begins with     *)
(* what HandleIsBrief allows an input.                                     *)
(***************************************************************************)
EXTENDS RoomHost, ServerRoleProofs

(* Nobody is listed twice. *)
Once(s) == \A i, j \in DOMAIN s : s[i] = s[j] => i = j

(* The capacity is a positive number.                                       *)
LEMMA Capacity == OutboxCapacity \in Nat \ {0}
  BY HostAssumption

(* One more of a list.                                                      *)
LEMMA ListedAppend ==
    ASSUME NEW s \in Seq(Ids), NEW p \in Ids
    PROVE  /\ Append(s, p) \in Seq(Ids) /\ Listed(Append(s, p)) = Listed(s) \cup {p}
           /\ Once(s) /\ p \notin Listed(s) => Once(Append(s, p))
  <1> DEFINE n == Len(s)
             b == Append(s, p)
  <1>1. /\ n \in Nat /\ DOMAIN s = 1..n /\ DOMAIN b = 1..(n + 1) /\ b \in Seq(Ids)
        /\ \A i \in 1..n : b[i] = s[i]
        /\ b[n + 1] = p
    OBVIOUS
  <1>2. n + 1 \in 1..(n + 1) /\ \A i \in 1..(n + 1) : i = n + 1 \/ i \in 1..n
    BY <1>1
  <1>3. \A i \in 1..n : i \in 1..(n + 1)
    BY <1>1
  <1> HIDE DEF n, b
  <1>4. Listed(b) = Listed(s) \cup {p}
    BY <1>1, <1>2, <1>3 DEF Listed
  <1>5. Once(s) /\ p \notin Listed(s) => Once(b)
    BY <1>1, <1>2, <1>3 DEF Once, Listed
  <1> QED  BY <1>1, <1>4, <1>5 DEF b

(* AddOnce adds, once.                                                      *)
LEMMA AddOnceIn ==
    ASSUME NEW s \in Seq(Ids), NEW p \in Ids
    PROVE  /\ AddOnce(s, p) \in Seq(Ids) /\ Listed(AddOnce(s, p)) = Listed(s) \cup {p}
           /\ Once(s) => Once(AddOnce(s, p))
           /\ p \in Listed(s) => AddOnce(s, p) = s
  BY ListedAppend DEF AddOnce

(* A list without repetitions is as long as what it lists is large.         *)
LEMMA ListedOnce ==
    ASSUME NEW s \in Seq(Ids), Once(s)
    PROVE  Len(s) = Cardinality(Listed(s)) /\ Listed(s) \subseteq Ids
  <1> DEFINE n == Len(s)
             S == Listed(s)
  <1>1. n \in Nat /\ DOMAIN s = 1..n /\ s \in [1..n -> Ids]
    OBVIOUS
  <1>2. S = {s[i] : i \in 1..n}
    BY <1>1 DEF Listed
  <1> HIDE DEF n, S
  <1>3. s \in [1..n -> S]
    BY <1>1, <1>2
  <1>4. \A i, j \in 1..n : s[i] = s[j] => i = j
    BY <1>1 DEF Once
  <1>5. s \in Bijection(1..n, S)
    <2>1. IsInjective(s)
      BY <1>1, <1>4 DEF IsInjective
    <2>2. \A t \in S : \E i \in 1..n : s[i] = t
      BY <1>2
    <2> QED  BY <1>3, <2>1, <2>2 DEF Bijection, Injection, Surjection
  <1>6. Cardinality(S) = n
    BY <1>1, <1>5, FS_CountingElements DEF ExistsBijection
  <1>7. S \subseteq Ids
    BY <1>1, <1>2
  <1> QED  BY <1>6, <1>7 DEF n, S

(* Whoever is registered has an outbox.                                     *)
LEMMA RegisteredIn ==
    ASSUME NEW b \in Outboxes
    PROVE  Registered(b) \subseteq Ids /\ \A q \in Registered(b) : b[q] \in Nat
  BY DEF Outboxes, Registered

(* The registry without one member.                                         *)
LEMMA WithoutIn ==
    ASSUME NEW b \in Outboxes, NEW p \in Ids
    PROVE  /\ Without(b, p) \in Outboxes /\ Registered(Without(b, p)) = Registered(b) \ {p}
           /\ \A q \in Ids \ {p} : Without(b, p)[q] = b[q]
  BY DEF Without, Outboxes, Registered

(* Nobody can be forgotten twice.                                           *)
LEMMA WithoutStranger ==
    ASSUME NEW b \in Outboxes, NEW p, p \notin Registered(b)
    PROVE  Without(b, p) = b
  <1>1. CASE p \in Ids
    BY <1>1 DEF Without, Outboxes, Registered
  <1>2. CASE p \notin Ids
    BY <1>2 DEF Without, Outboxes
  <1> QED  BY <1>1, <1>2

-----------------------------------------------------------------------------
(* What a batch sends to one peer, in a batch being applied and in the next *)
(* one.                                                                     *)

Sends(acts, q) == Said(acts, q, ReliablePackets) + Said(acts, q, PlainPackets)

(* What the role may still say to it by itself: a reliable head, a notice.  *)
Due(r, q) == Bit(Awaits(r, q)) + Bit(Endable(r, q))

Prefix(acts, i) == SubSeq(acts, 1, i)

(* What a reduction has produced for q, has induced, and may yet induce. *)
Charge(st, q) == st.produced[q] + Sends(st.induced, q) + Due(st.role, q)

(* These are numbers.                                                       *)
LEMMA SendsIn ==
    ASSUME NEW acts \in Seq(Actions), NEW q
    PROVE  Sends(acts, q) \in Nat
  <1>1. Said(acts, q, ReliablePackets) \in Nat
    BY SaidIn
  <1>2. Said(acts, q, PlainPackets) \in Nat
    BY SaidIn
  <1> QED  BY <1>1, <1>2 DEF Sends

(* Due counts up to two.                                                    *)
LEMMA DueIn ==
    ASSUME NEW r, NEW q
    PROVE  Due(r, q) \in Nat
  BY DEF Due, Bit

(* A batch grows by one action at a time.                                   *)
LEMMA Prefixes ==
    ASSUME NEW acts \in Seq(Actions)
    PROVE  /\ Prefix(acts, 0) = << >> /\ Prefix(acts, Len(acts)) = acts
           /\ \A i \in 0..Len(acts) : Prefix(acts, i) \in Seq(Actions)
           /\ \A i \in 1..Len(acts) :
                 acts[i] \in Actions /\ Prefix(acts, i) = Prefix(acts, i - 1) \o << acts[i] >>
  <1> DEFINE n == Len(acts)
  <1>1. n \in Nat /\ \A i \in 1..n : acts[i] \in Actions
    BY LenProperties
  <1>2. Prefix(acts, 0) = << >>
    BY SubSeqEmpty DEF Prefix
  <1>3. Prefix(acts, n) = acts
    BY SubSeqFull DEF Prefix
  <1>4. ASSUME NEW i \in 0..n PROVE Prefix(acts, i) \in Seq(Actions)
    <2>1. i \in Int /\ \A j \in 1..i : acts[j] \in Actions
      BY <1>1
    <2> QED  BY <2>1, SubSeqProperties DEF Prefix
  <1>5. ASSUME NEW i \in 1..n PROVE Prefix(acts, i) = Prefix(acts, i - 1) \o << acts[i] >>
    <2>1. 1 \in 1..n /\ i \in 1..n
      BY <1>1
    <2> QED  BY <2>1, SubSeqRecursiveSecond DEF Prefix
  <1> QED  BY <1>1, <1>2, <1>3, <1>4, <1>5

(* Of two batches in a row both are said.                                   *)
LEMMA SaidConcat ==
    ASSUME NEW a \in Seq(Actions), NEW b \in Seq(Actions), NEW q, NEW K
    PROVE  Said(a \o b, q, K) = Said(a, q, K) + Said(b, q, K)
  <1> DEFINE n    == Len(b)
             P(i) == Prefix(b, i)
             Adds(i) == Said(a \o P(i), q, K) = Said(a, q, K) + Said(P(i), q, K)
             Bad == {i \in 0..n : ~Adds(i)}
  <1>1. n \in Nat /\ 0 \in 0..n /\ n \in 0..n /\ \A i \in 1..n : i - 1 \in 0..n
    BY LenProperties
  <1>2. /\ P(0) = << >> /\ P(n) = b
        /\ \A i \in 0..n : P(i) \in Seq(Actions)
        /\ \A i \in 1..n : b[i] \in Actions /\ P(i) = P(i - 1) \o << b[i] >>
    BY Prefixes
  <1>3. \A acts \in Seq(Actions) : Said(acts, q, K) \in Nat
    BY SaidIn
  <1> HIDE DEF n, P
  <1>4. Adds(0)
    <2>1. a \o << >> = a
      BY ConcatEmptySeq
    <2>2. Said(<< >>, q, K) = 0 /\ Said(a, q, K) \in Nat
      BY <1>3, SaidNothing
    <2>3. Said(a \o P(0), q, K) = Said(a, q, K) /\ Said(P(0), q, K) = 0
      BY <1>2, <2>1, <2>2
    <2> QED  BY <2>2, <2>3
  <1>5. ASSUME NEW i \in 1..n, Adds(i - 1) PROVE Adds(i)
    <2> DEFINE x == P(i - 1)
               e == b[i]
               k == Bit(e.type = "Send" /\ e.peer = q /\ e.packet \in K)
    <2>1. x \in Seq(Actions) /\ e \in Actions /\ P(i) = x \o << e >>
          /\ Said(a \o x, q, K) = Said(a, q, K) + Said(x, q, K)
      BY <1>1, <1>2, <1>5
    <2> HIDE DEF x, e
    <2>2. << e >> \in Seq(Actions) /\ x \o << e >> = Append(x, e)
          /\ a \o x \in Seq(Actions) /\ (a \o x) \o << e >> = Append(a \o x, e)
      BY <2>1, ConcatProperties, AppendIsConcat
    <2>3. a \o P(i) = Append(a \o x, e) /\ P(i) = Append(x, e)
      BY <2>1, <2>2, ConcatAssociative
    <2>4. /\ Said(Append(a \o x, e), q, K) = Said(a \o x, q, K) + k
          /\ Said(Append(x, e), q, K) = Said(x, q, K) + k
      <3>1. \A acts \in Seq(Actions) : Said(Append(acts, e), q, K) = Said(acts, q, K)
                  + Bit(e.type = "Send" /\ e.peer = q /\ e.packet \in K)
        BY <2>1, SaidAppend
      <3> HIDE DEF k
      <3>2. k = Bit(e.type = "Send" /\ e.peer = q /\ e.packet \in K)
        BY DEF k
      <3>3. \A acts \in Seq(Actions) : Said(Append(acts, e), q, K) = Said(acts, q, K) + k
        BY <3>1, <3>2
      <3>4. a \o x \in Seq(Actions) /\ x \in Seq(Actions)
        BY <2>1, <2>2
      <3> QED  BY <3>3, <3>4
    <2>5. k \in Nat /\ Said(a, q, K) \in Nat /\ Said(x, q, K) \in Nat
      BY <1>3, <2>1 DEF Bit
    <2> HIDE DEF k
    <2>6. /\ Said(a \o P(i), q, K) = Said(a \o x, q, K) + k
          /\ Said(P(i), q, K) = Said(x, q, K) + k
      BY <2>3, <2>4
    <2>7. Said(a \o P(i), q, K) = Said(a, q, K) + Said(P(i), q, K)
      BY <2>1, <2>5, <2>6
    <2> QED  BY <2>7
  <1> HIDE DEF Adds
  <1>6. ASSUME Bad # {} PROVE FALSE
    <2>1. Bad \in SUBSET Nat
      BY <1>1
    <2>2. PICK m \in Bad : \A i \in Bad : m <= i
      BY <1>6, <2>1, LeastOfSet
    <2>3. m \in 0..n /\ ~Adds(m) /\ m # 0
      BY <1>4, <2>2
    <2>4. m \in 1..n /\ m - 1 \in 0..n /\ ~(m <= m - 1)
      BY <1>1, <2>3
    <2>5. Adds(m - 1)
      BY <2>2, <2>4
    <2> QED  BY <1>5, <2>3, <2>4, <2>5
  <1>7. Adds(n)
    BY <1>1, <1>6
  <1> QED  BY <1>2, <1>7 DEF Adds

(* So both are sent.                                                        *)
LEMMA SendsConcat ==
    ASSUME NEW a \in Seq(Actions), NEW b \in Seq(Actions), NEW q
    PROVE  Sends(a \o b, q) = Sends(a, q) + Sends(b, q)
  <1>1. \A K : Said(a \o b, q, K) = Said(a, q, K) + Said(b, q, K)
    BY SaidConcat
  <1>2. \A K : Said(a, q, K) \in Nat /\ Said(b, q, K) \in Nat
    BY SaidIn
  <1> QED  BY <1>1, <1>2 DEF Sends

(* Nothing sends nothing.                                                   *)
LEMMA SendsNothing ==
    ASSUME NEW q
    PROVE  Sends(<< >>, q) = 0
  BY SaidNothing DEF Sends

(* One more action is one send more, at the most.                           *)
LEMMA SendsOne ==
    ASSUME NEW a \in Actions, NEW q
    PROVE  Sends(<< a >>, q) = Bit(a.type = "Send" /\ a.peer = q)
  <1> DEFINE one == << a >>
  <1>1. Append(<< >>, a) = << a >> /\ << >> \in Seq(Actions)
    OBVIOUS
  <1> DEFINE none == << >>
             to(K) == a.type = "Send" /\ a.peer = q /\ a.packet \in K
  <1>5. \A K : Said(none, q, K) = 0
    BY SaidNothing
  <1>6. ASSUME NEW K
        PROVE  Said(Append(none, a), q, K) = Said(none, q, K) + Bit(to(K))
    <2>1. none \in Seq(Actions)
      BY <1>1
    <2> HIDE DEF none
    <2>2. Said(Append(none, a), q, K)
            = Said(none, q, K) + Bit(a.type = "Send" /\ a.peer = q /\ a.packet \in K)
      BY <2>1, SaidAppend
    <2> HIDE DEF to
    <2>3. to(K) = (a.type = "Send" /\ a.peer = q /\ a.packet \in K)
      BY DEF to
    <2> QED  BY <2>2, <2>3
  <1>7. none \in Seq(Actions) /\ Append(none, a) = << a >>
    BY <1>1
  <1> HIDE DEF none
  <1>8. \A K : Bit(to(K)) \in Nat
    BY DEF Bit
  <1> HIDE DEF to
  <1>2. /\ Said(<< a >>, q, ReliablePackets) = Bit(to(ReliablePackets))
        /\ Said(<< a >>, q, PlainPackets) = Bit(to(PlainPackets))
    <2>1. \A K : Said(<< a >>, q, K) = 0 + Bit(to(K))
      BY <1>5, <1>6, <1>7
    <2> QED  BY <1>8, <2>1
  <1>3. a.type = "Send" => (a.packet \in PlainPackets <=> a.packet \notin ReliablePackets)
    <2>1. a.type = "Send" => a.packet \in ServerPackets
      BY DEF Actions, GameEnded
    <2> QED  BY <2>1 DEF PlainPackets
  <1>4. \A t : Bit(t) \in {0, 1}
    BY DEF Bit
  <1>9. to(ReliablePackets) => ~to(PlainPackets)
    BY <1>3 DEF to
  <1>10. (a.type = "Send" /\ a.peer = q) <=> (to(ReliablePackets) \/ to(PlainPackets))
    BY <1>3 DEF to
  <1> QED  BY <1>2, <1>9, <1>10 DEF Sends, Bit

(* A context is as heavy as its heads and words.                            *)
LEMMA HeadsAndWords ==
    ASSUME NEW c \in Contexts, NEW q
    PROVE  Sends(c.actions, q) + Due(c.role, q) = Heads(c, q) + Words(c, q)
  <1>1. /\ Said(c.actions, q, ReliablePackets) \in Nat /\ Said(c.actions, q, PlainPackets) \in Nat
    BY CountsIn
  <1>2. Bit(Awaits(c.role, q)) \in Nat /\ Bit(Endable(c.role, q)) \in Nat
    BY DEF Bit
  <1> QED  BY <1>1, <1>2 DEF Sends, Due, Heads, Words

-----------------------------------------------------------------------------
(* One action of a batch.                                                   *)

(* The Leave of a slow consumer, whether or not the role still knows it.    *)
LEMMA LeaveRoleIn ==
    ASSUME NEW r, RoleInv(r), NEW p \in Ids, NEW d, d = LeaveRole(r, p)
    PROVE  /\ d \in Contexts /\ RoleInv(d.role) /\ p \notin Members(d.role)
           /\ Booked(Members(r), Members(d.role), d.actions)
           /\ p \notin Members(r) => d.role = r /\ d.actions = << >>
           /\ \A q \in Ids : Sends(d.actions, q) + Due(d.role, q) <= Due(r, q)
  <1> DEFINE c == Fresh(r)
  <1>0. ASSUME d \in Contexts, Lighter(c, d), NEW q \in Ids
        PROVE  Sends(d.actions, q) + Due(d.role, q) <= Due(r, q)
    <2>1. c \in Contexts /\ c.role = r /\ c.actions = << >>
      BY FreshIn DEF RoleInv
    <2> HIDE DEF c
    <2>2. /\ Sends(d.actions, q) + Due(d.role, q) = Heads(d, q) + Words(d, q)
          /\ Sends(c.actions, q) + Due(c.role, q) = Heads(c, q) + Words(c, q)
      BY <1>0, <2>1, HeadsAndWords
    <2>3. /\ Heads(d, q) \in Nat /\ Words(d, q) \in Nat /\ Heads(c, q) \in Nat /\ Words(c, q) \in Nat
      BY <1>0, <2>1, CountsIn
    <2>4. Heads(d, q) <= Heads(c, q) /\ Words(d, q) <= Words(c, q)
      BY <1>0 DEF Lighter
    <2>5. Sends(c.actions, q) = 0 /\ Due(r, q) \in Nat
      BY <2>1, SendsNothing, DueIn
    <2> QED  BY <2>1, <2>2, <2>3, <2>4, <2>5
  <1>1. c \in Contexts /\ c.role = r /\ c.actions = << >>
    BY FreshIn DEF RoleInv
  <1>2. CASE p \notin Members(r)
    <2>1. d = c
      BY <1>2 DEF LeaveRole
    <2>2. Booked(Members(r), Members(r), << >>)
      BY BookedNothing
    <2>3. Lighter(c, d)
      BY <1>1, <2>1, LighterSelf
    <2> HIDE DEF c
    <2> QED  BY <1>0, <1>1, <1>2, <2>1, <2>2, <2>3
  <1>3. CASE p \in Members(r)
    <2>1. d = OnLeave(c, p)
      BY <1>3 DEF LeaveRole
    <2> HIDE DEF c
    <2>2. /\ d \in Contexts /\ Hushed(c, d) /\ p \notin Members(d.role)
          /\ p \in Accepted(r) => Yields(r, d.role)
          /\ p \notin Accepted(r) => Refuses(r, d.role, p)
          /\ Lighter(c, d)
      BY <1>1, <1>3, <2>1, OnLeaveIn
    <2>3. Effect(r, d.role)
      BY <2>2 DEF Effect
    <2>4. RoleInv(d.role)
      BY <2>3, EffectInv
    <2>5. Quiet(r, d)
      BY <2>2, FreshOf DEF c
    <2> QED  BY <1>0, <1>3, <2>2, <2>4, <2>5 DEF Quiet
  <1> QED  BY <1>2, <1>3

(* A reduction's fields have their types.                                   *)
LEMMA ReductionFields ==
    ASSUME NEW st
    PROVE  st \in Reductions <=>
             /\ st = [role |-> st.role, backlog |-> st.backlog, full |-> st.full,
                      slow |-> st.slow, produced |-> st.produced,
                      disconnects |-> st.disconnects, owed |-> st.owed,
                      induced |-> st.induced]
             /\ st.role \in Roles /\ st.backlog \in Outboxes /\ st.full \in SUBSET Ids
             /\ st.slow \in Seq(Ids) /\ st.produced \in [Ids -> Nat]
             /\ st.disconnects \in Seq(Ids) /\ st.owed \in [Ids -> Nat]
             /\ st.induced \in Seq(Actions)
  BY DEF Reductions

(* Who is registered, and who was removed: S are the members whose removal  *)
(* by the role the reduction has not met, before is the registry when the   *)
(* reduction began.                                                         *)
Rolls(before, S, st) ==
    /\ Registered(st.backlog) = S \ Listed(st.slow)
    /\ Registered(before) = S \cup Listed(st.disconnects)
    /\ S \cap Listed(st.disconnects) = {} /\ Listed(st.slow) \subseteq Registered(before)
    /\ Once(st.disconnects)

(* What is queued, and what is owed. *)
Accounts(before, S, st) ==
    /\ \A p \in Registered(st.backlog) : st.backlog[p] = before[p] + st.produced[p]
    /\ \A p \in S : st.owed[p] = 0
    /\ \A p \in Listed(st.disconnects) \ Listed(st.slow) :
          st.owed[p] = before[p] + st.produced[p]

(* The role, and the batch its Leaves have induced so far; T are the        *)
(* members the current batch leaves.                                        *)
Inducing(T, st) ==
    /\ RoleInv(st.role) /\ Booked(T, Members(st.role), st.induced)
    /\ Members(st.role) = T => st.induced = << >>
    /\ Listed(st.slow) \cap Members(st.role) = {}

(* The reduction began with the role r and the members f at capacity, none  *)
(* of whom has been sent anything and kept.                                 *)
Began(f, r, st) ==
    /\ st.full = f /\ (f = {} => st.role = r)
    /\ \A p \in f \cap Registered(st.backlog) : st.produced[p] = 0

Ledger(before, f, r, S, T, st) ==
    /\ st \in Reductions /\ Began(f, r, st)
    /\ T \subseteq S /\ Rolls(before, S, st) /\ Accounts(before, S, st) /\ Inducing(T, st)

(* A send counts, and is queued, dropped, or the end of a slow consumer.    *)
LEMMA SendKeeps ==
    ASSUME NEW before \in Outboxes, NEW f, NEW r, NEW S, NEW T, NEW st,
           Ledger(before, f, r, S, T, st), NEW p \in S \cap Ids, NEW s, s = ApplySend(st, p)
    PROVE  Ledger(before, f, r, S, T, s)
  <1> DEFINE e == [st EXCEPT !.produced[p] = @ + 1]
             b == st.backlog
             m == st.produced[p] + 1
  <1>1. /\ st \in Reductions /\ Began(f, r, st) /\ T \subseteq S
        /\ Rolls(before, S, st) /\ Accounts(before, S, st) /\ Inducing(T, st)
    BY DEF Ledger
  <1>2. /\ b \in Outboxes /\ st.produced \in [Ids -> Nat] /\ m \in Nat /\ st.slow \in Seq(Ids)
        /\ Registered(b) \subseteq Ids /\ Registered(before) \subseteq Ids
        /\ \A q \in Registered(b) : b[q] \in Nat
        /\ \A q \in Registered(before) : before[q] \in Nat
        /\ p \in Ids /\ p \in S /\ Registered(b) \subseteq Registered(before)
    BY <1>1, ReductionFields, RegisteredIn DEF Rolls
  <1>3. /\ e = [role |-> st.role, backlog |-> b, full |-> st.full, slow |-> st.slow,
                produced |-> [st.produced EXCEPT ![p] = m], disconnects |-> st.disconnects,
                owed |-> st.owed, induced |-> st.induced]
        /\ e \in Reductions
    <2> DEFINE made == [st.produced EXCEPT ![p] = m]
    <2>1. made \in [Ids -> Nat] /\ e = [st EXCEPT !.produced = made]
      BY <1>2
    <2> HIDE DEF made, e
    <2>2. /\ e = [role |-> st.role, backlog |-> b, full |-> st.full, slow |-> st.slow,
                  produced |-> made, disconnects |-> st.disconnects,
                  owed |-> st.owed, induced |-> st.induced]
          /\ e \in Reductions
      BY <1>1, <2>1 DEF Reductions
    <2> QED  BY <2>2 DEF made
  <1>4. /\ e.produced[p] = m /\ e.produced \in [Ids -> Nat]
        /\ \A q \in Ids \ {p} : e.produced[q] = st.produced[q]
    BY <1>2, <1>3
  <1>5. s = Queue(e, p)
    BY DEF ApplySend
  <1> HIDE DEF e
  <1>6. p \notin Listed(st.disconnects)
    BY <1>1, <1>2 DEF Rolls
  <1>7. \A q \in Listed(st.disconnects) \ Listed(st.slow) :
           st.owed[q] = before[q] + e.produced[q]
    <2>1. Listed(st.disconnects) \subseteq Ids
      BY <1>1, <1>2 DEF Rolls
    <2> QED  BY <1>1, <1>4, <1>6, <2>1 DEF Accounts
  <1>8. CASE p \notin Registered(b)
    <2>1. s = e
      BY <1>3, <1>5, <1>8 DEF Queue
    <2>2. \A q \in Registered(b) : b[q] = before[q] + e.produced[q]
      BY <1>1, <1>2, <1>4, <1>8 DEF Accounts
    <2>3. Accounts(before, S, e) /\ Rolls(before, S, e) /\ Inducing(T, e)
      BY <1>1, <1>3, <1>7, <2>2 DEF Accounts, Rolls, Inducing
    <2>4. Began(f, r, e)
      <3>1. \A q \in f \cap Registered(b) : e.produced[q] = 0
        BY <1>1, <1>2, <1>4, <1>8 DEF Began
      <3> QED  BY <1>1, <1>3, <3>1 DEF Began
    <2> QED  BY <1>1, <1>3, <2>1, <2>3, <2>4 DEF Ledger
  <1>9. CASE p \in Registered(b) /\ ~IsSlow(e, p)
    <2> DEFINE n  == b[p] + 1
               bb == [b EXCEPT ![p] = n]
    <2>1. n \in Nat
      BY <1>2, <1>9
    <2>2. s = [e EXCEPT !.backlog = bb]
      BY <1>3, <1>5, <1>9 DEF Queue
    <2> HIDE DEF n
    <2>3. /\ bb \in Outboxes /\ Registered(bb) = Registered(b) /\ bb[p] = n
          /\ \A q \in Ids \ {p} : bb[q] = b[q]
      <3>2. bb = [b EXCEPT ![p] = n]
        OBVIOUS
      <3>3. b \in Outboxes /\ p \in Ids /\ n \in Nat
        BY <1>2, <2>1
      <3> HIDE DEF b, bb
      <3>1. /\ bb \in Outboxes /\ Registered(bb) = Registered(b) \cup {p} /\ bb[p] = n
            /\ \A q \in Ids \ {p} : bb[q] = b[q]
        BY <3>2, <3>3, Constants DEF Outboxes, Registered
      <3> QED  BY <1>9, <3>1
    <2> HIDE DEF bb
    <2>4. s = [e EXCEPT !.backlog = bb] /\ s \in Reductions /\ s.backlog = bb
          /\ s.role = st.role /\ s.full = st.full /\ s.slow = st.slow
          /\ s.produced = e.produced /\ s.disconnects = st.disconnects
          /\ s.owed = st.owed /\ s.induced = st.induced
      BY <1>3, <2>2, <2>3 DEF Reductions
    <2>5. \A q \in Registered(bb) : bb[q] = before[q] + e.produced[q]
      <3>1. n = before[p] + m
        <4>1. b[p] = before[p] + st.produced[p] /\ before[p] \in Nat /\ st.produced[p] \in Nat
          BY <1>1, <1>2, <1>9 DEF Accounts
        <4> QED  BY <4>1 DEF n
      <3> HIDE DEF m
      <3> QED  BY <1>1, <1>2, <1>4, <2>3, <3>1 DEF Accounts
    <2>6. Accounts(before, S, s) /\ Rolls(before, S, s) /\ Inducing(T, s)
      BY <1>1, <1>7, <2>3, <2>4, <2>5 DEF Accounts, Rolls, Inducing
    <2>7. Began(f, r, s)
      <3>1. p \notin f
        BY <1>1, <1>3, <1>9 DEF IsSlow, Began
      <3>2. \A q \in f \cap Registered(b) : e.produced[q] = 0
        BY <1>1, <1>2, <1>4, <3>1 DEF Began
      <3> QED  BY <1>1, <2>3, <2>4, <3>2 DEF Began
    <2> QED  BY <1>1, <2>4, <2>6, <2>7 DEF Ledger
  <1>10. CASE p \in Registered(b) /\ IsSlow(e, p)
    <2> DEFINE left == LeaveRole(st.role, p)
               bb   == Without(b, p)
               gone == Append(st.slow, p)
               said == st.induced \o left.actions
               N    == Members(st.role)
               M    == Members(left.role)
    <2>1. s = [role |-> left.role, backlog |-> bb, full |-> st.full, slow |-> gone,
               produced |-> e.produced, disconnects |-> st.disconnects,
               owed |-> st.owed, induced |-> said]
      <3> DEFINE g == Forget(e, p)
      <3>1. s = Induce(g, left)
        BY <1>3, <1>5, <1>10 DEF Queue, RemoveSlow
      <3>2. g = [role |-> st.role, backlog |-> bb, full |-> st.full, slow |-> gone,
                 produced |-> e.produced, disconnects |-> st.disconnects,
                 owed |-> st.owed, induced |-> st.induced]
        <4> DEFINE made == e.produced
                   was  == st.slow
        <4>1. e = [role |-> st.role, backlog |-> b, full |-> st.full, slow |-> was,
                   produced |-> made, disconnects |-> st.disconnects,
                   owed |-> st.owed, induced |-> st.induced]
          BY <1>3
        <4>2. bb = Without(b, p) /\ gone = Append(was, p)
          OBVIOUS
        <4> HIDE DEF b, bb, gone, was, made
        <4>3. g = [role |-> st.role, backlog |-> bb, full |-> st.full, slow |-> gone,
                   produced |-> made, disconnects |-> st.disconnects,
                   owed |-> st.owed, induced |-> st.induced]
          <5>1. e.backlog = b /\ e.slow = was
            BY <4>1
          <5>2. Without(e.backlog, p) = bb /\ Append(e.slow, p) = gone
            BY <4>2, <5>1
          <5>3. g = [e EXCEPT !.backlog = bb, !.slow = gone]
            BY <5>2 DEF Forget
          <5> HIDE DEF g
          <5> QED  BY <4>1, <5>3
        <4> QED  BY <4>3 DEF made
      <3> HIDE DEF g, left, bb, gone
      <3> QED  BY <3>1, <3>2 DEF Induce
    <2>2. /\ bb \in Outboxes /\ Registered(bb) = Registered(b) \ {p}
          /\ \A q \in Ids \ {p} : bb[q] = b[q]
      BY <1>2, WithoutIn
    <2>3. /\ gone \in Seq(Ids) /\ Listed(gone) = Listed(st.slow) \cup {p}
      BY <1>2, ListedAppend
    <2>4. RoleInv(st.role) /\ Booked(T, N, st.induced) /\ st.induced \in Seq(Actions)
      BY <1>1, ReductionFields DEF Inducing
    <2>5. /\ left \in Contexts /\ RoleInv(left.role) /\ p \notin M
          /\ Booked(N, M, left.actions)
          /\ p \notin N => left.role = st.role /\ left.actions = << >>
      BY <1>2, <2>4, LeaveRoleIn
    <2>6. left.actions \in Seq(Actions) /\ left.role \in Roles
      BY <2>5, ContextFields
    <2> HIDE DEF left, bb, gone
    <2>7. said \in Seq(Actions) /\ Booked(T, M, said)
      <3> HIDE DEF N, M
      <3>1. Booked(T, M, st.induced \o left.actions)
        BY <2>4, <2>5, <2>6, BookedConcat
      <3> QED  BY <2>4, <2>6, <3>1
    <2>8. M = T => said = << >>
      <3>1. N \subseteq T /\ M \subseteq N
        BY <2>4, <2>5 DEF Booked
      <3>2. ASSUME M = T PROVE st.induced = << >> /\ left.actions = << >>
        BY <1>1, <2>5, <3>1, <3>2 DEF Inducing
      <3> QED  BY <3>2
    <2> HIDE DEF said
    <2>9. /\ s \in Reductions /\ s.role = left.role /\ s.backlog = bb /\ s.full = st.full
          /\ s.slow = gone /\ s.produced = e.produced /\ s.disconnects = st.disconnects
          /\ s.owed = st.owed /\ s.induced = said
      BY <1>3, <2>1, <2>2, <2>3, <2>6, <2>7 DEF Reductions
    <2>10. Began(f, r, s)
      <3>1. p \in f
        BY <1>1, <1>3, <1>10 DEF IsSlow, Began
      <3>2. \A q \in f \cap Registered(bb) : e.produced[q] = 0
        BY <1>1, <1>2, <1>4, <2>2 DEF Began
      <3> QED  BY <1>1, <2>9, <3>1, <3>2 DEF Began
    <2>11. Rolls(before, S, s)
      BY <1>1, <1>2, <1>10, <2>2, <2>3, <2>9 DEF Rolls
    <2>12. Accounts(before, S, s)
      <3>1. \A q \in Registered(bb) : q # p /\ bb[q] = b[q] /\ q \in Registered(b)
        BY <1>2, <2>2
      <3>2. \A q \in Registered(bb) : bb[q] = before[q] + e.produced[q]
        BY <1>1, <1>2, <1>4, <3>1 DEF Accounts
      <3> QED  BY <1>1, <1>7, <2>3, <2>9, <3>2 DEF Accounts
    <2>13. Inducing(T, s)
      <3>1. M \subseteq N
        BY <2>5 DEF Booked
      <3> QED  BY <1>1, <2>3, <2>5, <2>7, <2>8, <2>9, <3>1 DEF Inducing
    <2> QED  BY <1>1, <2>9, <2>10, <2>11, <2>12, <2>13 DEF Ledger
  <1> QED  BY <1>8, <1>9, <1>10

(* A removal captures what is owed, and reports.                            *)
LEMMA DisconnectKeeps ==
    ASSUME NEW before \in Outboxes, NEW f, NEW r, NEW S, NEW T, NEW st,
           Ledger(before, f, r, S, T, st), NEW p \in (S \ T) \cap Ids,
           NEW s, s = ApplyDisconnect(st, p)
    PROVE  Ledger(before, f, r, S \ {p}, T, s)
  <1> DEFINE b    == st.backlog
             bb   == Without(b, p)
             owed == Capture(st, p)
             gone == AddOnce(st.disconnects, p)
             n    == b[p]
  <1>1. /\ st \in Reductions /\ Began(f, r, st) /\ T \subseteq S
        /\ Rolls(before, S, st) /\ Accounts(before, S, st) /\ Inducing(T, st)
    BY DEF Ledger
  <1>2. /\ b \in Outboxes /\ st.produced \in [Ids -> Nat] /\ st.owed \in [Ids -> Nat]
        /\ st.disconnects \in Seq(Ids) /\ p \in Ids /\ p \in S /\ p \notin T
        /\ Registered(b) \subseteq Ids /\ \A q \in Registered(b) : b[q] \in Nat
    BY <1>1, ReductionFields, RegisteredIn
  <1>3. /\ bb \in Outboxes /\ Registered(bb) = Registered(b) \ {p}
        /\ \A q \in Ids \ {p} : bb[q] = b[q]
    BY <1>2, WithoutIn
  <1>4. /\ gone \in Seq(Ids) /\ Listed(gone) = Listed(st.disconnects) \cup {p}
        /\ Once(gone)
    BY <1>1, <1>2, AddOnceIn DEF Rolls
  <1>5. owed = IF p \in Registered(b) THEN [st.owed EXCEPT ![p] = n] ELSE st.owed
    BY <1>1, <1>2 DEF Capture, Accounts
  <1>6. /\ owed \in [Ids -> Nat] /\ \A q \in Ids \ {p} : owed[q] = st.owed[q]
        /\ p \in Registered(b) => owed[p] = b[p]
    BY <1>2, <1>5
  <1>7. s = [st EXCEPT !.owed = owed, !.backlog = bb, !.disconnects = gone]
    BY DEF ApplyDisconnect
  <1> HIDE DEF bb, owed, gone, n
  <1>8. /\ s \in Reductions /\ s.role = st.role /\ s.backlog = bb /\ s.full = st.full
        /\ s.slow = st.slow /\ s.produced = st.produced /\ s.disconnects = gone
        /\ s.owed = owed /\ s.induced = st.induced
    BY <1>1, <1>3, <1>4, <1>6, <1>7 DEF Reductions
  <1>9. Rolls(before, S \ {p}, s)
    BY <1>1, <1>2, <1>3, <1>4, <1>8 DEF Rolls
  <1>10. Registered(before) \subseteq Ids
    BY RegisteredIn
  <1>11. Accounts(before, S \ {p}, s)
    <2>1. \A q \in Registered(bb) : bb[q] = before[q] + st.produced[q]
      BY <1>1, <1>2, <1>3 DEF Accounts
    <2>2. \A q \in S \ {p} : q \in Ids /\ owed[q] = 0
      BY <1>1, <1>6, <1>10 DEF Accounts, Rolls
    <2>3. ASSUME NEW q \in Listed(gone) \ Listed(st.slow)
          PROVE  owed[q] = before[q] + st.produced[q]
      <3>1. CASE q = p
        <4>1. p \in Registered(b)
          BY <1>1, <1>2, <2>3, <3>1 DEF Rolls
        <4> QED  BY <1>1, <1>6, <3>1, <4>1 DEF Accounts
      <3>2. CASE q # p
        <4>1. q \in Listed(st.disconnects) \ Listed(st.slow) /\ q \in Ids
          BY <1>1, <1>4, <1>10, <2>3, <3>2 DEF Rolls
        <4> QED  BY <1>1, <1>6, <3>2, <4>1 DEF Accounts
      <3> QED  BY <3>1, <3>2
    <2> QED  BY <1>8, <2>1, <2>2, <2>3 DEF Accounts
  <1>12. T \subseteq S \ {p} /\ Began(f, r, s) /\ Inducing(T, s)
    BY <1>1, <1>2, <1>3, <1>8 DEF Began, Inducing
  <1> QED  BY <1>8, <1>9, <1>11, <1>12 DEF Ledger

-----------------------------------------------------------------------------
(* A round: a whole batch.                                                  *)

(* The members left, T, and those whose removal is still to come after the  *)
(* first i actions of a batch.                                              *)
StillIn(S, T, acts, i) ==
    T \cup {p \in S : \E j \in DOMAIN acts : j > i /\ Ends(acts[j], p)}

(* A batch whose books are in order removes its members one by one, each    *)
(* when it says so, and speaks to those who are still in.                   *)
LEMMA StillInSteps ==
    ASSUME NEW S \in SUBSET Ids, NEW T, NEW acts \in Seq(Actions), Booked(S, T, acts)
    PROVE  /\ StillIn(S, T, acts, 0) = S /\ StillIn(S, T, acts, Len(acts)) = T
           /\ \A i \in 1..Len(acts) :
                 LET a    == acts[i]
                     was  == StillIn(S, T, acts, i - 1)
                     left == StillIn(S, T, acts, i)
                 IN  /\ a.type = "Send" => a.peer \in was /\ left = was
                     /\ a.type = "Disconnect" => a.peer \in was \ T /\ left = was \ {a.peer}
                     /\ a.type = "GameEnded" => left = was
  <1> DEFINE n        == Len(acts)
             Still(i) == StillIn(S, T, acts, i)
  <1>1. n \in Nat /\ DOMAIN acts = 1..n /\ \A i \in 1..n : acts[i] \in Actions
    OBVIOUS
  <1> HIDE DEF n
  <1>2. /\ T \subseteq S
        /\ \A p \in S \ T : \E i \in 1..n : Ends(acts[i], p)
        /\ \A i \in 1..n : acts[i].type = "Disconnect" => acts[i].peer \notin T
        /\ \A i \in 1..n : acts[i].type # "GameEnded" =>
              acts[i].peer \in S /\ \A j \in 1..(i - 1) : ~Ends(acts[j], acts[i].peer)
    BY <1>1 DEF Booked
  <1>3. \A i : Still(i) = T \cup {p \in S : \E j \in 1..n : j > i /\ Ends(acts[j], p)}
    BY <1>1 DEF StillIn
  <1> HIDE DEF Still
  <1>4. Still(0) = S
    <2>1. \A j \in 1..n : j > 0
      BY <1>1
    <2> QED  BY <1>2, <1>3, <2>1
  <1>5. Still(n) = T
    <2>1. \A j \in 1..n : ~(j > n)
      BY <1>1
    <2> QED  BY <1>3, <2>1
  <1>6. ASSUME NEW i \in 1..n
        PROVE  /\ acts[i].type = "Send" => acts[i].peer \in Still(i - 1) /\ Still(i) = Still(i - 1)
               /\ acts[i].type = "Disconnect" =>
                     acts[i].peer \in Still(i - 1) \ T /\ Still(i) = Still(i - 1) \ {acts[i].peer}
               /\ acts[i].type = "GameEnded" => Still(i) = Still(i - 1)
    <2> DEFINE a == acts[i]
               q == a.peer
    <2>1. \A j \in 1..n : j > i - 1 <=> j > i \/ j = i
      BY <1>1
    <2>2. /\ Still(i - 1) = T \cup {p \in S : \E j \in 1..n : j > i - 1 /\ Ends(acts[j], p)}
          /\ Still(i) = T \cup {p \in S : \E j \in 1..n : j > i /\ Ends(acts[j], p)}
      BY <1>3
    <2>3. Still(i - 1) = Still(i) \cup {p \in S : Ends(a, p)}
      BY <2>1, <2>2
    <2>4. CASE a.type = "Send"
      <3>1. Still(i) = Still(i - 1)
        BY <2>3, <2>4 DEF Ends
      <3>2. q \in S /\ \A j \in 1..(i - 1) : ~Ends(acts[j], q)
        BY <1>2, <2>4
      <3>3. q \in Still(i - 1)
        <4>1. CASE q \in T
          BY <2>2, <4>1
        <4>2. CASE q \notin T
          <5>1. PICK j \in 1..n : Ends(acts[j], q)
            BY <1>2, <3>2, <4>2
          <5>2. j \notin 1..(i - 1)
            BY <3>2, <5>1
          <5>3. j > i - 1
            BY <1>1, <5>2
          <5> QED  BY <2>2, <3>2, <5>1, <5>3
        <4> QED  BY <4>1, <4>2
      <3> QED  BY <2>4, <3>1, <3>3
    <2>5. CASE a.type = "Disconnect"
      <3>1. q \in S /\ q \notin T /\ Ends(a, q) /\ \A p : Ends(a, p) => p = q
        BY <1>2, <2>5 DEF Ends
      <3>2. ASSUME NEW j \in 1..n, j > i, Ends(acts[j], q) PROVE FALSE
        <4>1. i \in 1..(j - 1) /\ acts[j].type # "GameEnded" /\ acts[j].peer = q
          BY <1>1, <3>2 DEF Ends
        <4> QED  BY <1>2, <3>1, <4>1
      <3>3. q \notin Still(i)
        BY <2>2, <3>1, <3>2
      <3> QED  BY <2>3, <2>5, <3>1, <3>3
    <2>6. CASE a.type = "GameEnded"
      BY <2>3, <2>6 DEF Ends
    <2>7. a.type \in {"Send", "Disconnect", "GameEnded"}
      BY <1>1, ActionKinds
    <2> QED  BY <2>4, <2>5, <2>6, <2>7
  <1> QED  BY <1>4, <1>5, <1>6 DEF n, Still

(* The batch a reduction has induced takes its members S down to those the  *)
(* role has, once it is applied.                                            *)
Ready(before, f, r, S, st) ==
    /\ st \in Reductions /\ Booked(S, Members(st.role), st.induced)
    /\ Ledger(before, f, r, S, Members(st.role), [st EXCEPT !.induced = << >>])

(* One action, whatever it is.                                              *)
LEMMA ApplyKeeps ==
    ASSUME NEW before \in Outboxes, NEW f, NEW r, NEW S \in SUBSET Ids, NEW T, NEW N, NEW st,
           Ledger(before, f, r, S, T, st), NEW a \in Actions,
           a.type = "Send" => a.peer \in S /\ N = S,
           a.type = "Disconnect" => a.peer \in S \ T /\ N = S \ {a.peer},
           a.type = "GameEnded" => N = S,
           NEW s, s = Apply(st, a)
    PROVE  Ledger(before, f, r, N, T, s)
  <1>1. a.type \in {"Send", "Disconnect", "GameEnded"}
    BY ActionKinds
  <1>2. CASE a.type = "Send"
    <2>1. s = ApplySend(st, a.peer) /\ a.peer \in S \cap Ids
      BY <1>2 DEF Apply
    <2> QED  BY <1>2, <2>1, SendKeeps
  <1>3. CASE a.type = "Disconnect"
    <2>1. s = ApplyDisconnect(st, a.peer) /\ a.peer \in (S \ T) \cap Ids
      BY <1>3 DEF Apply
    <2> QED  BY <1>3, <2>1, DisconnectKeeps
  <1>4. CASE a.type = "GameEnded"
    <2>1. s = st
      BY <1>4 DEF Apply
    <2> QED  BY <1>4, <2>1
  <1> QED  BY <1>1, <1>2, <1>3, <1>4

(* A send charges its receiver with one packet, and the Leave of a slow     *)
(* consumer sends nobody more than was due to it.                           *)
LEMMA ApplyCharges ==
    ASSUME NEW st \in Reductions, RoleInv(st.role), NEW a \in Actions,
           a.type = "Send" => a.peer \in Ids,
           NEW s, s = Apply(st, a), s \in Reductions, NEW q \in Ids
    PROVE  Charge(s, q) <= Charge(st, q) + Sends(<< a >>, q)
  <1> DEFINE k == Sends(<< a >>, q)
  <1>1. /\ st.produced \in [Ids -> Nat] /\ st.induced \in Seq(Actions)
        /\ st.produced[q] \in Nat /\ Sends(st.induced, q) \in Nat /\ Due(st.role, q) \in Nat
    BY ReductionFields, SendsIn, DueIn
  <1>2. k = Bit(a.type = "Send" /\ a.peer = q) /\ k \in Nat
    BY SendsOne DEF Bit
  <1> HIDE DEF k
  <1>3. ASSUME s.role = st.role, s.induced = st.induced, s.produced[q] = st.produced[q] + k
        PROVE  Charge(s, q) <= Charge(st, q) + k
    BY <1>1, <1>2, <1>3 DEF Charge
  <1>4. a.type \in {"Send", "Disconnect", "GameEnded"}
    BY ActionKinds
  <1>5. CASE a.type = "GameEnded"
    <2>1. s = st /\ k = 0
      BY <1>2, <1>5 DEF Apply, Bit
    <2> QED  BY <1>1, <1>3, <2>1 DEF k
  <1>6. CASE a.type = "Disconnect"
    <2> DEFINE p    == a.peer
               owed == Capture(st, p)
               bb   == Without(st.backlog, p)
               gone == AddOnce(st.disconnects, p)
    <2>1. s = [st EXCEPT !.owed = owed, !.backlog = bb, !.disconnects = gone] /\ k = 0
      BY <1>2, <1>6 DEF Apply, ApplyDisconnect, Bit
    <2> HIDE DEF owed, bb, gone
    <2>2. s.role = st.role /\ s.induced = st.induced /\ s.produced = st.produced
      BY <2>1 DEF Reductions
    <2> QED  BY <1>1, <1>3, <2>1, <2>2 DEF k
  <1>7. CASE a.type = "Send"
    <2> DEFINE p    == a.peer
               m    == st.produced[p] + 1
               made == [st.produced EXCEPT ![p] = m]
               e    == [st EXCEPT !.produced = made]
    <2>1. p \in Ids /\ s = Queue(e, p) /\ k = (IF p = q THEN 1 ELSE 0)
      BY <1>2, <1>7 DEF Apply, ApplySend, Bit
    <2>2. /\ made \in [Ids -> Nat] /\ made[q] = st.produced[q] + k
      <3>1. m \in Nat
        BY <1>1, <2>1
      <3> HIDE DEF m
      <3>2. made \in [Ids -> Nat] /\ made[p] = m /\ (q # p => made[q] = st.produced[q])
        BY <1>1, <2>1, <3>1
      <3> HIDE DEF made
      <3> QED  BY <1>1, <2>1, <3>2 DEF m
    <2> HIDE DEF made
    <2>3. /\ e \in Reductions /\ e.role = st.role /\ e.induced = st.induced
          /\ e.produced = made /\ e.backlog = st.backlog
      BY <2>2 DEF Reductions
    <2> HIDE DEF e, p
    <2>4. CASE s = e
      BY <1>3, <2>2, <2>3, <2>4 DEF k
    <2>5. CASE s = [e EXCEPT !.backlog[p] = @ + 1]
      <3> DEFINE bb == [e.backlog EXCEPT ![p] = e.backlog[p] + 1]
      <3>1. s = [e EXCEPT !.backlog = bb]
        BY <2>5
      <3> HIDE DEF bb
      <3>2. s.role = e.role /\ s.induced = e.induced /\ s.produced = e.produced
        BY <2>3, <3>1 DEF Reductions
      <3> QED  BY <1>3, <2>2, <2>3, <3>2 DEF k
    <2>6. CASE s = RemoveSlow(e, p)
      <3> DEFINE left == LeaveRole(e.role, p)
                 bb   == Without(e.backlog, p)
                 gone == Append(e.slow, p)
                 said == e.induced \o left.actions
                 role1 == left.role
      <3>1. s = [[e EXCEPT !.backlog = bb, !.slow = gone]
                    EXCEPT !.role = role1, !.induced = [e EXCEPT !.backlog = bb, !.slow = gone].induced
                                                          \o left.actions]
        BY <2>6 DEF RemoveSlow, Induce, Forget
      <3>2. left \in Contexts /\ Sends(left.actions, q) + Due(left.role, q) <= Due(st.role, q)
        BY <2>1, <2>3, LeaveRoleIn
      <3>3. left.actions \in Seq(Actions) /\ e.induced \in Seq(Actions)
        BY <1>1, <2>3, <3>2, ContextFields
      <3>4. Sends(said, q) = Sends(st.induced, q) + Sends(left.actions, q)
        BY <2>3, <3>3, SendsConcat
      <3> HIDE DEF left, bb, gone, role1
      <3>5. s.role = left.role /\ s.induced = said /\ s.produced = made
        <4> DEFINE g == [e EXCEPT !.backlog = bb, !.slow = gone]
        <4>1. /\ g.induced = e.induced /\ g.produced = made
              /\ "role" \in DOMAIN g /\ "induced" \in DOMAIN g
          <5> DEFINE h == [e EXCEPT !.backlog = bb]
          <5>1. /\ h.induced = e.induced /\ h.produced = made
                /\ DOMAIN h = DOMAIN e /\ "role" \in DOMAIN e /\ "induced" \in DOMAIN e
            BY <2>3 DEF Reductions
          <5>2. g = [h EXCEPT !.slow = gone]
            BY <2>3 DEF Reductions
          <5> HIDE DEF h, g
          <5> QED  BY <5>1, <5>2
        <4>2. s = [g EXCEPT !.role = role1, !.induced = g.induced \o left.actions]
          BY <3>1
        <4> HIDE DEF g
        <4>3. s = [g EXCEPT !.role = role1, !.induced = said]
          BY <4>1, <4>2
        <4> HIDE DEF said
        <4>4. s.role = role1 /\ s.induced = said /\ s.produced = g.produced
          BY <4>1, <4>3
        <4> QED  BY <4>1, <4>4 DEF role1
      <3> HIDE DEF said
      <3>6. /\ Charge(s, q) = made[q] + Sends(said, q) + Due(left.role, q)
            /\ Sends(left.actions, q) \in Nat /\ Due(left.role, q) \in Nat
        BY <3>3, <3>5, SendsIn, DueIn DEF Charge
      <3> QED  BY <1>1, <1>2, <2>2, <3>2, <3>4, <3>6 DEF Charge, k
    <2> QED  BY <2>1, <2>4, <2>5, <2>6 DEF Queue
  <1> QED  BY <1>4, <1>5, <1>6, <1>7

(* After a batch the next one is what its Leaves have induced.              *)
LEMMA NextRound ==
    ASSUME NEW before, NEW f, NEW r, NEW T, NEW st, Ledger(before, f, r, T, T, st)
    PROVE  Ready(before, f, r, T, st)
  <1> DEFINE N == Members(st.role)
             x == [st EXCEPT !.induced = << >>]
  <1>1. /\ st \in Reductions /\ Began(f, r, st)
        /\ Rolls(before, T, st) /\ Accounts(before, T, st) /\ Inducing(T, st)
    BY DEF Ledger
  <1>2. /\ x \in Reductions /\ x.role = st.role /\ x.backlog = st.backlog /\ x.full = st.full
        /\ x.slow = st.slow /\ x.produced = st.produced /\ x.disconnects = st.disconnects
        /\ x.owed = st.owed /\ x.induced = << >>
    <2> DEFINE none == << >>
    <2>1. none \in Seq(Actions) /\ x = [st EXCEPT !.induced = none]
      OBVIOUS
    <2> HIDE DEF none, x
    <2>2. /\ x \in Reductions /\ x.role = st.role /\ x.backlog = st.backlog /\ x.full = st.full
          /\ x.slow = st.slow /\ x.produced = st.produced /\ x.disconnects = st.disconnects
          /\ x.owed = st.owed /\ x.induced = none
      BY <1>1, <2>1 DEF Reductions
    <2> QED  BY <2>2 DEF none
  <1> HIDE DEF x
  <1>3. Booked(T, N, st.induced) /\ N \subseteq T
    BY <1>1 DEF Inducing, Booked
  <1>4. Booked(N, N, << >>)
    BY BookedNothing
  <1>5. Inducing(N, x)
    BY <1>1, <1>2, <1>4 DEF Inducing
  <1>6. Rolls(before, T, x) /\ Accounts(before, T, x) /\ Began(f, r, x)
    BY <1>1, <1>2 DEF Rolls, Accounts, Began
  <1>7. Ledger(before, f, r, T, N, x)
    BY <1>2, <1>3, <1>5, <1>6 DEF Ledger
  <1> QED  BY <1>1, <1>3, <1>7 DEF Ready, x

(* A round applies the batch, and either induces nothing or has removed     *)
(* members.                                                                 *)
LEMMA RoundKeeps ==
    ASSUME NEW before \in Outboxes, NEW f, NEW r, NEW S \in SUBSET Ids, NEW st,
           Ready(before, f, r, S, st), NEW s, s = Round(st)
    PROVE  /\ Ready(before, f, r, Members(st.role), s)
           /\ Members(s.role) \subseteq Members(st.role)
           /\ s.induced # << >> =>
                 st.induced # << >> /\ Members(s.role) # Members(st.role)
           /\ \A q \in Ids : Charge(s, q) <= Charge(st, q)
  <1> DEFINE T       == Members(st.role)
             pending == st.induced
             n       == Len(pending)
             first   == [st EXCEPT !.induced = << >>]
             step    == [i \in DOMAIN pending |-> [x \in Reductions |-> Apply(x, pending[i])]]
             Still(i) == StillIn(S, T, pending, i)
             Paid(i, q) == st.produced[q] + Sends(Prefix(pending, i), q) + Due(st.role, q)
             Kept1(i, x) == /\ Ledger(before, f, r, Still(i), T, x)
                            /\ \A q \in Ids : Charge(x, q) <= Paid(i, q)
             G       == [i \in 0..n |-> {x \in Reductions : Kept1(i, x)}]
  <1>1. /\ st \in Reductions /\ Booked(S, T, pending) /\ Ledger(before, f, r, S, T, first)
        /\ pending \in Seq(Actions) /\ n \in Nat /\ DOMAIN pending = 1..n
        /\ \A i \in 1..n : pending[i] \in Actions
    BY ReductionFields DEF Ready
  <1>2. s = Loop(n, step, first)
    BY DEF Round
  <1>3. first \in Reductions
    BY <1>1 DEF Ledger
  <1>12. first.induced = << >>
    <2>1. st = [role |-> st.role, backlog |-> st.backlog, full |-> st.full, slow |-> st.slow,
                produced |-> st.produced, disconnects |-> st.disconnects,
                owed |-> st.owed, induced |-> st.induced]
      BY <1>1, ReductionFields
    <2> QED  BY <2>1
  <1>4. \A i \in 1..n : \A x \in Reductions : step[i][x] = Apply(x, pending[i])
    BY <1>1
  <1>5. \A i \in 0..n : \A x : x \in G[i] <=>
            x \in Reductions /\ Kept1(i, x)
    OBVIOUS
  <1>6. /\ Still(0) = S /\ Still(n) = T
        /\ \A i \in 1..n :
              /\ pending[i].type = "Send" =>
                    pending[i].peer \in Still(i - 1) /\ Still(i) = Still(i - 1)
              /\ pending[i].type = "Disconnect" =>
                    pending[i].peer \in Still(i - 1) \ T
                    /\ Still(i) = Still(i - 1) \ {pending[i].peer}
              /\ pending[i].type = "GameEnded" => Still(i) = Still(i - 1)
    <2>1. S \in SUBSET Ids /\ pending \in Seq(Actions) /\ Booked(S, T, pending)
      BY <1>1
    <2> HIDE DEF G, step, first, pending, T
    <2> QED  BY <2>1, StillInSteps
  <1>7. \A i : Still(i) \in SUBSET Ids
    BY Subsets DEF StillIn
  <1>16. /\ Prefix(pending, 0) = << >> /\ Prefix(pending, n) = pending
         /\ \A i \in 0..n : Prefix(pending, i) \in Seq(Actions)
         /\ \A i \in 1..n : Prefix(pending, i) = Prefix(pending, i - 1) \o << pending[i] >>
    BY <1>1, Prefixes
  <1>17. first.produced = st.produced /\ first.role = st.role
    <2> DEFINE none == << >>
    <2>1. none \in Seq(Actions) /\ first = [st EXCEPT !.induced = none]
      OBVIOUS
    <2> HIDE DEF none, first
    <2> QED  BY <1>1, <2>1 DEF Reductions
  <1>18. \A q \in Ids : st.produced[q] \in Nat /\ Due(st.role, q) \in Nat
    BY <1>1, ReductionFields, DueIn
  <1> HIDE DEF G, step, first, pending, Still, n
  <1>8. /\ 0 \in 0..n /\ n \in 0..n
        /\ \A i \in 1..n : i \in 0..n /\ i - 1 \in 0..n
    BY <1>1
  <1>9. first \in G[0]
    <2>1. \A q \in Ids : Charge(first, q) <= Paid(0, q)
      <3>1. \A q \in Ids : Charge(first, q) = st.produced[q] + 0 + Due(st.role, q)
        BY <1>12, <1>17, SendsNothing DEF Charge
      <3>2. \A q \in Ids : Paid(0, q) = st.produced[q] + 0 + Due(st.role, q)
        BY <1>16, SendsNothing
      <3> QED  BY <1>18, <3>1, <3>2
    <2> HIDE DEF Paid
    <2> QED  BY <1>1, <1>3, <1>5, <1>6, <1>8, <2>1
  <1> HIDE DEF Paid
  <1>10. ASSUME NEW i \in 1..n, NEW x \in G[i - 1] PROVE step[i][x] \in G[i]
    <2> DEFINE y == Apply(x, pending[i])
               a == pending[i]
               W == Still(i - 1)
               N == Still(i)
    <2>1. /\ x \in Reductions /\ Ledger(before, f, r, W, T, x) /\ a \in Actions
          /\ W \in SUBSET Ids /\ \A q \in Ids : Charge(x, q) <= Paid(i - 1, q)
      BY <1>1, <1>5, <1>7, <1>8
    <2>2. /\ a.type = "Send" => a.peer \in W /\ N = W
          /\ a.type = "Disconnect" => a.peer \in W \ T /\ N = W \ {a.peer}
          /\ a.type = "GameEnded" => N = W
      BY <1>6
    <2>3. y = Apply(x, a)
      OBVIOUS
    <2> HIDE DEF y, a, W, N, T
    <2>4. Ledger(before, f, r, N, T, y)
      BY <2>1, <2>2, <2>3, ApplyKeeps
    <2>5. y \in Reductions
      BY <2>4 DEF Ledger
    <2>6. ASSUME NEW q \in Ids PROVE Charge(y, q) <= Paid(i, q)
      <3>1. RoleInv(x.role)
        BY <2>1 DEF Ledger, Inducing
      <3>2. Charge(y, q) <= Charge(x, q) + Sends(<< a >>, q)
        BY <2>1, <2>2, <2>3, <2>5, <3>1, ApplyCharges
      <3> DEFINE was == Prefix(pending, i - 1)
                 one == << a >>
      <3>3. /\ was \in Seq(Actions) /\ one \in Seq(Actions)
            /\ Prefix(pending, i) = was \o one
        <4>1. /\ i - 1 \in 0..n /\ a \in Actions /\ a = pending[i]
              /\ Prefix(pending, i) = Prefix(pending, i - 1) \o << pending[i] >>
          BY <1>8, <1>16, <2>1 DEF a
        <4>2. << a >> \in Seq(Actions)
          <5> HIDE DEF a
          <5> QED  BY <4>1
        <4> QED  BY <1>16, <4>1, <4>2
      <3> HIDE DEF was, one
      <3>4. Sends(Prefix(pending, i), q) = Sends(was, q) + Sends(one, q)
        BY <3>3, SendsConcat
      <3>5. Sends(was, q) \in Nat /\ Sends(one, q) \in Nat
        BY <3>3, SendsIn
      <3>6. /\ Paid(i, q) = st.produced[q] + (Sends(was, q) + Sends(one, q)) + Due(st.role, q)
            /\ Paid(i - 1, q) = st.produced[q] + Sends(was, q) + Due(st.role, q)
        BY <3>4 DEF Paid, was
      <3>7. Charge(y, q) \in Nat /\ Charge(x, q) \in Nat
        <4>1. \A z \in Reductions : Charge(z, q) \in Nat
          BY ReductionFields, SendsIn, DueIn DEF Charge
        <4> QED  BY <2>1, <2>5, <4>1
      <3>8. Charge(x, q) <= Paid(i - 1, q) /\ Charge(y, q) <= Charge(x, q) + Sends(one, q)
        BY <2>1, <3>2 DEF one
      <3>9. st.produced[q] \in Nat /\ Due(st.role, q) \in Nat
        BY <1>18
      <3> QED  BY <3>5, <3>6, <3>7, <3>8, <3>9
    <2>7. Kept1(i, y)
      BY <2>4, <2>6 DEF N, T
    <2> HIDE DEF Kept1
    <2> QED  BY <1>4, <1>5, <1>8, <2>1, <2>5, <2>7 DEF y
  <1>11. Ledger(before, f, r, T, T, s) /\ \A q \in Ids : Charge(s, q) <= Charge(st, q)
    <2>1. s \in G[n]
      <3> HIDE DEF Kept1
      <3> QED  BY <1>1, <1>2, <1>9, <1>10, LoopRule
    <2>2. \A q \in Ids : Paid(n, q) = Charge(st, q)
      BY <1>16 DEF Paid, Charge, pending
    <2> QED  BY <1>5, <1>6, <1>8, <2>1, <2>2
  <1>13. Ready(before, f, r, T, s)
    BY <1>11, NextRound
  <1>14. Members(s.role) \subseteq T /\ (Members(s.role) = T => s.induced = << >>)
    BY <1>11 DEF Ledger, Inducing, Booked
  <1>15. ASSUME st.induced = << >> PROVE s.induced = << >>
    <2>1. n = 0
      BY <1>15 DEF n, pending
    <2> DEFINE A == [i \in 0..0 |-> {first}]
    <2>2. A[0] = {first}
      OBVIOUS
    <2> HIDE DEF A
    <2>3. Loop(0, step, first) \in A[0]
      BY <2>2, LoopRule
    <2> QED  BY <1>2, <1>12, <2>1, <2>2, <2>3
  <1> QED  BY <1>11, <1>13, <1>14, <1>15

-----------------------------------------------------------------------------
(* A reduction: rounds until a batch is empty.                              *)

(* What a reduction that began with the registry before comes to: role and  *)
(* registry agree, those gone are reported once, and are owed everything;   *)
(* those left have in their outboxes what was produced, and nothing was if  *)
(* they were at capacity.                                                   *)
Delivers(before, f, r, s) ==
    /\ s \in Reductions /\ RoleInv(s.role) /\ Registered(s.backlog) = Members(s.role)
    /\ ClosesTheRemoved(Registered(before), s) /\ OwesEverything(before, s)
    /\ (f = {} => s.role = r)
    /\ \A p \in Registered(s.backlog) :
          /\ p \in Registered(before) /\ s.backlog[p] = before[p] + s.produced[p]
          /\ p \in f => s.produced[p] = 0

(* Every round that induces another removes a member, so the rounds of      *)
(* Reduce are enough.                                                       *)
LEMMA ReduceEnds ==
    ASSUME NEW before \in Outboxes, NEW f, NEW r, NEW S \in SUBSET Ids, NEW st,
           Ready(before, f, r, S, st), NEW s, s = Reduce(st)
    PROVE  /\ Ledger(before, f, r, Members(s.role), Members(s.role), s)
           /\ Members(s.role) \subseteq Members(st.role)
           /\ \A q \in Ids : Charge(s, q) <= Charge(st, q)
  <1> DEFINE n       == MaxPeers + 1
             step    == [i \in 1..n |-> [x \in Reductions |-> Round(x)]]
             size(x) == Cardinality(Members(x.role))
             Good(k, x) == /\ x \in Reductions /\ Members(x.role) \subseteq Members(st.role)
                           /\ \E R \in SUBSET Ids : Ready(before, f, r, R, x)
                           /\ x.induced # << >> => size(x) + k <= MaxPeers
                           /\ \A q \in Ids : Charge(x, q) <= Charge(st, q)
             G       == [k \in 0..n |-> {x \in Reductions : Good(k, x)}]
  <1>1. MaxPeers \in Nat /\ n \in Nat /\ 0 \in 0..n /\ n \in 0..n
        /\ \A k \in 1..n : k \in 0..n /\ k - 1 \in 0..n /\ k \in Nat /\ k - 1 \in Nat
    BY Constants
  <1>2. s = Loop(n, step, st)
    BY DEF Reduce
  <1>3. \A k \in 1..n : \A x \in Reductions : step[k][x] = Round(x)
    OBVIOUS
  <1>4. \A k \in 0..n : \A x : x \in G[k] <=> Good(k, x)
    OBVIOUS
  <1>5. \A x : IsFiniteSet(Members(x.role)) /\ size(x) \in Nat
    BY MembersFinite
  <1>15. \A x \in Reductions : \A q \in Ids : Charge(x, q) \in Nat
    BY ReductionFields, SendsIn, DueIn DEF Charge
  <1> HIDE DEF step, G
  <1>6. st \in G[0]
    <2>1. st \in Reductions /\ RoleInv(st.role)
      <3>1. st \in Reductions /\ RoleInv([st EXCEPT !.induced = << >>].role)
        BY DEF Ready, Ledger, Inducing
      <3>2. st = [role |-> st.role, backlog |-> st.backlog, full |-> st.full, slow |-> st.slow,
                  produced |-> st.produced, disconnects |-> st.disconnects,
                  owed |-> st.owed, induced |-> st.induced]
        BY <3>1, ReductionFields
      <3>3. [st EXCEPT !.induced = << >>].role = st.role
        BY <3>2
      <3> QED  BY <3>1, <3>3
    <2>2. size(st) <= MaxPeers
      BY <2>1 DEF RoleInv, Counted
    <2>3. size(st) + 0 <= MaxPeers
      BY <1>1, <1>5, <2>2
    <2>5. \A q \in Ids : Charge(st, q) <= Charge(st, q)
      BY <1>15, <2>1
    <2> HIDE DEF size
    <2>4. Good(0, st)
      BY <2>1, <2>3, <2>5
    <2> QED  BY <1>1, <1>4, <2>4
  <1>7. ASSUME NEW k \in 1..n, NEW x \in G[k - 1] PROVE step[k][x] \in G[k]
    <2> DEFINE y == Round(x)
    <2>1. /\ x \in Reductions /\ Members(x.role) \subseteq Members(st.role)
          /\ x.induced # << >> => size(x) + (k - 1) <= MaxPeers
          /\ \A q \in Ids : Charge(x, q) <= Charge(st, q)
      BY <1>1, <1>4
    <2>2. PICK R \in SUBSET Ids : Ready(before, f, r, R, x)
      BY <1>1, <1>4
    <2>3. y = Round(x)
      OBVIOUS
    <2> HIDE DEF y
    <2>4. /\ Ready(before, f, r, Members(x.role), y)
          /\ Members(y.role) \subseteq Members(x.role)
          /\ y.induced # << >> =>
                x.induced # << >> /\ Members(y.role) # Members(x.role)
          /\ \A q \in Ids : Charge(y, q) <= Charge(x, q)
      BY <2>2, <2>3, RoundKeeps
    <2>5. ASSUME y.induced # << >> PROVE size(y) + k <= MaxPeers
      <3>1. size(y) <= size(x) /\ size(y) # size(x)
        BY <1>5, <2>4, <2>5, FS_Subset
      <3>2. size(x) + (k - 1) <= MaxPeers /\ size(x) \in Nat /\ size(y) \in Nat /\ k \in Nat
        BY <1>1, <1>5, <2>1, <2>4, <2>5
      <3> HIDE DEF size
      <3> QED  BY <1>1, <3>1, <3>2
    <2>6. y \in Reductions /\ Members(x.role) \in SUBSET Ids
      BY <2>4, Subsets DEF Ready
    <2> HIDE DEF size
    <2>8. \A q \in Ids : Charge(y, q) <= Charge(st, q)
      <3>1. st \in Reductions
        BY DEF Ready
      <3>2. \A q \in Ids : /\ Charge(y, q) \in Nat /\ Charge(x, q) \in Nat /\ Charge(st, q) \in Nat
                           /\ Charge(y, q) <= Charge(x, q) /\ Charge(x, q) <= Charge(st, q)
        BY <1>15, <2>1, <2>4, <2>6, <3>1
      <3> QED  BY <3>2
    <2>7. Good(k, y)
      BY <2>1, <2>4, <2>5, <2>6, <2>8
    <2> QED  BY <1>1, <1>3, <1>4, <2>1, <2>3, <2>7
  <1>8. s \in G[n]
    BY <1>1, <1>2, <1>6, <1>7, LoopRule
  <1>9. s \in Reductions /\ s.induced = << >>
    <2>1. s \in Reductions /\ (s.induced # << >> => size(s) + n <= MaxPeers)
      BY <1>1, <1>4, <1>8
    <2>2. size(s) \in Nat
      BY <1>5
    <2> HIDE DEF size
    <2>3. ~(size(s) + n <= MaxPeers)
      BY <1>1, <2>2
    <2> QED  BY <2>1, <2>3
  <1>10. PICK R \in SUBSET Ids : Ready(before, f, r, R, s)
    BY <1>1, <1>4, <1>8
  <1>11. [s EXCEPT !.induced = << >>] = s
    <2>1. s = [role |-> s.role, backlog |-> s.backlog, full |-> s.full, slow |-> s.slow,
               produced |-> s.produced, disconnects |-> s.disconnects,
               owed |-> s.owed, induced |-> << >>]
      BY <1>9, ReductionFields
    <2> QED  BY <2>1
  <1>12. R = Members(s.role)
    <2> DEFINE M    == Members(s.role)
               said == s.induced
    <2>1. Booked(R, M, said)
      BY <1>10 DEF Ready
    <2>2. DOMAIN said = {}
      BY <1>9
    <2> HIDE DEF M, said
    <2>3. R = M
      BY <2>1, <2>2 DEF Booked
    <2> QED  BY <2>3 DEF M
  <1>13. Ledger(before, f, r, R, Members(s.role), [s EXCEPT !.induced = << >>])
    BY <1>10 DEF Ready
  <1>14. /\ Members(s.role) \subseteq Members(st.role)
         /\ \A q \in Ids : Charge(s, q) <= Charge(st, q)
    BY <1>1, <1>4, <1>8
  <1> QED  BY <1>11, <1>12, <1>13, <1>14

(* At its end a reduction has closed exactly those who are gone.            *)
LEMMA ReduceDelivers ==
    ASSUME NEW before \in Outboxes, NEW f, NEW r, NEW S \in SUBSET Ids, NEW st,
           Ready(before, f, r, S, st), NEW s, s = Reduce(st)
    PROVE  /\ Delivers(before, f, r, s) /\ Members(s.role) \subseteq Members(st.role)
           /\ \A q \in Ids : s.produced[q] <= Charge(st, q)
  <1> DEFINE N == Members(s.role)
  <1>1. /\ s \in Reductions /\ Began(f, r, s)
        /\ Rolls(before, N, s) /\ Accounts(before, N, s) /\ Inducing(N, s)
    BY ReduceEnds DEF Ledger
  <1>2. s.slow \in Seq(Ids) /\ s.disconnects \in Seq(Ids)
    BY <1>1, ReductionFields
  <1>3. /\ Registered(s.backlog) = N /\ Listed(s.slow) \subseteq Listed(s.disconnects)
        /\ Listed(s.disconnects) = Registered(before) \ N
    BY <1>1 DEF Rolls, Inducing
  <1>4. Closes(s) = s.disconnects
    <2> DEFINE n    == Len(s.slow)
               d    == s.disconnects
               step == [i \in DOMAIN s.slow |->
                           [told \in Seq(Ids) |-> AddOnce(told, s.slow[i])]]
               S1   == {d}
    <2>1. n \in Nat /\ DOMAIN s.slow = 1..n /\ \A i \in 1..n : s.slow[i] \in Ids
      BY <1>2
    <2>2. Closes(s) = Loop(n, step, d)
      BY DEF Closes
    <2>3. \A i \in 1..n : \A told \in Seq(Ids) : step[i][told] = AddOnce(told, s.slow[i])
      BY <2>1
    <2>4. d \in Seq(Ids) /\ \A i \in 1..n : s.slow[i] \in Listed(d)
      BY <1>2, <1>3, <2>1 DEF Listed
    <2>5. d \in S1 /\ \A x \in S1 : x = d
      OBVIOUS
    <2> HIDE DEF n, d, step, S1
    <2>6. \A i \in 1..n : \A x \in S1 : step[i][x] \in S1
      BY <2>1, <2>3, <2>4, <2>5, AddOnceIn
    <2>7. Loop(n, step, d) \in S1
      BY <2>1, <2>5, <2>6, LoopKeeps
    <2> QED  BY <2>2, <2>5, <2>7 DEF d
  <1>5. ClosesTheRemoved(Registered(before), s)
    <2>1. Len(s.disconnects) = Cardinality(Listed(s.disconnects))
      BY <1>1, <1>2, ListedOnce DEF Rolls
    <2> QED  BY <1>3, <1>4, <2>1 DEF ClosesTheRemoved
  <1>6. OwesEverything(before, s)
    BY <1>1, <1>4 DEF OwesEverything, Accounts
  <1>7. ASSUME NEW q \in Ids PROVE s.produced[q] <= Charge(st, q)
    <2>1. Charge(s, q) <= Charge(st, q) /\ st \in Reductions
      BY ReduceEnds DEF Ready
    <2>2. \A x \in Reductions : /\ x.produced[q] \in Nat /\ Sends(x.induced, q) \in Nat
                                /\ Due(x.role, q) \in Nat
      BY ReductionFields, SendsIn, DueIn
    <2>3. s.produced[q] <= Charge(s, q) /\ Charge(s, q) \in Nat /\ Charge(st, q) \in Nat
      BY <1>1, <2>1, <2>2 DEF Charge
    <2> QED  BY <1>1, <2>1, <2>2, <2>3
  <1>8. \A p \in Registered(s.backlog) :
           /\ p \in Registered(before) /\ s.backlog[p] = before[p] + s.produced[p]
           /\ p \in f => s.produced[p] = 0
    BY <1>1, <1>3 DEF Accounts, Began, Rolls
  <1> QED  BY <1>1, <1>3, <1>5, <1>6, <1>7, <1>8, ReduceEnds DEF Delivers, Inducing, Began

-----------------------------------------------------------------------------
(* The calls.                                                               *)

(* The inductive invariant of the host: the role's own, and the registry.   *)
HostOk(r, b) == RoleInv(r) /\ b \in Outboxes /\ Registered(b) = Members(r)
HostInv      == HostOk(role, backlog)

(* A reduction of the role's actions begins with its books in order.        *)
LEMMA BeginsReady ==
    ASSUME NEW before \in Outboxes, NEW b \in Outboxes, NEW c \in Contexts, NEW slow \in Seq(Ids),
           RoleInv(c.role), Booked(Registered(before), Members(c.role), c.actions),
           Registered(b) = Registered(before) \ Listed(slow),
           Listed(slow) \subseteq Registered(before), Listed(slow) \cap Members(c.role) = {},
           \A p \in Registered(b) : b[p] = before[p],
           NEW st, st = Reduction(b, c, slow)
    PROVE  Ready(before, AtCapacity(b), c.role, Registered(before), st)
  <1> DEFINE f == AtCapacity(b)
             N == Members(c.role)
             R == Registered(before)
             zero == [p \in Ids |-> 0]
             none == << >>
             x == [st EXCEPT !.induced = << >>]
  <1>1. /\ R \subseteq Ids /\ f \in SUBSET Ids /\ zero \in [Ids -> Nat] /\ none \in Seq(Ids)
        /\ none \in Seq(Actions) /\ c.role \in Roles /\ c.actions \in Seq(Actions)
        /\ \A p \in Registered(b) : b[p] \in Nat
        /\ \A p \in Ids : zero[p] = 0
        /\ Registered(b) \subseteq Ids
    BY RegisteredIn, ContextFields DEF AtCapacity
  <1>2. st = [role |-> c.role, backlog |-> b, full |-> f, slow |-> slow,
              produced |-> zero, disconnects |-> none, owed |-> zero, induced |-> c.actions]
    BY DEF Reduction
  <1>3. x = [st EXCEPT !.induced = none] /\ Listed(none) = {} /\ Once(none)
    BY DEF Listed, Once
  <1>4. N \subseteq R
    BY DEF Booked
  <1>5. Booked(N, N, none)
    BY BookedNothing
  <1>6. Booked(R, N, c.actions)
    OBVIOUS
  <1> HIDE DEF f, R, zero, none, x
  <1>7. /\ st \in Reductions /\ st.role = c.role /\ st.induced = c.actions
        /\ x \in Reductions /\ x.role = c.role /\ x.backlog = b /\ x.full = f /\ x.slow = slow
        /\ x.produced = zero /\ x.disconnects = none /\ x.owed = zero /\ x.induced = none
    BY <1>1, <1>2, <1>3 DEF Reductions
  <1>8. Inducing(N, x)
    <2>1. x.induced = << >>
      BY <1>7 DEF none
    <2> QED  BY <1>5, <1>7, <2>1 DEF Inducing
  <1>9. Rolls(before, R, x)
    BY <1>3, <1>7 DEF Rolls, R
  <1>10. Accounts(before, R, x)
    <2>1. \A p \in Registered(b) : b[p] = before[p] + zero[p]
      BY <1>1
    <2> QED  BY <1>1, <1>3, <1>7, <2>1 DEF Accounts
  <1>11. Began(f, c.role, x)
    <2>1. \A p \in f \cap Registered(b) : zero[p] = 0
      BY <1>1
    <2> QED  BY <1>7, <2>1 DEF Began
  <1>12. Ledger(before, f, c.role, R, N, x)
    BY <1>4, <1>7, <1>8, <1>9, <1>10, <1>11 DEF Ledger
  <1>13. Ready(before, f, c.role, R, st)
    BY <1>6, <1>7, <1>12 DEF Ready, x
  <1> QED  BY <1>13 DEF f, R

(* The registry a batch begins with.                                        *)
LEMMA EnteredIn ==
    ASSUME HostInv, NEW input \in Inputs(role), NEW b, b = Entered(input)
    PROVE  /\ b \in Outboxes /\ Registered(b) = Audience(role, input)
           /\ AtCapacity(backlog) = {} => AtCapacity(b) = {}
  <1>1. /\ backlog \in Outboxes /\ Registered(backlog) = Members(role) /\ RoleInv(role)
        /\ 0 \in Nat
    BY DEF HostInv, HostOk
  <1>2. CASE input.type = "Join"
    <2> DEFINE p == input.peer
               S == Audience(role, input)
    <2>1. p \in Ids
      BY <1>1, <1>2, HandleIn
    <2>2. b = [backlog EXCEPT ![p] = 0] /\ S = Members(role) \cup {p}
      BY <1>2 DEF Entered, Audience
    <2> HIDE DEF p, S
    <2>3. /\ b \in Outboxes /\ Registered(b) = Registered(backlog) \cup {p} /\ b[p] = 0
          /\ \A q \in Ids \ {p} : b[q] = backlog[q]
      BY <1>1, <2>1, <2>2, Constants DEF Outboxes, Registered
    <2>4. ASSUME NEW q \in AtCapacity(b) PROVE q \in AtCapacity(backlog)
      <3>1. q \in Ids /\ q \in Registered(b) /\ b[q] >= OutboxCapacity
        BY <2>3, <2>4, RegisteredIn DEF AtCapacity
      <3>2. q # p
        BY <2>3, <3>1, Capacity
      <3> QED  BY <2>3, <3>1, <3>2 DEF AtCapacity
    <2> QED  BY <1>1, <2>2, <2>3, <2>4 DEF S
  <1>3. CASE input.type # "Join"
    BY <1>1, <1>3 DEF Entered, Audience
  <1> QED  BY <1>2, <1>3

(* Every call that feeds the role an input delivers what a reduction is to  *)
(* deliver; a Leave has nothing left to forget.                             *)
LEMMA BatchDelivers ==
    ASSUME HostInv, NEW input \in Inputs(role), NEW s, s = Batch(input)
    PROVE  /\ Delivers(Entered(input), AtCapacity(Entered(input)), Handle(role, input).role, s)
           /\ \A q \in Ids :
                 s.produced[q] <= Heads(Handle(role, input), q) + Words(Handle(role, input), q)
  <1> DEFINE b  == Entered(input)
             c  == Handle(role, input)
             st == Reduction(b, c, << >>)
             x  == Reduce(st)
  <1>1. RoleInv(role)
    BY DEF HostInv, HostOk
  <1>2. /\ c \in Contexts /\ RoleInv(c.role)
        /\ Booked(Audience(role, input), Members(c.role), c.actions)
        /\ input.type = "Leave" => input.peer \notin Members(c.role)
    BY <1>1, HandleIn
  <1>3. b \in Outboxes /\ Registered(b) = Audience(role, input)
    BY EnteredIn
  <1>4. s = IF input.type = "Leave" THEN [x EXCEPT !.backlog = Without(@, input.peer)] ELSE x
    BY DEF Batch
  <1> HIDE DEF b, c
  <1>5. Ready(b, AtCapacity(b), c.role, Registered(b), st)
    <2> DEFINE none == << >>
    <2>1. none \in Seq(Ids) /\ Listed(none) = {} /\ st = Reduction(b, c, none)
      BY DEF Listed
    <2> HIDE DEF none, st
    <2> QED  BY <1>2, <1>3, <2>1, BeginsReady
  <1> HIDE DEF st
  <1>6. Registered(b) \in SUBSET Ids
    BY <1>3, RegisteredIn
  <1>7. st.role = c.role /\ st.induced = c.actions /\ \A q \in Ids : st.produced[q] = 0
    BY DEF Reduction, st
  <1>8. /\ Delivers(b, AtCapacity(b), c.role, x) /\ Members(x.role) \subseteq Members(c.role)
        /\ \A q \in Ids : x.produced[q] <= Charge(st, q)
    BY <1>3, <1>5, <1>6, <1>7, ReduceDelivers
  <1>10. ASSUME NEW q \in Ids PROVE Charge(st, q) = Heads(c, q) + Words(c, q)
    <2>1. Sends(c.actions, q) \in Nat /\ Due(c.role, q) \in Nat
      BY <1>2, ContextFields, SendsIn, DueIn
    <2>2. Sends(c.actions, q) + Due(c.role, q) = Heads(c, q) + Words(c, q)
      BY <1>2, HeadsAndWords
    <2>3. Charge(st, q) = 0 + Sends(c.actions, q) + Due(c.role, q)
      BY <1>7 DEF Charge
    <2> QED  BY <2>1, <2>2, <2>3
  <1>9. s = x
    <2>1. x \in Reductions /\ Registered(x.backlog) = Members(x.role)
      BY <1>8 DEF Delivers
    <2> DEFINE same == x.backlog
    <2>2. x = [role |-> x.role, backlog |-> same, full |-> x.full, slow |-> x.slow,
               produced |-> x.produced, disconnects |-> x.disconnects,
               owed |-> x.owed, induced |-> x.induced] /\ same \in Outboxes
      BY <2>1, ReductionFields
    <2>3. input.type = "Leave" => Without(same, input.peer) = same
      BY <1>2, <1>8, <2>1, <2>2, WithoutStranger
    <2>4. input.type = "Leave" => s = [x EXCEPT !.backlog = same]
      BY <1>4, <2>3
    <2>5. [x EXCEPT !.backlog = same] = x
      BY <2>2
    <2> QED  BY <1>4, <2>4, <2>5
  <1>11. \A q \in Ids : s.produced[q] <= Heads(c, q) + Words(c, q)
    BY <1>8, <1>9, <1>10
  <1> QED  BY <1>8, <1>9, <1>11 DEF b, c

(* So does a packet relayed onto a full outbox.                             *)
LEMMA RelaySlowDelivers ==
    ASSUME HostInv, NEW p \in Registered(backlog), NEW s, s = RelaySlow(p)
    PROVE  /\ \E r : Delivers(backlog, AtCapacity(Without(backlog, p)), r, s)
           /\ p \notin Registered(s.backlog) /\ \A q \in Ids : s.produced[q] <= 2
  <1> DEFINE b  == Without(backlog, p)
             c  == LeaveRole(role, p)
             slow == << p >>
             st == Reduction(b, c, slow)
  <1>1. /\ backlog \in Outboxes /\ Registered(backlog) = Members(role) /\ RoleInv(role)
        /\ p \in Ids
    BY RegisteredIn DEF HostInv, HostOk
  <1>2. /\ c \in Contexts /\ RoleInv(c.role) /\ p \notin Members(c.role)
        /\ Booked(Members(role), Members(c.role), c.actions)
        /\ \A q \in Ids : Sends(c.actions, q) + Due(c.role, q) <= Due(role, q)
    BY <1>1, LeaveRoleIn
  <1>3. /\ b \in Outboxes /\ Registered(b) = Registered(backlog) \ {p}
        /\ \A q \in Ids \ {p} : b[q] = backlog[q]
    BY <1>1, WithoutIn
  <1>4. slow \in Seq(Ids) /\ Listed(slow) = {p}
    BY <1>1 DEF Listed
  <1>5. s = Reduce(st) /\ st = Reduction(b, c, slow)
    BY DEF RelaySlow
  <1> HIDE DEF b, c, slow, st
  <1>6. \A q \in Registered(b) : b[q] = backlog[q]
    BY <1>1, <1>3, RegisteredIn
  <1>7. Ready(backlog, AtCapacity(b), c.role, Registered(backlog), st)
    <2>1. /\ Booked(Registered(backlog), Members(c.role), c.actions)
          /\ Registered(b) = Registered(backlog) \ Listed(slow)
          /\ Listed(slow) \subseteq Registered(backlog) /\ Listed(slow) \cap Members(c.role) = {}
      BY <1>1, <1>2, <1>3, <1>4
    <2> QED  BY <1>1, <1>2, <1>3, <1>4, <1>5, <1>6, <2>1, BeginsReady
  <1>8. Registered(backlog) \in SUBSET Ids
    BY <1>1, RegisteredIn
  <1>9. Delivers(backlog, AtCapacity(b), c.role, s)
    BY <1>1, <1>5, <1>7, <1>8, ReduceDelivers
  <1>10. ASSUME NEW q \in Ids PROVE s.produced[q] <= 2
    <2>1. st.role = c.role /\ st.induced = c.actions /\ st.produced[q] = 0
      BY <1>5 DEF Reduction
    <2>2. s.produced[q] <= Charge(st, q) /\ s \in Reductions
      BY <1>1, <1>5, <1>7, <1>8, <1>9, ReduceDelivers DEF Delivers
    <2>3. Sends(c.actions, q) \in Nat /\ Due(c.role, q) \in Nat /\ s.produced[q] \in Nat
      BY <1>2, <2>2, ContextFields, ReductionFields, SendsIn, DueIn
    <2>4. Charge(st, q) = 0 + Sends(c.actions, q) + Due(c.role, q)
      BY <2>1 DEF Charge
    <2>5. Due(role, q) <= 2 /\ Due(role, q) \in Nat
      BY DEF Due, Bit
    <2>6. Sends(c.actions, q) + Due(c.role, q) <= Due(role, q)
      BY <1>2
    <2> QED  BY <2>2, <2>3, <2>4, <2>5, <2>6
  <1>11. p \notin Registered(s.backlog)
    <2>1. st.role = c.role
      BY <1>5 DEF Reduction
    <2>2. Members(s.role) \subseteq Members(st.role)
      BY <1>1, <1>5, <1>7, <1>8, ReduceDelivers
    <2> QED  BY <1>2, <1>9, <2>1, <2>2 DEF Delivers
  <1> QED  BY <1>9, <1>10, <1>11 DEF b

(* Every call leaves role and registry in order.                            *)
LEMMA CallKeeps ==
    ASSUME HostInv, NEW inputs, inputs \subseteq Inputs(role), Call(inputs)
    PROVE  HostOk(role', backlog')
  <1>1. PICK input \in inputs : Becomes(Batch(input))
    BY DEF Call
  <1> DEFINE s == Batch(input)
  <1>2. Delivers(Entered(input), AtCapacity(Entered(input)), Handle(role, input).role, s)
    BY BatchDelivers
  <1>3. role' = s.role /\ backlog' = s.backlog
    BY <1>1 DEF Becomes
  <1> HIDE DEF s
  <1>4. s.backlog \in Outboxes
    BY <1>2, ReductionFields DEF Delivers
  <1> QED  BY <1>2, <1>3, <1>4 DEF Delivers, HostOk

(* Whatever the bindings call, in whatever order, role and registry stay in *)
(* order, each by its own and both about who is in the room.                *)
THEOREM HostInvariant == HostSpec => []HostInv
  <1>1. HostInit => HostInv
    <2> SUFFICES ASSUME HostInit PROVE HostInv
      OBVIOUS
    <2>1. RoleInv(role) /\ Members(role) = {}
      BY InitInv DEF HostInit, Init
    <2>2. backlog \in Outboxes /\ Registered(backlog) = {}
      BY DEF HostInit, Outboxes, Registered
    <2> QED  BY <2>1, <2>2 DEF HostInv, HostOk
  <1>2. HostInv /\ [HostNext]_hostVars => HostInv'
    <2> SUFFICES ASSUME HostInv, [HostNext]_hostVars PROVE HostOk(role', backlog')
      BY DEF HostInv
    <2>1. RoleInv(role) /\ backlog \in Outboxes /\ Registered(backlog) = Members(role)
      BY DEF HostInv, HostOk
    <2>2. CASE HostJoin
      BY <2>2, CallKeeps DEF HostJoin, Inputs
    <2>3. CASE HostLeave
      <3>1. [type : {"Leave"}, peer : Registered(backlog)] \subseteq Inputs(role)
        BY <2>1 DEF Inputs, LeaveInputs
      <3> QED  BY <2>3, <3>1, CallKeeps DEF HostLeave
    <2>4. CASE HostPacket
      BY <2>4, CallKeeps DEF HostPacket, Inputs
    <2>5. CASE HostMalformed
      BY <2>5, CallKeeps DEF HostMalformed, Inputs
    <2>6. CASE HostTick
      BY <2>6, CallKeeps DEF HostTick, Inputs
    <2>7. ASSUME NEW p \in Ids, Relay(p) PROVE HostOk(role', backlog')
      <3>1. p \in Registered(backlog)
        BY <2>7 DEF Relay
      <3>2. CASE Becomes(RelaySlow(p))
        <4> DEFINE s == RelaySlow(p)
        <4>1. PICK f, r : Delivers(backlog, f, r, s)
          BY <3>1, RelaySlowDelivers
        <4>2. role' = s.role /\ backlog' = s.backlog
          BY <3>2 DEF Becomes
        <4> HIDE DEF s
        <4>3. s.backlog \in Outboxes
          BY <4>1, ReductionFields DEF Delivers
        <4> QED  BY <4>1, <4>2, <4>3 DEF Delivers, HostOk
      <3>3. CASE backlog' = [backlog EXCEPT ![p] = @ + 1] /\ UNCHANGED role
        <4> DEFINE n == backlog[p] + 1
        <4>1. n \in Nat /\ backlog' = [backlog EXCEPT ![p] = n] /\ role' = role
          BY <2>1, <3>1, <3>3, RegisteredIn
        <4> HIDE DEF n
        <4>2. backlog' \in Outboxes /\ Registered(backlog') = Registered(backlog)
          BY <2>1, <3>1, <4>1, Constants DEF Outboxes, Registered
        <4> QED  BY <2>1, <4>1, <4>2 DEF HostOk
      <3> QED  BY <2>7, <3>2, <3>3 DEF Relay
    <2>8. ASSUME NEW p \in Ids, PopOutbound(p) PROVE HostOk(role', backlog')
      <3> DEFINE n == backlog[p] - 1
      <3>1. p \in Registered(backlog) /\ backlog[p] > 0 /\ role' = role
            /\ backlog' = [backlog EXCEPT ![p] = n]
        BY <2>8 DEF PopOutbound
      <3>2. n \in Nat
        BY <2>1, <3>1, RegisteredIn
      <3> HIDE DEF n
      <3>3. backlog' \in Outboxes /\ Registered(backlog') = Registered(backlog)
        BY <2>1, <3>1, <3>2, Constants DEF Outboxes, Registered
      <3> QED  BY <2>1, <3>1, <3>3 DEF HostOk
    <2>9. CASE UNCHANGED hostVars
      BY <2>1, <2>9 DEF hostVars, HostOk
    <2> QED  BY <2>2, <2>3, <2>4, <2>5, <2>6, <2>7, <2>8, <2>9 DEF HostNext
  <1> QED  BY <1>1, <1>2, PTL DEF HostSpec

(* Registry and role never disagree about who is in the room, whichever of  *)
(* them removed whom (reduce).                                              *)
THEOREM RegistryAndRoleAgree == HostSpec => []RegistryAgrees
  <1>1. HostInv => RegistryAgrees
    BY DEF HostInv, HostOk, RegistryAgrees
  <1> QED  BY <1>1, HostInvariant, PTL

(* Every reduction reports exactly the members that it has cost, each once, *)
(* whether the role removed them, their outbox was full, or both.           *)
THEOREM RemovalsAreReported == HostSpec => []RemovalsReachTheBinding
  <1>1. HostInv => RemovalsReachTheBinding
    <2> SUFFICES ASSUME HostInv PROVE RemovalsReachTheBinding
      OBVIOUS
    <2>1. ASSUME NEW input \in Inputs(role)
          PROVE  ClosesTheRemoved(Registered(Entered(input)), Batch(input))
      BY BatchDelivers DEF Delivers
    <2>2. ASSUME NEW p \in AtCapacity(backlog)
          PROVE  ClosesTheRemoved(Registered(backlog), RelaySlow(p))
      <3>1. p \in Registered(backlog)
        BY <2>2 DEF AtCapacity
      <3> QED  BY <3>1, RelaySlowDelivers DEF Delivers
    <2> QED  BY <2>1, <2>2 DEF RemovalsReachTheBinding
  <1> QED  BY <1>1, HostInvariant, PTL

(* Unless somebody was at capacity before the call, no batch, however       *)
(* large, removes a slow consumer (begin_host_batch).                       *)
THEOREM NobodyIsSlowMidBatch == HostSpec => []BatchIsNoBacklog
  <1>1. HostInv => BatchIsNoBacklog
    <2> SUFFICES ASSUME HostInv, AtCapacity(backlog) = {}, NEW input \in Inputs(role)
                 PROVE  Batch(input).role = Handle(role, input).role
      BY DEF BatchIsNoBacklog
    <2>1. AtCapacity(Entered(input)) = {}
      BY EnteredIn
    <2> QED  BY <2>1, BatchDelivers DEF Delivers
  <1> QED  BY <1>1, HostInvariant, PTL

(* A peer the role removes is owed its whole backlog and everything the     *)
(* same reduction produced for it (removal_owed).                           *)
THEOREM RemovedGetEverything == HostSpec => []RemovedAreOwedEverything
  <1>1. HostInv => RemovedAreOwedEverything
    <2> SUFFICES ASSUME HostInv, NEW input \in Inputs(role)
                 PROVE  OwesEverything(Entered(input), Batch(input))
      BY DEF RemovedAreOwedEverything
    <2> QED  BY BatchDelivers DEF Delivers
  <1> QED  BY <1>1, HostInvariant, PTL

(* What a call makes for one member, besides the burst of a running game,   *)
(* is within MAX_HOST_BATCH with it.                                        *)
LEMMA BatchIsSmall ==
    ASSUME HostInv, NEW input \in Inputs(role), NEW p \in Ids
    PROVE  /\ Batch(input).produced[p] \in Nat /\ Burst(input, p) \in Nat
           /\ Batch(input).produced[p] + Burst(input, p) <= MaxHostBatch
  <1> DEFINE d == Handle(role, input)
             x == Batch(input).produced[p]
             h == Heads(d, p) + Words(d, p)
             timed == input.type = "Timer" /\ role.state = "InGame" /\ p \in Players(role)
  <1>1. RoleInv(role)
    BY DEF HostInv, HostOk
  <1>2. x <= h /\ x \in Nat
    <2>1. Batch(input) \in Reductions
      BY BatchDelivers DEF Delivers
    <2>2. x \in Nat
      BY <2>1, ReductionFields
    <2> QED  BY <2>2, BatchDelivers
  <1>3. h <= 4 /\ (timed => h <= 2)
    BY <1>1, HandleIsBrief
  <1>4. h \in Nat
    <2>1. d \in Contexts
      BY <1>1, HandleIn
    <2> HIDE DEF d
    <2> QED  BY <2>1, CountsIn
  <1>5. GameBurst \in Nat /\ MaxHostBatch \in Nat /\ 2 <= GameBurst
        /\ GameBurst + 2 <= MaxHostBatch
    BY HostAssumption, BatchAssumption
  <1>6. Burst(input, p) = IF timed THEN GameBurst ELSE 0
    BY DEF Burst
  <1> HIDE DEF x, h, timed
  <1>7. x \in Nat /\ Burst(input, p) \in Nat /\ x + Burst(input, p) <= MaxHostBatch
    BY <1>2, <1>3, <1>4, <1>5, <1>6
  <1> QED  BY <1>7 DEF x

(* No reduction produces more for one member than MAX_HOST_BATCH allows,    *)
(* the Leaves it induces and the burst of a running game included: to a     *)
(* member that waits for nothing a call sends at most one reliable packet,  *)
(* two plain ones and a game's end, and a timer pass to a player in game at *)
(* most a head and a keepalive (core.rs, MAX_HOST_BATCH).                   *)
THEOREM BatchesFit == HostSpec => []BatchesAreBounded
  <1>1. HostInv => BatchesAreBounded
    BY BatchIsSmall DEF BatchesAreBounded, FitsTheBatch
  <1> QED  BY <1>1, HostInvariant, PTL

-----------------------------------------------------------------------------
(* Outboxes within "(capacity - 1) + MAX_HOST_BATCH".                       *)

Within(b) == \A p \in Registered(b) : b[p] <= Retained

(* Below its capacity an outbox has room for a batch.                       *)
LEMMA BelowCapacity ==
    ASSUME NEW b \in Outboxes, NEW p \in Registered(b), p \notin AtCapacity(b),
           NEW n \in Nat, n <= MaxHostBatch
    PROVE  b[p] \in Nat /\ b[p] + n <= Retained
  <1>1. b[p] \in Nat /\ ~(b[p] >= OutboxCapacity)
    BY RegisteredIn DEF AtCapacity
  <1>2. OutboxCapacity \in Nat /\ MaxHostBatch \in Nat
    BY HostAssumption
  <1> QED  BY <1>1, <1>2 DEF Retained

(* A call leaves whoever was at capacity alone, or out, and the others have *)
(* room for what it makes.                                                  *)
LEMMA BatchFitsTheOutbox ==
    ASSUME HostInv, NEW input \in Inputs(role)
    PROVE  FitsTheOutbox(input, Batch(input))
  <1> DEFINE s == Batch(input)
             b == Entered(input)
  <1>1. b \in Outboxes
    BY EnteredIn
  <1> SUFFICES ASSUME NEW p \in Registered(s.backlog)
               PROVE  IF p \in AtCapacity(b) THEN s.backlog[p] = backlog[p]
                      ELSE s.backlog[p] + Burst(input, p) <= Retained
    BY DEF FitsTheOutbox
  <1>2. /\ p \in Registered(b) /\ s.backlog[p] = b[p] + s.produced[p]
        /\ p \in AtCapacity(b) => s.produced[p] = 0
    BY BatchDelivers DEF Delivers
  <1>3. p \in Ids /\ b[p] \in Nat
    BY <1>1, <1>2, RegisteredIn
  <1>4. /\ s.produced[p] \in Nat /\ Burst(input, p) \in Nat
        /\ s.produced[p] + Burst(input, p) <= MaxHostBatch
    BY <1>3, BatchIsSmall
  <1> DEFINE after == s.backlog[p]
             made  == s.produced[p]
             burst == Burst(input, p)
  <1>5. CASE p \in AtCapacity(b)
    <2>1. b[p] = backlog[p]
      <3>1. b[p] # 0
        BY <1>3, <1>5, Capacity DEF AtCapacity
      <3>2. HostInv => backlog \in Outboxes
        BY DEF HostInv, HostOk
      <3>3. input.type = "Join" => input.peer \in Ids
        BY HandleIn DEF HostInv, HostOk
      <3> QED  BY <1>3, <3>1, <3>2, <3>3 DEF Entered, Outboxes
    <2>2. s.backlog[p] = b[p]
      BY <1>2, <1>3, <1>5
    <2> QED  BY <1>5, <2>1, <2>2
  <1>6. CASE p \notin AtCapacity(b)
    <2>1. made + burst \in Nat
      BY <1>4
    <2>2. b[p] + (made + burst) <= Retained
      BY <1>1, <1>2, <1>4, <1>6, <2>1, BelowCapacity
    <2>3. after = b[p] + made /\ made \in Nat /\ burst \in Nat
      BY <1>2, <1>4
    <2> HIDE DEF after, made, burst
    <2>4. after + burst <= Retained
      <3>1. Retained \in Nat
        BY Capacity, HostAssumption DEF Retained
      <3> QED  BY <1>3, <2>2, <2>3, <3>1
    <2> QED  BY <1>6, <2>4 DEF after, burst
  <1> QED  BY <1>5, <1>6

(* So it keeps every outbox within the bound.                               *)
LEMMA CallStaysWithin ==
    ASSUME HostInv, Within(backlog), NEW inputs, inputs \subseteq Inputs(role), Call(inputs)
    PROVE  Within(backlog')
  <1>1. PICK input \in inputs : Becomes(Batch(input))
    BY DEF Call
  <1> DEFINE s == Batch(input)
             b == Entered(input)
  <1>2. backlog' = s.backlog
    BY <1>1 DEF Becomes
  <1>3. FitsTheOutbox(input, s) /\ input \in Inputs(role)
    BY BatchFitsTheOutbox
  <1>4. s \in Reductions
    BY <1>3, BatchDelivers DEF Delivers
  <1>5. s.backlog \in Outboxes
    BY <1>4, ReductionFields
  <1>6. b \in Outboxes /\ HostOk(role, backlog)
    BY <1>3, EnteredIn DEF HostInv
  <1>7. ASSUME NEW p \in Registered(s.backlog) PROVE s.backlog[p] <= Retained
    <2>1. s.backlog[p] \in Nat /\ p \in Ids
      BY <1>5, RegisteredIn
    <2>2. CASE p \in AtCapacity(b)
      <3>1. s.backlog[p] = backlog[p]
        BY <1>3, <2>2 DEF FitsTheOutbox
      <3>2. p \in Registered(backlog)
        BY <1>6, <2>1, <3>1, Constants DEF Registered
      <3> QED  BY <3>1, <3>2 DEF Within
    <2>3. CASE p \notin AtCapacity(b)
      <3>1. s.backlog[p] + Burst(input, p) <= Retained
        BY <1>3, <2>3 DEF FitsTheOutbox
      <3>2. Burst(input, p) \in Nat
        BY <1>3, <2>1, BatchIsSmall
      <3>3. Retained \in Nat
        BY Capacity, HostAssumption DEF Retained
      <3> QED  BY <2>1, <3>1, <3>2, <3>3
    <2> QED  BY <2>2, <2>3
  <1> QED  BY <1>2, <1>7 DEF Within

(* So does the removal of a slow consumer by a relay.                       *)
LEMMA RelaySlowStaysWithin ==
    ASSUME HostInv, Within(backlog), NEW p \in Registered(backlog), NEW s, s = RelaySlow(p)
    PROVE  Within(s.backlog)
  <1> DEFINE f == AtCapacity(Without(backlog, p))
  <1>1. PICK r : Delivers(backlog, f, r, s)
    BY RelaySlowDelivers
  <1>2. backlog \in Outboxes /\ p \in Ids
    BY RegisteredIn DEF HostInv, HostOk
  <1>3. s \in Reductions /\ \A q \in Ids : s.produced[q] \in Nat /\ s.produced[q] <= 2
    BY <1>1, RelaySlowDelivers, ReductionFields DEF Delivers
  <1> SUFFICES ASSUME NEW q \in Registered(s.backlog) PROVE s.backlog[q] <= Retained
    BY DEF Within
  <1>4. /\ q \in Registered(backlog) /\ s.backlog[q] = backlog[q] + s.produced[q]
        /\ q \in f => s.produced[q] = 0
    BY <1>1 DEF Delivers
  <1>5. q \in Ids /\ backlog[q] \in Nat /\ backlog[q] <= Retained
    BY <1>2, <1>4, RegisteredIn DEF Within
  <1>6. CASE q \in AtCapacity(backlog) /\ q # p
    <2>1. q \in f
      BY <1>2, <1>4, <1>5, <1>6, WithoutIn DEF AtCapacity
    <2> QED  BY <1>4, <1>5, <2>1
  <1>7. CASE q \notin AtCapacity(backlog)
    <2>1. s.produced[q] \in Nat /\ s.produced[q] <= MaxHostBatch
      BY <1>3, <1>5, HostAssumption, BatchAssumption
    <2> QED  BY <1>2, <1>4, <1>7, <2>1, BelowCapacity
  <1>8. q # p
    BY RelaySlowDelivers
  <1> QED  BY <1>6, <1>7, <1>8

(* No outbox ever holds more than "(capacity - 1) + MAX_HOST_BATCH", for    *)
(* any capacity: it passes its capacity in one reduction only, and from     *)
(* then on what is sent to it is its end (core.rs, MAX_HOST_BATCH).         *)
THEOREM OutboxesFit == HostSpec => []OutboxesAreBounded
  <1> DEFINE Inv == HostInv /\ Within(backlog)
  <1>1. HostInit => Within(backlog)
    BY DEF HostInit, Within, Registered
  <1>2. HostInv /\ Within(backlog) /\ [HostNext]_hostVars => Within(backlog)'
    <2> SUFFICES ASSUME HostInv, Within(backlog), [HostNext]_hostVars PROVE Within(backlog')
      OBVIOUS
    <2>1. RoleInv(role) /\ backlog \in Outboxes /\ Registered(backlog) = Members(role)
      BY DEF HostInv, HostOk
    <2>2. CASE HostJoin
      BY <2>2, CallStaysWithin DEF HostJoin, Inputs
    <2>3. CASE HostLeave
      <3>1. [type : {"Leave"}, peer : Registered(backlog)] \subseteq Inputs(role)
        BY <2>1 DEF Inputs, LeaveInputs
      <3> QED  BY <2>3, <3>1, CallStaysWithin DEF HostLeave
    <2>4. CASE HostPacket
      BY <2>4, CallStaysWithin DEF HostPacket, Inputs
    <2>5. CASE HostMalformed
      BY <2>5, CallStaysWithin DEF HostMalformed, Inputs
    <2>6. CASE HostTick
      BY <2>6, CallStaysWithin DEF HostTick, Inputs
    <2>7. ASSUME NEW p \in Ids, Relay(p) PROVE Within(backlog')
      <3>1. p \in Registered(backlog)
        BY <2>7 DEF Relay
      <3>2. CASE p \in AtCapacity(backlog)
        <4> DEFINE s == RelaySlow(p)
        <4>1. backlog' = s.backlog
          BY <2>7, <3>2 DEF Relay, Becomes
        <4>2. Within(s.backlog)
          BY <3>1, RelaySlowStaysWithin
        <4> QED  BY <4>1, <4>2
      <3>3. CASE p \notin AtCapacity(backlog)
        <4> DEFINE n == backlog[p] + 1
        <4>1. n \in Nat /\ n <= Retained
          <5>1. 1 \in Nat /\ 1 <= MaxHostBatch
            BY HostAssumption
          <5>2. backlog[p] \in Nat /\ backlog[p] + 1 <= Retained
            BY <2>1, <3>1, <3>3, <5>1, BelowCapacity
          <5> QED  BY <5>2
        <4>2. backlog' = [backlog EXCEPT ![p] = n]
          BY <2>7, <3>3 DEF Relay
        <4> HIDE DEF n
        <4> QED  BY <2>1, <3>1, <4>1, <4>2 DEF Within, Registered, Outboxes
      <3> QED  BY <3>2, <3>3
    <2>8. ASSUME NEW p \in Ids, PopOutbound(p) PROVE Within(backlog')
      <3> DEFINE n == backlog[p] - 1
      <3>1. p \in Registered(backlog) /\ backlog[p] > 0 /\ backlog' = [backlog EXCEPT ![p] = n]
        BY <2>8 DEF PopOutbound
      <3>2. backlog[p] \in Nat /\ backlog[p] <= Retained /\ Retained \in Nat
        BY <2>1, <3>1, RegisteredIn, Capacity, HostAssumption DEF Within, Retained
      <3>3. n \in Nat /\ n <= Retained
        BY <3>1, <3>2
      <3> HIDE DEF n
      <3> QED  BY <2>1, <3>1, <3>3 DEF Within, Registered, Outboxes
    <2>9. CASE UNCHANGED hostVars
      BY <2>9 DEF hostVars
    <2> QED  BY <2>2, <2>3, <2>4, <2>5, <2>6, <2>7, <2>8, <2>9 DEF HostNext
  <1>3. HostInv /\ Within(backlog) => OutboxesAreBounded
    BY BatchFitsTheOutbox DEF OutboxesAreBounded, Within
  <1>4. HostSpec => []Inv
    BY <1>1, <1>2, HostInvariant, PTL DEF HostSpec
  <1> QED  BY <1>3, <1>4, PTL

(* So neither assertion on memory can fail.                                 *)
THEOREM MemoryStaysBounded == HostSpec => []MemoryIsBounded
  <1>1. BatchesAreBounded /\ OutboxesAreBounded => MemoryIsBounded
    BY DEF MemoryIsBounded
  <1> QED  BY <1>1, BatchesFit, OutboxesFit, PTL
=============================================================================
