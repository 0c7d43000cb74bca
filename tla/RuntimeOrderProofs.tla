------------------------ MODULE RuntimeOrderProofs ------------------------
(***************************************************************************)
(* Nothing that is owed is lost, doubled or overtaken on its way from the  *)
(* host to a socket, for every number of sessions, listeners and addresses *)
(* and every bound.                                                        *)
(*                                                                         *)
(* The argument.  Whoever holds frames of a member, they are numbered      *)
(* without a gap and end with the last one made for it (Tallied).  What a  *)
(* listener holds of an address, what the room owes it and the outbox of   *)
(* its member are one such line (Lines), and so are what a session sent,   *)
(* the frame in its hand and what waits for it, from the first frame on    *)
(* (Served).  A reduction lengthens a line or cuts off an outbox as a      *)
(* whole (CapturedTallies); every other step moves frames along it.  That  *)
(* nobody else takes them rests on the ids: in the first life of the room  *)
(* no two sessions share one, and none has that of an address (Seating).   *)
(***************************************************************************)
EXTENDS RuntimeProofs

(* The last frames of the m that were made, in order.                       *)
Tallied(u, m) == \A i \in 1..Len(u) : u[i] = m - Len(u) + i

(* The same of datagrams, all to member p.                                  *)
Line(u, p, m) == \A i \in 1..Len(u) : u[i].id = p /\ u[i].frame = m - Len(u) + i

(* What the room holds for an address; b is what its listener holds.        *)
Carried(r, x) ==
    r.owed[x] \o (IF x \in DOMAIN r.addresses
                  THEN Datagrams(r, r.outbox[r.addresses[x]], r.addresses[x]) ELSE << >>)

OwnsLine(r, x, p) == p \in Members(r) => p \in DOMAIN r.peers /\ r.peers[p] = x
InLine(r, x, b) ==
    b \o Carried(r, x) # << >> =>
        \E p \in DOMAIN r.made :
            OwnsLine(r, x, p) /\ Line(b \o Carried(r, x), p, r.made[p])
Lines(r, ls) == \A x \in Sources : InLine(r, x, ls[x[1]].batch[x])

(* What the room holds for a session's member, and what the session had.    *)
Stored(r, p) ==
    (IF p \in Members(r) THEN r.outbox[p] ELSE << >>) \o r.connections[p].pending
Had(c, given) == given \o (IF c.writer = "send" THEN << c.frame >> ELSE << >>)

Told(r, p, h) == Len(h \o Stored(r, p)) = r.made[p] /\ Tallied(h \o Stored(r, p), r.made[p])

ServedIs(r, c, given) ==
    c.id \in DOMAIN r.connections /\ c.writer # "done" =>
        /\ given \in Seq(Int) /\ (c.writer = "send" => c.frame \in Int)
        /\ Told(r, c.id, Had(c, given))
        /\ c.writer \in {"take", "closed"} => c.id \notin Members(r)
Served(r, se, sn) == \A s \in Sessions : ServedIs(r, se[s], sn[s])

(* Nobody writes for somebody else's member.                                *)
Seating(r, se) ==
    /\ \A s \in Sessions : se[s].id \in Nat /\ se[s].id < r.next /\ se[s].id \notin DOMAIN r.peers
    /\ \A s, t \in Sessions : se[s].id = se[t].id => s = t \/ se[s].id = 0

(* Only who is removed has pending frames.                                  *)
Parked(r) ==
    /\ r.next # 0 /\ 0 \notin DOMAIN r.made
    /\ \A p \in DOMAIN r.connections :
          /\ r.connections[p].pending \in Seq(Int)
          /\ p \in Members(r) => r.connections[p].pending = << >>

Ordered(r, se, sn, ls) ==
    Parked(r) /\ Seating(r, se) /\ Served(r, se, sn) /\ Lines(r, ls)

Desks ==
    /\ DOMAIN session = Sessions /\ DOMAIN sent = Sessions
    /\ \A s \in Sessions :
          /\ {"id", "reader", "writer", "frame"} \subseteq DOMAIN session[s]
          /\ session[s].reader = "new" =>
                session[s].writer = "new" /\ session[s].id = 0 /\ sent[s] = << >>

OInv ==
    /\ AInv /\ Desks
    /\ lives = 0 => room = NoRoom /\ \A s \in Sessions : session[s].id = 0
    /\ lives = 1 /\ room # NoRoom => Ordered(room, session, sent, listener)

-----------------------------------------------------------------------------
(* Lines.                                                                   *)

(* Two sequences in a row.                                                  *)
LEMMA ConcatIn ==
    ASSUME NEW D, NEW h \in Seq(D), NEW w \in Seq(D)
    PROVE  /\ h \o w \in Seq(D) /\ Len(h \o w) = Len(h) + Len(w)
           /\ Len(h) \in Nat /\ Len(w) \in Nat
           /\ \A i \in 1..Len(h) : (h \o w)[i] = h[i]
           /\ \A i \in 1..Len(w) : (h \o w)[Len(h) + i] = w[i]
           /\ \A i \in 1..Len(h \o w) : i \in 1..Len(h)
                 \/ (i - Len(h) \in 1..Len(w) /\ (h \o w)[i] = w[i - Len(h)])
  OBVIOUS

(* A line is one when its halves are, the second after the first.           *)
LEMMA TalliedConcat ==
    ASSUME NEW h \in Seq(Int), NEW w \in Seq(Int), NEW m \in Int
    PROVE  Tallied(h \o w, m) <=> Tallied(h, m - Len(w)) /\ Tallied(w, m)
  <1> DEFINE u == h \o w
             n == Len(h)
             k == Len(w)
  <1>1. /\ Len(u) = n + k /\ n \in Nat /\ k \in Nat
        /\ \A i \in 1..n : u[i] = h[i]
        /\ \A i \in 1..k : u[n + i] = w[i]
        /\ \A i \in 1..(n + k) : i \in 1..n \/ (i - n \in 1..k /\ u[i] = w[i - n])
    BY ConcatIn
  <1> HIDE DEF u, n, k
  <1>2. ASSUME Tallied(u, m)  PROVE Tallied(h, m - k) /\ Tallied(w, m)
    <2>1. \A i \in 1..n : h[i] = (m - k) - n + i
      <3> SUFFICES ASSUME NEW i \in 1..n  PROVE h[i] = (m - k) - n + i
        OBVIOUS
      <3>1. i \in 1..(n + k)
        BY <1>1
      <3> QED  BY <1>1, <1>2, <3>1 DEF Tallied
    <2>2. \A i \in 1..k : w[i] = m - k + i
      <3> SUFFICES ASSUME NEW i \in 1..k  PROVE w[i] = m - k + i
        OBVIOUS
      <3>1. n + i \in 1..(n + k)
        BY <1>1
      <3>2. u[n + i] = m - (n + k) + (n + i)
        BY <1>1, <1>2, <3>1 DEF Tallied
      <3> QED  BY <1>1, <3>2
    <2> QED  BY <2>1, <2>2 DEF Tallied, n, k
  <1>3. ASSUME Tallied(h, m - k), Tallied(w, m)  PROVE Tallied(u, m)
    <2>1. ASSUME NEW i \in 1..(n + k)  PROVE u[i] = m - (n + k) + i
      <3>1. CASE i \in 1..n
        <4>1. u[i] = h[i] /\ h[i] = (m - k) - n + i
          BY <1>1, <1>3, <3>1 DEF Tallied, n
        <4> QED  BY <1>1, <4>1
      <3>2. CASE i - n \in 1..k /\ u[i] = w[i - n]
        <4>1. w[i - n] = m - k + (i - n)
          BY <1>3, <3>2 DEF Tallied, k
        <4> QED  BY <1>1, <3>2, <4>1
      <3> QED  BY <1>1, <3>1, <3>2
    <2> QED  BY <1>1, <2>1 DEF Tallied
  <1> QED  BY <1>2, <1>3 DEF u, k

(* And the same of datagrams, the second half fresh from frames.            *)
LEMMA LineConcat ==
    ASSUME NEW D, NEW b \in Seq(D), NEW r, NEW f \in Seq(Int), NEW p, NEW m \in Int
    PROVE  Line(b \o Datagrams(r, f, p), p, m) <=> Line(b, p, m - Len(f)) /\ Tallied(f, m)
  <1> DEFINE w == Datagrams(r, f, p)
             u == b \o w
             n == Len(b)
             k == Len(f)
             E == D \cup [life : {r.life}, id : {p}, frame : Int]
  <1>1. k \in Nat /\ DOMAIN w = 1..k
        /\ \A i \in 1..k : w[i].id = p /\ w[i].frame = f[i]
    BY DEF Datagrams
  <1>2. w \in Seq(E) /\ b \in Seq(E)
    <2> DEFINE C == [life : {r.life}, id : {p}, frame : Int]
    <2>1. w \in Seq(C) /\ E = D \cup C
      BY DatagramsAreOwn
    <2> HIDE DEF w, C, E
    <2> QED  BY <2>1
  <1>3. Len(w) = k
    <2>1. DOMAIN w = 1..Len(w) /\ Len(w) \in Nat
      <3> HIDE DEF w, E
      <3> QED  BY <1>2, LenProperties
    <2> HIDE DEF w, k
    <2> QED  BY <1>1, <2>1
  <1> HIDE DEF w, E
  <1>4. /\ Len(u) = n + k /\ n \in Nat
        /\ \A i \in 1..n : u[i] = b[i]
        /\ \A i \in 1..k : u[n + i] = w[i]
        /\ \A i \in 1..(n + k) : i \in 1..n \/ (i - n \in 1..k /\ u[i] = w[i - n])
    <2>1. /\ Len(b \o w) = Len(b) + Len(w) /\ Len(b) \in Nat
          /\ \A i \in 1..Len(b) : (b \o w)[i] = b[i]
          /\ \A i \in 1..Len(w) : (b \o w)[Len(b) + i] = w[i]
          /\ \A i \in 1..Len(b \o w) : i \in 1..Len(b)
                \/ (i - Len(b) \in 1..Len(w) /\ (b \o w)[i] = w[i - Len(b)])
      <3> HIDE DEF u, n, k
      <3> QED  BY <1>2, ConcatIn
    <2>2. Len(u) = n + k /\ n \in Nat
      BY <1>3, <2>1
    <2> HIDE DEF k
    <2> QED  BY <1>3, <2>1, <2>2
  <1> HIDE DEF u, n, k
  <1>5. ASSUME Line(u, p, m)  PROVE Line(b, p, m - k) /\ Tallied(f, m)
    <2>1. \A i \in 1..n : b[i].id = p /\ b[i].frame = (m - k) - n + i
      <3> SUFFICES ASSUME NEW i \in 1..n  PROVE b[i].id = p /\ b[i].frame = (m - k) - n + i
        OBVIOUS
      <3>1. i \in 1..(n + k)
        BY <1>1, <1>4
      <3>2. u[i].id = p /\ u[i].frame = m - (n + k) + i /\ u[i] = b[i]
        BY <1>4, <1>5, <3>1 DEF Line
      <3> QED  BY <1>1, <1>4, <3>2
    <2>2. \A i \in 1..k : f[i] = m - k + i
      <3> SUFFICES ASSUME NEW i \in 1..k  PROVE f[i] = m - k + i
        OBVIOUS
      <3>1. n + i \in 1..(n + k)
        BY <1>1, <1>4
      <3>2. u[n + i].frame = m - (n + k) + (n + i) /\ u[n + i] = w[i]
        BY <1>4, <1>5, <3>1 DEF Line
      <3> QED  BY <1>1, <1>4, <3>2
    <2> QED  BY <2>1, <2>2 DEF Line, Tallied, n, k
  <1>6. ASSUME Line(b, p, m - k), Tallied(f, m)  PROVE Line(u, p, m)
    <2>1. ASSUME NEW i \in 1..(n + k)  PROVE u[i].id = p /\ u[i].frame = m - (n + k) + i
      <3>1. CASE i \in 1..n
        <4>1. u[i] = b[i] /\ b[i].id = p /\ b[i].frame = (m - k) - n + i
          BY <1>4, <1>6, <3>1 DEF Line, n
        <4> QED  BY <1>1, <1>4, <4>1
      <3>2. CASE i - n \in 1..k /\ u[i] = w[i - n]
        <4>1. f[i - n] = m - k + (i - n) /\ u[i].id = p /\ u[i].frame = f[i - n]
          BY <1>1, <1>6, <3>2 DEF Tallied, k
        <4> QED  BY <1>1, <1>4, <4>1
      <3> QED  BY <1>4, <3>1, <3>2
    <2> QED  BY <1>4, <2>1 DEF Line
  <1> QED  BY <1>5, <1>6 DEF u, w, k

(* Without its first frame it is still one.                                 *)
LEMMA LineTail ==
    ASSUME NEW D, NEW u \in Seq(D), u # << >>, NEW p, NEW m \in Int, Line(u, p, m)
    PROVE  Line(Tail(u), p, m)
  <1> DEFINE v == Tail(u)
             n == Len(v)
  <1>1. n \in Nat /\ Len(u) = n + 1 /\ \A i \in 1..n : v[i] = u[i + 1] /\ i + 1 \in 1..(n + 1)
    OBVIOUS
  <1> HIDE DEF v, n
  <1>2. ASSUME NEW i \in 1..n  PROVE v[i].id = p /\ v[i].frame = m - n + i
    <2>1. u[i + 1].id = p /\ u[i + 1].frame = m - (n + 1) + (i + 1)
      BY <1>1 DEF Line
    <2> QED  BY <1>1, <2>1
  <1> QED  BY <1>2 DEF Line, v, n

(* What a reduction makes of an outbox: the line goes on, or the outbox is  *)
(* cut off and its frames are not counted.                                  *)
LEMMA CapturedTallies ==
    ASSUME NEW r, Registered(r), NEW Q \in SUBSET Members(r), NEW T, NEW p \in Members(r),
           Tallied(r.outbox[p], r.made[p])
    PROVE  LET c == Captured(r, Q, T, p)
               m == MadeFor(r, Q, T, p)
           IN  /\ c \in Seq(Int) /\ m \in Int /\ r.made[p] \in Int /\ r.outbox[p] \in Seq(Int)
               /\ Tallied(c, m) /\ m - Len(c) = r.made[p] - Len(r.outbox[p])
  <1> DEFINE out == r.outbox[p]
             made == r.made[p]
             k == Len(out)
             queued == QueuedFor(r, Q, p)
             c == Captured(r, Q, T, p)
             m == MadeFor(r, Q, T, p)
             q == IF p \in Q THEN 1 ELSE 0
  <1>1. out \in Seq(Int) /\ made \in Int /\ c \in Seq(Int) /\ m \in Int /\ queued \in Seq(Int)
    BY CapturedIsQueue DEF Registered, Members
  <1>2. Len(c) \in Nat /\ k \in Nat /\ m = made + Len(c) - k /\ m - Len(c) = made - k
    BY <1>1, LenProperties DEF MadeFor
  <1>3. CASE p \in Slow(r, Q)
    <2>1. c = << >>
      BY <1>3 DEF Captured, QueuedFor
    <2> QED  BY <1>1, <1>2, <2>1 DEF Tallied
  <1>4. CASE p \notin Slow(r, Q)
    <2>1. ASSUME NEW s \in Seq(Int), NEW n \in Int, Tallied(s, n)
          PROVE  Tallied(Append(s, n + 1), n + 1)
      <3> DEFINE t == Append(s, n + 1)
                 j == Len(s)
      <3>1. j \in Nat /\ Len(t) = j + 1 /\ t[j + 1] = n + 1 /\ \A i \in 1..j : t[i] = s[i]
        OBVIOUS
      <3> HIDE DEF t, j
      <3>2. ASSUME NEW i \in 1..(j + 1)  PROVE t[i] = (n + 1) - (j + 1) + i
        <4>1. CASE i = j + 1
          BY <3>1, <4>1
        <4>2. CASE i \in 1..j
          <5>1. s[i] = n - j + i
            BY <2>1, <4>2 DEF Tallied, j
          <5> QED  BY <3>1, <4>2, <5>1
        <4> QED  BY <3>1, <4>1, <4>2
      <3> QED  BY <3>1, <3>2 DEF Tallied, t
    <2>2. queued = IF p \in Q THEN Append(out, made + 1) ELSE out
      BY <1>4 DEF QueuedFor
    <2>3. Tallied(queued, made + q) /\ Len(queued) = k + q
      <3>1. CASE p \in Q
        <4>1. queued = Append(out, made + 1) /\ q = 1
          BY <2>2, <3>1
        <4>2. Len(Append(out, made + 1)) = k + 1
          BY <1>1
        <4> QED  BY <1>1, <2>1, <4>1, <4>2
      <3>2. CASE p \notin Q
        BY <1>1, <1>2, <2>2, <3>2
      <3> QED  BY <3>1, <3>2
    <2>4. CASE p \in T
      <3>1. c = Append(queued, made + (IF p \in Q THEN 2 ELSE 1))
        BY <1>4, <2>4 DEF Captured
      <3>2. made + (IF p \in Q THEN 2 ELSE 1) = (made + q) + 1 /\ made + q \in Int
        BY <1>1
      <3> HIDE DEF queued, q, made, k
      <3>3. Tallied(c, (made + q) + 1)
        BY <1>1, <2>1, <2>3, <3>1, <3>2
      <3>4. Len(c) = k + q + 1
        <4>1. Len(Append(queued, (made + q) + 1)) = Len(queued) + 1
          BY <1>1
        <4> QED  BY <2>3, <3>1, <3>2, <4>1
      <3>5. m = (made + q) + 1
        BY <1>1, <1>2, <3>2, <3>4 DEF q
      <3> QED  BY <1>1, <1>2, <3>3, <3>5 DEF made, k
    <2>5. CASE p \notin T
      <3>1. c = queued
        BY <2>5 DEF Captured
      <3>2. m = made + q
        <4>1. q \in Int
          OBVIOUS
        <4> HIDE DEF queued, made, k, c, m, q
        <4>2. Len(c) = k + q
          BY <2>3, <3>1
        <4> QED  BY <1>1, <1>2, <4>1, <4>2
      <3> QED  BY <1>1, <1>2, <2>3, <3>1, <3>2
    <2> QED  BY <2>4, <2>5
  <1> QED  BY <1>3, <1>4

-----------------------------------------------------------------------------
(* Reductions.                                                              *)

(* What the room carries for an address: its outbox while it is mapped, and *)
(* afterwards what it is owed.                                              *)
LEMMA CarriedIs ==
    ASSUME NEW r, RoomInv(r), NEW x \in Sources
    PROVE  /\ x \in DOMAIN r.addresses =>
                LET p == r.addresses[x]
                IN  /\ p \in Members(r) /\ p \in DOMAIN r.peers /\ r.peers[p] = x
                    /\ p \in DOMAIN r.made /\ p \in Nat
                    /\ r.outbox[p] \in Seq(Int) /\ r.made[p] \in Int
                    /\ Carried(r, x) = Datagrams(r, r.outbox[p], p)
           /\ x \notin DOMAIN r.addresses => Carried(r, x) = r.owed[x]
           /\ Carried(r, x) \in Seq(Datagram(r))
  <1>1. r.owed[x] \in Seq(Datagram(r)) /\ (x \in DOMAIN r.addresses => r.owed[x] = << >>)
    BY DEF RoomInv, Entombed
  <1>2. CASE x \in DOMAIN r.addresses
    <2> DEFINE p == r.addresses[x]
               own == [life : {r.life}, id : {p}, frame : Int]
               d == Datagrams(r, r.outbox[p], p)
    <2>1. p \in DOMAIN r.peers /\ r.peers[p] = x /\ p \in Members(r)
      BY <1>2 DEF RoomInv, Agrees
    <2>2. /\ p \in DOMAIN r.made /\ p \in Nat
          /\ r.outbox[p] \in Seq(Int) /\ r.made[p] \in Int
      BY <2>1 DEF RoomInv, Registered, Members
    <2>3. d \in Seq(own)
      BY <2>2, DatagramsAreOwn
    <2>4. own \subseteq Datagram(r)
      BY <2>2 DEF Datagram
    <2> HIDE DEF own
    <2>5. d \in Seq(Datagram(r))
      BY <2>3, <2>4
    <2>6. Carried(r, x) = r.owed[x] \o d
      BY <1>2 DEF Carried
    <2>7. Carried(r, x) = d
      <3> HIDE DEF d
      <3> QED  BY <1>1, <1>2, <2>5, <2>6
    <2> QED  BY <1>2, <2>1, <2>2, <2>5, <2>7
  <1>3. CASE x \notin DOMAIN r.addresses
    <2>1. Carried(r, x) = r.owed[x] \o << >>
      BY <1>3 DEF Carried
    <2> QED  BY <1>1, <1>3, <2>1
  <1> QED  BY <1>2, <1>3

(* Of a mapped address, the line is its member's.                           *)
LEMMA MappedLine ==
    ASSUME NEW r, RoomInv(r), NEW x \in DOMAIN r.addresses, x \in Sources,
           NEW b \in Seq(Own(r, x))
    PROVE  InLine(r, x, b) <=>
             Line(b \o Datagrams(r, r.outbox[r.addresses[x]], r.addresses[x]),
                  r.addresses[x], r.made[r.addresses[x]])
  <1> DEFINE p == r.addresses[x]
             d == Datagrams(r, r.outbox[p], p)
             u == b \o d
  <1>1. /\ p \in Members(r) /\ p \in DOMAIN r.peers /\ r.peers[p] = x /\ p \in DOMAIN r.made
        /\ r.outbox[p] \in Seq(Int) /\ Carried(r, x) = d
    BY CarriedIs
  <1>2. d \in Seq(Own(r, x))
    BY <1>1, DatagramsAreOwn DEF Own
  <1> HIDE DEF d
  <1>3. u \in Seq(Own(r, x)) /\ Len(u) \in Nat /\ (u # << >> => 1 \in 1..Len(u))
    BY <1>2
  <1>4. u # << >> => u[1].id = p
    <2>1. u # << >> => u[1] \in Own(r, x)
      <3> HIDE DEF u
      <3> QED  BY <1>3, ElementOfSeq
    <2> QED  BY <2>1 DEF Own
  <1>5. u = << >> => Line(u, p, r.made[p])
    BY DEF Line
  <1>6. OwnsLine(r, x, p)
    BY <1>1 DEF OwnsLine
  <1> HIDE DEF u, p
  <1>7. ASSUME InLine(r, x, b), u # << >>  PROVE Line(u, p, r.made[p])
    <2>1. b \o Carried(r, x) = u
      BY <1>1 DEF u
    <2>2. PICK q \in DOMAIN r.made : OwnsLine(r, x, q) /\ Line(u, q, r.made[q])
      BY <1>7, <2>1 DEF InLine
    <2>3. q = p
      BY <1>3, <1>4, <1>7, <2>2 DEF Line
    <2> QED  BY <2>2, <2>3
  <1>8. ASSUME Line(u, p, r.made[p])  PROVE InLine(r, x, b)
    BY <1>1, <1>6, <1>8 DEF InLine, u
  <1> QED  BY <1>5, <1>7, <1>8 DEF u, p, d

LEMMA ReducedInLine ==
    ASSUME NEW r, RoomInv(r), NEW Q \in SUBSET Members(r), NEW R \in SUBSET Members(r),
           NEW T \in SUBSET R, NEW x \in Sources, NEW b \in Seq(Datagram(r)),
           x \in DOMAIN r.addresses => b \in Seq(Own(r, x)), InLine(r, x, b)
    PROVE  InLine(Applied(r, Q, R, T), x, b)
  <1> DEFINE a == Applied(r, Q, R, T)
             gone == Gone(r, Q, R)
             left == LeftBehind(r, gone)
  <1>a. Reduced(r, Q, R, T, a) /\ RoomInv(a)
    <2>1. Shape(r)
      BY DEF RoomInv
    <2> QED  BY <2>1, AppliedFields, AppliedIsRoom
  <1> HIDE DEF a
  <1>1. /\ a.life = r.life
        /\ a.outbox = [p \in DOMAIN r.outbox \ gone |-> QueuedFor(r, Q, p)]
        /\ a.made = [p \in DOMAIN r.made |->
               IF p \in Members(r) THEN MadeFor(r, Q, T, p) ELSE r.made[p]]
        /\ a.peers = Without(r.peers, gone)
        /\ a.addresses = Without(r.addresses, left)
        /\ a.owed = [y \in Sources |->
             IF y \in left
             THEN r.owed[y] \o Datagrams(r, Captured(r, Q, T, r.addresses[y]), r.addresses[y])
             ELSE r.owed[y]]
    BY <1>a DEF Reduced
  <1>2. RoomInv(a)
    BY <1>a
  <1>3. gone \subseteq Members(r) /\ R \subseteq gone
    BY DEF Gone, Slow
  <1>4. Members(a) = Members(r) \ gone
    BY <1>1 DEF Members
  <1>5. CASE x \notin DOMAIN r.addresses
    <2>1. x \notin left
      BY <1>5 DEF RoomInv, Agrees, LeftBehind
    <2>2. x \notin DOMAIN a.addresses /\ a.owed[x] = r.owed[x]
      BY <1>1, <1>5, <2>1 DEF Without
    <2>3. Carried(a, x) = Carried(r, x)
      BY <1>2, <1>5, <2>2, CarriedIs
    <2> SUFFICES ASSUME b \o Carried(r, x) # << >>
                 PROVE  \E p \in DOMAIN a.made :
                            OwnsLine(a, x, p) /\ Line(b \o Carried(r, x), p, a.made[p])
      BY <2>3 DEF InLine, a
    <2>4. PICK p \in DOMAIN r.made : OwnsLine(r, x, p) /\ Line(b \o Carried(r, x), p, r.made[p])
      BY DEF InLine
    <2>5. p \notin Members(r)
      BY <1>5, <2>4 DEF OwnsLine, RoomInv, Agrees
    <2>6. p \in DOMAIN a.made /\ a.made[p] = r.made[p] /\ p \notin Members(a)
      BY <1>1, <1>4, <2>5
    <2> QED  BY <2>4, <2>6 DEF OwnsLine
  <1>6. CASE x \in DOMAIN r.addresses
    <2> DEFINE p == r.addresses[x]
               c == Captured(r, Q, T, p)
               m == MadeFor(r, Q, T, p)
    <2>1. /\ p \in Members(r) /\ p \in DOMAIN r.peers /\ r.peers[p] = x /\ p \in DOMAIN r.made
          /\ r.outbox[p] \in Seq(Int) /\ r.made[p] \in Int /\ b \in Seq(Own(r, x))
      BY <1>6, CarriedIs
    <2>2. Line(b \o Datagrams(r, r.outbox[p], p), p, r.made[p])
      BY <1>6, <2>1, MappedLine
    <2>3. Line(b, p, r.made[p] - Len(r.outbox[p])) /\ Tallied(r.outbox[p], r.made[p])
      BY <2>1, <2>2, LineConcat
    <2>4. c \in Seq(Int) /\ m \in Int /\ Tallied(c, m)
          /\ m - Len(c) = r.made[p] - Len(r.outbox[p])
      BY <2>1, <2>3, CapturedTallies DEF RoomInv
    <2>5. a.made[p] = m /\ p \in DOMAIN a.made
      BY <1>1, <2>1
    <2> HIDE DEF c, m, p
    <2>6. Line(b \o Datagrams(r, c, p), p, m)
      BY <2>1, <2>3, <2>4, LineConcat
    <2>7. Carried(a, x) = Datagrams(r, c, p) /\ OwnsLine(a, x, p)
      <3>1. CASE p \in gone
        <4>1. x \in left
          BY <2>1, <3>1 DEF LeftBehind
        <4>2. x \notin DOMAIN a.addresses
          BY <1>1, <4>1 DEF Without
        <4>3. a.owed[x] = r.owed[x] \o Datagrams(r, c, p) /\ r.owed[x] = << >>
          BY <1>1, <1>6, <4>1 DEF RoomInv, Entombed, c, p
        <4>4. Datagrams(r, c, p) \in Seq([life : {r.life}, id : {p}, frame : Int])
          BY <2>4, DatagramsAreOwn
        <4>5. << >> \o Datagrams(r, c, p) = Datagrams(r, c, p)
          BY <4>4
        <4> QED  BY <1>2, <1>4, <3>1, <4>2, <4>3, <4>5, CarriedIs DEF OwnsLine
      <3>2. CASE p \notin gone
        <4>1. x \notin left
          <5>1. \A q \in gone \cap DOMAIN r.peers : r.peers[q] = x => q = p
            BY DEF RoomInv, Agrees, p
          <5> QED  BY <3>2, <5>1 DEF LeftBehind
        <4>2. x \in DOMAIN a.addresses /\ a.addresses[x] = p
          BY <1>1, <1>6, <4>1 DEF Without, p
        <4>3. p \notin T
          BY <1>3, <3>2
        <4>4. a.outbox[p] = c
          <5>1. a.outbox[p] = QueuedFor(r, Q, p)
            BY <1>1, <2>1, <3>2 DEF Members
          <5>2. c = QueuedFor(r, Q, p)
            BY <4>3 DEF c, Captured
          <5> QED  BY <5>1, <5>2
        <4>5. Datagrams(a, c, p) = Datagrams(r, c, p)
          BY <1>1 DEF Datagrams
        <4>6. Carried(a, x) = Datagrams(a, a.outbox[p], p) /\ p \in DOMAIN a.peers
              /\ a.peers[p] = x
          BY <1>2, <4>2, CarriedIs
        <4> QED  BY <4>4, <4>5, <4>6 DEF OwnsLine
      <3> QED  BY <3>1, <3>2
    <2> QED  BY <2>5, <2>6, <2>7 DEF InLine, a
  <1> QED  BY <1>5, <1>6

(* A reduction lengthens what its members are told, and starts nothing.     *)
LEMMA ReducedServed ==
    ASSUME NEW r, RoomInv(r), Wired(r), Parked(r),
           NEW Q \in SUBSET Members(r), NEW R \in SUBSET Members(r), NEW T \in SUBSET R,
           NEW c, NEW given, ServedIs(r, c, given)
    PROVE  ServedIs(Applied(r, Q, R, T), c, given)
  <1> DEFINE a == Applied(r, Q, R, T)
             gone == Gone(r, Q, R)
             p == c.id
             h == Had(c, given)
  <1>a. Reduced(r, Q, R, T, a)
    <2>1. Shape(r)
      BY DEF RoomInv
    <2> QED  BY <2>1, AppliedFields
  <1> HIDE DEF a
  <1>1. /\ a.outbox = [q \in DOMAIN r.outbox \ gone |-> QueuedFor(r, Q, q)]
        /\ a.made = [q \in DOMAIN r.made |->
               IF q \in Members(r) THEN MadeFor(r, Q, T, q) ELSE r.made[q]]
        /\ a.connections = [q \in DOMAIN r.connections |->
               IF q \in gone THEN WithPending(r.connections[q], Captured(r, Q, T, q))
               ELSE r.connections[q]]
    BY <1>a DEF Reduced
  <1>2. gone \subseteq Members(r) /\ R \subseteq gone
    BY DEF Gone, Slow
  <1> HIDE DEF gone
  <1>3. Members(a) = Members(r) \ gone
    BY <1>1 DEF Members
  <1> SUFFICES ASSUME p \in DOMAIN a.connections, c.writer # "done"
               PROVE  /\ given \in Seq(Int) /\ (c.writer = "send" => c.frame \in Int)
                      /\ Told(a, p, h)
                      /\ c.writer \in {"take", "closed"} => p \notin Members(a)
    BY DEF ServedIs, a
  <1>4. /\ p \in DOMAIN r.connections
        /\ given \in Seq(Int) /\ (c.writer = "send" => c.frame \in Int)
        /\ Told(r, p, h)
        /\ c.writer \in {"take", "closed"} => p \notin Members(r)
    BY <1>1 DEF ServedIs
  <1>5. h \in Seq(Int)
    BY <1>4 DEF Had
  <1>6. p \in DOMAIN r.made /\ r.made[p] \in Int
    BY <1>4 DEF RoomInv, Registered
  <1> HIDE DEF p, h
  <1>7. CASE p \notin Members(r)
    <2>1. a.connections[p] = r.connections[p] /\ a.made[p] = r.made[p] /\ p \notin Members(a)
      BY <1>1, <1>2, <1>3, <1>4, <1>6, <1>7
    <2>2. Stored(a, p) = Stored(r, p)
      BY <1>7, <2>1 DEF Stored
    <2> QED  BY <1>4, <2>1, <2>2 DEF Told
  <1>8. CASE p \in Members(r)
    <2> DEFINE out == r.outbox[p]
               k == Captured(r, Q, T, p)
               m == MadeFor(r, Q, T, p)
    <2>1. r.connections[p].pending = << >> /\ out \in Seq(Int)
      BY <1>4, <1>8 DEF Parked, RoomInv, Registered, Members
    <2>2. Stored(r, p) = out
      <3>1. Stored(r, p) = out \o << >>
        BY <1>8, <2>1 DEF Stored
      <3> QED  BY <2>1, <3>1
    <2> HIDE DEF out
    <2>3. Len(h \o out) = r.made[p] /\ Tallied(h, r.made[p] - Len(out)) /\ Tallied(out, r.made[p])
      BY <1>4, <1>5, <1>6, <2>1, <2>2, TalliedConcat DEF Told
    <2>4. k \in Seq(Int) /\ m \in Int /\ Tallied(k, m) /\ m - Len(k) = r.made[p] - Len(out)
      BY <1>8, <2>3, CapturedTallies DEF RoomInv, out
    <2>5. a.made[p] = m
      BY <1>1, <1>6, <1>8
    <2>6. Stored(a, p) = k
      <3>1. CASE p \in gone
        <4>1. a.connections[p] = WithPending(r.connections[p], k)
          BY <1>1, <1>4, <3>1
        <4>2. "pending" \in DOMAIN r.connections[p]
          BY <1>4 DEF Wired
        <4>3. a.connections[p].pending = << >> \o k
          BY <2>1, <4>1, <4>2 DEF WithPending
        <4>4. Stored(a, p) = << >> \o (<< >> \o k)
          BY <1>3, <3>1, <4>3 DEF Stored
        <4> HIDE DEF k
        <4> QED  BY <2>4, <4>4
      <3>2. CASE p \notin gone
        <4>1. p \notin T /\ a.connections[p] = r.connections[p] /\ p \in Members(a)
          BY <1>1, <1>2, <1>3, <1>4, <1>8, <3>2
        <4>2. a.outbox[p] = QueuedFor(r, Q, p)
          BY <1>1, <1>8, <3>2 DEF Members
        <4>3. k = QueuedFor(r, Q, p)
          BY <4>1 DEF Captured
        <4>4. Stored(a, p) = k \o << >>
          BY <2>1, <4>1, <4>2, <4>3 DEF Stored
        <4> HIDE DEF k
        <4> QED  BY <2>4, <4>4
      <3> QED  BY <3>1, <3>2
    <2> HIDE DEF k, m
    <2>7. Tallied(h \o k, m)
      BY <1>5, <2>3, <2>4, TalliedConcat
    <2>8. Len(h \o k) = m
      <3>1. /\ Len(h \o k) = Len(h) + Len(k) /\ Len(h \o out) = Len(h) + Len(out)
            /\ Len(h) \in Nat /\ Len(k) \in Nat /\ Len(out) \in Nat
        BY <1>5, <2>1, <2>4, ConcatIn
      <3> QED  BY <1>6, <2>3, <2>4, <3>1
    <2>9. Told(a, p, h)
      BY <2>5, <2>6, <2>7, <2>8 DEF Told
    <2> QED  BY <1>3, <1>4, <1>8, <2>9
  <1> QED  BY <1>7, <1>8

LEMMA ReducedParked ==
    ASSUME NEW r, RoomInv(r), Wired(r), Parked(r),
           NEW Q \in SUBSET Members(r), NEW R \in SUBSET Members(r), NEW T
    PROVE  Parked(Applied(r, Q, R, T))
  <1> DEFINE a == Applied(r, Q, R, T)
             gone == Gone(r, Q, R)
  <1>a. Reduced(r, Q, R, T, a)
    <2>1. Shape(r)
      BY DEF RoomInv
    <2> QED  BY <2>1, AppliedFields
  <1> HIDE DEF a
  <1>1. /\ a.next = r.next
        /\ a.outbox = [q \in DOMAIN r.outbox \ gone |-> QueuedFor(r, Q, q)]
        /\ DOMAIN a.made = DOMAIN r.made
        /\ a.connections = [q \in DOMAIN r.connections |->
               IF q \in gone THEN WithPending(r.connections[q], Captured(r, Q, T, q))
               ELSE r.connections[q]]
    BY <1>a DEF Reduced
  <1>2. gone \subseteq Members(r)
    BY DEF Gone, Slow
  <1> HIDE DEF gone
  <1>3. Members(a) = Members(r) \ gone
    BY <1>1 DEF Members
  <1>4. ASSUME NEW p \in DOMAIN a.connections
        PROVE  a.connections[p].pending \in Seq(Int)
               /\ (p \in Members(a) => a.connections[p].pending = << >>)
    <2>1. p \in DOMAIN r.connections /\ r.connections[p].pending \in Seq(Int)
          /\ (p \in Members(r) => r.connections[p].pending = << >>)
      BY <1>1 DEF Parked
    <2>2. CASE p \in gone
      <3>1. Captured(r, Q, T, p) \in Seq(Int)
        BY <1>2, <2>2, CapturedIsQueue DEF RoomInv
      <3>2. "pending" \in DOMAIN r.connections[p]
        BY <2>1 DEF Wired
      <3>3. a.connections[p].pending = r.connections[p].pending \o Captured(r, Q, T, p)
        BY <1>1, <2>1, <2>2, <3>2 DEF WithPending
      <3> QED  BY <1>3, <2>1, <2>2, <3>1, <3>3
    <2>3. CASE p \notin gone
      BY <1>1, <1>3, <2>1, <2>3
    <2> QED  BY <2>2, <2>3
  <1> QED  BY <1>1, <1>4 DEF Parked, a

LEMMA OutcomeOrdered ==
    ASSUME NEW r, RoomInv(r), Wired(r), NEW se, NEW sn, NEW ls, ListenersAre(ls), Held(r, ls),
           Ordered(r, se, sn, ls), NEW gone \in SUBSET Members(r), NEW o \in Outcomes(r, gone)
    PROVE  Ordered(o.room, se, sn, ls)
  <1>1. PICK Q \in SUBSET Writable(r), fate \in Fates(r, gone) : o = Outcome(r, Q, fate)
    BY DEF Outcomes
  <1> DEFINE R == {p \in Members(r) : fate[p] # "stays"}
             T == {p \in Members(r) : fate[p] = "dismissed"}
  <1>2. o.room = Applied(r, Q, R, T)
    BY <1>1 DEF Outcome
  <1>3. Q \in SUBSET Members(r) /\ R \in SUBSET Members(r) /\ T \in SUBSET R
    BY <1>1 DEF Writable, Slow
  <1> HIDE DEF R, T
  <1>4. Parked(o.room)
    BY <1>2, <1>3, ReducedParked DEF Ordered
  <1>5. Served(o.room, se, sn)
    <2> SUFFICES ASSUME NEW s \in Sessions  PROVE ServedIs(o.room, se[s], sn[s])
      BY DEF Served
    <2>1. ServedIs(r, se[s], sn[s]) /\ Parked(r)
      BY DEF Ordered, Served
    <2> QED  BY <1>2, <1>3, <2>1, ReducedServed
  <1>6. Seating(o.room, se)
    <2>1. Reduced(r, Q, R, T, o.room)
      <3>1. Shape(r)
        BY DEF RoomInv
      <3> QED  BY <1>2, <3>1, AppliedFields
    <2>2. o.room.next = r.next /\ DOMAIN o.room.peers \subseteq DOMAIN r.peers
      BY <2>1 DEF Reduced, Without
    <2> QED  BY <2>2 DEF Ordered, Seating
  <1>7. Lines(o.room, ls)
    <2> SUFFICES ASSUME NEW x \in Sources  PROVE InLine(o.room, x, ls[x[1]].batch[x])
      BY DEF Lines
    <2>1. x[1] \in Listeners /\ x \in Of(x[1])
      BY DEF Sources, Of
    <2>2. HeldBatch(r, x[1], ls[x[1]]) /\ InLine(r, x, ls[x[1]].batch[x])
      BY <2>1 DEF Held, Ordered, Lines
    <2>3. /\ ls[x[1]].batch[x] \in Seq(Datagram(r))
          /\ x \in DOMAIN r.addresses => ls[x[1]].batch[x] \in Seq(Own(r, x))
      BY <2>1, <2>2 DEF HeldBatch
    <2> QED  BY <1>2, <1>3, <2>2, <2>3, ReducedInLine
  <1> QED  BY <1>4, <1>5, <1>6, <1>7 DEF Ordered

-----------------------------------------------------------------------------
(* Joining.                                                                 *)

(* What concerns nobody of the line leaves it as it is.                     *)
LEMMA SameLine ==
    ASSUME NEW r, NEW e, NEW x, NEW b, InLine(r, x, b), Carried(e, x) = Carried(r, x),
           \A p \in DOMAIN r.made :
               /\ p \in DOMAIN e.made /\ e.made[p] = r.made[p]
               /\ p \in Members(e) => p \in Members(r),
           \A p \in DOMAIN r.peers : p \in DOMAIN e.peers /\ e.peers[p] = r.peers[p]
    PROVE  InLine(e, x, b)
  <1> SUFFICES ASSUME b \o Carried(r, x) # << >>
               PROVE  \E p \in DOMAIN e.made :
                          OwnsLine(e, x, p) /\ Line(b \o Carried(r, x), p, e.made[p])
    BY DEF InLine
  <1>1. PICK p \in DOMAIN r.made : OwnsLine(r, x, p) /\ Line(b \o Carried(r, x), p, r.made[p])
    BY DEF InLine
  <1> QED  BY <1>1 DEF OwnsLine

(* A fresh room, of a name that never had one, holds nothing.               *)
LEMMA FoundOrdered ==
    ASSUME OInv, room = NoRoom => lives = 0, room # NoRoom => lives = 1
    PROVE  Ordered(Found, session, sent, listener)
  <1>1. CASE room # NoRoom
    BY <1>1 DEF OInv, Found
  <1>2. CASE room = NoRoom
    <2> DEFINE r == BindRoom
    <2>1. /\ Found = r /\ r.next = 1 /\ Members(r) = {} /\ DOMAIN r.made = {}
          /\ DOMAIN r.connections = {} /\ DOMAIN r.peers = {} /\ DOMAIN r.addresses = {}
          /\ \A x \in Sources : r.owed[x] = << >>
      BY <1>2 DEF Found, BindRoom, Members
    <2> HIDE DEF r
    <2>2. \A s \in Sessions : session[s].id = 0
      BY <1>2 DEF OInv
    <2>3. Parked(r) /\ Seating(r, session) /\ Served(r, session, sent)
      BY <2>1, <2>2 DEF Parked, Seating, Served, ServedIs
    <2>4. Lines(r, listener)
      <3> SUFFICES ASSUME NEW x \in Sources  PROVE InLine(r, x, listener[x[1]].batch[x])
        BY DEF Lines
      <3>1. x[1] \in Listeners /\ x \in Of(x[1])
        BY DEF Sources, Of
      <3>2. listener[x[1]].batch[x] = << >>
        BY <1>2, <3>1 DEF OInv, AInv, IInv, RoomState, Nothing
      <3>3. Carried(r, x) = << >> \o << >>
        BY <2>1 DEF Carried
      <3> QED  BY <3>2, <3>3 DEF InLine
    <2> QED  BY <2>1, <2>3, <2>4 DEF Ordered
  <1> QED  BY <1>1, <1>2

(* A session enters with an id of its own and nothing to be told.           *)
LEMMA BehindOrdered ==
    ASSUME NEW r, RoomInv(r), NEW se, NEW sn, NEW ls, Ordered(r, se, sn, ls),
           NEW s \in Sessions, sn[s] = << >>, NEW new, new[s].id = r.next,
           new[s].writer = "look", \A t \in Sessions \ {s} : new[t] = se[t]
    PROVE  Ordered(Behind(r, [session |-> s, pending |-> << >>]), new, sn, ls)
  <1> DEFINE c == [session |-> s, pending |-> << >>]
             e == Behind(r, c)
             p == r.next
  <1>1. /\ e.connections = Put(r.connections, p, c)
        /\ e.outbox = Put(r.outbox, p, << >>) /\ e.made = Put(r.made, p, 0)
        /\ e.next = p + 1 /\ e.life = r.life /\ e.peers = r.peers
        /\ e.addresses = r.addresses /\ e.owed = r.owed
    BY WithMemberFields DEF Behind, RoomInv
  <1> HIDE DEF e
  <1>2. /\ p \in Nat /\ p \notin DOMAIN r.made /\ p \notin Members(r)
        /\ p \notin DOMAIN r.connections /\ p \notin DOMAIN r.peers
    BY MemberIsNew
  <1>3. /\ Members(e) = {p} \cup Members(r) /\ DOMAIN e.connections = {p} \cup DOMAIN r.connections
        /\ DOMAIN e.made = {p} \cup DOMAIN r.made
        /\ e.outbox[p] = << >> /\ e.made[p] = 0 /\ e.connections[p] = c
        /\ \A q \in Members(r) : e.outbox[q] = r.outbox[q]
        /\ \A q \in DOMAIN r.made : e.made[q] = r.made[q]
        /\ \A q \in DOMAIN r.connections : e.connections[q] = r.connections[q]
    BY <1>1, <1>2 DEF Put, Members
  <1>4. c.pending = << >> /\ p # 0
    BY DEF Ordered, Parked
  <1> HIDE DEF p, c
  <1>5. Parked(e)
    <2>1. e.next # 0 /\ 0 \notin DOMAIN e.made
      BY <1>1, <1>2, <1>3, <1>4 DEF Ordered, Parked
    <2>2. ASSUME NEW q \in DOMAIN e.connections
          PROVE  e.connections[q].pending \in Seq(Int)
                 /\ (q \in Members(e) => e.connections[q].pending = << >>)
      <3>1. CASE q = p
        <4>1. e.connections[q].pending = << >>
          BY <1>3, <1>4, <3>1
        <4> QED  BY <4>1
      <3>2. CASE q # p
        BY <1>3, <3>2 DEF Ordered, Parked
      <3> QED  BY <3>1, <3>2
    <2> QED  BY <2>1, <2>2 DEF Parked
  <1>6. Seating(e, new)
    <2>1. \A t \in Sessions : se[t].id \in Nat /\ se[t].id < p /\ se[t].id \notin DOMAIN r.peers
      BY DEF Ordered, Seating, p
    <2>2. new[s].id = p
      BY DEF p
    <2>3. \A t \in Sessions : new[t].id \in Nat /\ new[t].id < e.next
                              /\ new[t].id \notin DOMAIN e.peers
      BY <1>1, <1>2, <2>1, <2>2
    <2>4. ASSUME NEW t \in Sessions, NEW u \in Sessions, new[t].id = new[u].id
          PROVE  t = u \/ new[t].id = 0
      <3>1. \A v \in Sessions \ {s} : new[v].id # p
        BY <1>2, <2>1
      <3> QED  BY <2>2, <2>4, <3>1 DEF Ordered, Seating
    <2> QED  BY <2>3, <2>4 DEF Seating
  <1>7. Served(e, new, sn)
    <2> SUFFICES ASSUME NEW t \in Sessions  PROVE ServedIs(e, new[t], sn[t])
      BY DEF Served
    <2>1. CASE t = s
      <3>1. new[s].id = p
        BY DEF p
      <3>2. Had(new[s], sn[s]) = << >> \o << >>
        BY DEF Had
      <3>3. Stored(e, p) = << >> \o << >>
        BY <1>3, <1>4 DEF Stored
      <3>4. Had(new[s], sn[s]) \o Stored(e, p) = << >>
        BY <3>2, <3>3
      <3>5. Len(<< >>) = 0 /\ << >> \in Seq(Int)
        OBVIOUS
      <3>6. Told(e, p, Had(new[s], sn[s]))
        <4>1. \A i \in 1..0 : FALSE
          OBVIOUS
        <4> QED  BY <1>3, <3>4, <3>5, <4>1 DEF Told, Tallied
      <3> QED  BY <2>1, <3>1, <3>5, <3>6 DEF ServedIs
    <2>2. CASE t # s
      <3>1. new[t] = se[t] /\ ServedIs(r, se[t], sn[t]) /\ se[t].id # p
        BY <1>2, <2>2 DEF Ordered, Served, Seating, p
      <3> DEFINE q == se[t].id
      <3>2. q \in DOMAIN e.connections =>
               /\ q \in DOMAIN r.connections /\ q \in DOMAIN r.made
               /\ Stored(e, q) = Stored(r, q) /\ e.made[q] = r.made[q]
               /\ q \in Members(e) <=> q \in Members(r)
        BY <1>3, <3>1 DEF Stored, RoomInv, Registered
      <3> QED  BY <3>1, <3>2 DEF ServedIs, Told
    <2> QED  BY <2>1, <2>2
  <1>8. Lines(e, ls)
    <2> SUFFICES ASSUME NEW x \in Sources  PROVE InLine(e, x, ls[x[1]].batch[x])
      BY DEF Lines
    <2>1. Carried(e, x) = Carried(r, x)
      <3>1. x \in DOMAIN r.addresses => r.addresses[x] \in Members(r)
        BY CarriedIs
      <3> QED  BY <1>1, <1>3, <3>1 DEF Carried, Datagrams
    <2>2. InLine(r, x, ls[x[1]].batch[x])
      BY DEF Ordered, Lines
    <2>3. \A q \in DOMAIN r.made : q # p
      BY <1>2
    <2> QED  BY <1>1, <1>3, <2>1, <2>2, <2>3, SameLine
  <1> QED  BY <1>5, <1>6, <1>7, <1>8 DEF Ordered, e, c

(* An address is admitted when nothing waits for it any more.               *)
LEMMA AtOrdered ==
    ASSUME NEW r, RoomInv(r), NEW se, NEW sn, NEW ls, ListenersAre(ls), Ordered(r, se, sn, ls),
           NEW l \in Listeners, NEW x \in Of(l), ls[l].phase = "receive",
           x \notin DOMAIN r.addresses, x \notin r.draining
    PROVE  Ordered(At(r, x), se, sn, ls)
  <1> DEFINE e == At(r, x)
             p == r.next
  <1>1. /\ e.connections = r.connections
        /\ e.outbox = Put(r.outbox, p, << >>) /\ e.made = Put(r.made, p, 0)
        /\ e.next = p + 1 /\ e.life = r.life /\ e.peers = Put(r.peers, p, x)
        /\ e.addresses = Put(r.addresses, x, p) /\ e.owed = r.owed
    BY WithMemberFields DEF At, RoomInv
  <1> HIDE DEF e
  <1>2. /\ p \in Nat /\ p \notin DOMAIN r.made /\ p \notin Members(r)
        /\ p \notin DOMAIN r.connections /\ p \notin DOMAIN r.peers
    BY MemberIsNew
  <1>3. /\ Members(e) = {p} \cup Members(r) /\ DOMAIN e.peers = {p} \cup DOMAIN r.peers
        /\ DOMAIN e.made = {p} \cup DOMAIN r.made
        /\ DOMAIN e.addresses = {x} \cup DOMAIN r.addresses
        /\ e.outbox[p] = << >> /\ e.made[p] = 0 /\ e.peers[p] = x /\ e.addresses[x] = p
        /\ \A q \in Members(r) : e.outbox[q] = r.outbox[q]
        /\ \A q \in DOMAIN r.made : e.made[q] = r.made[q]
        /\ \A q \in DOMAIN r.peers : e.peers[q] = r.peers[q]
        /\ \A y \in DOMAIN r.addresses : e.addresses[y] = r.addresses[y]
    BY <1>1, <1>2 DEF Put, Members
  <1>4. p # 0
    BY DEF Ordered, Parked
  <1>5. Parked(e)
    <2> HIDE DEF p
    <2>1. e.next # 0 /\ 0 \notin DOMAIN e.made
      BY <1>1, <1>2, <1>3, <1>4 DEF Ordered, Parked
    <2>2. \A q \in DOMAIN r.connections : q \in Members(e) => q \in Members(r)
      BY <1>2, <1>3
    <2> QED  BY <1>1, <2>1, <2>2 DEF Ordered, Parked
  <1>6. Seating(e, se)
    <2>1. \A t \in Sessions : se[t].id \in Nat /\ se[t].id < p /\ se[t].id \notin DOMAIN r.peers
      BY DEF Ordered, Seating
    <2> HIDE DEF p
    <2>2. \A t \in Sessions : se[t].id # p /\ se[t].id < p + 1
      BY <1>2, <2>1
    <2> QED  BY <1>1, <1>3, <2>1, <2>2 DEF Ordered, Seating
  <1> HIDE DEF p
  <1>7. Served(e, se, sn)
    <2> SUFFICES ASSUME NEW t \in Sessions  PROVE ServedIs(e, se[t], sn[t])
      BY DEF Served
    <2> DEFINE q == se[t].id
    <2>1. ServedIs(r, se[t], sn[t])
      BY DEF Ordered, Served
    <2>2. q \in DOMAIN e.connections =>
             /\ q \in DOMAIN r.connections /\ q \in DOMAIN r.made
             /\ Stored(e, q) = Stored(r, q) /\ e.made[q] = r.made[q]
             /\ q \in Members(e) <=> q \in Members(r)
      BY <1>1, <1>2, <1>3 DEF Stored, RoomInv, Registered
    <2> QED  BY <2>1, <2>2 DEF ServedIs, Told
  <1>8. Lines(e, ls)
    <2> SUFFICES ASSUME NEW y \in Sources  PROVE InLine(e, y, ls[y[1]].batch[y])
      BY DEF Lines
    <2>1. CASE y = x
      <3>1. y[1] = l /\ ls[l].batch[x] = << >>
        BY <2>1 DEF Of, ListenersAre, Listening, Nothing
      <3>2. r.owed[x] = << >>
        BY <2>1 DEF RoomInv, Entombed
      <3>3. Carried(e, x) = << >> \o << >>
        BY <1>1, <1>3, <3>2 DEF Carried, Datagrams
      <3> QED  BY <2>1, <3>1, <3>3 DEF InLine
    <2>2. CASE y # x
      <3>1. Carried(e, y) = Carried(r, y)
        <4>1. y \in DOMAIN r.addresses => r.addresses[y] \in Members(r)
          BY CarriedIs
        <4>2. y \in DOMAIN e.addresses <=> y \in DOMAIN r.addresses
          BY <1>3, <2>2
        <4>3. \A f, q : Datagrams(e, f, q) = Datagrams(r, f, q)
          BY <1>1 DEF Datagrams
        <4>4. CASE y \in DOMAIN r.addresses
          <5>1. e.addresses[y] = r.addresses[y]
                /\ e.outbox[r.addresses[y]] = r.outbox[r.addresses[y]]
            BY <1>3, <4>1, <4>4
          <5>2. Datagrams(e, e.outbox[e.addresses[y]], e.addresses[y])
                    = Datagrams(r, r.outbox[r.addresses[y]], r.addresses[y])
            BY <4>3, <5>1
          <5> QED  BY <1>1, <4>2, <4>4, <5>2 DEF Carried
        <4>5. CASE y \notin DOMAIN r.addresses
          BY <1>1, <4>2, <4>5 DEF Carried
        <4> QED  BY <4>4, <4>5
      <3>2. InLine(r, y, ls[y[1]].batch[y])
        BY DEF Ordered, Lines
      <3>3. \A q \in DOMAIN r.made : q # p
        BY <1>2
      <3> QED  BY <1>3, <3>1, <3>2, <3>3, SameLine
    <2> QED  BY <2>1, <2>2
  <1> QED  BY <1>5, <1>6, <1>7, <1>8 DEF Ordered, e

-----------------------------------------------------------------------------
(* The steps.                                                               *)

(* The step of one session, with what the room holds for it.                *)
LEMMA OneServed ==
    ASSUME NEW r, RoomInv(r), NEW e, NEW se, NEW sn, NEW se2, NEW sn2, NEW ls,
           Ordered(r, se, sn, ls), NEW s \in Sessions,
           e.life = r.life, e.next = r.next, e.made = r.made, e.peers = r.peers,
           e.addresses = r.addresses, e.owed = r.owed, Members(e) = Members(r),
           DOMAIN e.connections \subseteq DOMAIN r.connections,
           \A p \in DOMAIN e.connections : p # se[s].id => e.connections[p] = r.connections[p],
           \A p \in Members(r) : p # se[s].id => e.outbox[p] = r.outbox[p],
           \A t \in Sessions \ {s} : se2[t] = se[t] /\ sn2[t] = sn[t],
           se2[s].id = se[s].id, Parked(e), ServedIs(e, se2[s], sn2[s])
    PROVE  Ordered(e, se2, sn2, ls)
  <1>1. Seating(e, se2)
    <2>1. \A t \in Sessions : se2[t].id = se[t].id
      OBVIOUS
    <2> QED  BY <2>1 DEF Ordered, Seating
  <1>2. Served(e, se2, sn2)
    <2> SUFFICES ASSUME NEW t \in Sessions \ {s}  PROVE ServedIs(e, se2[t], sn2[t])
      BY DEF Served
    <2> DEFINE q == se[t].id
    <2>1. ServedIs(r, se[t], sn[t]) /\ (q = se[s].id => q = 0)
      BY DEF Ordered, Served, Seating
    <2>2. q \in DOMAIN e.connections => q # se[s].id
      BY <2>1 DEF Ordered, Parked, RoomInv, Registered
    <2>3. q \in DOMAIN e.connections =>
             q \in DOMAIN r.connections /\ Stored(e, q) = Stored(r, q)
      BY <2>2 DEF Stored
    <2> QED  BY <2>1, <2>3 DEF ServedIs, Told
  <1>3. Lines(e, ls)
    <2> SUFFICES ASSUME NEW x \in Sources  PROVE InLine(e, x, ls[x[1]].batch[x])
      BY DEF Lines
    <2>1. \A f, q : Datagrams(e, f, q) = Datagrams(r, f, q)
      BY DEF Datagrams
    <2>2. Carried(e, x) = Carried(r, x)
      <3>1. CASE x \in DOMAIN r.addresses
        <4> DEFINE q == r.addresses[x]
        <4>1. q \in Members(r) /\ q \in DOMAIN r.peers
          BY <3>1, CarriedIs
        <4>2. q # se[s].id
          BY <4>1 DEF Ordered, Seating
        <4>3. Datagrams(e, e.outbox[q], q) = Datagrams(r, r.outbox[q], q)
          BY <2>1, <4>1, <4>2
        <4> QED  BY <3>1, <4>3 DEF Carried
      <3>2. CASE x \notin DOMAIN r.addresses
        BY <3>2 DEF Carried
      <3> QED  BY <3>1, <3>2
    <2>3. InLine(r, x, ls[x[1]].batch[x])
      BY DEF Ordered, Lines
    <2> QED  BY <2>2, <2>3, SameLine
  <1> QED  BY <1>1, <1>2, <1>3 DEF Ordered

(* A session's record after Set.                                            *)
LEMMA SetDesks ==
    ASSUME Desks, NEW s \in Sessions, NEW changes, Set(s, changes)
    PROVE  /\ DOMAIN session' = Sessions
           /\ \A t \in Sessions \ {s} : session'[t] = session[t]
           /\ \A t \in Sessions : {"id", "reader", "writer", "frame"} \subseteq DOMAIN session'[t]
           /\ \A f \in {"id", "reader", "writer", "frame"} :
                 session'[s][f] = IF f \in DOMAIN changes THEN changes[f] ELSE session[s][f]
  <1> DEFINE new == [f \in DOMAIN session[s] |->
                        IF f \in DOMAIN changes THEN changes[f] ELSE session[s][f]]
  <1>1. session' = [session EXCEPT ![s] = new] /\ DOMAIN session = Sessions
    BY DEF Set, Desks
  <1>2. \A t \in Sessions : {"id", "reader", "writer", "frame"} \subseteq DOMAIN session[t]
    BY DEF Desks
  <1>3. /\ DOMAIN new = DOMAIN session[s]
        /\ \A f \in {"id", "reader", "writer", "frame"} :
              new[f] = IF f \in DOMAIN changes THEN changes[f] ELSE session[s][f]
    BY <1>2
  <1> HIDE DEF new
  <1> QED  BY <1>1, <1>2, <1>3

(* A session that has an id keeps it, and a room that is gone stays so.     *)
LEMMA LaterStep ==
    ASSUME OInv, AInv', Desks', UNCHANGED lives, room = NoRoom => room' = NoRoom,
           \A s \in Sessions : session'[s].id = session[s].id,
           lives = 1 /\ room # NoRoom /\ room' # NoRoom =>
               Ordered(room', session', sent', listener')
    PROVE  OInv'
  BY DEF OInv

(* The step of one session in a room that stays as it is.                   *)
LEMMA DeskStep ==
    ASSUME OInv, AInv', NEW s \in Sessions, NEW changes, Set(s, changes),
           UNCHANGED <<room, lives, listener>>,
           DOMAIN changes \subseteq {"reader", "writer", "frame"},
           session[s].reader # "new",
           "reader" \in DOMAIN changes => changes["reader"] # "new",
           DOMAIN sent' = Sessions, \A t \in Sessions \ {s} : sent'[t] = sent[t],
           lives = 1 /\ room # NoRoom => ServedIs(room, session'[s], sent'[s])
    PROVE  OInv'
  <1>1. /\ DOMAIN session' = Sessions
        /\ \A t \in Sessions \ {s} : session'[t] = session[t]
        /\ \A t \in Sessions : {"id", "reader", "writer", "frame"} \subseteq DOMAIN session'[t]
        /\ \A f \in {"id", "reader", "writer", "frame"} :
              session'[s][f] = IF f \in DOMAIN changes THEN changes[f] ELSE session[s][f]
    BY SetDesks DEF OInv
  <1>2. session'[s]["id"] = session[s]["id"] /\ session'[s]["reader"] # "new"
    BY <1>1
  <1>3. session'[s].id = session[s].id /\ session'[s].reader # "new"
    BY <1>2
  <1>4. Desks'
    BY <1>1, <1>3 DEF OInv, Desks
  <1>5. lives = 1 /\ room # NoRoom => Ordered(room, session', sent', listener)
    <2> SUFFICES ASSUME lives = 1, room # NoRoom
                 PROVE  Ordered(room, session', sent', listener)
      OBVIOUS
    <2>1. RoomInv(room) /\ Ordered(room, session, sent, listener)
      BY DEF OInv, AInv, IInv, RoomState
    <2>2. Parked(room)
      BY <2>1 DEF Ordered
    <2> QED  BY <1>1, <1>3, <2>1, <2>2, OneServed
  <1> QED  BY <1>1, <1>3, <1>4, <1>5, LaterStep

LEMMA JoinOrders ==
    ASSUME OInv, AInv', NEW s \in Sessions, Join(s)
    PROVE  OInv'
  <1>0. UNCHANGED <<sent, listener>> /\ session[s].reader = "new"
    BY DEF Join
  <1>a. session[s].id = 0 /\ sent[s] = << >> /\ IInv
    BY <1>0 DEF OInv, AInv, Desks
  <1>1. CASE room # NoRoom /\ IsDraining(room)
    <2> DEFINE changes == [reader |-> "left", writer |-> "done"]
    <2>1. UNCHANGED <<room, lives>> /\ Set(s, changes)
      BY <1>1 DEF Join
    <2>2. /\ DOMAIN session' = Sessions
          /\ \A t \in Sessions \ {s} : session'[t] = session[t]
          /\ \A t \in Sessions : {"id", "reader", "writer", "frame"} \subseteq DOMAIN session'[t]
          /\ session'[s]["id"] = session[s]["id"] /\ session'[s]["reader"] = "left"
          /\ session'[s]["writer"] = "done"
      BY <2>1, SetDesks DEF OInv
    <2>3. Desks' /\ session'[s].id = session[s].id /\ session'[s].writer = "done"
      BY <1>0, <2>2 DEF OInv, Desks
    <2>4. ServedIs(room, session'[s], sent'[s])
      BY <2>3 DEF ServedIs
    <2>5. lives = 1 /\ room # NoRoom => Ordered(room, session', sent', listener)
      <3> SUFFICES ASSUME lives = 1, room # NoRoom
                   PROVE  Ordered(room, session', sent', listener)
        OBVIOUS
      <3>1. RoomInv(room) /\ Ordered(room, session, sent, listener)
        BY DEF OInv, AInv, IInv, RoomState
      <3>2. Parked(room)
        BY <3>1 DEF Ordered
      <3> QED  BY <1>0, <2>2, <2>3, <2>4, <3>1, <3>2, OneServed
    <2> QED  BY <1>0, <2>1, <2>2, <2>3, <2>5, LaterStep
  <1>2. CASE ~(room # NoRoom /\ IsDraining(room))
    <2> DEFINE p == Found.next
               changes == [id |-> p, reader |-> "open", writer |-> "look"]
               r == Behind(Found, [session |-> s, pending |-> << >>])
    <2>1. PICK o \in Outcomes(r, {}) : room' = o.room
      BY <1>2 DEF Join, Behind
    <2>2. Set(s, changes) /\ CountLife
      BY <1>2 DEF Join
    <2>3. /\ DOMAIN session' = Sessions
          /\ \A t \in Sessions \ {s} : session'[t] = session[t]
          /\ \A t \in Sessions : {"id", "reader", "writer", "frame"} \subseteq DOMAIN session'[t]
          /\ session'[s]["id"] = p /\ session'[s]["reader"] = "open"
          /\ session'[s]["writer"] = "look"
      BY <2>2, SetDesks DEF OInv
    <2>4. Desks' /\ session'[s].id = p /\ session'[s].writer = "look"
      BY <1>0, <2>3 DEF OInv, Desks
    <2>5. lives' # 0
      BY <2>2 DEF CountLife, OInv, AInv, IInv
    <2>6. ASSUME lives' = 1  PROVE Ordered(room', session', sent', listener')
      <3>1. (room = NoRoom => lives = 0) /\ (room # NoRoom => lives = 1)
        BY <1>a, <2>2, <2>6 DEF CountLife, IInv
      <3>2. Ordered(Found, session, sent, listener)
        BY <3>1, FoundOrdered
      <3>3. RoomInv(Found) /\ Held(Found, listener) /\ Wired(Found)
        BY FoundIsRoom, NewRoomIsIdle DEF OInv, AInv
      <3>4. RoomInv(r) /\ Held(r, listener) /\ Wired(r)
        BY <3>3, BehindIsRoom, BehindIsIdle
      <3>5. Ordered(r, session', sent, listener)
        BY <1>a, <2>3, <2>4, <3>2, <3>3, BehindOrdered
      <3> HIDE DEF r
      <3>6. Ordered(o.room, session', sent, listener)
        BY <1>a, <3>4, <3>5, OutcomeOrdered DEF IInv
      <3> QED  BY <1>0, <2>1, <3>6
    <2> QED  BY <2>4, <2>5, <2>6 DEF OInv
  <1> QED  BY <1>1, <1>2

(* One reduction of the room as it is, and then the same room or none.      *)
LEMMA OutcomeOrders ==
    ASSUME OInv, AInv', UNCHANGED <<lives, session, sent>>, room # NoRoom,
           NEW gone \in SUBSET Members(room), NEW o \in Outcomes(room, gone),
           room' # NoRoom => room' = o.room,
           \A x \in Sources : listener'[x[1]].batch[x] = listener[x[1]].batch[x]
    PROVE  OInv'
  <1>1. Desks'
    BY DEF OInv, Desks
  <1>2. ASSUME lives = 1, room' # NoRoom
        PROVE  Ordered(room', session', sent', listener')
    <2>1. /\ RoomInv(room) /\ Held(room, listener) /\ ListenersAre(listener) /\ Wired(room)
          /\ Ordered(room, session, sent, listener)
      BY <1>2 DEF OInv, AInv, IInv, RoomState
    <2>2. Ordered(o.room, session, sent, listener)
      BY <2>1, OutcomeOrdered
    <2>3. Ordered(o.room, session, sent, listener')
      BY <2>2 DEF Ordered, Lines
    <2> QED  BY <1>2, <2>3
  <1> QED  BY <1>1, <1>2, LaterStep

LEMMA EnvelopeOrders ==
    ASSUME OInv, AInv', NEW s \in Sessions, Envelope(s)
    PROVE  OInv'
  <1>1. PICK o \in Outcomes(room, {}) : room' = o.room
    BY DEF Envelope
  <1>2. room # NoRoom /\ UNCHANGED <<lives, session, sent, listener>>
    BY DEF Envelope, Connected
  <1> QED  BY <1>1, <1>2, OutcomeOrders

LEMMA TickOrders ==
    ASSUME OInv, AInv', Tick
    PROVE  OInv'
  <1>1. PICK o \in Outcomes(room, {}) : room' = Kept(o.room)
    BY DEF Tick
  <1>2. room # NoRoom /\ UNCHANGED <<lives, session, sent, listener>>
    BY DEF Tick
  <1>3. room' # NoRoom => room' = o.room
    BY <1>1, KeptIsSame
  <1> QED  BY <1>1, <1>2, <1>3, OutcomeOrders

LEMMA CloseRoomOrders ==
    ASSUME OInv, AInv', CloseRoom
    PROVE  OInv'
  <1>1. room' = NoRoom /\ UNCHANGED <<lives, session, sent, listener>>
    BY DEF CloseRoom
  <1>2. Desks'
    BY <1>1 DEF OInv, Desks
  <1> QED  BY <1>1, <1>2, LaterStep

(* The loops of a session that leave the room as it is.                     *)
LEMMA StopReadingOrders ==
    ASSUME OInv, AInv', NEW s \in Sessions, StopReading(s)
    PROVE  OInv'
  <1> DEFINE changes == [reader |-> "ended"]
  <1>1. Set(s, changes) /\ UNCHANGED <<room, lives, sent, listener>> /\ session[s].reader = "open"
    BY DEF StopReading
  <1>2. session'[s]["id"] = session[s]["id"] /\ session'[s]["writer"] = session[s]["writer"]
        /\ session'[s]["frame"] = session[s]["frame"]
    BY <1>1, SetDesks DEF OInv
  <1>3. lives = 1 /\ room # NoRoom => ServedIs(room, session'[s], sent'[s])
    <2> SUFFICES ASSUME lives = 1, room # NoRoom  PROVE ServedIs(room, session'[s], sent[s])
      BY <1>1
    <2>1. ServedIs(room, session[s], sent[s])
      BY DEF OInv, Ordered, Served
    <2>2. session'[s].id = session[s].id /\ session'[s].writer = session[s].writer
          /\ session'[s].frame = session[s].frame
      BY <1>2
    <2> QED  BY <2>1, <2>2 DEF ServedIs, Had
  <1>4. DOMAIN sent' = Sessions /\ \A t \in Sessions \ {s} : sent'[t] = sent[t]
    BY <1>1 DEF OInv, Desks
  <1>5. DOMAIN changes \subseteq {"reader", "writer", "frame"} /\ changes["reader"] # "new"
    OBVIOUS
  <1> QED  BY <1>1, <1>3, <1>4, <1>5, DeskStep

LEMMA NotifiedOrders ==
    ASSUME OInv, AInv', NEW s \in Sessions, Notified(s)
    PROVE  OInv'
  <1> DEFINE changes == [writer |-> "look"]
  <1>1. Set(s, changes) /\ UNCHANGED <<room, lives, sent, listener>> /\ session[s].writer = "wait"
    BY DEF Notified
  <1>2. session'[s]["id"] = session[s]["id"] /\ session'[s]["writer"] = "look"
    BY <1>1, SetDesks DEF OInv
  <1>3. lives = 1 /\ room # NoRoom => ServedIs(room, session'[s], sent'[s])
    <2> SUFFICES ASSUME lives = 1, room # NoRoom  PROVE ServedIs(room, session'[s], sent[s])
      BY <1>1
    <2>1. ServedIs(room, session[s], sent[s])
      BY DEF OInv, Ordered, Served
    <2>2. session'[s].id = session[s].id /\ session'[s].writer = "look"
      BY <1>2
    <2> QED  BY <1>1, <2>1, <2>2 DEF ServedIs, Had
  <1>4. DOMAIN sent' = Sessions /\ \A t \in Sessions \ {s} : sent'[t] = sent[t]
    BY <1>1 DEF OInv, Desks
  <1>5. DOMAIN changes \subseteq {"reader", "writer", "frame"} /\ "reader" \notin DOMAIN changes
    OBVIOUS
  <1>6. session[s].reader # "new"
    BY <1>1 DEF OInv, Desks
  <1> HIDE DEF changes
  <1> QED  BY <1>1, <1>3, <1>4, <1>5, <1>6, DeskStep

(* The frame in hand is sent, or the loop ends.                             *)
LEMMA SendOrders ==
    ASSUME OInv, AInv', NEW s \in Sessions, Send(s)
    PROVE  OInv'
  <1>1. UNCHANGED <<room, lives, listener>> /\ session[s].writer = "send"
    BY DEF Send
  <1>2. PICK next \in {"look", "done"} :
            /\ Set(s, [writer |-> next, frame |-> 0])
            /\ next = "look" => sent' = [sent EXCEPT ![s] = Append(@, session[s].frame)]
            /\ next = "done" => UNCHANGED sent
    BY DEF Send
  <1> DEFINE changes == [writer |-> next, frame |-> 0]
  <1>3. session'[s]["id"] = session[s]["id"] /\ session'[s]["writer"] = next
    BY <1>2, SetDesks DEF OInv
  <1>4. DOMAIN sent' = Sessions /\ \A t \in Sessions \ {s} : sent'[t] = sent[t]
    BY <1>2 DEF OInv, Desks
  <1>5. next = "look" => sent'[s] = Append(sent[s], session[s].frame)
    BY <1>2 DEF OInv, Desks
  <1>6. lives = 1 /\ room # NoRoom => ServedIs(room, session'[s], sent'[s])
    <2> SUFFICES ASSUME lives = 1, room # NoRoom, next = "look",
                        session[s].id \in DOMAIN room.connections
                 PROVE  ServedIs(room, session'[s], sent'[s])
      BY <1>3 DEF ServedIs
    <2> DEFINE given == sent[s]
               frame == session[s].frame
    <2>1. ServedIs(room, session[s], given)
      BY DEF OInv, Ordered, Served
    <2>2. given \in Seq(Int) /\ frame \in Int /\ Told(room, session[s].id, given \o << frame >>)
          /\ sent'[s] = Append(given, frame)
      BY <1>1, <1>5, <2>1 DEF ServedIs, Had
    <2>3. session'[s].id = session[s].id /\ session'[s].writer = "look"
      BY <1>3
    <2> HIDE DEF given, frame
    <2>4. sent'[s] \in Seq(Int) /\ sent'[s] \o << >> = given \o << frame >>
      BY <2>2
    <2> QED  BY <2>2, <2>3, <2>4 DEF ServedIs, Had
  <1>7. DOMAIN changes \subseteq {"reader", "writer", "frame"} /\ "reader" \notin DOMAIN changes
    OBVIOUS
  <1>8. session[s].reader # "new" /\ Set(s, changes)
    BY <1>1, <1>2 DEF OInv, Desks
  <1> HIDE DEF changes
  <1> QED  BY <1>1, <1>4, <1>6, <1>7, <1>8, DeskStep

(* One frame from the outbox into the hand, or a look without one.          *)
LEMMA LookOrders ==
    ASSUME OInv, AInv', NEW s \in Sessions, Look(s)
    PROVE  OInv'
  <1> DEFINE p == session[s].id
             pops == room # NoRoom /\ p \in Members(room) /\ room.outbox[p] # << >>
  <1>1. UNCHANGED <<lives, sent, listener>> /\ session[s].writer = "look"
    BY DEF Look
  <1>2. session[s].reader # "new"
    BY <1>1 DEF OInv, Desks
  <1>3. DOMAIN sent' = Sessions /\ \A t \in Sessions \ {s} : sent'[t] = sent[t]
    BY <1>1 DEF OInv, Desks
  <1>4. CASE ~pops
    <2>1. PICK next \in {"wait", "done", "take"} :
              /\ Set(s, [writer |-> next]) /\ UNCHANGED room
              /\ room # NoRoom /\ next = "take" => p \notin Members(room)
      BY <1>4 DEF Look
    <2> DEFINE changes == [writer |-> next]
    <2>2. session'[s]["id"] = session[s]["id"] /\ session'[s]["writer"] = next
      BY <2>1, SetDesks DEF OInv
    <2>3. lives = 1 /\ room # NoRoom => ServedIs(room, session'[s], sent'[s])
      <3> SUFFICES ASSUME lives = 1, room # NoRoom  PROVE ServedIs(room, session'[s], sent[s])
        BY <1>1
      <3>1. ServedIs(room, session[s], sent[s])
        BY DEF OInv, Ordered, Served
      <3>2. session'[s].id = session[s].id /\ session'[s].writer = next
        BY <2>2
      <3> QED  BY <1>1, <2>1, <3>1, <3>2 DEF ServedIs, Had
    <2>4. DOMAIN changes \subseteq {"reader", "writer", "frame"} /\ "reader" \notin DOMAIN changes
          /\ Set(s, changes)
      BY <2>1
    <2> HIDE DEF changes
    <2> QED  BY <1>1, <1>2, <1>3, <2>1, <2>3, <2>4, DeskStep
  <1>5. CASE pops
    <2> DEFINE out == room.outbox[p]
               changes == [writer |-> "send", frame |-> Head(out)]
               outbox == [room.outbox EXCEPT ![p] = Tail(@)]
    <2>1. room' = [room EXCEPT !.outbox = outbox] /\ Set(s, changes) /\ room # NoRoom
      BY <1>5 DEF Look
    <2>2. RoomInv(room)
      BY <1>5 DEF OInv, AInv, IInv, RoomState
    <2>3. out \in Seq(Int) /\ out # << >> /\ p \in DOMAIN room.outbox
      BY <1>5, <2>2 DEF RoomInv, Registered, Members
    <2>4. /\ DOMAIN session' = Sessions
          /\ \A t \in Sessions \ {s} : session'[t] = session[t]
          /\ \A t \in Sessions : {"id", "reader", "writer", "frame"} \subseteq DOMAIN session'[t]
          /\ session'[s]["id"] = p /\ session'[s]["reader"] = session[s]["reader"]
          /\ session'[s]["writer"] = "send" /\ session'[s]["frame"] = Head(out)
      BY <2>1, SetDesks DEF OInv
    <2>5. /\ Desks' /\ session'[s].id = p
          /\ session'[s].writer = "send" /\ session'[s].frame = Head(out)
      BY <1>1, <1>2, <2>4 DEF OInv, Desks
    <2>6. /\ DOMAIN outbox = DOMAIN room.outbox /\ outbox[p] = Tail(out)
          /\ \A q \in DOMAIN room.outbox : q # p => outbox[q] = room.outbox[q]
      BY <2>3
    <2> HIDE DEF outbox
    <2>7. /\ room'.life = room.life /\ room'.next = room.next /\ room'.made = room.made
          /\ room'.peers = room.peers /\ room'.addresses = room.addresses
          /\ room'.owed = room.owed /\ room'.outbox = outbox
          /\ room'.connections = room.connections
      BY <2>1, <2>2 DEF RoomInv, Shape
    <2>8. ASSUME lives = 1  PROVE Ordered(room', session', sent', listener')
      <3>1. Ordered(room, session, sent, listener)
        BY <2>1, <2>8 DEF OInv
      <3>2. Members(room') = Members(room)
        BY <2>6, <2>7 DEF Members
      <3>3. Parked(room')
        BY <2>7, <3>1, <3>2 DEF Ordered, Parked
      <3>4. ServedIs(room', session'[s], sent'[s])
        <4> SUFFICES ASSUME p \in DOMAIN room.connections
                     PROVE  ServedIs(room', session'[s], sent[s])
          BY <1>1, <2>5, <2>7 DEF ServedIs
        <4> DEFINE given == sent[s]
                   pending == room.connections[p].pending
        <4>1. ServedIs(room, session[s], given) /\ pending \in Seq(Int)
          BY <3>1 DEF Ordered, Served, Parked
        <4>2. given \in Seq(Int) /\ Told(room, p, given \o << >>)
          BY <1>1, <4>1 DEF ServedIs, Had
        <4>3. Stored(room, p) = out \o pending /\ Stored(room', p) = Tail(out) \o pending
          BY <1>5, <2>6, <2>7, <3>2 DEF Stored
        <4> HIDE DEF given, pending, out
        <4>4. /\ Head(out) \in Int
              /\ (given \o << Head(out) >>) \o (Tail(out) \o pending)
                     = (given \o << >>) \o (out \o pending)
          BY <2>3, <4>1, <4>2
        <4>5. Told(room', p, given \o << Head(out) >>)
          BY <2>7, <4>2, <4>3, <4>4 DEF Told
        <4> QED  BY <2>5, <4>2, <4>4, <4>5 DEF ServedIs, Had, given
      <3> QED  BY <1>1, <1>3, <2>2, <2>4, <2>5, <2>6, <2>7, <3>1, <3>2, <3>3, <3>4, OneServed
               DEF Members
    <2>9. \A t \in Sessions : session'[t].id = session[t].id
      BY <2>4, <2>5
    <2> QED  BY <1>1, <2>1, <2>5, <2>8, <2>9, LaterStep
  <1> QED  BY <1>4, <1>5

(* What waits for a removed member is sent as one.                          *)
LEMMA TakePendingOrders ==
    ASSUME OInv, AInv', NEW s \in Sessions, TakePending(s)
    PROVE  OInv'
  <1> DEFINE p == session[s].id
             changes == [writer |-> "closed"]
  <1>1. UNCHANGED <<lives, listener>> /\ session[s].writer = "take" /\ Set(s, changes)
    BY DEF TakePending
  <1>2. session[s].reader # "new"
    BY <1>1 DEF OInv, Desks
  <1>3. /\ DOMAIN session' = Sessions
        /\ \A t \in Sessions \ {s} : session'[t] = session[t]
        /\ \A t \in Sessions : {"id", "reader", "writer", "frame"} \subseteq DOMAIN session'[t]
        /\ session'[s]["id"] = p /\ session'[s]["reader"] = session[s]["reader"]
        /\ session'[s]["writer"] = "closed"
    BY <1>1, SetDesks DEF OInv
  <1>4. session'[s].id = p /\ session'[s].writer = "closed" /\ session'[s].reader # "new"
    BY <1>2, <1>3
  <1>5. CASE ~Connected(s)
    <2>1. UNCHANGED <<room, sent>>
      BY <1>5 DEF TakePending
    <2>2. room # NoRoom => ServedIs(room, session'[s], sent'[s])
      BY <1>4, <1>5 DEF Connected, ServedIs
    <2>3. DOMAIN sent' = Sessions /\ \A t \in Sessions \ {s} : sent'[t] = sent[t]
      BY <2>1 DEF OInv, Desks
    <2>4. DOMAIN changes \subseteq {"reader", "writer", "frame"} /\ "reader" \notin DOMAIN changes
      OBVIOUS
    <2> HIDE DEF changes
    <2> QED  BY <1>1, <1>2, <2>1, <2>2, <2>3, <2>4, DeskStep
  <1>6. CASE Connected(s)
    <2> DEFINE pending == room.connections[p].pending
               connections == [room.connections EXCEPT ![p].pending = << >>]
               given == sent[s]
    <2>1. /\ room # NoRoom /\ p \in DOMAIN room.connections
          /\ room' = [room EXCEPT !.connections = connections]
          /\ sent' = [sent EXCEPT ![s] = @ \o pending]
      BY <1>6 DEF TakePending, Connected
    <2>2. RoomInv(room) /\ Wired(room)
      BY <2>1 DEF OInv, AInv, IInv, RoomState
    <2>3. /\ DOMAIN connections = DOMAIN room.connections
          /\ connections[p].pending = << >>
          /\ \A q \in DOMAIN room.connections : q # p => connections[q] = room.connections[q]
      BY <2>1, <2>2 DEF Wired
    <2> HIDE DEF connections
    <2>4. /\ room'.life = room.life /\ room'.next = room.next /\ room'.made = room.made
          /\ room'.peers = room.peers /\ room'.addresses = room.addresses
          /\ room'.owed = room.owed /\ room'.outbox = room.outbox
          /\ room'.connections = connections
      BY <2>1, <2>2 DEF RoomInv, Shape
    <2>5. /\ DOMAIN sent' = Sessions /\ sent'[s] = given \o pending
          /\ \A t \in Sessions \ {s} : sent'[t] = sent[t]
      BY <2>1 DEF OInv, Desks
    <2>6. Desks'
      BY <1>3, <1>4, <2>5 DEF OInv, Desks
    <2>7. ASSUME lives = 1  PROVE Ordered(room', session', sent', listener')
      <3>1. Ordered(room, session, sent, listener)
        BY <2>1, <2>7 DEF OInv
      <3>2. Members(room') = Members(room)
        BY <2>4 DEF Members
      <3>3. Parked(room')
        <4>1. << >> \in Seq(Int)
          OBVIOUS
        <4>2. ASSUME NEW q \in DOMAIN room'.connections
              PROVE  room'.connections[q].pending \in Seq(Int)
                     /\ (q \in Members(room') => room'.connections[q].pending = << >>)
          BY <2>3, <2>4, <3>1, <3>2, <4>1 DEF Ordered, Parked
        <4> QED  BY <2>4, <3>1, <4>2 DEF Ordered, Parked
      <3>4. ServedIs(room', session'[s], sent'[s])
        <4>1. ServedIs(room, session[s], given) /\ pending \in Seq(Int)
          BY <2>1, <3>1 DEF Ordered, Served, Parked
        <4>2. /\ given \in Seq(Int) /\ Told(room, p, given \o << >>) /\ p \notin Members(room)
          BY <1>1, <2>1, <4>1 DEF ServedIs, Had
        <4>3. Stored(room, p) = << >> \o pending /\ Stored(room', p) = << >> \o << >>
          BY <2>3, <2>4, <3>2, <4>2 DEF Stored
        <4> HIDE DEF given, pending
        <4>4. /\ given \o pending \in Seq(Int)
              /\ ((given \o pending) \o << >>) \o (<< >> \o << >>)
                     = (given \o << >>) \o (<< >> \o pending)
          BY <4>1, <4>2
        <4>5. Told(room', p, (given \o pending) \o << >>)
          BY <2>4, <4>2, <4>3, <4>4 DEF Told
        <4>6. Had(session'[s], sent'[s]) = (given \o pending) \o << >>
          BY <1>4, <2>5 DEF Had, given
        <4> QED  BY <1>4, <2>5, <3>2, <4>2, <4>4, <4>5, <4>6 DEF ServedIs, given
      <3>5. /\ DOMAIN room'.connections \subseteq DOMAIN room.connections
            /\ \A q \in DOMAIN room'.connections :
                  q # session[s].id => room'.connections[q] = room.connections[q]
            /\ \A q \in Members(room) : room'.outbox[q] = room.outbox[q]
        BY <2>3, <2>4
      <3>6. /\ \A t \in Sessions \ {s} : session'[t] = session[t] /\ sent'[t] = sent[t]
            /\ session'[s].id = session[s].id /\ listener' = listener
        BY <1>1, <1>3, <1>4, <2>5
      <3> HIDE DEF p, pending, given, changes
      <3> QED  BY <2>2, <2>4, <3>1, <3>2, <3>3, <3>4, <3>5, <3>6, OneServed
    <2>8. \A t \in Sessions : session'[t].id = session[t].id
      BY <1>3, <1>4
    <2> QED  BY <1>1, <2>1, <2>6, <2>7, <2>8, LaterStep
  <1> QED  BY <1>5, <1>6

(* Whoever leaves takes nobody else's frames away.                          *)
LEMMA LeaveOrders ==
    ASSUME OInv, AInv', NEW s \in Sessions, Leave(s)
    PROVE  OInv'
  <1> DEFINE p == session[s].id
             own == OwnMember(s)
             before == IF own = {} THEN {[room |-> room, woken |-> {}]} ELSE Outcomes(room, own)
             changes == [reader |-> "left"]
  <1>1. UNCHANGED <<lives, sent, listener>> /\ Set(s, changes)
    BY DEF Leave
  <1>2. /\ DOMAIN session' = Sessions
        /\ \A t \in Sessions \ {s} : session'[t] = session[t]
        /\ \A t \in Sessions : {"id", "reader", "writer", "frame"} \subseteq DOMAIN session'[t]
        /\ session'[s]["id"] = p /\ session'[s]["reader"] = "left"
    BY <1>1, SetDesks DEF OInv
  <1>3. session'[s].id = p /\ session'[s].reader # "new"
    BY <1>2
  <1>4. Desks'
    BY <1>1, <1>2, <1>3 DEF OInv, Desks
  <1>5. \A t \in Sessions : session'[t].id = session[t].id
    BY <1>2, <1>3
  <1>6. CASE room = NoRoom
    <2>1. room' = NoRoom
      BY <1>6 DEF Leave
    <2> QED  BY <1>1, <1>4, <1>5, <2>1, LaterStep
  <1>7. CASE room # NoRoom
    <2>1. PICK o \in before : room' = Kept([o.room EXCEPT !.connections = Without(@, {p})])
      BY <1>7 DEF Leave
    <2> DEFINE r == o.room
               connections == Without(r.connections, {p})
               e == [r EXCEPT !.connections = connections]
    <2>2. room' # NoRoom => room' = e
      BY <2>1, KeptIsSame
    <2>3. ASSUME lives = 1, room' # NoRoom  PROVE Ordered(room', session', sent', listener')
      <3>1. /\ RoomInv(room) /\ Held(room, listener) /\ ListenersAre(listener) /\ Wired(room)
            /\ Ordered(room, session, sent, listener)
        BY <1>7, <2>3 DEF OInv, AInv, IInv, RoomState
      <3>2. RoomInv(r) /\ Ordered(r, session, sent, listener)
        <4>1. CASE own = {}
          BY <3>1, <4>1
        <4>2. CASE own # {}
          <5>1. own \in SUBSET Members(room) /\ o \in Outcomes(room, own)
            BY <4>2 DEF OwnMember
          <5> QED  BY <3>1, <5>1, OutcomeIsRoom, OutcomeOrdered
        <4> QED  BY <4>1, <4>2
      <3>3. DOMAIN connections = DOMAIN r.connections \ {p}
            /\ \A q \in DOMAIN connections : connections[q] = r.connections[q]
        BY DEF Without
      <3> HIDE DEF r, connections
      <3>4. /\ e.life = r.life /\ e.next = r.next /\ e.made = r.made /\ e.peers = r.peers
            /\ e.addresses = r.addresses /\ e.owed = r.owed /\ e.outbox = r.outbox
            /\ e.connections = connections
        BY <3>2 DEF RoomInv, Shape
      <3> HIDE DEF e
      <3>5. Members(e) = Members(r)
        BY <3>4 DEF Members
      <3>6. Parked(e)
        BY <3>2, <3>3, <3>4, <3>5 DEF Ordered, Parked
      <3>7. ServedIs(e, session'[s], sent'[s])
        BY <1>3, <3>3, <3>4 DEF ServedIs
      <3>8. Ordered(e, session', sent', listener)
        BY <1>1, <1>2, <1>3, <3>2, <3>3, <3>4, <3>5, <3>6, <3>7, OneServed
      <3> QED  BY <1>1, <2>2, <2>3, <3>8 DEF e, r, connections
    <2> QED  BY <1>1, <1>4, <1>5, <1>7, <2>3, LaterStep
  <1> QED  BY <1>6, <1>7

-----------------------------------------------------------------------------
(* A listener's steps.                                                      *)

LEMMA ReceiveOrders ==
    ASSUME OInv, AInv', NEW l \in Listeners, NEW x \in Of(l), Receive(l, x)
    PROVE  OInv'
  <1>1. UNCHANGED <<session, sent>> /\ listener[l].phase = "receive"
    BY DEF Receive
  <1>2. IInv /\ Desks'
    BY <1>1 DEF OInv, AInv, Desks
  <1>3. \A y \in Sources : listener'[y[1]].batch[y] = listener[y[1]].batch[y]
    <2>1. listener' = [listener EXCEPT ![l].phase = "take"] /\ DOMAIN listener = Listeners
      BY <1>2 DEF Receive, Phase, IInv, ListenersAre
    <2>2. Listening(l, listener[l])
      BY <1>2 DEF IInv, ListenersAre
    <2>3. \A k \in Listeners : listener'[k].batch = listener[k].batch
      BY <2>1, <2>2 DEF Listening
    <2>4. \A y \in Sources : y[1] \in Listeners
      BY DEF Sources
    <2> QED  BY <2>3, <2>4
  <1>4. CASE FromPeer(x)
    <2>1. PICK o \in Outcomes(room, {}) : room' = o.room
      BY <1>4 DEF FromPeer
    <2>2. room # NoRoom /\ UNCHANGED lives
      BY <1>4 DEF FromPeer, Mapped
    <2> QED  BY <1>1, <1>3, <2>1, <2>2, OutcomeOrders
  <1>5. CASE FromStranger(x)
    <2> DEFINE r == At(Found, x)
    <2>1. PICK o \in Outcomes(r, {}) : room' = o.room
      BY <1>5 DEF FromStranger, At
    <2>2. CountLife
      BY <1>5 DEF FromStranger
    <2>3. x \notin DOMAIN Found.addresses /\ x \notin Found.draining
      BY <1>5 DEF FromStranger, Mapped, AdmissionBlocked, Found, BindRoom
    <2>4. lives' # 0
      BY <1>2, <2>2 DEF CountLife, OInv, IInv
    <2>5. ASSUME lives' = 1  PROVE Ordered(room', session', sent', listener')
      <3>1. (room = NoRoom => lives = 0) /\ (room # NoRoom => lives = 1)
        BY <1>2, <2>2, <2>5 DEF CountLife, IInv
      <3>2. Ordered(Found, session, sent, listener)
        BY <3>1, FoundOrdered
      <3>3. RoomInv(Found) /\ Held(Found, listener) /\ Wired(Found) /\ ListenersAre(listener)
        BY <1>2, FoundIsRoom, NewRoomIsIdle DEF OInv, IInv
      <3>4. RoomInv(r) /\ Held(r, listener) /\ Wired(r)
        BY <1>1, <2>3, <3>3, AtIsRoom, AtIsIdle
      <3>5. Ordered(r, session, sent, listener)
        BY <1>1, <2>3, <3>2, <3>3, AtOrdered
      <3> HIDE DEF r
      <3>6. Ordered(o.room, session, sent, listener)
        BY <3>3, <3>4, <3>5, OutcomeOrdered
      <3>7. Ordered(o.room, session, sent, listener')
        BY <1>3, <3>6 DEF Ordered, Lines
      <3> QED  BY <1>1, <2>1, <3>7
    <2> QED  BY <1>1, <1>2, <2>4, <2>5 DEF OInv
  <1>6. CASE Unheard(x)
    <2>1. UNCHANGED <<room, lives>>
      BY <1>6 DEF Unheard
    <2>2. lives = 1 /\ room # NoRoom => Ordered(room, session, sent, listener')
      BY <1>3 DEF OInv, Ordered, Lines
    <2> QED  BY <1>1, <1>2, <2>1, <2>2, LaterStep
  <1> QED  BY <1>4, <1>5, <1>6 DEF Receive

LEMMA WokeOrders ==
    ASSUME OInv, AInv', NEW l \in Listeners, Woke(l)
    PROVE  OInv'
  <1>1. UNCHANGED <<room, lives, session, sent>>
    BY DEF Woke
  <1>2. IInv /\ Desks'
    BY <1>1 DEF OInv, AInv, Desks
  <1>3. \A y \in Sources : listener'[y[1]].batch[y] = listener[y[1]].batch[y]
    <2>1. listener' = [listener EXCEPT ![l].phase = "take"] /\ DOMAIN listener = Listeners
      BY <1>2 DEF Woke, Phase, IInv, ListenersAre
    <2>2. Listening(l, listener[l])
      BY <1>2 DEF IInv, ListenersAre
    <2>3. \A k \in Listeners : listener'[k].batch = listener[k].batch
      BY <2>1, <2>2 DEF Listening
    <2>4. \A y \in Sources : y[1] \in Listeners
      BY DEF Sources
    <2> QED  BY <2>3, <2>4
  <1>4. lives = 1 /\ room # NoRoom => Ordered(room, session, sent, listener')
    BY <1>3 DEF OInv, Ordered, Lines
  <1> QED  BY <1>1, <1>2, <1>4, LaterStep

(* Neither sessions nor frames change hands in a listener's other steps.    *)
LEMMA ListenerLater ==
    ASSUME OInv, AInv', UNCHANGED <<lives, session, sent>>, room = NoRoom => room' = NoRoom,
           lives = 1 /\ room # NoRoom /\ room' # NoRoom =>
               Ordered(room', session, sent, listener')
    PROVE  OInv'
  <1>1. Desks'
    BY DEF OInv, Desks
  <1> QED  BY <1>1, LaterStep

(* A room whose members keep what they had, but those behind addresses.     *)
LEMMA SameSessions ==
    ASSUME NEW r, RoomInv(r), NEW e, NEW se, NEW sn, NEW ls, Ordered(r, se, sn, ls),
           e.next = r.next, e.made = r.made, e.connections = r.connections, e.peers = r.peers,
           Members(e) = Members(r),
           \A p \in Members(r) : p \notin DOMAIN r.peers => e.outbox[p] = r.outbox[p]
    PROVE  Parked(e) /\ Seating(e, se) /\ Served(e, se, sn)
  <1>1. Parked(e) /\ Seating(e, se)
    BY DEF Ordered, Parked, Seating
  <1>2. Served(e, se, sn)
    <2> SUFFICES ASSUME NEW t \in Sessions  PROVE ServedIs(e, se[t], sn[t])
      BY DEF Served
    <2> DEFINE q == se[t].id
    <2>1. ServedIs(r, se[t], sn[t]) /\ q \notin DOMAIN r.peers
      BY DEF Ordered, Served, Seating
    <2>2. Stored(e, q) = Stored(r, q)
      BY <2>1 DEF Stored
    <2> QED  BY <2>1, <2>2 DEF ServedIs, Told
  <1> QED  BY <1>1, <1>2

LEMMA TakenOrdered ==
    ASSUME RoomInv(room), NEW se, NEW sn, NEW ls, ListenersAre(ls), Ordered(room, se, sn, ls),
           NEW l \in Listeners, ls[l].phase = "take", NEW ls2, ls2[l].batch = Batch(l),
           \A k \in Listeners \ {l} : ls2[k] = ls[k]
    PROVE  Ordered(Taken(room, l), se, sn, ls2)
  <1> DEFINE e == Taken(room, l)
  <1>1. /\ e.life = room.life /\ e.next = room.next /\ e.made = room.made
        /\ e.connections = room.connections /\ e.peers = room.peers
        /\ e.addresses = room.addresses
        /\ e.owed = [x \in Sources |-> IF x \in Of(l) THEN << >> ELSE room.owed[x]]
        /\ e.outbox = [p \in DOMAIN room.outbox |->
              IF p \in DOMAIN room.peers /\ room.peers[p] \in Of(l) THEN << >>
              ELSE room.outbox[p]]
    BY DEF Taken, RoomInv, Shape
  <1>2. RoomInv(e)
    BY TakenIsRoom
  <1> HIDE DEF e
  <1>3. Members(e) = Members(room)
    BY <1>1 DEF Members
  <1>4. \A p \in Members(room) : p \notin DOMAIN room.peers => e.outbox[p] = room.outbox[p]
    BY <1>1 DEF Members
  <1>5. Parked(e) /\ Seating(e, se) /\ Served(e, se, sn)
    BY <1>1, <1>3, <1>4, SameSessions
  <1>6. ASSUME NEW x \in Sources  PROVE InLine(e, x, ls2[x[1]].batch[x])
    <2>1. InLine(room, x, ls[x[1]].batch[x]) /\ x[1] \in Listeners
      BY DEF Ordered, Lines, Sources
    <2>2. CASE x \in Of(l)
      <3> DEFINE c == Carried(room, x)
      <3>1. x[1] = l /\ ls[l].batch[x] = << >> /\ ls2[l].batch[x] = c
        BY <2>2 DEF Of, ListenersAre, Listening, Nothing, Batch, Live, Carried
      <3>2. c \in Seq(Datagram(room))
        BY CarriedIs
      <3>3. Carried(e, x) = << >>
        <4>1. CASE x \in DOMAIN room.addresses
          <5> DEFINE p == room.addresses[x]
          <5>1. p \in Members(room) /\ p \in DOMAIN room.peers /\ room.peers[p] = x
            BY <4>1, CarriedIs
          <5>2. e.outbox[p] = << >>
            BY <1>1, <2>2, <5>1 DEF Members
          <5>3. Carried(e, x) = Datagrams(e, e.outbox[p], p)
            BY <1>1, <1>2, <4>1, CarriedIs
          <5> QED  BY <5>2, <5>3 DEF Datagrams
        <4>2. CASE x \notin DOMAIN room.addresses
          <5>1. Carried(e, x) = e.owed[x]
            BY <1>1, <1>2, <4>2, CarriedIs
          <5> QED  BY <1>1, <2>2, <5>1
        <4> QED  BY <4>1, <4>2
      <3> HIDE DEF c
      <3>4. << >> \o c = c /\ c \o << >> = c
        BY <3>2
      <3>5. InLine(room, x, << >>)
        BY <2>1, <3>1
      <3>6. InLine(e, x, c)
        BY <1>1, <1>3, <3>3, <3>4, <3>5 DEF InLine, OwnsLine, c
      <3> QED  BY <3>1, <3>6
    <2>3. CASE x \notin Of(l)
      <3>1. x[1] # l
        BY <2>3 DEF Of
      <3>2. \A f, q : Datagrams(e, f, q) = Datagrams(room, f, q)
        BY <1>1 DEF Datagrams
      <3>3. e.owed[x] = room.owed[x]
        BY <1>1, <2>3
      <3>4. CASE x \in DOMAIN room.addresses
        <4> DEFINE p == room.addresses[x]
        <4>1. p \in Members(room) /\ room.peers[p] = x
          BY <3>4, CarriedIs
        <4>2. e.outbox[p] = room.outbox[p]
          BY <1>1, <2>3, <4>1 DEF Members
        <4>3. Datagrams(e, e.outbox[p], p) = Datagrams(room, room.outbox[p], p)
          BY <3>2, <4>2
        <4>4. e.addresses[x] = p /\ x \in DOMAIN e.addresses
          BY <1>1, <3>4
        <4>5. Carried(e, x) = Carried(room, x)
          BY <3>3, <3>4, <4>3, <4>4 DEF Carried
        <4> QED  BY <1>1, <1>3, <2>1, <3>1, <4>5, SameLine
      <3>5. CASE x \notin DOMAIN room.addresses
        <4>1. Carried(e, x) = Carried(room, x)
          BY <1>1, <3>3, <3>5 DEF Carried
        <4> QED  BY <1>1, <1>3, <2>1, <3>1, <4>1, SameLine
      <3> QED  BY <3>4, <3>5
    <2> QED  BY <2>2, <2>3
  <1> QED  BY <1>5, <1>6 DEF Ordered, Lines, e

(* The batch of a listener is what the room held for its addresses.         *)
LEMMA TakeOrders ==
    ASSUME OInv, AInv', NEW l \in Listeners, Take(l)
    PROVE  OInv'
  <1>1. UNCHANGED <<lives, session, sent>> /\ listener[l].phase = "take"
    BY DEF Take
  <1>2. CASE room = NoRoom
    BY <1>1, <1>2, ListenerLater DEF Take
  <1>3. CASE room # NoRoom
    <2> DEFINE b == [phase |-> "send", batch |-> Batch(l), tombstones |-> room.draining \cap Of(l)]
    <2>1. listener' = [listener EXCEPT ![l] = b] /\ room' = Taken(room, l)
      BY <1>3 DEF Take
    <2>2. b.batch = Batch(l)
      OBVIOUS
    <2> HIDE DEF b
    <2>3. listener'[l] = b /\ \A k \in Listeners \ {l} : listener'[k] = listener[k]
      BY <2>1, PhasesMove DEF OInv
    <2>4. RoomInv(room) /\ ListenersAre(listener)
      BY <1>3 DEF OInv, AInv, IInv, RoomState
    <2>5. lives = 1 => Ordered(Taken(room, l), session, sent, listener')
      BY <1>1, <1>3, <2>2, <2>3, <2>4, TakenOrdered DEF OInv
    <2> QED  BY <1>1, <1>3, <2>1, <2>5, ListenerLater
  <1> QED  BY <1>2, <1>3

LEMMA SendToOrders ==
    ASSUME OInv, AInv', NEW l \in Listeners, NEW x \in Of(l), SendTo(l, x)
    PROVE  OInv'
  <1> DEFINE b == listener[l]
             u == b.batch[x]
             batch == [b.batch EXCEPT ![x] = Tail(@)]
             c == [b EXCEPT !.batch = batch]
  <1>1. UNCHANGED <<room, lives, session, sent>> /\ u # << >>
    BY DEF SendTo
  <1>2. IInv /\ ListenersAre(listener) /\ Listening(l, b) /\ x \in Sources /\ x[1] = l
    BY DEF OInv, AInv, IInv, ListenersAre, Of
  <1>3. listener' = [listener EXCEPT ![l] = c]
    BY DEF SendTo
  <1>4. /\ batch[x] = Tail(u)
        /\ \A y \in Of(l) : y # x => batch[y] = b.batch[y]
    BY <1>2 DEF Listening
  <1> HIDE DEF batch
  <1>5. c.batch = batch
    BY <1>2 DEF Listening
  <1> HIDE DEF c
  <1>6. listener'[l] = c /\ \A k \in Listeners \ {l} : listener'[k] = listener[k]
    BY <1>3, PhasesMove DEF OInv
  <1>7. ASSUME lives = 1, room # NoRoom  PROVE Ordered(room, session, sent, listener')
    <2>1. /\ RoomInv(room) /\ Held(room, listener)
          /\ Ordered(room, session, sent, listener)
      BY <1>2, <1>7 DEF OInv, IInv, RoomState
    <2>2. InLine(room, x, u)
      BY <1>2, <2>1 DEF Ordered, Lines
    <2> DEFINE w == Carried(room, x)
    <2>3. u \in Seq(Datagram(room)) /\ w \in Seq(Datagram(room))
      BY <1>2, <2>1, CarriedIs DEF Held, HeldBatch
    <2>4. u \o w # << >> /\ u \o w \in Seq(Datagram(room)) /\ Tail(u) \o w = Tail(u \o w)
      <3> HIDE DEF u, w
      <3> QED  BY <1>1, <2>3
    <2>5. InLine(room, x, Tail(u))
      <3>1. PICK p \in DOMAIN room.made : OwnsLine(room, x, p) /\ Line(u \o w, p, room.made[p])
        BY <2>2, <2>4 DEF InLine
      <3>2. room.made[p] \in Int
        BY <2>1 DEF RoomInv, Registered
      <3> HIDE DEF u, w
      <3>3. Line(Tail(u \o w), p, room.made[p])
        BY <2>4, <3>1, <3>2, LineTail
      <3> QED  BY <2>4, <3>1, <3>3 DEF InLine, w
    <2>6. ASSUME NEW y \in Sources  PROVE InLine(room, y, listener'[y[1]].batch[y])
      <3>1. InLine(room, y, listener[y[1]].batch[y]) /\ y[1] \in Listeners
        BY <2>1 DEF Ordered, Lines, Sources
      <3>2. CASE y = x
        BY <1>2, <1>4, <1>5, <1>6, <2>5, <3>2
      <3>3. CASE y # x /\ y[1] = l
        <4>1. y \in Of(l)
          BY <3>3 DEF Of
        <4> QED  BY <1>4, <1>5, <1>6, <3>1, <3>3, <4>1
      <3>4. CASE y[1] # l
        BY <1>6, <3>1, <3>4
      <3> QED  BY <3>2, <3>3, <3>4
    <2> QED  BY <2>1, <2>6 DEF Ordered, Lines
  <1> QED  BY <1>1, <1>7, ListenerLater

LEMMA FinishOrders ==
    ASSUME OInv, AInv', NEW l \in Listeners, Finish(l)
    PROVE  OInv'
  <1> DEFINE c == [phase |-> "receive", batch |-> listener[l].batch, tombstones |-> {}]
             inflight == room.inflight \ {l}
             draining == room.draining \ Tombstones(l)
             e == [room EXCEPT !.inflight = inflight, !.draining = draining]
  <1>1. UNCHANGED <<lives, session, sent>> /\ listener' = [listener EXCEPT ![l] = c]
    BY DEF Finish
  <1>2. c.batch = listener[l].batch
    OBVIOUS
  <1>3. (room = NoRoom => room' = NoRoom) /\ (room # NoRoom => room' = Kept(e))
    BY DEF Finish
  <1> HIDE DEF c, inflight, draining
  <1>4. \A k \in Listeners : listener'[k].batch = listener[k].batch
    BY <1>1, <1>2, PhasesMove DEF OInv
  <1>5. ASSUME lives = 1, room # NoRoom, room' # NoRoom
        PROVE  Ordered(room', session, sent, listener')
    <2>1. RoomInv(room) /\ Ordered(room, session, sent, listener)
      BY <1>5 DEF OInv, AInv, IInv, RoomState
    <2>2. room' = e
      <3> HIDE DEF e
      <3> QED  BY <1>3, <1>5, KeptIsSame
    <2>3. /\ e.life = room.life /\ e.next = room.next /\ e.made = room.made
          /\ e.peers = room.peers /\ e.addresses = room.addresses /\ e.owed = room.owed
          /\ e.outbox = room.outbox /\ e.connections = room.connections
      BY <2>1 DEF RoomInv, Shape
    <2> HIDE DEF e
    <2>4. Members(e) = Members(room)
      BY <2>3 DEF Members
    <2>5. Parked(e) /\ Seating(e, session) /\ Served(e, session, sent)
      BY <2>1, <2>3, <2>4, SameSessions
    <2>6. ASSUME NEW x \in Sources  PROVE InLine(e, x, listener'[x[1]].batch[x])
      <3>1. InLine(room, x, listener[x[1]].batch[x]) /\ x[1] \in Listeners
        BY <2>1 DEF Ordered, Lines, Sources
      <3>2. \A f, p : Datagrams(e, f, p) = Datagrams(room, f, p)
        BY <2>3 DEF Datagrams
      <3>3. Carried(e, x) = Carried(room, x)
        BY <2>3, <3>2 DEF Carried
      <3> QED  BY <1>4, <2>3, <2>4, <3>1, <3>3, SameLine
    <2> QED  BY <2>2, <2>5, <2>6 DEF Ordered, Lines
  <1> QED  BY <1>1, <1>3, <1>5, ListenerLater

-----------------------------------------------------------------------------
LEMMA NextOrders ==
    ASSUME OInv, [Next]_vars
    PROVE  OInv'
  <1>1. AInv'
    BY NextIsHeard DEF OInv
  <1>2. CASE UNCHANGED <<room, lives, session, sent, listener>>
    <2>1. lives = 1 /\ room # NoRoom => Ordered(room, session, sent, listener)
      BY DEF OInv
    <2> QED  BY <1>1, <1>2, <2>1, ListenerLater
  <1>3. ASSUME NEW s \in Sessions, Reads(s) \/ Writes(s)
        PROVE  OInv'
    <2>1. Ping(s) => UNCHANGED <<room, lives, session, sent, listener>>
      BY DEF Ping
    <2> QED  BY <1>1, <1>2, <1>3, <2>1, JoinOrders, EnvelopeOrders, StopReadingOrders,
                LeaveOrders, LookOrders, SendOrders, TakePendingOrders, NotifiedOrders
             DEF Reads, Writes
  <1>4. ASSUME NEW l \in Listeners, Drains(l) \/ \E x \in Of(l) : Receive(l, x)
        PROVE  OInv'
    BY <1>1, <1>4, WokeOrders, TakeOrders, FinishOrders, SendToOrders, ReceiveOrders
       DEF Drains
  <1>5. ASSUME NEW w \in Waiters, Notify(w)
        PROVE  OInv'
    BY <1>2, <1>5 DEF Notify
  <1>6. CASE UNCHANGED vars
    BY <1>2, <1>6 DEF vars
  <1> QED  BY <1>1, <1>3, <1>4, <1>5, <1>6, TickOrders, CloseRoomOrders DEF Next

LEMMA OrderedAtFirst ==
    ASSUME Init
    PROVE  OInv
  <1>1. IInv
    BY RoomHoldsAtFirst
  <1>2. room = NoRoom /\ lives = 0
    BY DEF Init
  <1>3. Seats
    BY DEF Init, Seats
  <1>4. AInv
    BY <1>1, <1>2, <1>3 DEF AInv, WriterIdle, ListenerIdle
  <1>5. Desks
    BY DEF Init, Desks
  <1>6. \A s \in Sessions : session[s].id = 0
    BY DEF Init
  <1> QED  BY <1>2, <1>4, <1>5, <1>6 DEF OInv

(* What waits for an address is a line.                                     *)
LEMMA OrderedWaits ==
    ASSUME OInv, lives = 1, NEW x \in Sources
    PROVE  WaitsInOrder(x)
  <1>1. IInv
    BY DEF OInv, AInv
  <1>2. CASE room = NoRoom
    <2>1. Unsent(x) = << >>
      BY <1>1, <1>2, UnsentIsOwn
    <2> QED  BY <2>1 DEF WaitsInOrder
  <1>3. CASE room # NoRoom
    <2> DEFINE u == Unsent(x)
    <2>1. RoomInv(room) /\ InLine(room, x, listener[x[1]].batch[x])
      BY <1>1, <1>3 DEF OInv, Ordered, Lines, IInv, RoomState
    <2>2. u = listener[x[1]].batch[x] \o Carried(room, x)
      BY <1>3 DEF Unsent, Live, Carried
    <2>3. u \in Seq(Datagram(room))
      BY <1>1, <1>3, UnsentIsOwn
    <2> HIDE DEF u
    <2>4. CASE u = << >>
      BY <2>4 DEF WaitsInOrder, u
    <2>5. CASE u # << >>
      <3>1. PICK p \in DOMAIN room.made : Line(u, p, room.made[p])
        BY <2>1, <2>2, <2>5 DEF InLine
      <3>2. room.made[p] \in Int /\ Len(u) \in Nat
        BY <2>1, <2>3 DEF RoomInv, Registered
      <3>3. ASSUME NEW i \in 1..Len(u)
            PROVE  IF i < Len(u) THEN u[i + 1].frame = u[i].frame + 1
                   ELSE u[i].frame = room.made[u[i].id]
        <4>1. u[i].id = p /\ u[i].frame = room.made[p] - Len(u) + i
          BY <3>1 DEF Line
        <4>2. CASE i < Len(u)
          <5>1. i + 1 \in 1..Len(u)
            BY <3>2, <4>2
          <5>2. u[i + 1].frame = room.made[p] - Len(u) + (i + 1)
            BY <3>1, <5>1 DEF Line
          <5>3. \A m \in Int, n \in Nat : m - n + (i + 1) = (m - n + i) + 1
            OBVIOUS
          <5>4. u[i + 1].frame = u[i].frame + 1
            BY <3>2, <4>1, <5>2, <5>3
          <5> QED  BY <4>2, <5>4
        <4>3. CASE ~(i < Len(u))
          <5>1. i = Len(u)
            BY <3>2, <4>3
          <5> QED  BY <3>2, <4>1, <4>3, <5>1
        <4> QED  BY <4>2, <4>3
      <3> QED  BY <3>3 DEF WaitsInOrder, u
    <2> QED  BY <2>4, <2>5
  <1> QED  BY <1>2, <1>3

(* What a session was sent and what waits for it is all that was made.      *)
LEMMA ServedInOrder ==
    ASSUME OInv, lives = 1, NEW s \in Sessions, Connected(s), session[s].writer # "done"
    PROVE  sent[s] \o InHand(s) \o Waiting(s) = [i \in 1..room.made[session[s].id] |-> i]
  <1> DEFINE p == session[s].id
             h == Had(session[s], sent[s])
             w == Stored(room, p)
             u == h \o w
             m == room.made[p]
  <1>1. room # NoRoom /\ p \in DOMAIN room.connections
    BY DEF Connected
  <1>2. /\ RoomInv(room) /\ Parked(room) /\ ServedIs(room, session[s], sent[s])
    BY <1>1 DEF OInv, AInv, IInv, RoomState, Ordered, Served
  <1>3. /\ sent[s] \in Seq(Int) /\ (session[s].writer = "send" => session[s].frame \in Int)
        /\ Len(u) = m /\ Tallied(u, m)
    BY <1>1, <1>2 DEF ServedIs, Told
  <1>4. h \in Seq(Int)
    <2>1. << >> \in Seq(Int) /\ (session[s].writer = "send" => << session[s].frame >> \in Seq(Int))
      BY <1>3
    <2> QED  BY <1>3, <2>1 DEF Had
  <1>5. w \in Seq(Int)
    <2>1. room.connections[p].pending \in Seq(Int)
          /\ (p \in Members(room) => room.outbox[p] \in Seq(Int))
      BY <1>1, <1>2 DEF Parked, RoomInv, Registered, Members
    <2> QED  BY <2>1 DEF Stored
  <1>6. sent[s] \o InHand(s) \o Waiting(s) = u
    BY DEF Had, InHand, Stored, Waiting
  <1> HIDE DEF h, w, p
  <1>7. u \in Seq(Int) /\ Len(u) \in Nat
    BY <1>4, <1>5
  <1> HIDE DEF u
  <1>8. \A i \in 1..Len(u) : u[i] = i
    BY <1>3, <1>7 DEF Tallied
  <1>9. u = [i \in 1..Len(u) |-> i]
    BY <1>7, <1>8
  <1> QED  BY <1>3, <1>6, <1>9 DEF p

(* No frame that the host owes is lost, doubled or overtaken on its way,    *)
(* whichever task holds it when the host removes the member: the frames a   *)
(* write loop was handed, holds and has still to take (websocket.rs         *)
(* write_loop, runtime.rs apply and removal_owed), and the datagrams a      *)
(* listener took and the room still owes (runtime.rs take_udp, udp.rs).     *)
THEOREM OwedKeepsOrder == Spec => []OwedInOrder
  <1>1. OInv => OwedInOrder
    BY OrderedWaits, ServedInOrder DEF OwedInOrder
  <1> QED  BY <1>1, OrderedAtFirst, NextOrders, PTL DEF Spec
=============================================================================
